------------------------------ MODULE RuleClient ------------------------------
(***************************************************************************)
(* bpfd create and bpfd rm (create.go, remove.go) against daemons that     *)
(* start, end and take over the socket: one request for each rule or name, *)
(* over a connection that is made when it is needed, and an end at the     *)
(* first error.                                                            *)
(***************************************************************************)
EXTENDS Daemon

CONSTANTS
  Clients,      \* runs of the command
  Commands      \* [op |-> "create", files] or [op |-> "rm", names]

ASSUME RuleClientAssumption ==
  \A cmd \in Commands :
    /\ cmd.op = "create" => Cardinality(ParseFiles(cmd.files)) \in Nat
    /\ cmd.op = "rm" => cmd.names \in Seq(STRING)

VARIABLES
  client,       \* each run's state
  displaced     \* history: rules that other requests took out of d's table

vars == <<daemonVars, client, displaced>>

Waiting == [pc |-> "new", cmd |-> << >>, conn |-> NoDaemon, todo |-> << >>, reply |-> "none",
            printed |-> {}]
CreateRequest(rule) == [op |-> "create", rule |-> rule]
RemoveRequest(name) == [op |-> "rm", tracer |-> "", name |-> name]
Requests ==
  {CreateRequest(r) : r \in UNION {ParseFiles(cmd.files) :
                                     cmd \in {cmd \in Commands : cmd.op = "create"}}}
  \union {RemoveRequest(n) : n \in UNION {ToSet(cmd.names) :
                                            cmd \in {cmd \in Commands : cmd.op = "rm"}}}

\* The orders in which a range over the maps may produce the rules.
Orders(rules) == {s \in [1..Cardinality(rules) -> rules] : ToSet(s) = rules}

-----------------------------------------------------------------------------
(* The command.                                                            *)

\* The head of the range over the rules or names.
Loop(todo) == IF todo = << >> THEN "ok" ELSE "sending"

\* Run up to the first request; the dial does not wait for a connection.
CreateRun(c) ==
  /\ client[c].pc = "new"
  /\ \E cmd \in {cmd \in Commands : cmd.op = "create"} :
       IF AllParse(cmd.files)
       THEN \E order \in Orders(ParseFiles(cmd.files)) :
              client' = [client EXCEPT ![c].pc = Loop(order), ![c].cmd = cmd,
                           ![c].todo = [i \in DOMAIN order |-> CreateRequest(order[i])]]
       ELSE client' = [client EXCEPT ![c].pc = "failed", ![c].cmd = cmd]
  /\ UNCHANGED <<daemonVars, displaced>>

RemoveRun(c) ==
  /\ client[c].pc = "new"
  /\ \E cmd \in {cmd \in Commands : cmd.op = "rm"} :
       client' = [client EXCEPT ![c].pc = Loop(cmd.names), ![c].cmd = cmd,
                    ![c].todo = [i \in DOMAIN cmd.names |-> RemoveRequest(cmd.names[i])]]
  /\ UNCHANGED <<daemonVars, displaced>>

Connected(c) == client[c].conn \in listening

\* Faulty variant of Connect: it waits for a daemon.
ConnectAndWait(c) ==
  /\ client[c].pc = "sending" /\ ~Connected(c) /\ socket \in listening
  /\ client' = [client EXCEPT ![c].conn = socket]
  /\ UNCHANGED <<daemonVars, displaced>>

\* gRPC connects, for the first time or again, to whoever the path leads to; the
\* request fails if nobody listens there.
Connect(c) ==
  /\ client[c].pc = "sending" /\ ~Connected(c)
  /\ client' = IF socket \in listening THEN [client EXCEPT ![c].conn = socket]
               ELSE [client EXCEPT ![c].pc = "failed"]
  /\ UNCHANGED <<daemonVars, displaced>>

\* Faulty variant of Send: the name is printed first.
SendPrinted(c) ==
  /\ client[c].pc = "sending" /\ Connected(c)
  /\ client' = [client EXCEPT ![c].pc = "sent", ![c].reply = "none",
                  ![c].printed = @ \union {<<Head(client[c].todo), client[c].conn>>}]
  /\ UNCHANGED <<daemonVars, displaced>>

Send(c) ==
  /\ client[c].pc = "sending" /\ Connected(c)
  /\ client' = [client EXCEPT ![c].pc = "sent", ![c].reply = "none"]
  /\ UNCHANGED <<daemonVars, displaced>>

\* Faulty variant of Answer: an error is printed and the next request is sent.
AnswerAndGoOn(c) ==
  /\ client[c].pc = "sent" /\ client[c].reply # "none"
  /\ LET rest == Tail(client[c].todo) IN
       client' = [client EXCEPT ![c].todo = rest,
                    ![c].pc = Loop(rest),
                    ![c].printed = IF client[c].reply = "refused" THEN @
                                   ELSE @ \union {<<Head(client[c].todo), client[c].conn>>}]
  /\ UNCHANGED <<daemonVars, displaced>>

\* Faulty variant of Answer: what was refused is asked again.
AnswerAndRetry(c) ==
  /\ client[c].pc = "sent" /\ client[c].reply # "none"
  /\ LET rest == Tail(client[c].todo) IN
       client' = IF client[c].reply = "refused" THEN [client EXCEPT ![c].pc = "sending"]
                 ELSE [client EXCEPT ![c].todo = rest,
                         ![c].pc = Loop(rest),
                         ![c].printed = @ \union {<<Head(client[c].todo), client[c].conn>>}]
  /\ UNCHANGED <<daemonVars, displaced>>

\* The name is printed and the next request is sent, or the first refusal ends the
\* command.
Answer(c) ==
  /\ client[c].pc = "sent" /\ client[c].reply # "none"
  /\ LET rest == Tail(client[c].todo) IN
       client' = IF client[c].reply = "refused" THEN [client EXCEPT ![c].pc = "failed"]
                 ELSE [client EXCEPT ![c].todo = rest,
                         ![c].pc = Loop(rest),
                         ![c].printed = @ \union {<<Head(client[c].todo), client[c].conn>>}]
  /\ UNCHANGED <<daemonVars, displaced>>

\* The daemon is gone: the request fails, handled or not, its reply read or not; gRPC
\* may send one that no handler has seen once more.
ConnectionLost(c) ==
  /\ client[c].pc = "sent" /\ ~Connected(c)
  /\ \/ client' = [client EXCEPT ![c].pc = "failed"]
     \/ client[c].reply = "none" /\ client' = [client EXCEPT ![c].pc = "sending"]
  /\ UNCHANGED <<daemonVars, displaced>>

-----------------------------------------------------------------------------
(* The daemon's handlers, a whole request at once: that they take effect so, *)
(* however their many steps and those of others mix, RuleTable shows.        *)

\* Faulty variant of Accepted: only what Parse has checked already.
AcceptedIfParsed(rule) == Validate(rule, Runtimes)

Accepted(rule) == Validate(rule, Runtimes) /\ ValidateTracersAndActions(rule, Tracers, Actions)

\* A request waits until the daemon serves.
Asked(c) == client[c].pc = "sent" /\ client[c].reply = "none" /\ pc[client[c].conn] = "serving"
Change(c, rules) ==
  LET d == client[c].conn IN
  /\ table' = [table EXCEPT ![d] = rules]
  /\ displaced' = [displaced EXCEPT ![d] = @ \union (table[d] \ rules)]
  /\ client' = [client EXCEPT ![c].reply = "ok"]
  /\ UNCHANGED <<pc, status, signal, badEnv, loaded, started, socket, listening,
                 warned, boundSince, removedSince>>

CreateRule(c) ==
  /\ Asked(c) /\ Head(client[c].todo).op = "create"
  /\ LET rule == Head(client[c].todo).rule IN
       IF Accepted(rule) THEN Change(c, Put(table[client[c].conn], rule))
       ELSE client' = [client EXCEPT ![c].reply = "refused"] /\ UNCHANGED <<daemonVars, displaced>>

RemoveRule(c) ==
  /\ Asked(c) /\ Head(client[c].todo).op = "rm"
  /\ LET name == Head(client[c].todo).name IN
       IF name = "" THEN /\ client' = [client EXCEPT ![c].reply = "refused"]
                         /\ UNCHANGED <<daemonVars, displaced>>
       ELSE Change(c, {r \in table[client[c].conn] : r.name # name})

-----------------------------------------------------------------------------
Init == InitDaemon /\ client = [c \in Clients |-> Waiting] /\ displaced = [d \in Daemons |-> {}]

Requesting(c) == Connect(c) \/ Send(c) \/ Answer(c) \/ ConnectionLost(c)
Handling(c) == CreateRule(c) \/ RemoveRule(c)

Next ==
  \/ \E d \in Daemons : NextDaemon(d) /\ UNCHANGED <<client, displaced>>
  \/ \E c \in Clients : CreateRun(c) \/ RemoveRun(c) \/ Requesting(c) \/ Handling(c)

\* Run, the signal's goroutine, the handlers and the commands run on; nothing makes
\* a daemon or a command start, or a signal come.
Fairness ==
  /\ \A d \in Daemons : WF_vars(Main(d) /\ UNCHANGED <<client, displaced>>)
  /\ \A d \in Daemons : WF_vars(UnloadAll(d) /\ UNCHANGED <<client, displaced>>)
  /\ \A c \in Clients : WF_vars(Requesting(c)) /\ WF_vars(Handling(c))

Spec == Init /\ [][Next]_vars /\ Fairness

-----------------------------------------------------------------------------
\* The daemon's types, and: a connection is to a daemon that has listened, and only
\* a request that was sent has an answer to come.
TypeOK ==
  /\ DaemonTypeOK
  /\ \A c \in Clients :
       /\ client[c].pc \in {"new", "sending", "sent", "ok", "failed"}
       /\ client[c].conn # NoDaemon => pc[client[c].conn] \in {"load", "serving", "exited"}
       /\ client[c].pc = "sent" => client[c].conn # NoDaemon /\ client[c].todo # << >>
       /\ client[c].reply # "none" => client[c].conn # NoDaemon

\* A name is printed only for a request that has taken effect: the rule is in force in
\* the daemon that took it, unless that has ended or another request displaced it; also
\* if the command fails later, or goes on with another daemon.
PrintedInForce ==
  \A c \in Clients, d \in Daemons :
    \A req \in {req \in {p[1] : p \in client[c].printed} :
                  <<req, d>> \in client[c].printed /\ req.op = "create"} :
      pc[d] = "exited" \/ req.rule \in table[d] \union displaced[d]

\* bpfd create ends without an error only if every rule of its files was taken, one
\* for each tracer and name; refusals, lost replies and restarts show as an error.
SuccessMeansAll ==
  \A c \in Clients :
    client[c].pc = "ok" /\ client[c].cmd.op = "create" =>
      {p[1].rule : p \in client[c].printed} = ParseFiles(client[c].cmd.files)

\* What is between a command and its next name: the daemons that can still fail it,
\* and how far its request has got with the one it is connected to.
Alive == {d \in Daemons : pc[d] # "exited"}
ToGo(c) == CASE client[c].pc \in {"ok", "failed"}      -> 0
             [] client[c].pc = "new"                   -> 6
             [] client[c].pc = "sending"               -> IF Connected(c) THEN 3 ELSE 4
             [] client[c].pc = "sent" /\ ~Connected(c) -> 5
             [] OTHER -> IF client[c].reply = "none" THEN 2 ELSE 1
Nearer(c) ==
  \/ Len(client'[c].todo) < Len(client[c].todo)
  \/ /\ client'[c].todo = client[c].todo
     /\ \/ Alive' \subseteq Alive /\ Alive' # Alive
        \/ Alive' = Alive /\ ToGo(c)' < ToGo(c)

\* Each step for a command brings it nearer to its end, though a request is sent again
\* when a daemon ends: only for as many daemons as there are.  And no other command's
\* step, and no daemon's that leaves all alive, throws it back.
CommandsRunDown ==
  [][\A c \in Clients :
       /\ Requesting(c) \/ Handling(c) => Nearer(c)
       /\ client[c].pc # "new" /\ ~Nearer(c) =>
            /\ client'[c] = client[c]
            /\ Alive' = Alive /\ ToGo(c)' = ToGo(c)]_vars

\* A command comes to an end, whatever becomes of the daemon it talks to.
CommandsEnd == \A c \in Clients : client[c].pc = "sending" ~> client[c].pc \in {"ok", "failed"}
=============================================================================
