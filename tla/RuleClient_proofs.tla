--------------------------- MODULE RuleClient_proofs ---------------------------
(***************************************************************************)
(* Proofs about the daemons and the commands, for any number of both, any  *)
(* rules, tracers and actions: types, the socket's path, the rules that    *)
(* are in force, what a command prints, and how it comes to its end.       *)
(***************************************************************************)
EXTENDS RuleClient, SequenceTheorems, TLAPS

-----------------------------------------------------------------------------
(* The daemons.                                                            *)

\* The functions on Daemons of whose values nothing needs to be known.
Shape ==
  /\ DOMAIN table = Daemons
  /\ DOMAIN loaded = Daemons /\ DOMAIN started = Daemons
  /\ DOMAIN boundSince = Daemons /\ DOMAIN removedSince = Daemons

\* A socket that a daemon finds after its removal of the old one is another's, unless
\* it has warned that the removal failed.
ListenedSince ==
  \A d \in Daemons :
    pc[d] = "listen" /\ socket # NoDaemon => boundSince[d] \ {d} # {} \/ d \in warned

DaemonInv ==
  /\ Shape
  /\ DaemonTypeOK
  /\ ListenedSince
  /\ ListenFailsForCause
  /\ ReachableUnlessReplaced

LEMMA ExitStep ==
  ASSUME DaemonInv, NEW d \in Daemons, NEW how \in Ends \ {"running"},
         how = "address in use" => boundSince[d] \ {d} # {} \/ d \in warned,
         Exit(d, how)
  PROVE  DaemonInv'
<1>1. Shape'
  BY DEF DaemonInv, Shape, Exit
<1>2. DaemonTypeOK'
  BY DEF DaemonInv, Shape, DaemonTypeOK, Exit, Phases, Ends
<1>3. ListenedSince'
  BY DEF DaemonInv, Shape, DaemonTypeOK, ListenedSince, Exit
<1>4. ListenFailsForCause'
  BY DEF DaemonInv, Shape, DaemonTypeOK, ListenFailsForCause, Exit
<1>5. ReachableUnlessReplaced'
  BY DEF DaemonInv, Shape, DaemonTypeOK, ReachableUnlessReplaced, Exit
<1> QED
  BY <1>1, <1>2, <1>3, <1>4, <1>5 DEF DaemonInv

LEMMA RemoveSocketStep ==
  ASSUME DaemonInv, NEW d \in Daemons, RemoveSocket(d)
  PROVE  DaemonInv'
<1>1. Shape'
  BY DEF DaemonInv, Shape, RemoveSocket, Step
<1>2. DaemonTypeOK'
  BY DEF DaemonInv, Shape, DaemonTypeOK, RemoveSocket, Step, Phases, Ends
<1>3. ListenedSince'
  BY DEF DaemonInv, Shape, DaemonTypeOK, ListenedSince, RemoveSocket, Step
<1>4. ListenFailsForCause'
  BY DEF DaemonInv, Shape, DaemonTypeOK, ListenFailsForCause, RemoveSocket, Step
<1>5. ReachableUnlessReplaced'
  BY DEF DaemonInv, Shape, DaemonTypeOK, ReachableUnlessReplaced, RemoveSocket, Step
<1> QED
  BY <1>1, <1>2, <1>3, <1>4, <1>5 DEF DaemonInv

LEMMA RemoveFailsStep ==
  ASSUME DaemonInv, NEW d \in Daemons, RemoveFails(d)
  PROVE  DaemonInv'
<1>1. Shape'
  BY DEF DaemonInv, Shape, RemoveFails, Step
<1>2. DaemonTypeOK'
  BY DEF DaemonInv, Shape, DaemonTypeOK, RemoveFails, Step, Phases, Ends
<1>3. ListenedSince'
  BY DEF DaemonInv, Shape, DaemonTypeOK, ListenedSince, RemoveFails, Step
<1>4. ListenFailsForCause'
  BY DEF DaemonInv, Shape, DaemonTypeOK, ListenFailsForCause, RemoveFails, Step
<1>5. ReachableUnlessReplaced'
  BY DEF DaemonInv, ReachableUnlessReplaced, RemoveFails
<1> QED
  BY <1>1, <1>2, <1>3, <1>4, <1>5 DEF DaemonInv

LEMMA ListenStep ==
  ASSUME DaemonInv, NEW d \in Daemons, Listen(d)
  PROVE  DaemonInv'
<1>1. CASE socket # NoDaemon
  <2>1. pc[d] = "listen" /\ Exit(d, "address in use")
    BY <1>1 DEF Listen
  <2>2. boundSince[d] \ {d} # {} \/ d \in warned
    BY <1>1, <2>1 DEF DaemonInv, ListenedSince
  <2> QED
    BY <2>1, <2>2, ExitStep DEF Ends
<1>2. CASE socket = NoDaemon
  <2>0. /\ Step(d, "listen", "load")
        /\ socket' = d /\ listening' = listening \union {d}
        /\ boundSince' = [e \in Daemons |-> boundSince[e] \union {d}]
        /\ removedSince' = [removedSince EXCEPT ![d] = {}] /\ warned' = warned \ {d}
        /\ UNCHANGED <<status, signal, badEnv, table, loaded, started>>
    BY <1>2 DEF Listen
  <2>1. Shape'
    BY <2>0 DEF DaemonInv, Shape
  <2>2. DaemonTypeOK'
    BY <2>0 DEF DaemonInv, Shape, DaemonTypeOK, Step, Phases, Ends
  <2>3. ListenedSince'
    BY <2>0 DEF DaemonInv, Shape, DaemonTypeOK, ListenedSince, Step
  <2>4. ListenFailsForCause'
    BY <2>0 DEF DaemonInv, Shape, DaemonTypeOK, ListenFailsForCause, Step
  <2>5. ReachableUnlessReplaced'
    BY <1>2, <2>0, DaemonAssumption
    DEF DaemonInv, Shape, DaemonTypeOK, ReachableUnlessReplaced, Step, DaemonAssumption
  <2> QED
    BY <2>1, <2>2, <2>3, <2>4, <2>5 DEF DaemonInv
<1> QED
  BY <1>1, <1>2

\* Steps of Run that only go on to the next phase, with other rules perhaps.
LEMMA GoOnStep ==
  ASSUME DaemonInv, NEW d \in Daemons, NEW from, NEW to, Step(d, from, to),
         <<from, to>> \in {<<"off", "rules">>, <<"rules", "registry">>,
                           <<"registry", "validate">>, <<"validate", "socket">>,
                           <<"load", "serving">>},
         badEnv' \subseteq badEnv \union {d}, DOMAIN table' = Daemons,
         UNCHANGED <<status, signal, loaded, started, socket, listening,
                     warned, boundSince, removedSince>>
  PROVE  DaemonInv'
<1>1. Shape'
  BY DEF DaemonInv, Shape
<1>2. DaemonTypeOK'
  <2>1. \A e \in Daemons \ {d} : pc'[e] = pc[e]
    BY DEF DaemonInv, DaemonTypeOK, Step
  <2>2. pc[d] = from /\ pc'[d] = to
    BY DEF DaemonInv, DaemonTypeOK, Step
  <2>3. pc' \in [Daemons -> Phases]
    BY DEF DaemonInv, DaemonTypeOK, Step, Phases
  <2>4. badEnv' \subseteq Daemons
    BY DEF DaemonInv, DaemonTypeOK
  <2>5. ASSUME NEW e \in Daemons
        PROVE  /\ started'[e] \subseteq loaded'[e] /\ loaded'[e] \subseteq Tracers
               /\ e \in listening' <=> pc'[e] \in {"load", "serving"}
               /\ loaded'[e] # {} => e \in listening'
               /\ pc'[e] = "exited" <=> status'[e] # "running"
    BY <2>1, <2>2 DEF DaemonInv, DaemonTypeOK
  <2> QED
    BY <2>3, <2>4, <2>5 DEF DaemonInv, DaemonTypeOK
<1>3. ListenedSince' /\ ListenFailsForCause' /\ ReachableUnlessReplaced'
  <2>1. ListenedSince'
    BY DEF DaemonInv, DaemonTypeOK, ListenedSince, Step
  <2>2. ListenFailsForCause'
    BY DEF DaemonInv, ListenFailsForCause
  <2>3. ReachableUnlessReplaced'
    BY DEF DaemonInv, ReachableUnlessReplaced
  <2> QED
    BY <2>1, <2>2, <2>3
<1> QED
  BY <1>1, <1>2, <1>3 DEF DaemonInv

\* Steps that change the tracers or the signal, or the rules of one that serves.
LEMMA InPlaceStep ==
  ASSUME DaemonInv,
         signal' \in [Daemons -> BOOLEAN],
         DOMAIN table' = Daemons /\ DOMAIN loaded' = Daemons /\ DOMAIN started' = Daemons,
         \A e \in Daemons : /\ started'[e] \subseteq loaded'[e] /\ loaded'[e] \subseteq Tracers
                            /\ loaded'[e] # {} => e \in listening,
         UNCHANGED <<pc, status, badEnv, socket, listening, warned, boundSince, removedSince>>
  PROVE  DaemonInv'
<1>1. Shape'
  BY DEF DaemonInv, Shape
<1>2. DaemonTypeOK'
  BY DEF DaemonInv, DaemonTypeOK
<1>3. ListenedSince'
  BY DEF DaemonInv, ListenedSince
<1>4. ListenFailsForCause'
  BY DEF DaemonInv, ListenFailsForCause
<1>5. ReachableUnlessReplaced'
  BY DEF DaemonInv, ReachableUnlessReplaced
<1> QED
  BY <1>1, <1>2, <1>3, <1>4, <1>5 DEF DaemonInv

LEMMA DaemonStep ==
  ASSUME DaemonInv, NEW d \in Daemons, NextDaemon(d)
  PROVE  DaemonInv'
<1>1. CASE Begin(d)
  BY <1>1, GoOnStep DEF Begin, DaemonInv, Shape
<1>2. CASE ReadRules(d)
  <2>1. PICK files \in Directories :
          IF AllParse(files)
          THEN /\ Step(d, "rules", "registry")
               /\ table' = [table EXCEPT ![d] = ParseFiles(files)]
               /\ UNCHANGED <<status, signal, badEnv, loaded, started, socket, listening,
                              warned, boundSince, removedSince>>
          ELSE Exit(d, "error")
    BY <1>2 DEF ReadRules
  <2>2. CASE AllParse(files)
    BY <2>1, <2>2, GoOnStep DEF DaemonInv, Shape
  <2>3. CASE ~AllParse(files)
    BY <2>1, <2>3, ExitStep DEF Ends
  <2> QED
    BY <2>2, <2>3
<1>3. CASE GetAll(d)
  <2>1. CASE Inits(d)
    BY <1>3, <2>1, GoOnStep DEF GetAll, DaemonInv, Shape
  <2>2. CASE ~Inits(d)
    BY <1>3, <2>2, ExitStep DEF GetAll, Ends
  <2> QED
    BY <2>1, <2>2
<1>4. CASE ValidateAll(d)
  <2>1. CASE \A r \in table[d] : ValidateTracersAndActions(r, Tracers, Actions)
    BY <1>4, <2>1, GoOnStep DEF ValidateAll, DaemonInv, Shape
  <2>2. CASE ~ \A r \in table[d] : ValidateTracersAndActions(r, Tracers, Actions)
    BY <1>4, <2>2, ExitStep DEF ValidateAll, Ends
  <2> QED
    BY <2>1, <2>2
<1>5. CASE RemoveSocket(d)
  BY <1>5, RemoveSocketStep
<1>6. CASE Listen(d)
  BY <1>6, ListenStep
<1>7. CASE LoadTracer(d)
  <2>1. d \in listening
    BY <1>7 DEF LoadTracer, DaemonInv, DaemonTypeOK
  <2>2. PICK t \in Tracers : loaded' = [loaded EXCEPT ![d] = @ \union {t}]
    BY <1>7 DEF LoadTracer
  <2>3. \A e \in Daemons : /\ started'[e] \subseteq loaded'[e] /\ loaded'[e] \subseteq Tracers
                           /\ loaded'[e] # {} => e \in listening
    BY <1>7, <2>1, <2>2 DEF LoadTracer, DaemonInv, DaemonTypeOK, Shape
  <2>4. /\ signal' \in [Daemons -> BOOLEAN]
        /\ DOMAIN table' = Daemons /\ DOMAIN loaded' = Daemons /\ DOMAIN started' = Daemons
    BY <1>7, <2>2 DEF LoadTracer, DaemonInv, DaemonTypeOK, Shape
  <2> QED
    BY <1>7, <2>3, <2>4, InPlaceStep DEF LoadTracer
<1>8. CASE StartTracer(d)
  <2>1. \A e \in Daemons : /\ started'[e] \subseteq loaded'[e] /\ loaded'[e] \subseteq Tracers
                           /\ loaded'[e] # {} => e \in listening
    BY <1>8 DEF StartTracer, DaemonInv, DaemonTypeOK, Shape
  <2>2. /\ signal' \in [Daemons -> BOOLEAN]
        /\ DOMAIN table' = Daemons /\ DOMAIN loaded' = Daemons /\ DOMAIN started' = Daemons
    BY <1>8 DEF StartTracer, DaemonInv, DaemonTypeOK, Shape
  <2> QED
    BY <1>8, <2>1, <2>2, InPlaceStep DEF StartTracer
<1>9. CASE LoadFails(d)
  BY <1>9, ExitStep DEF LoadFails, Ends
<1>10. CASE Serve(d)
  BY <1>10, GoOnStep DEF Serve, DaemonInv, Shape
<1>11. CASE Signal(d)
  <2>1. \A e \in Daemons : /\ started'[e] \subseteq loaded'[e] /\ loaded'[e] \subseteq Tracers
                           /\ loaded'[e] # {} => e \in listening
    BY <1>11 DEF Signal, DaemonInv, DaemonTypeOK
  <2>2. /\ signal' \in [Daemons -> BOOLEAN]
        /\ DOMAIN table' = Daemons /\ DOMAIN loaded' = Daemons /\ DOMAIN started' = Daemons
    BY <1>11 DEF Signal, DaemonInv, DaemonTypeOK, Shape
  <2> QED
    BY <1>11, <2>1, <2>2, InPlaceStep DEF Signal
<1>12. CASE UnloadAll(d)
  <2>1. UnloadEnd(d) \in {"0", "panic"}
    BY DEF UnloadEnd
  <2> QED
    BY <1>12, <2>1, ExitStep DEF UnloadAll, Ends
<1>13. CASE Crash(d)
  BY <1>13, ExitStep DEF Crash, Ends
<1>14. CASE RemoveFails(d)
  BY <1>14, RemoveFailsStep
<1>15. CASE SystemFails(d)
  BY <1>15, ExitStep DEF SystemFails, Ends
<1> QED
  BY <1>1, <1>2, <1>3, <1>4, <1>5, <1>6, <1>7, <1>8, <1>9, <1>10, <1>11, <1>12, <1>13, <1>14,
     <1>15
  DEF NextDaemon, Main

-----------------------------------------------------------------------------
(* The commands.                                                           *)

LEMMA NonEmptyDomain ==
  ASSUME NEW S, NEW s \in Seq(S), s # << >>
  PROVE  DOMAIN s # {}
<1>1. Len(s) \in Nat \ {0} /\ DOMAIN s = 1 .. Len(s)
  BY EmptySeq, LenProperties
<1>2. 1 \in 1 .. Len(s)
  BY <1>1
<1> QED
  BY <1>1, <1>2

Fields == {"pc", "cmd", "conn", "todo", "reply", "printed"}

\* The parts of a run's state, and how they go together.
ClientOK(c) ==
  /\ DOMAIN client[c] = Fields
  /\ client[c].pc \in {"new", "sending", "sent", "ok", "failed"}
  /\ client[c].pc = "new" => client[c].printed = {}
  /\ client[c].pc \in {"sending", "sent"} => client[c].todo # << >>
  /\ client[c].reply \in {"none", "ok", "refused"}
  /\ client[c].conn \in Daemons \union {NoDaemon}
  /\ client[c].conn # NoDaemon => pc[client[c].conn] \in {"load", "serving", "exited"}
  /\ client[c].pc = "sent" => client[c].conn # NoDaemon
  /\ client[c].reply # "none" => client[c].conn # NoDaemon

ClientTypeOK ==
  /\ DOMAIN client = Clients /\ DOMAIN displaced = Daemons
  /\ \A c \in Clients : ClientOK(c)

\* The rule is in d's table, or other requests took it out, or d has ended.
Kept(d, rule) ==
  pc[d] = "exited" \/ (pc[d] = "serving" /\ rule \in table[d] \union displaced[d])

\* What has been printed is kept, and what is answered "ok" and will be printed next.
PrintOK(c) ==
  /\ \A p \in client[c].printed :
       p[2] \in Daemons /\ p[1].op = "create" => Kept(p[2], p[1].rule)
  /\ client[c].pc = "sent" /\ client[c].reply = "ok" /\ Head(client[c].todo).op = "create" =>
       Kept(client[c].conn, Head(client[c].todo).rule)
PrintInv == \A c \in Clients : PrintOK(c)

Inv == DaemonInv /\ ClientTypeOK /\ PrintInv

\* What a daemon holds on its way, it holds or has lost to a request afterwards.
LEMMA KeptStep ==
  ASSUME DaemonInv, NEW d \in Daemons, NextDaemon(d), UNCHANGED displaced,
         NEW e \in Daemons, NEW rule, Kept(e, rule)
  PROVE  Kept(e, rule)'
<1>1. CASE pc[e] = "exited"
  <2>1. pc' = pc \/ (\E to \in Phases : pc' = [pc EXCEPT ![d] = to])
    BY DEF NextDaemon, Main, Begin, ReadRules, GetAll, ValidateAll, RemoveSocket,
      RemoveFails, SystemFails, Listen,
      LoadTracer, StartTracer, LoadFails, Serve, Signal, UnloadAll, Crash, Step, Exit, Phases
  <2>2. pc[d] = "exited" => pc'[d] = "exited"
    BY DEF DaemonInv, DaemonTypeOK, NextDaemon, Main, Begin, ReadRules, GetAll, ValidateAll,
      RemoveSocket, RemoveFails, SystemFails, Listen, LoadTracer, StartTracer, LoadFails,
      Serve, Signal, UnloadAll, Crash,
      Running, Step, Exit
  <2>3. e # d => pc'[e] = pc[e]
    BY <2>1 DEF DaemonInv, DaemonTypeOK
  <2>4. pc'[e] = "exited"
    BY <1>1, <2>2, <2>3
  <2> QED
    BY <2>4 DEF Kept
<1>2. CASE pc[e] = "serving" /\ rule \in table[e] \union displaced[e]
  <2>1. CASE e = d
    <3>1. \/ pc'[d] = "exited"
          \/ pc'[d] = "serving" /\ UNCHANGED table
      BY <1>2, <2>1 DEF DaemonInv, DaemonTypeOK, NextDaemon, Main, Begin, ReadRules, GetAll,
        ValidateAll, RemoveSocket, RemoveFails, SystemFails, Listen, LoadTracer, StartTracer,
        LoadFails, Serve, Signal,
        UnloadAll, Crash, Running, Step, Exit
    <3> QED
      BY <1>2, <2>1, <3>1 DEF Kept
  <2>2. CASE e # d
    <3>1. pc'[e] = pc[e]
      BY <2>2 DEF DaemonInv, DaemonTypeOK, NextDaemon, Main, Begin, ReadRules, GetAll,
        ValidateAll, RemoveSocket, RemoveFails, SystemFails, Listen, LoadTracer, StartTracer,
        LoadFails, Serve, Signal,
        UnloadAll, Crash, Step, Exit
    <3>2. table'[e] = table[e]
      BY <2>2 DEF DaemonInv, Shape, NextDaemon, Main, Begin, ReadRules, GetAll, ValidateAll,
        RemoveSocket, RemoveFails, SystemFails, Listen, LoadTracer, StartTracer, LoadFails,
        Serve, Signal, UnloadAll,
        Crash, Exit
    <3> QED
      BY <1>2, <3>1, <3>2 DEF Kept
  <2> QED
    BY <2>1, <2>2
<1> QED
  BY <1>1, <1>2 DEF Kept

\* A daemon that has listened never goes back to where it has not.
LEMMA ListenedStep ==
  ASSUME DaemonInv, NEW d \in Daemons, NextDaemon(d), NEW e \in Daemons,
         pc[e] \in {"load", "serving", "exited"}
  PROVE  pc'[e] \in {"load", "serving", "exited"}
  BY DEF DaemonInv, DaemonTypeOK, NextDaemon, Main, Begin, ReadRules, GetAll, ValidateAll,
    RemoveSocket, RemoveFails, SystemFails, Listen, LoadTracer, StartTracer, LoadFails,
    Serve, Signal, UnloadAll, Crash,
    Running, Step, Exit

LEMMA DaemonKeepsInv ==
  ASSUME Inv, NEW d \in Daemons, NextDaemon(d), UNCHANGED <<client, displaced>>
  PROVE  Inv'
<1>1. DaemonInv'
  BY DaemonStep DEF Inv
<1>2. ClientTypeOK'
  <2>1. ASSUME NEW c \in Clients PROVE ClientOK(c)'
    BY ListenedStep DEF Inv, ClientTypeOK, ClientOK
  <2> QED
    BY <2>1 DEF Inv, ClientTypeOK
<1>3. PrintInv'
  <2>1. ASSUME NEW c \in Clients PROVE PrintOK(c)'
    <3>1. ASSUME NEW p \in client[c].printed, p[2] \in Daemons, p[1].op = "create"
          PROVE  Kept(p[2], p[1].rule)'
      BY <3>1, KeptStep DEF Inv, PrintInv, PrintOK
    <3>2. ASSUME client[c].pc = "sent", client[c].reply = "ok", Head(client[c].todo).op = "create"
          PROVE  Kept(client[c].conn, Head(client[c].todo).rule)'
      <4>1. client[c].conn \in Daemons
        BY <3>2 DEF Inv, ClientTypeOK, ClientOK
      <4> QED
        BY <3>2, <4>1, KeptStep DEF Inv, PrintInv, PrintOK
    <3> QED
      BY <3>1, <3>2 DEF PrintOK, Kept
  <2> QED
    BY <2>1 DEF PrintInv
<1> QED
  BY <1>1, <1>2, <1>3 DEF Inv

\* A step of one command that leaves the daemons and the other commands alone.
LEMMA OneClientStep ==
  ASSUME Inv, NEW c \in Clients, UNCHANGED <<daemonVars, displaced>>,
         DOMAIN client' = Clients, \A e \in Clients \ {c} : client'[e] = client[e],
         ClientOK(c)', PrintOK(c)'
  PROVE  Inv'
<1>1. DaemonInv'
  <2>1. UNCHANGED <<pc, status, signal, badEnv, table, loaded, started, socket, listening,
                    warned, boundSince, removedSince>>
    BY DEF daemonVars
  <2> QED
    BY <2>1 DEF Inv, DaemonInv, Shape, DaemonTypeOK, ListenedSince, ListenFailsForCause,
      ReachableUnlessReplaced
<1>2. UNCHANGED <<pc, table, displaced>>
  BY DEF daemonVars
<1>3. ClientTypeOK'
  BY <1>2 DEF Inv, ClientTypeOK, ClientOK
<1>4. PrintInv'
  BY <1>2 DEF Inv, PrintInv, PrintOK, Kept
<1> QED
  BY <1>1, <1>3, <1>4 DEF Inv

LEMMA CreateRunStep ==
  ASSUME Inv, NEW c \in Clients, CreateRun(c)
  PROVE  Inv'
<1>1. PICK cmd \in {cmd \in Commands : cmd.op = "create"} :
        IF AllParse(cmd.files)
        THEN \E order \in Orders(ParseFiles(cmd.files)) :
               client' = [client EXCEPT ![c].pc = Loop(order), ![c].cmd = cmd,
                            ![c].todo = [i \in DOMAIN order |-> CreateRequest(order[i])]]
        ELSE client' = [client EXCEPT ![c].pc = "failed", ![c].cmd = cmd]
  BY DEF CreateRun
<1>2. /\ client[c].pc = "new" /\ UNCHANGED <<daemonVars, displaced>>
      /\ UNCHANGED <<pc, table>>
  BY DEF CreateRun, daemonVars
<1>3. CASE AllParse(cmd.files)
  <2>1. PICK order \in Orders(ParseFiles(cmd.files)) :
          client' = [client EXCEPT ![c].pc = Loop(order), ![c].cmd = cmd,
                       ![c].todo = [i \in DOMAIN order |-> CreateRequest(order[i])]]
    BY <1>1, <1>3
  <2>2. order \in Seq(ParseFiles(cmd.files))
    BY RuleClientAssumption DEF RuleClientAssumption, Orders
  <2> DEFINE todo == [i \in DOMAIN order |-> CreateRequest(order[i])]
  <2>3. order # << >> => todo # << >>
    <3>1. order # << >> => DOMAIN order # {}
      BY <2>2, NonEmptyDomain
    <3>2. DOMAIN todo = DOMAIN order /\ DOMAIN << >> = {}
      OBVIOUS
    <3> QED
      BY <3>1, <3>2
  <2>4. /\ DOMAIN client' = Clients /\ \A e \in Clients \ {c} : client'[e] = client[e]
        /\ client'[c].pc = Loop(order) /\ client'[c].todo = todo
        /\ client'[c].conn = client[c].conn /\ client'[c].reply = client[c].reply
        /\ client'[c].printed = {} /\ DOMAIN client'[c] = Fields
    BY <2>1, <1>2 DEF Inv, ClientTypeOK, ClientOK, Fields
  <2> HIDE DEF todo
  <2>5. ClientOK(c)'
    BY <1>2, <2>3, <2>4 DEF Inv, ClientTypeOK, ClientOK, Loop
  <2>6. PrintOK(c)'
    BY <2>4 DEF PrintOK, Loop
  <2> QED
    BY <1>2, <2>4, <2>5, <2>6, OneClientStep
<1>4. CASE ~AllParse(cmd.files)
  <2>1. /\ DOMAIN client' = Clients /\ \A e \in Clients \ {c} : client'[e] = client[e]
        /\ client'[c].pc = "failed" /\ client'[c].todo = client[c].todo
        /\ client'[c].conn = client[c].conn /\ client'[c].reply = client[c].reply
        /\ client'[c].printed = {} /\ DOMAIN client'[c] = Fields
    BY <1>1, <1>2, <1>4 DEF Inv, ClientTypeOK, ClientOK, Fields
  <2>2. ClientOK(c)' /\ PrintOK(c)'
    BY <1>2, <2>1 DEF Inv, ClientTypeOK, ClientOK, PrintOK
  <2> QED
    BY <1>2, <2>1, <2>2, OneClientStep
<1> QED
  BY <1>3, <1>4

LEMMA RemoveRunStep ==
  ASSUME Inv, NEW c \in Clients, RemoveRun(c)
  PROVE  Inv'
<1>1. PICK cmd \in {cmd \in Commands : cmd.op = "rm"} :
        client' = [client EXCEPT ![c].pc = Loop(cmd.names), ![c].cmd = cmd,
                     ![c].todo = [i \in DOMAIN cmd.names |-> RemoveRequest(cmd.names[i])]]
  BY DEF RemoveRun
<1>2. /\ client[c].pc = "new" /\ UNCHANGED <<daemonVars, displaced>>
      /\ UNCHANGED <<pc, table>>
  BY DEF RemoveRun, daemonVars
<1> DEFINE todo == [i \in DOMAIN cmd.names |-> RemoveRequest(cmd.names[i])]
<1>3. cmd.names # << >> => todo # << >>
  <2>1. cmd.names \in Seq(STRING)
    BY RuleClientAssumption DEF RuleClientAssumption
  <2>2. cmd.names # << >> => DOMAIN cmd.names # {}
    BY <2>1, NonEmptyDomain
  <2>3. DOMAIN todo = DOMAIN cmd.names /\ DOMAIN << >> = {}
    OBVIOUS
  <2> QED
    BY <2>2, <2>3
<1>4. /\ DOMAIN client' = Clients /\ \A e \in Clients \ {c} : client'[e] = client[e]
      /\ client'[c].pc = Loop(cmd.names) /\ client'[c].todo = todo
      /\ client'[c].conn = client[c].conn /\ client'[c].reply = client[c].reply
      /\ client'[c].printed = {} /\ DOMAIN client'[c] = Fields
  BY <1>1, <1>2 DEF Inv, ClientTypeOK, ClientOK, Fields
<1> HIDE DEF todo
<1>5. ClientOK(c)'
  BY <1>2, <1>3, <1>4 DEF Inv, ClientTypeOK, ClientOK, Loop
<1>6. PrintOK(c)'
  BY <1>4 DEF PrintOK, Loop
<1> QED
  BY <1>2, <1>4, <1>5, <1>6, OneClientStep

LEMMA ConnectStep ==
  ASSUME Inv, NEW c \in Clients, Connect(c)
  PROVE  Inv'
<1>1. UNCHANGED <<daemonVars, displaced>> /\ UNCHANGED <<pc, table>>
  BY DEF Connect, daemonVars
<1>2. DOMAIN client' = Clients /\ \A e \in Clients \ {c} : client'[e] = client[e]
  BY DEF Connect, Inv, ClientTypeOK
<1>3. ClientOK(c)'
  <2>1. CASE socket \in listening
    <3>1. client' = [client EXCEPT ![c].conn = socket] /\ client[c].pc = "sending"
      BY <2>1 DEF Connect
    <3>2. socket \in Daemons /\ pc[socket] \in {"load", "serving"}
      BY <2>1 DEF Inv, DaemonInv, DaemonTypeOK
    <3>3. /\ client'[c].conn = socket /\ client'[c].pc = "sending"
          /\ client'[c].todo = client[c].todo /\ client'[c].reply = client[c].reply
          /\ client'[c].printed = client[c].printed /\ DOMAIN client'[c] = Fields
      BY <3>1 DEF Inv, ClientTypeOK, ClientOK, Fields
    <3>4. ClientOK(c)
      BY DEF Inv, ClientTypeOK
    <3>5. client'[c].conn \in Daemons /\ pc'[client'[c].conn] \in {"load", "serving", "exited"}
      BY <1>1, <3>2, <3>3
    <3>6. client'[c].conn # NoDaemon
      BY <3>5, DaemonAssumption DEF DaemonAssumption
    <3>7. client'[c].todo # << >> /\ client'[c].reply \in {"none", "ok", "refused"}
      BY <3>1, <3>3, <3>4 DEF ClientOK
    <3> QED
      BY <3>3, <3>5, <3>6, <3>7 DEF ClientOK
  <2>2. CASE socket \notin listening
    <3>1. client' = [client EXCEPT ![c].pc = "failed"] /\ client[c].pc = "sending"
      BY <2>2 DEF Connect
    <3> QED
      BY <1>1, <3>1 DEF Inv, ClientTypeOK, ClientOK, Fields
  <2> QED
    BY <2>1, <2>2
<1>4. PrintOK(c)'
  BY <1>1 DEF Connect, Inv, ClientTypeOK, ClientOK, Fields, PrintInv, PrintOK, Kept
<1> QED
  BY <1>1, <1>2, <1>3, <1>4, OneClientStep

LEMMA SendStep ==
  ASSUME Inv, NEW c \in Clients, Send(c)
  PROVE  Inv'
<1>1. UNCHANGED <<daemonVars, displaced>> /\ UNCHANGED <<pc, table>>
  BY DEF Send, daemonVars
<1>2. DOMAIN client' = Clients /\ \A e \in Clients \ {c} : client'[e] = client[e]
  BY DEF Send, Inv, ClientTypeOK
<1>3. ClientOK(c)'
  <2>1. client[c].conn # NoDaemon
    BY DaemonAssumption
    DEF DaemonAssumption, Send, Connected, Inv, ClientTypeOK, ClientOK, DaemonInv, DaemonTypeOK
  <2> QED
    BY <1>1, <2>1 DEF Send, Inv, ClientTypeOK, ClientOK, Fields
<1>4. PrintOK(c)'
  BY <1>1 DEF Send, Inv, ClientTypeOK, ClientOK, Fields, PrintInv, PrintOK, Kept
<1> QED
  BY <1>1, <1>2, <1>3, <1>4, OneClientStep

LEMMA AnswerStep ==
  ASSUME Inv, NEW c \in Clients, Answer(c)
  PROVE  Inv'
<1>1. UNCHANGED <<daemonVars, displaced>> /\ UNCHANGED <<pc, table>>
  BY DEF Answer, daemonVars
<1>2. DOMAIN client' = Clients /\ \A e \in Clients \ {c} : client'[e] = client[e]
  BY DEF Answer, Inv, ClientTypeOK
<1>3. CASE client[c].reply = "refused"
  <2>1. ClientOK(c)' /\ PrintOK(c)'
    BY <1>1, <1>3 DEF Answer, Inv, ClientTypeOK, ClientOK, Fields, PrintInv, PrintOK, Kept
  <2> QED
    BY <1>1, <1>2, <2>1, OneClientStep
<1>4. CASE client[c].reply # "refused"
  <2>1. client[c].pc = "sent" /\ client[c].reply = "ok"
    BY <1>4 DEF Answer, Inv, ClientTypeOK, ClientOK
  <2>2. /\ client'[c].todo = Tail(client[c].todo)
        /\ client'[c].pc = Loop(Tail(client[c].todo))
        /\ client'[c].printed =
             client[c].printed \union {<<Head(client[c].todo), client[c].conn>>}
        /\ client'[c].conn = client[c].conn /\ client'[c].reply = client[c].reply
        /\ DOMAIN client'[c] = Fields
    BY <1>4 DEF Answer, Inv, ClientTypeOK, ClientOK, Fields
  <2>3. ClientOK(c)'
    BY <1>1, <2>1, <2>2 DEF Inv, ClientTypeOK, ClientOK, Loop
  <2>4. PrintOK(c)'
    <3>1. ASSUME NEW p \in client'[c].printed, p[2] \in Daemons, p[1].op = "create"
          PROVE  Kept(p[2], p[1].rule)'
      <4>1. CASE p \in client[c].printed
        BY <1>1, <3>1, <4>1 DEF Inv, PrintInv, PrintOK, Kept
      <4>2. CASE p = <<Head(client[c].todo), client[c].conn>>
        BY <1>1, <2>1, <3>1, <4>2 DEF Inv, PrintInv, PrintOK, Kept
      <4> QED
        BY <2>2, <4>1, <4>2
    <3>2. client'[c].pc # "sent"
      BY <2>2 DEF Loop
    <3> QED
      BY <3>1, <3>2 DEF PrintOK, Kept
  <2> QED
    BY <1>1, <1>2, <2>3, <2>4, OneClientStep
<1> QED
  BY <1>3, <1>4

LEMMA ConnectionLostStep ==
  ASSUME Inv, NEW c \in Clients, ConnectionLost(c)
  PROVE  Inv'
<1>1. UNCHANGED <<daemonVars, displaced>> /\ UNCHANGED <<pc, table>>
  BY DEF ConnectionLost, daemonVars
<1>2. DOMAIN client' = Clients /\ \A e \in Clients \ {c} : client'[e] = client[e]
  BY DEF ConnectionLost, Inv, ClientTypeOK
<1>3. ClientOK(c)'
  BY <1>1 DEF ConnectionLost, Inv, ClientTypeOK, ClientOK, Fields
<1>4. PrintOK(c)'
  BY <1>1 DEF ConnectionLost, Inv, ClientTypeOK, ClientOK, Fields, PrintInv, PrintOK, Kept
<1> QED
  BY <1>1, <1>2, <1>3, <1>4, OneClientStep

\* The handlers: one that changes the table displaces what it takes out.
LEMMA ChangeStep ==
  ASSUME Inv, NEW c \in Clients, Asked(c), NEW rules, Change(c, rules),
         Head(client[c].todo).op = "create" => Head(client[c].todo).rule \in rules
  PROVE  Inv'
<1> DEFINE d == client[c].conn
<1>1. /\ d \in Daemons /\ pc[d] = "serving"
      /\ table' = [table EXCEPT ![d] = rules]
      /\ displaced' = [displaced EXCEPT ![d] = @ \union (table[d] \ rules)]
      /\ client' = [client EXCEPT ![c].reply = "ok"]
      /\ UNCHANGED <<pc, status, signal, badEnv, loaded, started, socket, listening,
                     warned, boundSince, removedSince>>
  BY DEF Asked, Change, Inv, ClientTypeOK, ClientOK
<1> HIDE DEF d
<1>2. DaemonInv'
  BY <1>1, InPlaceStep DEF Inv, DaemonInv, Shape, DaemonTypeOK
<1>3. ClientTypeOK'
  <2>1. DOMAIN client' = Clients /\ DOMAIN displaced' = Daemons
    BY <1>1 DEF Inv, ClientTypeOK
  <2>2. ASSUME NEW e \in Clients PROVE ClientOK(e)'
    BY <1>1 DEF Inv, ClientTypeOK, ClientOK, Asked, Fields
  <2> QED
    BY <2>1, <2>2 DEF ClientTypeOK
<1>4. ASSUME NEW f \in Daemons, NEW rule, Kept(f, rule)
      PROVE  Kept(f, rule)'
  <2>1. CASE f = d
    BY <1>1, <1>4, <2>1 DEF Kept, Inv, DaemonInv, Shape, ClientTypeOK
  <2>2. CASE f # d
    BY <1>1, <1>4, <2>2 DEF Kept
  <2> QED
    BY <2>1, <2>2
<1>5. PrintInv'
  <2>1. ASSUME NEW e \in Clients PROVE PrintOK(e)'
    <3>1. /\ client'[e].printed = client[e].printed /\ client'[e].todo = client[e].todo
          /\ client'[e].pc = client[e].pc /\ client'[e].conn = client[e].conn
          /\ e # c => client'[e].reply = client[e].reply
      BY <1>1 DEF Inv, ClientTypeOK, ClientOK, Fields
    <3>2. ASSUME NEW p \in client[e].printed, p[2] \in Daemons, p[1].op = "create"
          PROVE  Kept(p[2], p[1].rule)'
      BY <1>4, <3>2 DEF Inv, PrintInv, PrintOK
    <3>3. ASSUME client[e].pc = "sent", client'[e].reply = "ok",
                 Head(client[e].todo).op = "create"
          PROVE  Kept(client[e].conn, Head(client[e].todo).rule)'
      <4>1. CASE e = c
        <5>1. Head(client[c].todo).rule \in rules
          BY <3>3, <4>1
        <5>2. table'[d] = rules /\ pc'[d] = "serving"
          BY <1>1 DEF Inv, DaemonInv, Shape
        <5> QED
          BY <3>1, <4>1, <5>1, <5>2 DEF Kept, d
      <4>2. CASE e # c
        <5>1. client[e].conn \in Daemons
          BY <3>3 DEF Inv, ClientTypeOK, ClientOK
        <5> QED
          BY <1>4, <3>1, <3>3, <4>2, <5>1 DEF Inv, PrintInv, PrintOK
      <4> QED
        BY <4>1, <4>2
    <3> QED
      BY <3>1, <3>2, <3>3 DEF PrintOK, Kept
  <2> QED
    BY <2>1 DEF PrintInv
<1> QED
  BY <1>2, <1>3, <1>5 DEF Inv

LEMMA RefuseStep ==
  ASSUME Inv, NEW c \in Clients, Asked(c),
         client' = [client EXCEPT ![c].reply = "refused"], UNCHANGED <<daemonVars, displaced>>
  PROVE  Inv'
<1>1. UNCHANGED <<pc, table>>
  BY DEF daemonVars
<1>2. DOMAIN client' = Clients /\ \A e \in Clients \ {c} : client'[e] = client[e]
  BY DEF Inv, ClientTypeOK
<1>3. ClientOK(c)'
  BY <1>1 DEF Asked, Inv, ClientTypeOK, ClientOK, Fields
<1>4. PrintOK(c)'
  BY <1>1 DEF Inv, ClientTypeOK, ClientOK, Fields, PrintInv, PrintOK, Kept
<1> QED
  BY <1>2, <1>3, <1>4, OneClientStep

LEMMA HandlingStep ==
  ASSUME Inv, NEW c \in Clients, Handling(c)
  PROVE  Inv'
<1>1. CASE CreateRule(c)
  <2> DEFINE rule == Head(client[c].todo).rule
  <2>1. CASE Accepted(rule)
    <3>1. Change(c, Put(table[client[c].conn], rule)) /\ Asked(c)
      BY <1>1, <2>1 DEF CreateRule
    <3>2. rule \in Put(table[client[c].conn], rule)
      BY DEF Put
    <3> QED
      BY <3>1, <3>2, ChangeStep
  <2>2. CASE ~Accepted(rule)
    BY <1>1, <2>2, RefuseStep DEF CreateRule
  <2> QED
    BY <2>1, <2>2
<1>2. CASE RemoveRule(c)
  <2>1. CASE Head(client[c].todo).name = ""
    BY <1>2, <2>1, RefuseStep DEF RemoveRule
  <2>2. CASE Head(client[c].todo).name # ""
    <3>1. /\ Asked(c) /\ Head(client[c].todo).op # "create"
          /\ Change(c, {r \in table[client[c].conn] : r.name # Head(client[c].todo).name})
      BY <1>2, <2>2 DEF RemoveRule
    <3> QED
      BY <3>1, ChangeStep
  <2> QED
    BY <2>1, <2>2
<1> QED
  BY <1>1, <1>2 DEF Handling

LEMMA InitInv == Init => Inv
<1> SUFFICES ASSUME Init PROVE Inv
  OBVIOUS
<1>1. DaemonInv
  BY DaemonAssumption
  DEF DaemonAssumption, Init, InitDaemon, DaemonInv, Shape, DaemonTypeOK, ListenedSince,
    ListenFailsForCause, ReachableUnlessReplaced, Phases, Ends
<1>2. ClientTypeOK
  BY DEF Init, Waiting, ClientTypeOK, ClientOK, Fields
<1>3. PrintInv
  BY DEF Init, Waiting, PrintInv, PrintOK
<1> QED
  BY <1>1, <1>2, <1>3 DEF Inv

LEMMA NextInv == Inv /\ [Next]_vars => Inv'
<1> SUFFICES ASSUME Inv, [Next]_vars PROVE Inv'
  OBVIOUS
<1>1. CASE UNCHANGED vars
  <2>1. UNCHANGED <<pc, status, signal, badEnv, table, loaded, started, socket, listening,
                    warned, boundSince, removedSince, client, displaced>>
    BY <1>1 DEF vars, daemonVars
  <2>2. Shape' /\ DaemonTypeOK'
    BY <2>1 DEF Inv, DaemonInv, Shape, DaemonTypeOK
  <2>3. ListenedSince' /\ ListenFailsForCause' /\ ReachableUnlessReplaced'
    BY <2>1 DEF Inv, DaemonInv, ListenedSince, ListenFailsForCause, ReachableUnlessReplaced
  <2>4. ClientTypeOK' /\ PrintInv'
    BY <2>1 DEF Inv, ClientTypeOK, ClientOK, PrintInv, PrintOK, Kept
  <2> QED
    BY <2>2, <2>3, <2>4 DEF Inv, DaemonInv
<1>2. ASSUME NEW d \in Daemons, NextDaemon(d), UNCHANGED <<client, displaced>>
      PROVE  Inv'
  BY <1>2, DaemonKeepsInv
<1>3. ASSUME NEW c \in Clients, CreateRun(c) \/ RemoveRun(c) \/ Requesting(c) \/ Handling(c)
      PROVE  Inv'
  BY <1>3, CreateRunStep, RemoveRunStep, ConnectStep, SendStep, AnswerStep, ConnectionLostStep,
     HandlingStep
  DEF Requesting
<1> QED
  BY <1>1, <1>2, <1>3 DEF Next

LEMMA Invariant == Spec => []Inv
  BY InitInv, NextInv, PTL DEF Spec

-----------------------------------------------------------------------------
(* What follows for every number of daemons and of commands.               *)

\* The types of the daemons and of the commands (daemon.go, create.go, remove.go).
THEOREM TypesOfAll == Spec => []TypeOK
<1>1. Inv => TypeOK
  BY DEF Inv, DaemonInv, ClientTypeOK, ClientOK, TypeOK
<1> QED
  BY <1>1, Invariant, PTL

\* A daemon is refused the address only if another one listened since it had removed
\* the old socket, or if it has warned that it could not remove it (daemon.go:124-132):
\* a socket left by a daemon that was killed does no harm otherwise.
THEOREM RefusedForCause == Spec => []ListenFailsForCause
<1>1. Inv => ListenFailsForCause
  BY DEF Inv, DaemonInv
<1> QED
  BY <1>1, Invariant, PTL

\* The socket's path leads to a daemon that listens, unless another one has removed it
\* since.
THEOREM PathLeadsToDaemon == Spec => []ReachableUnlessReplaced
<1>1. Inv => ReachableUnlessReplaced
  BY DEF Inv, DaemonInv
<1> QED
  BY <1>1, Invariant, PTL

\* What a command prints as created is in force in the daemon that took it, until that
\* ends or another request displaces it.
THEOREM PrintedStays == Spec => []PrintedInForce
<1>1. Inv => PrintedInForce
  BY DEF Inv, PrintInv, PrintOK, Kept, PrintedInForce
<1> QED
  BY <1>1, Invariant, PTL

-----------------------------------------------------------------------------
(* The end of bpfd create.                                                 *)

\* What was printed and what is still to be sent are together the rules of the files.
AllThere(c) ==
  client[c].pc \in {"sending", "sent", "ok"} /\ client[c].cmd.op = "create" =>
    /\ client[c].todo \in Seq({CreateRequest(r) : r \in ParseFiles(client[c].cmd.files)})
    /\ {p[1].rule : p \in client[c].printed} \union {req.rule : req \in Range(client[c].todo)}
         = ParseFiles(client[c].cmd.files)
    /\ client[c].pc = "ok" => client[c].todo = << >>
AllThereInv == \A c \in Clients : AllThere(c)

LEMMA AllThereCreateRun ==
  ASSUME Inv, AllThereInv, NEW c \in Clients, CreateRun(c)
  PROVE  AllThereInv'
<1>1. PICK cmd \in {cmd \in Commands : cmd.op = "create"} :
        IF AllParse(cmd.files)
        THEN \E order \in Orders(ParseFiles(cmd.files)) :
               client' = [client EXCEPT ![c].pc = Loop(order), ![c].cmd = cmd,
                            ![c].todo = [i \in DOMAIN order |-> CreateRequest(order[i])]]
        ELSE client' = [client EXCEPT ![c].pc = "failed", ![c].cmd = cmd]
  BY DEF CreateRun
<1>2. CASE AllParse(cmd.files)
  <2>1. PICK order \in Orders(ParseFiles(cmd.files)) :
          client' = [client EXCEPT ![c].pc = Loop(order), ![c].cmd = cmd,
                       ![c].todo = [i \in DOMAIN order |-> CreateRequest(order[i])]]
    BY <1>1, <1>2
  <2> DEFINE rules == ParseFiles(cmd.files)
             todo == [i \in DOMAIN order |-> CreateRequest(order[i])]
  <2>2. order \in Seq(rules) /\ Range(order) = rules
    BY RuleClientAssumption DEF RuleClientAssumption, Orders, ToSet, Range
  <2>3. /\ client'[c].pc = Loop(order) /\ client'[c].cmd = cmd /\ client'[c].todo = todo
        /\ client'[c].printed = {}
        /\ \A e \in Clients \ {c} : client'[e] = client[e]
    BY <2>1 DEF CreateRun, Inv, ClientTypeOK, ClientOK, Fields
  <2> HIDE DEF rules
  <2>4. todo \in Seq({CreateRequest(r) : r \in rules})
    <3>1. /\ Len(order) \in Nat /\ DOMAIN order = 1 .. Len(order)
          /\ \A i \in DOMAIN order : order[i] \in rules
      BY <2>2, LenProperties
    <3>2. todo \in [1 .. Len(order) -> {CreateRequest(r) : r \in rules}]
      BY <3>1
    <3> QED
      BY <3>1, <3>2, SeqDef
  <2>5. {req.rule : req \in Range(todo)} = rules
    <3>1. DOMAIN todo = DOMAIN order
      OBVIOUS
    <3>2. \A i \in DOMAIN order : todo[i].rule = order[i]
      BY DEF CreateRequest
    <3> QED
      BY <2>2, <3>1, <3>2 DEF Range
  <2>6. order = << >> => todo = << >>
    OBVIOUS
  <2> HIDE DEF todo
  <2>7. AllThere(c)'
    BY <2>3, <2>4, <2>5, <2>6 DEF AllThere, Loop, rules
  <2> QED
    BY <2>3, <2>7 DEF AllThereInv, AllThere
<1>3. CASE ~AllParse(cmd.files)
  <2>1. client'[c].pc = "failed" /\ \A e \in Clients \ {c} : client'[e] = client[e]
    BY <1>1, <1>3 DEF Inv, ClientTypeOK, ClientOK, Fields
  <2> QED
    BY <2>1 DEF AllThereInv, AllThere
<1> QED
  BY <1>2, <1>3

LEMMA AllThereAnswer ==
  ASSUME Inv, AllThereInv, NEW c \in Clients, Answer(c)
  PROVE  AllThereInv'
<1> DEFINE todo == client[c].todo
<1>1. \A e \in Clients \ {c} : client'[e] = client[e]
  BY DEF Answer, Inv, ClientTypeOK
<1>2. CASE client[c].reply = "refused"
  <2>1. client'[c].pc = "failed"
    BY <1>2 DEF Answer, Inv, ClientTypeOK, ClientOK, Fields
  <2> QED
    BY <1>1, <2>1 DEF AllThereInv, AllThere
<1>3. CASE client[c].reply # "refused"
  <2>1. /\ client[c].pc = "sent" /\ client[c].todo # << >>
        /\ client'[c].todo = Tail(todo) /\ client'[c].pc = Loop(Tail(todo))
        /\ client'[c].printed = client[c].printed \union {<<Head(todo), client[c].conn>>}
        /\ client'[c].cmd = client[c].cmd
    BY <1>3 DEF Answer, Inv, ClientTypeOK, ClientOK, Fields
  <2>2. ASSUME client[c].cmd.op = "create"
        PROVE  AllThere(c)'
    <3> DEFINE S == {CreateRequest(r) : r \in ParseFiles(client[c].cmd.files)}
    <3>1. todo \in Seq(S) /\ todo # << >>
      BY <2>1, <2>2 DEF AllThereInv, AllThere
    <3> HIDE DEF S
    <3>2. Tail(todo) \in Seq(S)
      BY <3>1, HeadTailProperties
    <3>3. Range(todo) = {Head(todo)} \union Range(Tail(todo))
      <4>1. /\ Len(todo) \in Nat \ {0} /\ DOMAIN todo = 1 .. Len(todo)
            /\ Head(todo) = todo[1]
            /\ Len(Tail(todo)) = Len(todo) - 1
            /\ DOMAIN Tail(todo) = 1 .. Len(Tail(todo))
            /\ \A i \in 1 .. Len(Tail(todo)) : Tail(todo)[i] = todo[i + 1]
        BY <3>1, <3>2, EmptySeq, LenProperties, HeadTailProperties
      <4>2. ASSUME NEW i \in DOMAIN todo
            PROVE  todo[i] \in {Head(todo)} \union Range(Tail(todo))
        <5>1. CASE i = 1
          BY <4>1, <5>1
        <5>2. CASE i # 1
          <6>1. i - 1 \in DOMAIN Tail(todo) /\ Tail(todo)[i - 1] = todo[i]
            BY <4>1, <5>2
          <6> QED
            BY <6>1 DEF Range
        <5> QED
          BY <5>1, <5>2
      <4>3. ASSUME NEW i \in DOMAIN Tail(todo)
            PROVE  Tail(todo)[i] \in Range(todo)
        <5>1. i + 1 \in DOMAIN todo /\ Tail(todo)[i] = todo[i + 1]
          BY <4>1
        <5> QED
          BY <5>1 DEF Range
      <4>4. Head(todo) \in Range(todo)
        BY <4>1 DEF Range
      <4> QED
        BY <4>2, <4>3, <4>4 DEF Range
    <3>4. {p[1].rule : p \in client'[c].printed} =
            {p[1].rule : p \in client[c].printed} \union {Head(todo).rule}
      <4> DEFINE new == <<Head(todo), client[c].conn>>
      <4>1. new[1].rule = Head(todo).rule
        OBVIOUS
      <4>2. client'[c].printed = client[c].printed \union {new}
        BY <2>1
      <4> HIDE DEF new
      <4> QED
        BY ONLY <4>1, <4>2
    <3>5. {req.rule : req \in Range(todo)} =
            {Head(todo).rule} \union {req.rule : req \in Range(Tail(todo))}
      BY <3>3
    <3>6. {p[1].rule : p \in client'[c].printed} \union {req.rule : req \in Range(Tail(todo))}
            = ParseFiles(client[c].cmd.files)
      BY <2>1, <2>2, <3>4, <3>5 DEF AllThereInv, AllThere
    <3> QED
      BY <2>1, <3>2, <3>6 DEF AllThere, Loop, S
  <2>3. AllThere(c)'
    BY <2>1, <2>2 DEF AllThere
  <2> QED
    BY <1>1, <2>3 DEF AllThereInv, AllThere
<1> QED
  BY <1>2, <1>3

LEMMA AllThereNext == Inv /\ AllThereInv /\ [Next]_vars => AllThereInv'
<1> SUFFICES ASSUME Inv, AllThereInv, [Next]_vars PROVE AllThereInv'
  OBVIOUS
<1>1. CASE UNCHANGED client
  BY <1>1 DEF AllThereInv, AllThere
<1>2. ASSUME NEW c \in Clients, CreateRun(c)
      PROVE  AllThereInv'
  BY <1>2, AllThereCreateRun
<1>3. ASSUME NEW c \in Clients, RemoveRun(c)
      PROVE  AllThereInv'
  <2>1. client'[c].cmd.op = "rm" /\ \A e \in Clients \ {c} : client'[e] = client[e]
    BY <1>3 DEF RemoveRun, Inv, ClientTypeOK, ClientOK, Fields
  <2> QED
    BY <2>1 DEF AllThereInv, AllThere
<1>4. ASSUME NEW c \in Clients, Answer(c)
      PROVE  AllThereInv'
  BY <1>4, AllThereAnswer
<1>5. ASSUME NEW c \in Clients, Connect(c) \/ Send(c) \/ ConnectionLost(c) \/ Handling(c)
      PROVE  AllThereInv'
  <2>1. \A e \in Clients \ {c} : client'[e] = client[e]
    BY <1>5
    DEF Connect, Send, ConnectionLost, Handling, CreateRule, RemoveRule, Change, Inv, ClientTypeOK
  <2>2. /\ client'[c].cmd = client[c].cmd /\ client'[c].todo = client[c].todo
        /\ client'[c].printed = client[c].printed
        /\ \/ client'[c].pc \in {"sending", "sent"} /\ client[c].pc \in {"sending", "sent"}
           \/ client'[c].pc = "failed"
    <3>1. CASE Connect(c) \/ Send(c)
      BY <3>1 DEF Connect, Send, Inv, ClientTypeOK, ClientOK, Fields
    <3>2. CASE ConnectionLost(c)
      BY <3>2 DEF ConnectionLost, Inv, ClientTypeOK, ClientOK, Fields
    <3>3. CASE Handling(c)
      <4>1. /\ client[c].pc = "sent"
            /\ \E reply \in {"ok", "refused"} : client' = [client EXCEPT ![c].reply = reply]
        BY <3>3 DEF Handling, CreateRule, RemoveRule, Change, Asked
      <4> QED
        BY <4>1 DEF Inv, ClientTypeOK, ClientOK, Fields
    <3> QED
      BY <1>5, <3>1, <3>2, <3>3
  <2> QED
    BY <2>1, <2>2 DEF AllThereInv, AllThere
<1> QED
  BY <1>1, <1>2, <1>3, <1>4, <1>5 DEF Next, Requesting, vars

\* bpfd create that ends without an error has had every rule of its files taken.
THEOREM SuccessIsComplete == Spec => []SuccessMeansAll
<1>1. Init => AllThereInv
  BY DEF Init, Waiting, AllThereInv, AllThere
<1>2. Inv /\ AllThereInv => SuccessMeansAll
  <2>1. Range(<< >>) = {}
    BY DEF Range
  <2> QED
    BY <2>1 DEF AllThereInv, AllThere, SuccessMeansAll
<1> QED
  BY <1>1, <1>2, AllThereNext, Invariant, PTL DEF Spec

-----------------------------------------------------------------------------
(* The rules in force.                                                     *)

\* ParseFiles is what its loop (rules/rules.go:20-37) makes of the files one by one,
\* from none to the last: each rule is put in the place of an earlier one.
THEOREM FilesInOrder ==
  ASSUME NEW S, NEW files \in Seq(S), NEW file \in S
  PROVE  /\ ParseFiles(<< >>) = {}
         /\ ParseFiles(Append(files, file)) = Put(ParseFiles(files), Parse(file))
<1> DEFINE all == Append(files, file)
           n == Len(files)
<1>1. /\ n \in Nat /\ DOMAIN files = 1..n /\ DOMAIN all = 1..(n + 1)
      /\ all[n + 1] = file /\ \A i \in 1..n : all[i] = files[i]
  BY AppendProperties, LenProperties
<1> HIDE DEF all, n
<1>2. ASSUME NEW i \in 1..n
      PROVE  (\A j \in DOMAIN all : ~Replaces(all, j, i)) <=>
             /\ \A j \in DOMAIN files : ~Replaces(files, j, i)
             /\ ~ /\ Parse(file).tracer = Parse(files[i]).tracer
                  /\ Parse(file).name = Parse(files[i]).name
  BY <1>1 DEF Replaces
<1>3. \A j \in DOMAIN all : ~Replaces(all, j, n + 1)
  BY <1>1 DEF Replaces
<1>4. ASSUME NEW r \in ParseFiles(all)
      PROVE  r \in Put(ParseFiles(files), Parse(file))
  <2>1. PICK i \in DOMAIN all : r = Parse(all[i]) /\ \A j \in DOMAIN all : ~Replaces(all, j, i)
    BY <1>4 DEF ParseFiles
  <2>2. CASE i = n + 1
    BY <1>1, <2>1, <2>2 DEF Put
  <2>3. CASE i \in 1..n
    BY <1>1, <1>2, <2>1, <2>3 DEF Put, ParseFiles
  <2> QED
    BY <1>1, <2>1, <2>2, <2>3
<1>5. ASSUME NEW r \in Put(ParseFiles(files), Parse(file))
      PROVE  r \in ParseFiles(all)
  <2>1. CASE r = Parse(file)
    BY <1>1, <1>3, <2>1 DEF ParseFiles
  <2>2. CASE r # Parse(file)
    <3>1. r \in ParseFiles(files) /\ ~(Parse(file).tracer = r.tracer /\ Parse(file).name = r.name)
      BY <1>5, <2>2 DEF Put
    <3>2. PICK i \in 1..n : r = Parse(files[i]) /\ \A j \in DOMAIN files : ~Replaces(files, j, i)
      BY <1>1, <3>1 DEF ParseFiles
    <3>3. i \in DOMAIN all /\ r = Parse(all[i]) /\ \A j \in DOMAIN all : ~Replaces(all, j, i)
      BY <1>1, <1>2, <3>1, <3>2
    <3> QED
      BY <3>3 DEF ParseFiles
  <2> QED
    BY <2>1, <2>2
<1>6. ParseFiles(<< >>) = {}
  BY DEF ParseFiles
<1> QED
  BY <1>4, <1>5, <1>6 DEF all

\* Between the reading of the files and their check against the lists, the rules are
\* valid by themselves.
ReadIsValid ==
  \A d \in Daemons :
    pc[d] \in {"registry", "validate"} => \A r \in table[d] : Validate(r, Runtimes)

InForceInv == ReadIsValid /\ InForceIsValid

LEMMA ParsedAreValid ==
  ASSUME NEW files, AllParse(files), NEW r \in ParseFiles(files)
  PROVE  Validate(r, Runtimes)
  BY DEF ParseFiles, AllParse, Parses, ToSet

\* What InForceInv says of one daemon.
InForceOK(d) ==
  /\ pc[d] \in {"registry", "validate"} => \A r \in table[d] : Validate(r, Runtimes)
  /\ pc[d] \in {"socket", "listen", "load", "serving"} => \A r \in table[d] : Accepted(r)
  /\ pc[d] = "serving" => started[d] = Tracers

LEMMA OneByOne == InForceInv <=> \A d \in Daemons : InForceOK(d)
  BY DEF InForceInv, ReadIsValid, InForceIsValid, InForceOK, Accepted

\* A step of one daemon, or of its handlers.
LEMMA OthersInForce ==
  ASSUME InForceInv, NEW d \in Daemons, InForceOK(d)',
         \A e \in Daemons \ {d} : /\ pc'[e] = pc[e] /\ table'[e] = table[e]
                                  /\ started'[e] = started[e]
  PROVE  InForceInv'
<1>1. ASSUME NEW e \in Daemons PROVE InForceOK(e)'
  BY OneByOne DEF InForceOK
<1> QED
  BY <1>1 DEF InForceInv, ReadIsValid, InForceIsValid, InForceOK, Accepted

LEMMA InForceStep ==
  ASSUME DaemonInv, InForceInv, NEW d \in Daemons, NextDaemon(d)
  PROVE  InForceInv'
<1>0. /\ DOMAIN pc = Daemons /\ DOMAIN table = Daemons /\ DOMAIN started = Daemons
      /\ InForceOK(d)
  BY OneByOne DEF DaemonInv, Shape, DaemonTypeOK
<1>1. ASSUME NEW how, Exit(d, how)
      PROVE  InForceInv'
  <2>1. \A e \in Daemons \ {d} :
          pc'[e] = pc[e] /\ table'[e] = table[e] /\ started'[e] = started[e]
    BY <1>0, <1>1 DEF Exit
  <2>2. pc'[d] = "exited"
    BY <1>0, <1>1 DEF Exit
  <2> QED
    BY <2>1, <2>2, OthersInForce DEF InForceOK
<1>2. ASSUME NEW from, NEW to, Step(d, from, to)
      PROVE  pc[d] = from /\ pc'[d] = to /\ \A e \in Daemons \ {d} : pc'[e] = pc[e]
  BY <1>0, <1>2 DEF Step
<1>3. CASE Begin(d)
  BY <1>2, <1>3, OthersInForce DEF Begin, InForceOK
<1>4. CASE ReadRules(d)
  <2>1. PICK files \in Directories :
          IF AllParse(files)
          THEN /\ Step(d, "rules", "registry")
               /\ table' = [table EXCEPT ![d] = ParseFiles(files)]
               /\ UNCHANGED <<status, signal, badEnv, loaded, started, socket, listening,
                              warned, boundSince, removedSince>>
          ELSE Exit(d, "error")
    BY <1>4 DEF ReadRules
  <2>2. CASE AllParse(files)
    <3>1. \A r \in table'[d] : Validate(r, Runtimes)
      BY <1>0, <2>1, <2>2, ParsedAreValid
    <3>2. InForceOK(d)'
      BY <1>2, <2>1, <2>2, <3>1 DEF InForceOK
    <3> QED
      BY <1>0, <1>2, <2>1, <2>2, <3>2, OthersInForce
  <2>3. CASE ~AllParse(files)
    BY <1>1, <2>1, <2>3
  <2> QED
    BY <2>2, <2>3
<1>5. CASE GetAll(d)
  <2>1. CASE Step(d, "registry", "validate") /\ UNCHANGED <<table, started>>
    BY <1>0, <1>2, <2>1, OthersInForce DEF InForceOK
  <2> QED
    BY <1>1, <1>5, <2>1 DEF GetAll
<1>6. CASE ValidateAll(d)
  <2>1. CASE /\ \A r \in table[d] : ValidateTracersAndActions(r, Tracers, Actions)
             /\ Step(d, "validate", "socket") /\ UNCHANGED <<table, started>>
    BY <1>0, <1>2, <2>1, OthersInForce DEF InForceOK, Accepted
  <2> QED
    BY <1>1, <1>6, <2>1 DEF ValidateAll
<1>7. CASE RemoveSocket(d) \/ RemoveFails(d)
  BY <1>0, <1>2, <1>7, OthersInForce DEF RemoveSocket, RemoveFails, InForceOK
<1>8. CASE Listen(d)
  <2>1. CASE Step(d, "listen", "load") /\ UNCHANGED <<table, started>>
    BY <1>0, <1>2, <2>1, OthersInForce DEF InForceOK
  <2> QED
    BY <1>1, <1>8, <2>1 DEF Listen
<1>9. CASE LoadTracer(d) \/ Signal(d)
  BY <1>0, <1>9, OthersInForce DEF LoadTracer, Signal, InForceOK
<1>10. CASE StartTracer(d)
  BY <1>0, <1>10, OthersInForce DEF StartTracer, InForceOK
<1>11. CASE Serve(d)
  BY <1>0, <1>2, <1>11, OthersInForce DEF Serve, InForceOK
<1>12. CASE SystemFails(d) \/ LoadFails(d) \/ UnloadAll(d) \/ Crash(d)
  BY <1>1, <1>12 DEF SystemFails, LoadFails, UnloadAll, Crash
<1> QED
  BY <1>3, <1>4, <1>5, <1>6, <1>7, <1>8, <1>9, <1>10, <1>11, <1>12 DEF NextDaemon, Main

LEMMA InForceHandling ==
  ASSUME Inv, InForceInv, NEW c \in Clients, Handling(c)
  PROVE  InForceInv'
<1> DEFINE d == client[c].conn
<1>0. /\ d \in Daemons /\ pc[d] = "serving" /\ InForceOK(d)
      /\ DOMAIN pc = Daemons /\ DOMAIN table = Daemons /\ DOMAIN started = Daemons
  BY OneByOne DEF Handling, CreateRule, RemoveRule, Asked, Inv, ClientTypeOK, ClientOK,
    DaemonInv, Shape, DaemonTypeOK
<1> HIDE DEF d
<1>1. ASSUME NEW rules, Change(c, rules), \A r \in rules : Accepted(r)
      PROVE  InForceInv'
  BY <1>0, <1>1, OthersInForce DEF Change, InForceOK, d
<1>2. ASSUME UNCHANGED daemonVars
      PROVE  InForceInv'
  BY <1>2 DEF daemonVars, InForceInv, ReadIsValid, InForceIsValid
<1>3. CASE CreateRule(c)
  <2> DEFINE rule == Head(client[c].todo).rule
  <2>1. CASE Accepted(rule) /\ Change(c, Put(table[d], rule))
    <3>1. \A r \in Put(table[d], rule) : Accepted(r)
      BY <1>0, <2>1 DEF Put, InForceOK
    <3> QED
      BY <1>1, <2>1, <3>1
  <2> QED
    BY <1>2, <1>3, <2>1 DEF CreateRule, d
<1>4. CASE RemoveRule(c)
  <2> DEFINE name == Head(client[c].todo).name
  <2>1. CASE Change(c, {r \in table[d] : r.name # name})
    <3>1. \A r \in {r \in table[d] : r.name # name} : Accepted(r)
      BY <1>0 DEF InForceOK
    <3> QED
      BY <1>1, <2>1, <3>1
  <2> QED
    BY <1>2, <1>4, <2>1 DEF RemoveRule, d
<1> QED
  BY <1>3, <1>4 DEF Handling

LEMMA InForceNext == Inv /\ InForceInv /\ [Next]_vars => InForceInv'
<1> SUFFICES ASSUME Inv, InForceInv, [Next]_vars PROVE InForceInv'
  OBVIOUS
<1>1. CASE UNCHANGED daemonVars
  BY <1>1 DEF daemonVars, InForceInv, ReadIsValid, InForceIsValid
<1>2. ASSUME NEW d \in Daemons, NextDaemon(d)
      PROVE  InForceInv'
  BY <1>2, InForceStep DEF Inv
<1>3. ASSUME NEW c \in Clients, CreateRun(c) \/ RemoveRun(c) \/ Requesting(c)
      PROVE  UNCHANGED daemonVars
  BY <1>3 DEF CreateRun, RemoveRun, Requesting, Connect, Send, Answer, ConnectionLost
<1>4. CASE UNCHANGED vars
  BY <1>1, <1>4 DEF vars
<1> QED
  BY <1>1, <1>2, <1>3, <1>4, InForceHandling DEF Next

\* The rules that a daemon has in force passed both checks (Validate,
\* ValidateTracersAndActions), whether they are from its files (daemon.go) or were
\* created later (CreateRule); and it serves with all of its tracers loaded.
THEOREM InForceStaysValid == Spec => []InForceIsValid
<1>1. Init => InForceInv
  BY DEF Init, InitDaemon, InForceInv, ReadIsValid, InForceIsValid
<1>2. InForceInv => InForceIsValid
  BY DEF InForceInv
<1> QED
  BY <1>1, <1>2, Invariant, InForceNext, PTL DEF Spec
-----------------------------------------------------------------------------
(* How a command gets on.                                                  *)

\* What a command has to do are requests.
TodoInv == \A c \in Clients : client[c].todo \in Seq(Requests)

LEMMA TodoStarts ==
  ASSUME Inv, TodoInv, NEW c \in Clients, CreateRun(c) \/ RemoveRun(c)
  PROVE  TodoInv'
<1>1. \A e \in Clients \ {c} : client'[e] = client[e]
  BY DEF CreateRun, RemoveRun, Inv, ClientTypeOK
<1>2. CASE CreateRun(c)
  <2>1. PICK cmd \in {cmd \in Commands : cmd.op = "create"} :
          IF AllParse(cmd.files)
          THEN \E order \in Orders(ParseFiles(cmd.files)) :
                 client' = [client EXCEPT ![c].pc = Loop(order), ![c].cmd = cmd,
                              ![c].todo = [i \in DOMAIN order |-> CreateRequest(order[i])]]
          ELSE client' = [client EXCEPT ![c].pc = "failed", ![c].cmd = cmd]
    BY <1>2 DEF CreateRun
  <2>2. CASE AllParse(cmd.files)
    <3>1. PICK order \in Orders(ParseFiles(cmd.files)) :
            client' = [client EXCEPT ![c].pc = Loop(order), ![c].cmd = cmd,
                         ![c].todo = [i \in DOMAIN order |-> CreateRequest(order[i])]]
      BY <2>1, <2>2
    <3> DEFINE n == Cardinality(ParseFiles(cmd.files))
    <3>2. /\ n \in Nat /\ DOMAIN order = 1 .. n
          /\ \A i \in 1 .. n : order[i] \in ParseFiles(cmd.files)
      BY RuleClientAssumption DEF RuleClientAssumption, Orders
    <3> HIDE DEF n
    <3>3. [i \in DOMAIN order |-> CreateRequest(order[i])] \in [1 .. n -> Requests]
      BY <3>2 DEF Requests
    <3>4. client'[c].todo = [i \in DOMAIN order |-> CreateRequest(order[i])]
      BY <3>1 DEF Inv, ClientTypeOK, ClientOK, Fields
    <3> QED
      BY <1>1, <3>2, <3>3, <3>4, SeqDef DEF TodoInv
  <2>3. CASE ~AllParse(cmd.files)
    <3>1. client'[c].todo = client[c].todo
      BY <2>1, <2>3 DEF Inv, ClientTypeOK, ClientOK, Fields
    <3> QED
      BY <1>1, <3>1 DEF TodoInv
  <2> QED
    BY <2>2, <2>3
<1>3. CASE RemoveRun(c)
  <2>1. PICK cmd \in {cmd \in Commands : cmd.op = "rm"} :
          client' = [client EXCEPT ![c].pc = Loop(cmd.names), ![c].cmd = cmd,
                       ![c].todo = [i \in DOMAIN cmd.names |-> RemoveRequest(cmd.names[i])]]
    BY <1>3 DEF RemoveRun
  <2>2. cmd.names \in Seq(STRING)
    BY RuleClientAssumption DEF RuleClientAssumption
  <2> DEFINE n == Len(cmd.names)
  <2>3. /\ n \in Nat /\ DOMAIN cmd.names = 1 .. n
        /\ \A i \in 1 .. n : cmd.names[i] \in ToSet(cmd.names)
    BY <2>2, LenProperties DEF ToSet
  <2> HIDE DEF n
  <2>4. [i \in DOMAIN cmd.names |-> RemoveRequest(cmd.names[i])] \in [1 .. n -> Requests]
    BY <2>3 DEF Requests
  <2>5. client'[c].todo = [i \in DOMAIN cmd.names |-> RemoveRequest(cmd.names[i])]
    BY <2>1 DEF Inv, ClientTypeOK, ClientOK, Fields
  <2> QED
    BY <1>1, <2>3, <2>4, <2>5, SeqDef DEF TodoInv
<1> QED
  BY <1>2, <1>3

\* A handler does nothing to its client's run but answer.
LEMMA HandlingAnswers ==
  ASSUME Inv, NEW c \in Clients, Handling(c)
  PROVE  /\ client[c].pc = "sent" /\ client[c].reply = "none"
         /\ pc[client[c].conn] = "serving" /\ UNCHANGED <<pc, listening>>
         /\ client'[c].reply \in {"ok", "refused"}
         /\ client'[c].pc = client[c].pc /\ client'[c].conn = client[c].conn
         /\ client'[c].todo = client[c].todo
<1>1. /\ Asked(c) /\ UNCHANGED <<pc, listening>>
      /\ \E reply \in {"ok", "refused"} : client' = [client EXCEPT ![c].reply = reply]
  BY DEF Handling, CreateRule, RemoveRule, Change, Asked, daemonVars
<1> QED
  BY <1>1 DEF Asked, Inv, ClientTypeOK, ClientOK, Fields

LEMMA OthersStay ==
  ASSUME Inv, NEW c \in Clients,
         CreateRun(c) \/ RemoveRun(c) \/ Requesting(c) \/ Handling(c)
  PROVE  /\ \A e \in Clients \ {c} : client'[e] = client[e]
         /\ UNCHANGED <<pc, listening>>
<1>1. UNCHANGED <<pc, listening>>
  BY DEF CreateRun, RemoveRun, Requesting, Connect, Send, Answer, ConnectionLost, Handling,
    CreateRule, RemoveRule, Change, daemonVars
<1>2. \A e \in Clients \ {c} : client'[e] = client[e]
  BY DEF CreateRun, RemoveRun, Requesting, Connect, Send, Answer, ConnectionLost, Handling,
    CreateRule, RemoveRule, Change, Inv, ClientTypeOK
<1> QED
  BY <1>1, <1>2

LEMMA TodoNext == Inv /\ TodoInv /\ [Next]_vars => TodoInv'
<1> SUFFICES ASSUME Inv, TodoInv, [Next]_vars PROVE TodoInv'
  OBVIOUS
<1>1. CASE UNCHANGED client
  BY <1>1 DEF TodoInv
<1>2. ASSUME NEW c \in Clients, Requesting(c) \/ Handling(c)
      PROVE  TodoInv'
  <2>1. client'[c].todo \in {client[c].todo, Tail(client[c].todo)}
    <3>1. CASE Connect(c) \/ Send(c) \/ ConnectionLost(c)
      BY <3>1 DEF Connect, Send, ConnectionLost, Inv, ClientTypeOK, ClientOK, Fields
    <3>2. CASE Answer(c)
      BY <3>2 DEF Answer, Inv, ClientTypeOK, ClientOK, Fields
    <3>3. CASE Handling(c)
      BY <3>3, HandlingAnswers
    <3> QED
      BY <1>2, <3>1, <3>2, <3>3 DEF Requesting
  <2>2. client'[c].todo # client[c].todo => client[c].todo # << >>
    <3>1. client'[c].todo # client[c].todo => Answer(c)
      BY <1>2, HandlingAnswers
      DEF Requesting, Connect, Send, ConnectionLost, Inv, ClientTypeOK, ClientOK, Fields
    <3> QED
      BY <3>1 DEF Answer, Inv, ClientTypeOK, ClientOK
  <2>3. client'[c].todo \in Seq(Requests)
    BY <2>1, <2>2, HeadTailProperties DEF TodoInv
  <2> QED
    BY <1>2, <2>3, OthersStay DEF TodoInv
<1> QED
  BY <1>1, <1>2, TodoStarts DEF Next, vars

\* Whatever is done for a command brings it nearer to its end.
LEMMA OwnStepIsNearer ==
  ASSUME Inv, TodoInv, NEW c \in Clients, Requesting(c) \/ Handling(c)
  PROVE  Nearer(c)
<1>1. UNCHANGED <<pc, listening>> /\ Alive' = Alive
  BY OthersStay DEF Alive
<1>2. CASE Connect(c)
  <2>1. client[c].pc = "sending" /\ ~Connected(c) /\ client'[c].todo = client[c].todo
    BY <1>2 DEF Connect, Inv, ClientTypeOK, ClientOK, Fields
  <2>2. \/ client'[c].pc = "sending" /\ client'[c].conn \in listening
        \/ client'[c].pc = "failed"
    BY <1>2 DEF Connect, Inv, ClientTypeOK, ClientOK, Fields
  <2>3. ToGo(c) = 4
    BY <2>1 DEF ToGo
  <2>4. ToGo(c)' \in {0, 3}
    BY <1>1, <2>2 DEF ToGo, Connected
  <2> QED
    BY <1>1, <2>1, <2>3, <2>4 DEF Nearer
<1>3. CASE Send(c)
  <2>1. client[c].pc = "sending" /\ Connected(c) /\ client'[c].todo = client[c].todo
    BY <1>3 DEF Send, Inv, ClientTypeOK, ClientOK, Fields
  <2>2. client'[c].pc = "sent" /\ client'[c].reply = "none" /\ client'[c].conn = client[c].conn
    BY <1>3 DEF Send, Inv, ClientTypeOK, ClientOK, Fields
  <2>3. ToGo(c) = 3
    BY <2>1 DEF ToGo
  <2>4. ToGo(c)' = 2
    BY <1>1, <2>1, <2>2 DEF ToGo, Connected
  <2> QED
    BY <1>1, <2>1, <2>3, <2>4 DEF Nearer
<1>4. CASE Answer(c)
  <2>1. client[c].pc = "sent" /\ client[c].reply # "none" /\ client[c].todo # << >>
    BY <1>4 DEF Answer, Inv, ClientTypeOK, ClientOK
  <2>2. CASE client[c].reply = "refused"
    <3>1. client'[c].pc = "failed" /\ client'[c].todo = client[c].todo
      BY <1>4, <2>2 DEF Answer, Inv, ClientTypeOK, ClientOK, Fields
    <3>2. ToGo(c)' = 0
      BY <3>1 DEF ToGo
    <3>3. ToGo(c) \in {1, 5}
      BY <2>1 DEF ToGo
    <3> QED
      BY <1>1, <3>1, <3>2, <3>3 DEF Nearer
  <2>3. CASE client[c].reply # "refused"
    <3>1. client'[c].todo = Tail(client[c].todo)
      BY <1>4, <2>3 DEF Answer, Inv, ClientTypeOK, ClientOK, Fields
    <3>2. Len(client[c].todo) \in Nat /\ Len(Tail(client[c].todo)) = Len(client[c].todo) - 1
      BY <2>1, HeadTailProperties, LenProperties DEF TodoInv
    <3> QED
      BY <3>1, <3>2 DEF Nearer
  <2> QED
    BY <2>2, <2>3
<1>5. CASE ConnectionLost(c)
  <2>1. client[c].pc = "sent" /\ ~Connected(c) /\ client'[c].todo = client[c].todo
    BY <1>5 DEF ConnectionLost, Inv, ClientTypeOK, ClientOK, Fields
  <2>2. client'[c].pc \in {"sending", "failed"}
    BY <1>5 DEF ConnectionLost, Inv, ClientTypeOK, ClientOK, Fields
  <2>3. client'[c].conn = client[c].conn
    BY <1>5 DEF ConnectionLost, Inv, ClientTypeOK, ClientOK, Fields
  <2>4. ToGo(c) = 5
    BY <2>1 DEF ToGo
  <2>5. ToGo(c)' \in {0, 4}
    BY <1>1, <2>1, <2>2, <2>3 DEF ToGo, Connected
  <2> QED
    BY <1>1, <2>1, <2>4, <2>5 DEF Nearer
<1>6. CASE Handling(c)
  <2>1. Connected(c)
    <3>1. client[c].conn \in Daemons
      BY <1>6, HandlingAnswers DEF Inv, ClientTypeOK, ClientOK
    <3> QED
      BY <1>6, <3>1, HandlingAnswers DEF Connected, Inv, DaemonInv, DaemonTypeOK
  <2>2. ToGo(c) = 2
    BY <1>6, <2>1, HandlingAnswers DEF ToGo
  <2>3. ToGo(c)' = 1
    BY <1>1, <1>6, <2>1, HandlingAnswers DEF ToGo, Connected
  <2> QED
    BY <1>1, <1>6, <2>2, <2>3, HandlingAnswers DEF Nearer
<1> QED
  BY <1>2, <1>3, <1>4, <1>5, <1>6 DEF Requesting

\* A daemon that has ended stays so.
LEMMA DaemonsEnd ==
  ASSUME DaemonInv, NEW d \in Daemons, NextDaemon(d), NEW e \in Daemons, pc[e] = "exited"
  PROVE  pc'[e] = "exited"
  BY DEF DaemonInv, DaemonTypeOK, NextDaemon, Main, Begin, ReadRules, GetAll, ValidateAll,
    RemoveSocket, RemoveFails, SystemFails, Listen, LoadTracer, StartTracer, LoadFails,
    Serve, Signal, UnloadAll, Crash,
    Running, Step, Exit

\* A daemon's step cuts a connection only by its end, and none makes one for a client.
LEMMA DaemonKeepsClose ==
  ASSUME Inv, NEW d \in Daemons, NextDaemon(d), UNCHANGED <<client, displaced>>,
         NEW c \in Clients, ~Nearer(c)
  PROVE  Alive' = Alive /\ ToGo(c)' = ToGo(c)
<1>1. DaemonInv /\ DaemonInv' /\ ClientOK(c)
  BY DaemonKeepsInv DEF Inv, ClientTypeOK
<1>2. Alive' = Alive
  <2>1. Alive' \subseteq Alive
    BY <1>1, DaemonsEnd DEF Alive
  <2> QED
    BY <2>1 DEF Nearer
<1>3. Connected(c)' <=> Connected(c)
  <2>1. CASE client[c].conn = NoDaemon
    BY <1>1, <2>1, DaemonAssumption
    DEF DaemonAssumption, Connected, DaemonInv, DaemonTypeOK
  <2>2. CASE client[c].conn # NoDaemon
    <3> DEFINE e == client[c].conn
    <3>1. e \in Daemons /\ pc[e] \in {"load", "serving", "exited"}
      BY <1>1, <2>2 DEF ClientOK
    <3>2. pc'[e] \in {"load", "serving", "exited"}
      BY <1>1, <3>1, ListenedStep
    <3>3. pc[e] = "exited" <=> pc'[e] = "exited"
      BY <1>2, <3>1 DEF Alive
    <3>4. e \in listening <=> pc[e] \in {"load", "serving"}
      BY <1>1, <3>1 DEF DaemonInv, DaemonTypeOK
    <3>5. e \in listening' <=> pc'[e] \in {"load", "serving"}
      BY <1>1, <3>1 DEF DaemonInv, DaemonTypeOK
    <3> QED
      BY <3>1, <3>2, <3>3, <3>4, <3>5 DEF Connected
  <2> QED
    BY <2>1, <2>2
<1> QED
  BY <1>2, <1>3 DEF ToGo

LEMMA StepRunsDown ==
  ASSUME Inv, TodoInv, [Next]_vars, NEW c \in Clients
  PROVE  /\ Requesting(c) \/ Handling(c) => Nearer(c)
         /\ client[c].pc # "new" /\ ~Nearer(c) =>
              /\ client'[c] = client[c]
              /\ Alive' = Alive /\ ToGo(c)' = ToGo(c)
<1>1. Requesting(c) \/ Handling(c) => Nearer(c)
  BY OwnStepIsNearer
<1>2. ASSUME client[c].pc # "new", ~Nearer(c)
      PROVE  client'[c] = client[c] /\ Alive' = Alive /\ ToGo(c)' = ToGo(c)
  <2>1. ASSUME client'[c] = client[c], UNCHANGED <<pc, listening>>
        PROVE  Alive' = Alive /\ ToGo(c)' = ToGo(c)
    BY <2>1 DEF Alive, ToGo, Connected
  <2>2. CASE UNCHANGED vars
    BY <2>1, <2>2 DEF vars, daemonVars
  <2>3. ASSUME NEW d \in Daemons, NextDaemon(d), UNCHANGED <<client, displaced>>
        PROVE  client'[c] = client[c] /\ Alive' = Alive /\ ToGo(c)' = ToGo(c)
    BY <1>2, <2>3, DaemonKeepsClose
  <2>4. ASSUME NEW e \in Clients,
               CreateRun(e) \/ RemoveRun(e) \/ Requesting(e) \/ Handling(e)
        PROVE  client'[c] = client[c] /\ Alive' = Alive /\ ToGo(c)' = ToGo(c)
    <3>1. e # c
      BY <1>1, <1>2, <2>4 DEF CreateRun, RemoveRun
    <3> QED
      BY <2>1, <2>4, <3>1, OthersStay
  <2> QED
    BY <2>2, <2>3, <2>4 DEF Next
<1> QED
  BY <1>1, <1>2

LEMMA InitTodo == Init => TodoInv
<1>1. << >> \in Seq(Requests)
  BY EmptySeq
<1>2. Waiting.todo = << >>
  BY DEF Waiting
<1>3. Init => \A c \in Clients : client[c].todo = << >>
  BY <1>2 DEF Init
<1> QED
  BY <1>1, <1>3 DEF TodoInv

\* Why a command (create.go, remove.go) comes to an end: what is done for it brings it
\* nearer, lexicographically in what is to do, in the daemons that can still end, and in
\* how far the request is, and nobody else's step throws it back.
THEOREM CommandsGetOn == Spec => CommandsRunDown
<1>1. Init => TodoInv
  BY InitTodo
<1>2. Inv /\ TodoInv /\ [Next]_vars =>
        [\A c \in Clients :
           /\ Requesting(c) \/ Handling(c) => Nearer(c)
           /\ client[c].pc # "new" /\ ~Nearer(c) =>
                /\ client'[c] = client[c]
                /\ Alive' = Alive /\ ToGo(c)' = ToGo(c)]_vars
  BY StepRunsDown
<1> QED
  BY <1>1, <1>2, TodoNext, Invariant, PTL DEF Spec, CommandsRunDown
=============================================================================
