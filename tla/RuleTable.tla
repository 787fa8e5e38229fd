------------------------------ MODULE RuleTable ------------------------------
(***************************************************************************)
(* apiServer.rules and rulesMutex, and the handlers that write the table:  *)
(* CreateRule and RemoveRule (api/api.go).                                 *)
(*                                                                         *)
(* The table is a Go map from tracers to maps from names to rules.  The    *)
(* goroutines that range over it (modules Dispatch and ListRules) take no  *)
(* lock, so a write is modelled in the steps such a reader can tell apart: *)
(*   - while a map is being changed its hashWriting flag is up (`writing`),*)
(*     and a reader that comes across the flag aborts the process;         *)
(*   - m[k] = v puts the slot in the map first and copies the value into   *)
(*     it afterwards, with the flag down again; delete(m, k) clears the    *)
(*     slot's value.  In between the slot is `inTransit`: a reader's copy  *)
(*     of it may mix the fields of the two values.                         *)
(* A slot is stamped with the number of the write that inserted it, so     *)
(* that a reader can tell an entry from a later one of the same name.      *)
(***************************************************************************)
EXTENDS Rules

CONSTANTS
  Tracers,         \* apiServer.tracerList
  Actions,         \* apiServer.actionList
  ValidRuntimes,   \* proc.ContainerRuntimes
  Names,           \* the names of the rules
  Callers,         \* the goroutines that serve CreateRule and RemoveRule
  Requests,        \* the requests they serve
  InitialRules,    \* apiServer.rules as the daemon loads it from files
  MaxCalls,        \* bound: the number of requests
  NoOne            \* nobody holds the mutex; no map is written; no slot in transit

Accepted(rule) ==
  Validate(rule, ValidRuntimes) /\ ValidateTracersAndActions(rule, Tracers, Actions)

\* Faulty variant of Rejected: CreateRule without ValidateTracersAndActions.
RejectedUnlessValid(r) ==
  IF r.op = "create" THEN ~Validate(r.rule, ValidRuntimes) ELSE r.name = ""

\* The error returns of CreateRule and RemoveRule.  A request whose Rule is nil
\* is one for ZeroRule, which Validate refuses as well.
Rejected(r) ==
  IF r.op = "create" THEN ~Accepted(r.rule) ELSE r.name = ""

CreateRequest(rule) == [op |-> "create", rule |-> rule]
RemoveRequest(tracer, name) == [op |-> "remove", tracer |-> tracer, name |-> name]

\* A table is a map of maps in which a rule is found under its tracer and name.
IsTable(t) ==
  /\ DOMAIN t \subseteq Tracers
  /\ \A p \in DOMAIN t :
       /\ DOMAIN t[p] \subseteq Names
       /\ \A n \in DOMAIN t[p] :
            t[p][n].tracer = p /\ t[p][n].name = n /\ Accepted(t[p][n])

ASSUME RuleTableAssumption ==
  /\ "" \notin Tracers /\ "" \notin Names
  /\ NoOne \notin Callers /\ NoOne \notin Tracers \union {"outer"}
  /\ MaxCalls \in Nat
  /\ IsTable(InitialRules)
  /\ \A r \in Requests :
       \/ r.op = "create" /\ r.rule.name \in Names \union {""}
       \/ /\ r.op = "remove"
          /\ r.tracer \in Tracers \union {""}
          /\ r.name \in Names \union {""}

VARIABLES
  rules,        \* apiServer.rules
  born,         \* born[p][n]: the write that inserted the entry n of tracer p
  writes,       \* history: how many times a map began to be written
  writing,      \* the map whose hashWriting flag is up: a tracer, "outer" or NoOne
  inTransit,    \* the slot whose value is being replaced, or NoOne
  rulesMutex,   \* who holds apiServer.rulesMutex, or NoOne
  pc,           \* program counter of a handler
  req,          \* the request it serves
  todo,         \* the tracers RemoveRule has not ranged over yet
  calls,        \* history: how many requests there have been
  committed     \* history: rules when the mutex was last released

tableVars == <<rules, born, writes, writing, inTransit>>
vars == <<tableVars, rulesMutex, pc, req, todo, calls, committed>>

\* m[k] = v and delete(m, k).
Put(m, k, v) == [x \in DOMAIN m \union {k} |-> IF x = k THEN v ELSE m[x]]
Delete(m, k) == [x \in DOMAIN m \ {k} |-> m[x]]

\* The rules in a table.
Contents(t) == UNION {{t[p][n] : n \in DOMAIN t[p]} : p \in DOMAIN t}

NoRequest == RemoveRequest("", "")

Init ==
  /\ rules = InitialRules
  /\ born = [p \in Tracers |-> [n \in Names |-> 0]]
  /\ writes = 0
  /\ writing = NoOne
  /\ inTransit = NoOne
  /\ rulesMutex = NoOne
  /\ pc = [c \in Callers |-> "idle"]
  /\ req = [c \in Callers |-> NoRequest]
  /\ todo = [c \in Callers |-> {}]
  /\ calls = 0
  /\ committed = InitialRules

-----------------------------------------------------------------------------
GoTo(c, l) == pc' = [pc EXCEPT ![c] = l]

\* The deferred Unlock, and the reply.
Return(c) ==
  /\ GoTo(c, "idle")
  /\ req' = [req EXCEPT ![c] = NoRequest]
  /\ todo' = [todo EXCEPT ![c] = {}]
  /\ rulesMutex' = NoOne
  /\ committed' = rules'
  /\ UNCHANGED calls

Stay == UNCHANGED <<rulesMutex, req, calls, committed>>

\* The map m begins to be written.
BeginWrite(m) ==
  /\ writing' = m
  /\ writes' = writes + 1

\* A client's request reaches a handler.
Call(c) ==
  /\ pc[c] = "idle"
  /\ calls < MaxCalls
  /\ \E r \in Requests : req' = [req EXCEPT ![c] = r]
  /\ calls' = calls + 1
  /\ GoTo(c, "lock")
  /\ UNCHANGED <<tableVars, rulesMutex, todo, committed>>

\* Faulty variant of Lock: one that does not wait for the mutex.
LockUnguarded(c) ==
  /\ pc[c] = "lock"
  /\ rulesMutex' = c
  /\ GoTo(c, "check")
  /\ UNCHANGED <<tableVars, req, todo, calls, committed>>

\* s.rulesMutex.Lock()
Lock(c) ==
  /\ pc[c] = "lock"
  /\ rulesMutex = NoOne
  /\ rulesMutex' = c
  /\ GoTo(c, "check")
  /\ UNCHANGED <<tableVars, req, todo, calls, committed>>

\* Faulty variant of Reject: a refused request is tried again, not answered.
RejectRetries(c) ==
  /\ pc[c] = "check"
  /\ Rejected(req[c])
  /\ GoTo(c, "lock")
  /\ rulesMutex' = NoOne
  /\ UNCHANGED <<tableVars, req, todo, calls, committed>>

\* The checks at the start of both handlers: an error return.
Reject(c) ==
  /\ pc[c] = "check"
  /\ Rejected(req[c])
  /\ UNCHANGED tableVars
  /\ Return(c)

\* CreateRule begins to write: the outer map for the first rule of a tracer,
\* the tracer's own map otherwise.
CreateBegin(c) ==
  /\ pc[c] = "check"
  /\ req[c].op = "create"
  /\ ~Rejected(req[c])
  /\ IF req[c].rule.tracer \in DOMAIN rules
     THEN BeginWrite(req[c].rule.tracer) /\ GoTo(c, "assign")
     ELSE BeginWrite("outer") /\ GoTo(c, "assignOuter")
  /\ Stay
  /\ UNCHANGED <<rules, born, inTransit, todo>>

\* s.rules[tracer] = map[string]grpc.Rule{name: rule}: one pointer is stored.
CreateTracer(c) ==
  /\ pc[c] = "assignOuter"
  /\ LET rule == req[c].rule IN
       /\ rules' = Put(rules, rule.tracer, Put(EmptyMap, rule.name, rule))
       /\ born' = [born EXCEPT ![rule.tracer][rule.name] = writes]
  /\ writing' = NoOne
  /\ Return(c)
  /\ UNCHANGED <<writes, inTransit>>

\* s.rules[tracer][name] = rule: the slot is in the map ...
CreateSlot(c) ==
  /\ pc[c] = "assign"
  /\ LET rule == req[c].rule
         m == rules[rule.tracer]
         new == rule.name \notin DOMAIN m
     IN /\ rules' = [rules EXCEPT ![rule.tracer] = Put(@, rule.name, rule)]
        /\ born' = IF new THEN [born EXCEPT ![rule.tracer][rule.name] = writes] ELSE born
        /\ inTransit' = [tracer |-> rule.tracer, name |-> rule.name, new |-> rule,
                         old |-> IF new THEN ZeroRule ELSE m[rule.name]]
  /\ writing' = NoOne
  /\ GoTo(c, "copy")
  /\ Stay
  /\ UNCHANGED <<writes, todo>>

\* ... and the rule has been copied into it.
CreateCopied(c) ==
  /\ pc[c] = "copy"
  /\ inTransit' = NoOne
  /\ UNCHANGED <<rules, born, writes, writing>>
  /\ Return(c)

\* RemoveRule: with a tracer, delete from that tracer's map; without, range
\* over the tracers.
RemoveBegin(c) ==
  /\ pc[c] = "check"
  /\ req[c].op = "remove"
  /\ ~Rejected(req[c])
  /\ GoTo(c, "range")
  /\ todo' = [todo EXCEPT ![c] =
                IF req[c].tracer = "" THEN DOMAIN rules ELSE DOMAIN rules \intersect {req[c].tracer}]
  /\ Stay
  /\ UNCHANGED tableVars

\* Whether p's map is written.  The range over the tracers deletes where it has found
\* the name; with a tracer delete is called in any case, and raises the flag of the map
\* unless that is empty.
Deletes(c, p) ==
  \/ req[c].name \in DOMAIN rules[p]
  \/ req[c].tracer # "" /\ DOMAIN rules[p] # {}

\* The next tracer: one whose map is not written is passed over.
RemoveSkip(c) ==
  /\ pc[c] = "range"
  /\ \E p \in todo[c] :
       /\ ~Deletes(c, p)
       /\ todo' = [todo EXCEPT ![c] = @ \ {p}]
  /\ Stay
  /\ UNCHANGED <<tableVars, pc>>

\* delete(s.rules[p], name): the slot, if there is one, is being cleared ...
DeleteBegin(c) ==
  /\ pc[c] = "range"
  /\ \E p \in todo[c] :
       /\ Deletes(c, p)
       /\ BeginWrite(p)
       /\ inTransit' = IF req[c].name \notin DOMAIN rules[p] THEN NoOne
                       ELSE [tracer |-> p, name |-> req[c].name, new |-> ZeroRule,
                             old |-> rules[p][req[c].name]]
  /\ GoTo(c, "delete")
  /\ Stay
  /\ UNCHANGED <<rules, born, todo>>

\* Faulty variant of DeleteEnd: `break` out of the tracers for `continue`.
DeleteBreaks(c) ==
  /\ pc[c] = "delete"
  /\ rules' = [rules EXCEPT ![writing] = Delete(@, req[c].name)]
  /\ todo' = [todo EXCEPT ![c] = {}]
  /\ writing' = NoOne
  /\ inTransit' = NoOne
  /\ GoTo(c, "range")
  /\ Stay
  /\ UNCHANGED <<born, writes>>

\* ... and has gone.
DeleteEnd(c) ==
  /\ pc[c] = "delete"
  /\ rules' = [rules EXCEPT ![writing] = Delete(@, req[c].name)]
  /\ todo' = [todo EXCEPT ![c] = @ \ {writing}]
  /\ writing' = NoOne
  /\ inTransit' = NoOne
  /\ GoTo(c, "range")
  /\ Stay
  /\ UNCHANGED <<born, writes>>

RemoveEnd(c) ==
  /\ pc[c] = "range"
  /\ todo[c] = {}
  /\ UNCHANGED tableVars
  /\ Return(c)

-----------------------------------------------------------------------------
\* A step of a handler that holds the mutex.
Locked(c) ==
  \/ Reject(c)
  \/ CreateBegin(c) \/ CreateTracer(c) \/ CreateSlot(c) \/ CreateCopied(c)
  \/ RemoveBegin(c) \/ RemoveSkip(c) \/ DeleteBegin(c) \/ DeleteEnd(c) \/ RemoveEnd(c)

Next == \E c \in Callers : Call(c) \/ Lock(c) \/ Locked(c)

Spec == Init /\ [][Next]_vars

\* The Go scheduler runs a handler that can run, and a sync.Mutex passes to a
\* goroutine that has waited too long (its starvation mode, Go 1.9).  Nothing
\* makes a client send a request.
FairSpec ==
  /\ Spec
  /\ \A c \in Callers : SF_vars(Lock(c)) /\ WF_vars(Locked(c))

-----------------------------------------------------------------------------
(* Properties.                                                             *)

\* The variables have their types; `born` and the history follow the table.
TypeOK ==
  /\ IsTable(rules) /\ IsTable(committed)
  /\ born \in [Tracers -> [Names -> Nat]]
  /\ writes \in Nat /\ calls \in 0..MaxCalls
  /\ writing \in Tracers \union {"outer", NoOne}
  /\ rulesMutex \in Callers \union {NoOne}
  /\ pc \in [Callers -> {"idle", "lock", "check", "assignOuter", "assign", "copy",
                         "range", "delete"}]
  /\ req \in [Callers -> Requests \union {NoRequest}]
  /\ todo \in [Callers -> SUBSET Tracers]

\* A map is only ever changed by the one handler that holds the mutex, and the
\* table is never left half written: when the mutex is free no flag is up, no
\* slot is in transit, and the table is what the last handler left.
WritesAreLocked ==
  /\ \A c \in Callers : pc[c] \notin {"idle", "lock"} <=> rulesMutex = c
  /\ rulesMutex = NoOne => writing = NoOne /\ inTransit = NoOne /\ rules = committed
  /\ writing # NoOne => pc[rulesMutex] \in {"assignOuter", "assign", "delete"}
  /\ inTransit # NoOne => pc[rulesMutex] \in {"copy", "delete"}

\* Seen by whoever takes the mutex, CreateRule and RemoveRule are atomic: when
\* a handler releases it, its request has been applied as a whole and nothing
\* else has changed, whatever other handlers wait (api.go:128-199).
Atomic == INSTANCE AtomicRules WITH
            table <- Contents(committed),
            InitialTable <- Contents(InitialRules)

AtomicSpec == Atomic!Spec

\* Every step for a request brings it nearer to its answer: on from one phase to the
\* next, or in the range of RemoveRule over fewer tracers, or to the deletion from one.
\* And no other request's step throws it back, though they work on the same table.
Stages == [idle |-> 0, copy |-> 1, assign |-> 2, assignOuter |-> 2, range |-> 2, delete |-> 2,
           check |-> 3, lock |-> 4]
Nearer(c) ==
  \/ Stages[pc'[c]] < Stages[pc[c]]
  \/ todo'[c] \subseteq todo[c] /\ todo'[c] # todo[c] /\ pc'[c] = "range"
  \/ todo'[c] = todo[c] /\ pc[c] = "range" /\ pc'[c] = "delete"
RequestsRunDown ==
  [][\A c \in Callers : pc[c] # "idle" =>
       IF Lock(c) \/ Locked(c) THEN Nearer(c)
       ELSE pc'[c] = pc[c] /\ req'[c] = req[c] /\ todo'[c] = todo[c]]_vars

\* Every request is answered.
RequestsReturn == \A c \in Callers : pc[c] # "idle" ~> pc[c] = "idle"
=============================================================================
