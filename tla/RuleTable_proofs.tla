--------------------------- MODULE RuleTable_proofs ---------------------------
(***************************************************************************)
(* Proofs about the rule table, for any number of handlers, requests,      *)
(* tracers and rules: the table keeps its type, it is written under the    *)
(* mutex only, CreateRule and RemoveRule are atomic, and each step for a   *)
(* request brings it nearer to its answer.                                 *)
(***************************************************************************)
EXTENDS RuleTable, TLAPS

-----------------------------------------------------------------------------
(* The inductive invariant: what holds at each program point of a handler. *)

Clean == writing = NoOne /\ inTransit = NoOne /\ rules = committed

Creating(c) ==
  /\ req[c].op = "create"
  /\ Accepted(req[c].rule)
  /\ req[c].rule.name \in Names

\* The table t with the rule added under its tracer, which old knows.
IsCreated(t, old, rule) ==
  /\ rule.tracer \in DOMAIN old
  /\ DOMAIN t = DOMAIN old
  /\ \A p \in DOMAIN old \ {rule.tracer} : t[p] = old[p]
  /\ DOMAIN t[rule.tracer] = DOMAIN old[rule.tracer] \union {rule.name}
  /\ t[rule.tracer][rule.name] = rule
  /\ \A n \in DOMAIN old[rule.tracer] \ {rule.name} :
       t[rule.tracer][n] = old[rule.tracer][n]

\* The table t without the name in the tracers of S.
IsRemoved(t, old, name, S) ==
  /\ DOMAIN t = DOMAIN old
  /\ \A p \in DOMAIN old \ S : t[p] = old[p]
  /\ \A p \in DOMAIN old \intersect S :
       /\ DOMAIN t[p] = DOMAIN old[p] \ {name}
       /\ \A n \in DOMAIN t[p] : t[p][n] = old[p][n]

\* The tracers a request to remove is about.
Targets(r) == {p \in DOMAIN committed : r.tracer \in {"", p}}

Removing(c) ==
  /\ req[c].op = "remove"
  /\ todo[c] \subseteq Targets(req[c])
  /\ IsRemoved(rules, committed, req[c].name, Targets(req[c]) \ todo[c])

HolderInv(c) ==
  /\ pc[c] # "idle" => req[c] \in Requests
  /\ pc[c] = "check" => Clean
  /\ pc[c] = "assignOuter" =>
       /\ Creating(c) /\ req[c].rule.tracer \notin DOMAIN rules
       /\ writing = "outer" /\ inTransit = NoOne /\ rules = committed
  /\ pc[c] = "assign" =>
       /\ Creating(c) /\ req[c].rule.tracer \in DOMAIN rules
       /\ writing = req[c].rule.tracer /\ inTransit = NoOne /\ rules = committed
  /\ pc[c] = "copy" =>
       Creating(c) /\ writing = NoOne /\ IsCreated(rules, committed, req[c].rule)
  /\ pc[c] = "range" => Removing(c) /\ writing = NoOne /\ inTransit = NoOne
  /\ pc[c] = "delete" => Removing(c) /\ writing \in todo[c]

MutexInv == \A c \in Callers : pc[c] \notin {"idle", "lock"} <=> rulesMutex = c

TableInv ==
  /\ TypeOK
  /\ MutexInv
  /\ rulesMutex = NoOne => Clean
  /\ \A c \in Callers : HolderInv(c)

-----------------------------------------------------------------------------
(* Tables.                                                                 *)

\* A rule that is accepted has a name, and one of the daemon's tracers.
LEMMA AcceptedRule ==
  ASSUME NEW rule, Accepted(rule)
  PROVE  rule.name # "" /\ rule.tracer \in Tracers
BY DEF Accepted, Validate, ValidateTracersAndActions

\* A table stays one when a rule is created in it.
LEMMA CreatedIsTable ==
  ASSUME NEW t, NEW old, NEW rule, IsTable(old), IsCreated(t, old, rule),
         Accepted(rule), rule.name \in Names
  PROVE  IsTable(t)
BY DEF IsTable, IsCreated

\* What creating a rule does to the set of the rules.
LEMMA CreatedContents ==
  ASSUME NEW t, NEW old, NEW rule, IsTable(old), IsCreated(t, old, rule)
  PROVE  Contents(t) =
           {r \in Contents(old) : r.tracer # rule.tracer \/ r.name # rule.name} \union {rule}
<1>1. \A x : x \in Contents(t) <=> \E p \in DOMAIN t : \E n \in DOMAIN t[p] : x = t[p][n]
  BY DEF Contents
<1>2. \A x : x \in Contents(old) <=> \E p \in DOMAIN old : \E n \in DOMAIN old[p] : x = old[p][n]
  BY DEF Contents
<1>3. \A p \in DOMAIN old : \A n \in DOMAIN old[p] : old[p][n].tracer = p /\ old[p][n].name = n
  BY DEF IsTable
<1>4. ASSUME NEW x \in Contents(t), x # rule
      PROVE  x \in Contents(old) /\ (x.tracer # rule.tracer \/ x.name # rule.name)
  <2>1. PICK p \in DOMAIN t : \E n \in DOMAIN t[p] : x = t[p][n]
    BY <1>1
  <2>2. PICK n \in DOMAIN t[p] : x = t[p][n]
    BY <2>1
  <2>3. CASE p = rule.tracer
    BY <1>2, <1>3, <1>4, <2>2, <2>3 DEF IsCreated
  <2>4. CASE p # rule.tracer
    BY <1>2, <1>3, <2>2, <2>4 DEF IsCreated
  <2> QED
    BY <2>3, <2>4
<1>5. ASSUME NEW x \in Contents(old), x.tracer # rule.tracer \/ x.name # rule.name
      PROVE  x \in Contents(t)
  <2>1. PICK p \in DOMAIN old : \E n \in DOMAIN old[p] : x = old[p][n]
    BY <1>2
  <2>2. PICK n \in DOMAIN old[p] : x = old[p][n]
    BY <2>1
  <2>3. CASE p = rule.tracer
    BY <1>1, <1>3, <1>5, <2>2, <2>3 DEF IsCreated
  <2>4. CASE p # rule.tracer
    BY <1>1, <2>2, <2>4 DEF IsCreated
  <2> QED
    BY <2>3, <2>4
<1>6. rule \in Contents(t)
  BY <1>1 DEF IsCreated
<1> QED
  BY <1>4, <1>5, <1>6

\* The first rule of a tracer: the same, with a map for the tracer.
LEMMA FirstRule ==
  ASSUME NEW t, IsTable(t), NEW rule, Accepted(rule), rule.name \in Names,
         rule.tracer \notin DOMAIN t
  PROVE  LET new == Put(t, rule.tracer, Put(EmptyMap, rule.name, rule)) IN
           /\ IsTable(new)
           /\ Contents(new) =
                {r \in Contents(t) : r.tracer # rule.tracer \/ r.name # rule.name} \union {rule}
<1> DEFINE one == Put(EmptyMap, rule.name, rule)
           new == Put(t, rule.tracer, one)
<1>1. DOMAIN one = {rule.name} /\ one[rule.name] = rule
  BY DEF Put, EmptyMap
<1> HIDE DEF one
<1>2. /\ DOMAIN new = DOMAIN t \union {rule.tracer}
      /\ new[rule.tracer] = one
      /\ \A p \in DOMAIN t : new[p] = t[p]
  BY DEF Put
<1> HIDE DEF new
<1>3. IsTable(new)
  <2>1. rule.tracer \in Tracers
    BY AcceptedRule
  <2>2. DOMAIN new \subseteq Tracers
    BY <1>2, <2>1 DEF IsTable
  <2>3. ASSUME NEW p \in DOMAIN new
        PROVE  /\ DOMAIN new[p] \subseteq Names
               /\ \A n \in DOMAIN new[p] :
                    new[p][n].tracer = p /\ new[p][n].name = n /\ Accepted(new[p][n])
    <3>1. CASE p = rule.tracer
      BY <1>1, <1>2, <3>1
    <3>2. CASE p \in DOMAIN t
      BY <1>2, <3>2 DEF IsTable
    <3> QED
      BY <1>2, <3>1, <3>2
  <2> QED
    BY <2>2, <2>3 DEF IsTable
<1>4. \A x : x \in Contents(new) <=> x \in Contents(t) \/ x = rule
  BY <1>1, <1>2 DEF Contents
<1>5. \A r \in Contents(t) : r.tracer # rule.tracer
  BY DEF IsTable, Contents
<1>6. Contents(new) =
        {r \in Contents(t) : r.tracer # rule.tracer \/ r.name # rule.name} \union {rule}
  BY <1>4, <1>5
<1> QED
  BY <1>3, <1>6 DEF new, one

\* A table stays one when a name is removed.
LEMMA RemovedIsTable ==
  ASSUME NEW t, NEW old, NEW name, NEW S, IsTable(old), IsRemoved(t, old, name, S)
  PROVE  IsTable(t)
BY DEF IsTable, IsRemoved

\* What removing a name from the tracers of S does to the set of the rules.
LEMMA RemovedContents ==
  ASSUME NEW t, NEW old, NEW name, NEW S, IsTable(old), IsRemoved(t, old, name, S)
  PROVE  Contents(t) = {r \in Contents(old) : r.name # name \/ r.tracer \notin S}
<1>1. \A x : x \in Contents(t) <=> \E p \in DOMAIN t : \E n \in DOMAIN t[p] : x = t[p][n]
  BY DEF Contents
<1>2. \A x : x \in Contents(old) <=> \E p \in DOMAIN old : \E n \in DOMAIN old[p] : x = old[p][n]
  BY DEF Contents
<1>3. \A p \in DOMAIN old : \A n \in DOMAIN old[p] : old[p][n].tracer = p /\ old[p][n].name = n
  BY DEF IsTable
<1>4. ASSUME NEW x \in Contents(t)
      PROVE  x \in Contents(old) /\ (x.name # name \/ x.tracer \notin S)
  BY <1>1, <1>2, <1>3 DEF IsRemoved
<1>5. ASSUME NEW x \in Contents(old), x.name # name \/ x.tracer \notin S
      PROVE  x \in Contents(t)
  <2>1. PICK p \in DOMAIN old : \E n \in DOMAIN old[p] : x = old[p][n]
    BY <1>2
  <2>2. PICK n \in DOMAIN old[p] : x = old[p][n]
    BY <2>1
  <2>3. CASE p \in S
    BY <1>1, <1>3, <1>5, <2>2, <2>3 DEF IsRemoved
  <2>4. CASE p \notin S
    BY <1>1, <2>2, <2>4 DEF IsRemoved
  <2> QED
    BY <2>3, <2>4
<1> QED
  BY <1>4, <1>5

-----------------------------------------------------------------------------
(* The steps.                                                              *)

\* Only one handler is past Lock, and it is the one that holds the mutex.
LEMMA OneHolder ==
  ASSUME TableInv, NEW c \in Callers, pc[c] \notin {"idle", "lock"}
  PROVE  rulesMutex = c /\ \A d \in Callers \ {c} : pc[d] \in {"idle", "lock"}
BY DEF TableInv, MutexInv

\* The handlers that wait are not disturbed by the one that does not.
LEMMA OthersKeep ==
  ASSUME TableInv, NEW c \in Callers, NEW l,
         \A d \in Callers \ {c} : pc[d] \in {"idle", "lock"},
         pc' = [pc EXCEPT ![c] = l],
         \A d \in Callers \ {c} : req'[d] = req[d]
  PROVE  \A d \in Callers \ {c} : pc'[d] = pc[d] /\ HolderInv(d)'
<1>1. pc \in [Callers -> {"idle", "lock", "check", "assignOuter", "assign", "copy",
                         "range", "delete"}]
  BY DEF TableInv, TypeOK
<1>2. ASSUME NEW d \in Callers, d # c
      PROVE  pc'[d] = pc[d] /\ HolderInv(d)'
  <2>1. pc'[d] = pc[d] /\ pc[d] \in {"idle", "lock"} /\ req'[d] = req[d]
    BY <1>1, <1>2
  <2>2. pc[d] # "idle" => req[d] \in Requests
    BY DEF TableInv, HolderInv
  <2> QED
    BY <2>1, <2>2 DEF HolderInv
<1> QED
  BY <1>2

\* A step by which the holder of the mutex goes on to l.
LEMMA HolderStep ==
  ASSUME TableInv, NEW c \in Callers, pc[c] \notin {"idle", "lock"},
         NEW l \in {"assignOuter", "assign", "copy", "range", "delete"},
         GoTo(c, l), Stay,
         IsTable(rules'), born' \in [Tracers -> [Names -> Nat]], writes' \in Nat,
         writing' \in Tracers \union {"outer", NoOne},
         todo' \in [Callers -> SUBSET Tracers],
         HolderInv(c)'
  PROVE  TableInv'
<1>1. rulesMutex = c /\ \A d \in Callers \ {c} : pc[d] \in {"idle", "lock"}
  BY OneHolder
<1>2. pc' = [pc EXCEPT ![c] = l] /\ UNCHANGED <<rulesMutex, req, calls, committed>>
  BY DEF GoTo, Stay
<1>3. \A d \in Callers \ {c} : pc'[d] = pc[d] /\ HolderInv(d)'
  BY <1>1, <1>2, OthersKeep
<1>4. TypeOK
  BY DEF TableInv
<1>5. TypeOK'
  BY <1>2, <1>4 DEF TypeOK
<1>6. pc'[c] = l
  BY <1>2, <1>4 DEF TypeOK
<1>7. MutexInv'
  BY <1>1, <1>2, <1>3, <1>6 DEF MutexInv
<1>8. rulesMutex' # NoOne
  BY <1>1, <1>2, RuleTableAssumption DEF RuleTableAssumption
<1> QED
  BY <1>3, <1>5, <1>7, <1>8 DEF TableInv

\* A step by which the holder of the mutex returns.
LEMMA ReturnStep ==
  ASSUME TableInv, NEW c \in Callers, pc[c] \notin {"idle", "lock"}, Return(c),
         IsTable(rules'), born' \in [Tracers -> [Names -> Nat]], writes' \in Nat,
         writing' = NoOne, inTransit' = NoOne
  PROVE  TableInv'
<1>1. rulesMutex = c /\ \A d \in Callers \ {c} : pc[d] \in {"idle", "lock"}
  BY OneHolder
<1>2. /\ pc' = [pc EXCEPT ![c] = "idle"] /\ req' = [req EXCEPT ![c] = NoRequest]
      /\ todo' = [todo EXCEPT ![c] = {}]
      /\ rulesMutex' = NoOne /\ committed' = rules' /\ calls' = calls
  BY DEF GoTo, Return
<1>3. TypeOK
  BY DEF TableInv
<1>4. \A d \in Callers \ {c} : req'[d] = req[d]
  BY <1>2, <1>3 DEF TypeOK
<1>5. \A d \in Callers \ {c} : pc'[d] = pc[d] /\ HolderInv(d)'
  BY <1>1, <1>2, <1>4, OthersKeep
<1>6. TypeOK'
  BY <1>2, <1>3 DEF TypeOK
<1>7. pc'[c] = "idle"
  BY <1>2, <1>3 DEF TypeOK
<1>8. MutexInv'
  BY <1>1, <1>2, <1>5, <1>7, RuleTableAssumption DEF MutexInv, RuleTableAssumption
<1>9. HolderInv(c)'
  BY <1>7 DEF HolderInv
<1>10. Clean'
  BY <1>2 DEF Clean
<1> QED
  BY <1>5, <1>6, <1>8, <1>9, <1>10 DEF TableInv

LEMMA CallKeeps ==
  ASSUME TableInv, NEW c \in Callers, Call(c)
  PROVE  TableInv'
<1>1. PICK r \in Requests : req' = [req EXCEPT ![c] = r]
  BY DEF Call
<1>2. /\ pc[c] = "idle" /\ pc' = [pc EXCEPT ![c] = "lock"]
      /\ calls < MaxCalls /\ calls' = calls + 1
      /\ UNCHANGED <<rules, born, writes, writing, inTransit, rulesMutex, todo, committed>>
  BY DEF Call, GoTo, tableVars
<1>3. TypeOK
  BY DEF TableInv
<1>4. /\ pc'[c] = "lock" /\ req'[c] = r
      /\ \A d \in Callers \ {c} : pc'[d] = pc[d] /\ req'[d] = req[d]
  BY <1>1, <1>2, <1>3 DEF TypeOK
<1>5. pc' \in [Callers -> {"idle", "lock", "check", "assignOuter", "assign", "copy",
                          "range", "delete"}]
  BY <1>2, <1>3 DEF TypeOK
<1>6. req' \in [Callers -> Requests \union {NoRequest}]
  BY <1>1, <1>3 DEF TypeOK
<1>7. calls' \in 0..MaxCalls
  <2>1. MaxCalls \in Nat
    BY RuleTableAssumption DEF RuleTableAssumption
  <2>2. calls \in 0..MaxCalls /\ calls < MaxCalls /\ calls' = calls + 1
    BY <1>2, <1>3 DEF TypeOK
  <2> QED
    BY ONLY <2>1, <2>2
<1>8. TypeOK'
  BY <1>2, <1>3, <1>5, <1>6, <1>7 DEF TypeOK
<1>9. MutexInv'
  BY <1>2, <1>4 DEF TableInv, MutexInv
<1>10. rulesMutex' = NoOne => Clean'
  BY <1>2 DEF TableInv, Clean
<1>11. HolderInv(c)'
  BY <1>4 DEF HolderInv
<1>12. ASSUME NEW d \in Callers \ {c} PROVE HolderInv(d)'
  BY <1>2, <1>4 DEF TableInv, HolderInv, Clean, Creating, Removing, Targets
<1> QED
  BY <1>8, <1>9, <1>10, <1>11, <1>12 DEF TableInv

LEMMA LockKeeps ==
  ASSUME TableInv, NEW c \in Callers, Lock(c)
  PROVE  TableInv'
<1>1. /\ pc[c] = "lock" /\ pc' = [pc EXCEPT ![c] = "check"]
      /\ rulesMutex = NoOne /\ rulesMutex' = c
      /\ UNCHANGED <<rules, born, writes, writing, inTransit, req, todo, calls, committed>>
  BY DEF Lock, GoTo, tableVars
<1>2. TypeOK
  BY DEF TableInv
<1>3. \A d \in Callers : pc[d] \in {"idle", "lock"}
  BY <1>1, RuleTableAssumption DEF TableInv, MutexInv, RuleTableAssumption
<1>4. \A d \in Callers \ {c} : pc'[d] = pc[d] /\ HolderInv(d)'
  BY <1>1, <1>3, OthersKeep
<1>5. pc'[c] = "check"
  BY <1>1, <1>2 DEF TypeOK
<1>6. TypeOK'
  BY <1>1, <1>2 DEF TypeOK
<1>7. MutexInv'
  BY <1>1, <1>3, <1>4, <1>5 DEF MutexInv
<1>8. Clean'
  BY <1>1 DEF TableInv, Clean
<1>9. req'[c] \in Requests
  BY <1>1 DEF TableInv, HolderInv
<1>10. HolderInv(c)'
  BY <1>5, <1>8, <1>9 DEF HolderInv
<1> QED
  BY <1>4, <1>6, <1>7, <1>8, <1>10 DEF TableInv

LEMMA RejectKeeps ==
  ASSUME TableInv, NEW c \in Callers, Reject(c)
  PROVE  TableInv'
<1>1. pc[c] = "check" /\ Return(c)
      /\ UNCHANGED <<rules, born, writes, writing, inTransit>>
  BY DEF Reject, tableVars
<1>2. Clean
  BY <1>1 DEF TableInv, HolderInv
<1> QED
  BY <1>1, <1>2, ReturnStep DEF TableInv, TypeOK, Clean

LEMMA CreateBeginKeeps ==
  ASSUME TableInv, NEW c \in Callers, CreateBegin(c)
  PROVE  TableInv'
<1> DEFINE p == req[c].rule.tracer
<1>1. /\ pc[c] = "check" /\ req[c].op = "create" /\ ~Rejected(req[c])
      /\ Stay /\ UNCHANGED <<rules, born, inTransit, todo, req, committed>>
      /\ writes' = writes + 1
      /\ \/ p \in DOMAIN rules /\ writing' = p /\ GoTo(c, "assign")
         \/ p \notin DOMAIN rules /\ writing' = "outer" /\ GoTo(c, "assignOuter")
  BY DEF CreateBegin, BeginWrite, Stay
<1>2. TypeOK /\ Clean /\ req[c] \in Requests
  BY <1>1 DEF TableInv, HolderInv
<1>3. Accepted(req[c].rule)
  BY <1>1 DEF Rejected
<1>4. Creating(c)
  BY <1>1, <1>2, <1>3, AcceptedRule, RuleTableAssumption DEF Creating, RuleTableAssumption
<1>5. Creating(c)' /\ inTransit' = NoOne /\ rules' = committed'
  BY <1>1, <1>2, <1>4 DEF Creating, Clean
<1>6. p \in Tracers
  BY <1>3, AcceptedRule
<1>7. /\ IsTable(rules') /\ born' \in [Tracers -> [Names -> Nat]] /\ writes' \in Nat
      /\ todo' \in [Callers -> SUBSET Tracers]
  BY <1>1, <1>2 DEF TypeOK
<1>8. CASE p \in DOMAIN rules /\ writing' = p /\ GoTo(c, "assign")
  <2>1. pc'[c] = "assign"
    BY <1>2, <1>8 DEF GoTo, TypeOK
  <2>2. HolderInv(c)'
    BY <1>1, <1>2, <1>5, <1>8, <2>1 DEF HolderInv
  <2> QED
    BY <1>1, <1>6, <1>7, <1>8, <2>2, HolderStep
<1>9. CASE p \notin DOMAIN rules /\ writing' = "outer" /\ GoTo(c, "assignOuter")
  <2>1. pc'[c] = "assignOuter"
    BY <1>2, <1>9 DEF GoTo, TypeOK
  <2>2. HolderInv(c)'
    BY <1>1, <1>2, <1>5, <1>9, <2>1 DEF HolderInv
  <2> QED
    BY <1>1, <1>7, <1>9, <2>2, HolderStep
<1> QED
  BY <1>1, <1>8, <1>9

LEMMA CreateTracerKeeps ==
  ASSUME TableInv, NEW c \in Callers, CreateTracer(c)
  PROVE  TableInv'
<1> DEFINE rule == req[c].rule
<1>1. /\ pc[c] = "assignOuter" /\ Return(c)
      /\ rules' = Put(rules, rule.tracer, Put(EmptyMap, rule.name, rule))
      /\ born' = [born EXCEPT ![rule.tracer][rule.name] = writes]
      /\ writing' = NoOne /\ UNCHANGED <<writes, inTransit>>
  BY DEF CreateTracer
<1>2. TypeOK /\ Creating(c) /\ rule.tracer \notin DOMAIN rules /\ inTransit = NoOne
  BY <1>1 DEF TableInv, HolderInv
<1>3. IsTable(rules')
  BY <1>1, <1>2, FirstRule DEF TypeOK, Creating
<1>4. rule.tracer \in Tracers
  BY <1>2, AcceptedRule DEF Creating
<1>5. born' \in [Tracers -> [Names -> Nat]] /\ writes' \in Nat
  BY <1>1, <1>2, <1>4 DEF TypeOK, Creating
<1> QED
  BY <1>1, <1>2, <1>3, <1>5, ReturnStep

LEMMA CreateSlotKeeps ==
  ASSUME TableInv, NEW c \in Callers, CreateSlot(c)
  PROVE  TableInv'
<1> DEFINE rule == req[c].rule
<1>1. /\ pc[c] = "assign" /\ GoTo(c, "copy") /\ Stay
      /\ rules' = [rules EXCEPT ![rule.tracer] = Put(rules[rule.tracer], rule.name, rule)]
      /\ born' \in {born, [born EXCEPT ![rule.tracer][rule.name] = writes]}
      /\ writing' = NoOne /\ UNCHANGED <<writes, todo, req, committed>>
  BY DEF CreateSlot, Stay
<1>2. TypeOK /\ Creating(c) /\ rule.tracer \in DOMAIN rules /\ rules = committed
  BY <1>1 DEF TableInv, HolderInv
<1>3. IsCreated(rules', committed, rule)
  BY <1>1, <1>2 DEF IsCreated, Put
<1>4. IsTable(rules')
  BY <1>2, <1>3, CreatedIsTable DEF TypeOK, Creating
<1>5. rule.tracer \in Tracers
  BY <1>2, AcceptedRule DEF Creating
<1>6. born' \in [Tracers -> [Names -> Nat]]
  BY <1>1, <1>2, <1>5 DEF TypeOK, Creating
<1>7. pc'[c] = "copy"
  BY <1>1, <1>2 DEF GoTo, TypeOK
<1>8. Creating(c)' /\ IsCreated(rules', committed', req'[c].rule)
  BY <1>1, <1>2, <1>3 DEF Creating
<1>9. req'[c] \in Requests
  BY <1>1 DEF TableInv, HolderInv
<1>10. HolderInv(c)'
  BY <1>1, <1>7, <1>8, <1>9 DEF HolderInv
<1>11. writes' \in Nat /\ todo' \in [Callers -> SUBSET Tracers]
  BY <1>1, <1>2 DEF TypeOK
<1> QED
  BY <1>1, <1>4, <1>6, <1>10, <1>11, HolderStep

LEMMA CreateCopiedKeeps ==
  ASSUME TableInv, NEW c \in Callers, CreateCopied(c)
  PROVE  TableInv'
<1>1. /\ pc[c] = "copy" /\ Return(c) /\ inTransit' = NoOne
      /\ UNCHANGED <<rules, born, writes, writing>>
  BY DEF CreateCopied
<1>2. TypeOK /\ writing = NoOne
  BY <1>1 DEF TableInv, HolderInv
<1> QED
  BY <1>1, <1>2, ReturnStep DEF TypeOK

LEMMA RemoveBeginKeeps ==
  ASSUME TableInv, NEW c \in Callers, RemoveBegin(c)
  PROVE  TableInv'
<1> DEFINE ps == IF req[c].tracer = "" THEN DOMAIN rules
                 ELSE DOMAIN rules \intersect {req[c].tracer}
<1>1. /\ pc[c] = "check" /\ req[c].op = "remove" /\ GoTo(c, "range") /\ Stay
      /\ todo' = [todo EXCEPT ![c] = ps]
      /\ UNCHANGED <<rules, born, writes, writing, inTransit, req, committed>>
  BY DEF RemoveBegin, Stay, tableVars
<1>2. TypeOK /\ Clean /\ req[c] \in Requests
  BY <1>1 DEF TableInv, HolderInv
<1>3. ps = Targets(req[c]) /\ ps \subseteq Tracers
  BY <1>2 DEF Targets, Clean, TypeOK, IsTable
<1>4. todo' \in [Callers -> SUBSET Tracers] /\ todo'[c] = ps
  BY <1>1, <1>2, <1>3 DEF TypeOK
<1>5. IsRemoved(rules, committed, req[c].name, Targets(req[c]) \ ps)
  BY <1>2, <1>3 DEF IsRemoved, Clean
<1>6. Removing(c)'
  BY <1>1, <1>3, <1>4, <1>5 DEF Removing, Targets
<1>7. pc'[c] = "range"
  BY <1>1, <1>2 DEF GoTo, TypeOK
<1>8. HolderInv(c)'
  BY <1>1, <1>2, <1>6, <1>7 DEF HolderInv, Clean
<1>9. /\ IsTable(rules') /\ born' \in [Tracers -> [Names -> Nat]] /\ writes' \in Nat
      /\ writing' \in Tracers \union {"outer", NoOne}
  BY <1>1, <1>2 DEF TypeOK
<1> QED
  BY <1>1, <1>4, <1>8, <1>9, HolderStep

\* Going on from "range" or "delete" to "range", done with the tracer p.
LEMMA RemovedFrom ==
  ASSUME TableInv, NEW c \in Callers, Removing(c), req[c] \in Requests,
         pc[c] \notin {"idle", "lock"}, NEW p \in todo[c],
         DOMAIN rules' = DOMAIN rules,
         \A q \in DOMAIN rules \ {p} : rules'[q] = rules[q],
         DOMAIN rules'[p] = DOMAIN rules[p] \ {req[c].name},
         \A n \in DOMAIN rules'[p] : rules'[p][n] = rules[p][n],
         todo' = [todo EXCEPT ![c] = todo[c] \ {p}],
         writing' = NoOne, inTransit' = NoOne,
         UNCHANGED <<born, writes>>, Stay, pc' = [pc EXCEPT ![c] = "range"]
  PROVE  TableInv'
<1> DEFINE name == req[c].name
           targets == Targets(req[c])
           S == targets \ todo[c]
           T == targets \ (todo[c] \ {p})
<1>1. TypeOK /\ UNCHANGED <<req, committed>>
  BY DEF TableInv, Stay
<1>2. /\ req[c].op = "remove" /\ todo[c] \subseteq targets
      /\ IsRemoved(rules, committed, name, S)
  BY DEF Removing
<1>3. p \in targets /\ p \in DOMAIN committed /\ p \notin S /\ T = S \union {p}
  BY <1>2 DEF Targets
<1>4. IsRemoved(rules', committed, name, T)
  <2>1. DOMAIN rules' = DOMAIN committed
    BY <1>2 DEF IsRemoved
  <2>2. ASSUME NEW q \in DOMAIN committed \ T
        PROVE  rules'[q] = committed[q]
    BY <1>2, <1>3, <2>1 DEF IsRemoved
  <2>3. ASSUME NEW q \in DOMAIN committed \intersect T
        PROVE  /\ DOMAIN rules'[q] = DOMAIN committed[q] \ {name}
               /\ \A n \in DOMAIN rules'[q] : rules'[q][n] = committed[q][n]
    <3>1. CASE q = p
      BY <1>2, <1>3, <3>1 DEF IsRemoved
    <3>2. CASE q # p
      BY <1>2, <1>3, <2>1, <3>2 DEF IsRemoved
    <3> QED
      BY <3>1, <3>2
  <2> QED
    BY <2>1, <2>2, <2>3 DEF IsRemoved
<1>5. IsTable(rules')
  BY <1>1, <1>4, RemovedIsTable DEF TypeOK
<1>6. todo' \in [Callers -> SUBSET Tracers] /\ todo'[c] = todo[c] \ {p}
  BY <1>1 DEF TypeOK
<1>7. Removing(c)'
  <2>1. Targets(req[c])' = targets
    BY <1>1 DEF Targets
  <2> QED
    BY <1>1, <1>2, <1>4, <1>6, <2>1 DEF Removing
<1>8. pc'[c] = "range"
  BY <1>1 DEF TypeOK
<1>9. req'[c] \in Requests
  BY <1>1
<1>10. HolderInv(c)'
  BY <1>7, <1>8, <1>9 DEF HolderInv
<1>11. /\ born' \in [Tracers -> [Names -> Nat]] /\ writes' \in Nat
       /\ writing' \in Tracers \union {"outer", NoOne}
  BY <1>1 DEF TypeOK
<1>12. GoTo(c, "range")
  BY DEF GoTo
<1> QED
  BY <1>5, <1>6, <1>10, <1>11, <1>12, HolderStep

LEMMA RemoveSkipKeeps ==
  ASSUME TableInv, NEW c \in Callers, RemoveSkip(c)
  PROVE  TableInv'
<1>1. PICK p \in todo[c] : /\ req[c].name \notin DOMAIN rules[p]
                          /\ todo' = [todo EXCEPT ![c] = todo[c] \ {p}]
  BY DEF RemoveSkip, Deletes
<1>2. /\ pc[c] = "range" /\ Stay /\ pc' = pc
      /\ UNCHANGED <<rules, born, writes, writing, inTransit>>
  BY DEF RemoveSkip, tableVars
<1>3. /\ TypeOK /\ Removing(c) /\ req[c] \in Requests
      /\ writing = NoOne /\ inTransit = NoOne
  BY <1>2 DEF TableInv, HolderInv
<1>4. pc' = [pc EXCEPT ![c] = "range"]
  BY <1>2, <1>3 DEF TypeOK
<1>5. /\ DOMAIN rules' = DOMAIN rules
      /\ \A q \in DOMAIN rules \ {p} : rules'[q] = rules[q]
      /\ DOMAIN rules'[p] = DOMAIN rules[p] \ {req[c].name}
      /\ \A n \in DOMAIN rules'[p] : rules'[p][n] = rules[p][n]
  BY <1>1, <1>2
<1> QED
  BY <1>1, <1>2, <1>3, <1>4, <1>5, RemovedFrom

LEMMA DeleteBeginKeeps ==
  ASSUME TableInv, NEW c \in Callers, DeleteBegin(c)
  PROVE  TableInv'
<1>1. PICK p \in todo[c] : writing' = p
  BY DEF DeleteBegin, BeginWrite
<1>2. /\ pc[c] = "range" /\ GoTo(c, "delete") /\ Stay /\ writes' = writes + 1
      /\ UNCHANGED <<rules, born, todo, req, committed>>
  BY DEF DeleteBegin, BeginWrite, Stay
<1>3. TypeOK /\ Removing(c) /\ req[c] \in Requests
  BY <1>2 DEF TableInv, HolderInv
<1>4. p \in Tracers
  BY <1>3 DEF TypeOK
<1>5. Removing(c)'
  BY <1>2, <1>3 DEF Removing, Targets
<1>6. pc'[c] = "delete"
  BY <1>2, <1>3 DEF GoTo, TypeOK
<1>7. writing' \in todo'[c] /\ req'[c] \in Requests
  BY <1>1, <1>2, <1>3
<1>8. HolderInv(c)'
  BY <1>5, <1>6, <1>7 DEF HolderInv
<1>9. /\ IsTable(rules') /\ born' \in [Tracers -> [Names -> Nat]] /\ writes' \in Nat
      /\ todo' \in [Callers -> SUBSET Tracers]
  BY <1>2, <1>3 DEF TypeOK
<1> QED
  BY <1>1, <1>2, <1>4, <1>8, <1>9, HolderStep

LEMMA DeleteEndKeeps ==
  ASSUME TableInv, NEW c \in Callers, DeleteEnd(c)
  PROVE  TableInv'
<1> DEFINE p == writing
<1>1. /\ pc[c] = "delete" /\ GoTo(c, "range") /\ Stay
      /\ rules' = [rules EXCEPT ![p] = Delete(rules[p], req[c].name)]
      /\ todo' = [todo EXCEPT ![c] = todo[c] \ {p}]
      /\ writing' = NoOne /\ inTransit' = NoOne /\ UNCHANGED <<born, writes>>
  BY DEF DeleteEnd
<1>2. TypeOK /\ Removing(c) /\ req[c] \in Requests /\ p \in todo[c]
  BY <1>1 DEF TableInv, HolderInv
<1>3. p \in DOMAIN rules
  BY <1>2 DEF Removing, IsRemoved, Targets
<1>4. /\ DOMAIN rules' = DOMAIN rules
      /\ \A q \in DOMAIN rules \ {p} : rules'[q] = rules[q]
      /\ DOMAIN rules'[p] = DOMAIN rules[p] \ {req[c].name}
      /\ \A n \in DOMAIN rules'[p] : rules'[p][n] = rules[p][n]
  BY <1>1, <1>3 DEF Delete
<1>5. pc' = [pc EXCEPT ![c] = "range"]
  BY <1>1 DEF GoTo
<1> HIDE DEF p
<1> QED
  BY <1>1, <1>2, <1>4, <1>5, RemovedFrom

LEMMA RemoveEndKeeps ==
  ASSUME TableInv, NEW c \in Callers, RemoveEnd(c)
  PROVE  TableInv'
<1>1. pc[c] = "range" /\ Return(c) /\ UNCHANGED <<rules, born, writes, writing, inTransit>>
  BY DEF RemoveEnd, tableVars
<1>2. TypeOK /\ writing = NoOne /\ inTransit = NoOne
  BY <1>1 DEF TableInv, HolderInv
<1> QED
  BY <1>1, <1>2, ReturnStep DEF TypeOK

-----------------------------------------------------------------------------
(* What the goroutines that take no lock may rely on.                      *)

\* A rule of the table t, or one that a handler is creating.
KnownRule(r, t) ==
  \/ \E p \in DOMAIN t : \E n \in DOMAIN t[p] : r = t[p][n]
  \/ \E c \in Callers : req[c] \in Requests /\ req[c].op = "create" /\ r = req[c].rule

\* Tracers stay in the table; it only changes under a flag that went up before; a
\* rule comes into it with a request, and its slot has the number of the last write.
TableStep ==
  /\ DOMAIN rules \subseteq DOMAIN rules'
  /\ writes' \in {writes, writes + 1}
  /\ \A p \in Tracers, n \in Names : born'[p][n] \in {born[p][n], writes}
  /\ writes' = writes /\ writing = NoOne => UNCHANGED <<rules, born, writing>>
  /\ writes' = writes /\ writing = NoOne /\ inTransit = NoOne => inTransit' = NoOne
  /\ committed' \in {committed, rules'}
  /\ \A p \in DOMAIN rules' : \A n \in DOMAIN rules'[p] : KnownRule(rules'[p][n], rules)

\* A step that leaves the rules alone.
LEMMA SameRules ==
  ASSUME TableInv, UNCHANGED <<rules, born>>, writes' \in {writes, writes + 1},
         writes' = writes => inTransit' \in {inTransit, NoOne} /\ writing' \in {writing, NoOne},
         committed' \in {committed, rules'}
  PROVE  TableStep
BY DEF TableStep, KnownRule

\* A handler that changes the rules does so under a flag.
LEMMA FlagIsUp ==
  ASSUME TableInv, NEW c \in Callers, pc[c] \in {"assignOuter", "assign", "delete"}
  PROVE  writing # NoOne
<1>1. CASE pc[c] = "delete"
  BY <1>1, RuleTableAssumption DEF TableInv, TypeOK, HolderInv, RuleTableAssumption
<1>2. CASE pc[c] \in {"assignOuter", "assign"}
  <2>1. writing \in Tracers \union {"outer"}
    BY <1>2, AcceptedRule DEF TableInv, HolderInv, Creating
  <2> QED
    BY <2>1, RuleTableAssumption DEF RuleTableAssumption
<1> QED
  BY <1>1, <1>2

LEMMA EveryTableStep ==
  ASSUME TableInv, [Next]_vars
  PROVE  TableStep
<1>1. CASE UNCHANGED vars
  BY <1>1, SameRules DEF vars, tableVars
<1>2. ASSUME NEW c \in Callers, CreateTracer(c)
      PROVE  TableStep
  <2> DEFINE rule == req[c].rule
             new == Put(EmptyMap, rule.name, rule)
  <2>1. /\ pc[c] = "assignOuter" /\ rules' = Put(rules, rule.tracer, new)
        /\ born' = [born EXCEPT ![rule.tracer][rule.name] = writes]
        /\ writes' = writes /\ committed' = rules'
    BY <1>2 DEF CreateTracer, Return
  <2>2. TypeOK /\ Creating(c) /\ req[c] \in Requests
    BY <2>1 DEF TableInv, HolderInv
  <2>3. DOMAIN new = {rule.name} /\ new[rule.name] = rule
    BY DEF Put, EmptyMap
  <2> HIDE DEF new
  <2>4. /\ DOMAIN rules' = DOMAIN rules \union {rule.tracer}
        /\ rules'[rule.tracer] = new
        /\ \A p \in DOMAIN rules \ {rule.tracer} : rules'[p] = rules[p]
    BY <2>1 DEF Put
  <2>5. ASSUME NEW p \in DOMAIN rules', NEW n \in DOMAIN rules'[p]
        PROVE  KnownRule(rules'[p][n], rules)
    <3>1. CASE p = rule.tracer
      BY <2>2, <2>3, <2>4, <3>1 DEF KnownRule, Creating
    <3>2. CASE p # rule.tracer
      BY <2>4, <3>2 DEF KnownRule
    <3> QED
      BY <3>1, <3>2
  <2>6. \A p \in Tracers, n \in Names : born'[p][n] \in {born[p][n], writes}
    BY <2>1, <2>2 DEF TypeOK
  <2>7. writing # NoOne
    BY <2>1, FlagIsUp
  <2> QED
    BY <2>1, <2>4, <2>5, <2>6, <2>7 DEF TableStep
<1>3. ASSUME NEW c \in Callers, CreateSlot(c)
      PROVE  TableStep
  <2> DEFINE rule == req[c].rule
             new == Put(rules[rule.tracer], rule.name, rule)
  <2>1. /\ pc[c] = "assign" /\ rules' = [rules EXCEPT ![rule.tracer] = new]
        /\ \/ born' = born
           \/ born' = [born EXCEPT ![rule.tracer][rule.name] = writes]
        /\ writes' = writes /\ committed' = committed
    BY <1>3 DEF CreateSlot, Stay
  <2>2. TypeOK /\ Creating(c) /\ req[c] \in Requests /\ rule.tracer \in DOMAIN rules
    BY <2>1 DEF TableInv, HolderInv
  <2>3. /\ DOMAIN new = DOMAIN rules[rule.tracer] \union {rule.name}
        /\ new[rule.name] = rule
        /\ \A n \in DOMAIN rules[rule.tracer] \ {rule.name} : new[n] = rules[rule.tracer][n]
    BY DEF Put
  <2> HIDE DEF new
  <2>4. /\ DOMAIN rules' = DOMAIN rules
        /\ rules'[rule.tracer] = new
        /\ \A p \in DOMAIN rules \ {rule.tracer} : rules'[p] = rules[p]
    BY <2>1, <2>2
  <2>5. ASSUME NEW p \in DOMAIN rules', NEW n \in DOMAIN rules'[p]
        PROVE  KnownRule(rules'[p][n], rules)
    <3>1. CASE p = rule.tracer /\ n = rule.name
      BY <2>2, <2>3, <2>4, <3>1 DEF KnownRule, Creating
    <3>2. CASE p = rule.tracer /\ n # rule.name
      BY <2>3, <2>4, <3>2 DEF KnownRule
    <3>3. CASE p # rule.tracer
      BY <2>4, <3>3 DEF KnownRule
    <3> QED
      BY <3>1, <3>2, <3>3
  <2>6. \A p \in Tracers, n \in Names : born'[p][n] \in {born[p][n], writes}
    BY <2>1, <2>2 DEF TypeOK
  <2>7. writing # NoOne
    BY <2>1, FlagIsUp
  <2> QED
    BY <2>1, <2>4, <2>5, <2>6, <2>7 DEF TableStep
<1>4. ASSUME NEW c \in Callers, DeleteEnd(c)
      PROVE  TableStep
  <2>1. /\ pc[c] = "delete"
        /\ rules' = [rules EXCEPT ![writing] = Delete(rules[writing], req[c].name)]
        /\ UNCHANGED <<writes, born, committed>>
    BY <1>4 DEF DeleteEnd, Stay
  <2>2. /\ DOMAIN rules' = DOMAIN rules
        /\ \A p \in DOMAIN rules : \A n \in DOMAIN rules'[p] :
             n \in DOMAIN rules[p] /\ rules'[p][n] = rules[p][n]
    BY <2>1 DEF Delete
  <2>3. writing # NoOne
    BY <2>1, FlagIsUp
  <2> QED
    BY <2>1, <2>2, <2>3 DEF TableStep, KnownRule
<1>5. ASSUME NEW c \in Callers, Reject(c) \/ CreateCopied(c) \/ RemoveEnd(c)
      PROVE  TableStep
  <2>1. /\ UNCHANGED <<rules, born, writes, writing>> /\ inTransit' \in {inTransit, NoOne}
        /\ committed' = rules'
    BY <1>5 DEF Reject, CreateCopied, RemoveEnd, Return, tableVars
  <2> QED
    BY <2>1, SameRules
<1>6. ASSUME NEW c \in Callers, Call(c) \/ Lock(c) \/ RemoveBegin(c) \/ RemoveSkip(c)
      PROVE  TableStep
  <2>1. UNCHANGED <<rules, born, writes, writing, inTransit, committed>>
    BY <1>6 DEF Call, Lock, RemoveBegin, RemoveSkip, Stay, tableVars
  <2> QED
    BY <2>1, SameRules
<1>7. ASSUME NEW c \in Callers, CreateBegin(c) \/ DeleteBegin(c)
      PROVE  TableStep
  <2>1. UNCHANGED <<rules, born, committed>> /\ writes' = writes + 1 /\ writes \in Nat
    BY <1>7 DEF CreateBegin, DeleteBegin, BeginWrite, Stay, TableInv, TypeOK
  <2> QED
    BY <2>1, SameRules
<1> QED
  BY <1>1, <1>2, <1>3, <1>4, <1>5, <1>6, <1>7 DEF Next, Locked

-----------------------------------------------------------------------------
(* The theorems.                                                           *)

LEMMA InitIsClean == Init => TableInv
<1> SUFFICES ASSUME Init
             PROVE  TableInv
  OBVIOUS
<1> USE DEF Init
<1>1. MaxCalls \in Nat /\ IsTable(InitialRules) /\ NoOne \notin Callers
  BY RuleTableAssumption DEF RuleTableAssumption
<1>2. calls \in 0..MaxCalls
  BY <1>1
<1>3. TypeOK
  BY <1>1, <1>2 DEF TypeOK
<1>4. MutexInv
  BY <1>1 DEF MutexInv
<1>5. Clean
  BY DEF Clean
<1>6. \A c \in Callers : HolderInv(c)
  BY DEF HolderInv
<1> QED
  BY <1>3, <1>4, <1>5, <1>6 DEF TableInv

LEMMA StepKeeps == TableInv /\ [Next]_vars => TableInv'
<1> SUFFICES ASSUME TableInv, [Next]_vars
             PROVE  TableInv'
  OBVIOUS
<1>1. CASE UNCHANGED vars
  <2> USE <1>1 DEF vars, tableVars
  <2>1. TypeOK' /\ MutexInv' /\ (rulesMutex' = NoOne => Clean')
    BY DEF TableInv, TypeOK, MutexInv, Clean
  <2>2. ASSUME NEW c \in Callers
        PROVE  HolderInv(c)'
    <3>1. HolderInv(c)
      BY DEF TableInv
    <3>2. Targets(req[c])' = Targets(req[c])
      BY DEF Targets
    <3>3. (Clean <=> Clean') /\ (Creating(c) <=> Creating(c)')
      BY DEF Clean, Creating
    <3>4. Removing(c) <=> Removing(c)'
      BY <3>2 DEF Removing
    <3> QED
      BY <3>1, <3>3, <3>4 DEF HolderInv
  <2> QED
    BY <2>1, <2>2 DEF TableInv
<1>2. ASSUME NEW c \in Callers, Call(c) \/ Lock(c) \/ Locked(c)
      PROVE  TableInv'
  BY <1>2, CallKeeps, LockKeeps, RejectKeeps, CreateBeginKeeps, CreateTracerKeeps,
     CreateSlotKeeps, CreateCopiedKeeps, RemoveBeginKeeps, RemoveSkipKeeps,
     DeleteBeginKeeps, DeleteEndKeeps, RemoveEndKeeps DEF Locked
<1> QED
  BY <1>1, <1>2 DEF Next

LEMMA TableInvHolds == Spec => []TableInv
BY InitIsClean, StepKeeps, PTL DEF Spec

\* The table stays a table, with every rule under its own tracer and name and
\* accepted by the checks of CreateRule, however many handlers there are.
THEOREM TypeCorrect == Spec => []TypeOK
<1>1. TableInv => TypeOK
  BY DEF TableInv
<1> QED
  BY <1>1, TableInvHolds, PTL

\* The maps are only ever changed by the one handler that holds rulesMutex, and
\* a handler that releases it leaves nothing half written.
THEOREM WritesAreLockedHolds == Spec => []WritesAreLocked
<1>1. ASSUME TableInv
      PROVE  WritesAreLocked
  <2>1. MutexInv /\ (rulesMutex = NoOne => Clean)
    BY <1>1 DEF TableInv
  <2>2. CASE rulesMutex = NoOne
    BY <2>1, <2>2 DEF WritesAreLocked, MutexInv, Clean
  <2>3. ASSUME NEW c \in Callers, rulesMutex = c
        PROVE  WritesAreLocked
    <3>1. pc[c] \in {"check", "assignOuter", "assign", "copy", "range", "delete"}
      BY <1>1, <2>1, <2>3 DEF MutexInv, TableInv, TypeOK
    <3>2. HolderInv(c)
      BY <1>1 DEF TableInv
    <3>3. /\ writing # NoOne => pc[c] \in {"assignOuter", "assign", "delete"}
          /\ inTransit # NoOne => pc[c] \in {"copy", "delete"}
      BY <3>1, <3>2 DEF HolderInv, Clean
    <3> QED
      BY <2>1, <2>3, <3>3, RuleTableAssumption
      DEF WritesAreLocked, MutexInv, RuleTableAssumption
  <2> QED
    BY <1>1, <2>2, <2>3 DEF TableInv, TypeOK
<1> QED
  BY <1>1, TableInvHolds, PTL

\* A step of a handler applies its request as a whole, or changes nothing that
\* another handler can see.
LEMMA StepImplements ==
  ASSUME TableInv, [Next]_vars
  PROVE  [Atomic!Next]_(Contents(committed))
<1> DEFINE before == Contents(committed)
           after == Contents(committed)'
<1>1. ASSUME UNCHANGED committed
      PROVE  after = before
  BY <1>1 DEF Contents
<1>2. ASSUME NEW c \in Callers, Reject(c)
      PROVE  after = before
  <2>1. committed' = committed
    BY <1>2 DEF Reject, Return, tableVars, TableInv, HolderInv, Clean
  <2> QED
    BY <1>1, <2>1
<1>3. ASSUME NEW c \in Callers, CreateTracer(c)
      PROVE  Atomic!Next
  <2> DEFINE rule == req[c].rule
  <2>1. /\ Creating(c) /\ req[c] \in Requests /\ rule.tracer \notin DOMAIN committed
        /\ IsTable(committed) /\ rules = committed
    BY <1>3 DEF CreateTracer, TableInv, HolderInv, TypeOK
  <2>2. committed' = Put(committed, rule.tracer, Put(EmptyMap, rule.name, rule))
    BY <1>3, <2>1 DEF CreateTracer, Return
  <2>3. after =
          {r \in before : r.tracer # rule.tracer \/ r.name # rule.name} \union {rule}
    BY <2>1, <2>2, FirstRule DEF Creating
  <2> QED
    BY <2>1, <2>3 DEF Atomic!Next, Atomic!Create, Creating
<1>4. ASSUME NEW c \in Callers, CreateCopied(c)
      PROVE  Atomic!Next
  <2> DEFINE rule == req[c].rule
  <2>1. /\ Creating(c) /\ req[c] \in Requests /\ IsTable(committed)
        /\ IsCreated(rules, committed, rule)
    BY <1>4 DEF CreateCopied, TableInv, HolderInv, TypeOK
  <2>2. committed' = rules
    BY <1>4 DEF CreateCopied, Return
  <2>3. after =
          {r \in before : r.tracer # rule.tracer \/ r.name # rule.name} \union {rule}
    BY <2>1, <2>2, CreatedContents
  <2> QED
    BY <2>1, <2>3 DEF Atomic!Next, Atomic!Create, Creating
<1>5. ASSUME NEW c \in Callers, RemoveEnd(c)
      PROVE  Atomic!Next
  <2> DEFINE r == req[c]
  <2>1. Removing(c) /\ r \in Requests /\ IsTable(committed) /\ todo[c] = {}
    BY <1>5 DEF RemoveEnd, TableInv, HolderInv, TypeOK
  <2>2. committed' = rules
    BY <1>5 DEF RemoveEnd, Return, tableVars
  <2>3. IsRemoved(rules, committed, r.name, Targets(r))
    BY <2>1 DEF Removing
  <2>4. after = {x \in before : x.name # r.name \/ x.tracer \notin Targets(r)}
    BY <2>1, <2>2, <2>3, RemovedContents
  <2>5. \A x \in before : x.tracer \in DOMAIN committed
    BY <2>1 DEF Contents, IsTable
  <2>6. \A x \in before : x.tracer \notin Targets(r) <=> r.tracer \notin {"", x.tracer}
    BY <2>5 DEF Targets
  <2>7. after = {x \in before : x.name # r.name \/ r.tracer \notin {"", x.tracer}}
    BY <2>4, <2>6
  <2> QED
    BY <2>1, <2>7 DEF Atomic!Next, Atomic!Remove, Removing
<1>6. CASE UNCHANGED vars
  BY <1>1, <1>6 DEF vars
<1>7. ASSUME NEW c \in Callers, Call(c) \/ Lock(c) \/ Locked(c)
      PROVE  Atomic!Next \/ after = before
  <2>1. CASE \/ Call(c) \/ Lock(c) \/ CreateBegin(c) \/ CreateSlot(c) \/ RemoveBegin(c)
             \/ RemoveSkip(c) \/ DeleteBegin(c) \/ DeleteEnd(c)
    <3>1. UNCHANGED committed
      BY <2>1 DEF Call, Lock, CreateBegin, CreateSlot, RemoveBegin, RemoveSkip,
                  DeleteBegin, DeleteEnd, Stay
    <3> QED
      BY <1>1, <3>1
  <2> QED
    BY <1>2, <1>3, <1>4, <1>5, <1>7, <2>1 DEF Locked
<1> QED
  BY <1>6, <1>7, <1>1 DEF Next

\* CreateRule and RemoveRule are atomic: the rules in force, as whoever takes
\* the mutex finds them, change as AtomicRules says, request by request.
THEOREM ImplementsAtomicRules == Spec => AtomicSpec
<1>1. Init => Atomic!Init
  BY DEF Init, Atomic!Init
<1> QED
  BY <1>1, TableInvHolds, StepImplements, PTL DEF Spec, AtomicSpec, Atomic!Spec

-----------------------------------------------------------------------------
(* How a request gets on.                                                  *)

\* The holder's step goes on to the next phase, or leaves less to range over.
LEMMA LockedIsNearer ==
  ASSUME TableInv, NEW c \in Callers, Locked(c)
  PROVE  Nearer(c)
<1>1. /\ pc \in [Callers -> {"idle", "lock", "check", "assignOuter", "assign", "copy",
                            "range", "delete"}]
      /\ todo \in [Callers -> SUBSET Tracers]
  BY DEF TableInv, TypeOK
<1>2. CASE Reject(c) \/ CreateTracer(c) \/ CreateCopied(c) \/ RemoveEnd(c)
  <2>1. pc[c] \in {"check", "assignOuter", "copy", "range"} /\ pc'[c] = "idle"
    BY <1>1, <1>2 DEF Reject, CreateTracer, CreateCopied, RemoveEnd, Return, GoTo
  <2> QED
    BY <2>1 DEF Nearer, Stages
<1>3. CASE CreateBegin(c) \/ RemoveBegin(c)
  <2>1. pc[c] = "check" /\ pc'[c] \in {"assign", "assignOuter", "range"}
    BY <1>1, <1>3 DEF CreateBegin, RemoveBegin, GoTo
  <2> QED
    BY <2>1 DEF Nearer, Stages
<1>4. CASE CreateSlot(c)
  <2>1. pc[c] = "assign" /\ pc'[c] = "copy"
    BY <1>1, <1>4 DEF CreateSlot, GoTo
  <2> QED
    BY <2>1 DEF Nearer, Stages
<1>5. CASE RemoveSkip(c)
  <2>1. PICK p \in todo[c] : todo' = [todo EXCEPT ![c] = @ \ {p}]
    BY <1>5 DEF RemoveSkip
  <2>2. pc'[c] = "range" /\ todo'[c] = todo[c] \ {p}
    BY <1>1, <1>5, <2>1 DEF RemoveSkip
  <2> QED
    BY <2>2 DEF Nearer
<1>6. CASE DeleteBegin(c)
  BY <1>1, <1>6 DEF DeleteBegin, GoTo, Nearer
<1>7. CASE DeleteEnd(c)
  <2>1. pc[c] = "delete" /\ pc'[c] = "range" /\ todo'[c] = todo[c] \ {writing}
    BY <1>1, <1>7 DEF DeleteEnd, GoTo
  <2>2. writing \in todo[c]
    BY <2>1 DEF TableInv, HolderInv
  <2> QED
    BY <2>1, <2>2 DEF Nearer
<1> QED
  BY <1>2, <1>3, <1>4, <1>5, <1>6, <1>7 DEF Locked

LEMMA OtherRequestsStay ==
  ASSUME TableInv, NEW d \in Callers, Call(d) \/ Lock(d) \/ Locked(d),
         NEW c \in Callers \ {d}
  PROVE  pc'[c] = pc[c] /\ req'[c] = req[c] /\ todo'[c] = todo[c]
<1>1. /\ DOMAIN pc = Callers /\ DOMAIN req = Callers /\ DOMAIN todo = Callers
  BY DEF TableInv, TypeOK
<1>2. pc'[c] = pc[c]
  BY <1>1 DEF Call, Lock, Locked, Reject, CreateBegin, CreateTracer, CreateSlot, CreateCopied,
    RemoveBegin, RemoveSkip, DeleteBegin, DeleteEnd, RemoveEnd, Return, GoTo
<1>3. req'[c] = req[c]
  BY <1>1 DEF Call, Lock, Locked, Reject, CreateBegin, CreateTracer, CreateSlot, CreateCopied,
    RemoveBegin, RemoveSkip, DeleteBegin, DeleteEnd, RemoveEnd, Return, Stay
<1>4. todo'[c] = todo[c]
  BY <1>1 DEF Call, Lock, Locked, Reject, CreateBegin, CreateTracer, CreateSlot, CreateCopied,
    RemoveBegin, RemoveSkip, DeleteBegin, DeleteEnd, RemoveEnd, Return
<1> QED
  BY <1>2, <1>3, <1>4

\* Why a request is answered, once its handler has the mutex: each of the handler's steps
\* brings it nearer (the map that it deletes from is the one it has to do, for nobody
\* else writes meanwhile), and no other handler's step moves it.
THEOREM RequestsGetOn == Spec => RequestsRunDown
<1>1. ASSUME TableInv, [Next]_vars, NEW c \in Callers, pc[c] # "idle"
      PROVE  IF Lock(c) \/ Locked(c) THEN Nearer(c)
             ELSE pc'[c] = pc[c] /\ req'[c] = req[c] /\ todo'[c] = todo[c]
  <2>1. CASE Lock(c)
    <3>1. pc[c] = "lock" /\ pc'[c] = "check"
      BY <1>1, <2>1 DEF Lock, GoTo, TableInv, TypeOK
    <3>2. Nearer(c)
      BY <3>1 DEF Nearer, Stages
    <3> QED
      BY <2>1, <3>2
  <2>2. CASE Locked(c)
    BY <1>1, <2>2, LockedIsNearer
  <2>3. CASE ~(Lock(c) \/ Locked(c))
    <3>1. CASE UNCHANGED vars
      BY <2>3, <3>1 DEF vars
    <3>2. ASSUME NEW d \in Callers, Call(d) \/ Lock(d) \/ Locked(d)
          PROVE  pc'[c] = pc[c] /\ req'[c] = req[c] /\ todo'[c] = todo[c]
      <4>1. d # c
        BY <1>1, <2>3, <3>2 DEF Call
      <4> QED
        BY <1>1, <3>2, <4>1, OtherRequestsStay
    <3> QED
      BY <1>1, <2>3, <3>1, <3>2 DEF Next
  <2> QED
    BY <2>1, <2>2, <2>3
<1>2. TableInv /\ [Next]_vars =>
        [\A c \in Callers : pc[c] # "idle" =>
           IF Lock(c) \/ Locked(c) THEN Nearer(c)
           ELSE pc'[c] = pc[c] /\ req'[c] = req[c] /\ todo'[c] = todo[c]]_vars
  BY <1>1
<1> QED
  BY <1>2, TableInvHolds, PTL DEF Spec, RequestsRunDown
=============================================================================
