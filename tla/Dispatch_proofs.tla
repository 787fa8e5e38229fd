---------------------------- MODULE Dispatch_proofs ----------------------------
(***************************************************************************)
(* Proofs about the watchers, for any number of watchers and handlers, any *)
(* rules and any events: what they do is always done for a rule in force,  *)
(* and an event that no write overtakes is handled exactly.                *)
(***************************************************************************)
EXTENDS Dispatch, RuleTable_proofs, SequenceTheorems

-----------------------------------------------------------------------------
(* The invariant.                                                          *)

Entries == Names \union {NoEntry}

Phases == {"watch", "lookup", "len", "range", "next", "copy", "act", "end"}

\* Strings.  (The provers do not know of the one the code names that it is one.)
ActionNames == STRING \union {"stdout"}

\* The types, those of the history included.
WatcherTypes ==
  /\ up \in BOOLEAN
  /\ wpc \in [Tracers -> Phases]
  /\ event \in [Tracers -> Events \union {NoEvent}]
  /\ hasRules \in [Tracers -> BOOLEAN]
  /\ since \in [Tracers -> Nat]
  /\ entry \in [Tracers -> Entries \X Nat]
  /\ seen \in [Tracers -> SUBSET (Names \X Nat)]
  /\ DOMAIN rule = Tracers
  /\ next \in [Tracers -> Nat]
  /\ taken \in 0..MaxEvents
  /\ start \in [Tracers -> Nat \union {NoOne}]
  /\ DOMAIN alive = Tracers
  /\ added \in [Tracers -> [Entries -> Nat]]
  /\ done \in [Tracers -> [Entries -> Seq(ActionNames)]]

\* The rules of the tables list their actions, and a slot has a lower number than
\* the writes to come.
ListsActions(t) == \A p \in DOMAIN t : \A n \in DOMAIN t[p] : t[p][n].actions \in Seq(ActionNames)
RulesOK ==
  /\ ListsActions(rules) /\ ListsActions(committed)
  /\ \A p \in Tracers, n \in Names : born[p][n] <= writes

\* What a slot in transit has held, and what it will hold, is a rule in force, or
\* the zero rule.
TransitOK ==
  inTransit # NoOne =>
    /\ inTransit.tracer \in Tracers
    /\ {inTransit.old, inTransit.new} \subseteq InForce(inTransit.tracer) \union {ZeroRule}

\* A watcher ranges over a map that is there; the rules in force while it handles
\* an event are among those of the history; it acts on the actions of one of those.
WatcherOK(p) ==
  /\ wpc[p] \in {"range", "next", "copy", "act"} => p \in DOMAIN rules
  /\ hasRules[p] => p \in DOMAIN rules
  /\ wpc[p] # "watch" => event[p].data # NoOne /\ InForce(p) \subseteq alive[p]
  /\ wpc[p] = "watch" => added[p] = NothingAdded /\ done[p] = NothingDone
  /\ rule[p].actions \in Seq(ActionNames) /\ next[p] <= Len(rule[p].actions)
  /\ wpc[p] = "act" /\ rule[p].actions # << >> =>
       \E r \in alive[p] : rule[p].actions = r.actions
  /\ \A n \in Names : \A a \in ToSet(done[p][n]) :
       \E r \in alive[p] : a \in ToSet(r.actions)

\* The rules of p, and those that its event passes.
Table(p) == IF p \in DOMAIN rules THEN rules[p] ELSE EmptyMap
Matching(p) == {n \in DOMAIN Table(p) : Match(Table(p)[n], event[p].data, event[p].runtime)}

\* The names the range has produced, and those it is done with.
Produced(p) == {e[1] : e \in seen[p]}
Handled(p) == IF wpc[p] \in {"copy", "act"} THEN Produced(p) \ {entry[p][1]} ELSE Produced(p)

\* For the name n everything has been done that is to be done if it is in S.
DoneExactly(p, n, S) ==
  /\ added[p][n] = IF n \in Matching(p) \intersect S THEN 1 ELSE 0
  /\ done[p][n] = IF n \in Matching(p) \intersect S THEN Table(p)[n].actions ELSE << >>

\* As long as no write has overtaken the event.
Exact(p) ==
  /\ writing = NoOne /\ inTransit = NoOne
  /\ wpc[p] = "len" => hasRules[p] = (p \in DOMAIN rules)
  /\ wpc[p] \in {"lookup", "len", "range"} => added[p] = NothingAdded /\ done[p] = NothingDone
  /\ wpc[p] \in {"range", "next", "copy", "act"} => DOMAIN rules[p] # {}
  /\ wpc[p] \in {"next", "copy", "act"} =>
       /\ since[p] = writes /\ seen[p] \subseteq EntriesOf(p)
       /\ \A n \in Entries :
            (wpc[p] = "act" /\ n = entry[p][1]) \/ DoneExactly(p, n, Handled(p))
  /\ wpc[p] \in {"copy", "act"} => entry[p] \in seen[p]
  /\ wpc[p] = "act" =>
       /\ entry[p][1] \in Matching(p) /\ rule[p] = rules[p][entry[p][1]]
       /\ added[p][entry[p][1]] = 1
       /\ done[p][entry[p][1]] = SubSeq(rule[p].actions, 1, next[p])
  /\ wpc[p] = "end" =>
       IF DOMAIN Table(p) = {}
       THEN /\ added[p] = [NothingAdded EXCEPT ![NoEntry] = 1]
            /\ done[p] = [NothingDone EXCEPT ![NoEntry] = <<"stdout">>]
       ELSE \A n \in Entries : DoneExactly(p, n, Entries)

ExactOK(p) ==
  /\ start[p] \in Nat => start[p] <= writes
  /\ wpc[p] # "watch" /\ Undisturbed(p) => Exact(p)

DispatchInv ==
  /\ TableInv /\ WatcherTypes /\ RulesOK /\ TransitOK
  /\ \A p \in Tracers : WatcherOK(p) /\ ExactOK(p)

-----------------------------------------------------------------------------
(* Rules in force.                                                         *)

\* The rules that come with a request, or with a file, list their actions.
LEMMA RequestsListActions ==
  /\ \A r \in Requests : r.op = "create" => r.rule.actions \in Seq(ActionNames)
  /\ ListsActions(InitialRules)
<1>1. Seq(STRING) \subseteq Seq(ActionNames)
  BY SeqMonotonic DEF ActionNames
<1> QED
  BY <1>1, DispatchAssumption DEF DispatchAssumption, ListsActions

\* Every rule that is in the table of p is in force.
LEMMA RulesInForce ==
  ASSUME TableInv, NEW p \in DOMAIN rules, NEW n \in DOMAIN rules[p]
  PROVE  rules[p][n] \in InForce(p)
<1>1. CASE Clean
  BY <1>1 DEF Clean, InForce
<1>2. ASSUME NEW c \in Callers, rulesMutex = c
      PROVE  rules[p][n] \in InForce(p)
  <2>1. pc[c] \in {"check", "assignOuter", "assign", "copy", "range", "delete"}
    BY <1>2 DEF TableInv, MutexInv, TypeOK
  <2>2. CASE pc[c] \in {"check", "assignOuter", "assign"}
    BY <2>2 DEF TableInv, HolderInv, Clean, InForce
  <2>3. CASE pc[c] = "copy"
    <3>1. IsCreated(rules, committed, req[c].rule)
      BY <2>3 DEF TableInv, HolderInv
    <3>2. CASE p = req[c].rule.tracer /\ n = req[c].rule.name
      BY <2>3, <3>1, <3>2 DEF IsCreated, InForce
    <3>3. CASE p = req[c].rule.tracer /\ n # req[c].rule.name
      BY <3>1, <3>3 DEF IsCreated, InForce
    <3>4. CASE p # req[c].rule.tracer
      BY <3>1, <3>4 DEF IsCreated, InForce
    <3> QED
      BY <3>2, <3>3, <3>4
  <2>4. CASE pc[c] \in {"range", "delete"}
    <3>1. PICK S : IsRemoved(rules, committed, req[c].name, S)
      BY <2>4 DEF TableInv, HolderInv, Removing
    <3> QED
      BY <3>1 DEF IsRemoved, InForce
  <2> QED
    BY <2>1, <2>2, <2>3, <2>4
<1> QED
  BY <1>1, <1>2 DEF TableInv, TypeOK

\* Rules in force list their actions.
LEMMA InForceLists ==
  ASSUME TableInv, RulesOK, NEW p, NEW r \in InForce(p)
  PROVE  r.actions \in Seq(ActionNames)
<1>1. CASE \E c \in Callers : pc[c] \in {"assignOuter", "assign", "copy"} /\ r = req[c].rule
  BY <1>1, RequestsListActions DEF TableInv, HolderInv, Creating
<1>2. CASE p \in DOMAIN committed /\ \E n \in DOMAIN committed[p] : r = committed[p][n]
  BY <1>2 DEF RulesOK, ListsActions
<1> QED
  BY <1>1, <1>2 DEF InForce

\* A copy of a slot has the actions of a rule in force, or none.
LEMMA CopiesInForce ==
  ASSUME TableInv, RulesOK, TransitOK, NEW p \in DOMAIN rules, NEW e, NEW r \in Copies(p, e)
  PROVE  /\ r.actions \in Seq(ActionNames)
         /\ r.actions = << >> \/ \E s \in InForce(p) : r.actions = s.actions
<1>1. ZeroRule.actions = << >> /\ << >> \in Seq(ActionNames)
  BY EmptySeq DEF ZeroRule
<1>2. \A s \in InForce(p) \union {ZeroRule} :
        /\ s.actions \in Seq(ActionNames)
        /\ s.actions = << >> \/ \E i \in InForce(p) : s.actions = i.actions
  BY <1>1, InForceLists
<1>3. CASE SlotInTransit(p, e)
  <2>1. r.actions \in {inTransit.old.actions, inTransit.new.actions}
    BY <1>3 DEF Copies, Mix
  <2>2. {inTransit.old, inTransit.new} \subseteq InForce(p) \union {ZeroRule}
    BY <1>3 DEF SlotInTransit, TransitOK
  <2> QED
    BY <1>2, <2>1, <2>2
<1>4. CASE ~SlotInTransit(p, e)
  <2>1. r = ZeroRule \/ \E n \in DOMAIN rules[p] : r = rules[p][n]
    BY <1>4 DEF Copies, EntriesOf
  <2>2. r \in InForce(p) \union {ZeroRule}
    BY <2>1, RulesInForce
  <2> QED
    BY <1>2, <2>2
<1> QED
  BY <1>3, <1>4

-----------------------------------------------------------------------------
(* What a step leaves alone.                                               *)

\* Nothing changes for the watcher q.
SameWatcher(q) ==
  /\ wpc'[q] = wpc[q] /\ event'[q] = event[q] /\ hasRules'[q] = hasRules[q]
  /\ since'[q] = since[q] /\ seen'[q] = seen[q] /\ entry'[q] = entry[q]
  /\ rule'[q] = rule[q] /\ next'[q] = next[q] /\ start'[q] = start[q]
  /\ added'[q] = added[q] /\ done'[q] = done[q]

LEMMA SameExact ==
  ASSUME NEW q, Exact(q), SameWatcher(q),
         UNCHANGED <<rules, born, writes, writing, inTransit>>
  PROVE  Exact(q)'
<1>1. Table(q)' = Table(q)
  BY DEF Table
<1>2. Matching(q)' = Matching(q)
  BY <1>1 DEF Matching, SameWatcher
<1>3. Produced(q)' = Produced(q)
  BY DEF Produced, SameWatcher
<1>4. Handled(q)' = Handled(q)
  BY <1>3 DEF Handled, SameWatcher
<1>5. EntriesOf(q)' = EntriesOf(q)
  BY DEF EntriesOf
<1>6. \A n, S : DoneExactly(q, n, S)' <=> DoneExactly(q, n, S)
  BY <1>1, <1>2 DEF DoneExactly, SameWatcher
<1> QED
  BY <1>1, <1>2, <1>4, <1>5, <1>6 DEF Exact, SameWatcher

LEMMA SameTable ==
  ASSUME DispatchInv, UNCHANGED vars
  PROVE  TableInv' /\ RulesOK' /\ TransitOK' /\ \A q : InForce(q)' = InForce(q)
<1>1. TableInv'
  BY StepKeeps DEF DispatchInv
<1>2. RulesOK'
  BY DEF DispatchInv, RulesOK, ListsActions, vars, tableVars
<1>3. \A q : InForce(q)' = InForce(q)
  BY DEF InForce, vars, tableVars
<1>4. TransitOK'
  BY <1>3 DEF DispatchInv, TransitOK, vars, tableVars
<1> QED
  BY <1>1, <1>2, <1>3, <1>4

\* A step of the watcher p disturbs no other.
LEMMA OtherWatchers ==
  ASSUME DispatchInv, NEW p \in Tracers, UNCHANGED vars,
         \A q \in Tracers \ {p} : SameWatcher(q) /\ alive'[q] = alive[q],
         WatcherTypes', WatcherOK(p)', ExactOK(p)'
  PROVE  DispatchInv'
<1>1. TableInv' /\ RulesOK' /\ TransitOK' /\ \A q : InForce(q)' = InForce(q)
  BY SameTable
<1>2. ASSUME NEW q \in Tracers \ {p}
      PROVE  WatcherOK(q)' /\ ExactOK(q)'
  <2>1. SameWatcher(q) /\ alive'[q] = alive[q] /\ WatcherOK(q) /\ ExactOK(q)
    BY DEF DispatchInv
  <2>2. UNCHANGED <<rules, born, writes, writing, inTransit>>
    BY DEF vars, tableVars
  <2>3. WatcherOK(q)'
    BY <1>1, <2>1, <2>2 DEF WatcherOK, SameWatcher
  <2>4. ExactOK(q)'
    BY <2>1, <2>2, SameExact DEF ExactOK, Undisturbed, SameWatcher
  <2> QED
    BY <2>3, <2>4
<1> QED
  BY <1>1, <1>2 DEF DispatchInv

-----------------------------------------------------------------------------
(* The handlers.                                                           *)

\* While no write has overtaken the event, a handler leaves the table alone.
LEMMA HandlerIsExact ==
  ASSUME TableInv, TableStep, NEW q \in Tracers, ExactOK(q), start[q] \in Nat \union {NoOne},
         SameWatcher(q)
  PROVE  ExactOK(q)'
<1>1. writes \in Nat /\ writes' \in {writes, writes + 1} /\ start'[q] = start[q]
  BY DEF TableInv, TypeOK, TableStep, SameWatcher
<1>2. start[q] \in Nat => start[q] <= writes
  BY DEF ExactOK
<1>3. start'[q] \in Nat => start'[q] <= writes'
  BY <1>1, <1>2
<1>4. ASSUME wpc'[q] # "watch", Undisturbed(q)'
      PROVE  Exact(q)'
  <2>1. writes' = writes
    <3>1. start[q] = writes'
      BY <1>1, <1>4 DEF Undisturbed
    <3> QED
      BY <1>1, <1>2, <3>1
  <2>2. Exact(q)
    BY <1>1, <1>4, <2>1 DEF ExactOK, Undisturbed, SameWatcher
  <2>3. UNCHANGED <<rules, born, writes, writing, inTransit>>
    BY <2>1, <2>2 DEF Exact, TableStep
  <2> QED
    BY <2>2, <2>3, SameExact
<1> QED
  BY <1>3, <1>4 DEF ExactOK

\* The rules of the tables still list their actions.
LEMMA HandlerListsActions ==
  ASSUME RulesOK, TableInv, TableStep
  PROVE  RulesOK'
<1>1. \A r : KnownRule(r, rules) => r.actions \in Seq(ActionNames)
  BY RequestsListActions DEF RulesOK, ListsActions, KnownRule
<1>2. ListsActions(rules')
  BY <1>1 DEF TableStep, ListsActions
<1>3. ListsActions(committed')
  BY <1>2 DEF TableStep, RulesOK
<1>4. ASSUME NEW p \in Tracers, NEW n \in Names
      PROVE  born'[p][n] <= writes'
  BY <1>4 DEF RulesOK, TableStep, TableInv, TypeOK
<1> QED
  BY <1>2, <1>3, <1>4 DEF RulesOK

\* A slot in transit goes from a rule in force to a rule in force.
LEMMA HandlerTransit ==
  ASSUME TableInv, TransitOK, HandlerStep, inTransit' # NoOne
  PROVE  TransitOK'
<1>1. PICK c \in Callers : Call(c) \/ Lock(c) \/ Locked(c)
  BY DEF HandlerStep
<1>2. CASE CreateSlot(c)
  <2> DEFINE r == req[c].rule
  <2>1. /\ pc[c] = "assign" /\ pc' = [pc EXCEPT ![c] = "copy"]
        /\ UNCHANGED <<req, committed>>
        /\ inTransit'.tracer = r.tracer /\ inTransit'.new = r
        /\ \/ inTransit'.old = ZeroRule
           \/ r.name \in DOMAIN rules[r.tracer] /\ inTransit'.old = rules[r.tracer][r.name]
    BY <1>2 DEF CreateSlot, Stay, GoTo
  <2>2. /\ TypeOK /\ Creating(c) /\ r.tracer \in DOMAIN rules /\ rules = committed
    BY <2>1 DEF TableInv, HolderInv
  <2>3. r.tracer \in Tracers
    BY <2>2 DEF TypeOK, IsTable
  <2>4. pc'[c] = "copy"
    BY <2>1, <2>2 DEF TypeOK
  <2>5. r \in InForce(r.tracer)'
    BY <2>1, <2>4 DEF InForce
  <2>6. inTransit'.old \in InForce(r.tracer)' \union {ZeroRule}
    BY <2>1, <2>2 DEF InForce
  <2> QED
    BY <2>1, <2>3, <2>5, <2>6 DEF TransitOK
<1>3. CASE DeleteBegin(c)
  <2>1. PICK p \in todo[c] :
          /\ req[c].name \in DOMAIN rules[p]
          /\ inTransit' = [tracer |-> p, name |-> req[c].name, new |-> ZeroRule,
                           old |-> rules[p][req[c].name]]
    BY <1>3 DEF DeleteBegin, Deletes
  <2>2. pc[c] = "range" /\ UNCHANGED <<rules, committed>>
    BY <1>3 DEF DeleteBegin, Stay
  <2>3. TypeOK /\ Removing(c) /\ p \in Targets(req[c])
    BY <2>2 DEF TableInv, HolderInv, Removing
  <2>4. p \in DOMAIN committed /\ p \in Tracers
    BY <2>3 DEF Targets, TypeOK
  <2>5. \E n \in DOMAIN committed[p] : rules[p][req[c].name] = committed[p][n]
    BY <2>1, <2>3, <2>4 DEF Removing, IsRemoved
  <2>6. rules[p][req[c].name] \in InForce(p)'
    BY <2>2, <2>4, <2>5 DEF InForce
  <2> QED
    BY <2>1, <2>4, <2>6 DEF TransitOK
<1>4. CASE Call(c)
  <2>1. /\ pc[c] = "idle" /\ pc' = [pc EXCEPT ![c] = "lock"]
        /\ UNCHANGED <<inTransit, committed>>
        /\ \E r \in Requests : req' = [req EXCEPT ![c] = r]
    BY <1>4 DEF Call, GoTo, tableVars
  <2>2. \A d \in Callers \ {c} : pc'[d] = pc[d] /\ req'[d] = req[d]
    BY <2>1 DEF TableInv, TypeOK
  <2>3. \A p : InForce(p) \subseteq InForce(p)'
    BY <2>1, <2>2 DEF InForce
  <2> QED
    BY <2>1, <2>3 DEF TransitOK
<1>5. ASSUME Lock(c) \/ Reject(c) \/ CreateBegin(c) \/ RemoveBegin(c) \/ RemoveSkip(c)
              \/ RemoveEnd(c)
      PROVE  inTransit = NoOne /\ inTransit' = inTransit
  BY <1>5 DEF TableInv, HolderInv, Clean, Lock, Reject, CreateBegin, RemoveBegin, RemoveSkip,
              RemoveEnd, tableVars
<1>6. ASSUME CreateTracer(c) \/ CreateCopied(c) \/ DeleteEnd(c)
      PROVE  inTransit' = NoOne
  BY <1>6 DEF TableInv, HolderInv, CreateTracer, CreateCopied, DeleteEnd
<1> QED
  BY <1>1, <1>2, <1>3, <1>4, <1>5, <1>6 DEF Locked

LEMMA HandlerKeeps ==
  ASSUME DispatchInv, HandlerStep, UNCHANGED <<up, dispatchVars>>,
         alive' = [p \in Tracers |->
                     IF wpc[p] = "watch" THEN {} ELSE alive[p] \union InForce(p)']
  PROVE  DispatchInv'
<1>1. TableInv' /\ TableStep
  BY StepKeeps, EveryTableStep DEF DispatchInv, HandlerStep, Next
<1>2. WatcherTypes'
  BY DEF DispatchInv, WatcherTypes, dispatchVars, watchVars, eventHistory
<1>3. RulesOK'
  BY <1>1, HandlerListsActions DEF DispatchInv
<1>4. TransitOK'
  <2>1. CASE inTransit' = NoOne
    BY <2>1 DEF TransitOK
  <2> QED
    BY <2>1, HandlerTransit DEF DispatchInv
<1>5. ASSUME NEW p \in Tracers
      PROVE  WatcherOK(p)' /\ ExactOK(p)'
  <2>1. SameWatcher(p)
    BY DEF SameWatcher, dispatchVars, watchVars, eventHistory
  <2>2. WatcherOK(p) /\ ExactOK(p) /\ start[p] \in Nat \union {NoOne}
    BY DEF DispatchInv, WatcherTypes
  <2>3. ExactOK(p)'
    BY <1>1, <2>1, <2>2, HandlerIsExact DEF DispatchInv
  <2>4. DOMAIN rules \subseteq DOMAIN rules'
    BY <1>1 DEF TableStep
  <2>5. CASE wpc[p] = "watch"
    <3>1. ToSet(<< >>) = {}
      BY DEF ToSet
    <3>2. \A n \in Names : done'[p][n] = << >>
      BY <2>1, <2>2, <2>5 DEF WatcherOK, SameWatcher, NothingDone
    <3> QED
      BY <2>1, <2>2, <2>3, <2>4, <2>5, <3>1, <3>2 DEF WatcherOK, SameWatcher
  <2>6. CASE wpc[p] # "watch"
    <3>1. alive[p] \subseteq alive'[p] /\ InForce(p)' \subseteq alive'[p]
      BY <2>6
    <3> QED
      BY <2>1, <2>2, <2>3, <2>4, <2>6, <3>1 DEF WatcherOK, SameWatcher
  <2> QED
    BY <2>5, <2>6
<1> QED
  BY <1>1, <1>2, <1>3, <1>4, <1>5 DEF DispatchInv

-----------------------------------------------------------------------------
(* The watchers.                                                           *)

\* A watcher in "watch" has done nothing, and there was nothing to do.
LEMMA NothingIsTyped ==
  /\ NothingAdded \in [Entries -> Nat] /\ NothingDone \in [Entries -> Seq(ActionNames)]
  /\ \A n \in Entries : NothingAdded[n] = 0 /\ NothingDone[n] = << >>
  /\ ToSet(<< >>) = {}
BY EmptySeq DEF NothingAdded, NothingDone, Entries, ToSet

LEMMA WatchEventKeeps ==
  ASSUME DispatchInv, NEW p \in Tracers, WatchEvent(p), UNCHANGED <<vars, up>>
  PROVE  DispatchInv'
<1>1. PICK e \in Events :
        IF e.data = NoOne
        THEN UNCHANGED <<wpc, event, start, alive>>
        ELSE /\ WGoTo(p, "lookup")
             /\ event' = [event EXCEPT ![p] = e]
             /\ start' = [start EXCEPT ![p] =
                            IF writing = NoOne /\ inTransit = NoOne THEN writes ELSE NoOne]
             /\ alive' = [alive EXCEPT ![p] = InForce(p)]
  BY DEF WatchEvent
<1>2. /\ wpc[p] = "watch" /\ taken < MaxEvents /\ taken' = taken + 1
      /\ UNCHANGED <<hasRules, since, seen, entry, rule, next, added, done>>
  BY DEF WatchEvent
<1>3. WatcherTypes /\ TypeOK /\ WatcherOK(p) /\ ExactOK(p)
  BY DEF DispatchInv, TableInv
<1>4. taken' \in 0..MaxEvents
  <2>1. taken \in 0..MaxEvents /\ MaxEvents \in Nat
    BY <1>3, DispatchAssumption DEF WatcherTypes, DispatchAssumption
  <2> QED
    BY <1>2, <2>1
<1>5. CASE e.data = NoOne
  <2>1. WatcherTypes'
    BY <1>1, <1>2, <1>3, <1>4, <1>5 DEF WatcherTypes
  <2>2. \A q \in Tracers : SameWatcher(q) /\ alive'[q] = alive[q]
    BY <1>1, <1>2, <1>5 DEF SameWatcher
  <2>3. InForce(p)' = InForce(p)
    BY SameTable
  <2>4. WatcherOK(p)' /\ ExactOK(p)'
    BY <1>2, <1>3, <2>2, <2>3 DEF WatcherOK, ExactOK, SameWatcher, vars, tableVars
  <2> QED
    BY <2>1, <2>2, <2>4, OtherWatchers
<1>6. CASE e.data # NoOne
  <2>1. WatcherTypes'
    <3>1. /\ wpc' = [wpc EXCEPT ![p] = "lookup"] /\ event' = [event EXCEPT ![p] = e]
          /\ \E s \in Nat \union {NoOne} : start' = [start EXCEPT ![p] = s]
          /\ alive' = [alive EXCEPT ![p] = InForce(p)]
      BY <1>1, <1>3, <1>6 DEF WGoTo, TypeOK
    <3> QED
      BY <1>2, <1>3, <1>4, <3>1 DEF WatcherTypes, Phases
  <2>2. \A q \in Tracers \ {p} : SameWatcher(q) /\ alive'[q] = alive[q]
    BY <1>1, <1>2, <1>3, <1>6 DEF SameWatcher, WGoTo, WatcherTypes
  <2>3. InForce(p)' = InForce(p)
    BY SameTable
  <2>4. /\ wpc'[p] = "lookup" /\ event'[p] = e /\ alive'[p] = InForce(p)
        /\ start'[p] = IF writing = NoOne /\ inTransit = NoOne THEN writes ELSE NoOne
    BY <1>1, <1>3, <1>6 DEF WGoTo, WatcherTypes
  <2>5. \A n \in Names : ToSet(done[p][n]) = {}
    BY <1>2, <1>3, NothingIsTyped DEF WatcherOK, Entries
  <2>6. WatcherOK(p)'
    BY <1>2, <1>3, <1>6, <2>3, <2>4, <2>5 DEF WatcherOK, vars, tableVars
  <2>7. NoOne \notin Nat /\ writes \in Nat
    BY <1>3, DispatchAssumption DEF DispatchAssumption, TypeOK
  <2>8. ExactOK(p)'
    BY <1>2, <1>3, <2>4, <2>7 DEF ExactOK, Exact, Undisturbed, WatcherOK, vars, tableVars
  <2> QED
    BY <2>1, <2>2, <2>6, <2>8, OtherWatchers
<1> QED
  BY <1>5, <1>6

LEMMA LookupKeeps ==
  ASSUME DispatchInv, NEW p \in Tracers, Lookup(p), UNCHANGED <<vars, up>>
  PROVE  DispatchInv'
<1>1. /\ wpc[p] = "lookup" /\ wpc' = [wpc EXCEPT ![p] = "len"]
      /\ hasRules' = [hasRules EXCEPT ![p] = p \in DOMAIN rules]
      /\ UNCHANGED <<event, since, seen, entry, rule, next, taken, alive, start, added, done>>
  BY DEF Lookup, WGoTo, eventHistory
<1>2. WatcherTypes /\ WatcherOK(p) /\ ExactOK(p)
  BY DEF DispatchInv
<1>3. WatcherTypes'
  BY <1>1, <1>2 DEF WatcherTypes, Phases
<1>4. /\ \A q \in Tracers \ {p} : SameWatcher(q) /\ alive'[q] = alive[q]
      /\ wpc'[p] = "len" /\ hasRules'[p] = (p \in DOMAIN rules)
  BY <1>1, <1>2 DEF SameWatcher, WatcherTypes
<1>5. InForce(p)' = InForce(p)
  BY SameTable
<1>6. WatcherOK(p)'
  BY <1>1, <1>2, <1>4, <1>5 DEF WatcherOK, vars, tableVars
<1>7. ExactOK(p)'
  BY <1>1, <1>2, <1>4 DEF ExactOK, Exact, Undisturbed, vars, tableVars
<1> QED
  BY <1>3, <1>4, <1>6, <1>7, OtherWatchers

LEMMA NoRulesKeeps ==
  ASSUME DispatchInv, NEW p \in Tracers, NoRules(p), UNCHANGED <<vars, up>>
  PROVE  DispatchInv'
<1>1. /\ wpc[p] = "len" /\ HasNoRules(p) /\ wpc' = [wpc EXCEPT ![p] = "end"]
      /\ done' = [done EXCEPT ![p][NoEntry] = Append(@, "stdout")]
      /\ added' = [added EXCEPT ![p][NoEntry] = @ + 1]
      /\ UNCHANGED <<event, hasRules, since, seen, entry, rule, next, taken, start, alive>>
  BY DEF NoRules, WGoTo, Did, AddEvent
<1>2. WatcherTypes /\ WatcherOK(p) /\ ExactOK(p)
  BY DEF DispatchInv
<1>3. NoEntry \in Entries /\ NoEntry \notin Names
  BY RuleTableAssumption DEF Entries, NoEntry, RuleTableAssumption
<1>4. WatcherTypes'
  <2>1. added' \in [Tracers -> [Entries -> Nat]]
    BY <1>1, <1>2, <1>3 DEF WatcherTypes
  <2>2. done[p][NoEntry] \in Seq(ActionNames) /\ "stdout" \in ActionNames
    BY <1>2, <1>3 DEF WatcherTypes, ActionNames
  <2>3. Append(done[p][NoEntry], "stdout") \in Seq(ActionNames)
    BY <2>2, AppendProperties
  <2>4. done' \in [Tracers -> [Entries -> Seq(ActionNames)]]
    BY <1>1, <1>2, <1>3, <2>3 DEF WatcherTypes
  <2> QED
    BY <1>1, <1>2, <2>1, <2>4 DEF WatcherTypes, Phases
<1>5. /\ \A q \in Tracers \ {p} : SameWatcher(q) /\ alive'[q] = alive[q]
      /\ wpc'[p] = "end"
      /\ added'[p] = [added[p] EXCEPT ![NoEntry] = @ + 1]
      /\ done'[p] = [done[p] EXCEPT ![NoEntry] = Append(@, "stdout")]
  BY <1>1, <1>2 DEF SameWatcher, WatcherTypes
<1>6. \A n \in Names : done'[p][n] = done[p][n]
  BY <1>2, <1>3, <1>5 DEF WatcherTypes, Entries
<1>7. InForce(p)' = InForce(p)
  BY SameTable
<1>8. WatcherOK(p)'
  BY <1>1, <1>2, <1>5, <1>6, <1>7 DEF WatcherOK, vars, tableVars
<1>9. ASSUME Undisturbed(p)' PROVE Exact(p)'
  <2>1. Exact(p)
    BY <1>1, <1>2, <1>9 DEF ExactOK, Undisturbed, vars, tableVars
  <2>2. DOMAIN Table(p)' = {}
    <3>1. DOMAIN EmptyMap = {}
      BY DEF EmptyMap
    <3> QED
      BY <1>1, <2>1, <3>1 DEF Exact, Table, HasNoRules, vars, tableVars
  <2>3. added[p] = NothingAdded /\ done[p] = NothingDone
    BY <1>1, <2>1 DEF Exact
  <2>4. NothingAdded[NoEntry] + 1 = 1 /\ Append(NothingDone[NoEntry], "stdout") = <<"stdout">>
    <3>1. NothingAdded[NoEntry] = 0 /\ NothingDone[NoEntry] = << >>
      BY <1>3, NothingIsTyped
    <3> QED
      BY <3>1
  <2>5. /\ added'[p] = [NothingAdded EXCEPT ![NoEntry] = 1]
        /\ done'[p] = [NothingDone EXCEPT ![NoEntry] = <<"stdout">>]
    BY <1>5, <2>3, <2>4
  <2> QED
    BY <1>5, <2>1, <2>2, <2>5 DEF Exact, vars, tableVars
<1>10. ExactOK(p)'
  BY <1>1, <1>2, <1>9 DEF ExactOK, vars, tableVars
<1> QED
  BY <1>4, <1>5, <1>8, <1>10, OtherWatchers

LEMMA SomeRulesKeeps ==
  ASSUME DispatchInv, NEW p \in Tracers, SomeRules(p), UNCHANGED <<vars, up>>
  PROVE  DispatchInv'
<1>1. /\ wpc[p] = "len" /\ ~HasNoRules(p) /\ wpc' = [wpc EXCEPT ![p] = "range"]
      /\ UNCHANGED <<event, hasRules, since, seen, entry, rule, next, taken, alive, start,
                     added, done>>
  BY DEF SomeRules, WGoTo, eventHistory
<1>2. WatcherTypes /\ WatcherOK(p) /\ ExactOK(p)
  BY DEF DispatchInv
<1>3. WatcherTypes'
  BY <1>1, <1>2 DEF WatcherTypes, Phases
<1>4. /\ \A q \in Tracers \ {p} : SameWatcher(q) /\ alive'[q] = alive[q]
      /\ wpc'[p] = "range"
  BY <1>1, <1>2 DEF SameWatcher, WatcherTypes
<1>5. InForce(p)' = InForce(p)
  BY SameTable
<1>6. hasRules[p] /\ DOMAIN rules[p] # {}
  BY <1>1 DEF HasNoRules
<1>7. WatcherOK(p)'
  BY <1>1, <1>2, <1>4, <1>5, <1>6 DEF WatcherOK, vars, tableVars
<1>8. ExactOK(p)'
  BY <1>1, <1>2, <1>4, <1>6 DEF ExactOK, Exact, Undisturbed, vars, tableVars
<1> QED
  BY <1>3, <1>4, <1>7, <1>8, OtherWatchers

\* While p is undisturbed, an entry is known by its name.
LEMMA EntryNames ==
  ASSUME NEW p, Exact(p), wpc[p] \in {"next", "copy", "act"}
  PROVE  /\ \A e \in seen[p] : e[1] \in DOMAIN rules[p] /\ e = <<e[1], born[p][e[1]]>>
         /\ Matching(p) \subseteq DOMAIN rules[p]
<1>1. seen[p] \subseteq EntriesOf(p)
  BY DEF Exact
<1>2. DOMAIN EmptyMap = {}
  BY DEF EmptyMap
<1>3. DOMAIN Table(p) \subseteq DOMAIN rules[p]
  BY <1>2 DEF Table
<1> QED
  BY <1>1, <1>3 DEF EntriesOf, Matching

\* The entries are named, and their stamps are numbers.
LEMMA EntriesAreTyped ==
  ASSUME TypeOK, NEW p \in DOMAIN rules
  PROVE  EntriesOf(p) \subseteq Names \X Nat
BY DEF EntriesOf, TypeOK, IsTable

\* The range takes the next entry.
LEMMA ProduceKeeps ==
  ASSUME DispatchInv, NEW p \in Tracers, UNCHANGED <<vars, up>>,
         wpc[p] \in {"range", "next"},
         NEW produced \in SUBSET (Names \X Nat), NEW begun \in Nat,
         wpc[p] = "range" => produced = {} /\ begun = writes,
         wpc[p] = "next" => produced = seen[p] /\ begun = since[p],
         NEW e \in EntriesOf(p) \ produced,
         wpc' = [wpc EXCEPT ![p] = "copy"], since' = [since EXCEPT ![p] = begun],
         entry' = [entry EXCEPT ![p] = e],
         seen' = [seen EXCEPT ![p] = produced \union {e}],
         UNCHANGED <<event, hasRules, rule, next, taken, alive, start, added, done>>
  PROVE  DispatchInv'
<1>1. WatcherTypes /\ WatcherOK(p) /\ ExactOK(p) /\ TypeOK
  BY DEF DispatchInv, TableInv
<1>2. e \in Names \X Nat
  BY <1>1, EntriesAreTyped DEF WatcherOK
<1>3. WatcherTypes'
  BY <1>1, <1>2 DEF WatcherTypes, Phases, Entries
<1>4. /\ \A q \in Tracers \ {p} : SameWatcher(q) /\ alive'[q] = alive[q]
      /\ wpc'[p] = "copy" /\ since'[p] = begun /\ entry'[p] = e
      /\ seen'[p] = produced \union {e}
  BY <1>1 DEF SameWatcher, WatcherTypes
<1>5. InForce(p)' = InForce(p)
  BY SameTable
<1>6. UNCHANGED <<rules, born, writes, writing, inTransit>>
  BY DEF vars, tableVars
<1>7. WatcherOK(p)'
  BY <1>1, <1>4, <1>5, <1>6 DEF WatcherOK
<1>8. ASSUME Undisturbed(p)' PROVE Exact(p)'
  <2>1. Exact(p)
    BY <1>1, <1>6, <1>8 DEF ExactOK, Undisturbed
  <2>2. DOMAIN rules[p] # {} /\ begun = writes /\ produced \subseteq EntriesOf(p)
    BY <2>1 DEF Exact
  <2>3. Table(p)' = Table(p) /\ Matching(p)' = Matching(p) /\ EntriesOf(p)' = EntriesOf(p)
    BY <1>6 DEF Table, Matching, EntriesOf
  <2>4. Handled(p)' = {x[1] : x \in produced}
    <3>1. Handled(p)' = Produced(p)' \ {e[1]}
      BY <1>4 DEF Handled
    <3>2. Produced(p)' = {x[1] : x \in produced} \union {e[1]}
      BY <1>4 DEF Produced
    <3>3. \A x \in produced : x[1] # e[1]
      BY <2>2 DEF EntriesOf
    <3> QED
      BY <3>1, <3>2, <3>3
  <2>5. ASSUME NEW n \in Entries
        PROVE  DoneExactly(p, n, Handled(p))'
    <3>1. CASE wpc[p] = "range"
      <4>1. Handled(p)' = {}
        BY <2>4, <3>1
      <4>2. added[p][n] = 0 /\ done[p][n] = << >>
        BY <2>1, <3>1, NothingIsTyped DEF Exact
      <4> QED
        BY <4>1, <4>2 DEF DoneExactly
    <3>2. CASE wpc[p] = "next"
      <4>1. Handled(p)' = Handled(p)
        BY <2>4, <3>2 DEF Handled, Produced
      <4>2. DoneExactly(p, n, Handled(p))
        BY <2>1, <3>2 DEF Exact
      <4> QED
        BY <2>3, <4>1, <4>2 DEF DoneExactly
    <3> QED
      BY <3>1, <3>2
  <2>6. seen'[p] \subseteq EntriesOf(p) /\ e \in seen'[p]
    BY <1>4, <2>2
  <2> QED
    BY <1>4, <1>6, <2>1, <2>2, <2>3, <2>5, <2>6 DEF Exact
<1>9. ExactOK(p)'
  BY <1>1, <1>6, <1>8 DEF ExactOK
<1> QED
  BY <1>3, <1>4, <1>7, <1>9, OtherWatchers

\* The range ends: while no write has overtaken the event, it has produced all.
LEMMA RangeEndKeeps ==
  ASSUME DispatchInv, NEW p \in Tracers, UNCHANGED <<vars, up>>,
         wpc[p] \in {"range", "next"},
         NEW produced, NEW begun \in Nat,
         wpc[p] = "range" => produced = {} /\ begun = writes,
         wpc[p] = "next" => produced = seen[p] /\ begun = since[p],
         MayEnd(p, begun, produced),
         wpc' = [wpc EXCEPT ![p] = "end"], since' = [since EXCEPT ![p] = begun],
         UNCHANGED <<event, hasRules, seen, entry, rule, next, taken, alive, start, added,
                     done>>
  PROVE  DispatchInv'
<1>1. WatcherTypes /\ WatcherOK(p) /\ ExactOK(p) /\ RulesOK /\ TypeOK
  BY DEF DispatchInv, TableInv
<1>2. WatcherTypes'
  BY <1>1 DEF WatcherTypes, Phases
<1>3. /\ \A q \in Tracers \ {p} : SameWatcher(q) /\ alive'[q] = alive[q]
      /\ wpc'[p] = "end"
  BY <1>1 DEF SameWatcher, WatcherTypes
<1>4. InForce(p)' = InForce(p)
  BY SameTable
<1>5. UNCHANGED <<rules, born, writes, writing, inTransit>>
  BY DEF vars, tableVars
<1>6. WatcherOK(p)'
  BY <1>1, <1>3, <1>4, <1>5 DEF WatcherOK
<1>7. ASSUME Undisturbed(p)' PROVE Exact(p)'
  <2>1. Exact(p)
    BY <1>1, <1>5, <1>7 DEF ExactOK, Undisturbed
  <2>2. DOMAIN rules[p] # {} /\ begun = writes /\ p \in DOMAIN rules
    BY <1>1, <2>1 DEF Exact, WatcherOK
  <2>3. \A n \in DOMAIN rules[p] : <<n, born[p][n]>> \in produced
    <3>1. \A n \in DOMAIN rules[p] : born[p][n] <= writes
      BY <1>1, <2>2 DEF RulesOK, TypeOK, IsTable
    <3> QED
      BY <2>2, <3>1 DEF MayEnd, EntriesOf
  <2>4. wpc[p] = "next"
    BY <2>2, <2>3
  <2>5. Matching(p) \subseteq Handled(p)
    <3>1. \A n \in DOMAIN rules[p] : <<n, born[p][n]>>[1] \in Produced(p)
      BY <2>3, <2>4 DEF Produced
    <3> QED
      BY <2>1, <2>4, <3>1, EntryNames DEF Handled
  <2>6. Table(p)' = rules[p] /\ Table(p) = rules[p] /\ Matching(p)' = Matching(p)
    BY <1>5, <2>2 DEF Table, Matching
  <2>7. ASSUME NEW n \in Entries
        PROVE  DoneExactly(p, n, Entries)'
    <3>1. DoneExactly(p, n, Handled(p))
      BY <2>1, <2>4 DEF Exact
    <3> QED
      BY <2>5, <2>6, <3>1 DEF DoneExactly
  <2> QED
    BY <1>3, <1>5, <2>1, <2>2, <2>6, <2>7 DEF Exact
<1>8. ExactOK(p)'
  BY <1>1, <1>5, <1>7 DEF ExactOK
<1> QED
  BY <1>2, <1>3, <1>6, <1>8, OtherWatchers

LEMMA RangeKeeps ==
  ASSUME DispatchInv, NEW p \in Tracers, RangeBegin(p) \/ RangeNext(p), UNCHANGED <<vars, up>>
  PROVE  DispatchInv'
<1>1. WatcherTypes /\ writes \in Nat
  BY DEF DispatchInv, TableInv, TypeOK
<1>2. CASE RangeBegin(p)
  <2>1. /\ wpc[p] = "range" /\ since' = [since EXCEPT ![p] = writes]
        /\ Advance(p, writes, {})
        /\ UNCHANGED <<event, hasRules, rule, next, taken, alive, start, added, done>>
    BY <1>2 DEF RangeBegin, eventHistory
  <2>2. CASE \E e \in EntriesOf(p) \ {} :
               /\ entry' = [entry EXCEPT ![p] = e]
               /\ seen' = [seen EXCEPT ![p] = {} \union {e}]
               /\ wpc' = [wpc EXCEPT ![p] = "copy"]
    BY <1>1, <2>1, <2>2, ProduceKeeps
  <2>3. CASE /\ MayEnd(p, writes, {}) /\ wpc' = [wpc EXCEPT ![p] = "end"]
             /\ UNCHANGED <<entry, seen>>
    BY <1>1, <2>1, <2>3, RangeEndKeeps
  <2> QED
    BY <2>1, <2>2, <2>3 DEF Advance, WGoTo
<1>3. CASE RangeNext(p)
  <2>1. /\ wpc[p] = "next" /\ Advance(p, since[p], seen[p])
        /\ UNCHANGED <<event, hasRules, since, rule, next, taken, alive, start, added, done>>
    BY <1>3 DEF RangeNext, eventHistory
  <2>2. /\ since' = [since EXCEPT ![p] = since[p]] /\ since[p] \in Nat
        /\ seen[p] \in SUBSET (Names \X Nat)
    BY <1>1, <2>1 DEF WatcherTypes
  <2>3. CASE \E e \in EntriesOf(p) \ seen[p] :
               /\ entry' = [entry EXCEPT ![p] = e]
               /\ seen' = [seen EXCEPT ![p] = seen[p] \union {e}]
               /\ wpc' = [wpc EXCEPT ![p] = "copy"]
    BY <2>1, <2>2, <2>3, ProduceKeeps
  <2>4. CASE /\ MayEnd(p, since[p], seen[p]) /\ wpc' = [wpc EXCEPT ![p] = "end"]
             /\ UNCHANGED <<entry, seen>>
    BY <2>1, <2>2, <2>4, RangeEndKeeps
  <2> QED
    BY <2>1, <2>3, <2>4 DEF Advance, WGoTo
<1> QED
  BY <1>2, <1>3

LEMMA CopyAndMatchKeeps ==
  ASSUME DispatchInv, NEW p \in Tracers, CopyAndMatch(p), UNCHANGED <<vars, up>>
  PROVE  DispatchInv'
<1> DEFINE n == entry[p][1]
<1>1. PICK r \in Copies(p, entry[p]) :
        IF Match(r, event[p].data, event[p].runtime)
        THEN /\ rule' = [rule EXCEPT ![p] = r]
             /\ added' = [added EXCEPT ![p][n] = @ + 1]
             /\ wpc' = [wpc EXCEPT ![p] = "act"]
        ELSE wpc' = [wpc EXCEPT ![p] = "next"] /\ UNCHANGED <<rule, added>>
  BY DEF CopyAndMatch, AddEvent, WGoTo
<1>2. /\ wpc[p] = "copy" /\ next' = [next EXCEPT ![p] = 0]
      /\ UNCHANGED <<event, hasRules, since, seen, entry, taken, start, alive, done>>
  BY DEF CopyAndMatch
<1>3. WatcherTypes /\ WatcherOK(p) /\ ExactOK(p) /\ p \in DOMAIN rules
  BY <1>2 DEF DispatchInv, WatcherOK
<1>4. n \in Entries
  BY <1>3 DEF WatcherTypes
<1>5. /\ r.actions \in Seq(ActionNames)
      /\ r.actions = << >> \/ \E s \in InForce(p) : r.actions = s.actions
  BY <1>3, CopiesInForce DEF DispatchInv
<1>6. UNCHANGED <<rules, born, writes, writing, inTransit>> /\ InForce(p)' = InForce(p)
  BY SameTable DEF vars, tableVars
<1>7. \A q \in Tracers \ {p} : SameWatcher(q) /\ alive'[q] = alive[q]
  BY <1>1, <1>2, <1>3 DEF SameWatcher, WatcherTypes
<1>8. Len(rule[p].actions) \in Nat /\ Len(r.actions) \in Nat
  BY <1>3, <1>5, LenProperties DEF WatcherOK
<1>9. ASSUME Undisturbed(p)
      PROVE  /\ Exact(p) /\ n \in DOMAIN rules[p] /\ r = rules[p][n] /\ Table(p) = rules[p]
             /\ n \in Matching(p) <=> Match(r, event[p].data, event[p].runtime)
             /\ Table(p)' = Table(p) /\ Matching(p)' = Matching(p)
             /\ Produced(p)' = Produced(p) /\ EntriesOf(p)' = EntriesOf(p)
             /\ n \in Produced(p) /\ Handled(p) = Produced(p) \ {n}
             /\ added[p][n] = 0 /\ done[p][n] = << >>
  <2>1. Exact(p)
    BY <1>2, <1>3, <1>9 DEF ExactOK
  <2>2. entry[p] \in seen[p] /\ entry[p] \in EntriesOf(p) /\ inTransit = NoOne
    BY <1>2, <2>1 DEF Exact
  <2>3. n \in DOMAIN rules[p] /\ r = rules[p][n]
    BY <1>2, <2>1, <2>2, EntryNames DEF Copies, SlotInTransit
  <2>4. Table(p) = rules[p]
    BY <1>3 DEF Table
  <2>5. n \in Matching(p) <=> Match(r, event[p].data, event[p].runtime)
    BY <2>3, <2>4 DEF Matching
  <2>6. Table(p)' = Table(p)
    BY <1>6 DEF Table
  <2>7. Matching(p)' = Matching(p) /\ Produced(p)' = Produced(p) /\ EntriesOf(p)' = EntriesOf(p)
    BY <1>2, <1>6, <2>6 DEF Matching, Produced, EntriesOf
  <2>8. n \in Produced(p) /\ Handled(p) = Produced(p) \ {n}
    BY <1>2, <2>2 DEF Produced, Handled
  <2>9. DoneExactly(p, n, Handled(p))
    BY <1>2, <1>4, <2>1 DEF Exact
  <2>10. added[p][n] = 0 /\ done[p][n] = << >>
    BY <2>8, <2>9 DEF DoneExactly
  <2> QED
    BY <2>1, <2>3, <2>4, <2>5, <2>6, <2>7, <2>8, <2>10
<1>10. CASE Match(r, event[p].data, event[p].runtime)
  <2>1. /\ wpc'[p] = "act" /\ rule'[p] = r /\ next'[p] = 0
        /\ added'[p] = [added[p] EXCEPT ![n] = @ + 1]
    BY <1>1, <1>2, <1>3, <1>10 DEF WatcherTypes
  <2>2. WatcherTypes'
    <3>1. added' \in [Tracers -> [Entries -> Nat]]
      <4>1. added \in [Tracers -> [Entries -> Nat]]
        BY <1>3 DEF WatcherTypes
      <4>2. added' = [added EXCEPT ![p][n] = @ + 1]
        BY <1>1, <1>10
      <4> HIDE DEF n
      <4> QED
        BY <1>4, <4>1, <4>2
    <3>2. wpc' \in [Tracers -> Phases] /\ DOMAIN rule' = Tracers
      BY <1>1, <1>3, <1>10 DEF WatcherTypes, Phases
    <3> QED
      BY <1>2, <1>3, <3>1, <3>2 DEF WatcherTypes
  <2>3. WatcherOK(p)'
    BY <1>2, <1>3, <1>5, <1>6, <1>8, <2>1 DEF WatcherOK
  <2>4. ASSUME Undisturbed(p)' PROVE Exact(p)'
    <3>1. Undisturbed(p)
      BY <1>2, <1>6, <2>4 DEF Undisturbed
    <3>2. Handled(p)' = Handled(p)
      BY <1>2, <1>9, <2>1, <3>1 DEF Handled
    <3>3. \A m \in Entries : m = n \/ DoneExactly(p, m, Handled(p))'
      <4>1. \A m \in Entries : DoneExactly(p, m, Handled(p))
        BY <1>2, <1>9, <3>1 DEF Exact
      <4>2. \A m \in Entries \ {n} : added'[p][m] = added[p][m]
        BY <1>3, <2>1 DEF WatcherTypes
      <4> QED
        BY <1>2, <1>9, <3>1, <3>2, <4>1, <4>2 DEF DoneExactly
    <3>4. added'[p][n] = 1
      BY <1>3, <1>4, <1>9, <2>1, <3>1 DEF WatcherTypes
    <3>5. SubSeq(r.actions, 1, 0) = << >>
      BY <1>5, SubSeqEmpty
    <3> QED
      BY <1>2, <1>6, <1>9, <1>10, <2>1, <3>1, <3>3, <3>4, <3>5 DEF Exact
  <2>5. ExactOK(p)'
    BY <1>2, <1>3, <1>6, <2>4 DEF ExactOK
  <2> QED
    BY <1>7, <2>2, <2>3, <2>5, OtherWatchers
<1>11. CASE ~Match(r, event[p].data, event[p].runtime)
  <2>1. wpc'[p] = "next" /\ next'[p] = 0 /\ UNCHANGED <<rule, added>>
    BY <1>1, <1>2, <1>3, <1>11 DEF WatcherTypes
  <2>2. WatcherTypes'
    BY <1>1, <1>2, <1>3, <1>11 DEF WatcherTypes, Phases
  <2>3. WatcherOK(p)'
    BY <1>2, <1>3, <1>6, <1>8, <2>1 DEF WatcherOK
  <2>4. ASSUME Undisturbed(p)' PROVE Exact(p)'
    <3>1. Undisturbed(p)
      BY <1>2, <1>6, <2>4 DEF Undisturbed
    <3>2. Handled(p)' = Produced(p) /\ n \notin Matching(p)
      BY <1>9, <1>11, <2>1, <3>1 DEF Handled
    <3>3. \A m \in Entries : DoneExactly(p, m, Handled(p))'
      <4>1. \A m \in Entries : DoneExactly(p, m, Handled(p))
        BY <1>2, <1>9, <3>1 DEF Exact
      <4> QED
        BY <1>2, <1>9, <2>1, <3>1, <3>2, <4>1 DEF DoneExactly
    <3> QED
      BY <1>2, <1>6, <1>9, <2>1, <3>1, <3>3 DEF Exact
  <2>5. ExactOK(p)'
    BY <1>2, <1>3, <1>6, <2>4 DEF ExactOK
  <2> QED
    BY <1>7, <2>2, <2>3, <2>5, OtherWatchers
<1> QED
  BY <1>10, <1>11

LEMMA ActKeeps ==
  ASSUME DispatchInv, NEW p \in Tracers, Act(p), UNCHANGED <<vars, up>>
  PROVE  DispatchInv'
<1> DEFINE n == entry[p][1]
           k == next[p]
           acts == rule[p].actions
           a == acts[k + 1]
<1>1. /\ wpc[p] = "act" /\ k < Len(acts) /\ next' = [next EXCEPT ![p] = @ + 1]
      /\ \/ a \in Actions /\ done' = [done EXCEPT ![p][n] = Append(@, a)]
         \/ a \notin Actions /\ UNCHANGED done
      /\ UNCHANGED <<wpc, event, hasRules, since, seen, entry, rule, taken, start, alive,
                     added>>
  BY DEF Act, Did
<1>2. WatcherTypes /\ WatcherOK(p) /\ ExactOK(p) /\ p \in DOMAIN rules /\ TypeOK
  BY <1>1 DEF DispatchInv, WatcherOK, TableInv
<1>3. n \in Entries /\ k \in Nat
  BY <1>2 DEF WatcherTypes
<1>4. /\ acts \in Seq(ActionNames) /\ Len(acts) \in Nat
      /\ k + 1 \in 1..Len(acts) /\ a \in ActionNames
  <2>1. acts \in Seq(ActionNames)
    BY <1>2 DEF WatcherOK
  <2> HIDE DEF acts, k
  <2>2. Len(acts) \in Nat
    BY <2>1, LenProperties
  <2>3. k + 1 \in 1..Len(acts)
    BY <1>1, <1>3, <2>2
  <2> QED
    BY <2>1, <2>2, <2>3, ElementOfSeq
<1>5. UNCHANGED <<rules, born, writes, writing, inTransit>> /\ InForce(p)' = InForce(p)
  BY SameTable DEF vars, tableVars
<1>6. \A q \in Tracers \ {p} : SameWatcher(q) /\ alive'[q] = alive[q]
  BY <1>1, <1>2 DEF SameWatcher, WatcherTypes
<1>7. next'[p] = k + 1
  BY <1>1, <1>2 DEF WatcherTypes
<1>8. done[p][n] \in Seq(ActionNames)
  BY <1>2, <1>3 DEF WatcherTypes
<1>9. Append(done[p][n], a) \in Seq(ActionNames)
  BY <1>4, <1>8, AppendProperties
<1>10. /\ done'[p][n] = IF a \in Actions THEN Append(done[p][n], a) ELSE done[p][n]
       /\ \A m \in Entries \ {n} : done'[p][m] = done[p][m]
       /\ done' \in [Tracers -> [Entries -> Seq(ActionNames)]]
  <2>1. done \in [Tracers -> [Entries -> Seq(ActionNames)]]
    BY <1>2 DEF WatcherTypes
  <2>2. CASE a \in Actions
    <3>1. done' = [done EXCEPT ![p][n] = Append(@, a)]
      BY <1>1, <2>2
    <3> HIDE DEF n, a
    <3> QED
      BY <1>3, <1>9, <2>1, <2>2, <3>1
  <2>3. CASE a \notin Actions
    BY <1>1, <2>1, <2>3
  <2> QED
    BY <2>2, <2>3
<1>11. WatcherTypes'
  <2>1. next \in [Tracers -> Nat] /\ next' = [next EXCEPT ![p] = @ + 1]
    BY <1>1, <1>2 DEF WatcherTypes
  <2>2. next' \in [Tracers -> Nat]
    BY ONLY <2>1
  <2> QED
    BY <1>1, <1>2, <1>10, <2>2 DEF WatcherTypes
<1>12. WatcherOK(p)'
  <2>1. \E r \in alive[p] : acts = r.actions
    BY <1>1, <1>2, <1>4 DEF WatcherOK
  <2>2. a \in ToSet(acts)
    BY <1>4 DEF ToSet
  <2>3. \A x \in ToSet(done'[p][n]) : x = a \/ x \in ToSet(done[p][n])
    <3> DEFINE d == done[p][n]
    <3> HIDE DEF d, a
    <3>1. ToSet(Append(d, a)) \subseteq ToSet(d) \union {a}
      <4>1. d \in Seq(ActionNames)
        BY <1>8 DEF d
      <4>2. /\ Len(Append(d, a)) = Len(d) + 1 /\ Len(d) \in Nat
            /\ \A i \in 1..Len(d) : Append(d, a)[i] = d[i]
            /\ Append(d, a)[Len(d) + 1] = a
        BY <1>4, <4>1, AppendProperties, LenProperties
      <4>3. /\ DOMAIN Append(d, a) = 1..(Len(d) + 1) /\ DOMAIN d = 1..Len(d)
        BY <1>4, <4>1, <4>2, AppendProperties, LenProperties
      <4> QED
        BY <4>2, <4>3 DEF ToSet
    <3> QED
      BY <1>10, <3>1 DEF d
  <2>4. ASSUME NEW m \in Names, NEW x \in ToSet(done'[p][m])
        PROVE  \E r \in alive[p] : x \in ToSet(r.actions)
    <3>1. CASE x \in ToSet(done[p][m])
      BY <1>2, <3>1 DEF WatcherOK
    <3>2. CASE x = a
      BY <2>1, <2>2, <3>2
    <3>3. m \in Entries
      BY DEF Entries
    <3> QED
      BY <1>10, <2>3, <2>4, <3>1, <3>2, <3>3
  <2>5. k + 1 <= Len(acts)
    BY <1>4
  <2> QED
    BY <1>1, <1>2, <1>5, <1>7, <2>4, <2>5 DEF WatcherOK
<1>13. ASSUME Undisturbed(p)' PROVE Exact(p)'
  <2>1. Exact(p)
    BY <1>1, <1>2, <1>5, <1>13 DEF ExactOK, Undisturbed
  <2>2. Table(p)' = Table(p) /\ Matching(p)' = Matching(p) /\ Handled(p)' = Handled(p)
        /\ EntriesOf(p)' = EntriesOf(p)
    BY <1>1, <1>5 DEF Table, Matching, Handled, Produced, EntriesOf
  <2>3. n \in DOMAIN rules[p] /\ rule[p] = rules[p][n]
    BY <1>1, <2>1, EntryNames DEF Exact
  <2>4. a \in Actions
    <3>1. ToSet(acts) \subseteq Actions
      BY <1>2, <2>3 DEF TypeOK, IsTable, Accepted, ValidateTracersAndActions
    <3> QED
      BY <1>4, <3>1 DEF ToSet
  <2>5. done'[p][n] = SubSeq(acts, 1, k + 1)
    <3>1. done[p][n] = SubSeq(acts, 1, k)
      BY <1>1, <2>1 DEF Exact
    <3>2. done'[p][n] = Append(SubSeq(acts, 1, k), a)
      BY <1>10, <2>4, <3>1
    <3>3. SubSeq(acts, 1, k + 1) = Append(SubSeq(acts, 1, k), a)
      <4> HIDE DEF acts, k
      <4>1. SubSeq(acts, 1, k + 1) = SubSeq(acts, 1, k) \o <<a>>
        BY <1>3, <1>4, SubSeqRecursiveSecond
      <4>2. SubSeq(acts, 1, k) \in Seq(ActionNames)
        BY <1>3, <1>4, SubSeqProperties
      <4> QED
        BY <1>4, <4>1, <4>2, AppendIsConcat
    <3> QED
      BY <3>2, <3>3
  <2>6. \A m \in Entries : m = n \/ DoneExactly(p, m, Handled(p))'
    BY <1>1, <1>10, <2>1, <2>2 DEF Exact, DoneExactly
  <2> QED
    BY <1>1, <1>5, <1>7, <2>1, <2>2, <2>5, <2>6 DEF Exact
<1>14. ExactOK(p)'
  BY <1>1, <1>2, <1>5, <1>13 DEF ExactOK
<1> QED
  BY <1>6, <1>11, <1>12, <1>14, OtherWatchers

LEMMA ActEndKeeps ==
  ASSUME DispatchInv, NEW p \in Tracers, ActEnd(p), UNCHANGED <<vars, up>>
  PROVE  DispatchInv'
<1>1. /\ wpc[p] = "act" /\ next[p] = Len(rule[p].actions) /\ wpc' = [wpc EXCEPT ![p] = "next"]
      /\ UNCHANGED <<event, hasRules, since, seen, entry, rule, next, taken, alive, start,
                     added, done>>
  BY DEF ActEnd, WGoTo, eventHistory
<1>2. WatcherTypes /\ WatcherOK(p) /\ ExactOK(p) /\ p \in DOMAIN rules
  BY <1>1 DEF DispatchInv, WatcherOK
<1>3. WatcherTypes'
  BY <1>1, <1>2 DEF WatcherTypes, Phases
<1>4. /\ \A q \in Tracers \ {p} : SameWatcher(q) /\ alive'[q] = alive[q]
      /\ wpc'[p] = "next"
  BY <1>1, <1>2 DEF SameWatcher, WatcherTypes
<1>5. UNCHANGED <<rules, born, writes, writing, inTransit>> /\ InForce(p)' = InForce(p)
  BY SameTable DEF vars, tableVars
<1>6. WatcherOK(p)'
  BY <1>1, <1>2, <1>4, <1>5 DEF WatcherOK
<1>7. ASSUME Undisturbed(p)' PROVE Exact(p)'
  <2> DEFINE n == entry[p][1]
  <2>1. Exact(p)
    BY <1>1, <1>2, <1>5, <1>7 DEF ExactOK, Undisturbed
  <2>2. Table(p)' = rules[p] /\ Table(p) = rules[p] /\ Matching(p)' = Matching(p)
        /\ Produced(p)' = Produced(p) /\ EntriesOf(p)' = EntriesOf(p)
    BY <1>1, <1>2, <1>5 DEF Table, Matching, Produced, EntriesOf
  <2>3. Handled(p)' = Produced(p) /\ Handled(p) = Produced(p) \ {n}
    BY <1>1, <1>4, <2>2 DEF Handled
  <2>4. n \in Produced(p) /\ n \in Matching(p)
    BY <1>1, <2>1 DEF Exact, Produced
  <2>5. done[p][n] = rules[p][n].actions /\ added[p][n] = 1
    <3>1. rule[p].actions \in Seq(ActionNames)
      BY <1>2 DEF WatcherOK
    <3>2. SubSeq(rule[p].actions, 1, Len(rule[p].actions)) = rule[p].actions
      BY <3>1, SubSeqFull
    <3> QED
      BY <1>1, <2>1, <3>2 DEF Exact
  <2>6. \A m \in Entries : DoneExactly(p, m, Handled(p))'
    <3> SUFFICES ASSUME NEW m \in Entries
                 PROVE  DoneExactly(p, m, Handled(p))'
      OBVIOUS
    <3>1. CASE m = n
      BY <1>1, <2>2, <2>3, <2>4, <2>5, <3>1 DEF DoneExactly
    <3>2. CASE m # n
      <4>1. DoneExactly(p, m, Handled(p))
        BY <2>1, <1>1, <3>2 DEF Exact
      <4> QED
        BY <1>1, <2>2, <2>3, <3>2, <4>1 DEF DoneExactly
    <3> QED
      BY <3>1, <3>2
  <2> QED
    BY <1>1, <1>4, <1>5, <2>1, <2>2, <2>6 DEF Exact
<1>8. ExactOK(p)'
  BY <1>1, <1>2, <1>5, <1>7 DEF ExactOK
<1> QED
  BY <1>3, <1>4, <1>6, <1>8, OtherWatchers

LEMMA FinishKeeps ==
  ASSUME DispatchInv, NEW p \in Tracers, Finish(p), UNCHANGED <<vars, up>>
  PROVE  DispatchInv'
<1>1. /\ wpc' = [wpc EXCEPT ![p] = "watch"] /\ event' = [event EXCEPT ![p] = NoEvent]
      /\ hasRules' = [hasRules EXCEPT ![p] = FALSE] /\ since' = [since EXCEPT ![p] = 0]
      /\ seen' = [seen EXCEPT ![p] = {}] /\ entry' = [entry EXCEPT ![p] = <<NoEntry, 0>>]
      /\ rule' = [rule EXCEPT ![p] = ZeroRule] /\ next' = [next EXCEPT ![p] = 0]
      /\ start' = [start EXCEPT ![p] = NoOne] /\ alive' = [alive EXCEPT ![p] = {}]
      /\ added' = [added EXCEPT ![p] = NothingAdded]
      /\ done' = [done EXCEPT ![p] = NothingDone] /\ taken' = taken
  BY DEF Finish, WGoTo
<1>2. WatcherTypes
  BY DEF DispatchInv
<1>3. WatcherTypes'
  <2>1. "watch" \in Phases /\ NoEntry \in Entries
    BY DEF Phases, Entries
  <2>2. <<NoEntry, 0>> \in Entries \X Nat
    BY <2>1
  <2>3. /\ wpc' \in [Tracers -> Phases] /\ event' \in [Tracers -> Events \union {NoEvent}]
        /\ hasRules' \in [Tracers -> BOOLEAN] /\ since' \in [Tracers -> Nat]
        /\ entry' \in [Tracers -> Entries \X Nat]
    BY <1>1, <1>2, <2>1, <2>2 DEF WatcherTypes
  <2>4. /\ seen' \in [Tracers -> SUBSET (Names \X Nat)] /\ DOMAIN rule' = Tracers
        /\ next' \in [Tracers -> Nat] /\ start' \in [Tracers -> Nat \union {NoOne}]
        /\ DOMAIN alive' = Tracers
    BY <1>1, <1>2 DEF WatcherTypes
  <2>5. /\ added' \in [Tracers -> [Entries -> Nat]]
        /\ done' \in [Tracers -> [Entries -> Seq(ActionNames)]]
    BY <1>1, <1>2, NothingIsTyped DEF WatcherTypes
  <2> QED
    BY <1>1, <1>2, <2>3, <2>4, <2>5 DEF WatcherTypes
<1>4. \A q \in Tracers \ {p} : SameWatcher(q) /\ alive'[q] = alive[q]
  BY <1>1, <1>2 DEF SameWatcher, WatcherTypes
<1>5. /\ wpc'[p] = "watch" /\ hasRules'[p] = FALSE /\ rule'[p] = ZeroRule /\ next'[p] = 0
      /\ start'[p] = NoOne /\ added'[p] = NothingAdded /\ done'[p] = NothingDone
  BY <1>1, <1>2 DEF WatcherTypes
<1>6. WatcherOK(p)'
  <2>1. ZeroRule.actions \in Seq(ActionNames) /\ Len(ZeroRule.actions) = 0
    BY EmptySeq DEF ZeroRule
  <2>2. \A n \in Names : ToSet(done'[p][n]) = {}
    BY <1>5, NothingIsTyped DEF Entries
  <2> QED
    BY <1>5, <2>1, <2>2 DEF WatcherOK
<1>7. ExactOK(p)'
  BY <1>5, DispatchAssumption DEF ExactOK, DispatchAssumption
<1> QED
  BY <1>3, <1>4, <1>6, <1>7, OtherWatchers

LEMMA AbortKeeps ==
  ASSUME DispatchInv, NEW p \in Tracers, Abort(p), UNCHANGED vars
  PROVE  DispatchInv'
<1>1. /\ up' = FALSE
      /\ UNCHANGED <<wpc, event, hasRules, since, seen, entry, rule, next, taken, start, alive,
                     added, done>>
  BY DEF Abort, dispatchVars, watchVars, eventHistory
<1>2. WatcherTypes' /\ \A q \in Tracers : SameWatcher(q)
  BY <1>1 DEF DispatchInv, WatcherTypes, SameWatcher
<1>3. InForce(p)' = InForce(p) /\ UNCHANGED <<rules, born, writes, writing, inTransit>>
  BY SameTable DEF vars, tableVars
<1>4. WatcherOK(p)'
  BY <1>1, <1>3 DEF DispatchInv, WatcherOK
<1>5. ExactOK(p)'
  <2>1. ExactOK(p) /\ SameWatcher(p)
    BY <1>2 DEF DispatchInv
  <2> QED
    BY <1>3, <2>1, SameExact DEF ExactOK, Undisturbed, SameWatcher
<1> QED
  BY <1>1, <1>2, <1>4, <1>5, OtherWatchers

-----------------------------------------------------------------------------
(* The theorems.                                                           *)

LEMMA DispatchBegins == DispatchInit => DispatchInv
<1> SUFFICES ASSUME DispatchInit
             PROVE  DispatchInv
  OBVIOUS
<1> USE DEF DispatchInit
<1>1. TableInv
  BY InitIsClean
<1>2. WatcherTypes
  <2>1. MaxEvents \in Nat /\ NoEntry \in Entries
    BY DispatchAssumption DEF DispatchAssumption, Entries
  <2>2. taken \in 0..MaxEvents
    BY <2>1
  <2>3. <<NoEntry, 0>> \in Entries \X Nat
    BY <2>1
  <2> QED
    BY <2>2, <2>3, NothingIsTyped DEF WatcherTypes, Phases
<1>3. RulesOK
  BY RequestsListActions DEF Init, RulesOK
<1>4. TransitOK
  BY DEF Init, TransitOK
<1>5. ASSUME NEW p \in Tracers
      PROVE  WatcherOK(p) /\ ExactOK(p)
  <2>1. ZeroRule.actions \in Seq(ActionNames) /\ Len(ZeroRule.actions) = 0
    BY EmptySeq DEF ZeroRule
  <2>2. \A n \in Names : ToSet(NothingDone[n]) = {}
    BY NothingIsTyped DEF Entries
  <2>3. /\ wpc[p] = "watch" /\ ~hasRules[p] /\ rule[p] = ZeroRule /\ next[p] = 0
        /\ added[p] = NothingAdded /\ done[p] = NothingDone /\ start[p] = NoOne
    OBVIOUS
  <2> HIDE DEF DispatchInit
  <2>4. WatcherOK(p)
    BY <2>1, <2>2, <2>3 DEF WatcherOK
  <2>5. ExactOK(p)
    BY <2>3, DispatchAssumption DEF ExactOK, DispatchAssumption
  <2> QED
    BY <2>4, <2>5
<1> QED
  BY <1>1, <1>2, <1>3, <1>4, <1>5 DEF DispatchInv

LEMMA DispatchKeeps == DispatchInv /\ [DispatchNext]_allVars => DispatchInv'
<1> SUFFICES ASSUME DispatchInv, [DispatchNext]_allVars
             PROVE  DispatchInv'
  OBVIOUS
<1>1. CASE UNCHANGED allVars
  <2>1. /\ UNCHANGED vars /\ UNCHANGED up
        /\ UNCHANGED <<wpc, event, hasRules, since, seen, entry, rule, next, taken, start,
                       alive, added, done>>
    BY <1>1 DEF allVars, dispatchVars, watchVars, eventHistory
  <2>2. TableInv' /\ RulesOK' /\ TransitOK' /\ \A q : InForce(q)' = InForce(q)
    BY <2>1, SameTable
  <2>3. WatcherTypes' /\ \A q \in Tracers : SameWatcher(q)
    BY <2>1 DEF DispatchInv, WatcherTypes, SameWatcher
  <2>4. UNCHANGED <<rules, born, writes, writing, inTransit>>
    BY <2>1 DEF vars, tableVars
  <2>5. ASSUME NEW q \in Tracers PROVE WatcherOK(q)' /\ ExactOK(q)'
    <3>1. WatcherOK(q) /\ ExactOK(q) /\ SameWatcher(q)
      BY <2>3 DEF DispatchInv
    <3>2. WatcherOK(q)'
      BY <2>1, <2>2, <2>4, <3>1 DEF WatcherOK
    <3>3. ExactOK(q)'
      BY <2>4, <3>1, SameExact DEF ExactOK, Undisturbed, SameWatcher
    <3> QED
      BY <3>2, <3>3
  <2> QED
    BY <2>2, <2>3, <2>5 DEF DispatchInv
<1>2. CASE /\ HandlerStep
           /\ alive' = [p \in Tracers |->
                          IF wpc[p] = "watch" THEN {} ELSE alive[p] \union InForce(p)']
           /\ UNCHANGED <<up, dispatchVars>>
  BY <1>2, HandlerKeeps
<1>3. ASSUME NEW p \in Tracers, WatchEvent(p) \/ WatcherStep(p), UNCHANGED <<vars, up>>
      PROVE  DispatchInv'
  BY <1>3, WatchEventKeeps, LookupKeeps, NoRulesKeeps, SomeRulesKeeps, RangeKeeps,
     CopyAndMatchKeeps, ActKeeps, ActEndKeeps, FinishKeeps DEF WatcherStep
<1>4. ASSUME NEW p \in Tracers, Abort(p), UNCHANGED vars
      PROVE  DispatchInv'
  BY <1>4, AbortKeeps
<1> QED
  BY <1>1, <1>2, <1>3, <1>4 DEF DispatchNext

LEMMA DispatchInvHolds == DispatchSpec => []DispatchInv
BY DispatchBegins, DispatchKeeps, PTL DEF DispatchSpec

\* The watchers keep their types, and one that ranges over a tracer's rules does so
\* over a map that is there, whatever the handlers do meanwhile.
THEOREM WatchersTyped == DispatchSpec => []DispatchTypeOK
<1>1. ASSUME DispatchInv
      PROVE  DispatchTypeOK
  <2>1. WatcherTypes /\ \A p \in Tracers : WatcherOK(p)
    BY <1>1 DEF DispatchInv
  <2>2. \A p \in Tracers : next[p] \in 0..Len(rule[p].actions)
    <3> TAKE p \in Tracers
    <3>1. next[p] \in Nat /\ next[p] <= Len(rule[p].actions)
      BY <2>1 DEF WatcherTypes, WatcherOK
    <3>2. Len(rule[p].actions) \in Nat
      BY <2>1, LenProperties DEF WatcherOK
    <3> QED
      BY <3>1, <3>2
  <2>3. \A p \in Tracers : entry[p] \in (Names \union {NoEntry}) \X Nat
                          /\ seen[p] \subseteq Names \X Nat
    BY <2>1 DEF WatcherTypes, Entries
  <2>4. \A p \in Tracers : wpc[p] \in {"range", "next", "copy", "act"} =>
          p \in DOMAIN rules /\ event[p].data # NoOne
    BY <2>1 DEF WatcherOK
  <2> QED
    BY <2>1, <2>2, <2>3, <2>4 DEF DispatchTypeOK, WatcherTypes, Phases
<1> QED
  BY <1>1, DispatchInvHolds, PTL

\* No action is performed but one of a rule that was in force at some moment since
\* the event was taken, although the watchers read the table without the mutex and
\* may copy a slot while it is written.
THEOREM OnlyActionsInForce == DispatchSpec => []ActionsInForce
<1>1. DispatchInv => ActionsInForce
  BY DEF DispatchInv, WatcherOK, ActionsInForce
<1> QED
  BY <1>1, DispatchInvHolds, PTL

\* An event that no write overtakes is queued, and acted on, exactly as the rules
\* say, whatever order the range takes them in.
THEOREM DispatchIsExact == DispatchSpec => []ExactDispatch
<1>1. ASSUME DispatchInv
      PROVE  ExactDispatch
  <2> SUFFICES ASSUME NEW p \in Tracers, wpc[p] = "end", Undisturbed(p)
               PROVE  IF DOMAIN Table(p) = {}
                      THEN /\ added[p] = [NothingAdded EXCEPT ![NoEntry] = 1]
                           /\ done[p] = [NothingDone EXCEPT ![NoEntry] = <<"stdout">>]
                      ELSE \A n \in Names \union {NoEntry} :
                             /\ added[p][n] = IF n \in Matching(p) THEN 1 ELSE 0
                             /\ done[p][n] = IF n \in Matching(p) THEN Table(p)[n].actions
                                            ELSE << >>
    BY DEF ExactDispatch, Table, Matching
  <2>1. Exact(p)
    BY <1>1 DEF DispatchInv, ExactOK
  <2> QED
    BY <2>1 DEF Exact, DoneExactly, Entries
<1> QED
  BY <1>1, DispatchInvHolds, PTL
=============================================================================
