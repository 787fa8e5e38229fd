------------------------------- MODULE Dispatch -------------------------------
(***************************************************************************)
(* The watcher goroutines of NewServer (api/api.go), one per tracer: take  *)
(* an event, look up the tracer's rules, and for each rule that matches    *)
(* add the event to the live-trace queue and perform the rule's actions.   *)
(*                                                                         *)
(* A watcher takes no lock.  It looks its tracer up in the outer map,      *)
(* tests the length of the tracer's map, and ranges over that map while    *)
(* CreateRule and RemoveRule (module RuleTable) write it; what it sees     *)
(* then is in module RuleReader.  Looking up while the outer map's flag is *)
(* up aborts the process too: `up` becomes FALSE.                          *)
(* What addEvent does with an event is in module LiveTrace.                *)
(***************************************************************************)
EXTENDS RuleReader

CONSTANTS
  Events,        \* events: records of data and runtime; data = NoOne is nil
  MaxEvents      \* bound: the number of events of all tracers

\* The rules name their actions in a list (api.proto), whichever way they came.
ASSUME DispatchAssumption ==
  /\ MaxEvents \in Nat
  /\ NoOne \notin Nat
  /\ \A r \in Requests : r.op = "create" => r.rule.actions \in Seq(STRING)
  /\ \A p \in DOMAIN InitialRules : \A n \in DOMAIN InitialRules[p] :
       InitialRules[p][n].actions \in Seq(STRING)

VARIABLES
  up,            \* the daemon has not been aborted by the Go runtime
  wpc,           \* program counter of the tracer's watcher
  event,         \* the event it handles
  hasRules,      \* progRules is not nil
  since,         \* `writes` when the range over progRules began
  seen,          \* the entries the range has produced, with their stamps
  entry,         \* the name of the entry it is at, with its stamp
  rule,          \* its copy of the entry's rule
  next,          \* how many of the rule's actions have been handled
  taken,         \* history: how many events there have been
  start,         \* history: `writes` when the event was taken, or NoOne if a
                 \* map was being written just then
  alive,         \* history: the tracer's rules in force since the event was taken
  added,         \* history: how often the event was queued for each name
  done           \* history: the actions performed on the event for each name

watchVars == <<wpc, event, hasRules, since, seen, entry, rule, next>>
eventHistory == <<start, added, done>>
dispatchVars == <<watchVars, taken, eventHistory>>
allVars == <<vars, up, dispatchVars, alive>>

\* The rules of p in force, as the clients see it: those of the last handler
\* that released the mutex, and the one a handler is about to create.
InForce(p) ==
  (IF p \in DOMAIN committed THEN {committed[p][n] : n \in DOMAIN committed[p]} ELSE {})
    \union {req[c].rule : c \in {d \in Callers :
              pc[d] \in {"assignOuter", "assign", "copy"} /\ req[d].rule.tracer = p}}

NoEvent == [data |-> NoOne, runtime |-> ""]

\* Instead of a name, for what is done when there are no rules.
NoEntry == ""

NothingAdded == [n \in Names \union {NoEntry} |-> 0]
NothingDone == [n \in Names \union {NoEntry} |-> << >>]

DispatchInit ==
  /\ Init
  /\ up = TRUE
  /\ wpc = [p \in Tracers |-> "watch"]
  /\ event = [p \in Tracers |-> NoEvent]
  /\ hasRules = [p \in Tracers |-> FALSE]
  /\ since = [p \in Tracers |-> 0]
  /\ seen = [p \in Tracers |-> {}]
  /\ entry = [p \in Tracers |-> <<NoEntry, 0>>]
  /\ rule = [p \in Tracers |-> ZeroRule]
  /\ next = [p \in Tracers |-> 0]
  /\ taken = 0
  /\ start = [p \in Tracers |-> NoOne]
  /\ alive = [p \in Tracers |-> {}]
  /\ added = [p \in Tracers |-> NothingAdded]
  /\ done = [p \in Tracers |-> NothingDone]

-----------------------------------------------------------------------------
WGoTo(p, l) == wpc' = [wpc EXCEPT ![p] = l]

Did(p, n, a) == done' = [done EXCEPT ![p][n] = Append(@, a)]
AddEvent(p, n) == added' = [added EXCEPT ![p][n] = @ + 1]

\* Faulty variant of WatchEvent: an event without Data is handled.
WatchEventKeepsNil(p) ==
  /\ wpc[p] = "watch"
  /\ taken < MaxEvents
  /\ taken' = taken + 1
  /\ WGoTo(p, "lookup")
  /\ \E e \in Events : event' = [event EXCEPT ![p] = e]
  /\ start' = [start EXCEPT ![p] = writes]
  /\ alive' = [alive EXCEPT ![p] = InForce(p)]
  /\ UNCHANGED <<hasRules, since, seen, entry, rule, next, added, done>>

\* WatchEvent returns; a nil event, or one without Data, is dropped.  (The
\* container runtime and ID are filled in here if the tracer left them empty.)
WatchEvent(p) ==
  /\ wpc[p] = "watch"
  /\ taken < MaxEvents
  /\ taken' = taken + 1
  /\ \E e \in Events :
       IF e.data = NoOne
       THEN UNCHANGED <<wpc, event, start, alive>>
       ELSE /\ WGoTo(p, "lookup")
            /\ event' = [event EXCEPT ![p] = e]
            /\ start' = [start EXCEPT ![p] =
                           IF writing = NoOne /\ inTransit = NoOne THEN writes ELSE NoOne]
            /\ alive' = [alive EXCEPT ![p] = InForce(p)]
  /\ UNCHANGED <<hasRules, since, seen, entry, rule, next, added, done>>

\* progRules := server.rules[p]
Lookup(p) ==
  /\ wpc[p] = "lookup"
  /\ writing # "outer"
  /\ hasRules' = [hasRules EXCEPT ![p] = p \in DOMAIN rules]
  /\ WGoTo(p, "len")
  /\ UNCHANGED <<event, since, seen, entry, rule, next, taken, alive, eventHistory>>

HasNoRules(p) == hasRules[p] => DOMAIN rules[p] = {}

\* len(progRules) < 1: print the event, and queue it.
NoRules(p) ==
  /\ wpc[p] = "len"
  /\ HasNoRules(p)
  /\ Did(p, NoEntry, "stdout")
  /\ AddEvent(p, NoEntry)
  /\ WGoTo(p, "end")
  /\ UNCHANGED <<event, hasRules, since, seen, entry, rule, next, taken, start, alive>>

SomeRules(p) ==
  /\ wpc[p] = "len"
  /\ ~HasNoRules(p)
  /\ WGoTo(p, "range")
  /\ UNCHANGED <<event, hasRules, since, seen, entry, rule, next, taken, alive, eventHistory>>

\* The range moves on: to an entry it has not produced, or to its end if it
\* has produced all that have been there since it began.
Advance(p, begun, produced) ==
  \/ \E e \in EntriesOf(p) \ produced :
       /\ entry' = [entry EXCEPT ![p] = e]
       /\ seen' = [seen EXCEPT ![p] = produced \union {e}]
       /\ WGoTo(p, "copy")
  \/ /\ MayEnd(p, begun, produced)
     /\ WGoTo(p, "end")
     /\ UNCHANGED <<entry, seen>>

RangeBegin(p) ==
  /\ wpc[p] = "range"
  /\ writing # p \/ DOMAIN rules[p] = {}
  /\ since' = [since EXCEPT ![p] = writes]
  /\ Advance(p, writes, {})
  /\ UNCHANGED <<event, hasRules, rule, next, taken, alive, eventHistory>>

RangeNext(p) ==
  /\ wpc[p] = "next"
  /\ writing # p
  /\ Advance(p, since[p], seen[p])
  /\ UNCHANGED <<event, hasRules, since, rule, next, taken, alive, eventHistory>>

\* Faulty variant of CopyAndMatch: `break` for `continue` on no match.
CopyAndMatchBreaks(p) ==
  /\ wpc[p] = "copy"
  /\ \E r \in Copies(p, entry[p]) :
       IF Match(r, event[p].data, event[p].runtime)
       THEN /\ rule' = [rule EXCEPT ![p] = r]
            /\ AddEvent(p, entry[p][1])
            /\ WGoTo(p, "act")
       ELSE WGoTo(p, "end") /\ UNCHANGED <<rule, added>>
  /\ next' = [next EXCEPT ![p] = 0]
  /\ UNCHANGED <<event, hasRules, since, seen, entry, taken, start, alive, done>>

\* The rule is copied and matched; an event that matches is queued.
CopyAndMatch(p) ==
  /\ wpc[p] = "copy"
  /\ \E r \in Copies(p, entry[p]) :
       IF Match(r, event[p].data, event[p].runtime)
       THEN /\ rule' = [rule EXCEPT ![p] = r]
            /\ AddEvent(p, entry[p][1])
            /\ WGoTo(p, "act")
       ELSE WGoTo(p, "next") /\ UNCHANGED <<rule, added>>
  /\ next' = [next EXCEPT ![p] = 0]
  /\ UNCHANGED <<event, hasRules, since, seen, entry, taken, start, alive, done>>

\* The rule's actions, in order; one that does not exist is skipped.
Act(p) ==
  /\ wpc[p] = "act"
  /\ next[p] < Len(rule[p].actions)
  /\ next' = [next EXCEPT ![p] = @ + 1]
  /\ LET a == rule[p].actions[next[p] + 1] IN
       IF a \in Actions THEN Did(p, entry[p][1], a) ELSE UNCHANGED done
  /\ UNCHANGED <<wpc, event, hasRules, since, seen, entry, rule, taken, start, alive, added>>

ActEnd(p) ==
  /\ wpc[p] = "act"
  /\ next[p] = Len(rule[p].actions)
  /\ WGoTo(p, "next")
  /\ UNCHANGED <<event, hasRules, since, seen, entry, rule, next, taken, alive, eventHistory>>

\* Back to WatchEvent.
Finish(p) ==
  /\ wpc[p] = "end"
  /\ WGoTo(p, "watch")
  /\ event' = [event EXCEPT ![p] = NoEvent]
  /\ hasRules' = [hasRules EXCEPT ![p] = FALSE]
  /\ since' = [since EXCEPT ![p] = 0]
  /\ seen' = [seen EXCEPT ![p] = {}]
  /\ entry' = [entry EXCEPT ![p] = <<NoEntry, 0>>]
  /\ rule' = [rule EXCEPT ![p] = ZeroRule]
  /\ next' = [next EXCEPT ![p] = 0]
  /\ start' = [start EXCEPT ![p] = NoOne]
  /\ alive' = [alive EXCEPT ![p] = {}]
  /\ added' = [added EXCEPT ![p] = NothingAdded]
  /\ done' = [done EXCEPT ![p] = NothingDone]
  /\ UNCHANGED taken

\* "concurrent map read and map write", "concurrent map iteration and map
\* write", and a fault on a slice header of which one half is old, one new.
Abort(p) ==
  /\ \/ wpc[p] = "lookup" /\ writing = "outer"
     \/ wpc[p] = "range" /\ writing = p /\ DOMAIN rules[p] # {}
     \/ wpc[p] = "next" /\ writing = p
     \/ wpc[p] = "copy" /\ TornHeader(p, entry[p])
  /\ up' = FALSE
  /\ UNCHANGED <<dispatchVars, alive>>

-----------------------------------------------------------------------------
WatcherStep(p) ==
  \/ Lookup(p) \/ NoRules(p) \/ SomeRules(p) \/ RangeBegin(p) \/ RangeNext(p)
  \/ CopyAndMatch(p) \/ Act(p) \/ ActEnd(p) \/ Finish(p)

HandlerStep == \E c \in Callers : Call(c) \/ Lock(c) \/ Locked(c)

DispatchNext ==
  /\ up
  /\ \/ /\ HandlerStep
        /\ alive' = [p \in Tracers |->
                       IF wpc[p] = "watch" THEN {} ELSE alive[p] \union InForce(p)']
        /\ UNCHANGED <<up, dispatchVars>>
     \/ /\ \E p \in Tracers : (WatchEvent(p) \/ WatcherStep(p)) /\ UNCHANGED up
        /\ UNCHANGED vars
     \/ /\ \E p \in Tracers : Abort(p)
        /\ UNCHANGED vars

DispatchSpec == DispatchInit /\ [][DispatchNext]_allVars

-----------------------------------------------------------------------------
(* Properties.                                                             *)

\* The variables of the watchers have their types; a watcher that ranges does
\* so over a map that is there.
DispatchTypeOK ==
  /\ up \in BOOLEAN
  /\ wpc \in [Tracers -> {"watch", "lookup", "len", "range", "next", "copy", "act", "end"}]
  /\ event \in [Tracers -> Events \union {NoEvent}]
  /\ hasRules \in [Tracers -> BOOLEAN]
  /\ since \in [Tracers -> Nat]
  /\ \A p \in Tracers : entry[p] \in (Names \union {NoEntry}) \X Nat
  /\ \A p \in Tracers : seen[p] \subseteq Names \X Nat
  /\ \A p \in Tracers : next[p] \in 0..Len(rule[p].actions)
  /\ taken \in 0..MaxEvents
  /\ \A p \in Tracers : wpc[p] \in {"range", "next", "copy", "act"} =>
       p \in DOMAIN rules /\ event[p].data # NoOne

\* No map was written since the watcher took its event.
Undisturbed(p) == start[p] = writes

\* An event that no write overtakes is handled exactly: with no rules it is
\* printed once and queued once; otherwise it is queued once for each rule that
\* matches and for no other, and that rule's actions, all of them, in order, are
\* what is performed, whatever order the map is ranged over (api.go:85-115).
ExactDispatch ==
  \A p \in Tracers : wpc[p] = "end" /\ Undisturbed(p) =>
    LET table == IF p \in DOMAIN rules THEN rules[p] ELSE EmptyMap
        matching == {n \in DOMAIN table : Match(table[n], event[p].data, event[p].runtime)}
    IN IF DOMAIN table = {}
       THEN /\ added[p] = [NothingAdded EXCEPT ![NoEntry] = 1]
            /\ done[p] = [NothingDone EXCEPT ![NoEntry] = <<"stdout">>]
       ELSE \A n \in Names \union {NoEntry} :
              /\ added[p][n] = IF n \in matching THEN 1 ELSE 0
              /\ done[p][n] = IF n \in matching THEN table[n].actions ELSE << >>

\* A rule's actions are only performed if the rule was in force at some moment
\* since the event was taken: once RemoveRule has returned, no later event
\* triggers the rule, and a rule is not acted on before it is created, although
\* watchers read the table without the lock.
ActionsInForce ==
  \A p \in Tracers, n \in Names : \A a \in ToSet(done[p][n]) :
    \E r \in alive[p] : a \in ToSet(r.actions)

-----------------------------------------------------------------------------
(* What the repository says of the program and the code does not do.       *)

\* "rulesMutex locks the buffer for every transaction." (api.go:20): no reader
\* of the table can meet a write and be aborted by the runtime.
DaemonStaysUp == up
=============================================================================
