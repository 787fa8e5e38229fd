------------------------------ MODULE RuleReader ------------------------------
(***************************************************************************)
(* What a goroutine sees that ranges over a tracer's rules without the     *)
(* mutex, as the Go runtime (1.11, .travis.yml) does it:                   *)
(*   - moving to the next entry while the map's flag is up aborts the      *)
(*     process;                                                            *)
(*   - an entry that is there from the start of the range to its turn is   *)
(*     produced once, one that is added meanwhile may be, one that is      *)
(*     removed before its turn is not;                                     *)
(*   - the rule is copied out of its slot after the entry was chosen: by   *)
(*     then the slot may be in transit, cleared, or used for another.      *)
(* An entry is a name with the stamp of the write that inserted it.        *)
(***************************************************************************)
EXTENDS RuleTable

EntriesOf(p) == {<<n, born[p][n]>> : n \in DOMAIN rules[p]}

\* The range, begun after `begun` writes, can end when it has produced these.
MayEnd(p, begun, produced) ==
  \A e \in EntriesOf(p) : e[2] <= begun => e \in produced

\* What a copy of a slot in transit may be, field by field.
Mix(old, new) ==
  [name : {old.name, new.name}, tracer : {old.tracer, new.tracer},
   filters : {old.filters, new.filters}, runtimes : {old.runtimes, new.runtimes},
   actions : {old.actions, new.actions}]

SlotInTransit(p, e) ==
  /\ inTransit # NoOne
  /\ inTransit.tracer = p
  /\ inTransit.name = e[1] \/ e \notin EntriesOf(p)

\* Faulty variant of Copies: the actions are resolved when the daemon starts.
CopiesFirstActions(p, e) ==
  IF e \notin EntriesOf(p) THEN {ZeroRule}
  ELSE IF p \in DOMAIN InitialRules /\ e[1] \in DOMAIN InitialRules[p]
  THEN {[rules[p][e[1]] EXCEPT !.actions = InitialRules[p][e[1]].actions]}
  ELSE {rules[p][e[1]]}

\* What `rule` may be when the range has produced the entry e.
Copies(p, e) ==
  IF SlotInTransit(p, e) THEN Mix(inTransit.old, inTransit.new)
  ELSE IF e \in EntriesOf(p) THEN {rules[p][e[1]]}
  ELSE {ZeroRule} \union {rules[p][n] : n \in DOMAIN rules[p]}

\* A slice header of which one half is old and one new may point nowhere: using
\* the copy is a fault, which aborts the process as well.
TornHeader(p, e) ==
  /\ SlotInTransit(p, e)
  /\ \/ Len(inTransit.old.actions) # Len(inTransit.new.actions)
     \/ Len(inTransit.old.runtimes) # Len(inTransit.new.runtimes)
=============================================================================
