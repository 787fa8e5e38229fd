------------------------------ MODULE MatchLoop ------------------------------
(***************************************************************************)
(* rules.Match (rules/rules.go), loop by loop: the early returns, the      *)
(* range over ContainerRuntimes, and the range over the event's Data,      *)
(* which Go makes in any order.  Its result is shown to be Rules!Match     *)
(* whatever the order and whichever return is taken.                       *)
(***************************************************************************)
EXTENDS Rules

CONSTANTS
  MatchRules,    \* the rules it is called with
  Datas,         \* the event data it is called with
  PidRuntimes    \* the container runtimes it is called with

\* A filter maps each of its keys to a list of values.
ASSUME MatchLoopAssumption ==
  \A r \in MatchRules :
    /\ r.runtimes \in Seq(STRING)
    /\ \A k \in DOMAIN r.filters : r.filters[k] \in Seq(Seq(STRING))

VARIABLES
  rule, data, pidRuntime,   \* the arguments
  pc,                       \* the loop the call is in
  i,                        \* how many elements of the list have been ranged over
  matchedRuntime,
  todo,                     \* the keys of data not ranged over yet
  key,                      \* the key of data whose filter is ranged over
  result

args == <<rule, data, pidRuntime>>
vars == <<rule, data, pidRuntime, pc, i, matchedRuntime, todo, key, result>>


Init ==
  /\ rule \in MatchRules
  /\ data \in Datas
  /\ pidRuntime \in PidRuntimes
  /\ pc = "start"
  /\ i = 0
  /\ matchedRuntime = FALSE
  /\ todo = {}
  /\ key = ""
  /\ result = FALSE

Return(r) ==
  /\ pc' = "returned"
  /\ result' = r
  /\ UNCHANGED <<args, i, matchedRuntime, todo, key>>

\* Return early if there is nothing to filter on.
Start ==
  /\ pc = "start"
  /\ IF rule.runtimes = << >> /\ DOMAIN rule.filters = {}
     THEN Return(TRUE)
     ELSE /\ pc' = "runtimes"
          /\ UNCHANGED <<args, i, matchedRuntime, todo, key, result>>

\* Faulty variant of RuntimeStep: it returns on a runtime without looking at
\* the filters.
RuntimeStepForgetsFilters ==
  /\ pc = "runtimes"
  /\ ~matchedRuntime
  /\ i < Len(rule.runtimes)
  /\ IF rule.runtimes[i + 1] = pidRuntime
     THEN Return(TRUE)
     ELSE /\ i' = i + 1
          /\ UNCHANGED <<args, pc, matchedRuntime, todo, key, result>>

\* One turn of the loop over rule.ContainerRuntimes.
RuntimeStep ==
  /\ pc = "runtimes"
  /\ ~matchedRuntime
  /\ i < Len(rule.runtimes)
  /\ IF rule.runtimes[i + 1] # pidRuntime
     THEN /\ i' = i + 1
          /\ UNCHANGED <<args, pc, matchedRuntime, todo, key, result>>
     ELSE IF DOMAIN rule.filters = {}
     THEN Return(TRUE)
     ELSE /\ matchedRuntime' = TRUE
          /\ UNCHANGED <<args, pc, i, todo, key, result>>

\* After that loop: the two early returns, or on to the data.
RuntimesEnd ==
  /\ pc = "runtimes"
  /\ matchedRuntime \/ i = Len(rule.runtimes)
  /\ IF rule.runtimes # << >> /\ ~matchedRuntime
     THEN Return(FALSE)
     ELSE IF DOMAIN rule.filters = {}
     THEN Return(TRUE)
     ELSE /\ pc' = "data"
          /\ todo' = DOMAIN data
          /\ UNCHANGED <<args, i, matchedRuntime, key, result>>

\* One turn of the loop over data, in any order; a key without a filter is
\* skipped.
DataStep ==
  /\ pc = "data"
  /\ \E k \in todo :
       /\ todo' = todo \ {k}
       /\ IF k \in DOMAIN rule.filters
          THEN pc' = "values" /\ key' = k /\ i' = 0
          ELSE UNCHANGED <<pc, key, i>>
  /\ UNCHANGED <<args, matchedRuntime, result>>

\* One turn of the loop over the values of a filter, or its end.
ValueStep ==
  /\ pc = "values"
  /\ IF i = Len(rule.filters[key])
     THEN pc' = "data" /\ UNCHANGED <<args, i, matchedRuntime, todo, key, result>>
     ELSE IF StringContains(data[key], rule.filters[key][i + 1])
     THEN Return(TRUE)
     ELSE i' = i + 1 /\ UNCHANGED <<args, pc, matchedRuntime, todo, key, result>>

DataEnd ==
  /\ pc = "data"
  /\ todo = {}
  /\ Return(FALSE)

Next == Start \/ RuntimeStep \/ RuntimesEnd \/ DataStep \/ ValueStep \/ DataEnd

Spec == Init /\ [][Next]_vars

-----------------------------------------------------------------------------
\* The variables have their types, and an index stays within its list.
TypeOK ==
  /\ rule \in MatchRules /\ data \in Datas /\ pidRuntime \in PidRuntimes
  /\ pc \in {"start", "runtimes", "data", "values", "returned"}
  /\ i \in Nat
  /\ matchedRuntime \in BOOLEAN
  /\ todo \subseteq DOMAIN data
  /\ result \in BOOLEAN
  /\ pc = "runtimes" => i <= Len(rule.runtimes)
  /\ pc = "values" => /\ key \in DOMAIN data \intersect DOMAIN rule.filters
                      /\ i <= Len(rule.filters[key])

\* Whatever order Data is ranged over in and whichever return is taken, the
\* call returns TRUE exactly when the rule matches: a runtime of its list and a
\* value of its filters, each if it has any (rules.go:108-153).
ReturnsMatch ==
  pc = "returned" => result = Match(rule, data, pidRuntime)
=============================================================================
