--------------------------- MODULE MatchLoop_proofs ---------------------------
(***************************************************************************)
(* The proof that rules.Match, loop by loop, computes Rules!Match, for any *)
(* rules, any event and any order of the event's data.                     *)
(***************************************************************************)
EXTENDS MatchLoop, SequenceTheorems, TLAPS

\* No value of the filter on key k is in the event's value for it.
NotFoundFor(k) ==
  k \in DOMAIN rule.filters =>
    \A j \in 1..Len(rule.filters[k]) : ~StringContains(data[k], rule.filters[k][j])

\* In the first loop: what has been ranged over did not match, and a match is
\* only remembered when there are filters to look at.
RuntimesInv ==
  pc \in {"start", "runtimes"} =>
    /\ i \in 0..Len(rule.runtimes)
    /\ ~matchedRuntime => \A j \in 1..i : rule.runtimes[j] # pidRuntime
    /\ matchedRuntime => pidRuntime \in ToSet(rule.runtimes) /\ DOMAIN rule.filters # {}
    /\ pc = "start" => i = 0 /\ ~matchedRuntime

\* In the second loop: the runtime is allowed, there are filters, and the keys
\* ranged over hold none of their values.
DataInv ==
  pc \in {"data", "values"} =>
    /\ RuntimeAllowed(rule, pidRuntime)
    /\ DOMAIN rule.filters # {}
    /\ \A k \in DOMAIN data \ todo : (pc = "values" /\ k = key) \/ NotFoundFor(k)

\* In the inner loop: so far the filter's values are not in the event's.
ValuesInv ==
  pc = "values" =>
    /\ key \in DOMAIN data \intersect DOMAIN rule.filters
    /\ i \in 0..Len(rule.filters[key])
    /\ \A j \in 1..i : ~StringContains(data[key], rule.filters[key][j])

MatchInv == TypeOK /\ RuntimesInv /\ DataInv /\ ValuesInv /\ ReturnsMatch

\* The lists of a rule are sequences.
LEMMA ListsOfRule ==
  ASSUME NEW r \in MatchRules
  PROVE  /\ Len(r.runtimes) \in Nat /\ DOMAIN r.runtimes = 1..Len(r.runtimes)
         /\ (r.runtimes = << >>) <=> (Len(r.runtimes) = 0)
         /\ \A k \in DOMAIN r.filters :
              /\ Len(r.filters[k]) \in Nat
              /\ DOMAIN r.filters[k] = 1..Len(r.filters[k])
<1>1. r.runtimes \in Seq(STRING)
  BY MatchLoopAssumption DEF MatchLoopAssumption
<1>2. ASSUME NEW k \in DOMAIN r.filters
      PROVE  Len(r.filters[k]) \in Nat /\ DOMAIN r.filters[k] = 1..Len(r.filters[k])
  BY MatchLoopAssumption, LenProperties DEF MatchLoopAssumption
<1> QED
  BY <1>1, <1>2, LenProperties, EmptySeq

\* The filters are looked at, all of them, and none is found.
LEMMA NothingFound ==
  ASSUME rule \in MatchRules, \A k \in DOMAIN data : NotFoundFor(k)
  PROVE  ~FilterFound(rule, data)
BY ListsOfRule DEF NotFoundFor, FilterFound, ToSet

LEMMA StartKeeps == MatchInv /\ Start => MatchInv'
<1> SUFFICES ASSUME MatchInv, Start
             PROVE  MatchInv'
  OBVIOUS
<1> USE DEF MatchInv, TypeOK, Start
<1>1. CASE rule.runtimes = << >> /\ DOMAIN rule.filters = {}
  BY <1>1 DEF Return, args, RuntimesInv, DataInv, ValuesInv, ReturnsMatch, Match,
              RuntimeAllowed
<1>2. CASE ~(rule.runtimes = << >> /\ DOMAIN rule.filters = {})
  <2>1. /\ Len(rule.runtimes) \in Nat
        /\ i = 0 /\ ~matchedRuntime
        /\ pc' = "runtimes"
        /\ UNCHANGED <<args, i, matchedRuntime, todo, key, result>>
    BY <1>2, ListsOfRule DEF RuntimesInv
  <2>2. TypeOK' /\ RuntimesInv'
    BY <2>1 DEF args, RuntimesInv
  <2>3. DataInv' /\ ValuesInv' /\ ReturnsMatch'
    BY <1>2 DEF args, DataInv, ValuesInv, ReturnsMatch
  <2> QED
    BY <2>2, <2>3
<1> QED
  BY <1>1, <1>2

LEMMA RuntimeStepKeeps == MatchInv /\ RuntimeStep => MatchInv'
<1> SUFFICES ASSUME MatchInv, RuntimeStep
             PROVE  MatchInv'
  OBVIOUS
<1> USE DEF MatchInv, TypeOK, RuntimeStep, args
<1> DEFINE found == rule.runtimes[i + 1] = pidRuntime
<1>1. /\ Len(rule.runtimes) \in Nat
      /\ DOMAIN rule.runtimes = 1..Len(rule.runtimes)
      /\ i \in Nat /\ i < Len(rule.runtimes)
      /\ UNCHANGED args
  BY ListsOfRule DEF Return
<1>2. found => pidRuntime \in ToSet(rule.runtimes)
  BY <1>1 DEF ToSet
<1>3. CASE ~found
  <2>1. i' = i + 1 /\ UNCHANGED <<args, pc, matchedRuntime, todo, key, result>>
    BY <1>3
  <2>2. pc = "runtimes" /\ ~matchedRuntime /\ \A j \in 1..i : rule.runtimes[j] # pidRuntime
    BY DEF RuntimesInv
  <2>3. \A j \in 1..(i + 1) : rule.runtimes[j] # pidRuntime
    BY <1>1, <1>3, <2>2
  <2>4. TypeOK' /\ RuntimesInv'
    BY <1>1, <2>1, <2>2, <2>3 DEF RuntimesInv
  <2> QED
    BY <2>1, <2>2, <2>4 DEF DataInv, ValuesInv, ReturnsMatch
<1>4. CASE found /\ DOMAIN rule.filters = {}
  BY <1>1, <1>2, <1>4 DEF Return, RuntimesInv, DataInv, ValuesInv, ReturnsMatch, Match,
                          RuntimeAllowed
<1>5. CASE found /\ DOMAIN rule.filters # {}
  BY <1>1, <1>2, <1>5 DEF RuntimesInv, DataInv, ValuesInv, ReturnsMatch
<1> QED
  BY <1>3, <1>4, <1>5

LEMMA RuntimesEndKeeps == MatchInv /\ RuntimesEnd => MatchInv'
<1> SUFFICES ASSUME MatchInv, RuntimesEnd
             PROVE  MatchInv'
  OBVIOUS
<1> USE DEF MatchInv, TypeOK, RuntimesEnd, args
<1>1. /\ Len(rule.runtimes) \in Nat
      /\ DOMAIN rule.runtimes = 1..Len(rule.runtimes)
      /\ (rule.runtimes = << >>) <=> (Len(rule.runtimes) = 0)
      /\ UNCHANGED args
  BY ListsOfRule DEF Return
<1>2. RuntimeAllowed(rule, pidRuntime) <=> (rule.runtimes = << >> \/ matchedRuntime)
  BY <1>1 DEF RuntimesInv, RuntimeAllowed, ToSet
<1>3. CASE rule.runtimes # << >> /\ ~matchedRuntime
  BY <1>1, <1>2, <1>3 DEF Return, RuntimesInv, DataInv, ValuesInv, ReturnsMatch, Match
<1>4. CASE ~(rule.runtimes # << >> /\ ~matchedRuntime) /\ DOMAIN rule.filters = {}
  BY <1>1, <1>2, <1>4 DEF Return, RuntimesInv, DataInv, ValuesInv, ReturnsMatch, Match
<1>5. CASE ~(rule.runtimes # << >> /\ ~matchedRuntime) /\ DOMAIN rule.filters # {}
  BY <1>1, <1>2, <1>5 DEF RuntimesInv, DataInv, ValuesInv, ReturnsMatch
<1> QED
  BY <1>3, <1>4, <1>5

LEMMA DataStepKeeps == MatchInv /\ DataStep => MatchInv'
<1> SUFFICES ASSUME MatchInv, DataStep
             PROVE  MatchInv'
  OBVIOUS
<1> USE DEF MatchInv, TypeOK, DataStep, args
<1>1. PICK k \in todo :
        /\ todo' = todo \ {k}
        /\ IF k \in DOMAIN rule.filters
           THEN pc' = "values" /\ key' = k /\ i' = 0
           ELSE UNCHANGED <<pc, key, i>>
  OBVIOUS
<1>2. RuntimesInv' /\ ReturnsMatch'
  BY <1>1 DEF RuntimesInv, ReturnsMatch
<1>3. CASE k \in DOMAIN rule.filters
  <2>1. Len(rule.filters[k]) \in Nat
    BY <1>3, ListsOfRule
  <2>2. TypeOK' /\ ValuesInv'
    BY <1>1, <1>3, <2>1 DEF ValuesInv
  <2>3. DataInv'
    BY <1>1, <1>3 DEF DataInv, NotFoundFor
  <2> QED
    BY <1>2, <2>2, <2>3
<1>4. CASE k \notin DOMAIN rule.filters
  <2>1. TypeOK' /\ ValuesInv'
    BY <1>1, <1>4 DEF ValuesInv
  <2>2. DataInv'
    BY <1>1, <1>4 DEF DataInv, NotFoundFor
  <2> QED
    BY <1>2, <2>1, <2>2
<1> QED
  BY <1>3, <1>4

LEMMA ValueStepKeeps == MatchInv /\ ValueStep => MatchInv'
<1> SUFFICES ASSUME MatchInv, ValueStep
             PROVE  MatchInv'
  OBVIOUS
<1> USE DEF MatchInv, TypeOK, ValueStep, args
<1> DEFINE finds == rule.filters[key]
           found == StringContains(data[key], finds[i + 1])
<1>1. /\ key \in DOMAIN data \intersect DOMAIN rule.filters
      /\ Len(finds) \in Nat /\ DOMAIN finds = 1..Len(finds)
      /\ i \in 0..Len(finds)
      /\ UNCHANGED args
  BY ListsOfRule DEF Return, ValuesInv
<1>2. CASE i = Len(finds)
  <2>1. NotFoundFor(key)
    BY <1>1, <1>2 DEF ValuesInv, NotFoundFor
  <2>2. DataInv'
    BY <1>2, <2>1 DEF DataInv, NotFoundFor
  <2> QED
    BY <1>2, <2>2 DEF RuntimesInv, ValuesInv, ReturnsMatch
<1>3. CASE i # Len(finds) /\ found
  <2>1. FilterFound(rule, data)
    BY <1>1, <1>3 DEF FilterFound, ToSet
  <2> QED
    BY <1>3, <2>1 DEF Return, RuntimesInv, DataInv, ValuesInv, ReturnsMatch, Match
<1>4. CASE i # Len(finds) /\ ~found
  <2>1. i' = i + 1 /\ UNCHANGED <<args, pc, matchedRuntime, todo, key, result>>
    BY <1>4
  <2>2. ValuesInv'
    BY <1>1, <1>4, <2>1 DEF ValuesInv
  <2>3. DataInv'
    BY <2>1 DEF DataInv, NotFoundFor
  <2> QED
    BY <1>1, <1>4, <2>1, <2>2, <2>3 DEF RuntimesInv, ReturnsMatch
<1> QED
  BY <1>2, <1>3, <1>4

LEMMA DataEndKeeps == MatchInv /\ DataEnd => MatchInv'
<1> SUFFICES ASSUME MatchInv, DataEnd
             PROVE  MatchInv'
  OBVIOUS
<1>1. ~FilterFound(rule, data)
  BY NothingFound DEF MatchInv, TypeOK, DataEnd, DataInv
<1> QED
  BY <1>1 DEF MatchInv, TypeOK, DataEnd, Return, args, RuntimesInv, DataInv, ValuesInv,
              ReturnsMatch, Match

LEMMA MatchInvHolds == Spec => []MatchInv
<1>1. Init => MatchInv
  <2> SUFFICES ASSUME Init
               PROVE  MatchInv
    OBVIOUS
  <2>1. Len(rule.runtimes) \in Nat
    BY ListsOfRule DEF Init
  <2>2. matchedRuntime \in BOOLEAN /\ result \in BOOLEAN /\ ~matchedRuntime
    BY DEF Init
  <2>3. /\ rule \in MatchRules /\ data \in Datas /\ pidRuntime \in PidRuntimes
        /\ pc = "start" /\ i = 0 /\ todo = {}
    BY DEF Init
  <2>4. TypeOK
    BY <2>2, <2>3 DEF TypeOK
  <2>5. RuntimesInv
    BY <2>1, <2>2, <2>3 DEF RuntimesInv
  <2> QED
    BY <2>3, <2>4, <2>5 DEF MatchInv, DataInv, ValuesInv, ReturnsMatch
<1>2. MatchInv /\ UNCHANGED vars => MatchInv'
  BY DEF vars, MatchInv, TypeOK, RuntimesInv, DataInv, ValuesInv, ReturnsMatch, NotFoundFor
<1>3. MatchInv /\ [Next]_vars => MatchInv'
  BY <1>2, StartKeeps, RuntimeStepKeeps, RuntimesEndKeeps, DataStepKeeps, ValueStepKeeps,
     DataEndKeeps DEF Next
<1> QED
  BY <1>1, <1>3, PTL DEF Spec

\* Every index stays within its list.
THEOREM TypeCorrect == Spec => []TypeOK
BY MatchInvHolds, PTL DEF MatchInv

\* For any rule and event, in any order of the event's data, Match returns TRUE
\* exactly when the runtime is allowed and a filter is found.
THEOREM ReturnsMatchHolds == Spec => []ReturnsMatch
BY MatchInvHolds, PTL DEF MatchInv
=============================================================================
