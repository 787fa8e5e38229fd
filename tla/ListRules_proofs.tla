--------------------------- MODULE ListRules_proofs ---------------------------
(***************************************************************************)
(* Proofs about ListRules, for any number of handlers, tracers and rules:  *)
(* its ranges are over tracers of the table, and a reply that no write     *)
(* overtakes has as many entries for each tracer as the tracer has rules.  *)
(***************************************************************************)
EXTENDS ListRules, RuleTable_proofs, FiniteSetTheorems, SequenceTheorems

-----------------------------------------------------------------------------
(* The invariant.                                                          *)

Ranging == {"range", "next", "copy", "outer"}

ListTypes ==
  /\ up \in BOOLEAN
  /\ lpc \in [Listers -> {"idle", "begin", "reply"} \union Ranging]
  /\ DOMAIN tracersLeft = Listers /\ DOMAIN tracersSeen = Listers /\ DOMAIN p = Listers
  /\ DOMAIN seen = Listers /\ DOMAIN entry = Listers /\ DOMAIN cell = Listers
  /\ DOMAIN result = Listers
  /\ since \in [Listers -> Nat]
  /\ start \in [Listers -> Nat \union {NoOne}]
  /\ lists \in 0..MaxLists

\* A slot has a lower number than the writes to come.
StampsOK == \A q \in Tracers, n \in Names : born[q][n] <= writes

IsSequence(s) == \E S : s \in Seq(S)

\* Each tracer the outer range has produced has left at most one cell, the one it is
\* at none so far.
ListerOK(l) ==
  /\ IsFiniteSet(tracersSeen[l]) /\ IsSequence(result[l])
  /\ tracersLeft[l] \subseteq DOMAIN rules \ tracersSeen[l]
  /\ tracersSeen[l] \subseteq DOMAIN rules
  /\ lpc[l] \in Ranging =>
       p[l] \in tracersSeen[l] /\ Len(result[l]) + 1 <= Cardinality(tracersSeen[l])
  /\ lpc[l] = "reply" => Len(result[l]) <= Cardinality(tracersSeen[l])
  /\ lpc[l] \in {"idle", "begin"} => tracersSeen[l] = {} /\ result[l] = << >>
  /\ lpc[l] \in {"idle", "begin", "reply"} => tracersLeft[l] = {}
  /\ lpc[l] \in {"idle", "begin", "range", "reply"} => cell[l] = NoCell

\* The tracers whose range is over, and the names the current range has produced
\* and added to the result.
Ranged(l) == IF lpc[l] \in Ranging THEN tracersSeen[l] \ {p[l]} ELSE tracersSeen[l]
Produced(l) == {e[1] : e \in seen[l]}
Appended(l) == IF lpc[l] = "copy" THEN Produced(l) \ {entry[l][1]} ELSE Produced(l)

IsRuleOf(r, m) == \E n \in DOMAIN m : r = m[n]

\* The cell c stands for those rules of the map m that have the names of S.
Counts(c, m, S) ==
  /\ IsFiniteSet(S) /\ c.count = Cardinality(S)
  /\ S # {} => IsRuleOf(c.rule, m)

\* The cells of r stand for the rules that the tracers of T have in the table t.
CountsAll(r, T, t) ==
  /\ \A i \in DOMAIN r : \E q \in T : DOMAIN t[q] # {} /\ Counts(r[i], t[q], DOMAIN t[q])
  /\ \A q \in T : DOMAIN t[q] # {} => \E i \in DOMAIN r : IsRuleOf(r[i].rule, t[q])

\* As long as no write has overtaken the request.
Exact(l) ==
  /\ writing = NoOne /\ inTransit = NoOne
  /\ lpc[l] # "begin" => tracersLeft[l] = DOMAIN rules \ tracersSeen[l]
  /\ CountsAll(result[l], Ranged(l), rules)
  /\ lpc[l] \in {"next", "copy"} =>
       /\ since[l] = writes /\ seen[l] \subseteq EntriesOf(p[l])
       /\ Counts(cell[l], rules[p[l]], Appended(l))
  /\ lpc[l] = "copy" => entry[l] \in seen[l]
  /\ lpc[l] = "outer" => Counts(cell[l], rules[p[l]], DOMAIN rules[p[l]])

ExactOK(l) ==
  /\ start[l] \in Nat => start[l] <= writes
  /\ lpc[l] # "idle" /\ Undisturbed(l) => Exact(l)

ListInv ==
  /\ TableInv /\ ListTypes /\ StampsOK
  /\ \A l \in Listers : ListerOK(l) /\ ExactOK(l)

-----------------------------------------------------------------------------
(* What a step leaves alone.                                               *)

\* Nothing changes for the handler l.
SameLister(l) ==
  /\ lpc'[l] = lpc[l] /\ tracersLeft'[l] = tracersLeft[l] /\ tracersSeen'[l] = tracersSeen[l]
  /\ p'[l] = p[l] /\ since'[l] = since[l] /\ seen'[l] = seen[l] /\ entry'[l] = entry[l]
  /\ cell'[l] = cell[l] /\ result'[l] = result[l] /\ start'[l] = start[l]

LEMMA SameListing ==
  ASSUME NEW l, ListerOK(l), SameLister(l), DOMAIN rules \subseteq DOMAIN rules'
  PROVE  ListerOK(l)'
BY DEF ListerOK, SameLister

LEMMA SameExact ==
  ASSUME NEW l, Exact(l), SameLister(l), UNCHANGED <<rules, born, writes, writing, inTransit>>
  PROVE  Exact(l)'
<1>1. Ranged(l)' = Ranged(l)
  BY DEF Ranged, SameLister
<1>2. Appended(l)' = Appended(l)
  BY DEF Appended, Produced, SameLister
<1>3. EntriesOf(p[l])' = EntriesOf(p[l])
  BY DEF EntriesOf, SameLister
<1>4. /\ Counts(cell[l], rules[p[l]], Appended(l))' <=>
           Counts(cell[l], rules[p[l]], Appended(l))
      /\ Counts(cell[l], rules[p[l]], DOMAIN rules[p[l]])' <=>
           Counts(cell[l], rules[p[l]], DOMAIN rules[p[l]])
  BY <1>2 DEF SameLister
<1>5. CountsAll(result[l], Ranged(l), rules)' <=> CountsAll(result[l], Ranged(l), rules)
  BY <1>1 DEF SameLister
<1> QED
  BY <1>1, <1>2, <1>3, <1>4, <1>5 DEF Exact, SameLister

\* A step of the handler l disturbs no other.
LEMMA OtherListers ==
  ASSUME ListInv, NEW l \in Listers, UNCHANGED vars,
         \A k \in Listers \ {l} : SameLister(k),
         ListTypes', ListerOK(l)', ExactOK(l)'
  PROVE  ListInv'
<1>1. TableInv'
  BY StepKeeps DEF ListInv
<1>2. UNCHANGED <<rules, born, writes, writing, inTransit>>
  BY DEF vars, tableVars
<1>3. StampsOK'
  BY <1>2 DEF ListInv, StampsOK
<1>4. ASSUME NEW k \in Listers \ {l}
      PROVE  ListerOK(k)' /\ ExactOK(k)'
  <2>1. SameLister(k) /\ ListerOK(k) /\ ExactOK(k)
    BY DEF ListInv
  <2>2. ListerOK(k)'
    BY <1>2, <2>1, SameListing
  <2>3. ExactOK(k)'
    BY <1>2, <2>1, SameExact DEF ExactOK, Undisturbed, SameLister
  <2> QED
    BY <2>2, <2>3
<1> QED
  BY <1>1, <1>3, <1>4 DEF ListInv

\* Whatever a handler of CreateRule or RemoveRule does: a reply it does not overtake
\* is not disturbed.
LEMMA WriterKeeps ==
  ASSUME ListInv, [Next]_vars, UNCHANGED <<up, listVars>>
  PROVE  ListInv'
<1>1. TableInv' /\ TableStep
  BY StepKeeps, EveryTableStep DEF ListInv
<1>2. ListTypes' /\ \A l \in Listers : SameLister(l)
  BY DEF ListInv, ListTypes, SameLister, listVars
<1>3. writes \in Nat /\ writes' \in {writes, writes + 1}
  BY <1>1 DEF ListInv, TableInv, TypeOK, TableStep
<1>4. StampsOK'
  BY <1>1, <1>3 DEF ListInv, TableInv, TypeOK, StampsOK, TableStep
<1>5. ASSUME NEW l \in Listers
      PROVE  ListerOK(l)' /\ ExactOK(l)'
  <2>1. SameLister(l) /\ ListerOK(l) /\ ExactOK(l) /\ start[l] \in Nat \union {NoOne}
    BY <1>2 DEF ListInv, ListTypes
  <2>2. ListerOK(l)'
    BY <1>1, <2>1, SameListing DEF TableStep
  <2>3. start[l] \in Nat => start[l] <= writes
    BY <2>1 DEF ExactOK
  <2>4. start'[l] = start[l]
    BY <2>1 DEF SameLister
  <2>5. start'[l] \in Nat => start'[l] <= writes'
    BY <1>3, <2>3, <2>4
  <2>6. ASSUME lpc'[l] # "idle", Undisturbed(l)'
        PROVE  Exact(l)'
    <3>1. writes' = writes
      BY <1>3, <2>3, <2>4, <2>6 DEF Undisturbed
    <3>2. Exact(l)
      BY <2>1, <2>6, <3>1 DEF ExactOK, Undisturbed, SameLister
    <3>3. UNCHANGED <<rules, born, writes, writing, inTransit>>
      BY <1>1, <3>1, <3>2 DEF Exact, TableStep
    <3> QED
      BY <2>1, <3>2, <3>3, SameExact
  <2> QED
    BY <2>2, <2>5, <2>6 DEF ExactOK
<1> QED
  BY <1>1, <1>2, <1>4, <1>5 DEF ListInv

-----------------------------------------------------------------------------
(* The handler.                                                            *)

LEMMA AppendToAny ==
  ASSUME NEW s, IsSequence(s), NEW e
  PROVE  /\ IsSequence(Append(s, e)) /\ Len(s) \in Nat /\ Len(Append(s, e)) = Len(s) + 1
         /\ DOMAIN s = 1..Len(s) /\ DOMAIN Append(s, e) = 1..(Len(s) + 1)
         /\ \A i \in 1..Len(s) : Append(s, e)[i] = s[i]
         /\ Append(s, e)[Len(s) + 1] = e
<1>1. PICK S : s \in Seq(S)
  BY DEF IsSequence
<1>2. s \in Seq(S \union {e}) /\ e \in S \union {e}
  BY <1>1, SeqMonotonic
<1> HIDE DEF IsSequence
<1>3. Append(s, e) \in Seq(S \union {e})
  BY <1>2, AppendProperties
<1>4. IsSequence(Append(s, e))
  BY <1>3 DEF IsSequence
<1> QED
  BY <1>2, <1>4, AppendProperties, LenProperties

LEMMA EmptyResult ==
  IsSequence(<< >>) /\ Len(<< >>) = 0 /\ DOMAIN << >> = {}
BY EmptySeq DEF IsSequence

LEMMA ListCallKeeps ==
  ASSUME ListInv, NEW l \in Listers, ListCall(l), UNCHANGED <<vars, up>>
  PROVE  ListInv'
<1>1. /\ lpc[l] = "idle" /\ lpc' = [lpc EXCEPT ![l] = "begin"]
      /\ lists < MaxLists /\ lists' = lists + 1
      /\ start' = [start EXCEPT ![l] =
                     IF writing = NoOne /\ inTransit = NoOne THEN writes ELSE NoOne]
      /\ UNCHANGED <<tracersLeft, tracersSeen, p, since, seen, entry, cell, result>>
  BY DEF ListCall, LGoTo
<1>2. ListTypes /\ ListerOK(l) /\ ExactOK(l) /\ writes \in Nat
  BY DEF ListInv, TableInv, TypeOK
<1>3. lists' \in 0..MaxLists
  <2>1. lists \in 0..MaxLists /\ MaxLists \in Nat
    BY <1>2, ListRulesAssumption DEF ListTypes, ListRulesAssumption
  <2> QED
    BY <1>1, <2>1
<1>4. ListTypes'
  BY <1>1, <1>2, <1>3 DEF ListTypes, Ranging
<1>5. /\ \A k \in Listers \ {l} : SameLister(k)
      /\ lpc'[l] = "begin"
      /\ start'[l] = IF writing = NoOne /\ inTransit = NoOne THEN writes ELSE NoOne
  BY <1>1, <1>2 DEF SameLister, ListTypes
<1>6. UNCHANGED <<rules, born, writes, writing, inTransit>>
  BY DEF vars, tableVars
<1>7. ListerOK(l)'
  BY <1>1, <1>2, <1>5, <1>6 DEF ListerOK, Ranging
<1>8. ASSUME Undisturbed(l)' PROVE Exact(l)'
  <2>1. writing = NoOne /\ inTransit = NoOne
    BY <1>2, <1>5, <1>6, <1>8, ListRulesAssumption DEF Undisturbed, ListRulesAssumption
  <2>2. result'[l] = << >> /\ Ranged(l)' = {}
    BY <1>1, <1>2, <1>5 DEF ListerOK, Ranged, Ranging
  <2> QED
    BY <1>5, <1>6, <2>1, <2>2, EmptyResult DEF Exact, CountsAll
<1>9. ExactOK(l)'
  BY <1>2, <1>5, <1>6, <1>8, ListRulesAssumption DEF ExactOK, ListRulesAssumption
<1> QED
  BY <1>4, <1>5, <1>7, <1>9, OtherListers

\* The outer range goes from the result r and the tracers it has produced to the
\* next tracer, or to the reply.
LEMMA AdvanceOuterKeeps ==
  ASSUME ListInv, NEW l \in Listers, UNCHANGED <<vars, up>>,
         lpc[l] \in {"begin", "outer"},
         NEW left, left \subseteq DOMAIN rules \ tracersSeen[l],
         NEW r, IsSequence(r), Len(r) <= Cardinality(tracersSeen[l]),
         Undisturbed(l) =>
           /\ writing = NoOne /\ inTransit = NoOne
           /\ left = DOMAIN rules \ tracersSeen[l]
           /\ CountsAll(r, tracersSeen[l], rules),
         lpc[l] = "begin" => tracersSeen[l] = {},
         lpc[l] = "outer" => left = tracersLeft[l],
         AdvanceOuter(l, left, tracersSeen[l]),
         DOMAIN result' = Listers, DOMAIN cell' = Listers,
         \A k \in Listers : /\ result'[k] = IF k = l THEN r ELSE result[k]
                           /\ cell'[k] = IF k = l THEN NoCell ELSE cell[k],
         UNCHANGED <<since, seen, entry, lists, start>>
  PROVE  ListInv'
<1>1. ListTypes /\ ListerOK(l) /\ ExactOK(l)
  BY DEF ListInv
<1>2. UNCHANGED <<rules, born, writes, writing, inTransit>>
  BY DEF vars, tableVars
<1>3. result'[l] = r /\ cell'[l] = NoCell
  BY <1>1 DEF ListTypes
<1>4. IsFiniteSet(tracersSeen[l]) /\ Cardinality(tracersSeen[l]) \in Nat /\ Len(r) \in Nat
  BY <1>1, FS_CardinalityType, AppendToAny DEF ListerOK
<1>5. Undisturbed(l)' <=> Undisturbed(l)
  BY <1>2 DEF Undisturbed
<1>6. ASSUME NEW q \in DOMAIN rules \ tracersSeen[l],
             p' = [p EXCEPT ![l] = q],
             tracersLeft' = [tracersLeft EXCEPT ![l] = left \ {q}],
             tracersSeen' = [tracersSeen EXCEPT ![l] = tracersSeen[l] \union {q}],
             lpc' = [lpc EXCEPT ![l] = "range"]
      PROVE  ListInv'
  <2>1. ListTypes'
    BY <1>1, <1>6 DEF ListTypes, Ranging
  <2>2. /\ \A k \in Listers \ {l} : SameLister(k)
        /\ lpc'[l] = "range" /\ p'[l] = q /\ tracersLeft'[l] = left \ {q}
        /\ tracersSeen'[l] = tracersSeen[l] \union {q}
    BY <1>1, <1>6 DEF SameLister, ListTypes
  <2>3. /\ IsFiniteSet(tracersSeen'[l])
        /\ Cardinality(tracersSeen'[l]) = Cardinality(tracersSeen[l]) + 1
    <3> DEFINE T == tracersSeen[l]
    <3>1. tracersSeen'[l] = T \union {q} /\ q \notin T /\ IsFiniteSet(T)
      BY <1>4, <2>2
    <3> HIDE DEF T
    <3>2. IsFiniteSet(T \union {q}) /\ Cardinality(T \union {q}) = Cardinality(T) + 1
      BY <3>1, FS_AddElement
    <3> QED
      BY <3>1, <3>2 DEF T
  <2>4. Len(r) + 1 <= Cardinality(tracersSeen'[l])
    BY <1>4, <2>3
  <2>5. ListerOK(l)'
    BY <1>1, <1>2, <1>3, <2>2, <2>3, <2>4 DEF ListerOK, Ranging
  <2>6. ASSUME Undisturbed(l) PROVE Exact(l)'
    <3>1. Ranged(l)' = tracersSeen[l]
      BY <2>2 DEF Ranged, Ranging
    <3>2. tracersLeft'[l] = DOMAIN rules \ tracersSeen'[l]
      BY <2>2, <2>6
    <3>3. CountsAll(result[l], Ranged(l), rules)'
      BY <1>2, <1>3, <2>6, <3>1
    <3> QED
      BY <1>2, <2>2, <2>6, <3>2, <3>3 DEF Exact
  <2>7. ExactOK(l)'
    BY <1>1, <1>2, <1>5, <2>6 DEF ExactOK
  <2> QED
    BY <2>1, <2>2, <2>5, <2>7, OtherListers
<1>7. ASSUME left = {}, lpc' = [lpc EXCEPT ![l] = "reply"],
             UNCHANGED <<p, tracersLeft, tracersSeen>>
      PROVE  ListInv'
  <2>1. ListTypes'
    BY <1>1, <1>7 DEF ListTypes, Ranging
  <2>2. /\ \A k \in Listers \ {l} : SameLister(k)
        /\ lpc'[l] = "reply"
    BY <1>1, <1>7 DEF SameLister, ListTypes
  <2>3. tracersLeft'[l] = {}
    BY <1>1, <1>7 DEF ListerOK
  <2>4. ListerOK(l)'
    BY <1>1, <1>2, <1>3, <1>7, <2>2, <2>3 DEF ListerOK, Ranging
  <2>5. ASSUME Undisturbed(l) PROVE Exact(l)'
    <3>1. Ranged(l)' = tracersSeen[l]
      BY <1>7, <2>2 DEF Ranged, Ranging
    <3>2. CountsAll(result[l], Ranged(l), rules)'
      BY <1>2, <1>3, <2>5, <3>1
    <3> QED
      BY <1>2, <1>7, <2>2, <2>3, <2>5, <3>2 DEF Exact
  <2>6. ExactOK(l)'
    BY <1>1, <1>2, <1>5, <2>5 DEF ExactOK
  <2> QED
    BY <2>1, <2>2, <2>4, <2>6, OtherListers
<1> QED
  BY <1>6, <1>7 DEF AdvanceOuter, LGoTo

LEMMA OuterBeginKeeps ==
  ASSUME ListInv, NEW l \in Listers, OuterBegin(l), UNCHANGED <<vars, up>>
  PROVE  ListInv'
<1>1. /\ lpc[l] = "begin" /\ AdvanceOuter(l, DOMAIN rules, {})
      /\ UNCHANGED <<since, seen, entry, cell, result, lists, start>>
  BY DEF OuterBegin
<1>2. ListTypes /\ ListerOK(l) /\ ExactOK(l)
  BY DEF ListInv
<1>3. tracersSeen[l] = {} /\ result[l] = << >> /\ cell[l] = NoCell
  BY <1>1, <1>2 DEF ListerOK
<1>4. /\ DOMAIN result' = Listers /\ DOMAIN cell' = Listers
      /\ \A k \in Listers : /\ result'[k] = IF k = l THEN << >> ELSE result[k]
                            /\ cell'[k] = IF k = l THEN NoCell ELSE cell[k]
  BY <1>1, <1>2, <1>3 DEF ListTypes
<1>5. IsSequence(<< >>) /\ Len(<< >>) <= Cardinality(tracersSeen[l])
  BY <1>3, EmptyResult, FS_EmptySet
<1>6. Undisturbed(l) =>
        /\ writing = NoOne /\ inTransit = NoOne
        /\ CountsAll(<< >>, tracersSeen[l], rules)
  BY <1>1, <1>2, <1>3, EmptyResult DEF ExactOK, Exact, CountsAll
<1> QED
  BY <1>1, <1>3, <1>4, <1>5, <1>6, AdvanceOuterKeeps

LEMMA OuterNextKeeps ==
  ASSUME ListInv, NEW l \in Listers, OuterNext(l), UNCHANGED <<vars, up>>
  PROVE  ListInv'
<1> DEFINE c == cell[l]
           r == IF c.count = 0 THEN result[l] ELSE Append(result[l], c)
<1>1. /\ lpc[l] = "outer" /\ AdvanceOuter(l, tracersLeft[l], tracersSeen[l])
      /\ result' = [result EXCEPT ![l] = r] /\ cell' = [cell EXCEPT ![l] = NoCell]
      /\ UNCHANGED <<since, seen, entry, lists, start>>
  BY DEF OuterNext
<1>2. ListTypes /\ ListerOK(l) /\ ExactOK(l)
  BY DEF ListInv
<1>3. /\ IsSequence(result[l]) /\ tracersLeft[l] \subseteq DOMAIN rules \ tracersSeen[l]
      /\ p[l] \in tracersSeen[l]
      /\ Len(result[l]) + 1 <= Cardinality(tracersSeen[l])
      /\ Cardinality(tracersSeen[l]) \in Nat
  BY <1>1, <1>2, FS_CardinalityType DEF ListerOK, Ranging
<1>4. IsSequence(r) /\ Len(r) <= Cardinality(tracersSeen[l])
  <2> HIDE DEF c
  <2>1. Len(result[l]) \in Nat /\ IsSequence(Append(result[l], c))
        /\ Len(Append(result[l], c)) = Len(result[l]) + 1
    BY <1>3, AppendToAny
  <2> QED
    BY <1>3, <2>1
<1>5. ASSUME Undisturbed(l)
      PROVE  /\ writing = NoOne /\ inTransit = NoOne
             /\ tracersLeft[l] = DOMAIN rules \ tracersSeen[l]
             /\ CountsAll(r, tracersSeen[l], rules)
  <2>1. Exact(l)
    BY <1>1, <1>2, <1>5 DEF ExactOK
  <2>2. /\ Ranged(l) = tracersSeen[l] \ {p[l]}
        /\ CountsAll(result[l], Ranged(l), rules)
        /\ Counts(c, rules[p[l]], DOMAIN rules[p[l]])
    BY <1>1, <2>1 DEF Exact, Ranged, Ranging
  <2>3. ASSUME c.count = 0 PROVE CountsAll(r, tracersSeen[l], rules)
    <3>1. DOMAIN rules[p[l]] = {}
      BY <2>2, <2>3, FS_EmptySet DEF Counts
    <3> QED
      BY <2>2, <2>3, <3>1 DEF CountsAll
  <2>4. ASSUME c.count # 0 PROVE CountsAll(r, tracersSeen[l], rules)
    <3>1. DOMAIN rules[p[l]] # {} /\ IsRuleOf(c.rule, rules[p[l]])
      BY <2>2, <2>4, FS_EmptySet DEF Counts
    <3>2. /\ r = Append(result[l], c)
          /\ Len(result[l]) \in Nat
          /\ DOMAIN r = 1..(Len(result[l]) + 1) /\ DOMAIN result[l] = 1..Len(result[l])
          /\ \A i \in 1..Len(result[l]) : r[i] = result[l][i]
          /\ r[Len(result[l]) + 1] = c
      <4> HIDE DEF c
      <4> QED
        BY <1>3, <2>4, AppendToAny
    <3> HIDE DEF r, c
    <3>3. ASSUME NEW i \in DOMAIN r
          PROVE  \E q \in tracersSeen[l] :
                   DOMAIN rules[q] # {} /\ Counts(r[i], rules[q], DOMAIN rules[q])
      <4>1. CASE i = Len(result[l]) + 1
        BY <1>3, <2>2, <3>1, <3>2, <4>1
      <4>2. CASE i \in DOMAIN result[l]
        BY <2>2, <3>2, <4>2 DEF CountsAll
      <4> QED
        BY <3>2, <4>1, <4>2
    <3>4. ASSUME NEW q \in tracersSeen[l], DOMAIN rules[q] # {}
          PROVE  \E i \in DOMAIN r : IsRuleOf(r[i].rule, rules[q])
      <4>1. CASE q = p[l]
        <5>1. Len(result[l]) + 1 \in DOMAIN r
          BY <3>2
        <5> QED
          BY <3>1, <3>2, <4>1, <5>1
      <4>2. CASE q # p[l]
        <5>1. PICK i \in DOMAIN result[l] : IsRuleOf(result[l][i].rule, rules[q])
          BY <2>2, <3>4, <4>2 DEF CountsAll
        <5>2. i \in DOMAIN r /\ r[i] = result[l][i]
          BY <3>2
        <5> QED
          BY <5>1, <5>2
      <4> QED
        BY <4>1, <4>2
    <3> QED
      BY <1>1, <2>1, <3>3, <3>4 DEF CountsAll, Exact
  <2>5. /\ writing = NoOne /\ inTransit = NoOne
        /\ tracersLeft[l] = DOMAIN rules \ tracersSeen[l]
    BY <1>1, <2>1 DEF Exact
  <2> QED
    BY <2>3, <2>4, <2>5
<1>6. /\ DOMAIN result' = Listers /\ DOMAIN cell' = Listers
      /\ \A k \in Listers : /\ result'[k] = IF k = l THEN r ELSE result[k]
                            /\ cell'[k] = IF k = l THEN NoCell ELSE cell[k]
  BY <1>1, <1>2 DEF ListTypes
<1> HIDE DEF r
<1> QED
  BY <1>1, <1>3, <1>4, <1>5, <1>6, AdvanceOuterKeeps

\* While the request is undisturbed, an entry is known by its name.
LEMMA EntryNames ==
  ASSUME NEW l, Exact(l), lpc[l] \in {"next", "copy"}, NEW e \in seen[l]
  PROVE  e[1] \in DOMAIN rules[p[l]] /\ e = <<e[1], born[p[l]][e[1]]>>
BY DEF Exact, EntriesOf

\* The range over the tracer's rules takes the next entry.
LEMMA ProduceKeeps ==
  ASSUME ListInv, NEW l \in Listers, UNCHANGED <<vars, up>>,
         lpc[l] \in {"range", "next"},
         NEW produced, NEW begun \in Nat,
         lpc[l] = "range" => produced = {} /\ begun = writes,
         lpc[l] = "next" => produced = seen[l] /\ begun = since[l],
         NEW e \in EntriesOf(p[l]) \ produced,
         lpc' = [lpc EXCEPT ![l] = "copy"], since' = [since EXCEPT ![l] = begun],
         entry' = [entry EXCEPT ![l] = e],
         seen' = [seen EXCEPT ![l] = produced \union {e}],
         UNCHANGED <<tracersLeft, tracersSeen, p, cell, result, lists, start>>
  PROVE  ListInv'
<1>1. ListTypes /\ ListerOK(l) /\ ExactOK(l)
  BY DEF ListInv
<1>2. ListTypes'
  BY <1>1 DEF ListTypes, Ranging
<1>3. /\ \A k \in Listers \ {l} : SameLister(k)
      /\ lpc'[l] = "copy" /\ since'[l] = begun /\ entry'[l] = e
      /\ seen'[l] = produced \union {e}
  BY <1>1 DEF SameLister, ListTypes
<1>4. UNCHANGED <<rules, born, writes, writing, inTransit>>
  BY DEF vars, tableVars
<1>5. ListerOK(l)'
  BY <1>1, <1>3, <1>4 DEF ListerOK, Ranging
<1>6. ASSUME Undisturbed(l)' PROVE Exact(l)'
  <2>1. Exact(l)
    BY <1>1, <1>4, <1>6 DEF ExactOK, Undisturbed
  <2>2. begun = writes /\ produced \subseteq EntriesOf(p[l])
    BY <2>1 DEF Exact
  <2>3. Appended(l)' = {x[1] : x \in produced}
    <3>1. Appended(l)' = Produced(l)' \ {e[1]}
      BY <1>3 DEF Appended
    <3>2. Produced(l)' = {x[1] : x \in produced} \union {e[1]}
      BY <1>3 DEF Produced
    <3>3. \A x \in produced : x[1] # e[1]
      BY <2>2 DEF EntriesOf
    <3> QED
      BY <3>1, <3>2, <3>3
  <2>4. Counts(cell[l], rules[p[l]], {x[1] : x \in produced})
    <3>1. CASE lpc[l] = "range"
      <4>1. {x[1] : x \in produced} = {}
        BY <3>1
      <4>2. cell[l].count = 0
        BY <1>1, <3>1 DEF ListerOK, NoCell
      <4> QED
        BY <4>1, <4>2, FS_EmptySet DEF Counts
    <3>2. CASE lpc[l] = "next"
      BY <2>1, <3>2 DEF Exact, Appended, Produced
    <3> QED
      BY <3>1, <3>2
  <2>5. Counts(cell[l], rules[p[l]], Appended(l))'
    BY <1>4, <2>3, <2>4
  <2>6. Ranged(l)' = Ranged(l)
    BY <1>3 DEF Ranged, Ranging
  <2>7. CountsAll(result[l], Ranged(l), rules)'
    BY <1>4, <2>1, <2>6 DEF Exact
  <2>8. (seen[l] \subseteq EntriesOf(p[l]))' /\ e \in seen'[l]
    BY <1>3, <1>4, <2>2 DEF EntriesOf
  <2> QED
    BY <1>3, <1>4, <2>1, <2>2, <2>5, <2>7, <2>8 DEF Exact
<1>7. ExactOK(l)'
  BY <1>1, <1>4, <1>6 DEF ExactOK
<1> QED
  BY <1>2, <1>3, <1>5, <1>7, OtherListers

\* That range ends: while no write has overtaken the request, every rule was added.
LEMMA RangeEndKeeps ==
  ASSUME ListInv, NEW l \in Listers, UNCHANGED <<vars, up>>,
         lpc[l] \in {"range", "next"},
         NEW produced, NEW begun \in Nat,
         lpc[l] = "range" => produced = {} /\ begun = writes,
         lpc[l] = "next" => produced = seen[l] /\ begun = since[l],
         MayEnd(p[l], begun, produced),
         lpc' = [lpc EXCEPT ![l] = "outer"], since' = [since EXCEPT ![l] = begun],
         UNCHANGED <<entry, seen, tracersLeft, tracersSeen, p, cell, result, lists, start>>
  PROVE  ListInv'
<1>1. ListTypes /\ ListerOK(l) /\ ExactOK(l) /\ StampsOK /\ TypeOK
  BY DEF ListInv, TableInv
<1>2. ListTypes'
  BY <1>1 DEF ListTypes, Ranging
<1>3. /\ \A k \in Listers \ {l} : SameLister(k)
      /\ lpc'[l] = "outer"
  BY <1>1 DEF SameLister, ListTypes
<1>4. UNCHANGED <<rules, born, writes, writing, inTransit>>
  BY DEF vars, tableVars
<1>5. ListerOK(l)'
  BY <1>1, <1>3, <1>4 DEF ListerOK, Ranging
<1>6. ASSUME Undisturbed(l)' PROVE Exact(l)'
  <2>1. Exact(l)
    BY <1>1, <1>4, <1>6 DEF ExactOK, Undisturbed
  <2>2. begun = writes /\ p[l] \in DOMAIN rules
    BY <1>1, <2>1 DEF Exact, ListerOK, Ranging
  <2>3. \A n \in DOMAIN rules[p[l]] : <<n, born[p[l]][n]>> \in produced
    <3>1. \A n \in DOMAIN rules[p[l]] : born[p[l]][n] <= writes
      BY <1>1, <2>2 DEF StampsOK, TypeOK, IsTable
    <3> QED
      BY <2>2, <3>1 DEF MayEnd, EntriesOf
  <2>4. Counts(cell[l], rules[p[l]], DOMAIN rules[p[l]])
    <3>1. CASE lpc[l] = "range"
      <4>1. DOMAIN rules[p[l]] = {}
        BY <2>3, <3>1
      <4>2. cell[l].count = 0
        BY <1>1, <3>1 DEF ListerOK, NoCell
      <4> QED
        BY <4>1, <4>2, FS_EmptySet DEF Counts
    <3>2. CASE lpc[l] = "next"
      <4>1. \A n \in DOMAIN rules[p[l]] : <<n, born[p[l]][n]>>[1] \in Produced(l)
        BY <2>3, <3>2 DEF Produced
      <4>2. Produced(l) \subseteq DOMAIN rules[p[l]]
        BY <2>1, <3>2, EntryNames DEF Produced
      <4>3. Appended(l) = DOMAIN rules[p[l]]
        BY <3>2, <4>1, <4>2 DEF Appended
      <4> QED
        BY <2>1, <3>2, <4>3 DEF Exact
    <3> QED
      BY <3>1, <3>2
  <2>5. Ranged(l)' = Ranged(l)
    BY <1>3 DEF Ranged, Ranging
  <2>6. CountsAll(result[l], Ranged(l), rules)'
    BY <1>4, <2>1, <2>5 DEF Exact
  <2> QED
    BY <1>3, <1>4, <2>1, <2>4, <2>6 DEF Exact
<1>7. ExactOK(l)'
  BY <1>1, <1>4, <1>6 DEF ExactOK
<1> QED
  BY <1>2, <1>3, <1>5, <1>7, OtherListers

LEMMA RangeKeeps ==
  ASSUME ListInv, NEW l \in Listers, RangeBegin(l) \/ RangeNext(l), UNCHANGED <<vars, up>>
  PROVE  ListInv'
<1>1. ListTypes /\ writes \in Nat
  BY DEF ListInv, TableInv, TypeOK
<1>2. CASE RangeBegin(l)
  <2>1. /\ lpc[l] = "range" /\ since' = [since EXCEPT ![l] = writes]
        /\ AdvanceInner(l, writes, {})
        /\ UNCHANGED <<tracersLeft, tracersSeen, p, cell, result, lists, start>>
    BY <1>2 DEF RangeBegin
  <2>2. CASE \E e \in EntriesOf(p[l]) \ {} :
               /\ entry' = [entry EXCEPT ![l] = e]
               /\ seen' = [seen EXCEPT ![l] = {} \union {e}]
               /\ lpc' = [lpc EXCEPT ![l] = "copy"]
    BY <1>1, <2>1, <2>2, ProduceKeeps
  <2>3. CASE /\ MayEnd(p[l], writes, {}) /\ lpc' = [lpc EXCEPT ![l] = "outer"]
             /\ UNCHANGED <<entry, seen>>
    BY <1>1, <2>1, <2>3, RangeEndKeeps
  <2> QED
    BY <2>1, <2>2, <2>3 DEF AdvanceInner, LGoTo
<1>3. CASE RangeNext(l)
  <2>1. /\ lpc[l] = "next" /\ AdvanceInner(l, since[l], seen[l])
        /\ UNCHANGED <<tracersLeft, tracersSeen, p, since, cell, result, lists, start>>
    BY <1>3 DEF RangeNext
  <2>2. since' = [since EXCEPT ![l] = since[l]] /\ since[l] \in Nat
    BY <1>1, <2>1 DEF ListTypes
  <2>3. CASE \E e \in EntriesOf(p[l]) \ seen[l] :
               /\ entry' = [entry EXCEPT ![l] = e]
               /\ seen' = [seen EXCEPT ![l] = seen[l] \union {e}]
               /\ lpc' = [lpc EXCEPT ![l] = "copy"]
    BY <2>1, <2>2, <2>3, ProduceKeeps
  <2>4. CASE /\ MayEnd(p[l], since[l], seen[l]) /\ lpc' = [lpc EXCEPT ![l] = "outer"]
             /\ UNCHANGED <<entry, seen>>
    BY <2>1, <2>2, <2>4, RangeEndKeeps
  <2> QED
    BY <2>1, <2>3, <2>4 DEF AdvanceInner, LGoTo
<1> QED
  BY <1>2, <1>3

LEMMA AppendRuleKeeps ==
  ASSUME ListInv, NEW l \in Listers, AppendRule(l), UNCHANGED <<vars, up>>
  PROVE  ListInv'
<1> DEFINE n == entry[l][1]
<1>1. PICK r \in Copies(p[l], entry[l]) :
        cell' = [cell EXCEPT ![l] = [count |-> cell[l].count + 1, rule |-> r]]
  BY DEF AppendRule
<1>2. /\ lpc[l] = "copy" /\ lpc' = [lpc EXCEPT ![l] = "next"]
      /\ UNCHANGED <<tracersLeft, tracersSeen, p, since, seen, entry, result, lists, start>>
  BY DEF AppendRule, LGoTo
<1>3. ListTypes /\ ListerOK(l) /\ ExactOK(l)
  BY DEF ListInv
<1>4. ListTypes'
  BY <1>1, <1>2, <1>3 DEF ListTypes, Ranging
<1>5. /\ \A k \in Listers \ {l} : SameLister(k)
      /\ lpc'[l] = "next" /\ cell'[l] = [count |-> cell[l].count + 1, rule |-> r]
  BY <1>1, <1>2, <1>3 DEF SameLister, ListTypes
<1>6. UNCHANGED <<rules, born, writes, writing, inTransit>>
  BY DEF vars, tableVars
<1>7. ListerOK(l)'
  BY <1>2, <1>3, <1>5, <1>6 DEF ListerOK, Ranging
<1>8. ASSUME Undisturbed(l)' PROVE Exact(l)'
  <2>1. Exact(l)
    BY <1>2, <1>3, <1>6, <1>8 DEF ExactOK, Undisturbed
  <2>2. entry[l] \in seen[l] /\ entry[l] \in EntriesOf(p[l]) /\ inTransit = NoOne
    BY <1>2, <2>1 DEF Exact
  <2>3. n \in DOMAIN rules[p[l]] /\ r = rules[p[l]][n]
    BY <1>2, <2>1, <2>2, EntryNames DEF Copies, SlotInTransit
  <2>4. IsRuleOf(cell'[l].rule, rules[p[l]])
    BY <1>5, <2>3 DEF IsRuleOf
  <2>5. Counts(cell[l], rules[p[l]], Produced(l) \ {n})
    BY <1>2, <2>1 DEF Exact, Appended
  <2>6. Produced(l) = (Produced(l) \ {n}) \union {n}
    BY <2>2 DEF Produced
  <2>7. /\ IsFiniteSet(Produced(l))
        /\ Cardinality(Produced(l)) = Cardinality(Produced(l) \ {n}) + 1
    <3> DEFINE S == Produced(l) \ {n}
    <3>1. IsFiniteSet(S) /\ n \notin S /\ Produced(l) = S \union {n}
      BY <2>5, <2>6 DEF Counts
    <3> HIDE DEF S, n
    <3>2. IsFiniteSet(S \union {n}) /\ Cardinality(S \union {n}) = Cardinality(S) + 1
      BY <3>1, FS_AddElement
    <3> QED
      BY <3>1, <3>2 DEF S
  <2>8. Counts(cell'[l], rules[p[l]], Produced(l))
    BY <1>5, <2>4, <2>5, <2>7 DEF Counts
  <2>9. Appended(l)' = Produced(l) /\ Ranged(l)' = Ranged(l)
    BY <1>2, <1>5 DEF Appended, Produced, Ranged, Ranging
  <2>10. /\ Counts(cell[l], rules[p[l]], Appended(l))'
         /\ CountsAll(result[l], Ranged(l), rules)'
    BY <1>2, <1>6, <2>1, <2>8, <2>9 DEF Exact
  <2>11. (seen[l] \subseteq EntriesOf(p[l]))'
    BY <1>2, <1>6, <2>1 DEF Exact, EntriesOf
  <2> QED
    BY <1>2, <1>5, <1>6, <2>1, <2>10, <2>11 DEF Exact
<1>9. ExactOK(l)'
  BY <1>2, <1>3, <1>6, <1>8 DEF ExactOK
<1> QED
  BY <1>4, <1>5, <1>7, <1>9, OtherListers

LEMMA ReplyKeeps ==
  ASSUME ListInv, NEW l \in Listers, Reply(l), UNCHANGED <<vars, up>>
  PROVE  ListInv'
<1>1. /\ lpc[l] = "reply" /\ lpc' = [lpc EXCEPT ![l] = "idle"]
      /\ tracersSeen' = [tracersSeen EXCEPT ![l] = {}] /\ p' = [p EXCEPT ![l] = ""]
      /\ since' = [since EXCEPT ![l] = 0] /\ seen' = [seen EXCEPT ![l] = {}]
      /\ entry' = [entry EXCEPT ![l] = NoEntry] /\ result' = [result EXCEPT ![l] = << >>]
      /\ start' = [start EXCEPT ![l] = NoOne] /\ UNCHANGED <<tracersLeft, cell, lists>>
  BY DEF Reply, LGoTo
<1>2. ListTypes /\ ListerOK(l)
  BY DEF ListInv
<1>3. ListTypes'
  BY <1>1, <1>2 DEF ListTypes, Ranging
<1>4. /\ \A k \in Listers \ {l} : SameLister(k)
      /\ lpc'[l] = "idle" /\ tracersSeen'[l] = {} /\ result'[l] = << >> /\ start'[l] = NoOne
  BY <1>1, <1>2 DEF SameLister, ListTypes
<1>5. ListerOK(l)'
  BY <1>1, <1>2, <1>4, EmptyResult, FS_EmptySet DEF ListerOK, Ranging
<1>6. ExactOK(l)'
  BY <1>4, ListRulesAssumption DEF ExactOK, ListRulesAssumption
<1> QED
  BY <1>3, <1>4, <1>5, <1>6, OtherListers

-----------------------------------------------------------------------------
(* The theorems.                                                           *)

LEMMA ListBegins == ListInit => ListInv
<1> SUFFICES ASSUME ListInit
             PROVE  ListInv
  OBVIOUS
<1>1. TableInv
  BY InitIsClean DEF ListInit
<1>2. ListTypes
  <2>1. MaxLists \in Nat
    BY ListRulesAssumption DEF ListRulesAssumption
  <2>2. lists = 0
    BY DEF ListInit
  <2>3. lists \in 0..MaxLists
    BY <2>1, <2>2
  <2> QED
    BY <2>3 DEF ListInit, ListTypes
<1>3. StampsOK
  <2>1. born = [q \in Tracers |-> [n \in Names |-> 0]] /\ writes = 0
    BY DEF ListInit, Init
  <2>2. \A q \in Tracers, n \in Names : born[q][n] = 0
    BY <2>1
  <2> QED
    BY <2>1, <2>2 DEF StampsOK
<1>4. ASSUME NEW l \in Listers
      PROVE  ListerOK(l) /\ ExactOK(l)
  <2>1. /\ lpc[l] = "idle" /\ tracersLeft[l] = {} /\ tracersSeen[l] = {}
        /\ cell[l] = NoCell /\ result[l] = << >> /\ start[l] = NoOne
    BY DEF ListInit
  <2>2. ListerOK(l)
    BY <2>1, EmptyResult, FS_EmptySet DEF ListerOK, Ranging
  <2>3. ExactOK(l)
    BY <2>1, ListRulesAssumption DEF ExactOK, ListRulesAssumption
  <2> QED
    BY <2>2, <2>3
<1> QED
  BY <1>1, <1>2, <1>3, <1>4 DEF ListInv

LEMMA ListKeeps == ListInv /\ [ListNext]_allVars => ListInv'
<1> SUFFICES ASSUME ListInv, [ListNext]_allVars
             PROVE  ListInv'
  OBVIOUS
<1>1. CASE [Next]_vars /\ UNCHANGED <<up, listVars>>
  BY <1>1, WriterKeeps
<1>2. CASE UNCHANGED allVars
  BY <1>1, <1>2 DEF allVars
<1>3. ASSUME NEW l \in Listers, ListCall(l) \/ ListerStep(l), UNCHANGED <<vars, up>>
      PROVE  ListInv'
  BY <1>3, ListCallKeeps, OuterBeginKeeps, OuterNextKeeps, RangeKeeps, AppendRuleKeeps,
     ReplyKeeps DEF ListerStep
<1>4. ASSUME NEW l \in Listers, Abort(l), UNCHANGED vars
      PROVE  ListInv'
  <2>1. up' = FALSE /\ UNCHANGED listVars
    BY <1>4 DEF Abort
  <2>2. ListTypes' /\ \A k \in Listers : SameLister(k)
    BY <2>1 DEF ListInv, ListTypes, SameLister, listVars
  <2>3. ListerOK(l) /\ ExactOK(l) /\ SameLister(l)
    BY <2>2 DEF ListInv
  <2>4. UNCHANGED <<rules, born, writes, writing, inTransit>>
    BY <1>4 DEF vars, tableVars
  <2>5. ListerOK(l)' /\ ExactOK(l)'
    BY <2>3, <2>4, SameListing, SameExact DEF ExactOK, Undisturbed, SameLister
  <2> QED
    BY <1>4, <2>2, <2>5, OtherListers
<1> QED
  BY <1>1, <1>2, <1>3, <1>4 DEF ListNext

LEMMA ListInvHolds == ListSpec => []ListInv
BY ListBegins, ListKeeps, PTL DEF ListSpec

\* A handler only ranges over tracers of the table, whatever CreateRule and RemoveRule
\* do meanwhile, and its reply has at most one cell for each.
THEOREM ListersTyped == ListSpec => []ListTypeOK
<1>1. ASSUME ListInv
      PROVE  ListTypeOK
  <2>1. ListTypes
    BY <1>1 DEF ListInv
  <2>2. ASSUME NEW l \in Listers
        PROVE  /\ tracersLeft[l] \subseteq DOMAIN rules \ tracersSeen[l]
               /\ tracersSeen[l] \subseteq DOMAIN rules
               /\ lpc[l] \in {"range", "next", "copy", "outer"} => p[l] \in tracersSeen[l]
               /\ Len(result[l]) <= Cardinality(tracersSeen[l])
    <3>1. ListerOK(l)
      BY <1>1 DEF ListInv
    <3>2. Cardinality(tracersSeen[l]) \in Nat /\ Len(result[l]) \in Nat
      BY <3>1, FS_CardinalityType, AppendToAny DEF ListerOK
    <3>3. lpc[l] \in {"idle", "begin"} => Len(result[l]) <= Cardinality(tracersSeen[l])
      BY <3>1, EmptyResult, FS_EmptySet DEF ListerOK
    <3> QED
      BY <2>1, <3>1, <3>2, <3>3 DEF ListerOK, ListTypes, Ranging
  <2> QED
    BY <2>1, <2>2 DEF ListTypeOK, ListTypes, Ranging
<1> QED
  BY <1>1, ListInvHolds, PTL

\* A reply that no write overtakes has as many entries for each tracer as the tracer
\* has rules, and each is a rule of the table.
THEOREM RepliesCountHolds == ListSpec => []RepliesCount
<1>1. ASSUME ListInv, NEW l \in Listers, lpc[l] = "reply", Undisturbed(l)
      PROVE  /\ Listed(l) \subseteq Contents(rules)
             /\ \A q \in DOMAIN rules : CountOf(q, l) = Cardinality(DOMAIN rules[q])
  <2>1. Exact(l) /\ ListerOK(l) /\ IsTable(rules)
    BY <1>1 DEF ListInv, ExactOK, TableInv, TypeOK
  <2>2. Ranged(l) = DOMAIN rules
    BY <1>1, <2>1 DEF Exact, ListerOK, Ranged, Ranging
  <2>3. CountsAll(result[l], DOMAIN rules, rules)
    BY <2>1, <2>2 DEF Exact
  <2>4. ASSUME NEW i \in DOMAIN result[l]
        PROVE  /\ result[l][i].rule \in Contents(rules)
               /\ \E q \in DOMAIN rules :
                    /\ result[l][i].rule.tracer = q
                    /\ result[l][i].count = Cardinality(DOMAIN rules[q])
                    /\ DOMAIN rules[q] # {}
    <3>1. PICK q \in DOMAIN rules :
            DOMAIN rules[q] # {} /\ Counts(result[l][i], rules[q], DOMAIN rules[q])
      BY <2>3 DEF CountsAll
    <3>2. PICK n \in DOMAIN rules[q] : result[l][i].rule = rules[q][n]
      BY <3>1 DEF Counts, IsRuleOf
    <3> QED
      BY <2>1, <3>1, <3>2 DEF Contents, IsTable, Counts
  <2>5. ASSUME NEW q \in DOMAIN rules
        PROVE  CountOf(q, l) = Cardinality(DOMAIN rules[q])
    <3> DEFINE own == {i \in DOMAIN result[l] : result[l][i].rule.tracer = q}
    <3>1. \A i \in own : result[l][i].count = Cardinality(DOMAIN rules[q])
      BY <2>4
    <3>2. own = {} <=> DOMAIN rules[q] = {}
      <4>1. DOMAIN rules[q] # {} => own # {}
        BY <2>1, <2>3 DEF CountsAll, IsRuleOf, IsTable
      <4> QED
        BY <2>4, <4>1
    <3>3. own # {} => (CHOOSE i \in own : TRUE) \in own
      OBVIOUS
    <3>4. CountOf(q, l) = IF own = {} THEN 0 ELSE result[l][CHOOSE i \in own : TRUE].count
      BY DEF CountOf
    <3> HIDE DEF own
    <3> QED
      BY <3>1, <3>2, <3>3, <3>4, FS_EmptySet
  <2> QED
    BY <2>4, <2>5 DEF Listed
<1>2. ListInv => RepliesCount
  BY <1>1 DEF RepliesCount
<1> QED
  BY <1>2, ListInvHolds, PTL
=============================================================================
