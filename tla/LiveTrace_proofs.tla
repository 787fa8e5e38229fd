--------------------------- MODULE LiveTrace_proofs ---------------------------
(***************************************************************************)
(* Proofs about the live-trace queue, for any number of watchers, clients  *)
(* and events.                                                             *)
(***************************************************************************)
EXTENDS LiveTrace, SequenceTheorems, TLAPS

-----------------------------------------------------------------------------
(* What append and pop do to the contents of the buffer.                   *)

\* append adds one element to the contents and keeps them distinct.
LEMMA AppendContents ==
  ASSUME NEW S, NEW q \in Seq(S), NEW e \in S
  PROVE  /\ Append(q, e) \in Seq(S)
         /\ ToSet(Append(q, e)) = ToSet(q) \union {e}
         /\ (IsInjective(q) /\ e \notin ToSet(q)) => IsInjective(Append(q, e))
<1>1. /\ Append(q, e) \in Seq(S)
      /\ DOMAIN Append(q, e) = 1..(Len(q) + 1)
      /\ DOMAIN q = 1..Len(q)
      /\ Len(q) \in Nat
      /\ \A i \in 1..Len(q) : Append(q, e)[i] = q[i]
      /\ Append(q, e)[Len(q) + 1] = e
  BY AppendProperties, LenProperties
<1>2. ToSet(Append(q, e)) = ToSet(q) \union {e}
  BY <1>1 DEF ToSet
<1>3. ASSUME IsInjective(q), e \notin ToSet(q)
      PROVE  IsInjective(Append(q, e))
  BY <1>1, <1>3 DEF ToSet, IsInjective
<1> QED
  BY <1>1, <1>2, <1>3

\* popEvent on a non-empty buffer takes one element away from the contents.
LEMMA PopContents ==
  ASSUME NEW S, NEW q \in Seq(S), q # << >>
  PROVE  /\ Front(q) \in Seq(S)
         /\ Last(q) \in S
         /\ ToSet(q) = ToSet(Front(q)) \union {Last(q)}
         /\ IsInjective(q) => IsInjective(Front(q)) /\ Last(q) \notin ToSet(Front(q))
<1>1. /\ Len(q) \in Nat \ {0}
      /\ DOMAIN q = 1..Len(q)
      /\ \A i \in 1..Len(q) : q[i] \in S
  BY LenProperties, EmptySeq, ElementOfSeq
<1>2. /\ Front(q) \in Seq(S)
      /\ DOMAIN Front(q) = 1..(Len(q) - 1)
      /\ \A i \in 1..(Len(q) - 1) : Front(q)[i] = q[i]
  BY <1>1, SubSeqProperties DEF Front
<1>3. ToSet(q) = ToSet(Front(q)) \union {Last(q)}
  BY <1>1, <1>2 DEF ToSet, Last
<1>4. IsInjective(q) => IsInjective(Front(q)) /\ Last(q) \notin ToSet(Front(q))
  BY <1>1, <1>2 DEF ToSet, Last, IsInjective
<1> QED
  BY <1>1, <1>2, <1>3, <1>4 DEF Last

-----------------------------------------------------------------------------
(* Type correctness.                                                       *)

\* Every step of a watcher, of a LiveTrace call or of a client keeps the types,
\* and a call holds an event exactly while it is about to send it.
THEOREM TypeCorrect == Spec => []TypeOK
<1>1. Init => TypeOK
  <2> SUFFICES ASSUME Init
               PROVE  TypeOK
    OBVIOUS
  <2>1. events \in Seq(Ids)
    BY EmptySeq DEF Init
  <2>2. /\ watcher \in [Watchers -> Ids \union {NoEvent}]
        /\ hand \in [Streams -> Ids \union {NoEvent}]
        /\ handler \in [Streams -> Active \union {"new", "ended"}]
    BY DEF Init
  <2>3. isStreaming \in BOOLEAN /\ cancelled \in [Streams -> BOOLEAN]
    BY DEF Init
  <2>4. calls \in 0..MaxEvents /\ openedAt \in [Streams -> 0..MaxEvents]
    BY LiveTraceAssumption DEF LiveTraceAssumption, Init
  <2>5. sent \in [Streams -> SUBSET Ids] /\ failed \subseteq Ids
    BY DEF Init
  <2>6. \A s \in Streams : (hand[s] # NoEvent) <=> (handler[s] = "send")
    BY DEF Init, NoEvent
  <2> QED
    BY <2>1, <2>2, <2>3, <2>4, <2>5, <2>6 DEF TypeOK
<1>2. TypeOK /\ [Next]_vars => TypeOK'
  <2> SUFFICES ASSUME TypeOK, [Next]_vars
               PROVE  TypeOK'
    OBVIOUS
  <2> USE LiveTraceAssumption DEF LiveTraceAssumption, TypeOK, Ids, NoEvent, Active
  <2>1. ASSUME NEW w \in Watchers, AddEventTest(w)
        PROVE  TypeOK'
    BY <2>1 DEF AddEventTest, queueVars, handlerVars
  <2>2. ASSUME NEW w \in Watchers, AddEventAppend(w)
        PROVE  TypeOK'
    <3>1. watcher[w] \in Ids
      BY <2>2 DEF AddEventAppend
    <3>2. events' \in Seq(Ids)
      BY <2>2, <3>1, AppendProperties DEF AddEventAppend
    <3> QED
      BY <2>2, <3>2 DEF AddEventAppend, handlerVars, historyVars
  <2>3. ASSUME NEW s \in Streams, LiveTraceStart(s)
        PROVE  TypeOK'
    BY <2>3 DEF LiveTraceStart, GoTo
  <2>4. ASSUME NEW s \in Streams, LiveTraceTest(s)
        PROVE  TypeOK'
    BY <2>4 DEF LiveTraceTest, GoTo, queueVars, historyVars
  <2>5. ASSUME NEW s \in Streams, LiveTraceCtx(s)
        PROVE  TypeOK'
    BY <2>5 DEF LiveTraceCtx, GoTo, historyVars
  <2>6. ASSUME NEW s \in Streams, LiveTracePop(s)
        PROVE  TypeOK'
    <3>1. CASE events = << >>
      BY <2>6, <3>1 DEF LiveTracePop, GoTo, historyVars
    <3>2. CASE events # << >>
      <4>1. Front(events) \in Seq(Ids) /\ Last(events) \in Ids
        BY <3>2, PopContents
      <4>2. PICK e \in Ids : hand' = [hand EXCEPT ![s] = e]
        BY <2>6, <3>2, <4>1 DEF LiveTracePop
      <4>3. events' \in Seq(Ids)
        BY <2>6, <3>2, <4>1 DEF LiveTracePop
      <4>4. /\ handler' = [handler EXCEPT ![s] = "send"]
            /\ UNCHANGED <<isStreaming, watcher, cancelled, calls, openedAt, sent, failed>>
        BY <2>6, <3>2 DEF LiveTracePop, GoTo, historyVars
      <4> QED
        BY <4>2, <4>3, <4>4
    <3> QED
      BY <3>1, <3>2
  <2>7. ASSUME NEW s \in Streams, LiveTraceSend(s)
        PROVE  TypeOK'
    BY <2>7 DEF LiveTraceSend, GoTo, queueVars
  <2>8. ASSUME NEW s \in Streams, LiveTraceSendFails(s)
        PROVE  TypeOK'
    BY <2>8 DEF LiveTraceSendFails, GoTo
  <2>9. ASSUME NEW s \in Streams, Cancel(s)
        PROVE  TypeOK'
    BY <2>9 DEF Cancel, queueVars, handlerVars, historyVars
  <2>10. CASE UNCHANGED vars
    BY <2>10 DEF vars
  <2> QED
    BY <2>1, <2>2, <2>3, <2>4, <2>5, <2>6, <2>7, <2>8, <2>9, <2>10
       DEF Next, HandlerStep
<1> QED
  BY <1>1, <1>2, PTL DEF Spec

-----------------------------------------------------------------------------
(* The flag and the running calls.                                         *)

\* The flag is up only while some LiveTrace call runs: the call that raised it
\* either runs, or put it down on its way out.
FlagOwned == isStreaming => Running # {}

LEMMA FlagOwnedHolds == Spec => []FlagOwned
<1>1. Init => FlagOwned
  BY DEF Init, FlagOwned
<1>2. TypeOK /\ FlagOwned /\ [Next]_vars => FlagOwned'
  <2> SUFFICES ASSUME TypeOK, FlagOwned, [Next]_vars
               PROVE  FlagOwned'
    OBVIOUS
  <2> USE DEF TypeOK, FlagOwned, Running, Active
  <2>1. ASSUME NEW w \in Watchers, AddEventTest(w) \/ AddEventAppend(w)
        PROVE  FlagOwned'
    BY <2>1 DEF AddEventTest, AddEventAppend, queueVars, handlerVars
  <2>2. ASSUME NEW s \in Streams, LiveTraceStart(s)
        PROVE  FlagOwned'
    BY <2>2 DEF LiveTraceStart, GoTo
  <2>3. ASSUME NEW s \in Streams, LiveTraceTest(s)
        PROVE  FlagOwned'
    BY <2>3 DEF LiveTraceTest, GoTo, queueVars
  <2>4. ASSUME NEW s \in Streams, LiveTraceCtx(s)
        PROVE  FlagOwned'
    BY <2>4 DEF LiveTraceCtx, GoTo
  <2>5. ASSUME NEW s \in Streams, LiveTracePop(s)
        PROVE  FlagOwned'
    BY <2>5 DEF LiveTracePop, GoTo
  <2>6. ASSUME NEW s \in Streams, LiveTraceSend(s)
        PROVE  FlagOwned'
    BY <2>6 DEF LiveTraceSend, GoTo, queueVars
  <2>7. ASSUME NEW s \in Streams, LiveTraceSendFails(s)
        PROVE  FlagOwned'
    BY <2>7 DEF LiveTraceSendFails
  <2>8. ASSUME NEW s \in Streams, Cancel(s)
        PROVE  FlagOwned'
    BY <2>8 DEF Cancel, queueVars, handlerVars
  <2>9. CASE UNCHANGED vars
    BY <2>9 DEF vars
  <2> QED
    BY <2>1, <2>2, <2>3, <2>4, <2>5, <2>6, <2>7, <2>8, <2>9 DEF Next, HandlerStep
<1> QED
  BY <1>1, <1>2, TypeCorrect, PTL DEF Spec

\* What a step does to the events on their way when no call runs.
LEMMA NothingAccepted ==
  ASSUME TypeOK, FlagOwned, Running = {}, [Next]_vars
  PROVE  InFlight' \subseteq InFlight /\ Buffered' \subseteq Buffered \union InFlight
<1> USE DEF TypeOK
<1>1. ~isStreaming /\ \A s \in Streams : handler[s] \in {"new", "ended"}
  BY DEF FlagOwned, Running
<1>2. ASSUME NEW w \in Watchers, AddEventTest(w)
      PROVE  UNCHANGED <<watcher, events>>
  BY <1>1, <1>2 DEF AddEventTest, queueVars
<1>3. ASSUME NEW w \in Watchers, AddEventAppend(w)
      PROVE  /\ InFlight' \subseteq InFlight
             /\ Buffered' \subseteq Buffered \union InFlight
  <2>1. /\ watcher[w] # NoEvent /\ watcher[w] \in Ids
        /\ events' = Append(events, watcher[w])
        /\ watcher' = [watcher EXCEPT ![w] = NoEvent]
    BY <1>3 DEF AddEventAppend
  <2>2. Buffered' = Buffered \union {watcher[w]}
    BY <2>1, AppendContents DEF Buffered
  <2>3. watcher[w] \in InFlight
    BY <2>1 DEF InFlight
  <2>4. InFlight' \subseteq InFlight
    BY <2>1 DEF InFlight
  <2> QED
    BY <2>2, <2>3, <2>4
<1>4. ASSUME NEW s \in Streams, LiveTraceStart(s) \/ HandlerStep(s) \/ Cancel(s)
      PROVE  UNCHANGED <<watcher, events>>
  BY <1>1, <1>4
     DEF LiveTraceStart, HandlerStep, LiveTraceTest, LiveTraceCtx, LiveTracePop, LiveTraceSend,
         LiveTraceSendFails, Cancel, Active
<1>5. UNCHANGED <<watcher, events>> => UNCHANGED <<InFlight, Buffered>>
  BY DEF InFlight, Buffered
<1> QED
  BY <1>2, <1>3, <1>4, <1>5 DEF Next, vars

\* While no LiveTrace call runs, addEvent accepts no event: what still enters
\* the buffer had passed the test of the flag before (event.go:9-15).
THEOREM NoOrphanedBufferingHolds == Spec => NoOrphanedBuffering
<1>1. TypeOK /\ FlagOwned /\ [Next]_vars =>
        [Running = {} =>
           /\ InFlight' \subseteq InFlight
           /\ Buffered' \subseteq Buffered \union InFlight]_vars
  BY NothingAccepted
<1> QED
  BY <1>1, TypeCorrect, FlagOwnedHolds, PTL DEF Spec, NoOrphanedBuffering

\* The flag is not down under a running call unless a client has gone or a
\* Send has failed.
THEOREM StreamingWhileConnectedHolds == Spec => []StreamingWhileConnected
<1>1. Init => StreamingWhileConnected
  BY DEF Init, StreamingWhileConnected, Running, Active
<1>2. TypeOK /\ StreamingWhileConnected /\ [Next]_vars => StreamingWhileConnected'
  <2> SUFFICES ASSUME TypeOK, StreamingWhileConnected, [Next]_vars
               PROVE  StreamingWhileConnected'
    OBVIOUS
  <2> USE DEF TypeOK, StreamingWhileConnected, Running, Active
  <2>1. ASSUME NEW w \in Watchers, AddEventTest(w) \/ AddEventAppend(w)
        PROVE  StreamingWhileConnected'
    BY <2>1 DEF AddEventTest, AddEventAppend, queueVars, handlerVars, historyVars
  <2>2. ASSUME NEW s \in Streams, LiveTraceStart(s)
        PROVE  StreamingWhileConnected'
    BY <2>2 DEF LiveTraceStart
  <2>3. ASSUME NEW s \in Streams, LiveTraceTest(s)
        PROVE  StreamingWhileConnected'
    BY <2>3 DEF LiveTraceTest, GoTo, queueVars, historyVars
  <2>4. ASSUME NEW s \in Streams, LiveTraceCtx(s)
        PROVE  StreamingWhileConnected'
    BY <2>4 DEF LiveTraceCtx, GoTo, historyVars
  <2>5. ASSUME NEW s \in Streams, LiveTracePop(s)
        PROVE  StreamingWhileConnected'
    BY <2>5 DEF LiveTracePop, GoTo, historyVars
  <2>6. ASSUME NEW s \in Streams, LiveTraceSend(s)
        PROVE  StreamingWhileConnected'
    BY <2>6 DEF LiveTraceSend, GoTo, queueVars
  <2>7. ASSUME NEW s \in Streams, LiveTraceSendFails(s)
        PROVE  StreamingWhileConnected'
    BY <2>7 DEF LiveTraceSendFails, GoTo
  <2>8. ASSUME NEW s \in Streams, Cancel(s)
        PROVE  StreamingWhileConnected'
    BY <2>8 DEF Cancel, queueVars, handlerVars, historyVars
  <2>9. CASE UNCHANGED vars
    BY <2>9 DEF vars
  <2> QED
    BY <2>1, <2>2, <2>3, <2>4, <2>5, <2>6, <2>7, <2>8, <2>9 DEF Next, HandlerStep
<1> QED
  BY <1>1, <1>2, TypeCorrect, PTL DEF Spec

-----------------------------------------------------------------------------
(* Where an event is.                                                      *)

\* Only events that an addEvent call has carried are anywhere: the next call's
\* event is new.  AtMostOnce alone is not inductive without it.
Numbered ==
  /\ \A w \in Watchers : watcher[w] \in 0..calls
  /\ \A s \in Streams : hand[s] \in 0..calls
  /\ \A s \in Streams : sent[s] \subseteq 1..calls
  /\ Buffered \subseteq 1..calls
  /\ failed \subseteq 1..calls

QueueInv == TypeOK /\ Numbered /\ AtMostOnce

\* A step that moves no event keeps the invariant.
LEMMA QueueInvFrame ==
  ASSUME QueueInv, TypeOK', UNCHANGED <<events, watcher, hand, calls, sent, failed>>
  PROVE  QueueInv'
<1>1. UNCHANGED Buffered
  BY DEF Buffered
<1>2. Numbered'
  BY <1>1 DEF QueueInv, Numbered
<1>3. NoDupBuffered' /\ NoDupInFlight' /\ NoDupInHand' /\ NoDupSent' /\ NoDupFailed'
  BY <1>1 DEF QueueInv, AtMostOnce, NoDupBuffered, NoDupInFlight, NoDupInHand,
              NoDupSent, NoDupFailed
<1> QED
  BY <1>2, <1>3 DEF QueueInv, AtMostOnce

\* addEvent's test: a streaming server takes on a new event.
LEMMA AddEventTestInv ==
  ASSUME QueueInv, TypeOK', NEW w \in Watchers, AddEventTest(w)
  PROVE  QueueInv'
<1> USE DEF TypeOK, QueueInv, AtMostOnce, NoEvent
<1>1. /\ calls \in Nat
      /\ calls' = calls + 1
      /\ watcher' = [watcher EXCEPT ![w] = IF isStreaming THEN calls + 1 ELSE NoEvent]
      /\ UNCHANGED <<events, hand, sent, failed>>
  BY LiveTraceAssumption
     DEF LiveTraceAssumption, AddEventTest, queueVars, handlerVars
<1>2. UNCHANGED Buffered
  BY <1>1 DEF Buffered
<1>3. Numbered'
  <2>2. 0..calls \subseteq 0..calls' /\ 1..calls \subseteq 1..calls'
    BY <1>1
  <2>3. NoEvent \in 0..calls' /\ calls + 1 \in 0..calls'
    BY <1>1
  <2>4. \A v \in Watchers : watcher'[v] \in 0..calls'
    BY <1>1, <2>2, <2>3 DEF Numbered
  <2>5. /\ \A s \in Streams : hand'[s] \in 0..calls' /\ sent'[s] \subseteq 1..calls'
        /\ Buffered' \subseteq 1..calls'
        /\ failed' \subseteq 1..calls'
    BY <1>1, <1>2, <2>2 DEF Numbered
  <2> QED
    BY ONLY <2>4, <2>5 DEF Numbered
<1>4. NoDupInFlight'
  BY <1>1, <1>2 DEF NoDupInFlight, Numbered
<1>5. NoDupBuffered' /\ NoDupInHand' /\ NoDupSent' /\ NoDupFailed'
  BY <1>1, <1>2 DEF NoDupBuffered, NoDupInHand, NoDupSent, NoDupFailed
<1> QED
  BY <1>3, <1>4, <1>5

\* addEvent's append: the event moves from the call to the buffer.
LEMMA AddEventAppendInv ==
  ASSUME QueueInv, TypeOK', NEW w \in Watchers, AddEventAppend(w)
  PROVE  QueueInv'
<1> USE DEF TypeOK, QueueInv, AtMostOnce, NoEvent
<1> DEFINE e == watcher[w]
<1>1. /\ e # 0 /\ e \in Ids
      /\ events' = Append(events, e)
      /\ watcher' = [watcher EXCEPT ![w] = 0]
      /\ UNCHANGED <<hand, calls, sent, failed>>
  BY DEF AddEventAppend, handlerVars, historyVars
<1>2. e \notin Buffered /\ e \notin failed
  BY <1>1 DEF NoDupInFlight
<1>3. Buffered' = Buffered \union {e}
  BY <1>1, AppendContents DEF Buffered
<1>4. NoDupBuffered'
  BY <1>1, <1>2, AppendContents DEF NoDupBuffered, Buffered
<1>5. Numbered'
  <2>1. e \in 1..calls /\ 0 \in 0..calls
    BY <1>1, LiveTraceAssumption DEF LiveTraceAssumption, Numbered
  <2>2. Numbered /\ watcher \in [Watchers -> Ids \union {NoEvent}]
    OBVIOUS
  <2> QED
    BY ONLY <1>1, <1>3, <2>1, <2>2 DEF Numbered
<1>6. NoDupInFlight'
  BY <1>1, <1>3 DEF NoDupInFlight
<1>7. NoDupInHand'
  BY <1>1, <1>3 DEF NoDupInHand, NoDupInFlight
<1>8. NoDupSent'
  BY <1>1, <1>3 DEF NoDupSent, NoDupInFlight
<1>9. NoDupFailed'
  BY <1>1, <1>2, <1>3 DEF NoDupFailed
<1> QED
  BY <1>4, <1>5, <1>6, <1>7, <1>8, <1>9

\* popEvent: the event moves from the buffer to the handler.
LEMMA LiveTracePopInv ==
  ASSUME QueueInv, TypeOK', NEW s \in Streams, LiveTracePop(s)
  PROVE  QueueInv'
<1> USE DEF TypeOK, QueueInv, AtMostOnce, NoEvent
<1>1. CASE events = << >>
  BY <1>1, QueueInvFrame DEF LiveTracePop, historyVars
<1>2. CASE events # << >>
  <2> DEFINE e == Last(events)
  <2>1. /\ events' = Front(events)
        /\ hand' = [hand EXCEPT ![s] = e]
        /\ hand[s] = 0
        /\ UNCHANGED <<watcher, calls, sent, failed>>
    BY <1>2 DEF LiveTracePop, historyVars
  <2>2. /\ e \in Ids
        /\ Buffered = Buffered' \union {e}
        /\ e \notin Buffered'
        /\ NoDupBuffered'
    BY <1>2, <2>1, PopContents DEF NoDupBuffered, Buffered
  <2> HIDE DEF e
  <2>3. Numbered'
    BY <2>1, <2>2 DEF Numbered, Ids
  <2>4. NoDupInFlight'
    BY <2>1, <2>2 DEF NoDupInFlight
  <2>5. NoDupInHand'
    BY <2>1, <2>2 DEF NoDupInHand, NoDupSent, NoDupFailed
  <2>6. NoDupSent' /\ NoDupFailed'
    BY <2>1, <2>2 DEF NoDupSent, NoDupFailed
  <2> QED
    BY <2>2, <2>3, <2>4, <2>5, <2>6
<1> QED
  BY <1>1, <1>2

\* Send: the event moves from the handler to the client.
LEMMA LiveTraceSendInv ==
  ASSUME QueueInv, TypeOK', NEW s \in Streams, LiveTraceSend(s)
  PROVE  QueueInv'
<1> USE DEF TypeOK, QueueInv, AtMostOnce, NoEvent
<1>1. /\ hand[s] # 0
      /\ hand' = [hand EXCEPT ![s] = 0]
      /\ sent' = [sent EXCEPT ![s] = @ \union {hand[s]}]
      /\ UNCHANGED <<events, watcher, calls, failed>>
  BY DEF LiveTraceSend, queueVars
<1>2. UNCHANGED Buffered
  BY <1>1 DEF Buffered
<1>3. Numbered'
  <2>1. hand[s] \in 1..calls /\ 0 \in 0..calls
    BY <1>1, LiveTraceAssumption DEF LiveTraceAssumption, Numbered
  <2>2. Numbered
    OBVIOUS
  <2>3. hand \in [Streams -> Ids \union {NoEvent}] /\ sent \in [Streams -> SUBSET Ids]
    OBVIOUS
  <2> QED
    BY ONLY <1>1, <1>2, <2>1, <2>2, <2>3 DEF Numbered
<1>4. NoDupInFlight'
  BY <1>1, <1>2 DEF NoDupInFlight
<1>5. NoDupInHand'
  BY <1>1, <1>2 DEF NoDupInHand
<1>6. NoDupSent'
  BY <1>1, <1>2 DEF NoDupInHand, NoDupSent
<1>7. NoDupBuffered' /\ NoDupFailed'
  BY <1>1, <1>2 DEF NoDupBuffered, NoDupFailed
<1> QED
  BY <1>3, <1>4, <1>5, <1>6, <1>7

\* A failed Send: the event moves from the handler to the lost ones.
LEMMA LiveTraceSendFailsInv ==
  ASSUME QueueInv, TypeOK', NEW s \in Streams, LiveTraceSendFails(s)
  PROVE  QueueInv'
<1> USE DEF TypeOK, QueueInv, AtMostOnce, NoEvent
<1>1. /\ hand[s] # 0
      /\ hand' = [hand EXCEPT ![s] = 0]
      /\ failed' = failed \union {hand[s]}
      /\ UNCHANGED <<events, watcher, calls, sent>>
  BY DEF LiveTraceSendFails
<1>2. UNCHANGED Buffered
  BY <1>1 DEF Buffered
<1>3. Numbered'
  <2>1. hand[s] \in 1..calls /\ 0 \in 0..calls
    BY <1>1, LiveTraceAssumption DEF LiveTraceAssumption, Numbered
  <2>2. Numbered
    OBVIOUS
  <2>3. hand \in [Streams -> Ids \union {NoEvent}] /\ sent \in [Streams -> SUBSET Ids]
    OBVIOUS
  <2> QED
    BY ONLY <1>1, <1>2, <2>1, <2>2, <2>3 DEF Numbered
<1>4. NoDupInFlight'
  BY <1>1, <1>2 DEF NoDupInFlight
<1>5. NoDupInHand'
  BY <1>1, <1>2 DEF NoDupInHand
<1>6. NoDupSent'
  BY <1>1, <1>2 DEF NoDupInHand, NoDupSent
<1>7. NoDupBuffered' /\ NoDupFailed'
  BY <1>1, <1>2 DEF NoDupBuffered, NoDupInHand, NoDupFailed
<1> QED
  BY <1>3, <1>4, <1>5, <1>6, <1>7

\* The invariant is inductive.
LEMMA QueueInvStep == QueueInv /\ TypeOK' /\ [Next]_vars => QueueInv'
<1> SUFFICES ASSUME QueueInv, TypeOK', [Next]_vars
             PROVE  QueueInv'
  OBVIOUS
<1>1. ASSUME NEW w \in Watchers, AddEventTest(w) \/ AddEventAppend(w)
      PROVE  QueueInv'
  BY <1>1, AddEventTestInv, AddEventAppendInv
<1>2. ASSUME NEW s \in Streams, LiveTraceStart(s) \/ LiveTraceTest(s) \/ LiveTraceCtx(s)
      PROVE  QueueInv'
  BY <1>2, QueueInvFrame
     DEF LiveTraceStart, LiveTraceTest, LiveTraceCtx, queueVars, historyVars
<1>3. ASSUME NEW s \in Streams, Cancel(s)
      PROVE  QueueInv'
  BY <1>3, QueueInvFrame DEF Cancel, queueVars, handlerVars, historyVars
<1>4. ASSUME NEW s \in Streams, LiveTracePop(s) \/ LiveTraceSend(s) \/ LiveTraceSendFails(s)
      PROVE  QueueInv'
  BY <1>4, LiveTracePopInv, LiveTraceSendInv, LiveTraceSendFailsInv
<1>5. CASE UNCHANGED vars
  BY <1>5, QueueInvFrame DEF vars
<1> QED
  BY <1>1, <1>2, <1>3, <1>4, <1>5 DEF Next, HandlerStep

LEMMA QueueInvInit == Init /\ TypeOK => QueueInv
<1> SUFFICES ASSUME Init, TypeOK
             PROVE  QueueInv
  OBVIOUS
<1>1. Buffered = {} /\ NoDupBuffered
  BY DEF Init, Buffered, NoDupBuffered, ToSet, IsInjective
<1>2. Numbered
  BY <1>1 DEF Init, Numbered, NoEvent
<1>3. NoDupInFlight /\ NoDupInHand
  BY DEF Init, NoDupInFlight, NoDupInHand
<1>4. NoDupSent /\ NoDupFailed
  BY DEF Init, NoDupSent, NoDupFailed
<1> QED
  BY <1>1, <1>2, <1>3, <1>4 DEF QueueInv, AtMostOnce

LEMMA QueueInvHolds == Spec => []QueueInv
BY QueueInvInit, QueueInvStep, TypeCorrect, PTL DEF Spec

\* However pops, appends, sends and disconnects interleave, an event is in one
\* place at a time; so it reaches at most one client, once.
THEOREM AtMostOnceHolds == Spec => []AtMostOnce
<1>1. QueueInv => AtMostOnce
  BY DEF QueueInv
<1> QED
  BY <1>1, QueueInvHolds, PTL

-----------------------------------------------------------------------------
(* The queue implements EventPool.                                         *)

\* What the steps do to the mapped pool.
InPool == InFlight \union Buffered \union InHand

LEMMA PoolFrame ==
  ASSUME UNCHANGED <<events, watcher, hand, sent, failed>>
  PROVE  UNCHANGED Pool!vars
<1>1. UNCHANGED <<InFlight, Buffered, InHand>>
  BY DEF InFlight, Buffered, InHand
<1> QED
  BY <1>1 DEF Pool!vars

\* addEvent's test accepts the event, or drops it before the pool sees it.
LEMMA AddEventTestImplements ==
  ASSUME QueueInv, NEW w \in Watchers, AddEventTest(w)
  PROVE  [Pool!Next]_(Pool!vars)
<1>1. CASE ~isStreaming
  <2>1. watcher' = watcher
    BY <1>1 DEF AddEventTest, QueueInv, TypeOK
  <2> QED
    BY <2>1, PoolFrame DEF AddEventTest, queueVars, handlerVars
<1>2. CASE isStreaming
  <2> DEFINE e == calls + 1
  <2>1. /\ calls \in Nat /\ e \in Ids /\ e # NoEvent
        /\ watcher[w] = NoEvent
        /\ watcher' = [watcher EXCEPT ![w] = e]
        /\ UNCHANGED <<events, hand, sent, failed>>
    BY <1>2, LiveTraceAssumption
       DEF LiveTraceAssumption, AddEventTest, queueVars, handlerVars, QueueInv, TypeOK,
           Ids, NoEvent
  <2>2. e \notin Pool!Known
    BY <2>1 DEF QueueInv, Numbered, Pool!Known, InFlight, InHand, Buffered
  <2> HIDE DEF e
  <2>3. InFlight' = InFlight \union {e}
    BY <2>1 DEF InFlight, QueueInv, TypeOK
  <2>4. UNCHANGED <<Buffered, InHand>>
    BY <2>1 DEF Buffered, InHand
  <2>5. Pool!Accept(e)
    BY <2>1, <2>2, <2>3, <2>4 DEF Pool!Accept
  <2> QED
    BY <2>1, <2>5 DEF Pool!Next
<1> QED
  BY <1>1, <1>2

\* The append moves the event inside the pool.
LEMMA AddEventAppendImplements ==
  ASSUME QueueInv, NEW w \in Watchers, AddEventAppend(w)
  PROVE  UNCHANGED Pool!vars
<1> DEFINE e == watcher[w]
<1>1. /\ e # NoEvent /\ e \in Ids
      /\ events \in Seq(Ids)
      /\ events' = Append(events, e)
      /\ watcher' = [watcher EXCEPT ![w] = NoEvent]
      /\ watcher \in [Watchers -> Ids \union {NoEvent}]
      /\ \A v \in Watchers \ {w} : watcher[v] # e
      /\ UNCHANGED <<hand, sent, failed>>
  BY DEF AddEventAppend, handlerVars, historyVars, QueueInv, TypeOK, AtMostOnce,
         NoDupInFlight
<1>2. Buffered' = Buffered \union {e}
  BY <1>1, AppendContents DEF Buffered
<1>3. e \in InFlight /\ InFlight' = InFlight \ {e}
  BY ONLY <1>1 DEF InFlight
<1>4. UNCHANGED InHand
  BY <1>1 DEF InHand
<1> QED
  BY <1>1, <1>2, <1>3, <1>4 DEF Pool!vars

\* So does popEvent.
LEMMA LiveTracePopImplements ==
  ASSUME QueueInv, NEW s \in Streams, LiveTracePop(s)
  PROVE  UNCHANGED Pool!vars
<1>1. CASE events = << >>
  BY <1>1, PoolFrame DEF LiveTracePop, historyVars
<1>2. CASE events # << >>
  <2> DEFINE e == Last(events)
  <2>1. /\ events \in Seq(Ids)
        /\ events' = Front(events)
        /\ hand \in [Streams -> Ids \union {NoEvent}]
        /\ hand[s] = NoEvent
        /\ hand' = [hand EXCEPT ![s] = e]
        /\ UNCHANGED <<watcher, sent, failed>>
    BY <1>2 DEF LiveTracePop, historyVars, QueueInv, TypeOK
  <2>2. Buffered = Buffered' \union {e} /\ e \in Ids
    BY <1>2, <2>1, PopContents DEF Buffered
  <2> HIDE DEF e
  <2>3. e # NoEvent
    BY <2>2, LiveTraceAssumption DEF LiveTraceAssumption, Ids, NoEvent
  <2>4. InHand' = InHand \union {e}
    BY ONLY <2>1, <2>3 DEF InHand
  <2>5. UNCHANGED InFlight
    BY <2>1 DEF InFlight
  <2> QED
    BY <2>1, <2>2, <2>4, <2>5 DEF Pool!vars
<1> QED
  BY <1>1, <1>2

\* Leaving a handler takes the event out of the pool.
LEMMA HandEmptied ==
  ASSUME QueueInv, NEW s \in Streams, hand[s] # NoEvent,
         hand' = [hand EXCEPT ![s] = NoEvent], UNCHANGED <<events, watcher>>
  PROVE  /\ hand[s] \in InPool
         /\ InPool' = InPool \ {hand[s]}
<1>1. /\ hand \in [Streams -> Ids \union {NoEvent}]
      /\ \A r \in Streams \ {s} : hand[r] # hand[s]
      /\ hand[s] \notin Buffered
      /\ \A w \in Watchers : watcher[w] # hand[s]
  BY DEF QueueInv, TypeOK, AtMostOnce, NoDupInHand, NoDupInFlight
<1>2. hand[s] \in InHand /\ InHand' = InHand \ {hand[s]}
  BY ONLY <1>1, hand[s] # NoEvent, hand' = [hand EXCEPT ![s] = NoEvent] DEF InHand
<1>3. UNCHANGED <<InFlight, Buffered>>
  BY DEF InFlight, Buffered
<1>4. hand[s] \notin InFlight
  BY <1>1 DEF InFlight
<1> QED
  BY <1>1, <1>2, <1>3, <1>4 DEF InPool

\* Every step of the queue is a step of EventPool or leaves it unchanged, so
\* nothing but a failed Send makes an accepted event vanish, and nothing is
\* sent that was not accepted.
THEOREM ImplementsEventPool == Spec => PoolSpec
<1>1. Init => Pool!Init
  BY DEF Init, Pool!Init, InFlight, Buffered, InHand, ToSet
<1>2. QueueInv /\ [Next]_vars => [Pool!Next]_(Pool!vars)
  <2> SUFFICES ASSUME QueueInv, [Next]_vars
               PROVE  [Pool!Next]_(Pool!vars)
    OBVIOUS
  <2>1. ASSUME NEW w \in Watchers, AddEventTest(w) \/ AddEventAppend(w)
        PROVE  [Pool!Next]_(Pool!vars)
    BY <2>1, AddEventTestImplements, AddEventAppendImplements
  <2>2. ASSUME NEW s \in Streams, LiveTraceStart(s) \/ LiveTraceTest(s) \/ LiveTraceCtx(s)
        PROVE  UNCHANGED Pool!vars
    BY <2>2, PoolFrame DEF LiveTraceStart, LiveTraceTest, LiveTraceCtx, queueVars, historyVars
  <2>3. ASSUME NEW s \in Streams, Cancel(s)
        PROVE  UNCHANGED Pool!vars
    BY <2>3, PoolFrame DEF Cancel, queueVars, handlerVars, historyVars
  <2>4. ASSUME NEW s \in Streams, LiveTracePop(s)
        PROVE  UNCHANGED Pool!vars
    BY <2>4, LiveTracePopImplements
  <2>5. ASSUME NEW s \in Streams, LiveTraceSend(s)
        PROVE  Pool!Next
    <3>1. /\ hand[s] # NoEvent /\ hand[s] \in Ids
          /\ hand' = [hand EXCEPT ![s] = NoEvent]
          /\ sent' = [sent EXCEPT ![s] = @ \union {hand[s]}]
          /\ UNCHANGED <<events, watcher, failed>>
      BY <2>5 DEF LiveTraceSend, queueVars, QueueInv, TypeOK
    <3>2. Pool!Deliver(hand[s], s)
      BY <3>1, HandEmptied DEF InPool, Pool!Deliver
    <3> QED
      BY <3>1, <3>2 DEF Pool!Next
  <2>6. ASSUME NEW s \in Streams, LiveTraceSendFails(s)
        PROVE  Pool!Next
    <3>1. /\ hand[s] # NoEvent /\ hand[s] \in Ids
          /\ hand' = [hand EXCEPT ![s] = NoEvent]
          /\ failed' = failed \union {hand[s]}
          /\ UNCHANGED <<events, watcher, sent>>
      BY <2>6 DEF LiveTraceSendFails, QueueInv, TypeOK
    <3>2. Pool!Lose(hand[s])
      BY <3>1, HandEmptied DEF InPool, Pool!Lose
    <3> QED
      BY <3>1, <3>2 DEF Pool!Next
  <2>7. CASE UNCHANGED vars
    BY <2>7, PoolFrame DEF vars
  <2> QED
    BY <2>1, <2>2, <2>3, <2>4, <2>5, <2>6, <2>7 DEF Next, HandlerStep
<1> QED
  BY <1>1, <1>2, QueueInvHolds, PTL DEF Spec, PoolSpec, Pool!Spec

-----------------------------------------------------------------------------
(* The end of a call whose client has gone.                                *)

\* Only a client that has called goes.
CalledFirst == \A s \in Streams : cancelled[s] => handler[s] # "new"

LEMMA OwnStepRunsDown ==
  ASSUME TypeOK, NEW s \in Streams, HandlerStep(s), cancelled[s]
  PROVE  /\ StepsLeft[handler'[s]] < StepsLeft[handler[s]]
         /\ UNCHANGED cancelled
         /\ \A r \in Streams \ {s} : handler'[r] = handler[r]
<1>1. handler \in [Streams -> Active \union {"new", "ended"}]
  BY DEF TypeOK
<1>2. UNCHANGED cancelled /\ \E l : handler' = [handler EXCEPT ![s] = l]
  BY DEF HandlerStep, LiveTraceTest, LiveTraceCtx, LiveTracePop, LiveTraceSend,
    LiveTraceSendFails, GoTo
<1>3. \/ handler[s] = "pop" /\ handler'[s] \in {"send", "test"}
      \/ handler[s] = "send" /\ handler'[s] \in {"test", "ended"}
      \/ handler[s] = "test" /\ handler'[s] \in {"ctx", "ended"}
      \/ handler[s] = "ctx" /\ handler'[s] = "ended"
  BY <1>1 DEF HandlerStep, LiveTraceTest, LiveTraceCtx, LiveTracePop, LiveTraceSend,
    LiveTraceSendFails, GoTo
<1>4. StepsLeft[handler'[s]] < StepsLeft[handler[s]]
  BY <1>3 DEF StepsLeft
<1> QED
  BY <1>1, <1>2, <1>4

LEMMA StepRunsDown ==
  ASSUME TypeOK, CalledFirst, [Next]_vars, NEW s \in Streams, cancelled[s]
  PROVE  /\ cancelled'[s]
         /\ IF HandlerStep(s) THEN StepsLeft[handler'[s]] < StepsLeft[handler[s]]
            ELSE handler'[s] = handler[s]
<1>1. CASE HandlerStep(s)
  BY <1>1, OwnStepRunsDown
<1>2. CASE ~HandlerStep(s)
  <2> SUFFICES cancelled'[s] /\ handler'[s] = handler[s]
    BY <1>2
  <2>1. CASE UNCHANGED vars
    BY <2>1 DEF vars, handlerVars
  <2>2. ASSUME NEW w \in Watchers, AddEventTest(w) \/ AddEventAppend(w)
        PROVE  cancelled'[s] /\ handler'[s] = handler[s]
    BY <2>2 DEF AddEventTest, AddEventAppend, handlerVars
  <2>3. ASSUME NEW r \in Streams, LiveTraceStart(r)
        PROVE  cancelled'[s] /\ handler'[s] = handler[s]
    <3>1. handler[s] # "new"
      BY DEF CalledFirst
    <3> QED
      BY <2>3, <3>1 DEF LiveTraceStart, GoTo, TypeOK
  <2>4. ASSUME NEW r \in Streams, HandlerStep(r)
        PROVE  cancelled'[s] /\ handler'[s] = handler[s]
    <3>1. r # s
      BY <1>2, <2>4
    <3> QED
      BY <2>4, <3>1 DEF TypeOK, HandlerStep, LiveTraceTest, LiveTraceCtx, LiveTracePop,
        LiveTraceSend, LiveTraceSendFails, GoTo
  <2>5. ASSUME NEW r \in Streams, Cancel(r)
        PROVE  cancelled'[s] /\ handler'[s] = handler[s]
    BY <2>5 DEF Cancel, handlerVars, TypeOK
  <2> QED
    BY <2>1, <2>2, <2>3, <2>4, <2>5 DEF Next
<1> QED
  BY <1>1, <1>2

LEMMA CalledFirstStep ==
  ASSUME TypeOK, CalledFirst, [Next]_vars
  PROVE  CalledFirst'
<1> SUFFICES ASSUME NEW s \in Streams, cancelled'[s]
             PROVE  handler'[s] # "new"
  BY DEF CalledFirst
<1>1. handler[s] # "new" => handler'[s] # "new"
  BY DEF TypeOK, Next, HandlerStep, AddEventTest, AddEventAppend, LiveTraceStart, LiveTraceTest,
    LiveTraceCtx, LiveTracePop, LiveTraceSend, LiveTraceSendFails, Cancel, GoTo, handlerVars,
    vars
<1>2. CASE cancelled[s]
  BY <1>1, <1>2 DEF CalledFirst
<1>3. CASE ~cancelled[s]
  <2>1. Cancel(s)
    BY <1>3
    DEF TypeOK, Next, HandlerStep, AddEventTest, AddEventAppend, LiveTraceStart, LiveTraceTest,
      LiveTraceCtx, LiveTracePop, LiveTraceSend, LiveTraceSendFails, Cancel, vars
  <2> QED
    BY <1>1, <2>1 DEF Cancel, Active
<1> QED
  BY <1>2, <1>3

\* Why a call whose client has gone ends (api.go:217-233): each of its own steps brings it
\* nearer to its end, and nobody else's moves it.
THEOREM CancelledGetsOn == Spec => CancelledRunDown
<1>1. Init => CalledFirst
  BY DEF Init, CalledFirst
<1>2. TypeOK /\ CalledFirst /\ [Next]_vars =>
        [\A s \in Streams : cancelled[s] =>
           /\ cancelled'[s]
           /\ IF HandlerStep(s) THEN StepsLeft[handler'[s]] < StepsLeft[handler[s]]
              ELSE handler'[s] = handler[s]]_vars
  BY StepRunsDown
<1> QED
  BY <1>1, <1>2, CalledFirstStep, TypeCorrect, PTL DEF Spec, CancelledRunDown
=============================================================================
