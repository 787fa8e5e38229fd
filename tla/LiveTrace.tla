------------------------------ MODULE LiveTrace ------------------------------
(***************************************************************************)
(* The live-trace queue: apiServer.isStreaming, apiServer.events and       *)
(* eventsMutex, used by                                                    *)
(*   - the watcher goroutines, which call addEvent (api/event.go) for      *)
(*     every event that passes the rules (api/api.go, NewServer), and      *)
(*   - one LiveTrace handler goroutine per connected `bpfd trace` client,  *)
(*     which calls popEvent and stream.Send in a loop.                     *)
(*                                                                         *)
(* isStreaming is read and written without a lock, so each access is a     *)
(* step of its own.  addEvent's append and the whole of popEvent run under *)
(* eventsMutex and touch nothing else: each is one step.                   *)
(*                                                                         *)
(* An event is the number of the addEvent call that carries it.            *)
(***************************************************************************)
EXTENDS Naturals, Sequences, SequencesExt

CONSTANTS
  Watchers,      \* the goroutines that call addEvent, one per tracer
  Streams,       \* the LiveTrace calls clients make, each at most once
  MaxEvents,     \* bound: the number of addEvent calls
  Unencodable    \* the events Send cannot marshal (a string that is not UTF-8)

ASSUME LiveTraceAssumption ==
  /\ MaxEvents \in Nat
  /\ Unencodable \subseteq 1..MaxEvents

VARIABLES
  isStreaming,   \* apiServer.isStreaming
  events,        \* apiServer.events
  watcher,       \* the event an addEvent call is about to append, or NoEvent
  handler,       \* program counter of the LiveTrace call
  hand,          \* LiveTrace's local `event`, or NoEvent
  cancelled,     \* the client has gone: stream.Context().Err() # nil
  calls,         \* history: how many addEvent calls there have been
  openedAt,      \* history: the value of calls when the LiveTrace call began
  sent,          \* history: the events whose Send returned nil
  failed         \* history: the events whose Send returned an error

queueVars == <<isStreaming, events>>
handlerVars == <<handler, hand>>
historyVars == <<calls, openedAt, sent, failed>>
vars == <<isStreaming, events, watcher, handler, hand, cancelled,
          calls, openedAt, sent, failed>>

NoEvent == 0
Ids == 1..MaxEvents

\* The program points of LiveTrace between its first and its last statement.
Active == {"test", "ctx", "pop", "send"}

Init ==
  /\ isStreaming = FALSE
  /\ events = << >>
  /\ watcher = [w \in Watchers |-> NoEvent]
  /\ handler = [s \in Streams |-> "new"]
  /\ hand = [s \in Streams |-> NoEvent]
  /\ cancelled = [s \in Streams |-> FALSE]
  /\ calls = 0
  /\ openedAt = [s \in Streams |-> 0]
  /\ sent = [s \in Streams |-> {}]
  /\ failed = {}

-----------------------------------------------------------------------------
GoTo(s, pc) == handler' = [handler EXCEPT ![s] = pc]

-----------------------------------------------------------------------------
(* Faulty variants of actions below.  No specification uses them: putting  *)
(* one in the place of its action must break the property named here.      *)

\* TypeOK: LiveTrace without the test of event == nil.
PopNilSent(s) ==
  /\ handler[s] = "pop"
  /\ GoTo(s, "send")
  /\ hand' = [hand EXCEPT ![s] = IF events = << >> THEN NoEvent ELSE Last(events)]
  /\ events' = IF events = << >> THEN events ELSE Front(events)
  /\ UNCHANGED <<isStreaming, watcher, cancelled, historyVars>>

\* NoOrphanedBuffering: the error return of Send leaves the flag up.
SendFailsKeepsFlag(s) ==
  /\ handler[s] = "send"
  /\ cancelled[s] \/ hand[s] \in Unencodable
  /\ GoTo(s, "ended")
  /\ failed' = failed \union {hand[s]}
  /\ hand' = [hand EXCEPT ![s] = NoEvent]
  /\ UNCHANGED <<queueVars, watcher, cancelled, calls, openedAt, sent>>

\* StreamingWhileConnected: an empty buffer ends the call and puts the flag down.
PopEmptyEnds(s) ==
  /\ handler[s] = "pop"
  /\ IF events = << >>
     THEN GoTo(s, "ended") /\ isStreaming' = FALSE /\ UNCHANGED <<events, hand>>
     ELSE /\ GoTo(s, "send")
          /\ hand' = [hand EXCEPT ![s] = Last(events)]
          /\ events' = Front(events)
          /\ UNCHANGED isStreaming
  /\ UNCHANGED <<watcher, cancelled, historyVars>>

\* AtMostOnce: popEvent reads the element without shortening the slice.
PopKeepsEvent(s) ==
  /\ handler[s] = "pop"
  /\ IF events = << >>
     THEN GoTo(s, "test") /\ UNCHANGED hand
     ELSE GoTo(s, "send") /\ hand' = [hand EXCEPT ![s] = Last(events)]
  /\ UNCHANGED <<queueVars, watcher, cancelled, historyVars>>

\* PoolSpec: addEvent tests the flag again under the lock and gives up.
AppendRechecks(w) ==
  /\ watcher[w] # NoEvent
  /\ events' = IF isStreaming THEN Append(events, watcher[w]) ELSE events
  /\ watcher' = [watcher EXCEPT ![w] = NoEvent]
  /\ UNCHANGED <<isStreaming, handlerVars, cancelled, historyVars>>

\* CancelledEnds: the loop only finds out that the client has gone from Send.
CtxUnchecked(s) ==
  /\ handler[s] = "ctx"
  /\ GoTo(s, "pop")
  /\ UNCHANGED <<queueVars, watcher, hand, cancelled, historyVars>>

\* AcceptedIsSent: popEvent with an off-by-one, len(s.events) > 1.
PopOffByOne(s) ==
  /\ handler[s] = "pop"
  /\ IF Len(events) <= 1
     THEN GoTo(s, "test") /\ UNCHANGED <<events, hand>>
     ELSE /\ GoTo(s, "send")
          /\ hand' = [hand EXCEPT ![s] = Last(events)]
          /\ events' = Front(events)
  /\ UNCHANGED <<isStreaming, watcher, cancelled, historyVars>>

-----------------------------------------------------------------------------
(* addEvent: the unlocked test of isStreaming, then the locked append.     *)

AddEventTest(w) ==
  /\ watcher[w] = NoEvent
  /\ calls < MaxEvents
  /\ calls' = calls + 1
  /\ watcher' = [watcher EXCEPT ![w] = IF isStreaming THEN calls + 1 ELSE NoEvent]
  /\ UNCHANGED <<queueVars, handlerVars, cancelled, openedAt, sent, failed>>

AddEventAppend(w) ==
  /\ watcher[w] # NoEvent
  /\ events' = Append(events, watcher[w])
  /\ watcher' = [watcher EXCEPT ![w] = NoEvent]
  /\ UNCHANGED <<isStreaming, handlerVars, cancelled, historyVars>>

-----------------------------------------------------------------------------
(* LiveTrace.                                                              *)

\* A client calls LiveTrace: s.isStreaming = true.
LiveTraceStart(s) ==
  /\ handler[s] = "new"
  /\ GoTo(s, "test")
  /\ isStreaming' = TRUE
  /\ openedAt' = [openedAt EXCEPT ![s] = calls]
  /\ UNCHANGED <<events, watcher, hand, cancelled, calls, sent, failed>>

\* for s.isStreaming: when the flag is down the call returns nil.
LiveTraceTest(s) ==
  /\ handler[s] = "test"
  /\ GoTo(s, IF isStreaming THEN "ctx" ELSE "ended")
  /\ UNCHANGED <<queueVars, watcher, hand, cancelled, historyVars>>

\* The context check: a client that has gone puts the flag down.
LiveTraceCtx(s) ==
  /\ handler[s] = "ctx"
  /\ GoTo(s, IF cancelled[s] THEN "ended" ELSE "pop")
  /\ isStreaming' = (isStreaming /\ ~cancelled[s])
  /\ UNCHANGED <<events, watcher, hand, cancelled, historyVars>>

\* popEvent takes the last element; nil sends the loop round again.
LiveTracePop(s) ==
  /\ handler[s] = "pop"
  /\ IF events = << >>
     THEN GoTo(s, "test") /\ UNCHANGED <<events, hand>>
     ELSE /\ GoTo(s, "send")
          /\ hand' = [hand EXCEPT ![s] = Last(events)]
          /\ events' = Front(events)
  /\ UNCHANGED <<isStreaming, watcher, cancelled, historyVars>>

\* stream.Send returns nil.  It may do so for a client that has just gone.
LiveTraceSend(s) ==
  /\ handler[s] = "send"
  /\ hand[s] \notin Unencodable
  /\ GoTo(s, "test")
  /\ sent' = [sent EXCEPT ![s] = @ \union {hand[s]}]
  /\ hand' = [hand EXCEPT ![s] = NoEvent]
  /\ UNCHANGED <<queueVars, watcher, cancelled, calls, openedAt, failed>>

\* stream.Send returns an error: the client has gone, or the event cannot be
\* marshalled.  The flag goes down and the popped event is dropped.
LiveTraceSendFails(s) ==
  /\ handler[s] = "send"
  /\ cancelled[s] \/ hand[s] \in Unencodable
  /\ GoTo(s, "ended")
  /\ isStreaming' = FALSE
  /\ failed' = failed \union {hand[s]}
  /\ hand' = [hand EXCEPT ![s] = NoEvent]
  /\ UNCHANGED <<events, watcher, cancelled, calls, openedAt, sent>>

\* The client goes away at any moment of the call.
Cancel(s) ==
  /\ handler[s] \in Active
  /\ ~cancelled[s]
  /\ cancelled' = [cancelled EXCEPT ![s] = TRUE]
  /\ UNCHANGED <<queueVars, watcher, handlerVars, historyVars>>

-----------------------------------------------------------------------------
HandlerStep(s) ==
  \/ LiveTraceTest(s)
  \/ LiveTraceCtx(s)
  \/ LiveTracePop(s)
  \/ LiveTraceSend(s)
  \/ LiveTraceSendFails(s)

Next ==
  \/ \E w \in Watchers : AddEventTest(w) \/ AddEventAppend(w)
  \/ \E s \in Streams : LiveTraceStart(s) \/ HandlerStep(s) \/ Cancel(s)

Spec == Init /\ [][Next]_vars

\* The Go scheduler runs every runnable goroutine: a handler between two
\* statements, and an addEvent call past its test (the mutex it needs is held
\* only for an append or a pop).  Send returns as long as the client reads or
\* leaves.  Nothing makes a tracer see an event or a client come or go.
FairSpec ==
  /\ Spec
  /\ \A w \in Watchers : WF_vars(AddEventAppend(w))
  /\ \A s \in Streams : WF_vars(HandlerStep(s))

-----------------------------------------------------------------------------
(* Properties.                                                             *)

InFlight == {watcher[w] : w \in Watchers} \ {NoEvent}
Buffered == ToSet(events)
InHand == {hand[s] : s \in Streams} \ {NoEvent}
Running == {s \in Streams : handler[s] \in Active}

\* Every variable has its type; a handler holds an event exactly when it is
\* about to send it.
TypeOK ==
  /\ isStreaming \in BOOLEAN
  /\ events \in Seq(Ids)
  /\ watcher \in [Watchers -> Ids \union {NoEvent}]
  /\ handler \in [Streams -> Active \union {"new", "ended"}]
  /\ hand \in [Streams -> Ids \union {NoEvent}]
  /\ cancelled \in [Streams -> BOOLEAN]
  /\ calls \in 0..MaxEvents
  /\ openedAt \in [Streams -> 0..MaxEvents]
  /\ sent \in [Streams -> SUBSET Ids]
  /\ failed \subseteq Ids
  /\ \A s \in Streams : (hand[s] # NoEvent) <=> (handler[s] = "send")

\* While no LiveTrace call runs addEvent accepts no event, so the buffer takes
\* in no more than the events whose addEvent had let them past the test of
\* isStreaming before the last call ended, at most one of each watcher
\* (event.go:9-15); these do stay in the buffer with nobody there to empty it.
\* Whatever the order of connects, disconnects and failed sends, no call may
\* leave the flag up behind it (api.go:215-233).
NoOrphanedBuffering ==
  [][Running = {} =>
       /\ InFlight' \subseteq InFlight
       /\ Buffered' \subseteq Buffered \union InFlight]_vars

\* A running call finds the flag up, unless some client has gone or some Send
\* has failed: calls do not end, and events are not discarded by addEvent,
\* without such a cause.
StreamingWhileConnected ==
  (Running # {} /\ ~isStreaming) => (failed # {} \/ \E s \in Streams : cancelled[s])

NoDupBuffered == IsInjective(events)

NoDupInFlight ==
  \A w \in Watchers : watcher[w] # NoEvent =>
    /\ watcher[w] \notin Buffered /\ watcher[w] \notin failed
    /\ \A s \in Streams : watcher[w] # hand[s] /\ watcher[w] \notin sent[s]
    /\ \A v \in Watchers \ {w} : watcher[v] # watcher[w]

NoDupInHand ==
  \A s \in Streams : hand[s] # NoEvent =>
    /\ hand[s] \notin Buffered /\ hand[s] \notin failed
    /\ \A r \in Streams : hand[s] \notin sent[r]
    /\ \A r \in Streams \ {s} : hand[r] # hand[s]

NoDupSent ==
  \A s \in Streams : \A e \in sent[s] :
    /\ e \notin Buffered /\ e \notin failed
    /\ \A r \in Streams \ {s} : e \notin sent[r]

NoDupFailed == \A e \in failed : e \notin Buffered

\* No event is sent twice, to one client or to two, and none is sent that is
\* still waiting in the buffer, in another handler or in an addEvent call:
\* an event is in one place at a time, however pops and appends interleave.
AtMostOnce ==
  NoDupBuffered /\ NoDupInFlight /\ NoDupInHand /\ NoDupSent /\ NoDupFailed

\* The queue does what EventPool promises: addEvent's test accepts the event,
\* Send delivers it or loses it, and every other step leaves it in the pool.
Pool == INSTANCE EventPool WITH
          pool <- InFlight \union Buffered \union InHand,
          delivered <- sent,
          lost <- failed

PoolSpec == Pool!Spec

\* A call whose client has gone ends after at most four steps of its own: it does not
\* go round its loop again, and no event, client or other call holds it up.
StepsLeft == [new |-> 5, pop |-> 4, send |-> 3, test |-> 2, ctx |-> 1, ended |-> 0]
CancelledRunDown ==
  [][\A s \in Streams : cancelled[s] =>
       /\ cancelled'[s]
       /\ IF HandlerStep(s) THEN StepsLeft[handler'[s]] < StepsLeft[handler[s]]
          ELSE handler'[s] = handler[s]]_vars

\* A call whose client has gone ends, however fast events keep coming.
CancelledEnds ==
  \A s \in Streams : cancelled[s] ~> (handler[s] = "ended")

\* Once the tracers fall silent no accepted event stays behind while a client
\* is connected: in the end it is sent, or its Send fails, or no call is left
\* running.  Without the premise it does not hold: popEvent takes the newest
\* event (event.go:26), and as long as newer ones keep coming an old one may
\* wait for ever.
AcceptedIsSent ==
  <>[][calls' = calls]_vars =>
    \A e \in Ids :
      (e \in InFlight \union Buffered)
        ~> (e \in failed \/ Running = {} \/ \E s \in Streams : e \in sent[s])

-----------------------------------------------------------------------------
(* What the repository says of the program and the code does not do.       *)

\* "This does not include past events. Consider it like a tail." (trace.go:17)
NoPastEvents ==
  \A s \in Streams : \A e \in sent[s] : e > openedAt[s]
=============================================================================
