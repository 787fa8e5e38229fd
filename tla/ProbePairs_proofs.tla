--------------------------- MODULE ProbePairs_proofs ---------------------------
(***************************************************************************)
(* Proofs about the tracers with probes on entry and on return, for any    *)
(* tasks, files, number of calls and size of the buffer: what a return     *)
(* submits is the data of its own call, the hash does not fill up with     *)
(* past calls, what an event says of its process is true of it, and no     *)
(* other process is signalled for it.                                      *)
(*                                                                         *)
(* ProbeInv is about the probes: the entry that a return will find is that *)
(* of its own call.  OwnInv follows the record from there to the watcher.  *)
(* DataInv is about the number that is in the record: a process that has   *)
(* it is the one that made the call, or the call is one of reused; so what *)
(* /proc tells of the number, and who is signalled by it, is of that       *)
(* process.  FieldsInv is about the bytes of the record, and CallInv and   *)
(* the measure of RunsDown about what becomes of it.                       *)
(***************************************************************************)
EXTENDS ProbePairs, SequenceTheorems, FunctionTheorems, WellFoundedInduction, TLAPS

-----------------------------------------------------------------------------
(* The invariant.                                                          *)

Places == {"unborn", "outside", "inside", "sent", "gone"}

\* A task has a call while it is in the watched function; a return that will be
\* probed is one whose entry was probed too, if its tracer has a probe there.
ThreadOK(t) ==
  /\ DOMAIN thread[t] = {"pc", "call", "path", "hit"}
  /\ thread[t].pc \in Places
  /\ thread[t].call \in 0..calls
  /\ thread[t].call = 0 <=> thread[t].pc \notin {"inside", "sent"}
  /\ thread[t].hit = TRUE => "entry" \in attached
  /\ t \in alive <=> thread[t].pc \notin {"unborn", "gone"}

\* An entry is of a call of the task that it is kept for.
EntryOK(k) ==
  /\ tmp[k].task \in Threads /\ k = Key(tmp[k].task)
  /\ tmp[k].call \in 1..calls
  /\ \A t \in Threads : thread[t].call = tmp[k].call => t = tmp[k].task

\* What the return of t's call will find is of that call.
EntryIsOwn(t) ==
  /\ Task[t].pid # 0 /\ thread[t].pc = "inside" /\ thread[t].hit = TRUE /\ Key(t) \in DOMAIN tmp
  => tmp[Key(t)].call = thread[t].call

\* Two tasks that exist and share a number are of one process.
NumbersOK ==
  \A t, u \in Threads :
    t \in alive /\ u \in alive /\ Task[t].pid = Task[u].pid /\ Task[t].pid # 0
      => Task[t].process = Task[u].process

ProbeInv ==
  /\ kind \in Kinds /\ calls \in Nat /\ DOMAIN thread = Threads
  /\ "return" \in attached => "entry" \in attached \/ kind = "bashreadline"
  /\ \A t \in Threads : ThreadOK(t)
  /\ \A t, u \in Threads : thread[t].call = thread[u].call /\ thread[t].call # 0 => t = u
  /\ NumbersOK
  /\ \A k \in DOMAIN tmp : EntryOK(k)
  /\ \A t \in Threads : EntryIsOwn(t)
  /\ TmpDrained

\* The variables ProbeInv speaks of.
probeVars == <<kind, attached, thread, tmp, calls, missed, alive>>

LEMMA ProbeUnchanged ==
  ASSUME ProbeInv, UNCHANGED probeVars
  PROVE  ProbeInv'
  BY DEF ProbeInv, ThreadOK, NumbersOK, EntryOK, EntryIsOwn, TmpDrained, Key, probeVars

\* Two tasks with one key are the same, unless they are idle tasks.
LEMMA OwnKey ==
  ASSUME ProbeInv, NEW t \in Threads, NEW u \in Threads, t \in alive, u \in alive,
         Key(t) = Key(u), Task[t].pid # 0
  PROVE  t = u
  BY ProbePairsAssumption DEF ProbePairsAssumption, ProbeInv, NumbersOK, Key

LEMMA AttachStep ==
  ASSUME ProbeInv, NEW part, Attach(part), part \in Parts(kind)
  PROVE  ProbeInv'
<1>1. /\ UNCHANGED <<kind, thread, tmp, calls, missed, alive>>
      /\ attached' = attached \union {part}
  BY DEF Attach
<1>2. "return" \in attached' => "entry" \in attached' \/ kind = "bashreadline"
  <2>1. CASE part = "return" /\ kind # "bashreadline"
    BY <1>1, <2>1 DEF Attach, Before, Parts
  <2>2. CASE ~(part = "return" /\ kind # "bashreadline")
    BY <1>1, <2>2 DEF ProbeInv
  <2> QED
    BY <2>1, <2>2
<1> QED
  BY <1>1, <1>2 DEF ProbeInv, ThreadOK, NumbersOK, EntryOK, EntryIsOwn, TmpDrained, Key

LEMMA EnterStep ==
  ASSUME ProbeInv, NEW t \in Threads, NEW path, Enter(t, path)
  PROVE  ProbeInv'
<1> DEFINE entry == [call |-> calls + 1, task |-> t, path |-> path]
<1>1. PICK hit \in IF "return" \in attached THEN BOOLEAN ELSE {FALSE} :
        thread' = [thread EXCEPT ![t] =
                     [pc |-> "inside", call |-> calls + 1, path |-> path, hit |-> hit]]
  BY DEF Enter
<1>2. /\ kind # "bashreadline" /\ thread[t].pc = "outside" /\ calls' = calls + 1
      /\ UNCHANGED <<kind, alive, attached, missed>>
  BY DEF Enter
<1>3. /\ DOMAIN thread' = Threads /\ \A u \in Threads \ {t} : thread'[u] = thread[u]
      /\ thread'[t] = [pc |-> "inside", call |-> calls + 1, path |-> path, hit |-> hit]
  BY <1>1 DEF ProbeInv
<1>4. hit = TRUE => "entry" \in attached
  BY <1>1, <1>2 DEF ProbeInv
<1>5. \/ "entry" \in attached /\ DOMAIN tmp' = DOMAIN tmp \union {Key(t)} /\ tmp'[Key(t)] = entry
         /\ \A k \in DOMAIN tmp \ {Key(t)} : tmp'[k] = tmp[k]
      \/ "entry" \in attached /\ Key(t) \notin DOMAIN tmp /\ tmp' = tmp
      \/ "entry" \notin attached /\ tmp' = tmp
  BY DEF Enter, Updates
<1> HIDE DEF entry
<1>6. \A u \in Threads : ThreadOK(u)'
  BY <1>2, <1>3, <1>4 DEF ProbeInv, ThreadOK, Places
<1>7. \A u, v \in Threads : thread'[u].call = thread'[v].call /\ thread'[u].call # 0 => u = v
  BY <1>3 DEF ProbeInv, ThreadOK
<1>8. ASSUME NEW k \in DOMAIN tmp'
      PROVE  EntryOK(k)'
  <2>1. CASE k = Key(t) /\ tmp'[k] = entry
    BY <1>2, <1>3, <2>1 DEF ProbeInv, ThreadOK, EntryOK, Key, entry
  <2>2. CASE k \in DOMAIN tmp /\ tmp'[k] = tmp[k]
    BY <1>2, <1>3, <2>2 DEF ProbeInv, ThreadOK, EntryOK, Key
  <2> QED
    BY <1>5, <1>8, <2>1, <2>2
<1>9. ASSUME NEW u \in Threads
      PROVE  EntryIsOwn(u)'
  <2>1. CASE u = t
    <3>1. hit = TRUE /\ Key(t) \in DOMAIN tmp' => tmp'[Key(t)] = entry
      BY <1>4, <1>5
    <3>2. entry.call = calls + 1
      BY DEF entry
    <3>3. thread'[t].call = calls + 1 /\ thread'[t].hit = hit
      BY <1>3
    <3> QED
      BY <2>1, <3>1, <3>2, <3>3 DEF EntryIsOwn, Key
  <2>2. CASE u # t
    <3>1. CASE Key(u) # Key(t)
      <4>1. Key(u) \in DOMAIN tmp' => Key(u) \in DOMAIN tmp /\ tmp'[Key(u)] = tmp[Key(u)]
        BY <1>5, <3>1
      <4> QED
        BY <1>3, <2>2, <4>1 DEF ProbeInv, EntryIsOwn, Key
    <3>2. CASE Key(u) = Key(t)
      <4>1. Task[u].pid = 0 \/ u \notin alive
        BY <1>2, <2>2, <3>2, OwnKey DEF ProbeInv, ThreadOK
      <4> QED
        BY <1>3, <2>2, <4>1 DEF ProbeInv, ThreadOK, EntryIsOwn, Key
    <3> QED
      BY <3>1, <3>2
  <2> QED
    BY <2>1, <2>2
<1>10. TmpDrained'
  <2>1. SUFFICES ASSUME NEW k \in DOMAIN tmp'
                 PROVE  tmp'[k].call \in missed \/ \E u \in Threads : thread'[u].call = tmp'[k].call
    BY <1>2 DEF TmpDrained
  <2>2. CASE tmp'[k] = entry
    BY <1>3, <2>2 DEF entry
  <2>3. CASE k \in DOMAIN tmp /\ tmp'[k] = tmp[k]
    <3>1. tmp[k].call # 0 /\ thread[t].call = 0
      BY <1>2, <2>3 DEF ProbeInv, EntryOK, ThreadOK
    <3> QED
      BY <1>3, <2>3, <3>1 DEF ProbeInv, TmpDrained
  <2> QED
    BY <1>5, <2>1, <2>2, <2>3
<1> QED
  BY <1>2, <1>3, <1>6, <1>7, <1>8, <1>9, <1>10 DEF ProbeInv, NumbersOK

LEMMA ReturnUnseenStep ==
  ASSUME ProbeInv, NEW t \in Threads, ReturnUnseen(t)
  PROVE  ProbeInv'
<1>1. /\ thread[t].pc = "inside" /\ UNCHANGED <<kind, alive, attached, tmp, calls>>
      /\ DOMAIN thread' = Threads /\ \A u \in Threads \ {t} : thread'[u] = thread[u]
      /\ thread'[t] = Outside
  BY DEF ReturnUnseen, ProbeInv
<1>2. \A u \in Threads : ThreadOK(u)'
  BY <1>1 DEF ProbeInv, ThreadOK, Places, Outside
<1>3. \A k \in DOMAIN tmp : EntryOK(k)'
  BY <1>1 DEF ProbeInv, EntryOK, Key, Outside
<1>4. \A u \in Threads : EntryIsOwn(u)'
  BY <1>1 DEF ProbeInv, EntryIsOwn, Key, Outside
<1>5. TmpDrained'
  <2>1. SUFFICES ASSUME NEW k \in DOMAIN tmp
                 PROVE  tmp[k].call \in missed' \/ \E u \in Threads : thread'[u].call = tmp[k].call
    BY <1>1 DEF TmpDrained
  <2>2. missed \subseteq missed'
    BY DEF ReturnUnseen
  <2>3. CASE tmp[k].call = thread[t].call
    <3>1. k = Key(t)
      BY <2>3 DEF ProbeInv, EntryOK
    <3>2. ~thread[t].hit
      BY <2>1, <3>1 DEF ReturnUnseen
    <3> QED
      BY <2>3, <3>2 DEF ReturnUnseen
  <2>4. CASE tmp[k].call # thread[t].call
    BY <1>1, <2>2, <2>4 DEF ProbeInv, TmpDrained
  <2> QED
    BY <2>3, <2>4
<1>6. \A u, v \in Threads : thread'[u].call = thread'[v].call /\ thread'[u].call # 0 => u = v
  BY <1>1 DEF ProbeInv, Outside
<1> QED
  BY <1>1, <1>2, <1>3, <1>4, <1>5, <1>6 DEF ProbeInv, NumbersOK

LEMMA ReturnStep ==
  ASSUME ProbeInv, NEW t \in Threads, Return(t)
  PROVE  ProbeInv'
<1>1. /\ thread[t].pc = "inside" /\ UNCHANGED <<kind, alive, attached, tmp, calls, missed>>
      /\ DOMAIN thread' = Threads /\ \A u \in Threads \ {t} : thread'[u] = thread[u]
      /\ thread' = [thread EXCEPT ![t].pc = "sent"]
  BY DEF Return, ProbeInv
<1>2. /\ thread'[t].pc = "sent" /\ thread'[t].call = thread[t].call
      /\ thread'[t].hit = thread[t].hit /\ DOMAIN thread'[t] = {"pc", "call", "path", "hit"}
  BY <1>1 DEF ProbeInv, ThreadOK
<1>3. \A u \in Threads : ThreadOK(u)'
  BY <1>1, <1>2 DEF ProbeInv, ThreadOK, Places
<1>4. \A u \in Threads : thread'[u].call = thread[u].call
  BY <1>1, <1>2
<1>5. \A k \in DOMAIN tmp : EntryOK(k)'
  BY <1>1, <1>4 DEF ProbeInv, EntryOK, Key
<1>6. \A u \in Threads : EntryIsOwn(u)'
  BY <1>1, <1>2 DEF ProbeInv, EntryIsOwn, Key
<1>7. TmpDrained'
  BY <1>1, <1>4 DEF ProbeInv, TmpDrained
<1> QED
  BY <1>1, <1>3, <1>4, <1>5, <1>6, <1>7 DEF ProbeInv, NumbersOK

LEMMA ReturnDeleteStep ==
  ASSUME ProbeInv, NEW t \in Threads, ReturnDelete(t)
  PROVE  ProbeInv'
<1>1. /\ thread[t].pc = "sent" /\ UNCHANGED <<kind, alive, attached, calls, missed>>
      /\ DOMAIN thread' = Threads /\ \A u \in Threads \ {t} : thread'[u] = thread[u]
      /\ thread'[t] = Outside
      /\ DOMAIN tmp' = DOMAIN tmp \ {Key(t)} /\ \A k \in DOMAIN tmp' : tmp'[k] = tmp[k]
  BY DEF ReturnDelete, ProbeInv, Restrict
<1>2. \A u \in Threads : ThreadOK(u)'
  BY <1>1 DEF ProbeInv, ThreadOK, Places, Outside
<1>3. ASSUME NEW k \in DOMAIN tmp'
      PROVE  EntryOK(k)'
  <2>1. EntryOK(k) /\ tmp'[k] = tmp[k]
    BY <1>1, <1>3 DEF ProbeInv
  <2> QED
    BY <1>1, <2>1 DEF EntryOK, Key, Outside
<1>4. ASSUME NEW u \in Threads
      PROVE  EntryIsOwn(u)'
  <2>1. CASE u = t
    BY <1>1, <2>1 DEF EntryIsOwn, Outside
  <2>2. CASE u # t
    <3>1. EntryIsOwn(u) /\ thread'[u] = thread[u]
      BY <1>1, <2>2 DEF ProbeInv
    <3>2. Key(u) \in DOMAIN tmp' => Key(u) \in DOMAIN tmp /\ tmp'[Key(u)] = tmp[Key(u)]
      BY <1>1
    <3> QED
      BY <3>1, <3>2 DEF EntryIsOwn, Key
  <2> QED
    BY <2>1, <2>2
<1>5. TmpDrained'
  <2>1. SUFFICES ASSUME NEW k \in DOMAIN tmp'
                 PROVE  tmp'[k].call \in missed \/ \E u \in Threads : thread'[u].call = tmp'[k].call
    BY <1>1 DEF TmpDrained
  <2>2. k \in DOMAIN tmp /\ k # Key(t) /\ tmp'[k] = tmp[k]
    BY <1>1, <2>1
  <2>3. tmp[k].call # thread[t].call
    BY <2>2 DEF ProbeInv, EntryOK
  <2> QED
    BY <1>1, <2>2, <2>3 DEF ProbeInv, TmpDrained
<1>6. \A u, v \in Threads : thread'[u].call = thread'[v].call /\ thread'[u].call # 0 => u = v
  BY <1>1 DEF ProbeInv, Outside
<1> QED
  BY <1>1, <1>2, <1>3, <1>4, <1>5, <1>6 DEF ProbeInv, NumbersOK

LEMMA BashReturnStep ==
  ASSUME ProbeInv, NEW t \in Threads, BashReturn(t)
  PROVE  ProbeInv'
  BY DEF BashReturn, ProbeInv, ThreadOK, NumbersOK, EntryOK, EntryIsOwn, TmpDrained, Key

LEMMA ExitStep ==
  ASSUME ProbeInv, NEW t \in Threads, Exit(t)
  PROVE  ProbeInv'
<1>1. /\ thread[t].pc = "outside" /\ UNCHANGED <<kind, attached, tmp, calls, missed>>
      /\ DOMAIN thread' = Threads /\ \A u \in Threads \ {t} : thread'[u] = thread[u]
      /\ thread' = [thread EXCEPT ![t].pc = "gone"] /\ alive' = alive \ {t}
  BY DEF Exit, ProbeInv
<1>2. /\ thread'[t].pc = "gone" /\ thread'[t].call = thread[t].call
      /\ thread'[t].hit = thread[t].hit /\ DOMAIN thread'[t] = {"pc", "call", "path", "hit"}
  BY <1>1 DEF ProbeInv, ThreadOK
<1>3. \A u \in Threads : ThreadOK(u)'
  BY <1>1, <1>2 DEF ProbeInv, ThreadOK, Places
<1>4. \A u \in Threads : thread'[u].call = thread[u].call
  BY <1>1, <1>2
<1>5. \A k \in DOMAIN tmp : EntryOK(k)'
  BY <1>1, <1>4 DEF ProbeInv, EntryOK, Key
<1>6. \A u \in Threads : EntryIsOwn(u)'
  BY <1>1, <1>2 DEF ProbeInv, EntryIsOwn, Key
<1>7. TmpDrained'
  BY <1>1, <1>4 DEF ProbeInv, TmpDrained
<1> QED
  BY <1>1, <1>3, <1>4, <1>5, <1>6, <1>7 DEF ProbeInv, NumbersOK

LEMMA StartStep ==
  ASSUME ProbeInv, NEW t \in Threads, Start(t)
  PROVE  ProbeInv'
<1>1. /\ thread[t].pc = "unborn" /\ UNCHANGED <<kind, attached, tmp, calls, missed>>
      /\ DOMAIN thread' = Threads /\ \A u \in Threads \ {t} : thread'[u] = thread[u]
      /\ thread'[t] = Outside /\ alive' = alive \union {t}
  BY DEF Start, ProbeInv
<1>2. \A u \in Threads : ThreadOK(u)'
  BY <1>1 DEF ProbeInv, ThreadOK, Places, Outside
<1>3. \A u \in Threads : thread'[u].call = thread[u].call
  BY <1>1 DEF ProbeInv, ThreadOK, Outside
<1>4. \A k \in DOMAIN tmp : EntryOK(k)'
  BY <1>1, <1>3 DEF ProbeInv, EntryOK, Key
<1>5. \A u \in Threads : EntryIsOwn(u)'
  BY <1>1 DEF ProbeInv, EntryIsOwn, Key, Outside
<1>6. TmpDrained'
  BY <1>1, <1>3 DEF ProbeInv, TmpDrained
<1>7. NumbersOK'
  <2>1. \A u \in alive : Task[u].pid = Task[t].pid => Task[u].process = Task[t].process
    BY DEF Start, WithPid
  <2> QED
    BY <1>1, <2>1 DEF ProbeInv, NumbersOK
<1> QED
  BY <1>1, <1>2, <1>3, <1>4, <1>5, <1>6, <1>7 DEF ProbeInv

-----------------------------------------------------------------------------
(* What is submitted, and what becomes of it.                              *)

Own(r) == Task[r.task].pid # 0 => r.call = r.by

RingOK == ring \in Seq(Range(ring)) /\ \A r \in Range(ring) : Own(r)

EventFields == {"pc", "rec", "fields", "runtime", "id", "ids"}
EventOK == DOMAIN watcher = EventFields /\ Own(watcher.rec)

OwnInv == RingOK /\ (watcher = Idle \/ EventOK)

\* A buffer of records that are all their own call's.
LEMMA OwnRing ==
  ASSUME NEW S, ring' \in Seq(S), \A r \in S : Own(r)
  PROVE  RingOK'
<1>1. ring' \in Seq(Range(ring')) /\ Range(ring') \subseteq S
  BY SeqOfRange, RangeOfSeq
<1> QED
  BY <1>1 DEF RingOK, Own

LEMMA SubmitKeepsOwn ==
  ASSUME RingOK, NEW r, Own(r), ring' = Submit(r)
  PROVE  RingOK'
<1> DEFINE S == Range(ring) \union {r}
<1>1. ring \in Seq(S)
  BY SeqMonotonic DEF RingOK
<1>2. ring' \in Seq(S)
  BY <1>1, AppendProperties DEF Submit
<1>3. \A x \in S : Own(x)
  BY DEF RingOK
<1> HIDE DEF S
<1> QED
  BY <1>2, <1>3, OwnRing

\* The records of the daemon's own files are of no call.
LEMMA OpensKeepOwn ==
  ASSUME RingOK, NEW T, NEW paths \in Seq(T), ring' = WithOpensOfDaemon(paths)
  PROVE  RingOK'
<1> DEFINE Record(path) == [call |-> 0, by |-> 0, task |-> Self, path |-> path]
           S == Range(ring) \union {Record(path) : path \in T}
           opens == [i \in DOMAIN paths |->
                       [call |-> 0, by |-> 0, task |-> Self, path |-> paths[i]]]
           all == ring \o opens
           n == IF Len(all) < RingSize THEN Len(all) ELSE RingSize
<1>1. ring \in Seq(S)
  BY SeqMonotonic DEF RingOK
<1>2. opens \in Seq(S)
  <2>1. Len(paths) \in Nat /\ DOMAIN paths = 1..Len(paths) /\ \A i \in DOMAIN paths : paths[i] \in T
    BY LenProperties
  <2>2. opens \in [1..Len(paths) -> S]
    BY <2>1
  <2> QED
    BY <2>1, <2>2, SeqDef
<1>3. \A x \in S : Own(x)
  BY DEF RingOK, Own
<1> HIDE DEF S, opens
<1>4. all \in Seq(S)
  BY <1>1, <1>2, ConcatProperties
<1>5. SubSeq(all, 1, n) \in Seq(S)
  <2>1. Len(all) \in Nat /\ \A i \in 1..Len(all) : all[i] \in S
    BY <1>4, LenProperties, ElementOfSeq
  <2>2. n \in Int /\ n <= Len(all)
    BY <2>1, ProbePairsAssumption DEF ProbePairsAssumption
  <2> HIDE DEF all, n
  <2>3. \A i \in 1..n : all[i] \in S
    BY <2>1, <2>2
  <2> QED
    BY <2>2, <2>3, SubSeqProperties
<1>6. ring' \in Seq(S)
  BY <1>1, <1>5 DEF WithOpensOfDaemon, opens
<1> QED
  BY <1>3, <1>6, OwnRing

LEMMA ReceiveKeepsOwn ==
  ASSUME OwnInv, NEW event, Receive(event),
         event = Idle \/ \E step : event = Pending(step, Head(ring))
  PROVE  OwnInv'
<1>1. ring # << >> /\ ring' = Tail(ring) /\ watcher' \in {event, Idle}
  BY DEF Receive
<1>2. Head(ring) \in Range(ring) /\ Tail(ring) \in Seq(Range(ring))
  BY <1>1, HeadTailProperties DEF OwnInv, RingOK
<1>3. RingOK'
  BY <1>1, <1>2, OwnRing DEF OwnInv, RingOK
<1>4. watcher' = Idle \/ EventOK'
  <2>1. CASE \E step : watcher' = Pending(step, Head(ring))
    <3>1. Own(Head(ring))
      BY <1>2 DEF OwnInv, RingOK
    <3>2. PICK step : watcher' = Pending(step, Head(ring))
      BY <2>1
    <3>3. DOMAIN watcher' = EventFields /\ watcher'.rec = Head(ring)
      BY <3>2 DEF Pending, EventFields
    <3> QED
      BY <3>1, <3>3 DEF EventOK, Own
  <2> QED
    BY <1>1, <2>1
<1> QED
  BY <1>3, <1>4 DEF OwnInv

\* A step of the watcher that reads files of /proc.
LEMMA ContinueKeepsOwn ==
  ASSUME OwnInv, NEW event, NEW T, NEW opened \in Seq(T), Continue(event, opened),
         event = Idle \/ (DOMAIN event = EventFields /\ event.rec = watcher.rec /\ EventOK)
  PROVE  OwnInv'
<1>1. RingOK'
  BY OpensKeepOwn DEF Continue, OwnInv
<1>2. watcher' = Idle \/ EventOK'
  BY DEF Continue, EventOK, Own
<1> QED
  BY <1>1, <1>2 DEF OwnInv

LEMMA Singleton ==
  ASSUME NEW S, NEW e \in S
  PROVE  <<e>> \in Seq(S)
  OBVIOUS

LEMMA ReadOfFile ==
  ASSUME NEW r, NEW file
  PROVE  ReadOf(r, file) \in Seq({ProcFile(Tgid(r.task), Task[r.task].pid, file)})
<1> DEFINE path == ProcFile(Tgid(r.task), Task[r.task].pid, file)
<1>1. ReadOf(r, file) = << >> \/ ReadOf(r, file) = <<path>>
  BY DEF ReadOf
<1> HIDE DEF path
<1>2. << >> \in Seq({path}) /\ <<path>> \in Seq({path})
  BY EmptySeq, Singleton
<1> QED
  BY <1>1, <1>2 DEF path

LEMMA WatchKeepsOwn ==
  ASSUME OwnInv, Watch
  PROVE  OwnInv'
<1>0. watcher.pc # "idle" => EventOK
  BY DEF OwnInv, Idle
<1>1. CASE OpenReceive
  BY <1>1, ReceiveKeepsOwn DEF OpenReceive
<1>2. CASE BreakoutReceive
  BY <1>2, ReceiveKeepsOwn DEF BreakoutReceive
<1>3. CASE TcpReceive
  BY <1>3, ReceiveKeepsOwn DEF TcpReceive
<1>4. CASE BashReceive
  BY <1>4, ReceiveKeepsOwn DEF BashReceive
<1>5. CASE PassOver
  BY <1>5 DEF PassOver, OwnInv, RingOK, Own
<1>6. CASE ReadIds
  <2> DEFINE ids == GetUIDGID(Tgid(watcher.rec.task), Task[watcher.rec.task].pid)
             event == IF NoNumber \in {ids[1], ids[2]} THEN Idle
                      ELSE [watcher EXCEPT !.pc = "runtime", !.ids = ids]
  <2>1. watcher.pc = "ids" /\ Continue(event, ReadOf(watcher.rec, "/status"))
    BY <1>6 DEF ReadIds
  <2>2. event = Idle \/ (DOMAIN event = EventFields /\ event.rec = watcher.rec)
    BY <1>0, <2>1 DEF EventOK, EventFields
  <2> HIDE DEF event
  <2> QED
    BY <1>0, <2>1, <2>2, ReadOfFile, ContinueKeepsOwn
<1>7. CASE ReadRuntime
  <2> DEFINE r == watcher.rec
             runtime == GetContainerRuntime(Tgid(r.task), Task[r.task].pid, host)
             event == IF kind = "dockeropenbreakout" /\ runtime # "docker" THEN Idle
                      ELSE [watcher EXCEPT !.pc = "id", !.runtime = runtime]
             file == ProcFile(Tgid(r.task), Task[r.task].pid, "/cgroup")
             command == <<"/proc/", "1", "/cmdline">>
             T == {file, command}
  <2>1. watcher.pc = "runtime"
    BY <1>7 DEF ReadRuntime
  <2>2. PICK around \in {OpensAround(host), << >>} :
          Continue(event, ReadOf(r, "/cgroup") \o around)
    BY <1>7 DEF ReadRuntime
  <2>3. event = Idle \/ (DOMAIN event = EventFields /\ event.rec = watcher.rec)
    BY <1>0, <2>1 DEF EventOK, EventFields
  <2>4. ReadOf(r, "/cgroup") \in Seq(T)
    <3>1. ReadOf(r, "/cgroup") \in Seq({file})
      BY ReadOfFile
    <3> HIDE DEF file, command
    <3> QED
      BY <3>1, SeqMonotonic
  <2>5. around \in Seq(T)
    <3>1. around = << >> \/ around = <<command>>
      BY <2>2 DEF OpensAround
    <3> HIDE DEF file, command
    <3>2. << >> \in Seq(T) /\ <<command>> \in Seq(T)
      BY EmptySeq, Singleton
    <3> QED
      BY <3>1, <3>2
  <2> HIDE DEF T, event
  <2>6. ReadOf(r, "/cgroup") \o around \in Seq(T)
    BY <2>4, <2>5, ConcatProperties
  <2> QED
    BY <1>0, <2>1, <2>2, <2>3, <2>6, ContinueKeepsOwn
<1>8. CASE ReadId
  <2> DEFINE id == GetContainerID(Tgid(watcher.rec.task), Task[watcher.rec.task].pid)
             event == IF kind # "dockeropenbreakout" THEN [watcher EXCEPT !.pc = "rules", !.id = id]
                      ELSE IF id = "" THEN Idle ELSE [watcher EXCEPT !.pc = "inspect", !.id = id]
  <2>1. watcher.pc = "id" /\ Continue(event, ReadOf(watcher.rec, "/cgroup"))
    BY <1>8 DEF ReadId
  <2>2. event = Idle \/ (DOMAIN event = EventFields /\ event.rec = watcher.rec)
    BY <1>0, <2>1 DEF EventOK, EventFields
  <2> HIDE DEF event
  <2> QED
    BY <1>0, <2>1, <2>2, ReadOfFile, ContinueKeepsOwn
<1>9. CASE Inspect
  <2> DEFINE event == IF InMounts(watcher.rec.path) THEN Idle ELSE [watcher EXCEPT !.pc = "rules"]
  <2>1. watcher.pc = "inspect" /\ Continue(event, << >>)
    BY <1>9 DEF Inspect
  <2>2. event = Idle \/ (DOMAIN event = EventFields /\ event.rec = watcher.rec)
    BY <1>0, <2>1 DEF EventOK, EventFields
  <2> HIDE DEF event
  <2> QED
    BY <1>0, <2>1, <2>2, EmptySeq, ContinueKeepsOwn
<1>10. CASE InspectFails
  BY <1>10 DEF InspectFails, OwnInv, RingOK, Own
<1>11. CASE Report
  <2>1. EventOK /\ UNCHANGED ring
    BY <1>11 DEF Report, OwnInv, Idle
  <2>2. watcher' = Idle \/ EventOK'
    BY <1>11, <2>1 DEF Report, EventOK, EventFields, Own
  <2> QED
    BY <2>1, <2>2 DEF OwnInv, RingOK, Own
<1>12. CASE Do
  BY <1>12 DEF Do, OwnInv, RingOK, Own
<1> QED
  BY <1>1, <1>2, <1>3, <1>4, <1>5, <1>6, <1>7, <1>8, <1>9, <1>10, <1>11, <1>12 DEF Watch

\* The daemon's steps leave the probes' variables alone.
LEMMA WatchKeepsProbes ==
  ASSUME Watch
  PROVE  UNCHANGED probeVars
  BY DEF Watch, OpenReceive, BreakoutReceive, TcpReceive, BashReceive, Receive, PassOver, ReadIds,
    ReadRuntime, ReadId, Inspect, InspectFails, Report, Do, Continue, watcherVars, probeVars

\* A step that changes neither the buffer nor the watcher.
LEMMA OwnUnchanged ==
  ASSUME OwnInv, UNCHANGED <<ring, watcher>>
  PROVE  OwnInv'
  BY DEF OwnInv, RingOK, EventOK, Own

LEMMA CallStep ==
  ASSUME ProbeInv, OwnInv, NEW t \in Threads, Call(t)
  PROVE  ProbeInv' /\ OwnInv'
<1>1. CASE OpenEnter(t) \/ BreakoutEnter(t) \/ TcpEnter(t)
  <2>1. PICK path : Enter(t, path)
    BY <1>1 DEF OpenEnter, BreakoutEnter, TcpEnter
  <2>2. UNCHANGED <<ring, watcher>>
    BY <2>1 DEF Enter
  <2> QED
    BY <2>1, <2>2, EnterStep, OwnUnchanged
<1>2. CASE BashReturn(t)
  <2>1. PICK r : Own(r) /\ ring' = Submit(r) /\ UNCHANGED watcher
    BY <1>2 DEF BashReturn, Own
  <2> QED
    BY <1>2, <2>1, BashReturnStep, SubmitKeepsOwn DEF OwnInv, EventOK, Own
<1>3. CASE ReturnUnseen(t)
  <2>1. UNCHANGED <<ring, watcher>>
    BY <1>3 DEF ReturnUnseen
  <2> QED
    BY <1>3, <2>1, ReturnUnseenStep, OwnUnchanged
<1>4. CASE Return(t)
  <2> DEFINE d == tmp[Key(t)]
             r == [call |-> d.call, by |-> thread[t].call, task |-> d.task, path |-> d.path]
  <2>1. /\ thread[t].pc = "inside" /\ thread[t].hit /\ Key(t) \in DOMAIN tmp
        /\ ring' = Submit(r) /\ UNCHANGED watcher
    BY <1>4 DEF Return
  <2>2. EntryOK(Key(t)) /\ EntryIsOwn(t)
    BY <2>1 DEF ProbeInv
  <2>3. Task[d.task].pid = Task[t].pid
    BY <2>2 DEF EntryOK, Key
  <2>4. Own(r)
    BY <2>1, <2>2, <2>3 DEF EntryIsOwn, Own
  <2> HIDE DEF r
  <2> QED
    BY <1>4, <2>1, <2>4, ReturnStep, SubmitKeepsOwn DEF OwnInv, EventOK, Own
<1>5. CASE ReturnDelete(t)
  <2>1. UNCHANGED <<ring, watcher>>
    BY <1>5 DEF ReturnDelete
  <2> QED
    BY <1>5, <2>1, ReturnDeleteStep, OwnUnchanged
<1> QED
  BY <1>1, <1>2, <1>3, <1>4, <1>5 DEF Call

-----------------------------------------------------------------------------
(* What follows for every number of tasks and of calls.                    *)

LEMMA InitInv == Init => ProbeInv /\ OwnInv
<1> SUFFICES ASSUME Init PROVE ProbeInv /\ OwnInv
  OBVIOUS
<1>1. ASSUME NEW t \in Threads
      PROVE  /\ DOMAIN thread[t] = {"pc", "call", "path", "hit"}
             /\ thread[t].pc = (IF t \in alive THEN "outside" ELSE "unborn")
             /\ thread[t].call = 0 /\ thread[t].hit = FALSE
  BY DEF Init, Outside
<1>2. NumbersOK
  BY ProbePairsAssumption DEF ProbePairsAssumption, Init, NumbersOK
<1>3. DOMAIN tmp = {} /\ calls = 0 /\ kind \in Kinds /\ attached = {} /\ DOMAIN thread = Threads
  BY DEF Init
<1>4. ProbeInv
  <2>1. ASSUME NEW t \in Threads
        PROVE  ThreadOK(t)
    <3>1. thread[t].pc \in Places /\ thread[t].pc \notin {"inside", "sent"}
      BY <1>1 DEF Places
    <3>2. thread[t].call \in 0..calls
      <4>1. thread[t].call = 0
        BY <1>1
      <4>2. 0 \in 0..0
        OBVIOUS
      <4>3. calls = 0
        BY <1>3
      <4> QED
        BY ONLY <4>1, <4>2, <4>3
    <3>3. thread[t].hit # TRUE
      BY <1>1
    <3>4. t \in alive <=> thread[t].pc \notin {"unborn", "gone"}
      BY <1>1
    <3> QED
      BY <1>1, <3>1, <3>2, <3>3, <3>4 DEF ThreadOK
  <2>2. \A t \in Threads : EntryIsOwn(t)
    BY <1>1 DEF EntryIsOwn
  <2>3. TmpDrained
    BY <1>3 DEF TmpDrained
  <2> QED
    BY <1>1, <1>2, <1>3, <2>1, <2>2, <2>3 DEF ProbeInv
<1>5. OwnInv
  <2>1. ring = << >> /\ watcher = Idle
    BY DEF Init
  <2>2. Range(<< >>) = {}
    BY DEF Range
  <2> QED
    BY <2>1, <2>2, EmptySeq DEF OwnInv, RingOK
<1> QED
  BY <1>4, <1>5

LEMMA NextInv == ProbeInv /\ OwnInv /\ [Next]_vars => ProbeInv' /\ OwnInv'
<1> SUFFICES ASSUME ProbeInv, OwnInv, [Next]_vars PROVE ProbeInv' /\ OwnInv'
  OBVIOUS
<1>1. CASE UNCHANGED vars
  BY <1>1, ProbeUnchanged, OwnUnchanged DEF vars, kernelVars, probeVars
<1>2. CASE Load
  <2>1. PICK part \in Parts(kind) \union Parts("open") : Attach(part) /\ part \in Parts(kind)
    BY <1>2 DEF Load, OpenLoad, BreakoutLoad, TcpLoad, BashLoad
  <2>2. UNCHANGED <<ring, watcher>>
    BY <2>1 DEF Attach
  <2> QED
    BY <2>1, <2>2, AttachStep, OwnUnchanged
<1>3. CASE Watch
  BY <1>3, WatchKeepsProbes, ProbeUnchanged, WatchKeepsOwn
<1>4. ASSUME NEW t \in Callers[kind], Call(t) \/ Exit(t) \/ Start(t)
      PROVE  ProbeInv' /\ OwnInv'
  <2>1. t \in Threads
    BY ProbePairsAssumption DEF ProbePairsAssumption, ProbeInv
  <2>2. CASE Call(t)
    BY <2>1, <2>2, CallStep
  <2>3. CASE Exit(t)
    <3>1. UNCHANGED <<ring, watcher>>
      BY <2>3 DEF Exit
    <3> QED
      BY <2>1, <2>3, <3>1, ExitStep, OwnUnchanged
  <2>4. CASE Start(t)
    <3>1. UNCHANGED <<ring, watcher>>
      BY <2>4 DEF Start
    <3> QED
      BY <2>1, <2>4, <3>1, StartStep, OwnUnchanged
  <2> QED
    BY <1>4, <2>2, <2>3, <2>4
<1> QED
  BY <1>1, <1>2, <1>3, <1>4 DEF Next

LEMMA Invariant == Spec => [](ProbeInv /\ OwnInv)
  BY InitInv, NextInv, PTL DEF Spec

\* What a return probe submits, and the watcher takes from the buffer, is the data of the
\* call that returned (trace_entry and trace_return, open.go, tcpdrop.go), however
\* many threads, probes that are missed or attached late, and processes there are.
THEOREM SubmittedIsOwn == Spec => []OwnCall
<1>1. OwnInv => OwnCall
  <2>1. SUFFICES ASSUME OwnInv PROVE OwnCall
    OBVIOUS
  <2>2. \A i \in DOMAIN ring : Own(ring[i])
    BY <2>1 DEF OwnInv, RingOK, Range
  <2>3. watcher # Idle => Own(watcher.rec)
    BY <2>1 DEF OwnInv, EventOK
  <2> QED
    BY <2>2, <2>3 DEF OwnCall, Own
<1> QED
  BY <1>1, Invariant, PTL

\* An entry of the hash is of a call under way or of one whose return was not probed.
THEOREM HashIsDrained == Spec => []TmpDrained
<1>1. ProbeInv => TmpDrained
  BY DEF ProbeInv
<1> QED
  BY <1>1, Invariant, PTL

-----------------------------------------------------------------------------
(* Numbers in paths: Digits is a recursive function, and that there is one *)
(* is shown by its tables up to each number.                               *)

FirstFigure(n) == Figures[(n % 10) + 1]
NextDigits(f, n) == IF n < 10 THEN <<Figures[n + 1]>> ELSE Append(f[n \div 10], FirstFigure(n))

\* f is Digits, as far as m.
DigitsTable(f, m) ==
  /\ DOMAIN f = 0..m
  /\ \A n \in 0..m : f[n] \in Seq(ToSet(Figures)) /\ f[n] = NextDigits(f, n)

\* A set of numbers has a least one.
LEMMA Least ==
  ASSUME NEW T, T \subseteq Nat, T # {}
  PROVE  \E n \in T : \A m \in T : n <= m
<1>1. PICK x \in T : \A y \in T : ~ (<<y, x>> \in OpToRel(<, Nat))
  BY NatLessThanWellFounded, WFMin
<1>2. \A y \in T : ~ (y < x)
  BY <1>1 DEF OpToRel
<1> QED
  BY <1>2

\* One more number's digits are text.
LEMMA NextIsDigits ==
  ASSUME NEW n \in Nat, NEW f, n < 10 \/ f[n \div 10] \in Seq(ToSet(Figures))
  PROVE  NextDigits(f, n) \in Seq(ToSet(Figures))
<1>1. \A i \in 1..10 : Figures[i] \in ToSet(Figures)
  BY DEF Figures, ToSet
<1>2. CASE n < 10
  <2>1. Figures[n + 1] \in ToSet(Figures)
    BY <1>1, <1>2
  <2> QED
    BY <1>2, <2>1 DEF NextDigits
<1>3. CASE ~ (n < 10)
  <2>1. (n % 10) + 1 \in 1..10
    OBVIOUS
  <2>2. FirstFigure(n) \in ToSet(Figures)
    BY <1>1, <2>1 DEF FirstFigure
  <2> QED
    BY <1>3, <2>2, AppendProperties DEF NextDigits
<1> QED
  BY <1>2, <1>3

LEMMA TenthIsLess ==
  ASSUME NEW n \in Nat, n >= 10
  PROVE  n \div 10 \in Nat /\ n \div 10 < n
  OBVIOUS

\* There is a table up to each number, by its least counterexample.
LEMMA DigitsTables == \A m \in Nat : \E f : DigitsTable(f, m)
<1> DEFINE T == {m \in Nat : ~ \E f : DigitsTable(f, m)}
<1> SUFFICES ASSUME T # {} PROVE FALSE
  OBVIOUS
<1>1. PICK m \in T : \A k \in T : m <= k
  <2> HIDE DEF T
  <2>1. T \subseteq Nat
    BY DEF T
  <2> QED
    BY <2>1, Least
<1>2. \E f :
        /\ DOMAIN f = 0..(m - 1)
        /\ \A n \in 0..(m - 1) : f[n] \in Seq(ToSet(Figures)) /\ f[n] = NextDigits(f, n)
  <2>1. CASE m = 0
    <3> DEFINE f == [n \in 0..(m - 1) |-> << >>]
    <3>1. DOMAIN f = 0..(m - 1) /\ 0..(m - 1) = {}
      BY <2>1
    <3> QED
      BY <3>1
  <2>2. CASE m # 0
    <3>1. m - 1 \in Nat /\ m - 1 \notin T
      BY <1>1, <2>2
    <3> QED
      BY <3>1 DEF DigitsTable
  <2> QED
    BY <2>1, <2>2
<1>3. PICK f :
        /\ DOMAIN f = 0..(m - 1)
        /\ \A n \in 0..(m - 1) : f[n] \in Seq(ToSet(Figures)) /\ f[n] = NextDigits(f, n)
  BY <1>2
<1> DEFINE g == [n \in 0..m |-> IF n = m THEN NextDigits(f, m) ELSE f[n]]
<1>4. m \in Nat /\ \A n \in 0..(m - 1) : g[n] = f[n] /\ n \in 0..m
  OBVIOUS
<1>5. g[m] = NextDigits(f, m) /\ DOMAIN g = 0..m
  OBVIOUS
<1> HIDE DEF g
<1>6. \A n \in 0..m : n < 10 \/ n \div 10 \in 0..(m - 1)
  BY <1>4, TenthIsLess
<1>7. \A n \in 0..m : NextDigits(g, n) = NextDigits(f, n)
  BY <1>4, <1>6 DEF NextDigits
<1>8. NextDigits(f, m) \in Seq(ToSet(Figures))
  <2>1. m \in 0..m /\ (m < 10 \/ f[m \div 10] \in Seq(ToSet(Figures)))
    BY <1>3, <1>4, <1>6
  <2> QED
    BY <1>4, <2>1, NextIsDigits
<1>9. ASSUME NEW n \in 0..m PROVE g[n] \in Seq(ToSet(Figures)) /\ g[n] = NextDigits(g, n)
  <2>1. CASE n = m
    BY <1>5, <1>7, <1>8, <2>1
  <2>2. CASE n \in 0..(m - 1)
    BY <1>3, <1>4, <1>7, <2>2
  <2> QED
    BY <1>4, <2>1, <2>2
<1> QED
  BY <1>1, <1>5, <1>9 DEF DigitsTable

\* Two tables are the same as far as both go.
LEMMA DigitsAgree ==
  ASSUME NEW m \in Nat, NEW k \in Nat, NEW f, NEW g, DigitsTable(f, m), DigitsTable(g, k)
  PROVE  \A n \in Nat : n <= m /\ n <= k => f[n] = g[n]
<1> DEFINE T == {n \in Nat : n <= m /\ n <= k /\ f[n] # g[n]}
<1> SUFFICES ASSUME T # {} PROVE FALSE
  OBVIOUS
<1>1. PICK n \in T : \A i \in T : n <= i
  <2> HIDE DEF T
  <2>1. T \subseteq Nat
    BY DEF T
  <2> QED
    BY <2>1, Least
<1>2. f[n] = NextDigits(f, n) /\ g[n] = NextDigits(g, n) /\ n \in Nat
  BY DEF DigitsTable
<1>3. CASE n < 10
  BY <1>2, <1>3 DEF NextDigits
<1>4. CASE ~ (n < 10)
  <2>1. n \div 10 \in Nat /\ n \div 10 < n
    BY <1>2, <1>4, TenthIsLess
  <2>2. n \div 10 \notin T
    BY <1>1, <2>1
  <2>3. f[n \div 10] = g[n \div 10]
    BY <2>1, <2>2
  <2> QED
    BY <1>2, <2>3 DEF NextDigits
<1> QED
  BY <1>3, <1>4

\* The digits of a number are text.
LEMMA DigitsOK == \A n \in Nat : Digits[n] \in Seq(ToSet(Figures))
<1> DEFINE Is(f) == f = [n \in Nat |-> NextDigits(f, n)]
           table(n) == CHOOSE f : DigitsTable(f, n)
           d == [n \in Nat |-> table(n)[n]]
<1>1. \A n \in Nat : DigitsTable(table(n), n)
  BY DigitsTables
<1>2. \A n \in Nat : d[n] \in Seq(ToSet(Figures)) /\ d[n] = NextDigits(d, n)
  <2> SUFFICES ASSUME NEW n \in Nat PROVE d[n] \in Seq(ToSet(Figures)) /\ d[n] = NextDigits(d, n)
    OBVIOUS
  <2>1. /\ table(n)[n] \in Seq(ToSet(Figures)) /\ table(n)[n] = NextDigits(table(n), n)
        /\ d[n] = table(n)[n]
    BY <1>1 DEF DigitsTable
  <2>2. CASE n < 10
    BY <2>1, <2>2 DEF NextDigits
  <2>3. CASE ~ (n < 10)
    <3>1. n \div 10 \in Nat /\ n \div 10 <= n /\ n \div 10 <= n \div 10
      BY <2>3, TenthIsLess
    <3>2. d[n \div 10] = table(n \div 10)[n \div 10]
      BY <3>1
    <3> HIDE DEF d, table
    <3>3. table(n)[n \div 10] = table(n \div 10)[n \div 10]
      BY <1>1, <3>1, DigitsAgree
    <3> QED
      BY <2>1, <2>3, <3>2, <3>3 DEF NextDigits
  <2> QED
    BY <2>2, <2>3
<1>3. Is(d)
  <2>1. d = [n \in Nat |-> d[n]]
    OBVIOUS
  <2> HIDE DEF d
  <2> QED
    BY <1>2, <2>1
<1>4. Digits = CHOOSE f : Is(f)
  BY DEF Digits, NextDigits, FirstFigure
<1>5. Is(Digits)
  <2> HIDE DEF d, Is
  <2> QED
    BY <1>3, <1>4
<1>6. \A n \in Nat : Digits[n] = d[n]
  <2> DEFINE T == {n \in Nat : Digits[n] # d[n]}
  <2> SUFFICES ASSUME T # {} PROVE FALSE
    OBVIOUS
  <2>1. PICK n \in T : \A i \in T : n <= i
    <3> HIDE DEF T
    <3>1. T \subseteq Nat
      BY DEF T
    <3> QED
      BY <3>1, Least
  <2>2. Digits[n] = NextDigits(Digits, n) /\ d[n] = NextDigits(d, n) /\ n \in Nat
    <3>1. Digits = [k \in Nat |-> NextDigits(Digits, k)]
      BY <1>5
    <3> HIDE DEF d
    <3> QED
      BY <1>2, <3>1
  <2>3. CASE n < 10
    BY <2>2, <2>3 DEF NextDigits
  <2>4. CASE ~ (n < 10)
    <3>1. n \div 10 \in Nat /\ n \div 10 < n
      BY <2>2, <2>4, TenthIsLess
    <3>2. n \div 10 \notin T
      BY <2>1, <3>1
    <3> QED
      BY <2>2, <3>1, <3>2 DEF NextDigits
  <2> QED
    BY <2>3, <2>4
<1> QED
  BY <1>2, <1>6

-----------------------------------------------------------------------------
(* What /proc tells of a process.                                          *)

\* The files that are read have paths.
LEMMA ProcFileOK ==
  ASSUME NEW tgid \in Nat, NEW pid \in Nat, NEW file \in {"/status", "/cgroup"}
  PROVE  ProcFile(tgid, pid, file) \in Seq(PathParts)
<1>1. {"/proc/", "self/", "/task/", file} \subseteq PathParts
  BY DEF PathParts
<1>2. Digits[tgid] \in Seq(PathParts) /\ Digits[pid] \in Seq(PathParts)
  <2>1. ToSet(Figures) \subseteq PathParts
    BY DEF PathParts
  <2> QED
    BY <2>1, DigitsOK, SeqMonotonic
<1> DEFINE P == PathParts
           proc == "/proc/"
           self == "self/"
           task == "/task/"
<1>3. proc \in P /\ self \in P /\ task \in P /\ file \in P
  BY <1>1
<1>4. ProcFile(tgid, pid, file) =
        IF pid = 0 THEN <<proc, self, file>>
        ELSE IF tgid > 0 THEN <<proc>> \o Digits[tgid] \o <<task>> \o Digits[pid] \o <<file>>
        ELSE <<proc>> \o Digits[pid] \o <<file>>
  BY DEF ProcFile
<1> HIDE DEF P, proc, self, task
<1>5. <<proc>> \in Seq(P) /\ <<task>> \in Seq(P) /\ <<file>> \in Seq(P)
      /\ <<proc, self, file>> \in Seq(P)
  BY <1>3
<1>6. Digits[tgid] \in Seq(P) /\ Digits[pid] \in Seq(P)
  BY <1>2 DEF P
<1>7. <<proc>> \o Digits[tgid] \o <<task>> \o Digits[pid] \o <<file>> \in Seq(P)
  <2>1. <<proc>> \o Digits[tgid] \in Seq(P)
    BY <1>5, <1>6, ConcatProperties
  <2>2. <<proc>> \o Digits[tgid] \o <<task>> \in Seq(P)
    BY <1>5, <2>1, ConcatProperties
  <2>3. <<proc>> \o Digits[tgid] \o <<task>> \o Digits[pid] \in Seq(P)
    BY <1>6, <2>2, ConcatProperties
  <2> QED
    BY <1>5, <2>3, ConcatProperties
<1>8. <<proc>> \o Digits[pid] \o <<file>> \in Seq(P)
  <2>1. <<proc>> \o Digits[pid] \in Seq(P)
    BY <1>5, <1>6, ConcatProperties
  <2> QED
    BY <1>5, <2>1, ConcatProperties
<1> QED
  BY <1>4, <1>5, <1>7, <1>8 DEF P

\* Each of the functions for the runtime gives the name of one, or "not-found".
LEMMA RuntimeInOK ==
  ASSUME NEW names
  PROVE  RuntimeIn(names) \in Runtimes
<1> DEFINE found == {i \in DOMAIN ContainerRuntimes : ContainerRuntimes[i] \in names}
<1>1. CASE found = {}
  BY <1>1 DEF RuntimeIn, Runtimes
<1>2. CASE found # {}
  <2>1. found \subseteq Nat
    BY DEF ContainerRuntimes
  <2>2. PICK i \in found : \A j \in found : i <= j
    <3> HIDE DEF found
    <3> QED
      BY <1>2, <2>1, Least
  <2>3. Min(found) \in found
    <3> HIDE DEF found
    <3> QED
      BY <2>2 DEF Min
  <2>4. RuntimeIn(names) = ContainerRuntimes[Min(found)]
    BY <1>2 DEF RuntimeIn
  <2>5. Min(found) \in DOMAIN ContainerRuntimes
    BY <2>3
  <2> HIDE DEF found
  <2> QED
    BY <2>4, <2>5 DEF Runtimes, ToSet
<1> QED
  BY <1>1, <1>2

LEMMA RuntimeAroundOK ==
  ASSUME NEW h
  PROVE  RuntimeAround(h) \in Runtimes
<1>1. "openvz" \in Runtimes /\ "gvisor" \in Runtimes /\ "wsl" \in Runtimes
  <2>1. DOMAIN ContainerRuntimes = 1..12
    BY DEF ContainerRuntimes
  <2>2. /\ ContainerRuntimes[6] = "openvz" /\ ContainerRuntimes[10] = "gvisor"
        /\ ContainerRuntimes[12] = "wsl"
    BY DEF ContainerRuntimes
  <2> QED
    BY <2>1, <2>2 DEF Runtimes, ToSet
<1> QED
  BY <1>1, RuntimeInOK DEF RuntimeAround

\* The loop over a status file: of its lines with a label the last one counts.
LEMMA ScanStatus ==
  ASSUME NEW t \in Threads
  PROVE  ScanLines(Status(t)) = [uid |-> <<Task[t].uid>>, gid |-> <<Task[t].gid>>]
<1> DEFINE lines == Status(t)
           Scanned(f, i) == IF i = 0 THEN NoIds ELSE ScanLine(f[i - 1], lines[i])
           Is(f) == f = [i \in 0..Len(lines) |-> Scanned(f, i)]
           s1 == ScanLine(NoIds, lines[1])
           s2 == ScanLine(s1, lines[2])
           s3 == ScanLine(s2, lines[3])
           s4 == ScanLine(s3, lines[4])
           g == [i \in 0..4 |-> IF i = 0 THEN NoIds ELSE IF i = 1 THEN s1 ELSE IF i = 2 THEN s2
                                ELSE IF i = 3 THEN s3 ELSE s4]
<1>1. Len(lines) = 4
  BY DEF Status
<1>2. ScanLines(lines) = (CHOOSE f : Is(f))[Len(lines)]
  BY DEF ScanLines
<1>3. Is(g)
  <2>1. \A i \in 0..4 : g[i] = Scanned(g, i)
    <3> HIDE DEF lines
    <3> SUFFICES ASSUME NEW i \in 0..4 PROVE g[i] = Scanned(g, i)
      OBVIOUS
    <3>1. i = 0 \/ i = 1 \/ i = 2 \/ i = 3 \/ i = 4
      OBVIOUS
    <3>2. g[0] = NoIds /\ g[1] = s1 /\ g[2] = s2 /\ g[3] = s3 /\ g[4] = s4
      OBVIOUS
    <3> HIDE DEF g
    <3> QED
      BY <3>1, <3>2
  <2>2. g = [i \in 0..4 |-> g[i]]
    OBVIOUS
  <2> HIDE DEF g, lines
  <2> QED
    BY <1>1, <2>1, <2>2
<1> DEFINE f == CHOOSE f : Is(f)
<1>4. Is(f)
  <2> HIDE DEF g, Is
  <2> QED
    BY <1>3
<1>5. f[0] = NoIds /\ f[1] = s1 /\ f[2] = s2 /\ f[3] = s3 /\ f[4] = s4
  <2> HIDE DEF f, lines
  <2>1. \A i \in 0..4 : f[i] = Scanned(f, i)
    BY <1>1, <1>4
  <2>2. f[0] = NoIds /\ f[1] = ScanLine(f[0], lines[1]) /\ f[2] = ScanLine(f[1], lines[2])
        /\ f[3] = ScanLine(f[2], lines[3]) /\ f[4] = ScanLine(f[3], lines[4])
    BY <2>1
  <2> QED
    BY <2>2
<1>6. /\ lines[1].labels = Task[t].name
      /\ lines[2] = [labels |-> {"Uid:"}, value |-> Task[t].uid]
      /\ lines[3] = [labels |-> {"Gid:"}, value |-> Task[t].gid]
      /\ lines[4] = [labels |-> {}, value |-> NoNumber]
  BY DEF Status
<1> HIDE DEF lines
<1>7. DOMAIN s1 = {"uid", "gid"}
  BY DEF ScanLine, NoIds
<1>8. DOMAIN s2 = {"uid", "gid"} /\ s2.uid = <<Task[t].uid>>
  <2> HIDE DEF s1
  <2> QED
    BY <1>6, <1>7 DEF ScanLine
<1>9. DOMAIN s3 = {"uid", "gid"} /\ s3.uid = <<Task[t].uid>> /\ s3.gid = <<Task[t].gid>>
  <2> HIDE DEF s2
  <2> QED
    BY <1>6, <1>8 DEF ScanLine
<1>10. s4 = s3
  <2> HIDE DEF s3
  <2> QED
    BY <1>6 DEF ScanLine
<1>11. s3 = [uid |-> <<Task[t].uid>>, gid |-> <<Task[t].gid>>]
  <2> HIDE DEF s2
  <2> QED
    BY <1>6, <1>8, <1>9 DEF ScanLine
<1> HIDE DEF f, s3, s4
<1> QED
  BY <1>1, <1>2, <1>5, <1>10, <1>11 DEF f, lines

\* No file, no IDs.
LEMMA ScanNothing == ScanLines(<< >>) = NoIds
<1> DEFINE lines == << >>
           Scanned(f, i) == IF i = 0 THEN NoIds ELSE ScanLine(f[i - 1], lines[i])
           Is(f) == f = [i \in 0..Len(lines) |-> Scanned(f, i)]
           g == [i \in 0..0 |-> NoIds]
<1>1. ScanLines(lines) = (CHOOSE f : Is(f))[0] /\ Len(lines) = 0
  BY DEF ScanLines
<1>2. Is(g)
  BY <1>1
<1> DEFINE f == CHOOSE f : Is(f)
<1>3. Is(f)
  <2> HIDE DEF g, Is
  <2> QED
    BY <1>2
<1> HIDE DEF f
<1>4. f[0] = NoIds
  BY <1>1, <1>3
<1> QED
  BY <1>1, <1>4 DEF f

\* What the files of a process whose number is still its own tell is true of it.
LEMMA OwnOrigin ==
  ASSUME NEW t \in Threads, Task[t].pid # 0, alive \subseteq Threads, NEW tgid \in Nat,
         \A u \in WithPid(Task[t].pid) : Task[u].process = Task[t].process
  PROVE  /\ GetContainerRuntime(tgid, Task[t].pid, host)
              \in {RuntimeIn(Task[t].cgroup.names), RuntimeAround(host)}
         /\ GetContainerID(tgid, Task[t].pid) \in {Task[t].cgroup.id, ""}
         /\ GetUIDGID(tgid, Task[t].pid) \in {<<Task[t].uid, Task[t].gid>>, <<0, 0>>}
<1> DEFINE ts == TaskRead(tgid, Task[t].pid)
<1>1. /\ ts \subseteq Threads
      /\ \A u \in ts : /\ Task[u].cgroup = Task[t].cgroup
                       /\ Task[u].uid = Task[t].uid /\ Task[u].gid = Task[t].gid
  BY ProcFSAssumption DEF TaskRead, WithPid
<1>2. ts = {} \/ (CHOOSE u \in ts : TRUE) \in ts
  OBVIOUS
<1> HIDE DEF ts
<1>3. GetContainerID(tgid, Task[t].pid) \in {Task[t].cgroup.id, ""}
  BY <1>1, <1>2 DEF GetContainerID, ts
<1>4. CASE ts = {}
  <2>1. UNION {Task[u].cgroup.names : u \in ts} = {}
    BY <1>4
  <2>2. RuntimeIn({}) = "not-found"
    BY DEF RuntimeIn
  <2>3. GetContainerRuntime(tgid, Task[t].pid, host) = RuntimeAround(host)
    BY <2>1, <2>2 DEF GetContainerRuntime, ts
  <2>4. GetUIDGID(tgid, Task[t].pid) = <<0, 0>>
    BY <1>4, ScanNothing DEF GetUIDGID, ts
  <2> QED
    BY <1>3, <2>3, <2>4
<1>5. CASE ts # {}
  <2>1. UNION {Task[u].cgroup.names : u \in ts} = Task[t].cgroup.names
    BY <1>1, <1>5
  <2>2. GetContainerRuntime(tgid, Task[t].pid, host)
           \in {RuntimeIn(Task[t].cgroup.names), RuntimeAround(host)}
    BY <2>1 DEF GetContainerRuntime, ts
  <2> DEFINE u == CHOOSE u \in ts : TRUE
             ids == ScanLines(IF ts = {} THEN << >> ELSE Status(u))
  <2>3. u \in Threads /\ Task[u].uid = Task[t].uid /\ Task[u].gid = Task[t].gid
    BY <1>1, <1>2, <1>5
  <2>4. GetUIDGID(tgid, Task[t].pid) = IF ids = NoIds THEN <<0, 0>> ELSE <<ids.uid[1], ids.gid[1]>>
    BY DEF GetUIDGID, ts
  <2> HIDE DEF u
  <2>5. ids = [uid |-> <<Task[t].uid>>, gid |-> <<Task[t].gid>>]
    BY <1>5, <2>3, ScanStatus
  <2> HIDE DEF ids
  <2>6. ids # NoIds
    BY <2>5 DEF NoIds
  <2>7. ids.uid[1] = Task[t].uid /\ ids.gid[1] = Task[t].gid
    BY <2>5
  <2> QED
    BY <1>3, <2>2, <2>4, <2>6, <2>7
<1> QED
  BY <1>4, <1>5

-----------------------------------------------------------------------------
(* Whose the data is, wherever it waits.                                   *)

\* The data of a call, in the hash, in the buffer, and with the watcher.
Datum(d) == [call |-> d.call, task |-> d.task, path |-> d.path]
Held ==
  {Datum(tmp[k]) : k \in DOMAIN tmp} \union {Datum(ring[i]) : i \in DOMAIN ring}
  \union (IF watcher = Idle THEN {} ELSE {Datum(watcher.rec)})

\* The number that the data names is its process's own, or the call is one of reused.
NumberKept(d) ==
  \/ d.call \in reused \/ Task[d.task].pid = 0
  \/ \A u \in WithPid(Task[d.task].pid) : Task[u].process = Task[d.task].process

DatumOK(d) ==
  /\ d.task \in Threads /\ d.call \in 0..calls /\ d.path \in Seq(PathParts)
  /\ d.call = 0 => Task[d.task].comm = "bpfd"
  /\ Task[d.task].pid = Task[Self].pid /\ Task[Self].pid # 0 =>
       Task[d.task].process = Task[Self].process
  /\ NumberKept(d)

PlainInv ==
  /\ reports \in BOOLEAN /\ host \in Hosts
  /\ alive \subseteq Threads /\ Self \in alive
  /\ attached \subseteq Parts(kind)
  /\ calls \in 0..MaxCalls /\ missed \subseteq 1..calls /\ reused \subseteq 0..calls

HeldInv == \A d \in Held : DatumOK(d)

OfCall(t) == [call : {calls + 1}, task : {t}, path : Seq(PathParts)]
OfDaemon == [call : {0}, task : {Self}, path : Seq(PathParts)]

\* All the data there is after a step is in D.
LEMMA HeldIn ==
  ASSUME NEW D,
         \A k \in DOMAIN tmp' : Datum(tmp'[k]) \in D,
         \A i \in DOMAIN ring' : Datum(ring'[i]) \in D,
         watcher' # Idle => Datum(watcher'.rec) \in D
  PROVE  Held' \subseteq D
  BY DEF Held, Datum

LEMMA HeldHere ==
  /\ \A k \in DOMAIN tmp : Datum(tmp[k]) \in Held
  /\ \A i \in DOMAIN ring : Datum(ring[i]) \in Held
  /\ watcher # Idle => Datum(watcher.rec) \in Held
  BY DEF Held

\* What Submit leaves in the buffer.
LEMMA SubmitAdds ==
  ASSUME RingOK, NEW r, ring' = Submit(r), NEW i \in DOMAIN ring'
  PROVE  ring'[i] = r \/ (i \in DOMAIN ring /\ ring'[i] = ring[i])
<1>1. ring \in Seq(Range(ring))
  BY DEF RingOK
<1>2. CASE ring' = ring
  BY <1>2
<1>3. CASE ring' = Append(ring, r)
  <2>1. Len(ring) \in Nat /\ DOMAIN ring = 1..Len(ring) /\ DOMAIN ring' = 1..(Len(ring) + 1)
        /\ ring'[Len(ring) + 1] = r /\ \A j \in 1..Len(ring) : ring'[j] = ring[j]
    BY <1>1, <1>3, AppendProperties
  <2>2. i \in 1..Len(ring) \/ i = Len(ring) + 1
    BY <2>1
  <2> QED
    BY <2>1, <2>2
<1> QED
  BY <1>2, <1>3 DEF Submit

\* What the daemon's opens leave in it.
LEMMA OpensAdd ==
  ASSUME RingOK, NEW T, NEW paths \in Seq(T), ring' = WithOpensOfDaemon(paths),
         NEW i \in DOMAIN ring'
  PROVE  \/ i \in DOMAIN ring /\ ring'[i] = ring[i]
         \/ \E path \in T : ring'[i] = [call |-> 0, by |-> 0, task |-> Self, path |-> path]
<1> DEFINE opens == [j \in DOMAIN paths |->
                       [call |-> 0, by |-> 0, task |-> Self, path |-> paths[j]]]
           all == ring \o opens
           n == IF Len(all) < RingSize THEN Len(all) ELSE RingSize
           S == {[call |-> 0, by |-> 0, task |-> Self, path |-> path] : path \in T}
           R == Range(ring)
<1>1. /\ ring \in Seq(R \union S) /\ opens \in Seq(R \union S)
      /\ Len(opens) = Len(paths) /\ \A j \in 1..Len(opens) : opens[j] \in S
  <2>1. Len(paths) \in Nat /\ DOMAIN paths = 1..Len(paths) /\ \A j \in DOMAIN paths : paths[j] \in T
    BY LenProperties
  <2>2. opens \in [1..Len(paths) -> S]
    BY <2>1
  <2> HIDE DEF opens, S, R
  <2>3. opens \in Seq(S) /\ Len(opens) = Len(paths)
    BY <2>1, <2>2, SeqDef, LenProperties
  <2>4. ring \in Seq(R)
    BY DEF RingOK, R
  <2> QED
    BY <2>1, <2>2, <2>3, <2>4, SeqMonotonic
<1> HIDE DEF opens, S, R
<1>2. /\ Len(all) = Len(ring) + Len(opens) /\ Len(ring) \in Nat /\ Len(opens) \in Nat
      /\ DOMAIN ring = 1..Len(ring)
      /\ \A j \in 1..Len(ring) : all[j] = ring[j]
      /\ \A j \in 1..Len(all) : j > Len(ring) => all[j] = opens[j - Len(ring)]
      /\ all \in Seq(R \union S)
  <2>1. Len(ring) \in Nat /\ Len(opens) \in Nat /\ DOMAIN ring = 1..Len(ring)
    BY <1>1, LenProperties
  <2>2. /\ all \in Seq(R \union S) /\ Len(all) = Len(ring) + Len(opens)
        /\ \A j \in 1..(Len(ring) + Len(opens)) :
             all[j] = IF j <= Len(ring) THEN ring[j] ELSE opens[j - Len(ring)]
    BY <1>1, ConcatProperties
  <2> HIDE DEF all
  <2> QED
    BY <2>1, <2>2
<1> HIDE DEF all
<1>3. n \in Nat /\ n <= Len(all)
  BY <1>2, ProbePairsAssumption DEF ProbePairsAssumption
<1>4. CASE ring' = SubSeq(all, 1, n)
  <2> HIDE DEF n
  <2>1. i \in 1..n /\ ring'[i] = all[i]
    <3>1. \A j \in 1..n : all[j] \in R \union S
      <4>1. \A j \in 1..Len(all) : all[j] \in R \union S
        BY <1>2, ElementOfSeq
      <4> QED
        BY <1>3, <4>1
    <3>2. Len(ring') = n /\ ring' \in Seq(R \union S) /\ \A j \in 1..n : ring'[j] = all[j]
      BY <1>3, <1>4, <3>1, SubSeqProperties
    <3> QED
      BY <3>2, LenProperties
  <2>2. CASE i <= Len(ring)
    <3>1. i \in DOMAIN ring
      BY <1>2, <1>3, <2>1, <2>2
    <3> QED
      BY <1>2, <2>1, <3>1
  <2>3. CASE i > Len(ring)
    <3>1. i \in 1..Len(all) /\ i - Len(ring) \in 1..Len(opens)
      BY <1>2, <1>3, <2>1, <2>3
    <3>2. ring'[i] \in S
      BY <1>1, <1>2, <2>1, <2>3, <3>1
    <3> QED
      BY <3>2 DEF S
  <2> QED
    BY <1>2, <1>3, <2>1, <2>2, <2>3
<1>5. CASE ring' = ring
  BY <1>5
<1> QED
  BY <1>4, <1>5 DEF WithOpensOfDaemon, all, opens, n

\* The files that tasks open have paths.
LEMMA PathOK ==
  ASSUME NEW k \in Kinds, k \in OpenKinds, NEW path \in Paths[k]
  PROVE  path \in Seq(PathParts)
<1>1. path \in Seq(STRING)
  BY ProbePairsAssumption DEF ProbePairsAssumption, OpenKinds
<1>2. ToSet(path) \subseteq PathParts
  <2>1. ToSet(path) \subseteq OpenedParts
    BY DEF OpenedParts
  <2> QED
    BY <2>1 DEF PathParts
<1>3. path \in Seq(ToSet(path))
  <2>1. Len(path) \in Nat /\ DOMAIN path = 1..Len(path) /\ path = [i \in 1..Len(path) |-> path[i]]
    BY <1>1, LenProperties
  <2>2. \A i \in 1..Len(path) : path[i] \in ToSet(path)
    BY <2>1 DEF ToSet
  <2>3. path \in [1..Len(path) -> ToSet(path)]
    BY <2>1, <2>2
  <2> QED
    BY <2>1, <2>3, SeqDef
<1> QED
  BY <1>2, <1>3, SeqMonotonic

LEMMA NumbersTyped ==
  ASSUME NEW t \in Threads
  PROVE  Task[t].pid \in Nat /\ Tgid(t) \in Nat
  BY ProcFSAssumption DEF Tasks, Tgid

\* What a step of the watcher does to the buffer and to the record it has.
LEMMA WatchMoves ==
  ASSUME OwnInv, HeldInv, Watch
  PROVE  /\ tmp' = tmp
         /\ \/ /\ watcher.pc = "idle" /\ ring # << >> /\ ring' = Tail(ring)
               /\ watcher' = Idle \/ watcher'.rec = Head(ring)
            \/ /\ watcher # Idle /\ (watcher' = Idle \/ watcher'.rec = watcher.rec)
               /\ \/ ring' = ring
                  \/ \E paths \in Seq(Seq(PathParts)) : ring' = WithOpensOfDaemon(paths)
<1>0. watcher.pc # "idle" => EventOK
  BY DEF OwnInv, Idle
<1>1. tmp' = tmp
  BY WatchKeepsProbes DEF probeVars
<1>2. ASSUME NEW event, Receive(event), event = Idle \/ \E step : event = Pending(step, Head(ring))
      PROVE  /\ watcher' = Idle \/ watcher'.rec = Head(ring)
             /\ watcher.pc = "idle" /\ ring # << >> /\ ring' = Tail(ring)
  <2>1. /\ watcher.pc = "idle" /\ ring # << >> /\ ring' = Tail(ring)
        /\ watcher' \in {event, Idle}
    BY <1>2 DEF Receive
  <2>2. ASSUME NEW step, event = Pending(step, Head(ring))
        PROVE  event.rec = Head(ring)
    BY <2>2 DEF Pending
  <2> QED
    BY <1>2, <2>1, <2>2
<1>3. ASSUME NEW event, NEW paths \in Seq(Seq(PathParts)), Continue(event, paths), EventOK,
             event = Idle \/ event.rec = watcher.rec
      PROVE  /\ watcher' = Idle \/ watcher'.rec = watcher.rec
             /\ ring' = WithOpensOfDaemon(paths)
  BY <1>3 DEF Continue
<1>4. ASSUME watcher # Idle, NEW file \in {"/status", "/cgroup"}
      PROVE  ReadOf(watcher.rec, file) \in Seq(Seq(PathParts))
  <2>1. watcher.rec.task \in Threads
    BY <1>4, HeldHere DEF HeldInv, DatumOK, Datum
  <2> DEFINE path == ProcFile(Tgid(watcher.rec.task), Task[watcher.rec.task].pid, file)
  <2>2. path \in Seq(PathParts)
    BY <2>1, NumbersTyped, ProcFileOK
  <2>3. ReadOf(watcher.rec, file) = << >> \/ ReadOf(watcher.rec, file) = <<path>>
    BY DEF ReadOf
  <2> HIDE DEF path
  <2> QED
    BY <2>2, <2>3, EmptySeq, Singleton
<1>5. \A step : watcher.pc = step /\ step # "idle" => watcher # Idle
  BY DEF Idle
<1>6. CASE OpenReceive \/ BreakoutReceive \/ TcpReceive \/ BashReceive
  BY <1>1, <1>2, <1>6 DEF OpenReceive, BreakoutReceive, TcpReceive, BashReceive
<1>7. CASE PassOver \/ InspectFails \/ Do
  BY <1>1, <1>5, <1>7 DEF PassOver, InspectFails, Do
<1>8. CASE Report
  <2>1. watcher # Idle /\ EventOK
    BY <1>0, <1>5, <1>8 DEF Report
  <2>2. ring' = ring /\ (watcher' = Idle \/ watcher'.rec = watcher.rec)
    BY <1>8, <2>1 DEF Report, EventOK, EventFields
  <2> QED
    BY <1>1, <2>1, <2>2
<1>9. CASE ReadIds
  <2> DEFINE ids == GetUIDGID(Tgid(watcher.rec.task), Task[watcher.rec.task].pid)
             event == IF NoNumber \in {ids[1], ids[2]} THEN Idle
                      ELSE [watcher EXCEPT !.pc = "runtime", !.ids = ids]
  <2>1. watcher.pc = "ids" /\ Continue(event, ReadOf(watcher.rec, "/status"))
    BY <1>9 DEF ReadIds
  <2>2. watcher # Idle /\ EventOK
    BY <1>0, <1>5, <2>1
  <2>3. event = Idle \/ event.rec = watcher.rec
    BY <2>2 DEF EventOK, EventFields
  <2> HIDE DEF event
  <2>4. ReadOf(watcher.rec, "/status") \in Seq(Seq(PathParts))
    BY <1>4, <2>2
  <2> QED
    BY <1>1, <1>3, <2>1, <2>2, <2>3, <2>4
<1>10. CASE ReadRuntime
  <2> DEFINE r == watcher.rec
             runtime == GetContainerRuntime(Tgid(r.task), Task[r.task].pid, host)
             event == IF kind = "dockeropenbreakout" /\ runtime # "docker" THEN Idle
                      ELSE [watcher EXCEPT !.pc = "id", !.runtime = runtime]
  <2>1. watcher.pc = "runtime"
    BY <1>10 DEF ReadRuntime
  <2>2. watcher # Idle /\ EventOK
    BY <1>0, <1>5, <2>1
  <2>3. PICK around \in {OpensAround(host), << >>} :
          Continue(event, ReadOf(r, "/cgroup") \o around)
    BY <1>10 DEF ReadRuntime
  <2>4. event = Idle \/ event.rec = watcher.rec
    BY <2>2 DEF EventOK, EventFields
  <2>5. ReadOf(r, "/cgroup") \in Seq(Seq(PathParts))
    BY <1>4, <2>2
  <2>6. around \in Seq(Seq(PathParts))
    <3> DEFINE command == <<"/proc/", "1", "/cmdline">>
    <3>1. around = << >> \/ around = <<command>>
      BY <2>3 DEF OpensAround
    <3>2. command \in Seq(PathParts)
      <4>1. "/proc/" \in PathParts /\ "/cmdline" \in PathParts
        BY DEF PathParts
      <4>2. "1" \in PathParts
        <5>1. DOMAIN Figures = 1..10 /\ Figures[2] = "1"
          BY DEF Figures
        <5>2. "1" \in ToSet(Figures)
          BY <5>1 DEF ToSet
        <5> QED
          BY <5>2 DEF PathParts
      <4> DEFINE a == "/proc/" b == "1" c == "/cmdline"
      <4>3. a \in PathParts /\ b \in PathParts /\ c \in PathParts
        BY <4>1, <4>2
      <4> HIDE DEF a, b, c
      <4>4. <<a, b, c>> \in Seq(PathParts)
        BY <4>3
      <4> QED
        BY <4>4 DEF a, b, c
    <3> HIDE DEF command
    <3> QED
      BY <3>1, <3>2, EmptySeq, Singleton
  <2> HIDE DEF event
  <2>7. ReadOf(r, "/cgroup") \o around \in Seq(Seq(PathParts))
    BY <2>5, <2>6, ConcatProperties
  <2> QED
    BY <1>1, <1>3, <2>2, <2>3, <2>4, <2>7
<1>11. CASE ReadId
  <2> DEFINE id == GetContainerID(Tgid(watcher.rec.task), Task[watcher.rec.task].pid)
             event == IF kind # "dockeropenbreakout" THEN [watcher EXCEPT !.pc = "rules", !.id = id]
                      ELSE IF id = "" THEN Idle ELSE [watcher EXCEPT !.pc = "inspect", !.id = id]
  <2>1. watcher.pc = "id" /\ Continue(event, ReadOf(watcher.rec, "/cgroup"))
    BY <1>11 DEF ReadId
  <2>2. watcher # Idle /\ EventOK
    BY <1>0, <1>5, <2>1
  <2>3. event = Idle \/ event.rec = watcher.rec
    BY <2>2 DEF EventOK, EventFields
  <2> HIDE DEF event
  <2>4. ReadOf(watcher.rec, "/cgroup") \in Seq(Seq(PathParts))
    BY <1>4, <2>2
  <2> QED
    BY <1>1, <1>3, <2>1, <2>2, <2>3, <2>4
<1>12. CASE Inspect
  <2> DEFINE event == IF InMounts(watcher.rec.path) THEN Idle ELSE [watcher EXCEPT !.pc = "rules"]
  <2>1. watcher.pc = "inspect" /\ Continue(event, << >>)
    BY <1>12 DEF Inspect
  <2>2. watcher # Idle /\ EventOK
    BY <1>0, <1>5, <2>1
  <2>3. event = Idle \/ event.rec = watcher.rec
    BY <2>2 DEF EventOK, EventFields
  <2> HIDE DEF event
  <2> QED
    BY <1>1, <1>3, <2>1, <2>2, <2>3, EmptySeq
<1> QED
  BY <1>6, <1>7, <1>8, <1>9, <1>10, <1>11, <1>12 DEF Watch

\* The buffer without its first record.
LEMMA TailOfRing ==
  ASSUME NEW S, NEW s \in Seq(S), s # << >>, NEW i \in DOMAIN Tail(s)
  PROVE  i + 1 \in DOMAIN s /\ Tail(s)[i] = s[i + 1]
<1>1. /\ Len(s) \in Nat \ {0} /\ Len(Tail(s)) = Len(s) - 1 /\ Tail(s) \in Seq(S)
      /\ \A j \in 1..Len(Tail(s)) : Tail(s)[j] = s[j + 1]
  BY HeadTailProperties, LenProperties, EmptySeq
<1>2. DOMAIN s = 1..Len(s) /\ DOMAIN Tail(s) = 1..(Len(s) - 1)
  BY <1>1, LenProperties
<1> QED
  BY <1>1, <1>2

\* What data there is after a step, that there was not before.
LEMMA HeldStep ==
  ASSUME ProbeInv, OwnInv, PlainInv, HeldInv, [Next]_vars
  PROVE  \/ Held' \subseteq Held
         \/ Held' \subseteq Held \union OfDaemon /\ UNCHANGED <<alive, calls, reused>>
         \/ \E t \in Threads :
              /\ Held' \subseteq Held \union OfCall(t) /\ t \in alive
              /\ calls' = calls + 1 /\ UNCHANGED <<alive, reused>>
<1> USE HeldHere
<1>1. CASE UNCHANGED <<tmp, ring, watcher>>
  BY <1>1 DEF Held
<1>2. CASE Load
  <2>1. UNCHANGED <<tmp, ring, watcher>>
    BY <1>2 DEF Load, OpenLoad, BreakoutLoad, TcpLoad, BashLoad, Attach
  <2> QED
    BY <1>1, <2>1
<1>3. CASE Watch
  <2>1. UNCHANGED <<alive, calls, reused>>
    BY <1>3 DEF Watch, OpenReceive, BreakoutReceive, TcpReceive, BashReceive, Receive, PassOver,
      ReadIds, ReadRuntime, ReadId, Inspect, InspectFails, Report, Do, Continue, watcherVars
  <2> DEFINE D == Held \union OfDaemon
  <2>2. \A k \in DOMAIN tmp' : Datum(tmp'[k]) \in D
    BY <1>3, WatchMoves
  <2>3. ASSUME NEW i \in DOMAIN ring'
        PROVE  Datum(ring'[i]) \in D
    <3>1. CASE ring' = ring
      BY <3>1
    <3>2. CASE ring # << >> /\ ring' = Tail(ring)
      <4>1. i + 1 \in DOMAIN ring /\ ring'[i] = ring[i + 1]
        BY <3>2, TailOfRing DEF OwnInv, RingOK
      <4> QED
        BY <4>1
    <3>3. CASE \E paths \in Seq(Seq(PathParts)) : ring' = WithOpensOfDaemon(paths)
      <4>1. CASE i \in DOMAIN ring /\ ring'[i] = ring[i]
        BY <4>1
      <4>2. CASE \E path \in Seq(PathParts) :
                   ring'[i] = [call |-> 0, by |-> 0, task |-> Self, path |-> path]
        BY <4>2 DEF Datum, OfDaemon
      <4> QED
        BY <3>3, <4>1, <4>2, OpensAdd DEF OwnInv
    <3> QED
      BY <1>3, <3>1, <3>2, <3>3, WatchMoves
  <2>4. watcher' # Idle => Datum(watcher'.rec) \in D
    <3>1. ring # << >> => 1 \in DOMAIN ring /\ Head(ring) = ring[1]
      BY HeadTailProperties, LenProperties, EmptySeq DEF OwnInv, RingOK
    <3> QED
      BY <1>3, <3>1, WatchMoves
  <2> HIDE DEF D
  <2>5. Held' \subseteq D
    BY <2>2, <2>3, <2>4, HeldIn
  <2> QED
    BY <2>1, <2>5 DEF D
<1>4. ASSUME NEW t \in Threads, Exit(t) \/ Start(t) \/ ReturnUnseen(t)
      PROVE  UNCHANGED <<tmp, ring, watcher>>
  BY <1>4 DEF Exit, Start, ReturnUnseen
<1>5. ASSUME NEW t \in Threads, OpenEnter(t) \/ BreakoutEnter(t) \/ TcpEnter(t)
      PROVE  /\ Held' \subseteq Held \union OfCall(t) /\ t \in alive
             /\ calls' = calls + 1 /\ UNCHANGED <<alive, reused>>
  <2>1. PICK path \in Seq(PathParts) : Enter(t, path)
    <3>1. kind \in Kinds /\ << >> \in Seq(PathParts)
      BY EmptySeq DEF ProbeInv
    <3>2. ASSUME OpenEnter(t) \/ BreakoutEnter(t)
          PROVE  \E path \in Paths[kind] : Enter(t, path) /\ kind \in OpenKinds
      BY <3>2 DEF OpenEnter, BreakoutEnter, OpenKinds
    <3> QED
      BY <1>5, <3>1, <3>2, PathOK DEF TcpEnter
  <2>2. /\ thread[t].pc = "outside" /\ calls' = calls + 1
        /\ UNCHANGED <<alive, reused, ring, watcher>>
    BY <2>1 DEF Enter
  <2>3. t \in alive
    BY <2>2 DEF ProbeInv, ThreadOK
  <2> DEFINE entry == [call |-> calls + 1, task |-> t, path |-> path]
             D == Held \union OfCall(t)
  <2>4. ASSUME NEW k \in DOMAIN tmp'
        PROVE  tmp'[k] = entry \/ (k \in DOMAIN tmp /\ tmp'[k] = tmp[k])
    BY <2>1 DEF Enter, Updates
  <2>5. Datum(entry) \in D
    BY DEF Datum, OfCall
  <2> HIDE DEF entry, D
  <2>6. \A k \in DOMAIN tmp' : Datum(tmp'[k]) \in D
    BY <2>4, <2>5 DEF D
  <2>7. Held' \subseteq D
    BY <2>2, <2>6, HeldIn DEF D
  <2> QED
    BY <2>2, <2>3, <2>7 DEF D
<1>6. ASSUME NEW t \in Threads, BashReturn(t)
      PROVE  /\ Held' \subseteq Held \union OfCall(t) /\ t \in alive
             /\ calls' = calls + 1 /\ UNCHANGED <<alive, reused>>
  <2> DEFINE r == [call |-> calls + 1, by |-> calls + 1, task |-> t, path |-> << >>]
             D == Held \union OfCall(t)
  <2>1. /\ thread[t].pc = "outside" /\ calls' = calls + 1 /\ ring' = Submit(r)
        /\ UNCHANGED <<alive, reused, tmp, watcher>>
    BY <1>6 DEF BashReturn
  <2>2. t \in alive
    BY <2>1 DEF ProbeInv, ThreadOK
  <2>3. Datum(r) \in D
    BY EmptySeq DEF Datum, OfCall
  <2> HIDE DEF r
  <2>4. \A i \in DOMAIN ring' : Datum(ring'[i]) \in D
    BY <2>1, <2>3, SubmitAdds DEF OwnInv
  <2> HIDE DEF D
  <2>5. Held' \subseteq D
    BY <2>1, <2>4, HeldIn DEF D
  <2> QED
    BY <2>1, <2>2, <2>5 DEF D
<1>7. ASSUME NEW t \in Threads, Return(t)
      PROVE  Held' \subseteq Held
  <2> DEFINE d == tmp[Key(t)]
             r == [call |-> d.call, by |-> thread[t].call, task |-> d.task, path |-> d.path]
  <2>1. Key(t) \in DOMAIN tmp /\ ring' = Submit(r) /\ UNCHANGED <<tmp, watcher>>
    BY <1>7 DEF Return
  <2>2. Datum(r) = Datum(d)
    BY DEF Datum
  <2> HIDE DEF r
  <2>3. \A i \in DOMAIN ring' : Datum(ring'[i]) \in Held
    BY <2>1, <2>2, SubmitAdds DEF OwnInv
  <2> QED
    BY <2>1, <2>3, HeldIn
<1>8. ASSUME NEW t \in Threads, ReturnDelete(t)
      PROVE  Held' \subseteq Held
  <2>1. /\ UNCHANGED <<ring, watcher>>
        /\ \A k \in DOMAIN tmp' : k \in DOMAIN tmp /\ tmp'[k] = tmp[k]
    BY <1>8 DEF ReturnDelete, Restrict
  <2> QED
    BY <2>1, HeldIn
<1>9. CASE UNCHANGED vars
  BY <1>1, <1>9 DEF vars, kernelVars
<1>10. ASSUME NEW t \in Callers[kind], Call(t) \/ Exit(t) \/ Start(t)
       PROVE  t \in Threads
  BY ProbePairsAssumption DEF ProbePairsAssumption, ProbeInv
<1> QED
  BY <1>1, <1>2, <1>3, <1>4, <1>5, <1>6, <1>7, <1>8, <1>9, <1>10 DEF Next, Call

-----------------------------------------------------------------------------
(* The data stays what it was.                                             *)

\* Which processes there are, and which numbers went to another.
LEMMA ProcessStep ==
  ASSUME ProbeInv, PlainInv, [Next]_vars
  PROVE  /\ UNCHANGED <<kind, reports, host>>
         /\ calls' \in {calls, calls + 1} /\ calls' <= MaxCalls
         /\ \/ alive' \subseteq alive /\ Self \in alive' /\ reused' = reused
            \/ \E t \in Threads : /\ alive' = alive \union {t}
                                  /\ reused' = reused \union CallsOf(Task[t].pid)
                                  /\ \A u \in alive : Task[u].pid = Task[t].pid =>
                                        Task[u].process = Task[t].process
<1>1. CASE UNCHANGED <<kind, reports, host, calls, alive, reused>>
  BY <1>1 DEF PlainInv
<1>2. CASE Load
  <2>1. UNCHANGED <<kind, reports, host, calls, alive, reused>>
    BY <1>2 DEF Load, OpenLoad, BreakoutLoad, TcpLoad, BashLoad, Attach
  <2> QED
    BY <1>1, <2>1
<1>3. CASE Watch
  <2>1. UNCHANGED <<kind, reports, host, calls, alive, reused>>
    BY <1>3 DEF Watch, OpenReceive, BreakoutReceive, TcpReceive, BashReceive, Receive, PassOver,
      ReadIds, ReadRuntime, ReadId, Inspect, InspectFails, Report, Do, Continue, watcherVars
  <2> QED
    BY <1>1, <2>1
<1>4. ASSUME NEW t \in Threads, ReturnUnseen(t) \/ Return(t) \/ ReturnDelete(t)
      PROVE  UNCHANGED <<kind, reports, host, calls, alive, reused>>
  BY <1>4 DEF ReturnUnseen, Return, ReturnDelete
<1>5. ASSUME NEW t \in Threads, OpenEnter(t) \/ BreakoutEnter(t) \/ TcpEnter(t) \/ BashReturn(t)
      PROVE  /\ UNCHANGED <<kind, reports, host, alive, reused>>
             /\ calls' = calls + 1 /\ calls < MaxCalls
  <2>1. CASE \E path : Enter(t, path)
    BY <2>1 DEF Enter
  <2>2. CASE BashReturn(t)
    BY <2>2 DEF BashReturn
  <2> QED
    BY <1>5, <2>1, <2>2 DEF OpenEnter, BreakoutEnter, TcpEnter
<1>6. ASSUME NEW t \in Threads, Exit(t)
      PROVE  /\ UNCHANGED <<kind, reports, host, calls, reused>>
             /\ alive' \subseteq alive /\ Self \in alive'
  BY <1>6 DEF Exit, PlainInv
<1>7. ASSUME NEW t \in Threads, Start(t)
      PROVE  /\ UNCHANGED <<kind, reports, host, calls>>
             /\ alive' = alive \union {t} /\ reused' = reused \union CallsOf(Task[t].pid)
             /\ \A u \in alive : Task[u].pid = Task[t].pid => Task[u].process = Task[t].process
  BY <1>7 DEF Start, WithPid
<1>8. calls \in Nat /\ calls <= MaxCalls /\ MaxCalls \in Nat
  BY ProbePairsAssumption DEF ProbePairsAssumption, PlainInv
<1>9. CASE UNCHANGED vars
  BY <1>1, <1>9 DEF vars, kernelVars
<1>10. ASSUME NEW t \in Callers[kind], Call(t) \/ Exit(t) \/ Start(t)
       PROVE  t \in Threads
  BY ProbePairsAssumption DEF ProbePairsAssumption, ProbeInv
<1>11. ASSUME NEW t \in Threads, Call(t)
       PROVE  /\ UNCHANGED <<kind, reports, host, alive, reused>>
              /\ calls' \in {calls, calls + 1} /\ calls' <= MaxCalls
  <2>1. CASE ReturnUnseen(t) \/ Return(t) \/ ReturnDelete(t)
    BY <1>4, <1>8, <2>1
  <2>2. CASE OpenEnter(t) \/ BreakoutEnter(t) \/ TcpEnter(t) \/ BashReturn(t)
    BY <1>5, <1>8, <2>2
  <2> QED
    BY <1>11, <2>1, <2>2 DEF Call
<1>12. ASSUME NEW t \in Threads, Call(t) \/ Exit(t) \/ Start(t)
       PROVE  /\ UNCHANGED <<kind, reports, host>>
              /\ calls' \in {calls, calls + 1} /\ calls' <= MaxCalls
              /\ \/ alive' \subseteq alive /\ Self \in alive' /\ reused' = reused
                 \/ /\ alive' = alive \union {t} /\ reused' = reused \union CallsOf(Task[t].pid)
                    /\ \A u \in alive : Task[u].pid = Task[t].pid =>
                          Task[u].process = Task[t].process
  <2>1. Self \in alive
    BY DEF PlainInv
  <2> QED
    BY <1>6, <1>7, <1>8, <1>11, <1>12, <2>1
<1> QED
  BY <1>1, <1>2, <1>3, <1>9, <1>10, <1>12 DEF Next

\* Where the calls whose record has the PID p are found.
LEMMA CallsHeld ==
  ASSUME NEW p
  PROVE  CallsOf(p) = {d.call : d \in {d \in Held : Task[d.task].pid = p}}
<1>1. ASSUME NEW d \in Held, Task[d.task].pid = p
      PROVE  d.call \in CallsOf(p)
  <2>1. CASE \E k \in DOMAIN tmp : d = Datum(tmp[k])
    BY <1>1, <2>1 DEF Datum, CallsOf
  <2>2. CASE \E i \in DOMAIN ring : d = Datum(ring[i])
    BY <1>1, <2>2 DEF Datum, CallsOf
  <2>3. CASE watcher # Idle /\ d = Datum(watcher.rec)
    BY <1>1, <2>3 DEF Datum, CallsOf
  <2> QED
    BY <2>1, <2>2, <2>3 DEF Held
<1>2. ASSUME NEW c \in CallsOf(p)
      PROVE  \E d \in Held : Task[d.task].pid = p /\ d.call = c
  <2>1. CASE \E k \in DOMAIN tmp : Task[tmp[k].task].pid = p /\ c = tmp[k].call
    BY <2>1, HeldHere DEF Datum
  <2>2. CASE \E i \in DOMAIN ring : Task[ring[i].task].pid = p /\ c = ring[i].call
    BY <2>2, HeldHere DEF Datum
  <2>3. CASE watcher # Idle /\ Task[watcher.rec.task].pid = p /\ c = watcher.rec.call
    BY <2>3, HeldHere DEF Datum
  <2> QED
    BY <2>1, <2>2, <2>3 DEF CallsOf
<1> QED
  BY <1>1, <1>2

\* A new process that is given a number adds the calls that name it to reused.
LEMMA DatumKept ==
  ASSUME ProbeInv, PlainInv, HeldInv, [Next]_vars, NEW d \in Held
  PROVE  DatumOK(d)'
<1>1. DatumOK(d)
  BY DEF HeldInv
<1>2. d.call \in 0..calls'
  <2>1. calls \in Nat /\ calls' \in {calls, calls + 1}
    BY ProcessStep DEF ProbeInv
  <2> QED
    BY <1>1, <2>1 DEF DatumOK
<1>3. NumberKept(d)'
  <2>1. CASE alive' \subseteq alive /\ reused' = reused
    BY <1>1, <2>1 DEF DatumOK, NumberKept, WithPid
  <2>2. ASSUME NEW t \in Threads, alive' = alive \union {t},
               reused' = reused \union CallsOf(Task[t].pid)
        PROVE  NumberKept(d)'
    <3>1. CASE Task[d.task].pid = Task[t].pid
      <4>1. d.call \in CallsOf(Task[t].pid)
        BY <3>1, CallsHeld
      <4> QED
        BY <2>2, <4>1 DEF NumberKept
    <3>2. CASE Task[d.task].pid # Task[t].pid
      BY <1>1, <2>2, <3>2 DEF DatumOK, NumberKept, WithPid
    <3> QED
      BY <3>1, <3>2
  <2> QED
    BY <2>1, <2>2, ProcessStep
<1> QED
  BY <1>1, <1>2, <1>3 DEF DatumOK

\* New data is of a task that has its number now.
LEMMA NumberNow ==
  ASSUME ProbeInv, NEW t \in Threads, t \in alive, alive \subseteq Threads
  PROVE  \/ Task[t].pid = 0
         \/ \A u \in WithPid(Task[t].pid) : Task[u].process = Task[t].process
  BY DEF ProbeInv, NumbersOK, WithPid

LEMMA HeldStays ==
  ASSUME ProbeInv, OwnInv, PlainInv, HeldInv, [Next]_vars
  PROVE  HeldInv'
<1>1. \A d \in Held : DatumOK(d)'
  BY DatumKept
<1>2. calls \in Nat /\ Self \in alive /\ Self \in Threads /\ alive \subseteq Threads
  BY ProcFSAssumption DEF ProcFSAssumption, ProbeInv, PlainInv
<1>3. CASE Held' \subseteq Held
  BY <1>1, <1>3 DEF HeldInv
<1>4. CASE Held' \subseteq Held \union OfDaemon /\ UNCHANGED <<alive, calls, reused>>
  <2>1. ASSUME NEW d \in OfDaemon
        PROVE  DatumOK(d)'
    <3>1. d.call = 0 /\ d.task = Self /\ d.path \in Seq(PathParts)
      BY DEF OfDaemon
    <3>2. Task[Self].comm = "bpfd"
      BY <1>2, ProbePairsAssumption DEF ProbePairsAssumption
    <3>3. NumberKept(d)'
      BY <1>2, <1>4, <3>1, NumberNow DEF NumberKept, WithPid
    <3> QED
      BY <1>2, <1>4, <3>1, <3>2, <3>3 DEF DatumOK
  <2> QED
    BY <1>1, <1>4, <2>1 DEF HeldInv
<1>5. ASSUME NEW t \in Threads, Held' \subseteq Held \union OfCall(t), t \in alive,
             calls' = calls + 1, UNCHANGED <<alive, reused>>
      PROVE  HeldInv'
  <2>1. ASSUME NEW d \in OfCall(t)
        PROVE  DatumOK(d)'
    <3>1. d.call = calls + 1 /\ d.task = t /\ d.path \in Seq(PathParts)
      BY DEF OfCall
    <3>2. NumberKept(d)'
      BY <1>2, <1>5, <3>1, NumberNow DEF NumberKept, WithPid
    <3>3. Task[t].pid = Task[Self].pid /\ Task[Self].pid # 0 => Task[t].process = Task[Self].process
      BY <1>2, <1>5 DEF ProbeInv, NumbersOK
    <3>4. d.call \in 0..calls' /\ d.call # 0
      BY <1>2, <1>5, <3>1
    <3> QED
      BY <3>1, <3>2, <3>3, <3>4 DEF DatumOK
  <2> QED
    BY <1>1, <1>5, <2>1 DEF HeldInv
<1> QED
  BY <1>3, <1>4, <1>5, HeldStep

LEMMA PlainStays ==
  ASSUME ProbeInv, OwnInv, PlainInv, HeldInv, [Next]_vars
  PROVE  PlainInv'
<1>1. calls \in Nat /\ calls' \in {calls, calls + 1} /\ calls' <= MaxCalls /\ MaxCalls \in Nat
  BY ProcessStep, ProbePairsAssumption DEF ProbePairsAssumption, ProbeInv
<1>2. UNCHANGED <<kind, reports, host>> /\ alive' \subseteq Threads /\ Self \in alive'
  BY ProcessStep DEF PlainInv
<1>3. reused' \subseteq 0..calls'
  <2>1. \A p : CallsOf(p) \subseteq 0..calls
    BY CallsHeld DEF HeldInv, DatumOK
  <2>2. reused' \subseteq 0..calls
    BY <2>1, ProcessStep DEF PlainInv
  <2> QED
    BY <1>1, <2>2
<1>4. attached' \subseteq Parts(kind)
  <2>1. CASE UNCHANGED attached
    BY <2>1 DEF PlainInv
  <2>2. CASE Load
    BY <2>2 DEF PlainInv, Load, OpenLoad, BreakoutLoad, TcpLoad, BashLoad, Attach
  <2>3. CASE Watch
    <3>1. UNCHANGED attached
      BY <2>3, WatchKeepsProbes DEF probeVars
    <3> QED
      BY <2>1, <3>1
  <2>4. ASSUME NEW t, Call(t) \/ Exit(t) \/ Start(t)
        PROVE  UNCHANGED attached
    BY <2>4 DEF Call, Exit, Start, OpenEnter, BreakoutEnter, TcpEnter, Enter, BashReturn,
      ReturnUnseen, Return, ReturnDelete
  <2>5. CASE UNCHANGED vars
    BY <2>1, <2>5 DEF vars, kernelVars
  <2> QED
    BY <2>1, <2>2, <2>3, <2>4, <2>5 DEF Next
<1>5. missed' \subseteq 1..calls'
  <2>1. CASE UNCHANGED missed
    BY <1>1, <2>1 DEF PlainInv
  <2>2. CASE Load
    BY <1>1, <2>2 DEF PlainInv, Load, OpenLoad, BreakoutLoad, TcpLoad, BashLoad, Attach
  <2>3. CASE Watch
    <3>1. UNCHANGED missed
      BY <2>3, WatchKeepsProbes DEF probeVars
    <3> QED
      BY <2>1, <3>1
  <2>4. ASSUME NEW t \in Threads, ReturnUnseen(t)
        PROVE  missed' \subseteq 1..calls'
    <3>1. thread[t].pc = "inside" /\ missed' \subseteq missed \union {thread[t].call}
      BY <2>4 DEF ReturnUnseen
    <3>2. thread[t].call \in 0..calls /\ thread[t].call # 0
      BY <3>1 DEF ProbeInv, ThreadOK
    <3>3. thread[t].call \in 1..calls
      BY <1>1, <3>2
    <3>4. missed \subseteq 1..calls
      BY DEF PlainInv
    <3>5. 1..calls \subseteq 1..calls'
      BY <1>1
    <3> QED
      BY <3>1, <3>3, <3>4, <3>5
  <2>5. ASSUME NEW t, Call(t) \/ Exit(t) \/ Start(t)
        PROVE  UNCHANGED missed \/ ReturnUnseen(t)
    BY <2>5 DEF Call, Exit, Start, OpenEnter, BreakoutEnter, TcpEnter, Enter, BashReturn,
      Return, ReturnDelete
  <2>6. CASE UNCHANGED vars
    BY <2>1, <2>6 DEF vars, kernelVars
  <2>7. ASSUME NEW t \in Callers[kind]
         PROVE  t \in Threads
    BY <2>7, ProbePairsAssumption DEF ProbePairsAssumption, ProbeInv
  <2> QED
    BY <2>1, <2>2, <2>3, <2>4, <2>5, <2>6, <2>7 DEF Next
<1>6. calls' \in 0..MaxCalls
  BY <1>1
<1> QED
  BY <1>2, <1>3, <1>4, <1>5, <1>6 DEF PlainInv

-----------------------------------------------------------------------------
(* The buffer.                                                             *)

RingTyped == Len(ring) <= RingSize /\ \A i \in DOMAIN ring : ring[i] \in Records

LEMMA RingStays ==
  ASSUME ProbeInv, OwnInv, PlainInv, HeldInv, RingTyped, [Next]_vars
  PROVE  RingTyped'
<1>1. MaxCalls \in Nat /\ RingSize \in Nat /\ calls \in 0..MaxCalls
  BY ProbePairsAssumption DEF ProbePairsAssumption, PlainInv
<1>2. ring \in Seq(Range(ring)) /\ Len(ring) \in Nat /\ DOMAIN ring = 1..Len(ring)
  BY LenProperties DEF OwnInv, RingOK
<1>3. ASSUME NEW r \in Records, ring' = Submit(r)
      PROVE  RingTyped'
  <2>1. \A i \in DOMAIN ring' : ring'[i] \in Records
    BY <1>3, SubmitAdds DEF OwnInv, RingTyped
  <2>2. Len(ring') <= RingSize
    <3>1. Len(Append(ring, r)) = Len(ring) + 1
      <4>1. ring \in Seq(Range(ring) \union {r})
        BY <1>2, SeqMonotonic
      <4> QED
        BY <4>1, AppendProperties
    <3>2. ring' = ring \/ (Len(ring) < RingSize /\ ring' = Append(ring, r))
      BY <1>3 DEF Submit
    <3>3. CASE ring' = ring
      BY <3>3 DEF RingTyped
    <3>4. CASE Len(ring) < RingSize /\ ring' = Append(ring, r)
      <4>1. Len(ring') = Len(ring) + 1
        BY <3>1, <3>4
      <4> QED
        BY <1>1, <1>2, <3>4, <4>1
    <3> QED
      BY <3>2, <3>3, <3>4
  <2> QED
    BY <2>1, <2>2 DEF RingTyped
<1>4. CASE UNCHANGED ring
  BY <1>4 DEF RingTyped, Records
<1>5. CASE ring # << >> /\ ring' = Tail(ring)
  <2>1. Len(ring') <= RingSize
    <3>1. Len(ring') = Len(ring) - 1
      BY <1>2, <1>5, HeadTailProperties
    <3> QED
      BY <1>1, <1>2, <3>1 DEF RingTyped
  <2>2. ASSUME NEW i \in DOMAIN ring'
        PROVE  ring'[i] \in Records
    <3>1. i + 1 \in DOMAIN ring /\ ring'[i] = ring[i + 1]
      BY <1>2, <1>5, TailOfRing
    <3> QED
      BY <3>1 DEF RingTyped
  <2> QED
    BY <2>1, <2>2 DEF RingTyped
<1>6. ASSUME NEW paths \in Seq(Seq(PathParts)), ring' = WithOpensOfDaemon(paths)
      PROVE  RingTyped'
  <2>1. ASSUME NEW i \in DOMAIN ring'
        PROVE  ring'[i] \in Records
    <3>1. CASE i \in DOMAIN ring /\ ring'[i] = ring[i]
      BY <3>1 DEF RingTyped
    <3>2. ASSUME NEW path \in Seq(PathParts),
                 ring'[i] = [call |-> 0, by |-> 0, task |-> Self, path |-> path]
          PROVE  ring'[i] \in Records
      <4>1. 0 \in 0..MaxCalls /\ Self \in Threads
        BY <1>1, ProcFSAssumption
      <4> QED
        BY <3>2, <4>1 DEF Records
    <3> QED
      BY <1>6, <3>1, <3>2, OpensAdd DEF OwnInv
  <2>2. Len(ring') <= RingSize
    <3> DEFINE opens == [j \in DOMAIN paths |->
                           [call |-> 0, by |-> 0, task |-> Self, path |-> paths[j]]]
               all == ring \o opens
               n == IF Len(all) < RingSize THEN Len(all) ELSE RingSize
    <3>1. opens \in Seq(Range(opens))
      <4>1. Len(paths) \in Nat /\ DOMAIN opens = 1..Len(paths)
        BY LenProperties
      <4>2. opens \in [1..Len(paths) -> Range(opens)]
        BY <4>1 DEF Range
      <4> DEFINE n1 == Len(paths)
                 R == Range(opens)
      <4> HIDE DEF opens, R, n1
      <4>3. n1 \in Nat /\ opens \in [1..n1 -> R]
        BY <4>1, <4>2 DEF n1, R
      <4>4. opens \in Seq(R)
        BY <4>3, SeqDef
      <4> QED
        BY <4>4 DEF R
    <3> DEFINE S == Range(ring) \union Range(opens)
    <3> HIDE DEF opens
    <3>2. ring \in Seq(S) /\ opens \in Seq(S)
      BY <1>2, <3>1, SeqMonotonic
    <3>3. all \in Seq(S)
      BY <3>2, ConcatProperties
    <3> HIDE DEF all
    <3>4. Len(all) \in Nat /\ \A j \in 1..Len(all) : all[j] \in S
      BY <3>3, LenProperties, ElementOfSeq
    <3>5. n \in Nat /\ n <= RingSize /\ n <= Len(all)
      BY <1>1, <3>4
    <3> HIDE DEF n
    <3>6. Len(SubSeq(all, 1, n)) = n
      <4>1. \A j \in 1..n : all[j] \in S
        BY <3>4, <3>5
      <4> QED
        BY <3>5, <4>1, SubSeqProperties
    <3>7. ring' = ring \/ ring' = SubSeq(all, 1, n)
      BY <1>6 DEF WithOpensOfDaemon, opens, all, n
    <3> QED
      BY <3>5, <3>6, <3>7 DEF RingTyped
  <2> QED
    BY <2>1, <2>2 DEF RingTyped
<1>7. CASE Load
  <2>1. UNCHANGED ring
    BY <1>7 DEF Load, OpenLoad, BreakoutLoad, TcpLoad, BashLoad, Attach
  <2> QED
    BY <1>4, <2>1
<1>8. CASE Watch
  BY <1>4, <1>5, <1>6, <1>8, WatchMoves
<1>9. ASSUME NEW t \in Threads, OpenEnter(t) \/ BreakoutEnter(t) \/ TcpEnter(t)
      PROVE  UNCHANGED ring
  BY <1>9 DEF OpenEnter, BreakoutEnter, TcpEnter, Enter
<1>10. ASSUME NEW t \in Threads, ReturnUnseen(t) \/ ReturnDelete(t) \/ Exit(t) \/ Start(t)
       PROVE  UNCHANGED ring
  BY <1>10 DEF ReturnUnseen, ReturnDelete, Exit, Start
<1>11. ASSUME NEW t \in Threads, BashReturn(t)
       PROVE  RingTyped'
  <2> DEFINE r == [call |-> calls + 1, by |-> calls + 1, task |-> t, path |-> << >>]
  <2>1. calls < MaxCalls /\ ring' = Submit(r)
    BY <1>11 DEF BashReturn
  <2>2. calls + 1 \in 0..MaxCalls
    BY <1>1, <2>1
  <2>3. r \in Records
    BY <2>2, EmptySeq DEF Records
  <2> HIDE DEF r
  <2> QED
    BY <1>3, <2>1, <2>3
<1>12. ASSUME NEW t \in Threads, Return(t)
       PROVE  RingTyped'
  <2> DEFINE d == tmp[Key(t)]
             r == [call |-> d.call, by |-> thread[t].call, task |-> d.task, path |-> d.path]
  <2>1. Key(t) \in DOMAIN tmp /\ ring' = Submit(r)
    BY <1>12 DEF Return
  <2>2. DatumOK(Datum(d))
    BY <2>1, HeldHere DEF HeldInv
  <2>3. d.call \in 0..calls /\ d.task \in Threads /\ d.path \in Seq(PathParts)
    BY <2>2 DEF DatumOK, Datum
  <2>4. thread[t].call \in 0..calls
    BY DEF ProbeInv, ThreadOK
  <2>5. 0..calls \subseteq 0..MaxCalls
    BY <1>1
  <2>6. r \in Records
    BY <2>3, <2>4, <2>5 DEF Records
  <2> HIDE DEF r
  <2> QED
    BY <1>3, <2>1, <2>6
<1>13. CASE UNCHANGED vars
  BY <1>4, <1>13 DEF vars, kernelVars
<1>14. ASSUME NEW t \in Callers[kind], Call(t) \/ Exit(t) \/ Start(t)
       PROVE  t \in Threads
  BY ProbePairsAssumption DEF ProbePairsAssumption, ProbeInv
<1>15. ASSUME NEW t \in Threads, Call(t) \/ Exit(t) \/ Start(t)
       PROVE  RingTyped'
  BY <1>4, <1>9, <1>10, <1>11, <1>12, <1>15 DEF Call
<1> QED
  BY <1>7, <1>8, <1>13, <1>14, <1>15 DEF Next

-----------------------------------------------------------------------------
(* What the watcher finds out about its event.                             *)

Asked == {"id", "inspect", "rules", "kill", "reported"}

\* Of an event whose number is still its process's own.
OriginOK(e) ==
  LET t == e.rec.task IN
  e.rec.call \notin reused /\ Task[t].pid # 0 =>
    /\ e.pc \in Asked => e.runtime \in {RuntimeIn(Task[t].cgroup.names), RuntimeAround(host)}
    /\ e.id \in {Task[t].cgroup.id, ""}
    /\ e.ids \in {<<Task[t].uid, Task[t].gid>>, <<0, 0>>}

WatcherOK(e) ==
  /\ e \in Events /\ OriginOK(e)
  /\ kind \in OpenKinds => ~Ignored(e.rec)
  /\ e.pc = "inspect" => kind = "dockeropenbreakout"

\* The signals of a kill are for the process of the call, and never the daemon's own.
KillOK(k) ==
  /\ k.call \in reused \/ \A u \in k.killed : Task[u].process = Task[k.task].process
  /\ kind \in OpenKinds => Self \notin k.killed

EventInv ==
  /\ watcher # Idle => WatcherOK(watcher)
  /\ \A e \in reported : e \in Events /\ e.pc = "reported" /\ OriginOK(e)
  /\ unanswered \subseteq 1..calls
  /\ \A k \in kills : KillOK(k)

\* What is decoded is of the event's fields.
LEMMA FieldsThere == FieldsInPlace(kind) \subseteq FieldsOf(kind)
  BY DEF FieldsInPlace, FieldsOf

\* What /proc may tell, of whatever process.
LEMMA OriginTyped ==
  ASSUME alive \subseteq Threads, NEW tgid, NEW pid
  PROVE  /\ GetContainerRuntime(tgid, pid, host) \in Runtimes
         /\ GetContainerID(tgid, pid) \in {Task[t].cgroup.id : t \in Threads} \union {""}
         /\ GetUIDGID(tgid, pid) \in Nat \X Nat
<1> DEFINE ts == TaskRead(tgid, pid)
           u == CHOOSE u \in ts : TRUE
<1>1. ts \subseteq Threads /\ (ts # {} => u \in Threads)
  BY DEF TaskRead, WithPid
<1>2. GetContainerRuntime(tgid, pid, host) \in Runtimes
  BY RuntimeInOK, RuntimeAroundOK DEF GetContainerRuntime
<1>3. GetContainerID(tgid, pid) = IF ts = {} THEN "" ELSE Task[u].cgroup.id
  BY DEF GetContainerID
<1>4. GetContainerID(tgid, pid) \in {Task[t].cgroup.id : t \in Threads} \union {""}
  <2> HIDE DEF ts, u
  <2> QED
    BY <1>1, <1>3
<1> DEFINE ids == ScanLines(IF ts = {} THEN << >> ELSE Status(u))
<1>5. GetUIDGID(tgid, pid) = IF ids = NoIds THEN <<0, 0>> ELSE <<ids.uid[1], ids.gid[1]>>
  BY DEF GetUIDGID
<1> HIDE DEF ts, u
<1>6. CASE ts = {}
  <2>1. ids = NoIds
    BY <1>6, ScanNothing
  <2> HIDE DEF ids
  <2>2. GetUIDGID(tgid, pid) = <<0, 0>>
    BY <1>5, <2>1
  <2>3. GetUIDGID(tgid, pid) \in Nat \X Nat
    BY <2>2
  <2> QED
    BY <1>2, <1>4, <2>3
<1>7. CASE ts # {}
  <2>1. ids = [uid |-> <<Task[u].uid>>, gid |-> <<Task[u].gid>>]
    BY <1>1, <1>7, ScanStatus
  <2>2. Task[u].uid \in Nat /\ Task[u].gid \in Nat
    BY <1>1, <1>7, ProcFSAssumption DEF ProcFSAssumption, Tasks
  <2> HIDE DEF ids
  <2>3. ids.uid[1] \in Nat /\ ids.gid[1] \in Nat
    BY <2>1, <2>2
  <2> DEFINE a == ids.uid[1] b == ids.gid[1]
  <2>4. <<0, 0>> \in Nat \X Nat /\ <<a, b>> \in Nat \X Nat
    BY <2>3
  <2>5. GetUIDGID(tgid, pid) = <<0, 0>> \/ GetUIDGID(tgid, pid) = <<a, b>>
    BY <1>5
  <2>6. GetUIDGID(tgid, pid) \in Nat \X Nat
    BY <2>4, <2>5
  <2> QED
    BY <1>2, <1>4, <2>6
<1> QED
  BY <1>6, <1>7

LEMMA EventsType ==
  ASSUME NEW e \in Events
  PROVE  /\ DOMAIN e = {"pc", "rec", "fields", "runtime", "ids", "id"}
         /\ e.pc \in Steps /\ e.rec \in Records /\ e.fields \in SUBSET FieldsOf(kind)
         /\ e.runtime \in Runtimes \union {""} /\ e.ids \in Nat \X Nat
         /\ e.id \in {Task[t].cgroup.id : t \in Threads} \union {""}
  BY DEF Events

\* What an event that is taken from the buffer starts with.
LEMMA PendingOK ==
  ASSUME NEW r \in Records, NEW step \in {"ids", "runtime", "dataless"},
         kind \in OpenKinds => ~Ignored(r)
  PROVE  WatcherOK(Pending(step, r))
<1> DEFINE t == r.task
           ids == <<Task[t].uid, Task[t].gid>>
<1>1. r.task \in Threads
  BY DEF Records
<1>2. ids \in Nat \X Nat
  BY <1>1, ProcFSAssumption DEF Tasks
<1> HIDE DEF ids
<1>3. Pending(step, r) = [pc |-> step, rec |-> r, fields |-> FieldsInPlace(kind), runtime |-> "",
                          id |-> "", ids |-> ids]
  BY DEF Pending, ids
<1>4. step \in Steps
  BY DEF Steps
<1>5. Pending(step, r) \in Events
  <2> DEFINE F == FieldsInPlace(kind)
             Fs == FieldsOf(kind)
             Ids == {Task[u].cgroup.id : u \in Threads} \union {""}
             Rs == Runtimes \union {""}
  <2>1. F \subseteq Fs /\ "" \in Ids /\ "" \in Rs
    BY FieldsThere
  <2> HIDE DEF F, Fs, Ids, Rs
  <2>2. [pc |-> step, rec |-> r, fields |-> F, runtime |-> "", id |-> "", ids |-> ids]
          \in [pc : Steps, rec : Records, fields : SUBSET Fs, runtime : Rs, ids : Nat \X Nat,
               id : Ids]
    BY <1>2, <1>4, <2>1
  <2> QED
    BY <1>3, <2>2 DEF Events, F, Fs, Ids, Rs
<1> DEFINE p == Pending(step, r)
<1>6. p.pc = step /\ p.rec = r /\ p.id = "" /\ p.ids = ids
  <2>1. p = [pc |-> step, rec |-> r, fields |-> FieldsInPlace(kind), runtime |-> "", id |-> "",
             ids |-> ids]
    BY <1>3
  <2> HIDE DEF p
  <2> QED
    BY <2>1
<1> HIDE DEF p
<1>7. OriginOK(p)
  BY <1>6 DEF OriginOK, Asked, ids
<1> QED
  BY <1>5, <1>6, <1>7 DEF WatcherOK, p

\* What the watcher asks of /proc, it is told of its own event's process.
LEMMA AskOwn ==
  ASSUME PlainInv, HeldInv, watcher # Idle, watcher.rec.call \notin reused,
         Task[watcher.rec.task].pid # 0, NEW tgid, tgid = Tgid(watcher.rec.task)
  PROVE  LET t == watcher.rec.task IN
         /\ GetContainerRuntime(tgid, Task[t].pid, host)
              \in {RuntimeIn(Task[t].cgroup.names), RuntimeAround(host)}
         /\ GetContainerID(tgid, Task[t].pid) \in {Task[t].cgroup.id, ""}
         /\ GetUIDGID(tgid, Task[t].pid) \in {<<Task[t].uid, Task[t].gid>>, <<0, 0>>}
<1>1. DatumOK(Datum(watcher.rec))
  BY HeldHere DEF HeldInv
<1>2. PICK t \in Threads : t = watcher.rec.task
  BY <1>1 DEF DatumOK, Datum
<1>3. \A u \in WithPid(Task[t].pid) : Task[u].process = Task[t].process
  BY <1>1, <1>2 DEF DatumOK, Datum, NumberKept
<1>4. tgid \in Nat /\ alive \subseteq Threads
  BY <1>2, NumbersTyped DEF PlainInv
<1> QED
  BY <1>2, <1>3, <1>4, OwnOrigin

\* The event w, a step further.
Moved(w, step, runtime, id, ids) ==
  [pc |-> step, rec |-> w.rec, fields |-> w.fields, runtime |-> runtime, id |-> id, ids |-> ids]

\* An event that goes on with what was found out.
LEMMA MovedOK ==
  ASSUME NEW w, WatcherOK(w), NEW step \in Steps, NEW runtime \in Runtimes \union {""},
         NEW id \in {Task[t].cgroup.id : t \in Threads} \union {""}, NEW ids \in Nat \X Nat,
         step = "inspect" => kind = "dockeropenbreakout",
         w.rec.call \notin reused /\ Task[w.rec.task].pid # 0 =>
           /\ step \in Asked =>
                runtime \in {RuntimeIn(Task[w.rec.task].cgroup.names), RuntimeAround(host)}
           /\ id \in {Task[w.rec.task].cgroup.id, ""}
           /\ ids \in {<<Task[w.rec.task].uid, Task[w.rec.task].gid>>, <<0, 0>>}
  PROVE  WatcherOK(Moved(w, step, runtime, id, ids))
<1> DEFINE m == Moved(w, step, runtime, id, ids)
<1>1. /\ m.pc = step /\ m.rec = w.rec /\ m.runtime = runtime /\ m.id = id /\ m.ids = ids
  BY DEF Moved
<1>2. m \in Events
  <2> DEFINE Fs == SUBSET FieldsOf(kind)
             Ids == {Task[u].cgroup.id : u \in Threads} \union {""}
             Rs == Runtimes \union {""}
  <2>1. w.rec \in Records /\ w.fields \in Fs
    BY EventsType DEF WatcherOK
  <2>2. id \in Ids /\ runtime \in Rs
    OBVIOUS
  <2> HIDE DEF Fs, Ids, Rs
  <2>3. [pc |-> step, rec |-> w.rec, fields |-> w.fields, runtime |-> runtime, id |-> id,
         ids |-> ids]
          \in [pc : Steps, rec : Records, fields : Fs, runtime : Rs, ids : Nat \X Nat, id : Ids]
    BY <2>1, <2>2
  <2> QED
    BY <2>3 DEF Moved, Events, Fs, Ids, Rs
<1> HIDE DEF m
<1>3. OriginOK(m)
  BY <1>1 DEF OriginOK
<1> QED
  BY <1>1, <1>2, <1>3 DEF WatcherOK, m

\* The ways in which an event goes on.
LEMMA StepMoved ==
  ASSUME NEW w \in Events, NEW step
  PROVE  [w EXCEPT !.pc = step] = Moved(w, step, w.runtime, w.id, w.ids)
<1> DEFINE m == [f \in EventFields |-> IF f = "pc" THEN step ELSE w[f]]
<1>1. [w EXCEPT !.pc = step] = m
  BY EventsType, Zenon DEF EventFields
<1>2. /\ m.pc = step /\ m.rec = w.rec /\ m.fields = w.fields
      /\ m.runtime = w.runtime /\ m.id = w.id /\ m.ids = w.ids
  BY DEF EventFields
<1>3. m = [pc |-> m.pc, rec |-> m.rec, fields |-> m.fields, runtime |-> m.runtime,
           id |-> m.id, ids |-> m.ids]
  <2>1. m = [f \in EventFields |-> m[f]]
    OBVIOUS
  <2> HIDE DEF m
  <2> QED
    BY <2>1 DEF EventFields
<1> HIDE DEF m
<1> QED
  BY <1>1, <1>2, <1>3 DEF Moved

LEMMA IdsMoved ==
  ASSUME NEW w \in Events, NEW step, NEW x
  PROVE  [w EXCEPT !.pc = step, !.ids = x] = Moved(w, step, w.runtime, w.id, x)
<1> DEFINE m == [f \in EventFields |-> IF f = "ids" THEN x ELSE IF f = "pc" THEN step ELSE w[f]]
<1>1. [w EXCEPT !.pc = step, !.ids = x] = m
  BY EventsType, Zenon DEF EventFields
<1>2. /\ m.pc = step /\ m.rec = w.rec /\ m.fields = w.fields
      /\ m.runtime = w.runtime /\ m.id = w.id /\ m.ids = x
  BY DEF EventFields
<1>3. m = [pc |-> m.pc, rec |-> m.rec, fields |-> m.fields, runtime |-> m.runtime,
           id |-> m.id, ids |-> m.ids]
  <2>1. m = [f \in EventFields |-> m[f]]
    OBVIOUS
  <2> HIDE DEF m
  <2> QED
    BY <2>1 DEF EventFields
<1> HIDE DEF m
<1> QED
  BY <1>1, <1>2, <1>3 DEF Moved

LEMMA RuntimeMoved ==
  ASSUME NEW w \in Events, NEW step, NEW x
  PROVE  [w EXCEPT !.pc = step, !.runtime = x] = Moved(w, step, x, w.id, w.ids)
<1> DEFINE m == [f \in EventFields |-> IF f = "runtime" THEN x ELSE IF f = "pc" THEN step ELSE w[f]]
<1>1. [w EXCEPT !.pc = step, !.runtime = x] = m
  BY EventsType, Zenon DEF EventFields
<1>2. /\ m.pc = step /\ m.rec = w.rec /\ m.fields = w.fields
      /\ m.runtime = x /\ m.id = w.id /\ m.ids = w.ids
  BY DEF EventFields
<1>3. m = [pc |-> m.pc, rec |-> m.rec, fields |-> m.fields, runtime |-> m.runtime,
           id |-> m.id, ids |-> m.ids]
  <2>1. m = [f \in EventFields |-> m[f]]
    OBVIOUS
  <2> HIDE DEF m
  <2> QED
    BY <2>1 DEF EventFields
<1> HIDE DEF m
<1> QED
  BY <1>1, <1>2, <1>3 DEF Moved

LEMMA IdMoved ==
  ASSUME NEW w \in Events, NEW step, NEW x
  PROVE  [w EXCEPT !.pc = step, !.id = x] = Moved(w, step, w.runtime, x, w.ids)
<1> DEFINE m == [f \in EventFields |-> IF f = "id" THEN x ELSE IF f = "pc" THEN step ELSE w[f]]
<1>1. [w EXCEPT !.pc = step, !.id = x] = m
  BY EventsType, Zenon DEF EventFields
<1>2. /\ m.pc = step /\ m.rec = w.rec /\ m.fields = w.fields
      /\ m.runtime = w.runtime /\ m.id = x /\ m.ids = w.ids
  BY DEF EventFields
<1>3. m = [pc |-> m.pc, rec |-> m.rec, fields |-> m.fields, runtime |-> m.runtime,
           id |-> m.id, ids |-> m.ids]
  <2>1. m = [f \in EventFields |-> m[f]]
    OBVIOUS
  <2> HIDE DEF m
  <2> QED
    BY <2>1 DEF EventFields
<1> HIDE DEF m
<1> QED
  BY <1>1, <1>2, <1>3 DEF Moved

\* Whatever the watcher has after a step of it.
LEMMA WatchEvent ==
  ASSUME ProbeInv, OwnInv, PlainInv, HeldInv, RingTyped, EventInv, Watch,
         NEW e, e = watcher', e # Idle
  PROVE  WatcherOK(e)
<1>1. PICK w : w = watcher
  OBVIOUS
<1>2. w.pc # "idle" => WatcherOK(w) /\ w # Idle /\ w \in Events
  BY <1>1 DEF EventInv, Idle, WatcherOK
<1>3. ring # << >> => Head(ring) \in Records
  <2>1. ring # << >> => 1 \in DOMAIN ring /\ Head(ring) = ring[1]
    BY HeadTailProperties, LenProperties, EmptySeq DEF OwnInv, RingOK
  <2> QED
    BY <2>1 DEF RingTyped
<1>4. PICK t, tgid, pid, runtime, id, ids :
        /\ t = w.rec.task /\ tgid = Tgid(t) /\ pid = Task[t].pid
        /\ runtime = GetContainerRuntime(tgid, pid, host)
        /\ id = GetContainerID(tgid, pid)
        /\ ids = GetUIDGID(tgid, pid)
  OBVIOUS
<1>5. /\ runtime \in Runtimes \union {""} /\ ids \in Nat \X Nat
      /\ id \in {Task[u].cgroup.id : u \in Threads} \union {""}
      /\ w.pc # "idle" =>
           /\ w.runtime \in Runtimes \union {""} /\ w.ids \in Nat \X Nat
           /\ w.id \in {Task[u].cgroup.id : u \in Threads} \union {""}
  <2>1. alive \subseteq Threads
    BY DEF PlainInv
  <2> QED
    BY <1>2, <1>4, <2>1, OriginTyped, EventsType
<1>6. w # Idle /\ w.rec.call \notin reused /\ Task[w.rec.task].pid # 0 =>
        /\ runtime \in {RuntimeIn(Task[w.rec.task].cgroup.names), RuntimeAround(host)}
        /\ id \in {Task[w.rec.task].cgroup.id, ""}
        /\ ids \in {<<Task[w.rec.task].uid, Task[w.rec.task].gid>>, <<0, 0>>}
  BY <1>1, <1>4, AskOwn
<1>7. w.pc # "idle" /\ w.rec.call \notin reused /\ Task[w.rec.task].pid # 0 =>
        /\ w.pc \in Asked =>
             w.runtime \in {RuntimeIn(Task[w.rec.task].cgroup.names), RuntimeAround(host)}
        /\ w.id \in {Task[w.rec.task].cgroup.id, ""}
        /\ w.ids \in {<<Task[w.rec.task].uid, Task[w.rec.task].gid>>, <<0, 0>>}
  BY <1>2 DEF WatcherOK, OriginOK
<1>8. CASE OpenReceive
  <2>1. ring # << >> /\ kind = "open" /\ ~Ignored(Head(ring)) /\ e = Pending("ids", Head(ring))
    BY <1>8 DEF OpenReceive, Receive
  <2> QED
    BY <1>3, <2>1, PendingOK
<1>9. CASE BreakoutReceive
  <2>1. ring # << >> /\ ~Ignored(Head(ring)) /\ e = Pending("ids", Head(ring))
    BY <1>9 DEF BreakoutReceive, Receive
  <2> QED
    BY <1>3, <2>1, PendingOK
<1>10. CASE TcpReceive
  <2>1. ring # << >> /\ kind = "tcpdrop" /\ e = Pending("runtime", Head(ring))
    BY <1>10 DEF TcpReceive, Receive
  <2> QED
    BY <1>3, <2>1, PendingOK DEF OpenKinds
<1>11. CASE BashReceive
  <2>1. ring # << >> /\ kind = "bashreadline" /\ e = Pending("dataless", Head(ring))
    BY <1>11 DEF BashReceive, Receive
  <2> QED
    BY <1>3, <2>1, PendingOK DEF OpenKinds
<1>12. CASE PassOver \/ InspectFails \/ Do
  BY <1>12 DEF PassOver, InspectFails, Do
<1>13. CASE ReadIds
  <2>1. w.pc = "ids" /\ e = [w EXCEPT !.pc = "runtime", !.ids = ids]
    BY <1>1, <1>4, <1>13 DEF ReadIds, Continue
  <2>2. e = Moved(w, "runtime", w.runtime, w.id, ids)
    <3>1. w \in Events
      BY <1>2, <2>1
    <3>2. [w EXCEPT !.pc = "runtime", !.ids = ids] = Moved(w, "runtime", w.runtime, w.id, ids)
      BY <3>1, IdsMoved
    <3> QED
      BY <2>1, <3>2
  <2>3. "runtime" \in Steps /\ "runtime" \notin Asked
    BY DEF Steps, Asked
  <2>8. WatcherOK(Moved(w, "runtime", w.runtime, w.id, ids))
    BY <1>2, <1>5, <1>6, <1>7, <2>1, <2>3, MovedOK
  <2> QED
    BY <2>2, <2>8
<1>14. CASE ReadRuntime
  <2>1. w.pc = "runtime" /\ e = [w EXCEPT !.pc = "id", !.runtime = runtime]
    BY <1>1, <1>4, <1>14 DEF ReadRuntime, Continue
  <2>2. e = Moved(w, "id", runtime, w.id, w.ids)
    BY <1>2, <2>1, RuntimeMoved
  <2>3. "id" \in Steps
    BY DEF Steps
  <2>8. WatcherOK(Moved(w, "id", runtime, w.id, w.ids))
    BY <1>2, <1>5, <1>6, <1>7, <2>1, <2>3, MovedOK
  <2> QED
    BY <2>2, <2>8
<1>15. CASE ReadId
  <2>1. w.pc = "id" /\ \E step \in {"rules", "inspect"} :
           /\ e = [w EXCEPT !.pc = step, !.id = id]
           /\ step = "inspect" => kind = "dockeropenbreakout"
    BY <1>1, <1>4, <1>15 DEF ReadId, Continue
  <2>2. PICK step \in {"rules", "inspect"} :
          /\ e = [w EXCEPT !.pc = step, !.id = id]
          /\ step = "inspect" => kind = "dockeropenbreakout"
    BY <2>1
  <2>3. e = Moved(w, step, w.runtime, id, w.ids)
    BY <1>2, <2>1, <2>2, IdMoved
  <2>4. step \in Steps /\ "id" \in Asked
    BY DEF Steps, Asked
  <2>8. WatcherOK(Moved(w, step, w.runtime, id, w.ids))
    BY <1>2, <1>5, <1>6, <1>7, <2>1, <2>2, <2>4, MovedOK
  <2> QED
    BY <2>3, <2>8
<1>16. CASE Inspect
  <2>1. w.pc = "inspect" /\ e = [w EXCEPT !.pc = "rules"]
    BY <1>1, <1>16 DEF Inspect, Continue
  <2>2. e = Moved(w, "rules", w.runtime, w.id, w.ids)
    BY <1>2, <2>1, StepMoved
  <2>3. "rules" \in Steps /\ "inspect" \in Asked
    BY DEF Steps, Asked
  <2>4. WatcherOK(Moved(w, "rules", w.runtime, w.id, w.ids))
    BY <1>2, <1>5, <1>7, <2>1, <2>3, MovedOK
  <2> QED
    BY <2>2, <2>4
<1>17. CASE Report
  <2>1. w.pc = "rules" /\ e = [w EXCEPT !.pc = "kill"]
    BY <1>1, <1>17 DEF Report
  <2>2. e = Moved(w, "kill", w.runtime, w.id, w.ids)
    BY <1>2, <2>1, StepMoved
  <2>3. "kill" \in Steps /\ "rules" \in Asked
    BY DEF Steps, Asked
  <2>4. WatcherOK(Moved(w, "kill", w.runtime, w.id, w.ids))
    BY <1>2, <1>5, <1>7, <2>1, <2>3, MovedOK
  <2> QED
    BY <2>2, <2>4
<1> QED
  BY <1>8, <1>9, <1>10, <1>11, <1>12, <1>13, <1>14, <1>15, <1>16, <1>17 DEF Watch

\* An event that has been reported.
LEMMA ReportedEvent ==
  ASSUME EventInv, Report, NEW e \in reported'
  PROVE  e \in Events /\ e.pc = "reported" /\ OriginOK(e)
<1>1. PICK w : w = watcher
  OBVIOUS
<1>2. w.pc = "rules" /\ (e \in reported \/ e = [w EXCEPT !.pc = "reported"])
  BY <1>1 DEF Report
<1>3. WatcherOK(w) /\ w \in Events
  BY <1>1, <1>2 DEF EventInv, Idle, WatcherOK
<1>4. CASE e = [w EXCEPT !.pc = "reported"]
  <2>1. e = Moved(w, "reported", w.runtime, w.id, w.ids)
    BY <1>3, <1>4, StepMoved
  <2>2. "reported" \in Steps /\ "rules" \in Asked
    BY DEF Steps, Asked
  <2>3. WatcherOK(e)
    <3>1. /\ w.runtime \in Runtimes \union {""} /\ w.ids \in Nat \X Nat
          /\ w.id \in {Task[t].cgroup.id : t \in Threads} \union {""}
      BY <1>3, EventsType
    <3>2. w.rec.call \notin reused /\ Task[w.rec.task].pid # 0 =>
            /\ w.runtime \in {RuntimeIn(Task[w.rec.task].cgroup.names), RuntimeAround(host)}
            /\ w.id \in {Task[w.rec.task].cgroup.id, ""}
            /\ w.ids \in {<<Task[w.rec.task].uid, Task[w.rec.task].gid>>, <<0, 0>>}
      BY <1>2, <1>3, <2>2 DEF WatcherOK, OriginOK
    <3>3. WatcherOK(Moved(w, "reported", w.runtime, w.id, w.ids))
      BY <1>3, <2>2, <3>1, <3>2, MovedOK
    <3> QED
      BY <2>1, <3>3
  <2>4. e.pc = "reported"
    BY <2>1 DEF Moved
  <2> QED
    BY <2>3, <2>4 DEF WatcherOK
<1> QED
  BY <1>2, <1>4 DEF EventInv

\* A process that has been signalled.
LEMMA NewKill ==
  ASSUME PlainInv, HeldInv, EventInv, Do, NEW k \in kills'
  PROVE  KillOK(k)
<1>1. PICK w : w = watcher
  OBVIOUS
<1>2. w.pc = "kill" /\ w # Idle /\ WatcherOK(w)
  BY <1>1 DEF Do, EventInv, Idle
<1>3. DatumOK(Datum(w.rec))
  BY <1>1, <1>2, HeldHere DEF HeldInv
<1> DEFINE t == w.rec.task
           pid == Task[t].pid
<1>4. t \in Threads /\ Self \in alive /\ Self \in Threads
  BY <1>3, ProcFSAssumption DEF DatumOK, Datum, PlainInv
<1>5. \/ w.rec.call \in reused \/ pid = 0
      \/ \A u \in WithPid(pid) : Task[u].process = Task[t].process
  BY <1>3 DEF DatumOK, NumberKept, Datum
<1>6. kind \in OpenKinds /\ pid # 0 => pid # Task[Self].pid
  <2>1. ASSUME kind \in OpenKinds, pid # 0, pid = Task[Self].pid
        PROVE  FALSE
    <3>1. Task[t].process = Task[Self].process
      BY <1>3, <2>1 DEF DatumOK, Datum
    <3>2. Task[t].comm = "bpfd"
      BY <1>4, <3>1, ProbePairsAssumption DEF ProbePairsAssumption
    <3> QED
      BY <1>2, <2>1, <3>2 DEF WatcherOK, Ignored
  <2> QED
    BY <2>1
<1>7. \/ k \in kills
      \/ k = [call |-> w.rec.call, task |-> t, killed |-> IF pid = 0 THEN {} ELSE WithPid(pid)]
  BY <1>1 DEF Do
<1>8. CASE k \in kills
  BY <1>8 DEF EventInv
<1>9. CASE k = [call |-> w.rec.call, task |-> t, killed |-> IF pid = 0 THEN {} ELSE WithPid(pid)]
  <2>1. k.call = w.rec.call /\ k.task = t /\ k.killed = IF pid = 0 THEN {} ELSE WithPid(pid)
    BY <1>9
  <2>2. \A u \in k.killed : pid # 0 /\ u \in WithPid(pid) /\ Task[u].pid = pid
    BY <2>1 DEF WithPid
  <2>3. k.call \in reused \/ \A u \in k.killed : Task[u].process = Task[k.task].process
    BY <1>5, <2>1, <2>2
  <2>4. kind \in OpenKinds => Self \notin k.killed
    BY <1>6, <2>2
  <2> QED
    BY <2>3, <2>4 DEF KillOK
<1> QED
  BY <1>7, <1>8, <1>9

LEMMA EventStays ==
  ASSUME ProbeInv, OwnInv, PlainInv, HeldInv, RingTyped, EventInv, [Next]_vars
  PROVE  EventInv'
<1>1. /\ UNCHANGED <<kind, reports, host>> /\ reused \subseteq reused'
      /\ calls \in Nat /\ calls' \in Nat /\ 1..calls \subseteq 1..calls'
  <2>1. calls \in Nat /\ calls' \in {calls, calls + 1}
    BY ProcessStep DEF ProbeInv
  <2>2. reused \subseteq reused'
    BY ProcessStep
  <2> QED
    BY <2>1, <2>2, ProcessStep
<1>2. ASSUME NEW e, OriginOK(e)
      PROVE  OriginOK(e)'
  BY <1>1, <1>2 DEF OriginOK
<1>3. ASSUME NEW e, WatcherOK(e)
      PROVE  WatcherOK(e)'
  BY <1>1, <1>2, <1>3 DEF WatcherOK, Events, Ignored, Tgid
<1>4. ASSUME NEW k, KillOK(k)
      PROVE  KillOK(k)'
  BY <1>1, <1>4 DEF KillOK
<1>5. ASSUME NEW e, e \in Events
      PROVE  (e \in Events)'
  BY <1>1, <1>5 DEF Events
<1>6. watcher' # Idle => WatcherOK(watcher)'
  <2>1. PICK e : e = watcher'
    OBVIOUS
  <2>2. CASE Watch
    <3>1. e # Idle => WatcherOK(e)'
      BY <1>3, <2>1, <2>2, WatchEvent
    <3> QED
      BY <2>1, <3>1 DEF WatcherOK, OriginOK, Events, Ignored
  <2>3. CASE UNCHANGED watcher
    <3>1. e # Idle => WatcherOK(e)'
      BY <1>3, <2>1, <2>3 DEF EventInv
    <3> QED
      BY <2>1, <3>1 DEF WatcherOK, OriginOK, Events, Ignored
  <2>4. Watch \/ UNCHANGED watcher
    BY DEF Next, Load, OpenLoad, BreakoutLoad, TcpLoad, BashLoad, Attach, Call, Exit, Start,
      OpenEnter, BreakoutEnter, TcpEnter, Enter, BashReturn, ReturnUnseen, Return, ReturnDelete,
      vars, kernelVars
  <2> QED
    BY <2>2, <2>3, <2>4
<1>7. UNCHANGED <<reported, unanswered, kills>> \/ Report \/ InspectFails \/ Do
  BY DEF Next, Load, OpenLoad, BreakoutLoad, TcpLoad, BashLoad, Attach, Call, Exit, Start,
    OpenEnter, BreakoutEnter, TcpEnter, Enter, BashReturn, ReturnUnseen, Return, ReturnDelete,
    Watch, OpenReceive, BreakoutReceive, TcpReceive, BashReceive, Receive, PassOver, ReadIds,
    ReadRuntime, ReadId, Inspect, Continue, vars, kernelVars
<1>8. ASSUME NEW e \in reported'
      PROVE  (e \in Events /\ e.pc = "reported" /\ OriginOK(e))'
  <2>1. e \in Events /\ e.pc = "reported" /\ OriginOK(e)
    <3>1. CASE Report
      BY <1>8, <3>1, ReportedEvent
    <3>2. CASE UNCHANGED reported
      BY <1>8, <3>2 DEF EventInv
    <3>3. InspectFails \/ Do => UNCHANGED reported
      BY DEF InspectFails, Do
    <3> QED
      BY <1>7, <3>1, <3>2, <3>3
  <2> QED
    BY <1>2, <1>5, <2>1
<1>9. unanswered' \subseteq 1..calls'
  <2>1. CASE UNCHANGED unanswered
    BY <1>1, <2>1 DEF EventInv
  <2>2. CASE InspectFails
    <3>1. /\ watcher # Idle /\ WatcherOK(watcher) /\ watcher.pc = "inspect"
          /\ unanswered' = unanswered \union {watcher.rec.call}
      BY <2>2 DEF InspectFails, EventInv, Idle
    <3>2. DatumOK(Datum(watcher.rec))
      BY <3>1, HeldHere DEF HeldInv
    <3>3. ~Ignored(watcher.rec)
      BY <3>1 DEF WatcherOK, OpenKinds
    <3>4. watcher.rec.call \in 0..calls /\ watcher.rec.call # 0
      BY <3>2, <3>3 DEF DatumOK, Datum, Ignored
    <3>5. watcher.rec.call \in 1..calls
      BY <1>1, <3>4
    <3> QED
      BY <1>1, <3>1, <3>5 DEF EventInv
  <2>3. Report \/ Do => UNCHANGED unanswered
    BY DEF Report, Do
  <2> QED
    BY <1>7, <2>1, <2>2, <2>3
<1>10. ASSUME NEW k \in kills'
       PROVE  KillOK(k)'
  <2>1. CASE Do
    BY <1>4, <1>10, <2>1, NewKill
  <2>2. CASE UNCHANGED kills
    BY <1>4, <1>10, <2>2 DEF EventInv
  <2>3. Report \/ InspectFails => UNCHANGED kills
    BY DEF Report, InspectFails
  <2> QED
    BY <1>7, <2>1, <2>2, <2>3
<1> QED
  BY <1>6, <1>8, <1>9, <1>10 DEF EventInv

-----------------------------------------------------------------------------
(* Where the fields of the records are.                                    *)

\* The field after one that ends at n, in bytes of the record.
EndOf(n, field) == Aligned(n, field.align) + field.size
EndsUpTo(f, fields, m) ==
  f = [n \in 0..m |-> IF n = 0 THEN 0 ELSE EndOf(f[n - 1], fields[n])]

LEMMA EndsTables == ASSUME NEW fields PROVE \A m \in Nat : \E f : EndsUpTo(f, fields, m)
<1> DEFINE bad == {m \in Nat : ~ \E f : EndsUpTo(f, fields, m)}
<1> SUFFICES ASSUME bad # {} PROVE FALSE
  OBVIOUS
<1>1. PICK m \in bad : \A k \in bad : m <= k
  <2>1. bad \subseteq Nat
    OBVIOUS
  <2> HIDE DEF bad
  <2> QED
    BY <2>1, Least
<1>2. m # 0
  <2>1. EndsUpTo([n \in 0..0 |-> 0], fields, 0)
    BY DEF EndsUpTo
  <2> QED
    BY <2>1
<1>3. m \in Nat /\ m - 1 \in Nat /\ m - 1 \notin bad
  BY <1>1, <1>2
<1>4. PICK f : EndsUpTo(f, fields, m - 1)
  BY <1>3
<1> DEFINE g == [n \in 0..m |-> IF n = m THEN EndOf(f[m - 1], fields[m]) ELSE f[n]]
<1>5. \A n \in 0..m : g[n] = IF n = 0 THEN 0 ELSE EndOf(g[n - 1], fields[n])
  <2> SUFFICES ASSUME NEW n \in 0..m
               PROVE  g[n] = IF n = 0 THEN 0 ELSE EndOf(g[n - 1], fields[n])
    OBVIOUS
  <2>1. CASE n = m
    <3>1. g[n - 1] = f[m - 1]
      BY <1>2, <1>3, <2>1
    <3> QED
      BY <1>2, <2>1, <3>1
  <2>2. CASE n # m
    <3>1. n \in 0..(m - 1)
      BY <1>3, <2>2
    <3>2. f[n] = IF n = 0 THEN 0 ELSE EndOf(f[n - 1], fields[n])
      BY <1>4, <3>1 DEF EndsUpTo
    <3>3. n # 0 => g[n - 1] = f[n - 1]
      BY <1>3, <3>1
    <3> QED
      BY <2>2, <3>2, <3>3
  <2> QED
    BY <2>1, <2>2
<1>6. g = [n \in 0..m |-> g[n]]
  OBVIOUS
<1>7. EndsUpTo(g, fields, m)
  <2> HIDE DEF g
  <2> QED
    BY <1>5, <1>6 DEF EndsUpTo
<1> QED
  BY <1>1, <1>7

LEMMA EndsStep ==
  ASSUME NEW S, NEW fields \in Seq(S)
  PROVE  /\ Ends(fields)[0] = 0
         /\ \A n \in 1..Len(fields) : Ends(fields)[n] = EndOf(Ends(fields)[n - 1], fields[n])
<1> DEFINE f == CHOOSE f : EndsUpTo(f, fields, Len(fields))
<1>1. Ends(fields) = f
  BY DEF Ends, EndsUpTo, EndOf
<1>2. EndsUpTo(f, fields, Len(fields))
  BY EndsTables
<1> HIDE DEF f
<1> QED
  BY <1>1, <1>2 DEF EndsUpTo

FieldNames ==
  {"PID", "TGID", "UID", "GID", "ReturnValue", "Comm", "Filename", "SourceAddress",
   "DestinationAddress", "SourcePort", "DestinationPort", "State", "TCPFlags", "Seq", "Len"}
Fields == [name : FieldNames, size : Nat, align : Nat]

LEMMA NotAligned == ASSUME NEW n \in Nat PROVE Aligned(n, 1) = n
<1>1. n % 1 = 0 /\ (1 - (n % 1)) % 1 = 0
  OBVIOUS
<1> QED
  BY <1>1 DEF Aligned

\* What binary.Read has read after each of the fields.
LEMMA ReadStep ==
  ASSUME NEW fields \in Seq(Fields)
  PROVE  LET ends == Ends(Packed(fields)) IN
         /\ ends[0] = 0
         /\ \A n \in 1..Len(fields) :
              ends[n - 1] \in Nat => ends[n] = ends[n - 1] + fields[n].size
<1> DEFINE packed == Packed(fields)
           ends == Ends(packed)
<1>1. \A i \in DOMAIN fields : packed[i] = [name |-> fields[i].name, size |-> fields[i].size, align |-> 1]
  <2> SUFFICES ASSUME NEW i \in DOMAIN fields
               PROVE  packed[i] = [name |-> fields[i].name, size |-> fields[i].size, align |-> 1]
    OBVIOUS
  <2> DEFINE field == fields[i]
  <2>0. field \in Fields
    OBVIOUS
  <2>1. field = [name |-> field.name, size |-> field.size, align |-> field.align]
    BY <2>0 DEF Fields
  <2>2. packed[i] = [field EXCEPT !.align = 1]
    BY DEF Packed
  <2> HIDE DEF field
  <2> QED
    BY <2>1, <2>2 DEF field
<1>2. packed \in Seq(Fields) /\ Len(packed) = Len(fields)
  <2>1. packed = [i \in 1..Len(fields) |-> packed[i]]
    BY DEF Packed
  <2>2. \A i \in 1..Len(fields) : packed[i] \in Fields
    <3> SUFFICES ASSUME NEW i \in 1..Len(fields) PROVE packed[i] \in Fields
      OBVIOUS
    <3>0. fields[i] \in Fields
      OBVIOUS
    <3>1. fields[i].name \in FieldNames /\ fields[i].size \in Nat
      BY <3>0 DEF Fields
    <3>2. packed[i] = [name |-> fields[i].name, size |-> fields[i].size, align |-> 1]
      BY <1>1
    <3> HIDE DEF packed
    <3> QED
      BY <3>1, <3>2 DEF Fields
  <2> HIDE DEF packed
  <2> QED
    BY <2>1, <2>2
<1> HIDE DEF packed
<1>3. ends[0] = 0 /\ \A n \in 1..Len(fields) : ends[n] = EndOf(ends[n - 1], packed[n])
  BY <1>2, EndsStep
<1> HIDE DEF ends
<1>4. ASSUME NEW n \in 1..Len(fields), ends[n - 1] \in Nat
      PROVE  ends[n] = ends[n - 1] + fields[n].size
  <2>1. packed[n] = [name |-> fields[n].name, size |-> fields[n].size, align |-> 1]
    BY <1>1
  <2>2. packed[n].align = 1 /\ packed[n].size = fields[n].size
    BY <2>1
  <2> QED
    BY <1>3, <1>4, <2>2, NotAligned DEF EndOf
<1> QED
  BY <1>3, <1>4 DEF ends, packed

LEMMA OpenEnds ==
  LET c == Ends(OpenData) r == Ends(Packed(OpenEvent)) IN
  /\ c[0] = 0 /\ c[1] = 4 /\ c[2] = 8 /\ c[3] = 12 /\ c[4] = 28 /\ c[5] = 283
  /\ r[0] = 0 /\ r[1] = 4 /\ r[2] = 8 /\ r[3] = 12 /\ r[4] = 28 /\ r[5] = 283
<1> DEFINE d == OpenData
           e == OpenEvent
           c == Ends(d)
           r == Ends(Packed(e))
<1>1. d \in Seq(Fields) /\ Len(d) = 5
  BY DEF OpenData, Num, Text, Fields, FieldNames
<1>2. e \in Seq(Fields) /\ Len(e) = 5
  BY DEF OpenEvent, Num, Text, Fields, FieldNames
<1>3. /\ d[1].size = 4 /\ d[1].align = 4
      /\ d[2].size = 4 /\ d[2].align = 4
      /\ d[3].size = 4 /\ d[3].align = 4
      /\ d[4].size = 16 /\ d[4].align = 1
      /\ d[5].size = 255 /\ d[5].align = 1
  BY DEF OpenData, Num, Text
<1>4. /\ e[1].size = 4
      /\ e[2].size = 4
      /\ e[3].size = 4
      /\ e[4].size = 16
      /\ e[5].size = 255
  BY DEF OpenEvent, Num, Text
<1> HIDE DEF d, e
<1>5. c[0] = 0 /\ \A n \in 1..5 : c[n] = EndOf(c[n - 1], d[n])
  BY <1>1, EndsStep
<1>6. r[0] = 0 /\ \A n \in 1..5 : r[n - 1] \in Nat => r[n] = r[n - 1] + e[n].size
  BY <1>2, ReadStep
<1> HIDE DEF c, r
<1>7. c[1] = 4
  BY <1>3, <1>5 DEF EndOf, Aligned
<1>8. c[2] = 8
  BY <1>3, <1>5, <1>7 DEF EndOf, Aligned
<1>9. c[3] = 12
  BY <1>3, <1>5, <1>8 DEF EndOf, Aligned
<1>10. c[4] = 28
  BY <1>3, <1>5, <1>9 DEF EndOf, Aligned
<1>11. c[5] = 283
  BY <1>3, <1>5, <1>10 DEF EndOf, Aligned
<1>12. r[1] = 4
  BY <1>4, <1>6
<1>13. r[2] = 8
  BY <1>4, <1>6, <1>12
<1>14. r[3] = 12
  BY <1>4, <1>6, <1>13
<1>15. r[4] = 28
  BY <1>4, <1>6, <1>14
<1>16. r[5] = 283
  BY <1>4, <1>6, <1>15
<1> QED
  BY <1>5, <1>6, <1>7, <1>8, <1>9, <1>10, <1>11, <1>12, <1>13, <1>14, <1>15, <1>16 DEF c, r, d, e

LEMMA BashEnds ==
  LET c == Ends(BashData) r == Ends(Packed(BashEvent)) IN
  /\ c[0] = 0 /\ c[1] = 4 /\ c[2] = 8 /\ c[3] = 12 /\ c[4] = 16 /\ c[5] = 96 /\ c[6] = 100
  /\ r[0] = 0 /\ r[1] = 4 /\ r[2] = 8 /\ r[3] = 12 /\ r[4] = 16 /\ r[5] = 96 /\ r[6] = 100
<1> DEFINE d == BashData
           e == BashEvent
           c == Ends(d)
           r == Ends(Packed(e))
<1>1. d \in Seq(Fields) /\ Len(d) = 6
  BY DEF BashData, Num, Text, Fields, FieldNames
<1>2. e \in Seq(Fields) /\ Len(e) = 6
  BY DEF BashEvent, Num, Text, Fields, FieldNames
<1>3. /\ d[1].size = 4 /\ d[1].align = 4
      /\ d[2].size = 4 /\ d[2].align = 4
      /\ d[3].size = 4 /\ d[3].align = 4
      /\ d[4].size = 4 /\ d[4].align = 4
      /\ d[5].size = 80 /\ d[5].align = 1
      /\ d[6].size = 4 /\ d[6].align = 4
  BY DEF BashData, Num, Text
<1>4. /\ e[1].size = 4
      /\ e[2].size = 4
      /\ e[3].size = 4
      /\ e[4].size = 4
      /\ e[5].size = 80
      /\ e[6].size = 4
  BY DEF BashEvent, Num, Text
<1> HIDE DEF d, e
<1>5. c[0] = 0 /\ \A n \in 1..6 : c[n] = EndOf(c[n - 1], d[n])
  BY <1>1, EndsStep
<1>6. r[0] = 0 /\ \A n \in 1..6 : r[n - 1] \in Nat => r[n] = r[n - 1] + e[n].size
  BY <1>2, ReadStep
<1> HIDE DEF c, r
<1>7. c[1] = 4
  BY <1>3, <1>5 DEF EndOf, Aligned
<1>8. c[2] = 8
  BY <1>3, <1>5, <1>7 DEF EndOf, Aligned
<1>9. c[3] = 12
  BY <1>3, <1>5, <1>8 DEF EndOf, Aligned
<1>10. c[4] = 16
  BY <1>3, <1>5, <1>9 DEF EndOf, Aligned
<1>11. c[5] = 96
  BY <1>3, <1>5, <1>10 DEF EndOf, Aligned
<1>12. c[6] = 100
  BY <1>3, <1>5, <1>11 DEF EndOf, Aligned
<1>13. r[1] = 4
  BY <1>4, <1>6
<1>14. r[2] = 8
  BY <1>4, <1>6, <1>13
<1>15. r[3] = 12
  BY <1>4, <1>6, <1>14
<1>16. r[4] = 16
  BY <1>4, <1>6, <1>15
<1>17. r[5] = 96
  BY <1>4, <1>6, <1>16
<1>18. r[6] = 100
  BY <1>4, <1>6, <1>17
<1> QED
  BY <1>5, <1>6, <1>7, <1>8, <1>9, <1>10, <1>11, <1>12, <1>13, <1>14, <1>15, <1>16, <1>17,
    <1>18 DEF c, r, d, e

LEMMA TcpEnds ==
  LET c == Ends(TcpData) r == Ends(Packed(TcpEvent)) IN
  /\ c[0] = 0 /\ c[1] = 4 /\ c[2] = 8 /\ c[3] = 12 /\ c[4] = 16 /\ c[5] = 20 /\ c[6] = 36
  /\ c[7] = 40 /\ c[8] = 44 /\ c[9] = 46 /\ c[10] = 48 /\ c[11] = 49 /\ c[12] = 50 /\ c[13] = 56
  /\ c[14] = 58
  /\ r[0] = 0 /\ r[1] = 4 /\ r[2] = 8 /\ r[3] = 12 /\ r[4] = 16 /\ r[5] = 20 /\ r[6] = 36
  /\ r[7] = 40 /\ r[8] = 44 /\ r[9] = 46 /\ r[10] = 48 /\ r[11] = 49 /\ r[12] = 50 /\ r[13] = 54
  /\ r[14] = 56
<1> DEFINE d == TcpData
           e == TcpEvent
           c == Ends(d)
           r == Ends(Packed(e))
<1>1. d \in Seq(Fields) /\ Len(d) = 14
  BY DEF TcpData, Num, Text, Fields, FieldNames
<1>2. e \in Seq(Fields) /\ Len(e) = 14
  BY DEF TcpEvent, Num, Text, Fields, FieldNames
<1>3. /\ d[1].size = 4 /\ d[1].align = 4
      /\ d[2].size = 4 /\ d[2].align = 4
      /\ d[3].size = 4 /\ d[3].align = 4
      /\ d[4].size = 4 /\ d[4].align = 4
      /\ d[5].size = 4 /\ d[5].align = 4
      /\ d[6].size = 16 /\ d[6].align = 1
      /\ d[7].size = 4 /\ d[7].align = 4
      /\ d[8].size = 4 /\ d[8].align = 4
      /\ d[9].size = 2 /\ d[9].align = 2
      /\ d[10].size = 2 /\ d[10].align = 2
      /\ d[11].size = 1 /\ d[11].align = 1
      /\ d[12].size = 1 /\ d[12].align = 1
      /\ d[13].size = 4 /\ d[13].align = 4
      /\ d[14].size = 2 /\ d[14].align = 2
  BY DEF TcpData, Num, Text
<1>4. /\ e[1].size = 4
      /\ e[2].size = 4
      /\ e[3].size = 4
      /\ e[4].size = 4
      /\ e[5].size = 4
      /\ e[6].size = 16
      /\ e[7].size = 4
      /\ e[8].size = 4
      /\ e[9].size = 2
      /\ e[10].size = 2
      /\ e[11].size = 1
      /\ e[12].size = 1
      /\ e[13].size = 4
      /\ e[14].size = 2
  BY DEF TcpEvent, Num, Text
<1> HIDE DEF d, e
<1>5. c[0] = 0 /\ \A n \in 1..14 : c[n] = EndOf(c[n - 1], d[n])
  BY <1>1, EndsStep
<1>6. r[0] = 0 /\ \A n \in 1..14 : r[n - 1] \in Nat => r[n] = r[n - 1] + e[n].size
  BY <1>2, ReadStep
<1> HIDE DEF c, r
<1>7. c[1] = 4
  BY <1>3, <1>5 DEF EndOf, Aligned
<1>8. c[2] = 8
  BY <1>3, <1>5, <1>7 DEF EndOf, Aligned
<1>9. c[3] = 12
  BY <1>3, <1>5, <1>8 DEF EndOf, Aligned
<1>10. c[4] = 16
  BY <1>3, <1>5, <1>9 DEF EndOf, Aligned
<1>11. c[5] = 20
  BY <1>3, <1>5, <1>10 DEF EndOf, Aligned
<1>12. c[6] = 36
  BY <1>3, <1>5, <1>11 DEF EndOf, Aligned
<1>13. c[7] = 40
  BY <1>3, <1>5, <1>12 DEF EndOf, Aligned
<1>14. c[8] = 44
  BY <1>3, <1>5, <1>13 DEF EndOf, Aligned
<1>15. c[9] = 46
  BY <1>3, <1>5, <1>14 DEF EndOf, Aligned
<1>16. c[10] = 48
  BY <1>3, <1>5, <1>15 DEF EndOf, Aligned
<1>17. c[11] = 49
  BY <1>3, <1>5, <1>16 DEF EndOf, Aligned
<1>18. c[12] = 50
  BY <1>3, <1>5, <1>17 DEF EndOf, Aligned
<1>19. c[13] = 56
  BY <1>3, <1>5, <1>18 DEF EndOf, Aligned
<1>20. c[14] = 58
  BY <1>3, <1>5, <1>19 DEF EndOf, Aligned
<1>21. r[1] = 4
  BY <1>4, <1>6
<1>22. r[2] = 8
  BY <1>4, <1>6, <1>21
<1>23. r[3] = 12
  BY <1>4, <1>6, <1>22
<1>24. r[4] = 16
  BY <1>4, <1>6, <1>23
<1>25. r[5] = 20
  BY <1>4, <1>6, <1>24
<1>26. r[6] = 36
  BY <1>4, <1>6, <1>25
<1>27. r[7] = 40
  BY <1>4, <1>6, <1>26
<1>28. r[8] = 44
  BY <1>4, <1>6, <1>27
<1>29. r[9] = 46
  BY <1>4, <1>6, <1>28
<1>30. r[10] = 48
  BY <1>4, <1>6, <1>29
<1>31. r[11] = 49
  BY <1>4, <1>6, <1>30
<1>32. r[12] = 50
  BY <1>4, <1>6, <1>31
<1>33. r[13] = 54
  BY <1>4, <1>6, <1>32
<1>34. r[14] = 56
  BY <1>4, <1>6, <1>33
<1> QED
  BY <1>5, <1>6, <1>7, <1>8, <1>9, <1>10, <1>11, <1>12, <1>13, <1>14, <1>15, <1>16, <1>17,
    <1>18, <1>19, <1>20, <1>21, <1>22, <1>23, <1>24, <1>25, <1>26, <1>27, <1>28, <1>29,
    <1>30, <1>31, <1>32, <1>33, <1>34 DEF c, r, d, e

\* Fields that are found where they are put are those of the record, but the last two
\* of tcpdrop's.
LEMMA OpenInPlace ==
  ASSUME NEW k \in {"open", "dockeropenbreakout"}
  PROVE  FieldsInPlace(k) = FieldsOf(k)
<1>1. Data[k] = OpenData /\ Event[k] = OpenEvent
  BY DEF Data, Event, BreakoutData, BreakoutEvent
<1>2. DOMAIN OpenData = 1..5 /\ OpenData = OpenEvent
  BY DEF OpenData, OpenEvent
<1>3. /\ OpenData[1].align = 4 /\ OpenData[2].align = 4 /\ OpenData[3].align = 4
      /\ OpenData[4].align = 1 /\ OpenData[5].align = 1
  BY DEF OpenData, Num, Text
<1>4. ASSUME NEW i \in 1..5 PROVE OffsetOf(k, i) = ReadUpTo(k, i - 1)
  <2>1. i = 1 \/ i = 2 \/ i = 3 \/ i = 4 \/ i = 5
    OBVIOUS
  <2> QED
    BY <1>1, <1>3, <2>1, OpenEnds DEF OffsetOf, ReadUpTo, Aligned
<1> QED
  BY <1>1, <1>2, <1>4 DEF FieldsInPlace, FieldsOf

LEMMA BashInPlace == FieldsInPlace("bashreadline") = FieldsOf("bashreadline")
<1> DEFINE k == "bashreadline"
<1>1. Data[k] = BashData /\ Event[k] = BashEvent
  BY DEF Data, Event
<1>2. DOMAIN BashData = 1..6 /\ BashData = BashEvent
  BY DEF BashData, BashEvent
<1>3. /\ BashData[1].align = 4 /\ BashData[2].align = 4 /\ BashData[3].align = 4
      /\ BashData[4].align = 4 /\ BashData[5].align = 1 /\ BashData[6].align = 4
  BY DEF BashData, Num, Text
<1>4. ASSUME NEW i \in 1..6 PROVE OffsetOf(k, i) = ReadUpTo(k, i - 1)
  <2>1. i = 1 \/ i = 2 \/ i = 3 \/ i = 4 \/ i = 5 \/ i = 6
    OBVIOUS
  <2> QED
    BY <1>1, <1>3, <2>1, BashEnds DEF OffsetOf, ReadUpTo, Aligned
<1> QED
  BY <1>1, <1>2, <1>4 DEF FieldsInPlace, FieldsOf

LEMMA TcpInPlace == FieldsInPlace("tcpdrop") = FieldsOf("tcpdrop") \ {"Seq", "Len"}
<1> DEFINE k == "tcpdrop" d == TcpData
           c == Ends(d) r == Ends(Packed(d))
<1>1. Data[k] = d /\ Event[k] = d
  BY DEF Data, Event, TcpData, TcpEvent
<1>2. DOMAIN d = 1..14
  BY DEF TcpData
<1>3. /\ d[1].align = 4 /\ d[2].align = 4 /\ d[3].align = 4 /\ d[4].align = 4
      /\ d[5].align = 4 /\ d[6].align = 1 /\ d[7].align = 4 /\ d[8].align = 4
      /\ d[9].align = 2 /\ d[10].align = 2 /\ d[11].align = 1 /\ d[12].align = 1
      /\ d[13].align = 4 /\ d[14].align = 2
  BY DEF TcpData, Num, Text
<1>4. /\ d[13].name = "Seq" /\ d[14].name = "Len"
      /\ \A i \in 1..14 : d[i].name \in {"Seq", "Len"} => i = 13 \/ i = 14
  BY <1>2 DEF TcpData, Num, Text
<1>5. \A i \in 1..14 : /\ OffsetOf(k, i) = Aligned(c[i - 1], d[i].align)
                        /\ ReadUpTo(k, i - 1) = r[i - 1]
  BY <1>1 DEF OffsetOf, ReadUpTo
<1>6. c[12] = 50 /\ c[13] = 56 /\ r[12] = 50 /\ r[13] = 54
      /\ \A i \in 1..12 : OffsetOf(k, i) = ReadUpTo(k, i - 1)
  <2>1. /\ c[0] = 0 /\ c[1] = 4 /\ c[2] = 8 /\ c[3] = 12 /\ c[4] = 16 /\ c[5] = 20 /\ c[6] = 36
        /\ c[7] = 40 /\ c[8] = 44 /\ c[9] = 46 /\ c[10] = 48 /\ c[11] = 49 /\ c[12] = 50
        /\ c[13] = 56
    BY TcpEnds
  <2>2. /\ r[0] = 0 /\ r[1] = 4 /\ r[2] = 8 /\ r[3] = 12 /\ r[4] = 16 /\ r[5] = 20 /\ r[6] = 36
        /\ r[7] = 40 /\ r[8] = 44 /\ r[9] = 46 /\ r[10] = 48 /\ r[11] = 49 /\ r[12] = 50
        /\ r[13] = 54
    BY TcpEnds DEF TcpEvent, TcpData
  <2> HIDE DEF c, r, d
  <2>3. ASSUME NEW i \in 1..12 PROVE OffsetOf(k, i) = ReadUpTo(k, i - 1)
    <3>1. \/ i = 1 \/ i = 2 \/ i = 3 \/ i = 4 \/ i = 5 \/ i = 6
          \/ i = 7 \/ i = 8 \/ i = 9 \/ i = 10 \/ i = 11 \/ i = 12
      OBVIOUS
    <3> QED
      BY <1>3, <1>5, <2>1, <2>2, <3>1 DEF Aligned
  <2> QED
    BY <2>1, <2>2, <2>3
<1>7. ASSUME NEW i \in {13, 14}, NEW j \in 1..14, d[j] = d[i] PROVE j = i
  BY <1>4, <1>7
<1> HIDE DEF c, r, d
<1>10. OffsetOf(k, 13) # ReadUpTo(k, 12) /\ OffsetOf(k, 14) # ReadUpTo(k, 13)
  BY <1>3, <1>5, <1>6 DEF Aligned
<1>8. ASSUME NEW i \in 1..14
      PROVE  (\E j \in 1..14 : d[j] = d[i] /\ OffsetOf(k, j) = ReadUpTo(k, i - 1))
               <=> d[i].name \notin {"Seq", "Len"}
  <2>1. i \in 1..12 \/ i = 13 \/ i = 14
    OBVIOUS
  <2> QED
    BY <1>4, <1>6, <1>7, <1>10, <2>1
<1>9. FieldsInPlace(k) = {d[i].name : i \in {i \in 1..14 : d[i].name \notin {"Seq", "Len"}}}
  BY <1>1, <1>2, <1>8 DEF FieldsInPlace
<1> QED
  BY <1>1, <1>2, <1>9 DEF FieldsOf

\* The records are as long as the structs that are read from them, or longer.
LEMMA AllDecode == ASSUME NEW k \in DOMAIN Data PROVE Decodes(k)
<1>1. CASE k \in {"open", "dockeropenbreakout"}
  <2>1. Data[k] = OpenData /\ Event[k] = OpenEvent
    BY <1>1 DEF Data, Event, BreakoutData, BreakoutEvent
  <2>2. Len(OpenData) = 5 /\ Len(OpenEvent) = 5 /\ OpenData[1].align = 4
    BY DEF OpenData, OpenEvent, Num
  <2> QED
    BY <2>1, <2>2, OpenEnds DEF Decodes, ReadUpTo, SizeOf, Aligned
<1>2. CASE k = "bashreadline"
  <2>1. Data[k] = BashData /\ Event[k] = BashEvent
    BY <1>2 DEF Data, Event
  <2>2. Len(BashData) = 6 /\ Len(BashEvent) = 6 /\ BashData[1].align = 4
    BY DEF BashData, BashEvent, Num
  <2> QED
    BY <2>1, <2>2, BashEnds DEF Decodes, ReadUpTo, SizeOf, Aligned
<1>3. CASE k = "tcpdrop"
  <2>1. Data[k] = TcpData /\ Event[k] = TcpEvent
    BY <1>3 DEF Data, Event
  <2>2. Len(TcpData) = 14 /\ Len(TcpEvent) = 14 /\ TcpData[1].align = 4
    BY DEF TcpData, TcpEvent, Num
  <2> QED
    BY <2>1, <2>2, TcpEnds DEF Decodes, ReadUpTo, SizeOf, Aligned
<1> QED
  BY <1>1, <1>2, <1>3 DEF Data

\* A step leaves the fields of an event as Pending has set them.
FieldsInv == watcher # Idle => watcher.fields = FieldsInPlace(kind)

LEMMA FieldsStay ==
  ASSUME OwnInv, FieldsInv, [Next]_vars
  PROVE  FieldsInv'
<1>1. /\ Watch \/ UNCHANGED watcher
      /\ kind' = kind
  <2>1. CASE Watch
    BY <2>1, WatchKeepsProbes DEF probeVars
  <2>2. Watch \/ UNCHANGED <<watcher, kind>>
    BY DEF Next, Load, OpenLoad, BreakoutLoad, TcpLoad, BashLoad, Attach, Call, Exit, Start,
      OpenEnter, BreakoutEnter, TcpEnter, Enter, BashReturn, ReturnUnseen, Return, ReturnDelete,
      vars, kernelVars
  <2> QED
    BY <2>1, <2>2
<1>2. watcher.pc # "idle" => EventOK /\ watcher # Idle
  BY DEF OwnInv, Idle
<1>3. ASSUME Watch
      PROVE  watcher' = Idle \/ watcher'.fields = FieldsInPlace(kind)
  <2>1. CASE OpenReceive \/ BreakoutReceive \/ TcpReceive \/ BashReceive
    <3>1. watcher' = Idle \/ \E step : watcher' = Pending(step, Head(ring))
      BY <2>1 DEF OpenReceive, BreakoutReceive, TcpReceive, BashReceive, Receive
    <3>2. \A step : Pending(step, Head(ring)).fields = FieldsInPlace(kind)
      BY DEF Pending
    <3> QED
      BY <3>1, <3>2
  <2>2. CASE PassOver \/ InspectFails \/ Do
    BY <2>2 DEF PassOver, InspectFails, Do
  <2>3. CASE ReadIds \/ ReadRuntime \/ ReadId \/ Inspect \/ Report
    <3>1. EventOK /\ watcher # Idle
      BY <1>2, <2>3 DEF ReadIds, ReadRuntime, ReadId, Inspect, Report
    <3>2. \/ watcher' = Idle
          \/ \E step, x : watcher' \in {[watcher EXCEPT !.pc = step, !.ids = x],
               [watcher EXCEPT !.pc = step, !.runtime = x], [watcher EXCEPT !.pc = step, !.id = x],
               [watcher EXCEPT !.pc = step]}
      BY <2>3 DEF ReadIds, ReadRuntime, ReadId, Inspect, Report, Continue
    <3>3. watcher' = Idle \/ watcher'.fields = watcher.fields
      BY <3>1, <3>2 DEF EventOK, EventFields
    <3> QED
      BY <3>1, <3>3 DEF FieldsInv
  <2> QED
    BY <1>3, <2>1, <2>2, <2>3 DEF Watch
<1>4. watcher' = Idle \/ watcher'.fields = FieldsInPlace(kind)
  BY <1>1, <1>3 DEF FieldsInv
<1> QED
  BY <1>1, <1>4 DEF FieldsInv, FieldsInPlace, OffsetOf, ReadUpTo

-----------------------------------------------------------------------------
(* What follows for every number of processes, calls and records.          *)

DataInv == PlainInv /\ HeldInv /\ RingTyped /\ EventInv

LEMMA InitData == Init => DataInv
<1> SUFFICES ASSUME Init PROVE DataInv
  OBVIOUS
<1>1. /\ reports \in BOOLEAN /\ host \in Hosts /\ attached = {} /\ calls = 0 /\ DOMAIN tmp = {}
      /\ ring = << >> /\ watcher = Idle
      /\ missed = {} /\ unanswered = {} /\ reused = {} /\ reported = {} /\ kills = {}
  BY DEF Init
<1>2. alive \subseteq Threads /\ Self \in alive
  BY ProcFSAssumption, ProbePairsAssumption DEF ProbePairsAssumption, Init
<1>3. MaxCalls \in Nat /\ RingSize \in Nat
  BY ProbePairsAssumption DEF ProbePairsAssumption
<1>4. PlainInv
  BY <1>1, <1>2, <1>3 DEF PlainInv
<1>5. DOMAIN ring = {} /\ Len(ring) = 0
  BY <1>1
<1>6. HeldInv
  <2>1. Held = {}
    BY <1>1, <1>5 DEF Held
  <2> QED
    BY <2>1 DEF HeldInv
<1>7. RingTyped
  BY <1>3, <1>5 DEF RingTyped
<1>8. EventInv
  BY <1>1 DEF EventInv
<1> QED
  BY <1>4, <1>6, <1>7, <1>8 DEF DataInv

LEMMA NextData == ProbeInv /\ OwnInv /\ DataInv /\ [Next]_vars => DataInv'
  BY PlainStays, HeldStays, RingStays, EventStays DEF DataInv

LEMMA DataInvariant == Spec => [](ProbeInv /\ OwnInv /\ DataInv)
  BY InitInv, NextInv, InitData, NextData, PTL DEF Spec

\* The events have their types and the buffer its size, whatever is found in /proc
\* (WatchEvent, tracer/open/open.go:140, and of the others; proc/proc.go).
THEOREM ProbesTyped == Spec => []TypeOK
<1>1. ProbeInv /\ OwnInv /\ DataInv => TypeOK
  <2> SUFFICES ASSUME ProbeInv, OwnInv, DataInv PROVE TypeOK
    OBVIOUS
  <2>1. \A k \in DOMAIN tmp : k = Key(tmp[k].task) /\ tmp[k].call \in 1..calls
    BY DEF ProbeInv, EntryOK
  <2>2. watcher = Idle \/ watcher \in Events
    BY DEF DataInv, EventInv, WatcherOK
  <2>3. reported \subseteq Events /\ unanswered \subseteq 1..calls
    BY DEF DataInv, EventInv
  <2>4. \A t \in Threads : (t \in alive) = (thread[t].pc \notin {"unborn", "gone"})
    BY DEF ProbeInv, ThreadOK
  <2> QED
    BY <2>1, <2>2, <2>3, <2>4 DEF TypeOK, DataInv, PlainInv, RingTyped, ProbeInv
<1> QED
  BY <1>1, DataInvariant, PTL

\* The runtime, the container and the user that an event is given (GetContainerRuntime,
\* GetContainerID and GetUIDGID, proc/proc.go) are those of the process that made
\* the call, unless its number went to another process or is 0, however many
\* processes there are and in whatever order they end and start.
THEOREM OriginHolds == Spec => []OriginIsOwn
<1>1. DataInv => OriginIsOwn
  BY DEF DataInv, EventInv, OriginOK, Asked, OriginIsOwn
<1> QED
  BY <1>1, DataInvariant, PTL

\* kill and interrupt (action/kill/kill.go, action/interrupt/interrupt.go) signal the
\* process that made the call, unless its number went to another, and for a file
\* that is opened never the daemon.
THEOREM SignalsHold == Spec => []SignalsCaller
<1>1. DataInv => SignalsCaller
  BY DEF DataInv, EventInv, KillOK, SignalsCaller
<1> QED
  BY <1>1, DataInvariant, PTL

\* However the records are laid out by the C compiler (data_t in the BPF programs) and
\* taken apart by binary.Read (openEvent, readlineEvent, tcpEvent), every field of
\* an event has its own bytes, but for tcpdrop's last two.
THEOREM FieldsAreDecoded == Spec => []FieldsDecoded
<1>1. Init => FieldsInv
  BY DEF Init, FieldsInv
<1>2. OwnInv /\ FieldsInv /\ [Next]_vars => FieldsInv'
  BY FieldsStay
<1>3. ProbeInv /\ FieldsInv => FieldsDecoded
  <2> SUFFICES ASSUME ProbeInv, FieldsInv PROVE FieldsDecoded
    OBVIOUS
  <2>1. kind \in {"open", "dockeropenbreakout", "bashreadline", "tcpdrop"}
    BY ProbePairsAssumption DEF ProbePairsAssumption, ProbeInv, Data
  <2>2. CASE kind \in {"open", "dockeropenbreakout"}
    <3>1. FieldsInPlace(kind) = FieldsOf(kind) /\ kind # "tcpdrop"
      BY <2>2, OpenInPlace
    <3> QED
      BY <3>1 DEF FieldsInv, FieldsDecoded
  <2>3. CASE kind = "bashreadline"
    BY <2>3, BashInPlace DEF FieldsInv, FieldsDecoded
  <2>4. CASE kind = "tcpdrop"
    BY <2>4, TcpInPlace DEF FieldsInv, FieldsDecoded
  <2> QED
    BY <2>1, <2>2, <2>3, <2>4
<1> QED
  BY <1>1, <1>2, <1>3, Invariant, PTL DEF Spec

-----------------------------------------------------------------------------
(* The watcher gets on with its work, and drops nothing that is awaited.   *)

\* Records of no call are the daemon's, and there are some only if its opens are
\* traced; data is of tasks that have been started.
CallInv ==
  /\ \A i \in DOMAIN ring : ring[i].call = 0 => kind \in OpenKinds
  /\ \A d \in Held : thread[d.task].pc # "unborn"

\* The daemon's opens leave what is in the buffer where it is.
LEMMA OpensKeep ==
  ASSUME RingOK, Len(ring) <= RingSize, NEW T, NEW paths \in Seq(T),
         ring' = WithOpensOfDaemon(paths)
  PROVE  /\ Len(ring') \in Nat /\ DOMAIN ring' = 1..Len(ring') /\ Len(ring) <= Len(ring')
         /\ \A i \in 1..Len(ring) : ring'[i] = ring[i]
         /\ \A i \in DOMAIN ring' : i > Len(ring) => ring'[i].call = 0 /\ kind \in OpenKinds
<1> DEFINE opens == [j \in DOMAIN paths |->
                       [call |-> 0, by |-> 0, task |-> Self, path |-> paths[j]]]
           all == ring \o opens
           n == IF Len(all) < RingSize THEN Len(all) ELSE RingSize
           R == Range(ring)
           S == {[call |-> 0, by |-> 0, task |-> Self, path |-> path] : path \in T}
<1>1. ring \in Seq(R) /\ Len(ring) \in Nat /\ DOMAIN ring = 1..Len(ring)
  BY LenProperties DEF RingOK
<1>2. opens \in Seq(S)
  <2>1. Len(paths) \in Nat /\ DOMAIN paths = 1..Len(paths) /\ \A j \in DOMAIN paths : paths[j] \in T
    BY LenProperties
  <2>2. opens \in [1..Len(paths) -> S]
    BY <2>1
  <2> HIDE DEF opens, S
  <2> QED
    BY <2>1, <2>2, SeqDef
<1>3. CASE ring' = SubSeq(all, 1, n) /\ kind \in OpenKinds
  <2> HIDE DEF opens, S, R
  <2>1. ring \in Seq(R \union S) /\ opens \in Seq(R \union S)
    BY <1>1, <1>2, SeqMonotonic
  <2>2. /\ Len(all) = Len(ring) + Len(opens) /\ Len(opens) \in Nat
        /\ \A j \in 1..Len(ring) : all[j] = ring[j]
        /\ \A j \in 1..Len(all) : all[j] \in R \union S
    <3>1. all \in Seq(R \union S)
      BY <2>1, ConcatProperties
    <3> QED
      BY <2>1, <3>1, ConcatProperties, LenProperties, ElementOfSeq
  <2> HIDE DEF all
  <2>3. n \in Nat /\ n <= Len(all) /\ Len(ring) <= n
    BY <1>1, <2>2, ProbePairsAssumption DEF ProbePairsAssumption
  <2>4. ring' = SubSeq(all, 1, n)
    BY <1>3
  <2> HIDE DEF n
  <2>5. \A j \in 1..n : all[j] \in R \union S
    BY <1>1, <2>2, <2>3
  <2>6. /\ Len(ring') = n /\ ring' \in Seq(R \union S) /\ \A j \in 1..n : ring'[j] = all[j]
    BY <2>3, <2>4, <2>5, SubSeqProperties
  <2>7. DOMAIN ring' = 1..n
    BY <2>6, LenProperties
  <2>8. \A i \in 1..Len(ring) : ring'[i] = ring[i]
    BY <1>1, <2>2, <2>3, <2>6
  <2>9. ASSUME NEW i \in DOMAIN ring', i > Len(ring)
        PROVE  ring'[i].call = 0
    <3>1. i \notin DOMAIN ring
      BY <1>1, <2>9
    <3> QED
      BY <3>1, OpensAdd
  <2> QED
    BY <1>3, <2>3, <2>6, <2>7, <2>8, <2>9
<1>4. CASE ring' = ring
  BY <1>1, <1>4
<1> QED
  BY <1>3, <1>4 DEF WithOpensOfDaemon, all, opens, n

\* What it does to the records that are ahead.
LEMMA OpensBehind ==
  ASSUME RingOK, Len(ring) <= RingSize, NEW T, NEW paths \in Seq(T),
         ring' = WithOpensOfDaemon(paths)
  PROVE  Ahead' = Ahead
<1>1. Len(ring) \in Nat /\ DOMAIN ring = 1..Len(ring)
  BY LenProperties DEF RingOK
<1>2. /\ Len(ring') \in Nat /\ DOMAIN ring' = 1..Len(ring') /\ Len(ring) <= Len(ring')
      /\ \A i \in 1..Len(ring) : ring'[i] = ring[i]
      /\ \A i \in DOMAIN ring' : i > Len(ring) => ring'[i].call = 0
  BY OpensKeep
<1>3. ASSUME NEW i \in Ahead
      PROVE  i \in Ahead'
  <2>1. PICK j \in i..Len(ring) : i \in 1..Len(ring) /\ ring[j].call # 0
    BY <1>1 DEF Ahead
  <2>2. j \in i..Len(ring') /\ i \in 1..Len(ring') /\ ring'[j].call # 0
    BY <1>1, <1>2, <2>1
  <2> QED
    BY <1>2, <2>2 DEF Ahead
<1>4. ASSUME NEW i \in Ahead'
      PROVE  i \in Ahead
  <2>1. PICK j \in i..Len(ring') : i \in 1..Len(ring') /\ ring'[j].call # 0
    BY <1>2 DEF Ahead
  <2>2. j \in 1..Len(ring')
    BY <1>2, <2>1
  <2>3. j <= Len(ring)
    BY <1>1, <1>2, <2>1, <2>2
  <2>4. j \in i..Len(ring) /\ i \in 1..Len(ring) /\ ring[j].call # 0
    BY <1>1, <1>2, <2>1, <2>2, <2>3
  <2> QED
    BY <1>1, <2>4 DEF Ahead
<1> QED
  BY <1>3, <1>4

\* Taking the first record brings the last call's nearer, if there is one.
LEMMA TakenAhead ==
  ASSUME RingOK, ring # << >>, ring' = Tail(ring)
  PROVE  /\ Ahead # {} => Ahead' \subseteq Ahead /\ Ahead' # Ahead
         /\ Ahead = {} => Ahead' = {} /\ Head(ring).call = 0
         /\ Len(ring') < Len(ring)
<1>1. /\ Len(ring) \in Nat /\ Len(ring) # 0 /\ DOMAIN ring = 1..Len(ring) /\ Head(ring) = ring[1]
      /\ Len(ring') = Len(ring) - 1 /\ DOMAIN ring' = 1..(Len(ring) - 1)
  <2>1. ring \in Seq(Range(ring))
    BY DEF RingOK
  <2>2. Tail(ring) \in Seq(Range(ring)) /\ Len(Tail(ring)) = Len(ring) - 1
    BY <2>1, HeadTailProperties
  <2> QED
    BY <2>1, <2>2, HeadTailProperties, LenProperties, EmptySeq
<1>2. \A i \in 1..Len(ring') : ring'[i] = ring[i + 1]
  BY <1>1, TailOfRing DEF RingOK
<1>3. \A i \in Ahead : \A k \in 1..i : k \in Ahead
  <2> SUFFICES ASSUME NEW i \in Ahead, NEW k \in 1..i PROVE k \in Ahead
    OBVIOUS
  <2>1. PICK j \in i..Len(ring) : i \in 1..Len(ring) /\ ring[j].call # 0
    BY <1>1 DEF Ahead
  <2>2. k \in 1..Len(ring) /\ j \in k..Len(ring)
    BY <1>1, <2>1
  <2> QED
    BY <1>1, <2>1, <2>2 DEF Ahead
<1>4. ASSUME NEW i \in Ahead'
      PROVE  i \in Nat /\ i + 1 \in Ahead
  <2>1. PICK j \in i..Len(ring') : i \in 1..Len(ring') /\ ring'[j].call # 0
    BY <1>1 DEF Ahead
  <2>2. j \in 1..Len(ring') /\ i + 1 \in 1..Len(ring) /\ j + 1 \in (i + 1)..Len(ring)
    BY <1>1, <2>1
  <2>3. ring[j + 1].call # 0
    BY <1>2, <2>1, <2>2
  <2> QED
    BY <1>1, <2>1, <2>2, <2>3 DEF Ahead
<1>5. Ahead \subseteq 1..Len(ring)
  BY <1>1 DEF Ahead
<1>6. Ahead' \subseteq Ahead
  <2> SUFFICES ASSUME NEW i \in Ahead' PROVE i \in Ahead
    OBVIOUS
  <2>1. i \in Nat /\ i + 1 \in Ahead
    BY <1>4
  <2>2. i # 0
    BY <1>1 DEF Ahead
  <2> QED
    BY <1>3, <2>1, <2>2
<1>7. ASSUME Ahead # {}
      PROVE  Ahead' # Ahead
  <2> DEFINE bounds == {n \in Nat : \A i \in Ahead : i <= n}
  <2>1. Len(ring) \in bounds
    BY <1>1, <1>5
  <2>2. PICK n \in bounds : \A m \in bounds : n <= m
    <3>1. bounds \subseteq Nat /\ bounds # {}
      BY <2>1
    <3> HIDE DEF bounds
    <3> QED
      BY <3>1, Least
  <2>3. n \in Ahead
    <3> SUFFICES ASSUME n \notin Ahead PROVE FALSE
      OBVIOUS
    <3>1. PICK i \in Ahead : TRUE
      BY <1>7
    <3>2. n \in Nat /\ n # 0
      BY <1>5, <2>2, <3>1
    <3>3. n - 1 \in bounds
      BY <1>5, <2>2, <3>2
    <3> QED
      BY <2>2, <3>2, <3>3
  <2>4. n \notin Ahead'
    BY <1>4, <2>2
  <2> QED
    BY <2>3, <2>4
<1>8. ASSUME Ahead = {}
      PROVE  Head(ring).call = 0
  <2>1. 1 \in DOMAIN ring /\ 1 \in 1..Len(ring)
    BY <1>1
  <2> QED
    BY <1>1, <1>8, <2>1 DEF Ahead
<1> QED
  BY <1>1, <1>6, <1>7, <1>8

\* A step that goes on with an event is one less to go.
LEMMA LessLeft ==
  ASSUME OwnInv, Watch, watcher.pc # "idle"
  PROVE  Left[watcher'.pc] < Left[watcher.pc]
<1>1. EventOK
  BY DEF OwnInv, Idle
<1>2. PICK w : w = watcher /\ DOMAIN w = EventFields
  BY <1>1 DEF EventOK
<1>3. ASSUME NEW x, NEW step
      PROVE  /\ [w EXCEPT !.pc = step, !.ids = x].pc = step
             /\ [w EXCEPT !.pc = step, !.runtime = x].pc = step
             /\ [w EXCEPT !.pc = step].pc = step
  BY <1>2 DEF EventFields
<1>4. Idle.pc = "idle"
  BY DEF Idle
<1>5. CASE OpenReceive \/ BreakoutReceive \/ TcpReceive \/ BashReceive
  BY <1>5 DEF OpenReceive, BreakoutReceive, TcpReceive, BashReceive, Receive
<1>6. CASE PassOver
  BY <1>4, <1>6 DEF PassOver, Left
<1>7. CASE InspectFails
  BY <1>4, <1>7 DEF InspectFails, Left
<1>8. CASE Do
  BY <1>4, <1>8 DEF Do, Left
<1>9. CASE ReadIds
  <2>1. w.pc = "ids" /\ watcher'.pc \in {"idle", "runtime"}
    BY <1>2, <1>3, <1>4, <1>9 DEF ReadIds, Continue
  <2> QED
    BY <1>2, <2>1 DEF Left
<1>10. CASE ReadRuntime
  <2>1. w.pc = "runtime" /\ watcher'.pc \in {"idle", "id"}
    BY <1>2, <1>3, <1>4, <1>10 DEF ReadRuntime, Continue
  <2> QED
    BY <1>2, <2>1 DEF Left
<1>11. CASE ReadId
  <2>1. w.pc = "id"
    BY <1>2, <1>11 DEF ReadId
  <2>2. PICK x : \/ watcher' = Idle
                 \/ watcher' = [w EXCEPT !.pc = "inspect", !.id = x]
                 \/ watcher' = [w EXCEPT !.pc = "rules", !.id = x]
    BY <1>2, <1>11 DEF ReadId, Continue
  <2>3. /\ [w EXCEPT !.pc = "inspect", !.id = x].pc = "inspect"
        /\ [w EXCEPT !.pc = "rules", !.id = x].pc = "rules"
    BY <1>2 DEF EventFields
  <2>4. watcher'.pc \in {"idle", "inspect", "rules"}
    BY <1>4, <2>2, <2>3, Zenon
  <2> QED
    BY <1>2, <2>1, <2>4 DEF Left
<1>12. CASE Inspect
  <2>1. w.pc = "inspect" /\ watcher'.pc \in {"idle", "rules"}
    BY <1>2, <1>3, <1>4, <1>12 DEF Inspect, Continue
  <2> QED
    BY <1>2, <2>1 DEF Left
<1>13. CASE Report
  <2>1. w.pc = "rules" /\ watcher'.pc \in {"idle", "kill"}
    BY <1>2, <1>3, <1>4, <1>13 DEF Report
  <2> QED
    BY <1>2, <2>1 DEF Left
<1> QED
  BY <1>5, <1>6, <1>7, <1>8, <1>9, <1>10, <1>11, <1>12, <1>13 DEF Watch

\* A watcher without an event is Idle.
LEMMA IdleIsIdle ==
  ASSUME EventInv, watcher.pc = "idle"
  PROVE  watcher = Idle
<1> SUFFICES ASSUME watcher # Idle PROVE FALSE
  OBVIOUS
<1>1. watcher \in Events
  BY DEF EventInv, WatcherOK
<1>2. watcher.pc \in Steps
  BY <1>1, EventsType
<1> QED
  BY <1>2 DEF Steps

\* What the watcher takes from the buffer, and what becomes of it.
LEMMA Taken ==
  ASSUME OwnInv, RingTyped, HeldInv, CallInv, EventInv, Watch, watcher.pc = "idle"
  PROVE  /\ ring # << >> /\ Head(ring) \in Range(ring) /\ Head(ring) \in Records
         /\ kind \in OpenKinds /\ Ignored(Head(ring)) => watcher' = Idle
         /\ Head(ring).call = 0 => kind \in OpenKinds /\ Ignored(Head(ring))
         /\ kind # "bashreadline" /\ Decodes(kind) /\ (kind \in OpenKinds => ~Ignored(Head(ring)))
              => watcher' \in {Pending("ids", Head(ring)), Pending("runtime", Head(ring))}
<1>1. /\ OpenReceive \/ BreakoutReceive \/ TcpReceive \/ BashReceive
  BY DEF Watch, PassOver, ReadIds, ReadRuntime, ReadId, Inspect, InspectFails, Report, Do
<1>2. ring # << >>
  BY <1>1 DEF OpenReceive, BreakoutReceive, TcpReceive, BashReceive, Receive
<1>3. 1 \in DOMAIN ring /\ Head(ring) = ring[1]
  BY <1>2, HeadTailProperties, LenProperties, EmptySeq DEF OwnInv, RingOK
<1>4. Head(ring) \in Range(ring) /\ Head(ring) \in Records
  BY <1>3 DEF RingTyped, Range
<1>5. kind \in OpenKinds => OpenReceive \/ BreakoutReceive
  BY <1>1 DEF TcpReceive, BashReceive, OpenKinds
<1>6. kind \in OpenKinds /\ Ignored(Head(ring)) => watcher' = Idle
  BY <1>5 DEF OpenReceive, BreakoutReceive, Receive
<1>7. ASSUME Head(ring).call = 0
      PROVE  kind \in OpenKinds /\ Ignored(Head(ring))
  <2>1. kind \in OpenKinds
    BY <1>3, <1>7 DEF CallInv
  <2>2. DatumOK(Datum(Head(ring)))
    BY <1>3, HeldHere DEF HeldInv
  <2>3. Task[Head(ring).task].comm = "bpfd"
    BY <1>7, <2>2 DEF DatumOK, Datum
  <2> QED
    BY <2>1, <2>3 DEF Ignored
<1>8. ASSUME kind # "bashreadline", Decodes(kind), kind \in OpenKinds => ~Ignored(Head(ring))
      PROVE  watcher' \in {Pending("ids", Head(ring)), Pending("runtime", Head(ring))}
  BY <1>1, <1>8 DEF OpenReceive, BreakoutReceive, TcpReceive, BashReceive, Receive, OpenKinds
<1> QED
  BY <1>2, <1>4, <1>6, <1>7, <1>8

LEMMA WatchRunsDown ==
  ASSUME OwnInv, RingTyped, HeldInv, CallInv, EventInv, Watch
  PROVE  \/ Ahead' \subseteq Ahead /\ Ahead' # Ahead
         \/ Ahead' = Ahead /\ Left[watcher'.pc] < Left[watcher.pc]
         \/ Ahead' = Ahead /\ watcher' = watcher /\ Len(ring') < Len(ring)
<1>1. RingOK /\ Len(ring) <= RingSize
  BY DEF OwnInv, RingTyped
<1>2. CASE watcher.pc = "idle"
  <2>1. ring # << >> /\ ring' = Tail(ring)
    BY <1>2, IdleIsIdle, WatchMoves
  <2>2. CASE Ahead # {}
    BY <1>1, <2>1, <2>2, TakenAhead
  <2>3. CASE Ahead = {}
    <3>1. Head(ring).call = 0 /\ Ahead' = Ahead /\ Len(ring') < Len(ring)
      BY <1>1, <2>1, <2>3, TakenAhead
    <3>2. watcher' = Idle
      BY <1>2, <3>1, Taken
    <3>3. watcher = Idle
      BY <1>2, IdleIsIdle
    <3> QED
      BY <3>1, <3>2, <3>3
  <2> QED
    BY <2>2, <2>3
<1>3. CASE watcher.pc # "idle"
  <2>1. \/ ring' = ring
        \/ \E paths \in Seq(Seq(PathParts)) : ring' = WithOpensOfDaemon(paths)
    BY <1>3, WatchMoves
  <2>2. Ahead' = Ahead
    BY <1>1, <2>1, OpensBehind DEF Ahead
  <2> QED
    BY <1>3, <2>2, LessLeft
<1> QED
  BY <1>2, <1>3

\* A task that has been started has been started for good, and one that has ended is gone.
LEMMA TasksStay ==
  ASSUME ProbeInv, [Next]_vars, NEW t \in Threads
  PROVE  /\ thread[t].pc # "unborn" => thread'[t].pc # "unborn"
         /\ thread[t].pc = "gone" => thread'[t].pc = "gone"
<1>1. CASE UNCHANGED thread
  BY <1>1
<1>2. \A u \in Threads : DOMAIN thread[u] = {"pc", "call", "path", "hit"} /\ DOMAIN thread = Threads
  BY DEF ProbeInv, ThreadOK
<1>3. ASSUME NEW u \in Threads, NEW entry, thread' = [thread EXCEPT ![u] = entry],
             thread[u].pc # "gone", entry.pc # "unborn"
      PROVE  /\ thread[t].pc # "unborn" => thread'[t].pc # "unborn"
             /\ thread[t].pc = "gone" => thread'[t].pc = "gone"
  BY <1>2, <1>3
<1>4. ASSUME NEW u \in Threads, NEW pc, thread' = [thread EXCEPT ![u].pc = pc],
             thread[u].pc # "gone", pc # "unborn"
      PROVE  /\ thread[t].pc # "unborn" => thread'[t].pc # "unborn"
             /\ thread[t].pc = "gone" => thread'[t].pc = "gone"
  <2>1. DOMAIN thread[u] = {"pc", "call", "path", "hit"}
    BY <1>2
  <2>2. [thread[u] EXCEPT !.pc = pc].pc = pc
    BY <2>1
  <2>3. thread' = [thread EXCEPT ![u] = [thread[u] EXCEPT !.pc = pc]]
    BY <1>4
  <2> QED
    BY <1>3, <1>4, <2>2, <2>3
<1>5. Outside.pc = "outside"
  BY DEF Outside
<1>6. ASSUME NEW u \in Threads, NEW path, Enter(u, path)
      PROVE  /\ thread[t].pc # "unborn" => thread'[t].pc # "unborn"
             /\ thread[t].pc = "gone" => thread'[t].pc = "gone"
  <2>1. PICK hit : thread' = [thread EXCEPT ![u] =
                     [pc |-> "inside", call |-> calls + 1, path |-> path, hit |-> hit]]
    BY <1>6 DEF Enter
  <2> DEFINE entry == [pc |-> "inside", call |-> calls + 1, path |-> path, hit |-> hit]
  <2>2. entry.pc = "inside" /\ thread' = [thread EXCEPT ![u] = entry]
    BY <2>1
  <2>3. thread[u].pc # "gone"
    BY <1>6 DEF Enter
  <2> HIDE DEF entry
  <2> QED
    BY <1>3, <2>2, <2>3
<1>7. ASSUME NEW u \in Threads, ReturnUnseen(u) \/ ReturnDelete(u) \/ Start(u)
      PROVE  /\ thread[t].pc # "unborn" => thread'[t].pc # "unborn"
             /\ thread[t].pc = "gone" => thread'[t].pc = "gone"
  BY <1>3, <1>5, <1>7 DEF ReturnUnseen, ReturnDelete, Start
<1>8. ASSUME NEW u \in Threads, Return(u) \/ Exit(u)
      PROVE  /\ thread[t].pc # "unborn" => thread'[t].pc # "unborn"
             /\ thread[t].pc = "gone" => thread'[t].pc = "gone"
  <2>1. PICK pc \in {"sent", "gone"} : thread' = [thread EXCEPT ![u].pc = pc]
    BY <1>8 DEF Return, Exit
  <2>2. thread[u].pc # "gone"
    BY <1>8 DEF Return, Exit
  <2> QED
    BY <1>4, <2>1, <2>2
<1>9. ASSUME NEW u \in Threads, BashReturn(u)
      PROVE  UNCHANGED thread
  BY <1>9 DEF BashReturn
<1>10. CASE Load
  <2>1. UNCHANGED thread
    BY <1>10 DEF Load, OpenLoad, BreakoutLoad, TcpLoad, BashLoad, Attach
  <2> QED
    BY <1>1, <2>1
<1>11. CASE Watch
  <2>1. UNCHANGED thread
    BY <1>11, WatchKeepsProbes DEF probeVars
  <2> QED
    BY <1>1, <2>1
<1>12. ASSUME NEW u \in Callers[kind], Call(u) \/ Exit(u) \/ Start(u)
       PROVE  u \in Threads
  BY ProbePairsAssumption DEF ProbePairsAssumption, ProbeInv
<1>13. CASE UNCHANGED vars
  BY <1>1, <1>13 DEF vars, kernelVars
<1> QED
  BY <1>1, <1>6, <1>7, <1>8, <1>9, <1>10, <1>11, <1>12, <1>13
  DEF Next, Call, OpenEnter, BreakoutEnter, TcpEnter

\* The records that a step of anyone but the watcher leaves, and adds.
LEMMA OthersAdd ==
  ASSUME ProbeInv, OwnInv, [Next]_vars, ~Watch
  PROVE  /\ watcher' = watcher
         /\ \A i \in DOMAIN ring : i \in DOMAIN ring' /\ ring'[i] = ring[i]
         /\ \A i \in DOMAIN ring' : ring'[i].call # 0 \/ (i \in DOMAIN ring /\ ring'[i] = ring[i])
<1>1. CASE UNCHANGED <<ring, watcher>>
  BY <1>1
<1>2. ASSUME NEW r, r.call # 0, ring' = Submit(r)
      PROVE  /\ \A i \in DOMAIN ring : i \in DOMAIN ring' /\ ring'[i] = ring[i]
             /\ \A i \in DOMAIN ring' : ring'[i].call # 0 \/ (i \in DOMAIN ring /\ ring'[i] = ring[i])
  <2>1. \A i \in DOMAIN ring' : ring'[i] = r \/ (i \in DOMAIN ring /\ ring'[i] = ring[i])
    BY <1>2, SubmitAdds DEF OwnInv
  <2>2. \A i \in DOMAIN ring : i \in DOMAIN Append(ring, r) /\ Append(ring, r)[i] = ring[i]
    <3>1. ring \in Seq(Range(ring) \union {r})
      BY SeqMonotonic DEF OwnInv, RingOK
    <3> QED
      BY <3>1, AppendProperties, LenProperties
  <2>3. \A i \in DOMAIN ring : i \in DOMAIN ring' /\ ring'[i] = ring[i]
    BY <1>2, <2>2 DEF Submit
  <2> QED
    BY <1>2, <2>1, <2>3
<1>3. ASSUME NEW u \in Threads, Return(u)
      PROVE  watcher' = watcher /\ \E r : r.call # 0 /\ ring' = Submit(r)
  <2> DEFINE d == tmp[Key(u)]
             r == [call |-> d.call, by |-> thread[u].call, task |-> d.task, path |-> d.path]
  <2>1. Key(u) \in DOMAIN tmp /\ ring' = Submit(r) /\ watcher' = watcher
    BY <1>3 DEF Return
  <2>2. d.call \in 1..calls /\ calls \in Nat
    BY <2>1 DEF ProbeInv, EntryOK
  <2>3. r.call = d.call
    OBVIOUS
  <2> HIDE DEF r
  <2> QED
    BY <2>1, <2>2, <2>3
<1>4. ASSUME NEW u \in Threads, BashReturn(u)
      PROVE  watcher' = watcher /\ \E r : r.call # 0 /\ ring' = Submit(r)
  <2> DEFINE r == [call |-> calls + 1, by |-> calls + 1, task |-> u, path |-> << >>]
  <2>1. r.call = calls + 1 /\ calls \in Nat
    BY DEF ProbeInv
  <2>2. watcher' = watcher /\ ring' = Submit(r)
    BY <1>4 DEF BashReturn
  <2> HIDE DEF r
  <2> QED
    BY <2>1, <2>2
<1>5. ASSUME NEW u, OpenEnter(u) \/ BreakoutEnter(u) \/ TcpEnter(u) \/ ReturnUnseen(u)
                      \/ ReturnDelete(u) \/ Exit(u) \/ Start(u)
      PROVE  UNCHANGED <<ring, watcher>>
  BY <1>5 DEF OpenEnter, BreakoutEnter, TcpEnter, Enter, ReturnUnseen, ReturnDelete, Exit, Start
<1>6. CASE Load
  <2>1. UNCHANGED <<ring, watcher>>
    BY <1>6 DEF Load, OpenLoad, BreakoutLoad, TcpLoad, BashLoad, Attach
  <2> QED
    BY <1>1, <2>1
<1>7. ASSUME NEW u \in Callers[kind], Call(u) \/ Exit(u) \/ Start(u)
      PROVE  u \in Threads
  BY ProbePairsAssumption DEF ProbePairsAssumption, ProbeInv
<1>8. CASE UNCHANGED vars
  BY <1>1, <1>8 DEF vars, kernelVars
<1> QED
  BY <1>1, <1>2, <1>3, <1>4, <1>5, <1>6, <1>7, <1>8 DEF Next, Call

LEMMA CallStays ==
  ASSUME ProbeInv, ProbeInv', OwnInv, PlainInv, HeldInv, RingTyped, CallInv, [Next]_vars
  PROVE  CallInv'
<1>1. kind' = kind
  BY ProcessStep
<1>2. ASSUME NEW i \in DOMAIN ring', ring'[i].call = 0
      PROVE  kind \in OpenKinds
  <2>1. CASE i \in DOMAIN ring /\ ring'[i] = ring[i]
    BY <1>2, <2>1 DEF CallInv
  <2>2. CASE ~Watch
    BY <1>2, <2>1, <2>2, OthersAdd
  <2>3. CASE Watch
    <3>1. CASE ring' = ring
      BY <2>1, <3>1
    <3>2. CASE ring # << >> /\ ring' = Tail(ring)
      <4>1. i + 1 \in DOMAIN ring /\ ring'[i] = ring[i + 1]
        BY <3>2, TailOfRing DEF OwnInv, RingOK
      <4> QED
        BY <1>2, <4>1 DEF CallInv
    <3>3. CASE \E paths \in Seq(Seq(PathParts)) : ring' = WithOpensOfDaemon(paths)
      <4>1. RingOK /\ Len(ring) <= RingSize /\ Len(ring) \in Nat /\ DOMAIN ring = 1..Len(ring)
        BY LenProperties DEF OwnInv, RingOK, RingTyped
      <4>2. /\ DOMAIN ring' = 1..Len(ring') /\ Len(ring') \in Nat
            /\ i \in 1..Len(ring) => ring'[i] = ring[i]
            /\ i > Len(ring) => kind \in OpenKinds
        BY <3>3, <4>1, OpensKeep
      <4> QED
        BY <2>1, <4>1, <4>2
    <3> QED
      BY <2>3, <3>1, <3>2, <3>3, WatchMoves
  <2> QED
    BY <2>2, <2>3
<1>3. ASSUME NEW d \in Held'
      PROVE  thread'[d.task].pc # "unborn"
  <2>1. CASE d \in Held
    <3>1. d.task \in Threads /\ thread[d.task].pc # "unborn"
      BY <2>1 DEF HeldInv, DatumOK, CallInv
    <3> QED
      BY <3>1, TasksStay
  <2>2. CASE d \in OfDaemon
    <3>1. d.task = Self /\ Self \in Threads /\ Self \in alive
      BY <2>2, ProcFSAssumption DEF OfDaemon, PlainInv
    <3>2. thread[Self].pc # "unborn"
      BY <3>1 DEF ProbeInv, ThreadOK
    <3> QED
      BY <3>1, <3>2, TasksStay
  <2>3. ASSUME NEW t \in Threads, d \in OfCall(t), t \in alive
        PROVE  thread'[d.task].pc # "unborn"
    <3>1. d.task = t /\ thread[t].pc # "unborn"
      BY <2>3 DEF OfCall, ProbeInv, ThreadOK
    <3> QED
      BY <3>1, TasksStay
  <2> QED
    BY <1>3, <2>1, <2>2, <2>3, HeldStep
<1> QED
  BY <1>1, <1>2, <1>3 DEF CallInv

\* As long as no process has ended, /proc tells of a process in a container of docker's
\* that it is in it.
LEMMA DockerIsThere ==
  ASSUME ProbeInv, PlainInv, HeldInv, CallInv, watcher # Idle, Wanted(watcher.rec),
         kind = "dockeropenbreakout", \A t \in Threads : thread[t].pc # "gone"
  PROVE  LET t == watcher.rec.task IN
         /\ GetContainerRuntime(Tgid(t), Task[t].pid, host) = "docker"
         /\ GetContainerID(Tgid(t), Task[t].pid) # ""
<1>1. Datum(watcher.rec) \in Held /\ DatumOK(Datum(watcher.rec))
  BY HeldHere DEF HeldInv
<1>2. PICK t \in Threads : t = watcher.rec.task /\ thread[t].pc # "unborn"
  BY <1>1 DEF DatumOK, Datum, CallInv
<1>3. /\ Task[t].pid # 0 /\ RuntimeIn(Task[t].cgroup.names) = "docker" /\ Task[t].cgroup.id # ""
      /\ Tgid(t) = 0
  BY <1>2 DEF Wanted, Tgid
<1>4. t \in alive /\ alive \subseteq Threads
  BY <1>2 DEF ProbeInv, ThreadOK, PlainInv
<1> DEFINE ts == TaskRead(0, Task[t].pid)
<1>5. ts = WithPid(Task[t].pid)
  <2>1. ts = {u \in WithPid(Task[t].pid) : 0 > 0 => 0 = Task[t].pid}
    BY <1>3 DEF TaskRead
  <2>2. ~ (0 > 0)
    OBVIOUS
  <2> HIDE DEF ts
  <2> QED
    BY <2>1, <2>2, Zenon
<1>6. t \in ts /\ \A u \in ts : u \in Threads /\ Task[u].cgroup = Task[t].cgroup
  <2>1. t \in ts
    BY <1>4, <1>5 DEF WithPid
  <2>2. ASSUME NEW u \in ts
        PROVE  u \in Threads /\ Task[u].cgroup = Task[t].cgroup
    <3>1. u \in alive /\ u \in Threads /\ Task[u].pid = Task[t].pid
      BY <1>4, <1>5, <2>2 DEF WithPid
    <3>2. Task[u].process = Task[t].process
      BY <1>3, <1>4, <3>1 DEF ProbeInv, NumbersOK
    <3> QED
      BY <3>1, <3>2, ProcFSAssumption DEF ProcFSAssumption
  <2> QED
    BY <2>1, <2>2
<1> HIDE DEF ts
<1>7. UNION {Task[u].cgroup.names : u \in ts} = Task[t].cgroup.names
  BY <1>6
<1>8. GetContainerRuntime(0, Task[t].pid, host) = "docker"
  BY <1>3, <1>7 DEF GetContainerRuntime, ts
<1>9. GetContainerID(0, Task[t].pid) # ""
  <2>1. (CHOOSE u \in ts : TRUE) \in ts
    BY <1>6
  <2>2. GetContainerID(0, Task[t].pid) = Task[CHOOSE u \in ts : TRUE].cgroup.id
    BY <1>6 DEF GetContainerID, ts
  <2> QED
    BY <1>3, <1>6, <2>1, <2>2
<1> QED
  BY <1>2, <1>3, <1>8, <1>9

\* The event that the watcher has: a step of it is one towards the rules, or ends there.
LEMMA EventGoesOn ==
  ASSUME ProbeInv, OwnInv, PlainInv, HeldInv, CallInv, EventInv, Watch,
         Left[watcher.pc] > 1, Wanted(watcher.rec)
  PROVE  \/ Left[watcher'.pc] > 1 /\ watcher'.rec = watcher.rec
         \/ \E e \in reported' : e.rec.call = watcher.rec.call
         \/ kind = "dockeropenbreakout" /\ watcher.rec.call \in unanswered'
         \/ kind = "dockeropenbreakout" /\ \E t \in Threads : thread[t].pc = "gone"
<1>1. watcher.pc \notin {"idle", "dataless", "kill"} /\ watcher # Idle
  BY DEF Left, Idle
<1>2. PICK w : w = watcher /\ DOMAIN w = EventFields
  BY <1>1 DEF OwnInv, EventOK
<1>3. ASSUME NEW x, NEW step
      PROVE  /\ [w EXCEPT !.pc = step, !.ids = x].pc = step
             /\ [w EXCEPT !.pc = step, !.ids = x].rec = w.rec
             /\ [w EXCEPT !.pc = step, !.runtime = x].pc = step
             /\ [w EXCEPT !.pc = step, !.runtime = x].rec = w.rec
             /\ [w EXCEPT !.pc = step, !.id = x].pc = step
             /\ [w EXCEPT !.pc = step, !.id = x].rec = w.rec
             /\ [w EXCEPT !.pc = step].pc = step
             /\ [w EXCEPT !.pc = step].rec = w.rec
  BY <1>2 DEF EventFields
<1>4. \A step \in {"runtime", "id", "inspect", "rules"} : Left[step] > 1
  BY DEF Left
<1>5. CASE InspectFails
  <2>1. watcher.pc = "inspect" /\ WatcherOK(watcher)
    BY <1>1, <1>5 DEF InspectFails, EventInv
  <2> QED
    BY <1>5, <2>1 DEF InspectFails, WatcherOK
<1>6. CASE ReadIds
  <2> DEFINE ids == GetUIDGID(Tgid(w.rec.task), Task[w.rec.task].pid)
             next == [w EXCEPT !.pc = "runtime", !.ids = ids]
  <2>1. ids \in Nat \X Nat
    BY OriginTyped DEF PlainInv
  <2>2. NoNumber \notin {ids[1], ids[2]}
    BY <2>1, ProcFSAssumption DEF ProcFSAssumption
  <2>3. watcher' = next
    BY <1>2, <1>6, <2>2 DEF ReadIds, Continue
  <2>4. next.pc = "runtime" /\ next.rec = w.rec
    BY <1>3
  <2> HIDE DEF next
  <2> QED
    BY <1>2, <1>4, <2>3, <2>4
<1>7. CASE ReadRuntime
  <2> DEFINE runtime == GetContainerRuntime(Tgid(w.rec.task), Task[w.rec.task].pid, host)
             next == [w EXCEPT !.pc = "id", !.runtime = runtime]
  <2>1. \/ kind = "dockeropenbreakout" /\ \E t \in Threads : thread[t].pc = "gone"
        \/ ~ (kind = "dockeropenbreakout" /\ runtime # "docker")
    BY <1>1, <1>2, DockerIsThere
  <2>2. ~ (kind = "dockeropenbreakout" /\ runtime # "docker") => watcher' = next
    BY <1>2, <1>7 DEF ReadRuntime, Continue
  <2>3. next.pc = "id" /\ next.rec = w.rec
    BY <1>3
  <2> HIDE DEF next, runtime
  <2> QED
    BY <1>2, <1>4, <2>1, <2>2, <2>3
<1>8. CASE ReadId
  <2> DEFINE id == GetContainerID(Tgid(w.rec.task), Task[w.rec.task].pid)
             next(step) == [w EXCEPT !.pc = step, !.id = id]
  <2>1. \/ kind = "dockeropenbreakout" /\ \E t \in Threads : thread[t].pc = "gone"
        \/ kind = "dockeropenbreakout" => id # ""
    BY <1>1, <1>2, DockerIsThere
  <2>2. kind # "dockeropenbreakout" => watcher' = next("rules")
    BY <1>2, <1>8 DEF ReadId, Continue
  <2>3. kind = "dockeropenbreakout" /\ id # "" => watcher' = next("inspect")
    BY <1>2, <1>8 DEF ReadId, Continue
  <2>4. \A step : next(step).pc = step /\ next(step).rec = w.rec
    BY <1>3
  <2> HIDE DEF next, id
  <2> QED
    BY <1>2, <1>4, <2>1, <2>2, <2>3, <2>4
<1>9. CASE Inspect
  <2> DEFINE next == [w EXCEPT !.pc = "rules"]
  <2>1. kind = "dockeropenbreakout"
    BY <1>1, <1>9 DEF Inspect, EventInv, WatcherOK
  <2>2. ~InMounts(w.rec.path)
    BY <1>2, <2>1 DEF Wanted
  <2>3. watcher' = next
    BY <1>2, <1>9, <2>2 DEF Inspect, Continue
  <2>4. next.pc = "rules" /\ next.rec = w.rec
    BY <1>3
  <2> HIDE DEF next
  <2> QED
    BY <1>2, <1>4, <2>3, <2>4
<1>10. CASE Report
  <2> DEFINE e == [w EXCEPT !.pc = "reported"]
  <2>1. e \in reported'
    BY <1>2, <1>10 DEF Report
  <2>2. e.rec = w.rec
    BY <1>3
  <2> HIDE DEF e
  <2> QED
    BY <1>2, <2>1, <2>2
<1>11. ~ (OpenReceive \/ BreakoutReceive \/ TcpReceive \/ BashReceive \/ PassOver \/ Do)
  BY <1>1 DEF OpenReceive, BreakoutReceive, TcpReceive, BashReceive, Receive, PassOver, Do
<1> QED
  BY <1>5, <1>6, <1>7, <1>8, <1>9, <1>10, <1>11 DEF Watch

LEMMA NoneIsDropped ==
  ASSUME ProbeInv, OwnInv, PlainInv, HeldInv, RingTyped, CallInv, EventInv, [Next]_vars,
         NEW c \in 1..MaxCalls, Awaited(c)
  PROVE  Awaited(c)' \/ Settled(c)'
<1>1. PICK r : /\ r.call = c /\ Wanted(r)
               /\ \/ \E i \in DOMAIN ring : ring[i] = r
                  \/ Left[watcher.pc] > 1 /\ watcher.rec = r
  BY DEF Awaited
<1>0. UNCHANGED <<kind, reports>>
  BY ProcessStep
<1>2. Wanted(r)'
  BY <1>0, <1>1 DEF Wanted, Ignored, Tgid, InMounts
<1>3. (\E i \in DOMAIN ring' : ring'[i] = r) => Awaited(c)'
  BY <1>1, <1>2 DEF Awaited, Wanted, Ignored, Tgid, InMounts
<1>4. Left[watcher'.pc] > 1 /\ watcher'.rec = r => Awaited(c)'
  BY <1>1, <1>2 DEF Awaited, Wanted, Ignored, Tgid, InMounts
<1>5. CASE ~Watch
  <2>1. /\ watcher' = watcher
        /\ \A i \in DOMAIN ring : i \in DOMAIN ring' /\ ring'[i] = ring[i]
    BY <1>5, OthersAdd
  <2> QED
    BY <1>1, <1>3, <1>4, <2>1
<1>6. ASSUME Watch, NEW i \in DOMAIN ring, ring[i] = r, watcher.pc = "idle"
      PROVE  Awaited(c)'
  <2>1. ring # << >> /\ ring' = Tail(ring) /\ ring \in Seq(Range(ring)) /\ Len(ring) \in Nat
        /\ DOMAIN ring = 1..Len(ring)
    BY <1>6, IdleIsIdle, WatchMoves, LenProperties DEF OwnInv, RingOK
  <2>2. CASE i = 1
    <3>1. Head(ring) = r
      BY <1>6, <2>1, <2>2, HeadTailProperties
    <3>2. kind # "bashreadline" /\ (kind \in OpenKinds => ~Ignored(r))
      BY <1>1 DEF Wanted
    <3>3. Decodes(kind)
      BY AllDecode, ProbePairsAssumption DEF ProbePairsAssumption, ProbeInv
    <3>4. watcher' = Pending("ids", r) \/ watcher' = Pending("runtime", r)
      BY <1>6, <3>1, <3>2, <3>3, Taken
    <3>5. \A step : Pending(step, r).pc = step /\ Pending(step, r).rec = r
      BY DEF Pending
    <3>6. Left["ids"] > 1 /\ Left["runtime"] > 1
      BY DEF Left
    <3> QED
      BY <1>4, <3>4, <3>5, <3>6
  <2>3. CASE i # 1
    <3>1. Len(Tail(ring)) = Len(ring) - 1 /\ Tail(ring) \in Seq(Range(ring))
      BY <2>1, HeadTailProperties
    <3>2. i - 1 \in 1..Len(Tail(ring)) /\ i - 1 \in DOMAIN Tail(ring)
      BY <2>1, <2>3, <3>1, LenProperties
    <3>3. Tail(ring)[i - 1] = ring[(i - 1) + 1]
      BY <2>1, <3>2, TailOfRing
    <3>4. (i - 1) + 1 = i
      BY <2>1
    <3>5. ring'[i - 1] = r
      BY <1>6, <2>1, <3>3, <3>4
    <3> QED
      BY <1>3, <2>1, <3>2, <3>5
  <2> QED
    BY <2>2, <2>3
<1>7. ASSUME Watch, NEW i \in DOMAIN ring, ring[i] = r, watcher.pc # "idle"
      PROVE  Awaited(c)'
  <2>1. RingOK /\ Len(ring) <= RingSize /\ DOMAIN ring = 1..Len(ring)
    BY LenProperties DEF OwnInv, RingOK, RingTyped
  <2>2. i \in DOMAIN ring' /\ ring'[i] = ring[i]
    <3>1. CASE ring' = ring
      BY <1>7, <3>1
    <3>2. ASSUME NEW paths \in Seq(Seq(PathParts)), ring' = WithOpensOfDaemon(paths)
          PROVE  i \in DOMAIN ring' /\ ring'[i] = ring[i]
      <4>1. /\ Len(ring') \in Nat /\ DOMAIN ring' = 1..Len(ring') /\ Len(ring) <= Len(ring')
            /\ \A j \in 1..Len(ring) : ring'[j] = ring[j]
        BY <2>1, <3>2, OpensKeep
      <4>2. Len(ring) \in Nat
        BY <2>1, LenProperties DEF RingOK
      <4> QED
        BY <2>1, <4>1, <4>2
    <3> QED
      BY <1>7, <3>1, <3>2, WatchMoves
  <2> QED
    BY <1>3, <1>7, <2>2
<1>8. ASSUME Watch, Left[watcher.pc] > 1, watcher.rec = r
      PROVE  Awaited(c)' \/ Settled(c)'
  <2>1. UNCHANGED <<kind, thread>>
    BY <1>8, WatchKeepsProbes DEF probeVars
  <2> QED
    BY <1>1, <1>4, <1>8, <2>1, EventGoesOn DEF Settled
<1> QED
  BY <1>1, <1>5, <1>6, <1>7, <1>8

LEMMA CallInvariant == Spec => [](ProbeInv /\ OwnInv /\ DataInv /\ CallInv)
<1>1. Init => CallInv
  <2> SUFFICES ASSUME Init PROVE CallInv
    OBVIOUS
  <2>1. ring = << >> /\ watcher = Idle /\ DOMAIN tmp = {} /\ DOMAIN ring = {}
    BY DEF Init
  <2>2. Held = {}
    BY <2>1 DEF Held
  <2> QED
    BY <2>1, <2>2 DEF CallInv
<1>2. ProbeInv /\ ProbeInv' /\ OwnInv /\ DataInv /\ CallInv /\ [Next]_vars => CallInv'
  BY CallStays DEF DataInv
<1> QED
  BY <1>1, <1>2, DataInvariant, PTL DEF Spec

\* Every step of the watcher goroutine (WatchEvent, the loop of NewServer, the actions)
\* brings it nearer to its rest, whatever it opens in /proc meanwhile: its own
\* opens are behind the records of calls and are ignored (open.go:159).
THEOREM WatcherGetsOn == Spec => RunsDown
<1>1. ProbeInv /\ OwnInv /\ DataInv /\ CallInv =>
        [Watch =>
           \/ Ahead' \subseteq Ahead /\ Ahead' # Ahead
           \/ Ahead' = Ahead /\ Left[watcher'.pc] < Left[watcher.pc]
           \/ Ahead' = Ahead /\ watcher' = watcher /\ Len(ring') < Len(ring)]_vars
  BY WatchRunsDown DEF DataInv
<1> QED
  BY <1>1, CallInvariant, PTL DEF RunsDown

\* A record that has reached the perf buffer is never dropped on its way to the rules: not
\* by other records, by opens of the daemon, by the end of its process, by text in
\* /proc (proc.go) or by a record's length; but for what dockeropenbreakout may miss.
THEOREM NoneDroppedHolds == Spec => NoneDropped
<1>1. ProbeInv /\ OwnInv /\ DataInv /\ CallInv /\ [Next]_vars =>
        [\A c \in 1..MaxCalls : Awaited(c) => Awaited(c)' \/ Settled(c)']_vars
  BY NoneIsDropped DEF DataInv
<1> QED
  BY <1>1, CallInvariant, PTL DEF NoneDropped, Spec
=============================================================================
