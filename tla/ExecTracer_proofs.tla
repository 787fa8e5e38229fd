--------------------------- MODULE ExecTracer_proofs ---------------------------
(***************************************************************************)
(* Proofs about the exec tracer, for any threads, PIDs, CPUs, lists of     *)
(* arguments, limit MAXARG, size of the buffers, number of calls and       *)
(* number of processes that get a PID in turn: the types; whose arguments  *)
(* an event shows, whatever is lost or overtaken; and that a PID that was  *)
(* not disturbed has events with all of the arguments of their calls, and  *)
(* nothing kept for it between them.                                       *)
(***************************************************************************)
EXTENDS ExecTracer, SequenceTheorems, FunctionTheorems, WellFoundedInduction, TLAPS

-----------------------------------------------------------------------------
(* ShownFirst is a recursive function: that there is one is shown by its     *)
(* values up to n, for the least n for which there are none.                 *)

\* A set of numbers has a least one.
LEMMA LeastNumber ==
  ASSUME NEW T, T \subseteq Nat, T # {}
  PROVE  \E n \in T : \A m \in T : n <= m
<1>1. IsWellFoundedOn(OpToRel(<, Nat), Nat)
  BY NatLessThanWellFounded
<1>2. PICK x \in T : \A y \in T : ~ (<<y, x>> \in OpToRel(<, Nat))
  BY <1>1, WFMin
<1>3. \A y \in T : ~ (y < x)
  BY <1>2 DEF OpToRel
<1> QED
  BY <1>3

\* f is ShownFirst(args), as far as n.
ShownTable(args, n, f) ==
  /\ f \in [0..n -> Seq(Range(args))]
  /\ f[0] = << >>
  /\ \A k \in 1..n : f[k] = IF args[k] = Blank THEN f[k - 1] ELSE Append(f[k - 1], args[k])

LEMMA ShownTableExists ==
  ASSUME NEW S, NEW args \in Seq(S)
  PROVE  \E f : ShownTable(args, Len(args), f)
<1> DEFINE bad == {n \in 0..Len(args) : ~ \E f : ShownTable(args, n, f)}
<1>1. SUFFICES ASSUME bad # {} PROVE FALSE
  OBVIOUS
<1>2. PICK n \in bad : \A m \in bad : n <= m
  <2>1. bad \subseteq Nat
    OBVIOUS
  <2> HIDE DEF bad
  <2> QED
    BY <1>1, <2>1, LeastNumber
<1>3. CASE n = 0
  <2>1. ShownTable(args, 0, [k \in 0..0 |-> << >>])
    BY DEF ShownTable
  <2> QED
    BY <1>3, <2>1
<1>4. CASE n # 0
  <2>1. n - 1 \in 0..Len(args) /\ n - 1 \notin bad /\ n \in 1..Len(args)
    BY <1>2, <1>4
  <2>2. PICK f : ShownTable(args, n - 1, f)
    BY <2>1
  <2> DEFINE g == [k \in 0..n |->
                     IF k < n THEN f[k]
                     ELSE IF args[n] = Blank THEN f[n - 1] ELSE Append(f[n - 1], args[n])]
  <2>3. args[n] \in Range(args)
    BY <2>1 DEF Range
  <2>4. f[n - 1] \in Seq(Range(args))
    BY <2>1, <2>2 DEF ShownTable
  <2>5. Append(f[n - 1], args[n]) \in Seq(Range(args))
    BY <2>3, <2>4, AppendProperties
  <2>6. \A k \in 0..n : k < n => k \in 0..(n - 1) /\ f[k] \in Seq(Range(args))
    BY <2>1, <2>2 DEF ShownTable
  <2>7. g \in [0..n -> Seq(Range(args))]
    BY <2>4, <2>5, <2>6
  <2>8. g[0] = << >>
    BY <2>1, <2>2 DEF ShownTable
  <2>9. ASSUME NEW k \in 1..n
        PROVE  g[k] = IF args[k] = Blank THEN g[k - 1] ELSE Append(g[k - 1], args[k])
    <3>1. CASE k = n
      BY <3>1, <2>1
    <3>2. CASE k # n
      <4>1. k \in 1..(n - 1) /\ g[k] = f[k] /\ g[k - 1] = f[k - 1]
        BY <3>2, <2>1
      <4> QED
        BY <4>1, <2>2 DEF ShownTable
    <3> QED
      BY <3>1, <3>2
  <2>10. ShownTable(args, n, g)
    BY <2>7, <2>8, <2>9 DEF ShownTable
  <2> QED
    BY <2>10
<1> QED
  BY <1>3, <1>4

\* What ShownFirst computes, step by step.
LEMMA ShownFirstSteps ==
  ASSUME NEW S, NEW args \in Seq(S)
  PROVE  /\ ShownFirst(args)[0] = << >>
         /\ \A k \in 1..Len(args) :
              ShownFirst(args)[k] = IF args[k] = Blank THEN ShownFirst(args)[k - 1]
                                    ELSE Append(ShownFirst(args)[k - 1], args[k])
<1> DEFINE Step(f, k) == IF k = 0 THEN << >>
                         ELSE IF args[k] = Blank THEN f[k - 1] ELSE Append(f[k - 1], args[k])
           Is(f) == f = [k \in 0..Len(args) |-> Step(f, k)]
<1>1. ShownFirst(args) = CHOOSE f : Is(f)
  BY DEF ShownFirst
<1>2. PICK f : ShownTable(args, Len(args), f)
  BY ShownTableExists
<1>3. \A k \in 0..Len(args) : f[k] = Step(f, k)
  <2> SUFFICES ASSUME NEW k \in 0..Len(args) PROVE f[k] = Step(f, k)
    OBVIOUS
  <2>1. CASE k = 0
    BY <1>2, <2>1 DEF ShownTable
  <2>2. CASE k \in 1..Len(args)
    <3>1. f[k] = IF args[k] = Blank THEN f[k - 1] ELSE Append(f[k - 1], args[k])
      BY <1>2, <2>2 DEF ShownTable
    <3>2. k # 0
      BY <2>2
    <3> QED
      BY <3>1, <3>2
  <2> QED
    BY <2>1, <2>2
<1>4. Is(f)
  BY <1>2, <1>3 DEF ShownTable
<1>5. Is(ShownFirst(args))
  BY <1>1, <1>4
<1>6. \A k \in 0..Len(args) : ShownFirst(args)[k] = Step(ShownFirst(args), k)
  BY <1>5
<1> QED
  BY <1>6

-----------------------------------------------------------------------------
(* The threads and their calls.                                            *)

SubmittedArgs == AllArgs \union {Ellipsis}
Calls == [pid : PIDs, life : 0..MaxLives, args : ArgLists]
Gatherings == [arg : SubmittedArgs, call : 1..MaxCalls, at : 1..(MAXARG + 1)]

\* What is kept of thread t is of its call.
ThreadOK(t) ==
  /\ thread[t] = "enter" <=> left[t] # << >>
  /\ IF thread[t] = "enter" THEN cpu[t] \in Cpus ELSE cpu[t] = 0
  /\ thread[t] = "user" => call[t] = 0 /\ ~ probed[t]
  /\ thread[t] # "user" => call[t] \in DOMAIN called /\ called[call[t]].pid = PID[t]
  /\ probed[t] => "return" \in attached
  /\ thread[t] = "enter" =>
       /\ "entry" \in attached
       /\ Sent(t) >= 0
       /\ \A i \in DOMAIN left[t] : left[t][i] = Submitted(called[call[t]].args)[Sent(t) + i]

\* The threads and the history of the calls: no two threads are in one call.
KernelInv ==
  /\ attached \in ToSet(Stages)
  /\ called \in Seq(Calls) /\ Len(called) <= MaxCalls
  /\ thread \in [Threads -> {"user", "enter", "execve"}]
  /\ left \in [Threads -> Seq(SubmittedArgs)]
  /\ probed \in [Threads -> BOOLEAN]
  /\ cpu \in [Threads -> Cpus \union {0}]
  /\ call \in [Threads -> Nat]
  /\ \A t \in Threads : ThreadOK(t)
  /\ \A t, u \in Threads : call[t] = call[u] /\ call[t] # 0 => t = u
  /\ life \in [PIDs -> 0..MaxLives]
  /\ disturbed \subseteq PIDs

\* A record is of a call of its process, and has the argument that it says.
RecordOK(r, history) ==
  LET args == Submitted(history[r.call].args)
  IN /\ r \in Records
     /\ r.call \in DOMAIN history /\ history[r.call].pid = r.pid
     /\ r.type = "ARG" => r.at \in 1..Len(args) /\ r.arg = args[r.at]
     /\ r.type = "RET" => r.at = Len(args) + 1

\* What is gathered for p is an argument of one of its calls, and is not blank.
GatheredOK(a, p, history) ==
  LET args == Submitted(history[a.call].args)
  IN /\ a.call \in DOMAIN history /\ history[a.call].pid = p
     /\ a.at \in 1..Len(args) /\ a.arg = args[a.at] /\ a.arg # Blank

Rising(list) ==
  \A i, j \in DOMAIN list : i < j /\ list[i].call = list[j].call => list[i].at < list[j].at

TracerInv ==
  /\ ring \in [Cpus -> Seq(Records)]
  /\ \A c \in Cpus : Len(ring[c]) <= RingSize
  /\ \A c \in Cpus : \A i \in DOMAIN ring[c] : RecordOK(ring[c][i], called)
  /\ reading \in Cpus
  /\ argv \in [PIDs -> Seq(Gatherings)]
  /\ \A p \in PIDs : \A i \in DOMAIN argv[p] : GatheredOK(argv[p][i], p, called)


LEMMA SubmittedOK ==
  ASSUME NEW args \in ArgLists
  PROVE  /\ Submitted(args) \in Seq(SubmittedArgs)
         /\ Len(Submitted(args)) \in 1..(MAXARG + 1)
<1>1. args \in Seq(AllArgs) /\ args # << >> /\ Len(args) \in Nat \ {0} /\ MAXARG \in Nat \ {0, 1}
  BY ExecTracerAssumption
<1>2. CASE Len(args) < MAXARG
  <2>1. Submitted(args) = args
    BY <1>2 DEF Submitted
  <2> QED
    BY <1>1, <1>2, <2>1 DEF SubmittedArgs
<1>3. CASE ~ (Len(args) < MAXARG)
  <2>1. Submitted(args) = Append(SubSeq(args, 1, MAXARG), Ellipsis)
    BY <1>3 DEF Submitted
  <2>2. SubSeq(args, 1, MAXARG) \in Seq(AllArgs) /\ Len(SubSeq(args, 1, MAXARG)) = MAXARG
    BY <1>1, <1>3, SubSeqProperties
  <2> QED
    BY <1>1, <2>1, <2>2 DEF SubmittedArgs
<1> QED
  BY <1>2, <1>3

LEMMA StagesAre ==
  /\ ToSet(Stages) = {{}, {"entry"}, {"entry", "return"}, {"entry", "return", "perf"}}
  /\ \A i \in 1..3 : Stages[i] \subseteq Stages[i + 1] /\ Stages[i + 1] \in ToSet(Stages)
<1>1. DOMAIN Stages = 1..4
  BY DEF Stages
<1>2. /\ Stages[1] = {} /\ Stages[2] = {"entry"} /\ Stages[3] = {"entry", "return"}
      /\ Stages[4] = {"entry", "return", "perf"}
  BY DEF Stages
<1>3. ToSet(Stages) = {Stages[i] : i \in 1..4}
  BY <1>1 DEF ToSet
<1> QED
  BY <1>2, <1>3

LEMMA ReturnAfterEntry ==
  ASSUME attached \in ToSet(Stages), "return" \in attached
  PROVE  "entry" \in attached
BY StagesAre

\* The thread's call is of its process, and its arguments are a list of ArgLists.
LEMMA CallOf ==
  ASSUME KernelInv, NEW t \in Threads, thread[t] # "user"
  PROVE  /\ call[t] \in 1..Len(called) /\ called[call[t]] \in Calls
         /\ called[call[t]].pid = PID[t] /\ called[call[t]].args \in ArgLists
         /\ Submitted(called[call[t]].args) \in Seq(SubmittedArgs)
         /\ Len(Submitted(called[call[t]].args)) \in 1..(MAXARG + 1)
         /\ Len(left[t]) \in Nat /\ Sent(t) \in Int
         /\ thread[t] = "execve" => left[t] = << >> /\ Sent(t) = Len(Submitted(called[call[t]].args))
         /\ thread[t] = "enter" =>
              /\ Sent(t) \in Nat
              /\ Len(left[t]) > 0 /\ Sent(t) < Len(Submitted(called[call[t]].args))
              /\ Head(left[t]) = Submitted(called[call[t]].args)[Sent(t) + 1]
<1>1. call[t] \in DOMAIN called /\ called[call[t]].pid = PID[t]
  BY DEF KernelInv, ThreadOK
<1>2. called \in Seq(Calls) /\ left[t] \in Seq(SubmittedArgs)
  BY DEF KernelInv
<1>3. call[t] \in 1..Len(called) /\ called[call[t]] \in Calls
  BY <1>1, <1>2
<1>4. called[call[t]].args \in ArgLists
  BY <1>3 DEF Calls
<1> DEFINE sub == Submitted(called[call[t]].args)
<1>5. sub \in Seq(SubmittedArgs) /\ Len(sub) \in 1..(MAXARG + 1)
  BY <1>4, SubmittedOK
<1>6. Sent(t) = Len(sub) - Len(left[t])
  BY DEF Sent
<1>7. MAXARG \in Nat
  BY ExecTracerAssumption
<1>8. Len(left[t]) \in Nat /\ Len(sub) \in Nat /\ Sent(t) \in Int
  BY <1>2, <1>5, <1>6, <1>7
<1>9. ASSUME thread[t] = "execve"
      PROVE  left[t] = << >> /\ Sent(t) = Len(sub)
  <2>1. left[t] = << >>
    BY <1>9 DEF KernelInv, ThreadOK
  <2> HIDE DEF sub
  <2> QED
    BY <2>1, <1>6, <1>8
<1>10. ASSUME thread[t] = "enter"
       PROVE  /\ Sent(t) \in Nat /\ Len(left[t]) > 0 /\ Sent(t) < Len(sub)
              /\ Head(left[t]) = sub[Sent(t) + 1]
  <2>1. left[t] # << >> /\ Sent(t) >= 0 /\ \A i \in DOMAIN left[t] : left[t][i] = sub[Sent(t) + i]
    BY <1>10 DEF KernelInv, ThreadOK
  <2> HIDE DEF sub
  <2>2. 1 \in DOMAIN left[t] /\ Head(left[t]) = left[t][1] /\ Len(left[t]) > 0
    BY <1>2, <2>1
  <2>3. left[t][1] = sub[Sent(t) + 1]
    BY <2>1, <2>2
  <2>4. Sent(t) \in Nat /\ Sent(t) < Len(sub)
    BY <2>1, <2>2, <1>6, <1>8
  <2> QED
    BY <2>2, <2>3, <2>4
<1> QED
  BY <1>1, <1>3, <1>4, <1>5, <1>8, <1>9, <1>10

\* What is kept of the threads and of their calls stays in order.
LEMMA KernelKept ==
  ASSUME KernelInv, [Next]_vars
  PROVE  KernelInv'
<1> USE DEF KernelInv
<1>1. CASE Load
  <2>1. PICK i \in 1..3 : attached = Stages[i] /\ attached' = Stages[i + 1]
    BY <1>1 DEF Load
  <2>2. attached \subseteq attached' /\ attached' \in ToSet(Stages)
    BY <2>1, StagesAre
  <2>3. UNCHANGED <<probed, thread, left, cpu, call, life, called, disturbed>>
    BY <1>1 DEF Load
  <2>4. ASSUME NEW t \in Threads PROVE ThreadOK(t)'
    <3>1. ThreadOK(t)
      OBVIOUS
    <3>2. Sent(t)' = Sent(t)
      BY <2>3 DEF Sent
    <3> QED
      BY <2>2, <2>3, <3>1, <3>2 DEF ThreadOK
  <2> QED
    BY <2>2, <2>3, <2>4
<1>2. ASSUME NEW t \in Threads, ExecveEnter(t) PROVE KernelInv'
  <2>1. PICK args \in ArgLists, c \in Cpus, hit \in BOOLEAN :
          /\ hit => "return" \in attached
          /\ called' = Append(called, [pid |-> PID[t], life |-> life[PID[t]], args |-> args])
          /\ probed' = [probed EXCEPT ![t] = hit]
          /\ IF "entry" \in attached
             THEN /\ left' = [left EXCEPT ![t] = Submitted(args)]
                  /\ cpu' = [cpu EXCEPT ![t] = c]
                  /\ thread' = [thread EXCEPT ![t] = "enter"]
                  /\ disturbed' = disturbed \union (IF hit THEN {} ELSE {PID[t]})
             ELSE /\ thread' = [thread EXCEPT ![t] = "execve"]
                  /\ UNCHANGED <<left, cpu, disturbed>>
    BY <1>2 DEF ExecveEnter
  <2>2. /\ thread[t] = "user" /\ Len(called) < MaxCalls
        /\ call' = [call EXCEPT ![t] = Len(called) + 1] /\ attached' = attached /\ life' = life
    BY <1>2 DEF ExecveEnter
  <2> DEFINE new == [pid |-> PID[t], life |-> life[PID[t]], args |-> args]
  <2>3. new \in Calls /\ PID[t] \in PIDs
    <3>1. PID[t] \in PIDs
      BY DEF PIDs
    <3>2. life[PID[t]] \in 0..MaxLives
      BY <3>1
    <3> QED
      BY <3>1, <3>2 DEF Calls
  <2>4. Submitted(args) \in Seq(SubmittedArgs) /\ Len(Submitted(args)) \in 1..(MAXARG + 1)
    BY SubmittedOK
  <2>5. MAXARG \in Nat /\ MaxCalls \in Nat
    BY ExecTracerAssumption
  <2>6. /\ called' \in Seq(Calls) /\ Len(called') = Len(called) + 1 /\ Len(called) \in Nat
        /\ \A n \in 1..Len(called) : called'[n] = called[n]
        /\ called'[Len(called) + 1] = new
    <3> HIDE DEF new
    <3> QED
      BY <2>1, <2>3, AppendProperties DEF new
  <2>7. Submitted(args) # << >>
    BY <2>4, <2>5
  <2>8. ASSUME NEW u \in Threads, u # t PROVE ThreadOK(u)'
    <3>1. /\ ThreadOK(u) /\ probed'[u] = probed[u] /\ left'[u] = left[u] /\ cpu'[u] = cpu[u]
          /\ thread'[u] = thread[u] /\ call'[u] = call[u]
      BY <2>1, <2>2, <2>8
    <3>2. ASSUME thread[u] # "user"
          PROVE  call[u] \in DOMAIN called' /\ called'[call[u]] = called[call[u]]
      <4>1. call[u] \in 1..Len(called)
        BY <3>1, <3>2 DEF ThreadOK
      <4>2. call[u] \in 1..Len(called')
        BY <2>6, <4>1
      <4> QED
        BY <2>6, <4>1, <4>2
    <3>3. thread[u] # "user" => Sent(u)' = Sent(u)
      BY <3>1, <3>2 DEF Sent
    <3> QED
      BY <2>2, <3>1, <3>2, <3>3 DEF ThreadOK
  <2>9. ThreadOK(t)'
    <3>1. call'[t] = Len(called) + 1 /\ called'[call'[t]] = new /\ call'[t] \in DOMAIN called'
      BY <2>2, <2>6
    <3>2. probed'[t] => "return" \in attached'
      BY <2>1, <2>2
    <3>3. CASE "entry" \in attached
      <4>1. left'[t] = Submitted(args) /\ cpu'[t] = c /\ thread'[t] = "enter"
        BY <2>1, <3>3
      <4>2. Sent(t)' = 0
        BY <2>4, <2>5, <3>1, <4>1 DEF Sent
      <4>3. \A i \in DOMAIN left'[t] : left'[t][i] = Submitted(called'[call'[t]].args)[0 + i]
        BY <3>1, <4>1, <2>4
      <4> QED
        BY <2>2, <2>7, <3>1, <3>2, <3>3, <4>1, <4>2, <4>3 DEF ThreadOK
    <3>4. CASE "entry" \notin attached
      <4>1. left'[t] = << >> /\ cpu'[t] = 0 /\ thread'[t] = "execve"
        BY <2>1, <2>2, <3>4 DEF ThreadOK
      <4> QED
        BY <3>1, <3>2, <4>1 DEF ThreadOK
    <3> QED
      BY <3>3, <3>4
  <2>10. /\ thread' \in [Threads -> {"user", "enter", "execve"}] /\ left' \in [Threads -> Seq(SubmittedArgs)]
         /\ probed' \in [Threads -> BOOLEAN] /\ cpu' \in [Threads -> Cpus \union {0}]
         /\ disturbed' \subseteq PIDs
    BY <2>1, <2>3, <2>4
  <2>11. call' \in [Threads -> Nat]
    BY <2>2, <2>6
  <2>12. ASSUME NEW u \in Threads, NEW v \in Threads, call'[u] = call'[v], call'[u] # 0
         PROVE  u = v
    <3>1. \A w \in Threads : call[w] # 0 => call[w] \in 1..Len(called)
      BY DEF ThreadOK
    <3>2. ASSUME NEW w \in Threads, call[w] = Len(called) + 1 PROVE FALSE
      <4>1. call[w] # 0
        BY <2>6, <3>2
      <4>2. call[w] \in 1..Len(called)
        BY <3>1, <4>1
      <4> QED
        BY <2>6, <3>2, <4>2
    <3> QED
      BY <2>2, <2>12, <3>2
  <2> QED
    BY <2>2, <2>5, <2>6, <2>8, <2>9, <2>10, <2>11, <2>12
<1>3. ASSUME NEW t \in Threads, SubmitArg(t) PROVE KernelInv'
  <2>1. /\ thread[t] = "enter" /\ left' = [left EXCEPT ![t] = Tail(@)]
        /\ IF Len(left[t]) > 1
           THEN UNCHANGED <<thread, cpu>>
           ELSE thread' = [thread EXCEPT ![t] = "execve"] /\ cpu' = [cpu EXCEPT ![t] = 0]
        /\ UNCHANGED <<attached, probed, call, life, called>>
        /\ disturbed' \subseteq PIDs
    <3>1. disturbed' \subseteq disturbed \union {PID[t]}
      BY <1>3 DEF SubmitArg, PerfSubmit
    <3> QED
      BY <1>3, <3>1 DEF SubmitArg, PIDs
  <2>2. left[t] \in Seq(SubmittedArgs) /\ left[t] # << >> /\ Len(left[t]) \in Nat
    BY <2>1 DEF ThreadOK
  <2>3. /\ Tail(left[t]) \in Seq(SubmittedArgs) /\ Len(Tail(left[t])) = Len(left[t]) - 1
        /\ \A i \in 1..Len(Tail(left[t])) : Tail(left[t])[i] = left[t][i + 1]
    BY <2>2, HeadTailProperties
  <2>4. left'[t] = Tail(left[t])
    BY <2>1
  <2>5. ASSUME NEW u \in Threads, u # t PROVE ThreadOK(u)'
    <3>1. /\ ThreadOK(u) /\ left'[u] = left[u] /\ cpu'[u] = cpu[u] /\ thread'[u] = thread[u]
      BY <2>1, <2>5
    <3>2. Sent(u)' = Sent(u)
      BY <2>1, <3>1 DEF Sent
    <3> QED
      BY <2>1, <3>1, <3>2 DEF ThreadOK
  <2>6. ThreadOK(t)'
    <3>1. ThreadOK(t)
      OBVIOUS
    <3>2. Sent(t)' = Sent(t) + 1
      <4>1. Len(Submitted(called[call[t]].args)) \in 1..(MAXARG + 1) /\ MAXARG \in Nat
        BY <2>1, CallOf, ExecTracerAssumption
      <4> QED
        BY <2>1, <2>2, <2>3, <2>4, <4>1 DEF Sent
    <3>3. Sent(t) \in Nat
      BY <2>1, CallOf
    <3>4. \A i \in DOMAIN left'[t] : left'[t][i] = Submitted(called[call[t]].args)[Sent(t)' + i]
      <4> SUFFICES ASSUME NEW i \in 1..Len(Tail(left[t]))
                   PROVE  Tail(left[t])[i] = Submitted(called[call[t]].args)[Sent(t) + 1 + i]
        BY <2>3, <2>4, <3>2
      <4>1. i + 1 \in DOMAIN left[t]
        BY <2>2, <2>3
      <4>2. left[t][i + 1] = Submitted(called[call[t]].args)[Sent(t) + (i + 1)]
        BY <2>1, <3>1, <4>1 DEF ThreadOK
      <4>3. Sent(t) + (i + 1) = Sent(t) + 1 + i
        BY <3>3
      <4> QED
        BY <2>3, <4>2, <4>3
    <3>5. CASE Len(left[t]) > 1
      <4>1. left'[t] # << >>
        <5>1. Len(left'[t]) = Len(left[t]) - 1 /\ left'[t] \in Seq(SubmittedArgs)
          BY <2>3, <2>4
        <5> HIDE DEF KernelInv
        <5>2. Len(left'[t]) # 0
          BY <2>2, <3>5, <5>1
        <5> QED
          BY <5>2
      <4> QED
        BY <2>1, <3>1, <3>2, <3>3, <3>4, <3>5, <4>1 DEF ThreadOK
    <3>6. CASE ~ (Len(left[t]) > 1)
      <4>1. left'[t] = << >>
        BY <2>2, <2>3, <2>4, <3>6
      <4>2. thread'[t] = "execve" /\ cpu'[t] = 0
        BY <2>1, <3>6
      <4> QED
        BY <2>1, <3>1, <4>1, <4>2 DEF ThreadOK
    <3> QED
      BY <3>5, <3>6
  <2>7. /\ thread' \in [Threads -> {"user", "enter", "execve"}] /\ cpu' \in [Threads -> Cpus \union {0}]
        /\ left' \in [Threads -> Seq(SubmittedArgs)]
    BY <2>1, <2>3
  <2> QED
    BY <2>1, <2>5, <2>6, <2>7
<1>4. ASSUME NEW t \in Threads, CallsOver(t), thread[t] = "execve",
             UNCHANGED <<attached, left, cpu, life, called>>, disturbed' \subseteq PIDs
      PROVE  KernelInv'
  <2>1. PICK over \in {{t}, {u \in Threads : PID[u] = PID[t]}} :
          /\ \A u \in over : thread[u] # "enter"
          /\ thread' = [u \in Threads |-> IF u \in over THEN "user" ELSE thread[u]]
          /\ call' = [u \in Threads |-> IF u \in over THEN 0 ELSE call[u]]
          /\ probed' = [u \in Threads |-> u \notin over /\ probed[u]]
    BY <1>4 DEF CallsOver
  <2>2. ASSUME NEW u \in Threads PROVE ThreadOK(u)'
    <3>1. ThreadOK(u)
      OBVIOUS
    <3>2. CASE u \in over
      BY <1>4, <2>1, <3>1, <3>2 DEF ThreadOK
    <3>3. CASE u \notin over
      <4>1. thread'[u] = thread[u] /\ call'[u] = call[u] /\ probed'[u] = probed[u]
        BY <2>1, <3>3
      <4>2. Sent(u)' = Sent(u)
        BY <1>4, <4>1 DEF Sent
      <4> QED
        BY <1>4, <3>1, <4>1, <4>2 DEF ThreadOK
    <3> QED
      BY <3>2, <3>3
  <2>3. \A u, v \in Threads : call'[u] = call'[v] /\ call'[u] # 0 => u = v
    BY <2>1
  <2>4. /\ thread' \in [Threads -> {"user", "enter", "execve"}] /\ call' \in [Threads -> Nat]
        /\ probed' \in [Threads -> BOOLEAN]
    BY <2>1
  <2> QED
    BY <1>4, <2>2, <2>3, <2>4
<1>5. ASSUME NEW t \in Threads, ExecveReturn(t) PROVE KernelInv'
  <2>1. disturbed' \subseteq disturbed \union {PID[t]}
    BY <1>5 DEF ExecveReturn, PerfSubmit
  <2>2. disturbed' \subseteq PIDs
    BY <2>1 DEF PIDs
  <2> QED
    BY <1>4, <1>5, <2>2 DEF ExecveReturn
<1>6. ASSUME NEW t \in Threads, ReturnUnseen(t) PROVE KernelInv'
  BY <1>4, <1>6 DEF ReturnUnseen
<1>7. ASSUME UNCHANGED kernelVars, disturbed' \subseteq PIDs PROVE KernelInv'
  <2>1. UNCHANGED <<attached, probed, thread, left, cpu, call, life, called>>
    BY <1>7 DEF kernelVars
  <2>2. \A t \in Threads : ThreadOK(t)'
    <3> SUFFICES ASSUME NEW t \in Threads PROVE ThreadOK(t)'
      OBVIOUS
    <3>1. ThreadOK(t) /\ Sent(t)' = Sent(t)
      BY <2>1 DEF Sent
    <3> QED
      BY <2>1, <3>1 DEF ThreadOK
  <2> QED
    BY <1>7, <2>1, <2>2
<1>8. CASE WatchArg \/ WatchReturn \/ UNCHANGED vars
  <2>1. disturbed' \subseteq disturbed
    BY <1>8 DEF WatchArg, WatchReturn, vars
  <2>2. disturbed' \subseteq PIDs
    BY <2>1
  <2> QED
    BY <1>7, <1>8, <2>2 DEF WatchArg, WatchReturn, vars
<1>9. ASSUME NEW p \in PIDs, Reuse(p) PROVE KernelInv'
  <2>1. /\ UNCHANGED <<attached, probed, thread, left, cpu, call, called, disturbed>>
        /\ life[p] < MaxLives /\ life' = [life EXCEPT ![p] = @ + 1]
    BY <1>9 DEF Reuse
  <2>2. life' \in [PIDs -> 0..MaxLives]
    BY <2>1, ExecTracerAssumption
  <2>3. ASSUME NEW t \in Threads PROVE ThreadOK(t)'
    <3>1. ThreadOK(t) /\ Sent(t)' = Sent(t)
      BY <2>1 DEF Sent
    <3> QED
      BY <2>1, <3>1 DEF ThreadOK
  <2> QED
    BY <2>1, <2>2, <2>3
<1> QED
  BY <1>1, <1>2, <1>3, <1>5, <1>6, <1>8, <1>9 DEF Next

-----------------------------------------------------------------------------
(* The records, and what is gathered of them, are of the calls they name.   *)

\* The history of the calls only grows.
Extends(new, old) == \A n \in DOMAIN old : n \in DOMAIN new /\ new[n] = old[n]

LEMMA HistoryGrows ==
  ASSUME KernelInv, [Next]_vars
  PROVE  Extends(called', called)
<1>1. ASSUME NEW t \in Threads, ExecveEnter(t) PROVE Extends(called', called)
  <2>1. PICK args \in ArgLists : called' = Append(called, [pid |-> PID[t], life |-> life[PID[t]], args |-> args])
    BY <1>1 DEF ExecveEnter
  <2> DEFINE new == [pid |-> PID[t], life |-> life[PID[t]], args |-> args]
  <2>2. called \in Seq(Calls) /\ new \in Calls
    <3>1. PID[t] \in PIDs /\ life \in [PIDs -> 0..MaxLives] /\ called \in Seq(Calls)
      BY DEF KernelInv, PIDs
    <3>2. life[PID[t]] \in 0..MaxLives
      BY <3>1
    <3> QED
      BY <3>1, <3>2 DEF Calls
  <2>3. called' = Append(called, new)
    BY <2>1
  <2> HIDE DEF new
  <2>4. /\ Len(called) \in Nat /\ DOMAIN called = 1..Len(called) /\ DOMAIN called' = 1..(Len(called) + 1)
        /\ \A n \in 1..Len(called) : called'[n] = called[n]
    BY <2>2, <2>3, AppendProperties
  <2> QED
    BY <2>4 DEF Extends
<1>2. ASSUME UNCHANGED called PROVE Extends(called', called)
  BY <1>2 DEF Extends
<1>3. CASE UNCHANGED vars
  BY <1>2, <1>3 DEF vars, kernelVars
<1>4. CASE Next
  BY <1>1, <1>2, <1>4
     DEF Next, Load, SubmitArg, ExecveReturn, ReturnUnseen, Reuse, WatchArg, WatchReturn, kernelVars
<1> QED
  BY <1>3, <1>4

LEMMA RecordStays ==
  ASSUME NEW r, NEW old, NEW new, Extends(new, old), RecordOK(r, old)
  PROVE  RecordOK(r, new)
BY DEF Extends, RecordOK

LEMMA GatheredStays ==
  ASSUME NEW a, NEW p, NEW old, NEW new, Extends(new, old), GatheredOK(a, p, old)
  PROVE  GatheredOK(a, p, new)
BY DEF Extends, GatheredOK

LEMMA ArgRecordOK ==
  ASSUME KernelInv, NEW t \in Threads, thread[t] = "enter"
  PROVE  RecordOK(ArgRecord(t), called)
<1> DEFINE sub == Submitted(called[call[t]].args)
<1>1. /\ call[t] \in 1..Len(called) /\ called[call[t]].pid = PID[t]
      /\ sub \in Seq(SubmittedArgs) /\ Len(sub) \in 1..(MAXARG + 1)
      /\ Sent(t) \in Nat /\ Sent(t) < Len(sub) /\ Head(left[t]) = sub[Sent(t) + 1]
  BY CallOf
<1>2. MAXARG \in Nat /\ MaxCalls \in Nat /\ called \in Seq(Calls) /\ Len(called) <= MaxCalls
  BY ExecTracerAssumption DEF KernelInv
<1>3. Sent(t) + 1 \in 1..Len(sub) /\ Sent(t) + 1 \in 1..(MAXARG + 2)
  <2> HIDE DEF sub
  <2> QED
    BY <1>1, <1>2
<1>4. sub[Sent(t) + 1] \in SubmittedArgs
  <2> HIDE DEF sub
  <2> QED
    BY <1>1, <1>3
<1>5. call[t] \in 1..MaxCalls /\ call[t] \in DOMAIN called
  BY <1>1, <1>2
<1>6. ArgRecord(t) = [type |-> "ARG", pid |-> PID[t], arg |-> sub[Sent(t) + 1], call |-> call[t],
                      at |-> Sent(t) + 1]
  BY <1>1 DEF ArgRecord
<1>7. ArgRecord(t) \in Records
  BY <1>3, <1>4, <1>5, <1>6 DEF Records, SubmittedArgs, PIDs
<1> QED
  BY <1>1, <1>3, <1>5, <1>6, <1>7 DEF RecordOK

LEMMA RetRecordOK ==
  ASSUME KernelInv, NEW t \in Threads, thread[t] = "execve"
  PROVE  RecordOK(RetRecord(t), called)
<1> DEFINE sub == Submitted(called[call[t]].args)
<1>1. /\ call[t] \in 1..Len(called) /\ called[call[t]].pid = PID[t]
      /\ Len(sub) \in 1..(MAXARG + 1) /\ Sent(t) = Len(sub)
  BY CallOf
<1>2. MAXARG \in Nat /\ MaxCalls \in Nat /\ called \in Seq(Calls) /\ Len(called) <= MaxCalls
  BY ExecTracerAssumption DEF KernelInv
<1>3. Sent(t) + 1 \in 1..(MAXARG + 2)
  BY <1>1, <1>2
<1>4. call[t] \in 1..MaxCalls /\ call[t] \in DOMAIN called
  BY <1>1, <1>2
<1>5. RetRecord(t) \in Records
  BY <1>3, <1>4 DEF RetRecord, Records, PIDs
<1> QED
  BY <1>1, <1>4, <1>5 DEF RecordOK, RetRecord

\* What a submission does to the buffers: the record joins the buffer of c, or it is lost.
Submits(c, r) ==
  \/ ring' = ring
  \/ ~ (Len(ring[c]) >= RingSize) /\ ring' = [ring EXCEPT ![c] = Append(@, r)]

LEMMA SubmitArgSubmits ==
  ASSUME KernelInv, NEW t \in Threads, SubmitArg(t)
  PROVE  /\ cpu[t] \in Cpus /\ thread[t] = "enter" /\ Submits(cpu[t], ArgRecord(t))
         /\ UNCHANGED <<reading, argv, event, called>>
         /\ RecordOK(ArgRecord(t), called)
<1>1. thread[t] = "enter" /\ cpu[t] \in Cpus
  BY DEF SubmitArg, KernelInv, ThreadOK
<1>2. Submits(cpu[t], ArgRecord(t))
  BY DEF SubmitArg, PerfSubmit, Submits
<1> QED
  BY <1>1, <1>2, ArgRecordOK DEF SubmitArg

LEMMA ReturnSubmits ==
  ASSUME KernelInv, NEW t \in Threads, ExecveReturn(t)
  PROVE  /\ thread[t] = "execve"
         /\ \E c \in Cpus : Submits(c, RetRecord(t))
         /\ UNCHANGED <<reading, argv, event, called>>
         /\ RecordOK(RetRecord(t), called)
<1>1. thread[t] = "execve"
  BY DEF ExecveReturn
<1>2. \E c \in Cpus : Submits(c, RetRecord(t))
  BY DEF ExecveReturn, PerfSubmit, Submits
<1> QED
  BY <1>1, <1>2, RetRecordOK DEF ExecveReturn

\* What WatchEvent does with the record at the head of c's buffer.
Takes(c) ==
  /\ ring[c] # << >> /\ reading' = c /\ ring' = [ring EXCEPT ![c] = Tail(@)]
  /\ UNCHANGED kernelVars
  /\ LET r == Head(ring[c]) IN
     \/ /\ r.type = "ARG" /\ event' = NoEvent /\ disturbed' = disturbed
        /\ \/ r.arg = Blank /\ argv' = argv
           \/ r.arg # Blank /\ argv' = [argv EXCEPT ![r.pid] = Append(@, Gathered(r))]
     \/ /\ r.type = "RET" /\ event' = EventOf(r)
        /\ argv' = [argv EXCEPT ![r.pid] = << >>]
        /\ disturbed' = disturbed \ (IF Quiet(r.pid, ring') THEN {r.pid} ELSE {})

LEMMA WatchTakes ==
  ASSUME WatchArg \/ WatchReturn
  PROVE  \E c \in Cpus : Takes(c)
<1>1. ASSUME WatchArg PROVE \E c \in Cpus : Takes(c)
  BY <1>1 DEF WatchArg, NextRecord, Takes
<1>2. ASSUME WatchReturn PROVE \E c \in Cpus : Takes(c)
  BY <1>2 DEF WatchReturn, NextRecord, Takes
<1> QED
  BY <1>1, <1>2

\* The other steps leave the buffers and WatchEvent alone.
Elsewhere == UNCHANGED <<ring, reading, argv>>

\* Every step submits a record, takes one, or does neither.
LEMMA EveryStep ==
  ASSUME [Next]_vars
  PROVE  \/ \E t \in Threads : SubmitArg(t)
         \/ \E t \in Threads : ExecveReturn(t)
         \/ \E c \in Cpus : Takes(c)
         \/ Elsewhere /\ event' = event /\ (UNCHANGED vars \/ Load \/ \E p \in PIDs : Reuse(p))
         \/ Elsewhere /\ event' = event /\ \E t \in Threads : ExecveEnter(t)
         \/ Elsewhere /\ event' = event /\ \E t \in Threads : ReturnUnseen(t)
<1>1. Load => Elsewhere /\ event' = event
  BY DEF Load, Elsewhere
<1>2. \A t \in Threads : ExecveEnter(t) => Elsewhere /\ event' = event
  BY DEF ExecveEnter, Elsewhere
<1>3. \A t \in Threads : ReturnUnseen(t) => Elsewhere /\ event' = event
  BY DEF ReturnUnseen, Elsewhere
<1>4. UNCHANGED vars => Elsewhere /\ event' = event
  BY DEF vars, Elsewhere
<1>5. \A p \in PIDs : Reuse(p) => Elsewhere /\ event' = event
  BY DEF Reuse, Elsewhere
<1> QED
  BY <1>1, <1>2, <1>3, <1>4, <1>5, WatchTakes DEF Next

\* The record at the head, and the rest of its buffer.
LEMMA HeadOf ==
  ASSUME TracerInv, NEW c \in Cpus, ring[c] # << >>, ring' = [ring EXCEPT ![c] = Tail(@)]
  PROVE  /\ 1 \in DOMAIN ring[c] /\ Head(ring[c]) = ring[c][1]
         /\ RecordOK(ring[c][1], called) /\ ring[c][1] \in Records
         /\ Len(ring[c]) \in Nat \ {0} /\ Len(ring'[c]) = Len(ring[c]) - 1
         /\ ring'[c] \in Seq(Records)
         /\ \A i \in DOMAIN ring'[c] : i + 1 \in DOMAIN ring[c] /\ ring'[c][i] = ring[c][i + 1]
         /\ \A d \in Cpus \ {c} : ring'[d] = ring[d]
<1>1. ring[c] \in Seq(Records) /\ ring'[c] = Tail(ring[c])
  BY DEF TracerInv
<1>2. /\ Tail(ring[c]) \in Seq(Records) /\ Len(Tail(ring[c])) = Len(ring[c]) - 1
      /\ \A i \in 1..Len(Tail(ring[c])) : Tail(ring[c])[i] = ring[c][i + 1]
  BY <1>1, HeadTailProperties
<1>3. 1 \in DOMAIN ring[c] /\ Head(ring[c]) = ring[c][1] /\ Len(ring[c]) \in Nat \ {0}
  BY <1>1
<1>4. ASSUME NEW i \in DOMAIN ring'[c]
      PROVE  i + 1 \in DOMAIN ring[c] /\ ring'[c][i] = ring[c][i + 1]
  <2> DEFINE rest == Tail(ring[c])
  <2>0. rest \in Seq(Records) /\ Len(rest) = Len(ring[c]) - 1 /\ i \in DOMAIN rest
    BY <1>1, <1>2, <1>4
  <2>1. i \in 1..(Len(ring[c]) - 1) /\ i \in 1..Len(Tail(ring[c]))
    <3>1. i \in 1..Len(rest)
      <4> HIDE DEF rest
      <4> QED
        BY <2>0
    <3> QED
      BY <2>0, <3>1
  <2>2. i + 1 \in 1..Len(ring[c])
    BY <1>3, <2>1
  <2>3. ring'[c][i] = ring[c][i + 1]
    BY <1>1, <1>2, <2>1
  <2>4. i + 1 \in DOMAIN ring[c]
    BY <1>1, <2>2
  <2> QED
    BY <2>3, <2>4
<1>5. \A d \in Cpus \ {c} : ring'[d] = ring[d]
  BY DEF TracerInv
<1> QED
  BY <1>1, <1>2, <1>3, <1>4, <1>5 DEF TracerInv

\* The buffer that a record joins.
LEMMA JoinOf ==
  ASSUME TracerInv, NEW c \in Cpus, NEW r \in Records, ring' = [ring EXCEPT ![c] = Append(@, r)]
  PROVE  /\ ring'[c] \in Seq(Records)
         /\ Len(ring[c]) \in Nat /\ Len(ring'[c]) = Len(ring[c]) + 1
         /\ \A i \in DOMAIN ring'[c] :
              \/ i \in DOMAIN ring[c] /\ ring'[c][i] = ring[c][i]
              \/ i = Len(ring[c]) + 1 /\ ring'[c][i] = r
         /\ \A d \in Cpus \ {c} : ring'[d] = ring[d]
<1>1. ring[c] \in Seq(Records) /\ ring'[c] = Append(ring[c], r)
  BY DEF TracerInv
<1>2. /\ Append(ring[c], r) \in Seq(Records) /\ Len(Append(ring[c], r)) = Len(ring[c]) + 1
      /\ \A i \in 1..Len(ring[c]) : Append(ring[c], r)[i] = ring[c][i]
      /\ Append(ring[c], r)[Len(ring[c]) + 1] = r
  BY <1>1, AppendProperties
<1>3. Len(ring[c]) \in Nat
  BY <1>1
<1>4. ASSUME NEW i \in DOMAIN ring'[c]
      PROVE  \/ i \in DOMAIN ring[c] /\ ring'[c][i] = ring[c][i]
             \/ i = Len(ring[c]) + 1 /\ ring'[c][i] = r
  <2>1. i \in 1..(Len(ring[c]) + 1)
    BY <1>1, <1>2, <1>3
  <2>2. i \in 1..Len(ring[c]) \/ i = Len(ring[c]) + 1
    BY <1>3, <2>1
  <2> QED
    BY <1>1, <1>2, <2>2
<1>5. \A d \in Cpus \ {c} : ring'[d] = ring[d]
  BY DEF TracerInv
<1> QED
  BY <1>1, <1>2, <1>3, <1>4, <1>5

LEMMA TracerKept ==
  ASSUME KernelInv, TracerInv, [Next]_vars
  PROVE  TracerInv'
<1>1. Extends(called', called)
  BY HistoryGrows
<1>2. \A c \in Cpus : \A i \in DOMAIN ring[c] : RecordOK(ring[c][i], called')
  BY <1>1, RecordStays DEF TracerInv
<1>3. \A p \in PIDs : \A i \in DOMAIN argv[p] : GatheredOK(argv[p][i], p, called')
  BY <1>1, GatheredStays DEF TracerInv
<1>4. ASSUME Elsewhere PROVE TracerInv'
  BY <1>2, <1>3, <1>4 DEF Elsewhere, TracerInv
<1>5. ASSUME NEW c \in Cpus, NEW r, RecordOK(r, called), Submits(c, r), UNCHANGED <<reading, argv,
             called>>
      PROVE  TracerInv'
  <2>1. CASE ring' = ring
    BY <1>4, <1>5, <2>1 DEF Elsewhere
  <2>2. CASE ring' # ring
    <3>1. ~ (Len(ring[c]) >= RingSize) /\ ring' = [ring EXCEPT ![c] = Append(@, r)]
      BY <1>5, <2>2 DEF Submits
    <3>2. r \in Records
      BY <1>5 DEF RecordOK
    <3>3. /\ ring'[c] \in Seq(Records) /\ Len(ring[c]) \in Nat /\ Len(ring'[c]) = Len(ring[c]) + 1
          /\ \A i \in DOMAIN ring'[c] :
               \/ i \in DOMAIN ring[c] /\ ring'[c][i] = ring[c][i]
               \/ i = Len(ring[c]) + 1 /\ ring'[c][i] = r
          /\ \A d \in Cpus \ {c} : ring'[d] = ring[d]
      BY <3>1, <3>2, JoinOf
    <3>4. RingSize \in Nat
      BY ExecTracerAssumption
    <3>5. Len(ring'[c]) <= RingSize
      BY <3>1, <3>3, <3>4
    <3>6. ring' \in [Cpus -> Seq(Records)]
      BY <3>1, <3>3 DEF TracerInv
    <3>7. \A d \in Cpus : Len(ring'[d]) <= RingSize
      BY <3>3, <3>5 DEF TracerInv
    <3>8. \A d \in Cpus : \A i \in DOMAIN ring'[d] : RecordOK(ring'[d][i], called')
      BY <1>2, <1>5, <3>3
    <3> QED
      BY <1>3, <1>5, <3>6, <3>7, <3>8 DEF TracerInv
  <2> QED
    BY <2>1, <2>2
<1>6. ASSUME NEW c \in Cpus, Takes(c) PROVE TracerInv'
  <2>1. /\ ring[c] # << >> /\ ring' = [ring EXCEPT ![c] = Tail(@)] /\ reading' = c /\ called' = called
    BY <1>6 DEF Takes, kernelVars
  <2>2. /\ 1 \in DOMAIN ring[c] /\ Head(ring[c]) = ring[c][1]
        /\ RecordOK(ring[c][1], called) /\ ring[c][1] \in Records
        /\ Len(ring[c]) \in Nat \ {0} /\ Len(ring'[c]) = Len(ring[c]) - 1
        /\ ring'[c] \in Seq(Records)
        /\ \A i \in DOMAIN ring'[c] : i + 1 \in DOMAIN ring[c] /\ ring'[c][i] = ring[c][i + 1]
        /\ \A d \in Cpus \ {c} : ring'[d] = ring[d]
    BY <2>1, HeadOf
  <2>3. ring' \in [Cpus -> Seq(Records)]
    BY <2>1, <2>2 DEF TracerInv
  <2>4. \A d \in Cpus : Len(ring'[d]) <= RingSize
    <3>1. RingSize \in Nat /\ Len(ring[c]) <= RingSize
      BY ExecTracerAssumption DEF TracerInv
    <3>2. Len(ring'[c]) <= RingSize
      BY <2>2, <3>1
    <3> QED
      BY <2>2, <3>2 DEF TracerInv
  <2>5. \A d \in Cpus : \A i \in DOMAIN ring'[d] : RecordOK(ring'[d][i], called')
    BY <1>2, <2>2
  <2>6. argv' \in [PIDs -> Seq(Gatherings)] /\ \A p \in PIDs : \A i \in DOMAIN argv'[p] : GatheredOK(argv'[p][i], p, called')
    <3> DEFINE r == ring[c][1]
    <3>1. CASE argv' = argv
      BY <1>3, <3>1 DEF TracerInv
    <3>2. CASE argv' = [argv EXCEPT ![r.pid] = << >>]
      <4>1. \A p \in PIDs : argv'[p] = argv[p] \/ argv'[p] = << >>
        BY <3>2 DEF TracerInv
      <4>2. argv' \in [PIDs -> Seq(Gatherings)]
        <5>1. << >> \in Seq(Gatherings) /\ argv \in [PIDs -> Seq(Gatherings)]
          BY DEF TracerInv
        <5> HIDE DEF r
        <5> QED
          BY <3>2, <5>1
      <4>3. ASSUME NEW p \in PIDs, NEW i \in DOMAIN argv'[p]
            PROVE  GatheredOK(argv'[p][i], p, called')
        <5>1. argv'[p] = argv[p]
          BY <4>1, <4>3
        <5> QED
          BY <1>3, <4>3, <5>1
      <4> QED
        BY <4>2, <4>3
    <3>3. CASE r.type = "ARG" /\ r.arg # Blank /\ argv' = [argv EXCEPT ![r.pid] = Append(@, Gathered(r))]
      <4>1. /\ r.pid \in PIDs /\ r.call \in DOMAIN called /\ r.call \in 1..MaxCalls
            /\ called[r.call].pid = r.pid
            /\ r.at \in 1..Len(Submitted(called[r.call].args))
            /\ r.arg = Submitted(called[r.call].args)[r.at]
        BY <2>2, <3>3 DEF RecordOK, Records
      <4>2. GatheredOK(Gathered(r), r.pid, called')
        BY <2>1, <3>3, <4>1 DEF GatheredOK, Gathered
      <4>3. called[r.call].args \in ArgLists
        <5>1. called \in Seq(Calls)
          BY DEF KernelInv
        <5>2. called[r.call] \in Calls
          BY <4>1, <5>1
        <5> QED
          BY <5>2 DEF Calls
      <4>4. /\ Submitted(called[r.call].args) \in Seq(SubmittedArgs)
            /\ Len(Submitted(called[r.call].args)) \in 1..(MAXARG + 1)
        BY <4>3, SubmittedOK
      <4>5. r.at \in 1..(MAXARG + 1) /\ r.arg \in SubmittedArgs
        BY <4>1, <4>4, ExecTracerAssumption
      <4>6. Gathered(r) \in Gatherings
        BY <4>1, <4>5 DEF Gathered, Gatherings
      <4>7. argv[r.pid] \in Seq(Gatherings) /\ argv'[r.pid] = Append(argv[r.pid], Gathered(r))
        BY <3>3, <4>1 DEF TracerInv
      <4> DEFINE a == Gathered(r)
      <4>8. /\ Append(argv[r.pid], a) \in Seq(Gatherings)
            /\ Len(Append(argv[r.pid], a)) = Len(argv[r.pid]) + 1 /\ Len(argv[r.pid]) \in Nat
            /\ \A i \in 1..Len(argv[r.pid]) : Append(argv[r.pid], a)[i] = argv[r.pid][i]
            /\ Append(argv[r.pid], a)[Len(argv[r.pid]) + 1] = a
        <5> HIDE DEF a, r
        <5> QED
          BY <4>6, <4>7, AppendProperties DEF a
      <4>9. ASSUME NEW p \in PIDs, NEW i \in DOMAIN argv'[p]
            PROVE  GatheredOK(argv'[p][i], p, called')
        <5>1. CASE p # r.pid
          <6>0. argv \in [PIDs -> Seq(Gatherings)]
            BY DEF TracerInv
          <6> HIDE DEF a, r
          <6>1. argv'[p] = argv[p]
            BY <3>3, <5>1, <6>0
          <6> QED
            BY <1>3, <4>9, <6>1
        <5>2. CASE p = r.pid
          <6> HIDE DEF a, r
          <6>0. argv'[r.pid] = Append(argv[r.pid], a)
            BY <4>7 DEF a
          <6>1. i \in 1..(Len(argv[p]) + 1)
            BY <4>8, <4>9, <5>2, <6>0, LenProperties
          <6>2. i \in 1..Len(argv[p]) \/ i = Len(argv[p]) + 1
            BY <4>8, <5>2, <6>1
          <6>3. CASE i \in 1..Len(argv[p])
            BY <1>3, <4>7, <4>8, <5>2, <6>3 DEF a
          <6>4. CASE i = Len(argv[p]) + 1
            BY <4>2, <4>7, <4>8, <5>2, <6>4 DEF a
          <6> QED
            BY <6>2, <6>3, <6>4
        <5> QED
          BY <5>1, <5>2
      <4>10. argv' \in [PIDs -> Seq(Gatherings)]
        <5> HIDE DEF a, r
        <5> QED
          BY <3>3, <4>7, <4>8 DEF TracerInv, a
      <4> QED
        BY <4>9, <4>10
    <3> QED
      BY <1>6, <2>2, <3>1, <3>2, <3>3 DEF Takes
  <2> QED
    BY <2>1, <2>3, <2>4, <2>5, <2>6 DEF TracerInv
<1>7. ASSUME NEW t \in Threads, SubmitArg(t) PROVE TracerInv'
  BY <1>5, <1>7, SubmitArgSubmits
<1>8. ASSUME NEW t \in Threads, ExecveReturn(t) PROVE TracerInv'
  BY <1>5, <1>8, ReturnSubmits
<1> QED
  BY <1>4, <1>6, <1>7, <1>8, EveryStep

-----------------------------------------------------------------------------
(* The records of a call are in one buffer and in order, those gathered come *)
(* before those that wait, and both before the arguments still to be sent.   *)

IsArgOf(r, n) == r.type = "ARG" /\ r.call = n

BufferOrder ==
  \A c \in Cpus : \A i, j \in DOMAIN ring[c] :
    i < j /\ ring[c][i].type = "ARG" /\ IsArgOf(ring[c][j], ring[c][i].call)
      => ring[c][i].at < ring[c][j].at

OneBuffer ==
  \A c, d \in Cpus : \A i \in DOMAIN ring[c], j \in DOMAIN ring[d] :
    ring[c][i].type = "ARG" /\ IsArgOf(ring[d][j], ring[c][i].call) => c = d

BuffersBehindThreads ==
  \A t \in Threads, c \in Cpus : \A i \in DOMAIN ring[c] :
    thread[t] = "enter" /\ IsArgOf(ring[c][i], call[t]) => c = cpu[t] /\ ring[c][i].at <= Sent(t)

GatheredOrder == \A p \in PIDs : Rising(argv[p])

GatheredBehindBuffers ==
  \A p \in PIDs, c \in Cpus : \A i \in DOMAIN argv[p], j \in DOMAIN ring[c] :
    IsArgOf(ring[c][j], argv[p][i].call) => argv[p][i].at < ring[c][j].at

GatheredBehindThreads ==
  \A t \in Threads, p \in PIDs : \A i \in DOMAIN argv[p] :
    thread[t] = "enter" /\ argv[p][i].call = call[t] => argv[p][i].at <= Sent(t)

OrderInv ==
  /\ BufferOrder /\ OneBuffer /\ BuffersBehindThreads
  /\ GatheredOrder /\ GatheredBehindBuffers /\ GatheredBehindThreads

\* A thread that is submitting goes on with its call, or begins a new one.
GoesOn(t) ==
  thread'[t] = "enter" =>
    \/ /\ thread[t] = "enter" /\ call'[t] = call[t] /\ cpu'[t] = cpu[t]
       /\ Sent(t) \in Nat /\ Sent(t)' \in Nat /\ Sent(t) <= Sent(t)'
    \/ call'[t] = Len(called) + 1

LEMMA SentBySubmit ==
  ASSUME KernelInv, NEW t \in Threads, SubmitArg(t)
  PROVE  Sent(t) \in Nat /\ Sent(t)' = Sent(t) + 1
<1>1. thread[t] = "enter" /\ left' = [left EXCEPT ![t] = Tail(@)] /\ UNCHANGED <<call, called>>
  BY DEF SubmitArg
<1>2. /\ Sent(t) \in Nat /\ Len(left[t]) \in Nat /\ Len(left[t]) > 0
      /\ Len(Submitted(called[call[t]].args)) \in 1..(MAXARG + 1)
  BY <1>1, CallOf
<1>3. left[t] \in Seq(SubmittedArgs) /\ left'[t] = Tail(left[t]) /\ left[t] # << >>
  BY <1>1 DEF KernelInv, ThreadOK
<1>4. Len(left'[t]) = Len(left[t]) - 1
  BY <1>3, HeadTailProperties
<1>5. Sent(t)' = Len(Submitted(called[call[t]].args)) - Len(left'[t])
  BY <1>1 DEF Sent
<1>6. Sent(t) = Len(Submitted(called[call[t]].args)) - Len(left[t])
  BY DEF Sent
<1>7. Len(Submitted(called[call[t]].args)) \in Int
  BY <1>2, ExecTracerAssumption
<1> QED
  BY <1>2, <1>4, <1>5, <1>6, <1>7

\* What a step that does not submit an argument leaves of a thread that submits them.
LEMMA SameSent ==
  ASSUME KernelInv, [Next]_vars, NEW t \in Threads, thread[t] = "enter",
         left'[t] = left[t], call'[t] = call[t]
  PROVE  Sent(t)' = Sent(t) /\ Sent(t) \in Nat
<1>1. call[t] \in 1..Len(called) /\ Sent(t) \in Nat
  BY CallOf
<1>2. called \in Seq(Calls)
  BY DEF KernelInv
<1>3. called'[call[t]] = called[call[t]]
  BY <1>1, <1>2, HistoryGrows DEF Extends
<1> QED
  BY <1>1, <1>3 DEF Sent

LEMMA ThreadsGoOn ==
  ASSUME KernelInv, [Next]_vars, NEW u \in Threads
  PROVE  GoesOn(u)
<1>1. ASSUME UNCHANGED <<thread, left, cpu, call>> PROVE GoesOn(u)
  BY <1>1, SameSent DEF GoesOn
<1>2. ASSUME NEW t \in Threads, ExecveEnter(t) PROVE GoesOn(u)
  <2>1. call' = [call EXCEPT ![t] = Len(called) + 1] /\ call \in [Threads -> Nat]
    BY <1>2 DEF ExecveEnter, KernelInv
  <2>2. CASE u = t
    <3>1. call'[u] = Len(called) + 1
      BY <2>1, <2>2
    <3> QED
      BY <3>1 DEF GoesOn
  <2>3. CASE u # t
    <3>1. thread'[u] = thread[u] /\ left'[u] = left[u] /\ cpu'[u] = cpu[u] /\ call'[u] = call[u]
      BY <1>2, <2>1, <2>3 DEF ExecveEnter, KernelInv
    <3>2. ASSUME thread[u] = "enter" PROVE Sent(u)' = Sent(u) /\ Sent(u) \in Nat
      BY <3>1, <3>2, SameSent
    <3>3. thread[u] = "enter" => Sent(u) \in Nat /\ Sent(u)' \in Nat /\ Sent(u) <= Sent(u)'
      BY <3>2
    <3> QED
      BY <3>1, <3>3 DEF GoesOn
  <2> QED
    BY <2>2, <2>3
<1>3. ASSUME NEW t \in Threads, SubmitArg(t) PROVE GoesOn(u)
  <2>1. CASE u = t
    <3>1. Sent(t) \in Nat /\ Sent(t)' = Sent(t) + 1
      BY <1>3, SentBySubmit
    <3>2. ASSUME thread'[t] = "enter" PROVE thread[t] = "enter" /\ call' = call /\ cpu' = cpu
      BY <1>3, <3>2 DEF SubmitArg, KernelInv
    <3>3. Sent(t) <= Sent(t)' /\ Sent(t)' \in Nat
      BY <3>1
    <3>4. GoesOn(t)
      BY <3>1, <3>2, <3>3 DEF GoesOn
    <3> QED
      BY <2>1, <3>4
  <2>2. CASE u # t
    <3>1. thread'[u] = thread[u] /\ left'[u] = left[u] /\ cpu'[u] = cpu[u] /\ call'[u] = call[u]
      BY <1>3, <2>2 DEF SubmitArg, KernelInv
    <3>2. ASSUME thread[u] = "enter" PROVE Sent(u)' = Sent(u) /\ Sent(u) \in Nat
      BY <3>1, <3>2, SameSent
    <3>3. thread[u] = "enter" => Sent(u) \in Nat /\ Sent(u)' \in Nat /\ Sent(u) <= Sent(u)'
      BY <3>2
    <3> QED
      BY <3>1, <3>3 DEF GoesOn
  <2> QED
    BY <2>1, <2>2
<1>4. ASSUME NEW t \in Threads, CallsOver(t), UNCHANGED <<left, cpu>> PROVE GoesOn(u)
  <2>1. PICK over \in {{t}, {v \in Threads : PID[v] = PID[t]}} :
          /\ thread' = [v \in Threads |-> IF v \in over THEN "user" ELSE thread[v]]
          /\ call' = [v \in Threads |-> IF v \in over THEN 0 ELSE call[v]]
    BY <1>4 DEF CallsOver
  <2>2. ASSUME thread'[u] = "enter" PROVE thread[u] = "enter" /\ call'[u] = call[u]
    BY <2>1, <2>2
  <2> QED
    BY <1>4, <2>2, SameSent DEF GoesOn
<1>5. ASSUME NEW t \in Threads, ExecveReturn(t) PROVE GoesOn(u)
  BY <1>4, <1>5 DEF ExecveReturn
<1>6. ASSUME NEW t \in Threads, ReturnUnseen(t) PROVE GoesOn(u)
  BY <1>4, <1>6 DEF ReturnUnseen
<1>7. CASE UNCHANGED vars \/ Load \/ \E p \in PIDs : Reuse(p)
  BY <1>1, <1>7 DEF vars, kernelVars, Load, Reuse
<1>8. ASSUME NEW c \in Cpus, Takes(c) PROVE GoesOn(u)
  BY <1>1, <1>8 DEF Takes, kernelVars
<1> QED
  BY <1>2, <1>3, <1>5, <1>6, <1>7, <1>8, EveryStep

\* No buffer has anything new, or anything in another place.
Shrinks ==
  \A c \in Cpus : \E e \in {0, 1} : \A i \in DOMAIN ring'[c] :
    i \in Nat /\ i + e \in DOMAIN ring[c] /\ ring'[c][i] = ring[c][i + e]

\* What the buffers hold stays in order when they shrink.
LEMMA ShrinkKeepsOrder ==
  ASSUME KernelInv, TracerInv, OrderInv, [Next]_vars, Shrinks
  PROVE  BufferOrder' /\ OneBuffer' /\ BuffersBehindThreads'
<1>1. ASSUME NEW c \in Cpus, NEW i \in DOMAIN ring'[c], NEW j \in DOMAIN ring'[c],
             i < j, ring'[c][i].type = "ARG", IsArgOf(ring'[c][j], ring'[c][i].call)
      PROVE  ring'[c][i].at < ring'[c][j].at
  <2>1. PICK e \in {0, 1} : \A k \in DOMAIN ring'[c] :
          k \in Nat /\ k + e \in DOMAIN ring[c] /\ ring'[c][k] = ring[c][k + e]
    BY DEF Shrinks
  <2>2. i + e < j + e
    BY <1>1, <2>1
  <2> QED
    BY <1>1, <2>1, <2>2 DEF OrderInv, BufferOrder
<1>2. \A c \in Cpus : \A i \in DOMAIN ring'[c] : \E k \in DOMAIN ring[c] : ring'[c][i] = ring[c][k]
  BY DEF Shrinks
<1>3. OneBuffer'
  BY <1>2 DEF OrderInv, OneBuffer
<1>4. ASSUME NEW t \in Threads, NEW c \in Cpus, NEW i \in DOMAIN ring'[c],
             thread'[t] = "enter", IsArgOf(ring'[c][i], call'[t])
      PROVE  c = cpu'[t] /\ ring'[c][i].at <= Sent(t)'
  <2>1. PICK k \in DOMAIN ring[c] : ring'[c][i] = ring[c][k]
    BY <1>2
  <2>2. ring[c][k].call \in 1..Len(called) /\ Len(called) \in Nat
    BY DEF TracerInv, RecordOK, KernelInv
  <2>3. call'[t] # Len(called) + 1
    BY <1>4, <2>1, <2>2 DEF IsArgOf
  <2>4. /\ thread[t] = "enter" /\ call'[t] = call[t] /\ cpu'[t] = cpu[t]
        /\ Sent(t) \in Nat /\ Sent(t)' \in Nat /\ Sent(t) <= Sent(t)'
    BY <1>4, <2>3, ThreadsGoOn DEF GoesOn
  <2>5. c = cpu[t] /\ ring[c][k].at <= Sent(t)
    BY <1>4, <2>1, <2>4 DEF OrderInv, BuffersBehindThreads
  <2>6. ring[c][k].at \in Nat
    BY DEF TracerInv, RecordOK, Records
  <2> QED
    BY <2>1, <2>4, <2>5, <2>6
<1> QED
  BY <1>1, <1>3, <1>4 DEF BufferOrder, BuffersBehindThreads

\* What has been gathered stays behind the threads.
LEMMA GatheredStaysBehind ==
  ASSUME KernelInv, TracerInv, OrderInv, [Next]_vars,
         NEW t \in Threads, NEW p \in PIDs, NEW i \in DOMAIN argv[p],
         thread'[t] = "enter", argv[p][i].call = call'[t]
  PROVE  argv[p][i].at <= Sent(t)'
<1>1. argv[p][i].call \in 1..Len(called) /\ Len(called) \in Nat /\ argv[p][i].at \in Nat
  BY DEF TracerInv, GatheredOK, KernelInv
<1>2. call'[t] # Len(called) + 1
  BY <1>1
<1>3. /\ thread[t] = "enter" /\ call'[t] = call[t]
      /\ Sent(t) \in Nat /\ Sent(t)' \in Nat /\ Sent(t) <= Sent(t)'
  BY <1>2, ThreadsGoOn DEF GoesOn
<1>4. argv[p][i].at <= Sent(t)
  BY <1>3 DEF OrderInv, GatheredBehindThreads
<1> QED
  BY <1>1, <1>3, <1>4

LEMMA StillShrinks ==
  ASSUME TracerInv, ring' = ring
  PROVE  Shrinks
<1>1. ASSUME NEW c \in Cpus, NEW i \in DOMAIN ring[c]
      PROVE  i \in Nat /\ i + 0 \in DOMAIN ring[c] /\ ring[c][i] = ring[c][i + 0]
  <2>1. i \in Nat
    BY DEF TracerInv
  <2>2. i + 0 = i
    BY <2>1
  <2> QED
    BY <2>1, <2>2
<1> QED
  BY <1>1 DEF Shrinks

LEMMA TakingShrinks ==
  ASSUME TracerInv, NEW c \in Cpus, Takes(c)
  PROVE  Shrinks
<1>1. ring[c] # << >> /\ ring' = [ring EXCEPT ![c] = Tail(@)]
  BY DEF Takes
<1>2. /\ ring'[c] \in Seq(Records)
      /\ \A i \in DOMAIN ring'[c] : i + 1 \in DOMAIN ring[c] /\ ring'[c][i] = ring[c][i + 1]
      /\ \A d \in Cpus \ {c} : ring'[d] = ring[d]
  BY <1>1, HeadOf
<1>3. \A i \in DOMAIN ring'[c] : i \in Nat
  BY <1>2
<1>4. ASSUME NEW d \in Cpus \ {c}, NEW i \in DOMAIN ring[d]
      PROVE  i \in Nat /\ i + 0 \in DOMAIN ring[d] /\ ring[d][i] = ring[d][i + 0]
  <2>1. i \in Nat
    BY DEF TracerInv
  <2>2. i + 0 = i
    BY <2>1
  <2> QED
    BY <2>1, <2>2
<1> QED
  BY <1>2, <1>3, <1>4 DEF Shrinks

LEMMA OrderKept ==
  ASSUME KernelInv, TracerInv, OrderInv, [Next]_vars
  PROVE  OrderInv'
<1>1. ASSUME Shrinks, argv' = argv PROVE OrderInv'
  <2>1. BufferOrder' /\ OneBuffer' /\ BuffersBehindThreads'
    BY <1>1, ShrinkKeepsOrder
  <2>2. GatheredOrder'
    BY <1>1 DEF OrderInv, GatheredOrder
  <2>3. \A c \in Cpus : \A i \in DOMAIN ring'[c] : \E k \in DOMAIN ring[c] : ring'[c][i] = ring[c][k]
    BY <1>1 DEF Shrinks
  <2>4. GatheredBehindBuffers'
    BY <1>1, <2>3 DEF OrderInv, GatheredBehindBuffers
  <2>5. GatheredBehindThreads'
    BY <1>1, GatheredStaysBehind DEF GatheredBehindThreads
  <2> QED
    BY <2>1, <2>2, <2>4, <2>5 DEF OrderInv
<1>2. ASSUME Elsewhere PROVE OrderInv'
  BY <1>1, <1>2, StillShrinks DEF Elsewhere
<1>3. ASSUME NEW c \in Cpus, NEW r \in Records, ring' = [ring EXCEPT ![c] = Append(@, r)],
             argv' = argv,
             \/ r.type = "RET"
             \/ \E t \in Threads : SubmitArg(t) /\ c = cpu[t] /\ r = ArgRecord(t)
      PROVE  OrderInv'
  <2>1. /\ Len(ring[c]) \in Nat
        /\ \A i \in DOMAIN ring'[c] :
             \/ i \in DOMAIN ring[c] /\ ring'[c][i] = ring[c][i]
             \/ i = Len(ring[c]) + 1 /\ ring'[c][i] = r
        /\ \A d \in Cpus \ {c} : ring'[d] = ring[d]
    BY <1>3, JoinOf
  <2>2. \A d \in Cpus : \A i \in DOMAIN ring'[d] :
          \/ i \in DOMAIN ring[d] /\ ring'[d][i] = ring[d][i]
          \/ d = c /\ i = Len(ring[c]) + 1 /\ ring'[d][i] = r
    BY <2>1
  <2>3. \A i \in DOMAIN ring[c] : i \in Nat /\ i < Len(ring[c]) + 1
    BY DEF TracerInv
  \* What a record that is an argument finds.
  <2>4. ASSUME r.type = "ARG"
        PROVE  \E t \in Threads :
                 /\ thread[t] = "enter" /\ r.call = call[t] /\ c = cpu[t]
                 /\ Sent(t) \in Nat /\ r.at = Sent(t) + 1 /\ Sent(t)' = Sent(t) + 1
                 /\ thread'[t] = "enter" => cpu'[t] = cpu[t]
                 /\ UNCHANGED <<call, called>>
    <3>1. PICK t \in Threads : SubmitArg(t) /\ c = cpu[t] /\ r = ArgRecord(t)
      BY <1>3, <2>4
    <3>2. Sent(t) \in Nat /\ Sent(t)' = Sent(t) + 1
      BY <3>1, SentBySubmit
    <3>3. thread[t] = "enter" /\ UNCHANGED <<call, called>>
      BY <3>1 DEF SubmitArg
    <3>4. thread'[t] = "enter" => cpu'[t] = cpu[t]
      BY <3>1 DEF SubmitArg, KernelInv
    <3>5. r.call = call[t] /\ r.at = Sent(t) + 1
      BY <3>1 DEF ArgRecord
    <3> QED
      BY <3>1, <3>2, <3>3, <3>4, <3>5
  <2>5. ASSUME r.type = "ARG", NEW d \in Cpus, NEW i \in DOMAIN ring[d], IsArgOf(ring[d][i], r.call)
        PROVE  d = c /\ ring[d][i].at < r.at
    <3>1. PICK t \in Threads :
            thread[t] = "enter" /\ r.call = call[t] /\ c = cpu[t] /\ Sent(t) \in Nat /\ r.at = Sent(t) + 1
      BY <2>4, <2>5
    <3>2. d = cpu[t] /\ ring[d][i].at <= Sent(t)
      BY <2>5, <3>1 DEF OrderInv, BuffersBehindThreads
    <3>3. ring[d][i].at \in Nat
      BY DEF TracerInv, RecordOK, Records
    <3> QED
      BY <3>1, <3>2, <3>3
  <2>6. BufferOrder'
    <3> SUFFICES ASSUME NEW d \in Cpus, NEW i \in DOMAIN ring'[d], NEW j \in DOMAIN ring'[d],
                        i < j, ring'[d][i].type = "ARG", IsArgOf(ring'[d][j], ring'[d][i].call)
                 PROVE  ring'[d][i].at < ring'[d][j].at
      BY DEF BufferOrder
    <3>1. CASE i \in DOMAIN ring[d] /\ ring'[d][i] = ring[d][i] /\ j \in DOMAIN ring[d] /\ ring'[d][j] = ring[d][j]
      BY <3>1 DEF OrderInv, BufferOrder
    <3>2. CASE i \in DOMAIN ring[d] /\ ring'[d][i] = ring[d][i] /\ ring'[d][j] = r
      BY <2>5, <3>2 DEF IsArgOf
    <3>3. CASE d = c /\ i = Len(ring[c]) + 1
      <4>1. j \in DOMAIN ring[c] \/ j = Len(ring[c]) + 1
        BY <2>1, <3>3
      <4> QED
        BY <2>1, <2>3, <3>3, <4>1
    <3> QED
      BY <2>2, <3>1, <3>2, <3>3
  <2>7. OneBuffer'
    <3> SUFFICES ASSUME NEW d \in Cpus, NEW e \in Cpus, NEW i \in DOMAIN ring'[d],
                        NEW j \in DOMAIN ring'[e],
                        ring'[d][i].type = "ARG", IsArgOf(ring'[e][j], ring'[d][i].call)
                 PROVE  d = e
      BY DEF OneBuffer
    <3>1. CASE i \in DOMAIN ring[d] /\ ring'[d][i] = ring[d][i] /\ j \in DOMAIN ring[e] /\ ring'[e][j] = ring[e][j]
      BY <3>1 DEF OrderInv, OneBuffer
    <3>2. CASE i \in DOMAIN ring[d] /\ ring'[d][i] = ring[d][i] /\ e = c /\ ring'[e][j] = r
      BY <2>5, <3>2 DEF IsArgOf
    <3>3. CASE d = c /\ ring'[d][i] = r /\ j \in DOMAIN ring[e] /\ ring'[e][j] = ring[e][j]
      BY <2>5, <3>3 DEF IsArgOf
    <3> QED
      BY <2>2, <3>1, <3>2, <3>3
  <2>8. BuffersBehindThreads'
    <3> SUFFICES ASSUME NEW t \in Threads, NEW d \in Cpus, NEW i \in DOMAIN ring'[d],
                        thread'[t] = "enter", IsArgOf(ring'[d][i], call'[t])
                 PROVE  d = cpu'[t] /\ ring'[d][i].at <= Sent(t)'
      BY DEF BuffersBehindThreads
    <3>1. CASE i \in DOMAIN ring[d] /\ ring'[d][i] = ring[d][i]
      <4>1. ring[d][i].call \in 1..Len(called) /\ Len(called) \in Nat /\ ring[d][i].at \in Nat
        <5>1. RecordOK(ring[d][i], called)
          BY <3>1 DEF TracerInv
        <5>2. ring[d][i] \in Records /\ ring[d][i].call \in DOMAIN called
          BY <5>1 DEF RecordOK
        <5>3. Len(called) \in Nat /\ DOMAIN called = 1..Len(called)
          BY LenProperties DEF KernelInv
        <5> QED
          BY <5>2, <5>3 DEF Records
      <4>2. call'[t] # Len(called) + 1
        BY <3>1, <4>1 DEF IsArgOf
      <4>3. /\ thread[t] = "enter" /\ call'[t] = call[t] /\ cpu'[t] = cpu[t]
            /\ Sent(t) \in Nat /\ Sent(t)' \in Nat /\ Sent(t) <= Sent(t)'
        BY <4>2, ThreadsGoOn DEF GoesOn
      <4>4. d = cpu[t] /\ ring[d][i].at <= Sent(t)
        BY <3>1, <4>3 DEF OrderInv, BuffersBehindThreads
      <4> QED
        BY <3>1, <4>1, <4>3, <4>4
    <3>2. CASE d = c /\ ring'[d][i] = r
      <4>1. PICK u \in Threads :
              /\ thread[u] = "enter" /\ r.call = call[u] /\ c = cpu[u]
              /\ Sent(u) \in Nat /\ r.at = Sent(u) + 1 /\ Sent(u)' = Sent(u) + 1
              /\ thread'[u] = "enter" => cpu'[u] = cpu[u]
              /\ UNCHANGED <<call, called>>
        BY <2>4, <3>2 DEF IsArgOf
      <4>2. call[u] = call[t] /\ call[u] \in 1..Len(called)
        BY <3>2, <4>1, CallOf DEF IsArgOf
      <4>3. call[u] # 0
        BY <4>2
      <4>4. u = t
        BY <4>2, <4>3 DEF KernelInv
      <4>5. Sent(u) + 1 <= Sent(u)'
        BY <4>1
      <4> QED
        BY <3>2, <4>1, <4>4, <4>5
    <3> QED
      BY <2>2, <3>1, <3>2
  <2>9. GatheredOrder'
    BY <1>3 DEF OrderInv, GatheredOrder
  <2>10. GatheredBehindBuffers'
    <3> SUFFICES ASSUME NEW p \in PIDs, NEW d \in Cpus, NEW i \in DOMAIN argv[p],
                        NEW j \in DOMAIN ring'[d],
                        IsArgOf(ring'[d][j], argv[p][i].call)
                 PROVE  argv[p][i].at < ring'[d][j].at
      BY <1>3 DEF GatheredBehindBuffers
    <3>1. CASE j \in DOMAIN ring[d] /\ ring'[d][j] = ring[d][j]
      BY <3>1 DEF OrderInv, GatheredBehindBuffers
    <3>2. CASE ring'[d][j] = r
      <4>1. PICK t \in Threads :
              thread[t] = "enter" /\ r.call = call[t] /\ Sent(t) \in Nat /\ r.at = Sent(t) + 1
        BY <2>4, <3>2 DEF IsArgOf
      <4>2. argv[p][i].at <= Sent(t)
        BY <3>2, <4>1 DEF OrderInv, GatheredBehindThreads, IsArgOf
      <4>3. argv[p][i].at \in Nat
        BY DEF TracerInv, GatheredOK
      <4> QED
        BY <3>2, <4>1, <4>2, <4>3
    <3> QED
      BY <2>2, <3>1, <3>2
  <2>11. GatheredBehindThreads'
    BY <1>3, GatheredStaysBehind DEF GatheredBehindThreads
  <2> QED
    BY <2>6, <2>7, <2>8, <2>9, <2>10, <2>11 DEF OrderInv
<1>4. ASSUME NEW t \in Threads, SubmitArg(t) PROVE OrderInv'
  <2>1. /\ cpu[t] \in Cpus /\ Submits(cpu[t], ArgRecord(t)) /\ argv' = argv
        /\ RecordOK(ArgRecord(t), called)
    BY <1>4, SubmitArgSubmits
  <2>2. ArgRecord(t) \in Records
    BY <2>1 DEF RecordOK
  <2> QED
    BY <1>1, <1>3, <1>4, <2>1, <2>2, StillShrinks DEF Submits
<1>5. ASSUME NEW t \in Threads, ExecveReturn(t) PROVE OrderInv'
  <2>1. argv' = argv /\ RecordOK(RetRecord(t), called)
    BY <1>5, ReturnSubmits
  <2>2. PICK c \in Cpus : Submits(c, RetRecord(t))
    BY <1>5, ReturnSubmits
  <2>3. RetRecord(t) \in Records /\ RetRecord(t).type = "RET"
    BY <2>1 DEF RecordOK, RetRecord
  <2> QED
    BY <1>1, <1>3, <2>1, <2>2, <2>3, StillShrinks DEF Submits
<1>6. ASSUME NEW c \in Cpus, Takes(c) PROVE OrderInv'
  <2>1. Shrinks
    BY <1>6, TakingShrinks
  <2> DEFINE r == ring[c][1]
  <2>2. ring[c] # << >> /\ ring' = [ring EXCEPT ![c] = Tail(@)]
    BY <1>6 DEF Takes
  <2>3. /\ 1 \in DOMAIN ring[c] /\ Head(ring[c]) = r /\ r \in Records /\ RecordOK(r, called)
        /\ \A i \in DOMAIN ring'[c] : i + 1 \in DOMAIN ring[c] /\ ring'[c][i] = ring[c][i + 1]
        /\ \A d \in Cpus \ {c} : ring'[d] = ring[d]
    BY <2>2, HeadOf
  <2>4. UNCHANGED <<thread, left, cpu, call, called>>
    BY <1>6 DEF Takes, kernelVars
  <2>5. \A t \in Threads : Sent(t)' = Sent(t)
    BY <2>4 DEF Sent
  <2>6. \A d \in Cpus : \A i \in DOMAIN ring'[d] : \E k \in DOMAIN ring[d] : ring'[d][i] = ring[d][k]
    BY <2>1 DEF Shrinks
  <2>7. BufferOrder' /\ OneBuffer' /\ BuffersBehindThreads'
    BY <2>1, ShrinkKeepsOrder
  <2>8. CASE argv' = argv
    BY <1>1, <2>1, <2>8
  <2>9. CASE argv' = [argv EXCEPT ![r.pid] = << >>]
    <3>1. \A p \in PIDs : argv'[p] = argv[p] \/ argv'[p] = << >>
      BY <2>9 DEF TracerInv
    <3>2. GatheredOrder'
      BY <3>1 DEF OrderInv, GatheredOrder, Rising
    <3>3. GatheredBehindBuffers'
      <4> SUFFICES ASSUME NEW p \in PIDs, NEW d \in Cpus, NEW i \in DOMAIN argv'[p],
                          NEW j \in DOMAIN ring'[d],
                          IsArgOf(ring'[d][j], argv'[p][i].call)
                   PROVE  argv'[p][i].at < ring'[d][j].at
        BY DEF GatheredBehindBuffers
      <4>1. argv'[p] = argv[p]
        BY <3>1
      <4> QED
        BY <2>6, <4>1 DEF OrderInv, GatheredBehindBuffers
    <3>4. GatheredBehindThreads'
      <4> SUFFICES ASSUME NEW t \in Threads, NEW p \in PIDs, NEW i \in DOMAIN argv'[p],
                          thread'[t] = "enter", argv'[p][i].call = call'[t]
                   PROVE  argv'[p][i].at <= Sent(t)'
        BY DEF GatheredBehindThreads
      <4>1. argv'[p] = argv[p]
        BY <3>1
      <4> QED
        BY <4>1, GatheredStaysBehind
    <3> QED
      BY <2>7, <3>2, <3>3, <3>4 DEF OrderInv
  <2>10. CASE r.type = "ARG" /\ argv' = [argv EXCEPT ![r.pid] = Append(@, Gathered(r))]
    <3> DEFINE a == Gathered(r)
               q == r.pid
    <3>1. a.call = r.call /\ a.at = r.at
      BY DEF Gathered
    <3>2. q \in PIDs /\ argv[q] \in Seq(Gatherings) /\ argv'[q] = Append(argv[q], a)
      BY <2>3, <2>10 DEF TracerInv, Records
    <3>3. \A p \in PIDs : p # q => argv'[p] = argv[p]
      BY <2>10 DEF TracerInv
    <3>4. /\ Len(argv[q]) \in Nat /\ DOMAIN argv'[q] = 1..(Len(argv[q]) + 1)
          /\ \A i \in 1..Len(argv[q]) : argv'[q][i] = argv[q][i]
          /\ argv'[q][Len(argv[q]) + 1] = a
      <4>1. argv'[q] \in Seq(Gatherings)
        BY <3>2, TracerKept DEF TracerInv
      <4> HIDE DEF a, q
      <4>2. a = argv'[q][Len(argv[q]) + 1] /\ Len(argv'[q]) = Len(argv[q]) + 1 /\ Len(argv[q]) \in Nat
        BY <3>2
      <4>3. \A i \in 1..Len(argv[q]) : argv'[q][i] = argv[q][i]
        BY <3>2
      <4> QED
        BY <4>1, <4>2, <4>3
    <3> HIDE DEF a, q
    <3>5. \A p \in PIDs : \A i \in DOMAIN argv'[p] :
            \/ i \in DOMAIN argv[p] /\ argv'[p][i] = argv[p][i]
            \/ p = q /\ i = Len(argv[q]) + 1 /\ argv'[p][i] = a
      <4>1. ASSUME NEW i \in DOMAIN argv'[q]
            PROVE  \/ i \in DOMAIN argv[q] /\ argv'[q][i] = argv[q][i]
                   \/ i = Len(argv[q]) + 1 /\ argv'[q][i] = a
        <5>1. i \in 1..Len(argv[q]) \/ i = Len(argv[q]) + 1
          BY <3>4, <4>1
        <5>2. DOMAIN argv[q] = 1..Len(argv[q])
          BY <3>2
        <5> QED
          BY <3>4, <5>1, <5>2
      <4> QED
        BY <3>3, <4>1
    \* What has been gathered of the record's call came before it.
    <3>6. ASSUME NEW p \in PIDs, NEW i \in DOMAIN argv[p], argv[p][i].call = a.call
          PROVE  argv[p][i].at < a.at
      BY <2>3, <2>10, <3>1, <3>6 DEF OrderInv, GatheredBehindBuffers, IsArgOf
    <3>7. GatheredOrder'
      <4> SUFFICES ASSUME NEW p \in PIDs, NEW i \in DOMAIN argv'[p], NEW j \in DOMAIN argv'[p],
                          i < j, argv'[p][i].call = argv'[p][j].call
                   PROVE  argv'[p][i].at < argv'[p][j].at
        BY DEF GatheredOrder, Rising
      <4>1. CASE i \in DOMAIN argv[p] /\ argv'[p][i] = argv[p][i] /\ j \in DOMAIN argv[p] /\ argv'[p][j] = argv[p][j]
        BY <4>1 DEF OrderInv, GatheredOrder, Rising
      <4>2. CASE i \in DOMAIN argv[p] /\ argv'[p][i] = argv[p][i] /\ argv'[p][j] = a
        BY <3>6, <4>2
      <4>3. CASE p = q /\ i = Len(argv[q]) + 1
        <5>1. j \in 1..(Len(argv[q]) + 1)
          BY <3>4, <4>3
        <5> QED
          BY <3>4, <4>3, <5>1
      <4> QED
        BY <3>5, <4>1, <4>2, <4>3
    <3>8. GatheredBehindBuffers'
      <4> SUFFICES ASSUME NEW p \in PIDs, NEW d \in Cpus, NEW i \in DOMAIN argv'[p],
                          NEW j \in DOMAIN ring'[d],
                          IsArgOf(ring'[d][j], argv'[p][i].call)
                   PROVE  argv'[p][i].at < ring'[d][j].at
        BY DEF GatheredBehindBuffers
      <4>1. CASE i \in DOMAIN argv[p] /\ argv'[p][i] = argv[p][i]
        BY <2>6, <4>1 DEF OrderInv, GatheredBehindBuffers
      <4>2. CASE argv'[p][i] = a
        <5>1. IsArgOf(ring'[d][j], r.call)
          BY <3>1, <4>2
        <5>2. d = c
          BY <2>3, <2>6, <2>10, <5>1 DEF OrderInv, OneBuffer
        <5>3. j + 1 \in DOMAIN ring[c] /\ ring'[d][j] = ring[c][j + 1]
          BY <2>3, <5>2
        <5>4. j \in Nat \ {0}
          BY <2>3, TracerKept DEF TracerInv
        <5>5. 1 < j + 1
          BY <5>4
        <5>6. r.at < ring[c][j + 1].at
          BY <2>3, <2>10, <5>1, <5>3, <5>5 DEF OrderInv, BufferOrder
        <5> QED
          BY <3>1, <4>2, <5>3, <5>6
      <4> QED
        BY <3>5, <4>1, <4>2
    <3>9. GatheredBehindThreads'
      <4> SUFFICES ASSUME NEW t \in Threads, NEW p \in PIDs, NEW i \in DOMAIN argv'[p],
                          thread'[t] = "enter", argv'[p][i].call = call'[t]
                   PROVE  argv'[p][i].at <= Sent(t)'
        BY DEF GatheredBehindThreads
      <4>1. CASE i \in DOMAIN argv[p] /\ argv'[p][i] = argv[p][i]
        BY <4>1, GatheredStaysBehind
      <4>2. CASE argv'[p][i] = a
        <5>1. IsArgOf(r, call[t]) /\ thread[t] = "enter"
          BY <2>4, <2>10, <3>1, <4>2 DEF IsArgOf
        <5>2. r.at <= Sent(t)
          BY <2>3, <5>1 DEF OrderInv, BuffersBehindThreads
        <5> QED
          BY <2>5, <3>1, <4>2, <5>2
      <4> QED
        BY <3>5, <4>1, <4>2
    <3> QED
      BY <2>7, <3>7, <3>8, <3>9 DEF OrderInv
  <2> QED
    BY <1>6, <2>3, <2>8, <2>9, <2>10 DEF Takes
<1> QED
  BY <1>2, <1>4, <1>5, <1>6, EveryStep

-----------------------------------------------------------------------------
(* The event that WatchEvent returns.                                      *)

EventInv ==
  event # NoEvent =>
    /\ event.pid \in PIDs /\ event.argv \in Seq(Gatherings)
    /\ event.call \in DOMAIN called /\ called[event.call].pid = event.pid
    /\ \A i \in DOMAIN event.argv : GatheredOK(event.argv[i], event.pid, called)
    /\ Rising(event.argv)

LEMMA EventKept ==
  ASSUME KernelInv, TracerInv, OrderInv, EventInv, [Next]_vars
  PROVE  EventInv'
<1>1. Extends(called', called)
  BY HistoryGrows
<1>2. ASSUME event' = event PROVE EventInv'
  <2> SUFFICES ASSUME event # NoEvent
               PROVE  /\ event.pid \in PIDs /\ event.argv \in Seq(Gatherings)
                      /\ event.call \in DOMAIN called' /\ called'[event.call].pid = event.pid
                      /\ \A i \in DOMAIN event.argv : GatheredOK(event.argv[i], event.pid, called')
                      /\ Rising(event.argv)
    BY <1>2 DEF EventInv
  <2>1. \A i \in DOMAIN event.argv : GatheredOK(event.argv[i], event.pid, called')
    BY <1>1, GatheredStays DEF EventInv
  <2>2. event.call \in DOMAIN called' /\ called'[event.call] = called[event.call]
    BY <1>1 DEF EventInv, Extends
  <2> QED
    BY <2>1, <2>2 DEF EventInv
<1>3. ASSUME NEW c \in Cpus, Takes(c) PROVE EventInv'
  <2> DEFINE r == ring[c][1]
  <2>1. ring[c] # << >> /\ ring' = [ring EXCEPT ![c] = Tail(@)] /\ called' = called
    BY <1>3 DEF Takes, kernelVars
  <2>2. Head(ring[c]) = r /\ r \in Records /\ RecordOK(r, called)
    BY <2>1, HeadOf
  <2>3. CASE event' = NoEvent
    BY <2>3 DEF EventInv
  <2>4. CASE event' = EventOf(r)
    <3>1. r.pid \in PIDs /\ r.call \in DOMAIN called /\ called[r.call].pid = r.pid
      BY <2>2 DEF RecordOK, Records
    <3>2. /\ argv[r.pid] \in Seq(Gatherings) /\ Rising(argv[r.pid])
          /\ \A i \in DOMAIN argv[r.pid] : GatheredOK(argv[r.pid][i], r.pid, called)
      BY <3>1 DEF TracerInv, OrderInv, GatheredOrder
    <3>3. event'.pid = r.pid /\ event'.call = r.call /\ event'.argv = argv[r.pid]
      BY <2>4 DEF EventOf
    <3> HIDE DEF r
    <3> QED
      BY <2>1, <3>1, <3>2, <3>3 DEF EventInv
  <2> QED
    BY <1>3, <2>2, <2>3, <2>4 DEF Takes
<1>4. ASSUME NEW t \in Threads, SubmitArg(t) \/ ExecveReturn(t) PROVE EventInv'
  BY <1>2, <1>4 DEF SubmitArg, ExecveReturn
<1> QED
  BY <1>2, <1>3, <1>4, EveryStep

-----------------------------------------------------------------------------
(* The types, and whose arguments an event shows.                          *)

ExecInv == KernelInv /\ TracerInv /\ OrderInv /\ EventInv

LEMMA ExecInvInit == Init => ExecInv
<1> SUFFICES ASSUME Init PROVE ExecInv
  OBVIOUS
<1>1. attached \in ToSet(Stages)
  BY StagesAre DEF Init
<1>2. called \in Seq(Calls) /\ Len(called) <= MaxCalls /\ DOMAIN called = {}
  BY ExecTracerAssumption DEF Init
<1>3. \A t \in Threads : ThreadOK(t)
  BY DEF Init, ThreadOK
<1>4. \A t, u \in Threads : call[t] = call[u] /\ call[t] # 0 => t = u
  BY DEF Init
<1>5. KernelInv
  <2>1. life \in [PIDs -> 0..MaxLives] /\ disturbed \subseteq PIDs
    BY ExecTracerAssumption DEF Init
  <2> QED
    BY <1>1, <1>2, <1>3, <1>4, <2>1 DEF Init, KernelInv
<1>6. \A c \in Cpus : ring[c] = << >> /\ DOMAIN ring[c] = {} /\ Len(ring[c]) <= RingSize
  BY ExecTracerAssumption DEF Init
<1>7. \A p \in PIDs : argv[p] = << >> /\ DOMAIN argv[p] = {}
  BY DEF Init
<1>8. TracerInv
  BY <1>6, <1>7 DEF Init, TracerInv
<1>9. OrderInv
  BY <1>6, <1>7 DEF OrderInv, BufferOrder, OneBuffer, BuffersBehindThreads, GatheredOrder, Rising,
                    GatheredBehindBuffers, GatheredBehindThreads
<1>10. EventInv
  BY DEF Init, EventInv
<1> QED
  BY <1>5, <1>8, <1>9, <1>10 DEF ExecInv

LEMMA ExecInvHolds == Spec => []ExecInv
<1>1. ExecInv /\ [Next]_vars => ExecInv'
  BY KernelKept, TracerKept, OrderKept, EventKept DEF ExecInv
<1> QED
  BY <1>1, ExecInvInit, PTL DEF Spec

\* The variables have their types, and no buffer holds more than it can: a thread that
\* submits is on a CPU, and one that is in execve has a call (exec.go:118-163).
THEOREM ExecTyped == Spec => []TypeOK
<1>1. ASSUME ExecInv PROVE TypeOK
  <2> USE <1>1 DEF ExecInv
  <2>1. attached \in ToSet(Stages) /\ thread \in [Threads -> {"user", "enter", "execve"}]
    BY DEF KernelInv
  <2>2. ASSUME NEW t \in Threads
        PROVE  /\ probed[t] => thread[t] # "user" /\ "return" \in attached
               /\ thread[t] = "enter" <=> left[t] # << >>
               /\ IF thread[t] = "enter" THEN cpu[t] \in Cpus ELSE cpu[t] = 0
               /\ IF thread[t] = "user" THEN call[t] = 0 ELSE call[t] \in DOMAIN called
    BY DEF KernelInv, ThreadOK
  <2>3. \A c \in Cpus : ring[c] \in Seq(Records) /\ Len(ring[c]) <= RingSize
    BY DEF TracerInv
  <2>4. reading \in Cpus /\ DOMAIN argv = PIDs
    BY DEF TracerInv
  <2>5. (event = NoEvent \/ event.pid \in PIDs) /\ disturbed \subseteq PIDs /\ life \in [PIDs -> 0..MaxLives]
    BY DEF EventInv, KernelInv
  <2> QED
    BY <2>1, <2>2, <2>3, <2>4, <2>5 DEF TypeOK
<1> QED
  BY <1>1, ExecInvHolds, PTL

-----------------------------------------------------------------------------
(* The stream of a process that is not disturbed.  A position in it is how   *)
(* many of the arguments of a call have gone by, or Idle between two calls;   *)
(* each record takes the stream from one position to the next.                *)

Idle == <<0, 0>>
Positions == Nat \X Nat

Before(r) == IF r.at = 1 THEN Idle ELSE <<r.call, r.at - 1>>
After(r) == IF r.type = "RET" THEN Idle ELSE <<r.call, r.at>>

\* Process p's records in s take its stream from f to g: h is where it is before and
\* after each record.
Chain(s, p, f, g) ==
  \E h \in [0..Len(s) -> Positions] :
    /\ h[0] = f /\ h[Len(s)] = g
    /\ \A i \in 1..Len(s) :
         IF s[i].pid = p THEN h[i - 1] = Before(s[i]) /\ h[i] = After(s[i])
         ELSE h[i] = h[i - 1]

NoneOf(s, p) == \A i \in DOMAIN s : s[i].pid # p

LEMMA AfterIsPosition ==
  ASSUME NEW r \in Records
  PROVE  After(r) \in Positions
<1>1. r.call \in 1..MaxCalls /\ r.at \in 1..(MAXARG + 2)
  BY DEF Records
<1>2. r.call \in Nat /\ r.at \in Nat
  BY <1>1, ExecTracerAssumption
<1> QED
  BY <1>2 DEF After, Idle, Positions

LEMMA ChainAppend ==
  ASSUME NEW s \in Seq(Records), NEW p, NEW f, NEW g, NEW r \in Records, Chain(s, p, f, g)
  PROVE  /\ r.pid # p => Chain(Append(s, r), p, f, g)
         /\ r.pid = p /\ g = Before(r) => Chain(Append(s, r), p, f, After(r))
<1>1. PICK h \in [0..Len(s) -> Positions] :
        /\ h[0] = f /\ h[Len(s)] = g
        /\ \A i \in 1..Len(s) :
             IF s[i].pid = p THEN h[i - 1] = Before(s[i]) /\ h[i] = After(s[i])
             ELSE h[i] = h[i - 1]
  BY DEF Chain
<1> DEFINE n == Len(s)
           new == Append(s, r)
<1>2. /\ n \in Nat /\ new \in Seq(Records) /\ Len(new) = n + 1
      /\ \A i \in 1..n : new[i] = s[i]
      /\ new[n + 1] = r
  BY AppendProperties
<1>3. g \in Positions /\ After(r) \in Positions
  BY <1>1, <1>2, AfterIsPosition
<1>4. ASSUME NEW e \in Positions,
             IF r.pid = p THEN g = Before(r) /\ e = After(r) ELSE e = g
      PROVE  Chain(new, p, f, e)
  <2> DEFINE k == [i \in 0..(n + 1) |-> IF i = n + 1 THEN e ELSE h[i]]
  <2>1. k \in [0..(n + 1) -> Positions]
    BY <1>1, <1>2
  <2>2. k[n + 1] = e /\ \A i \in 0..n : k[i] = h[i]
    BY <1>2
  <2>3. k[0] = f /\ k[n] = g
    BY <1>1, <1>2, <2>2
  <2> HIDE DEF k, new, n
  <2>4. ASSUME NEW i \in 1..(n + 1)
        PROVE  IF new[i].pid = p THEN k[i - 1] = Before(new[i]) /\ k[i] = After(new[i])
               ELSE k[i] = k[i - 1]
    <3>1. CASE i = n + 1
      <4>1. i - 1 = n
        BY <1>2, <3>1
      <4> QED
        BY <1>2, <1>4, <2>2, <2>3, <3>1, <4>1
    <3>2. CASE i # n + 1
      <4>1. i \in 1..n /\ i \in 0..n /\ i - 1 \in 0..n
        BY <1>2, <3>2
      <4>2. IF s[i].pid = p THEN h[i - 1] = Before(s[i]) /\ h[i] = After(s[i])
            ELSE h[i] = h[i - 1]
        BY <1>1, <4>1 DEF n
      <4> QED
        BY <1>2, <2>2, <4>1, <4>2
    <3> QED
      BY <3>1, <3>2
  <2> QED
    BY <1>2, <2>1, <2>2, <2>3, <2>4 DEF Chain
<1> QED
  BY <1>3, <1>4

LEMMA ChainTail ==
  ASSUME NEW s \in Seq(Records), s # << >>, NEW p, NEW f, NEW g, Chain(s, p, f, g)
  PROVE  /\ s[1].pid # p => Chain(Tail(s), p, f, g)
         /\ s[1].pid = p => f = Before(s[1]) /\ Chain(Tail(s), p, After(s[1]), g)
<1>1. PICK h \in [0..Len(s) -> Positions] :
        /\ h[0] = f /\ h[Len(s)] = g
        /\ \A i \in 1..Len(s) :
             IF s[i].pid = p THEN h[i - 1] = Before(s[i]) /\ h[i] = After(s[i])
             ELSE h[i] = h[i - 1]
  BY DEF Chain
<1> DEFINE n == Len(s)
           rest == Tail(s)
           k == [i \in 0..(n - 1) |-> h[i + 1]]
<1>2. /\ n \in Nat \ {0} /\ rest \in Seq(Records) /\ Len(rest) = n - 1
      /\ \A i \in 1..(n - 1) : rest[i] = s[i + 1]
  BY HeadTailProperties
<1>3. \A i \in 0..(n - 1) : k[i] = h[i + 1]
  OBVIOUS
<1>4. k \in [0..(n - 1) -> Positions]
  BY <1>1, <1>2
<1> HIDE DEF k, rest, n
<1>5. ASSUME NEW i \in 1..(n - 1)
      PROVE  IF rest[i].pid = p THEN k[i - 1] = Before(rest[i]) /\ k[i] = After(rest[i])
             ELSE k[i] = k[i - 1]
  <2>1. i + 1 \in 1..n /\ i \in 0..(n - 1) /\ i - 1 \in 0..(n - 1) /\ (i - 1) + 1 = i /\ (i + 1) - 1 = i
    BY <1>2
  <2>2. IF s[i + 1].pid = p THEN h[(i + 1) - 1] = Before(s[i + 1]) /\ h[i + 1] = After(s[i + 1])
        ELSE h[i + 1] = h[(i + 1) - 1]
    BY <1>1, <2>1 DEF n
  <2> QED
    BY <1>2, <1>3, <2>1, <2>2
<1>6. k[0] = h[1] /\ k[n - 1] = h[n]
  <2>1. 0 \in 0..(n - 1) /\ n - 1 \in 0..(n - 1) /\ (n - 1) + 1 = n /\ 0 + 1 = 1
    BY <1>2
  <2>2. k[0] = h[0 + 1] /\ k[n - 1] = h[(n - 1) + 1]
    BY <1>3, <2>1
  <2> QED
    BY <2>1, <2>2
<1>7. Chain(rest, p, h[1], g)
  BY <1>1, <1>2, <1>4, <1>5, <1>6 DEF Chain, n
<1>8. IF s[1].pid = p THEN f = Before(s[1]) /\ h[1] = After(s[1]) ELSE h[1] = f
  <2>1. 1 \in 1..n /\ 1 - 1 = 0
    BY <1>2
  <2>2. IF s[1].pid = p THEN h[1 - 1] = Before(s[1]) /\ h[1] = After(s[1]) ELSE h[1] = h[1 - 1]
    BY <1>1, <2>1 DEF n
  <2> QED
    BY <1>1, <2>1, <2>2
<1> QED
  BY <1>7, <1>8 DEF rest

LEMMA ChainOfNone ==
  ASSUME NEW s \in Seq(Records), NEW p, NoneOf(s, p), NEW f \in Positions, NEW g
  PROVE  /\ Chain(s, p, f, g) => f = g
         /\ Chain(s, p, f, f)
<1>1. Len(s) \in Nat /\ \A i \in 1..Len(s) : s[i].pid # p
  BY DEF NoneOf
<1>2. Chain(s, p, f, f)
  <2> DEFINE h == [i \in 0..Len(s) |-> f]
  <2>1. h \in [0..Len(s) -> Positions] /\ \A i \in 0..Len(s) : h[i] = f
    OBVIOUS
  <2> HIDE DEF h
  <2>2. h[0] = f /\ h[Len(s)] = f /\ \A i \in 1..Len(s) : h[i] = h[i - 1]
    BY <1>1, <2>1
  <2> QED
    BY <1>1, <2>1, <2>2 DEF Chain
<1>3. ASSUME Chain(s, p, f, g) PROVE f = g
  <2>1. PICK h \in [0..Len(s) -> Positions] :
          /\ h[0] = f /\ h[Len(s)] = g
          /\ \A i \in 1..Len(s) : h[i] = h[i - 1]
    BY <1>1, <1>3 DEF Chain
  <2> DEFINE bad == {i \in 0..Len(s) : h[i] # f}
  <2>2. ASSUME bad # {} PROVE FALSE
    <3>1. bad \subseteq Nat
      OBVIOUS
    <3>2. PICK i \in bad : \A j \in bad : i <= j
      <4> HIDE DEF bad
      <4> QED
        BY <2>2, <3>1, LeastNumber
    <3>3. i # 0
      BY <2>1
    <3>4. i \in 1..Len(s) /\ i - 1 \in 0..Len(s) /\ ~ (i <= i - 1)
      BY <1>1, <3>3
    <3>5. h[i - 1] = f
      BY <3>2, <3>4
    <3> QED
      BY <2>1, <3>4, <3>5
  <2> QED
    BY <1>1, <2>1, <2>2
<1> QED
  BY <1>2, <1>3

ShownAt(f, history) ==
  IF f = Idle THEN << >> ELSE ShownFirst(Submitted(history[f[1]].args))[f[2]]

LEMMA ArgsOfAppend ==
  ASSUME NEW list \in Seq(Gatherings), NEW a \in Gatherings
  PROVE  ArgsOf(Append(list, a)) = Append(ArgsOf(list), a.arg)
<1> DEFINE n == Len(list)
           new == Append(list, a)
           old == ArgsOf(list)
<1>1. /\ n \in Nat /\ DOMAIN list = 1..n /\ new \in Seq(Gatherings) /\ Len(new) = n + 1
      /\ \A i \in 1..n : new[i] = list[i]
      /\ new[n + 1] = a
  BY AppendProperties
<1>2. DOMAIN new = 1..(n + 1)
  <2> HIDE DEF new
  <2> QED
    BY <1>1
<1>3. \A i \in 1..n : list[i] \in Gatherings
  OBVIOUS
<1>4. old = [i \in 1..n |-> list[i].arg] /\ \A i \in 1..n : list[i].arg \in SubmittedArgs
  BY <1>1, <1>3 DEF ArgsOf, Gatherings
<1>5. old \in Seq(SubmittedArgs) /\ Len(old) = n
  BY <1>1, <1>4
<1>6. a.arg \in SubmittedArgs
  BY DEF Gatherings
<1>7. /\ Append(old, a.arg) \in Seq(SubmittedArgs) /\ Len(Append(old, a.arg)) = n + 1
      /\ \A i \in 1..n : Append(old, a.arg)[i] = old[i]
      /\ Append(old, a.arg)[n + 1] = a.arg
  <2> HIDE DEF old
  <2> QED
    BY <1>5, <1>6, AppendProperties
<1>8. \A i \in 1..(n + 1) : new[i].arg = Append(old, a.arg)[i]
  <2> SUFFICES ASSUME NEW i \in 1..(n + 1) PROVE new[i].arg = Append(old, a.arg)[i]
    OBVIOUS
  <2>1. CASE i = n + 1
    <3> HIDE DEF new, old
    <3> QED
      BY <1>1, <1>7, <2>1
  <2>2. CASE i # n + 1
    <3>1. i \in 1..n
      BY <1>1, <2>2
    <3>2. new[i] = list[i] /\ old[i] = list[i].arg /\ Append(old, a.arg)[i] = old[i]
      BY <1>1, <1>4, <1>7, <3>1
    <3> QED
      BY <3>2
  <2> QED
    BY <2>1, <2>2
<1> DEFINE u == Append(old, a.arg)
<1>9. DOMAIN u = 1..(n + 1) /\ u = [i \in DOMAIN u |-> u[i]]
  <2>1. u \in Seq(SubmittedArgs) /\ Len(u) = n + 1
    BY <1>7
  <2> HIDE DEF u
  <2> QED
    BY <2>1
<1>10. ArgsOf(new) = [i \in 1..(n + 1) |-> new[i].arg]
  BY <1>2 DEF ArgsOf
<1> HIDE DEF u, new, old
<1>11. ArgsOf(new) = u
  BY <1>8, <1>9, <1>10 DEF u
<1> QED
  BY <1>11 DEF u, new, old

\* The arguments of the call that a record is of.
LEMMA SubmittedOfRecord ==
  ASSUME KernelInv, NEW r, RecordOK(r, called)
  PROVE  /\ Submitted(called[r.call].args) \in Seq(SubmittedArgs)
         /\ Len(Submitted(called[r.call].args)) \in Nat \ {0}
         /\ r.call \in Nat \ {0} /\ r.at \in Nat \ {0}
<1>1. r.call \in DOMAIN called /\ called \in Seq(Calls) /\ r \in Records
  BY DEF RecordOK, KernelInv
<1>2. called[r.call] \in Calls
  BY <1>1
<1>3. called[r.call].args \in ArgLists
  BY <1>2 DEF Calls
<1>4. /\ Submitted(called[r.call].args) \in Seq(SubmittedArgs)
      /\ Len(Submitted(called[r.call].args)) \in 1..(MAXARG + 1)
  BY <1>3, SubmittedOK
<1>5. r.call \in 1..MaxCalls /\ r.at \in 1..(MAXARG + 2)
  BY <1>1 DEF Records
<1> QED
  BY <1>4, <1>5, ExecTracerAssumption

\* Where a record begins, the arguments before it are shown.
LEMMA ShownBefore ==
  ASSUME KernelInv, NEW r, RecordOK(r, called)
  PROVE  ShownAt(Before(r), called) = ShownFirst(Submitted(called[r.call].args))[r.at - 1]
<1>1. Submitted(called[r.call].args) \in Seq(SubmittedArgs) /\ r.call \in Nat \ {0} /\ r.at \in Nat \ {0}
  BY SubmittedOfRecord
<1>2. CASE r.at = 1
  <2>1. ShownAt(Before(r), called) = << >> /\ r.at - 1 = 0
    BY <1>2 DEF ShownAt, Before
  <2>2. ShownFirst(Submitted(called[r.call].args))[0] = << >>
    BY <1>1, ShownFirstSteps
  <2> QED
    BY <2>1, <2>2
<1>3. CASE r.at # 1
  <2>1. Before(r) = <<r.call, r.at - 1>>
    BY <1>3 DEF Before
  <2>2. Before(r) # Idle /\ Before(r)[1] = r.call /\ Before(r)[2] = r.at - 1
    BY <1>1, <2>1 DEF Idle
  <2> QED
    BY <2>2 DEF ShownAt
<1> QED
  BY <1>2, <1>3

\* An argument is added to them, unless it is blank.
LEMMA ShownAfterArg ==
  ASSUME KernelInv, NEW r, RecordOK(r, called), r.type = "ARG"
  PROVE  ShownAt(After(r), called) = IF r.arg = Blank THEN ShownAt(Before(r), called)
                                     ELSE Append(ShownAt(Before(r), called), r.arg)
<1> DEFINE sub == Submitted(called[r.call].args)
<1>1. sub \in Seq(SubmittedArgs) /\ r.call \in Nat \ {0} /\ r.at \in Nat \ {0}
  BY SubmittedOfRecord
<1>2. r.at \in 1..Len(sub) /\ r.arg = sub[r.at]
  BY DEF RecordOK
<1>3. ShownFirst(sub)[r.at] = IF sub[r.at] = Blank THEN ShownFirst(sub)[r.at - 1]
                              ELSE Append(ShownFirst(sub)[r.at - 1], sub[r.at])
  <2> HIDE DEF sub
  <2> QED
    BY <1>1, <1>2, ShownFirstSteps
<1>4. After(r) = <<r.call, r.at>>
  BY DEF After
<1>5. After(r) # Idle /\ After(r)[1] = r.call /\ After(r)[2] = r.at
  BY <1>1, <1>4 DEF Idle
<1>6. ShownAt(After(r), called) = ShownFirst(sub)[r.at]
  BY <1>5 DEF ShownAt
<1> QED
  BY <1>2, <1>3, <1>6, ShownBefore

\* When the call returns they are all there.
LEMMA ShownBeforeReturn ==
  ASSUME KernelInv, NEW r, RecordOK(r, called), r.type = "RET"
  PROVE  ShownAt(Before(r), called) = Shown(called[r.call].args)
<1> DEFINE sub == Submitted(called[r.call].args)
<1>1. Len(sub) \in Nat \ {0} /\ r.at = Len(sub) + 1
  BY SubmittedOfRecord DEF RecordOK
<1>2. r.at - 1 = Len(sub)
  <2> HIDE DEF sub
  <2> QED
    BY <1>1
<1> QED
  BY <1>2, ShownBefore DEF Shown

\* A thread whose call has begun to submit, and whose return will be probed.
Active(t) == probed[t] /\ Sent(t) > 0

\* Where the calls of p have taken its stream.
Reached(p, g) ==
  \/ \E t \in Threads : PID[t] = p /\ Active(t) /\ g = <<call[t], Sent(t)>>
  \/ g = Idle /\ \A t \in Threads : PID[t] = p => ~ Active(t)

\* The return of a call that submits will be probed; while a call has begun to submit,
\* those of other threads of its process have not.
OneActive(p) ==
  /\ \A t \in Threads : PID[t] = p /\ thread[t] = "enter" => probed[t]
  /\ \A t, u \in Threads :
       PID[t] = p /\ PID[u] = p /\ u # t /\ Active(t) /\ thread[u] # "user" =>
         thread[u] = "enter" /\ Sent(u) = 0

OfCall(list, n) == \A i \in DOMAIN list : list[i].call = n

\* The records of p that wait, all of them in one buffer, take its stream from where
\* the arguments gathered end to where its calls have come; what has been gathered
\* is of one call.
Stream(p) ==
  \E c \in Cpus, f \in Positions, g \in Positions :
    /\ \A d \in Cpus \ {c} : NoneOf(ring[d], p)
    /\ Chain(ring[c], p, f, g)
    /\ Reached(p, g)
    /\ f = Idle \/ f[1] \in DOMAIN called
    /\ ArgsOf(argv[p]) = ShownAt(f, called)
    /\ OfCall(argv[p], f[1])

StreamInv == \A p \in PIDs \ disturbed : OneActive(p) /\ Stream(p)

\* The threads of p stay where they are.
SameThreads(p) ==
  \A t \in Threads : PID[t] = p =>
    /\ thread'[t] = thread[t] /\ left'[t] = left[t]
    /\ call'[t] = call[t] /\ probed'[t] = probed[t]

LEMMA SameSentInCall ==
  ASSUME KernelInv, [Next]_vars, NEW t \in Threads, thread[t] # "user",
         left'[t] = left[t], call'[t] = call[t]
  PROVE  Sent(t)' = Sent(t)
<1>1. call[t] \in 1..Len(called)
  BY CallOf
<1>2. called \in Seq(Calls)
  BY DEF KernelInv
<1>3. called'[call[t]] = called[call[t]]
  BY <1>1, <1>2, HistoryGrows DEF Extends
<1> QED
  BY <1>3 DEF Sent

LEMMA ProbedInCall ==
  ASSUME KernelInv, NEW t \in Threads, probed[t]
  PROVE  thread[t] # "user" /\ "entry" \in attached
<1>1. thread[t] # "user" /\ "return" \in attached /\ attached \in ToSet(Stages)
  BY DEF KernelInv, ThreadOK
<1> QED
  BY <1>1, ReturnAfterEntry

LEMMA SameThreadsKeep ==
  ASSUME KernelInv, [Next]_vars, NEW p, SameThreads(p), OneActive(p)
  PROVE  /\ OneActive(p)'
         /\ \A g : Reached(p, g) => Reached(p, g)'
<1>1. ASSUME NEW t \in Threads, PID[t] = p
      PROVE  Active(t)' <=> Active(t)
  <2>1. left'[t] = left[t] /\ call'[t] = call[t] /\ probed'[t] = probed[t]
    BY <1>1 DEF SameThreads
  <2>2. CASE probed[t]
    <3>1. thread[t] # "user"
      BY <2>2, ProbedInCall
    <3>2. Sent(t)' = Sent(t)
      BY <2>1, <3>1, SameSentInCall
    <3> QED
      BY <2>1, <3>2 DEF Active
  <2>3. CASE ~ probed[t]
    BY <2>1, <2>3 DEF Active
  <2> QED
    BY <2>2, <2>3
<1>2. ASSUME NEW t \in Threads, PID[t] = p, thread[t] # "user" PROVE Sent(t)' = Sent(t)
  BY <1>2, SameSentInCall DEF SameThreads
<1>3. ASSUME NEW t \in Threads, PID[t] = p, thread'[t] = "enter" PROVE probed'[t]
  BY <1>3 DEF SameThreads, OneActive
<1>4. ASSUME NEW t \in Threads, NEW u \in Threads, PID[t] = p, PID[u] = p, u # t, Active(t)',
             thread'[u] # "user"
      PROVE  thread'[u] = "enter" /\ Sent(u)' = 0
  <2>1. Active(t) /\ thread[u] # "user" /\ thread'[u] = thread[u]
    BY <1>1, <1>4 DEF SameThreads
  <2>2. thread[u] = "enter" /\ Sent(u) = 0
    BY <1>4, <2>1 DEF OneActive
  <2> QED
    BY <1>2, <1>4, <2>1, <2>2
<1>5. OneActive(p)'
  BY <1>3, <1>4 DEF OneActive
<1>6. ASSUME NEW g, Reached(p, g) PROVE Reached(p, g)'
  <2>1. ASSUME NEW t \in Threads, PID[t] = p, Active(t), g = <<call[t], Sent(t)>> PROVE Reached(p,
               g)'
    <3>1. thread[t] # "user"
      BY <2>1, ProbedInCall DEF Active
    <3>2. Active(t)' /\ Sent(t)' = Sent(t) /\ call'[t] = call[t]
      BY <1>1, <1>2, <2>1, <3>1 DEF SameThreads
    <3>3. g = <<call'[t], Sent(t)'>>
      BY <2>1, <3>2
    <3> QED
      BY <2>1, <3>2, <3>3 DEF Reached
  <2>2. ASSUME g = Idle, \A t \in Threads : PID[t] = p => ~ Active(t) PROVE Reached(p, g)'
    BY <1>1, <2>2 DEF Reached
  <2> QED
    BY <1>6, <2>1, <2>2 DEF Reached
<1> QED
  BY <1>5, <1>6

\* A step keeps the stream of p, if it keeps what of it is in the buffers, what has been
\* gathered, and where its calls have come.
LEMMA StreamKept ==
  ASSUME KernelInv, [Next]_vars, NEW p \in PIDs, Stream(p), argv' = argv,
         \A g : Reached(p, g) => Reached(p, g)',
         \A d \in Cpus : NoneOf(ring[d], p) => NoneOf(ring'[d], p),
         \A d \in Cpus : \A f, g : Chain(ring[d], p, f, g) => Chain(ring'[d], p, f, g)
  PROVE  Stream(p)'
<1>1. PICK b \in Cpus, f \in Positions, g \in Positions :
        /\ \A d \in Cpus \ {b} : NoneOf(ring[d], p)
        /\ Chain(ring[b], p, f, g) /\ Reached(p, g)
        /\ f = Idle \/ f[1] \in DOMAIN called
        /\ ArgsOf(argv[p]) = ShownAt(f, called)
        /\ OfCall(argv[p], f[1])
  BY DEF Stream
<1>2. f = Idle \/ f[1] \in DOMAIN called'
  BY <1>1, HistoryGrows DEF Extends
<1>3. ShownAt(f, called') = ShownAt(f, called)
  <2>1. CASE f = Idle
    BY <2>1 DEF ShownAt
  <2>2. CASE f # Idle
    <3>1. called'[f[1]] = called[f[1]]
      BY <1>1, <2>2, HistoryGrows DEF Extends
    <3> QED
      BY <2>2, <3>1 DEF ShownAt
  <2> QED
    BY <2>1, <2>2
<1>4. Reached(p, g)'
  BY <1>1
<1>5. /\ ArgsOf(argv'[p]) = ShownAt(f, called') /\ OfCall(argv'[p], f[1]) /\ Chain(ring'[b], p, f, g)
      /\ \A d \in Cpus \ {b} : NoneOf(ring'[d], p)
  BY <1>1, <1>3
<1> QED
  BY <1>2, <1>4, <1>5 DEF Stream

LEMMA StreamStays ==
  ASSUME KernelInv, [Next]_vars, NEW p \in PIDs, Stream(p), UNCHANGED <<ring, argv>>,
         \A g : Reached(p, g) => Reached(p, g)'
  PROVE  Stream(p)'
<1>1. \A d \in Cpus : NoneOf(ring[d], p) => NoneOf(ring'[d], p)
  OBVIOUS
<1>2. \A d \in Cpus : \A f, g : Chain(ring[d], p, f, g) => Chain(ring'[d], p, f, g)
  OBVIOUS
<1> QED
  BY <1>1, <1>2, StreamKept

LEMMA OthersOnly ==
  ASSUME KernelInv, [Next]_vars, NEW p \in PIDs, SameThreads(p), OneActive(p), Stream(p),
         UNCHANGED <<ring, argv>>
  PROVE  OneActive(p)' /\ Stream(p)'
BY SameThreadsKeep, StreamStays

LEMMA OthersSubmit ==
  ASSUME KernelInv, TracerInv, [Next]_vars, NEW p \in PIDs, SameThreads(p), OneActive(p), Stream(p),
         argv' = argv, NEW c \in Cpus, NEW r \in Records, r.pid # p, Submits(c, r)
  PROVE  OneActive(p)' /\ Stream(p)'
<1>1. CASE ring' = ring
  BY <1>1, OthersOnly
<1>2. CASE ring' = [ring EXCEPT ![c] = Append(@, r)]
  <2>1. \A d \in Cpus : NoneOf(ring[d], p) => NoneOf(ring'[d], p)
    BY <1>2, JoinOf DEF NoneOf
  <2>2. ASSUME NEW d \in Cpus, NEW f, NEW g, Chain(ring[d], p, f, g) PROVE Chain(ring'[d], p, f, g)
    <3>1. CASE d = c
      <4>1. ring[c] \in Seq(Records) /\ ring'[c] = Append(ring[c], r)
        BY <1>2 DEF TracerInv
      <4> QED
        BY <2>2, <3>1, <4>1, ChainAppend
    <3>2. CASE d # c
      BY <1>2, <2>2, <3>2 DEF TracerInv
    <3> QED
      BY <3>1, <3>2
  <2> QED
    BY <2>1, <2>2, SameThreadsKeep, StreamKept
<1> QED
  BY <1>1, <1>2 DEF Submits

\* What WatchEvent takes moves the beginning of the stream.
LEMMA TakesStream ==
  ASSUME KernelInv, TracerInv, [Next]_vars, NEW p \in PIDs, OneActive(p), Stream(p),
         NEW c \in Cpus, Takes(c)
  PROVE  OneActive(p)' /\ Stream(p)'
<1> DEFINE r == ring[c][1]
<1>1. ring[c] # << >> /\ ring' = [ring EXCEPT ![c] = Tail(@)] /\ UNCHANGED <<probed, thread, left, call, called>>
  BY DEF Takes, kernelVars
<1>2. /\ 1 \in DOMAIN ring[c] /\ Head(ring[c]) = r /\ r \in Records /\ RecordOK(r, called)
      /\ \A i \in DOMAIN ring'[c] : i + 1 \in DOMAIN ring[c] /\ ring'[c][i] = ring[c][i + 1]
      /\ \A d \in Cpus \ {c} : ring'[d] = ring[d]
  BY <1>1, HeadOf
<1>3. SameThreads(p)
  BY <1>1 DEF SameThreads
<1>4. OneActive(p)' /\ \A g : Reached(p, g) => Reached(p, g)'
  BY <1>3, SameThreadsKeep
<1>5. PICK b \in Cpus, f \in Positions, g \in Positions :
        /\ \A d \in Cpus \ {b} : NoneOf(ring[d], p)
        /\ Chain(ring[b], p, f, g) /\ Reached(p, g)
        /\ f = Idle \/ f[1] \in DOMAIN called
        /\ ArgsOf(argv[p]) = ShownAt(f, called)
        /\ OfCall(argv[p], f[1])
  BY DEF Stream
<1>6. \A d \in Cpus \ {b} : NoneOf(ring'[d], p)
  BY <1>2, <1>5 DEF NoneOf
<1>7. ring[c] \in Seq(Records) /\ ring'[c] = Tail(ring[c])
  BY <1>1 DEF TracerInv
<1>8. CASE r.pid # p
  <2>1. argv'[p] = argv[p]
    BY <1>2, <1>8 DEF Takes, TracerInv
  <2>2. Chain(ring'[b], p, f, g)
    <3>1. CASE b = c
      BY <1>1, <1>5, <1>7, <1>8, <3>1, ChainTail
    <3>2. CASE b # c
      BY <1>2, <1>5, <3>2
    <3> QED
      BY <3>1, <3>2
  <2>3. Reached(p, g)' /\ called' = called
    BY <1>1, <1>4, <1>5
  <2>4. ArgsOf(argv'[p]) = ShownAt(f, called') /\ OfCall(argv'[p], f[1])
    BY <1>5, <2>1, <2>3
  <2>5. Stream(p)'
    BY <1>5, <1>6, <2>2, <2>3, <2>4 DEF Stream
  <2> QED
    BY <1>4, <2>5
<1>9. CASE r.pid = p
  <2>1. b = c
    BY <1>2, <1>5, <1>9 DEF NoneOf
  <2>2. f = Before(r) /\ Chain(ring'[c], p, After(r), g)
    BY <1>1, <1>5, <1>7, <1>9, <2>1, ChainTail
  <2>3. After(r) \in Positions /\ (After(r) = Idle \/ After(r)[1] \in DOMAIN called)
    <3>1. After(r) = Idle \/ After(r) = <<r.call, r.at>>
      BY DEF After
    <3>2. r.call \in DOMAIN called
      BY <1>2 DEF RecordOK
    <3> QED
      BY <1>2, <3>1, <3>2, AfterIsPosition
  <2>4. ArgsOf(argv'[p]) = ShownAt(After(r), called)
    <3>1. argv[p] \in Seq(Gatherings) /\ argv'[p] \in Seq(Gatherings)
      BY TracerKept DEF TracerInv
    <3>2. CASE r.type = "ARG" /\ r.arg = Blank /\ argv' = argv
      BY <1>2, <1>5, <2>2, <3>2, ShownAfterArg
    <3>3. CASE r.type = "ARG" /\ r.arg # Blank /\ argv' = [argv EXCEPT ![r.pid] = Append(@, Gathered(r))]
      <4> DEFINE a == Gathered(r)
      <4>1. argv'[p] = Append(argv[p], a) /\ a.arg = r.arg
        BY <1>9, <3>3 DEF TracerInv, Gathered
      <4>2. a \in Gatherings
        <5>1. a = argv'[p][Len(argv[p]) + 1] /\ Len(argv[p]) + 1 \in 1..Len(argv'[p])
          <6> HIDE DEF a
          <6> QED
            BY <3>1, <4>1
        <5> QED
          BY <3>1, <5>1, ElementOfSeq
      <4>3. ArgsOf(argv'[p]) = Append(ArgsOf(argv[p]), r.arg)
        <5> HIDE DEF a
        <5> QED
          BY <3>1, <4>1, <4>2, ArgsOfAppend
      <4> QED
        BY <1>2, <1>5, <2>2, <3>3, <4>3, ShownAfterArg
    <3>4. CASE r.type = "RET" /\ argv' = [argv EXCEPT ![r.pid] = << >>]
      <4>1. argv'[p] = << >>
        BY <1>9, <3>4 DEF TracerInv
      <4>2. After(r) = Idle
        BY <3>4 DEF After
      <4> QED
        BY <4>1, <4>2 DEF ShownAt, ArgsOf
    <3> HIDE DEF r
    <3> QED
      BY <1>2, <3>2, <3>3, <3>4 DEF Takes
  \* What was gathered before an argument is of the argument's call.
  <2>8. OfCall(argv'[p], After(r)[1])
    <3>1. argv[p] \in Seq(Gatherings) /\ argv'[p] \in Seq(Gatherings) /\ r.call \in 1..MaxCalls
      BY <1>2, TracerKept DEF TracerInv, Records
    <3>2. ASSUME r.type = "ARG" PROVE OfCall(argv[p], r.call) /\ After(r)[1] = r.call
      <4>1. After(r)[1] = r.call
        BY <3>2 DEF After
      <4>2. CASE r.at = 1
        <5>1. OfCall(argv[p], 0)
          BY <1>5, <2>2, <4>2 DEF Before, Idle
        <5>2. \A i \in DOMAIN argv[p] : argv[p][i].call \in 1..MaxCalls
          <6>1. \A i \in DOMAIN argv[p] : argv[p][i] \in Gatherings
            BY <3>1, ElementOfSeq
          <6> QED
            BY <6>1 DEF Gatherings
        <5> QED
          BY <4>1, <5>1, <5>2, ExecTracerAssumption DEF OfCall
      <4>3. CASE r.at # 1
        BY <1>5, <2>2, <4>1, <4>3 DEF Before
      <4> QED
        BY <4>2, <4>3
    <3>3. CASE r.type = "ARG" /\ argv' = argv
      BY <3>2, <3>3
    <3>4. CASE r.type = "ARG" /\ argv' = [argv EXCEPT ![r.pid] = Append(@, Gathered(r))]
      <4> DEFINE a == Gathered(r)
      <4>1. argv'[p] = Append(argv[p], a) /\ a.call = r.call
        BY <1>9, <3>4 DEF TracerInv, Gathered
      <4> HIDE DEF a
      <4>2. \A i \in DOMAIN argv'[p] :
              argv'[p][i] = a \/ (i \in DOMAIN argv[p] /\ argv'[p][i] = argv[p][i])
        BY <3>1, <4>1
      <4> QED
        BY <3>2, <3>4, <4>1, <4>2 DEF OfCall
    <3>5. CASE r.type = "RET" /\ argv' = [argv EXCEPT ![r.pid] = << >>]
      BY <1>9, <3>5 DEF TracerInv, OfCall
    <3> HIDE DEF r
    <3> QED
      BY <1>2, <3>3, <3>4, <3>5 DEF Takes
  <2>5. Reached(p, g)' /\ called' = called
    BY <1>1, <1>4, <1>5
  <2>6. ArgsOf(argv'[p]) = ShownAt(After(r), called') /\ \A d \in Cpus \ {c} : NoneOf(ring'[d], p)
    BY <1>6, <2>1, <2>4, <2>5
  <2> HIDE DEF r
  <2>7. Stream(p)'
    BY <2>2, <2>3, <2>5, <2>6, <2>8, <1>5 DEF Stream
  <2> QED
    BY <1>4, <2>7
<1> QED
  BY <1>8, <1>9

\* The record that a thread of p submits undisturbed goes on where the stream has come.
LEMMA OwnSubmits ==
  ASSUME KernelInv, TracerInv, [Next]_vars, NEW p \in PIDs, Stream(p), UNCHANGED <<argv, called>>,
         NEW c \in Cpus, NEW r \in Records, r.pid = p,
         ~ WaitsElsewhere(p, c), ring' = [ring EXCEPT ![c] = Append(@, r)],
         \A g : Reached(p, g) => g = Before(r),
         Reached(p, After(r))'
  PROVE  Stream(p)'
<1>1. PICK b \in Cpus, f \in Positions, g \in Positions :
        /\ \A d \in Cpus \ {b} : NoneOf(ring[d], p)
        /\ Chain(ring[b], p, f, g) /\ Reached(p, g)
        /\ f = Idle \/ f[1] \in DOMAIN called
        /\ ArgsOf(argv[p]) = ShownAt(f, called)
        /\ OfCall(argv[p], f[1])
  BY DEF Stream
<1>2. \A d \in Cpus \ {c} : NoneOf(ring[d], p)
  BY DEF WaitsElsewhere, NoneOf
<1>3. ring \in [Cpus -> Seq(Records)]
  BY DEF TracerInv
<1>4. Chain(ring[c], p, f, g)
  <2>1. CASE b = c
    BY <1>1, <2>1
  <2>2. CASE b # c
    <3>1. NoneOf(ring[b], p) /\ NoneOf(ring[c], p)
      BY <1>1, <1>2, <2>2
    <3>2. f = g
      BY <1>1, <1>3, <3>1, ChainOfNone
    <3> QED
      BY <1>3, <3>1, <3>2, ChainOfNone
  <2> QED
    BY <2>1, <2>2
<1>5. g = Before(r)
  BY <1>1
<1>6. ring'[c] = Append(ring[c], r) /\ \A d \in Cpus \ {c} : ring'[d] = ring[d]
  BY <1>3
<1>7. Chain(ring'[c], p, f, After(r)) /\ After(r) \in Positions
  BY <1>3, <1>4, <1>5, <1>6, ChainAppend, AfterIsPosition
<1>8. \A d \in Cpus \ {c} : NoneOf(ring'[d], p)
  BY <1>2, <1>6
<1>9. /\ f = Idle \/ f[1] \in DOMAIN called'
      /\ ArgsOf(argv'[p]) = ShownAt(f, called') /\ OfCall(argv'[p], f[1])
  BY <1>1
<1> QED
  BY <1>7, <1>8, <1>9 DEF Stream

\* What a submission that does not disturb finds.
LEMMA Undisturbed ==
  ASSUME NEW t \in Threads, NEW c, NEW r, PerfSubmit(t, c, r), PID[t] \notin disturbed'
  PROVE  /\ ring' = [ring EXCEPT ![c] = Append(@, r)]
         /\ ~ WaitsElsewhere(PID[t], c)
         /\ \A u \in Threads : PID[u] = PID[t] /\ u # t => thread[u] = "user"
<1> DEFINE lost == "perf" \notin attached \/ Len(ring[c]) >= RingSize
           mixed == WaitsElsewhere(PID[t], c) \/ InCall(PID[t]) # {t}
<1>1. /\ ring' = IF lost THEN ring ELSE [ring EXCEPT ![c] = Append(@, r)]
      /\ disturbed' = disturbed \union (IF lost \/ mixed THEN {PID[t]} ELSE {})
  BY DEF PerfSubmit
<1>2. ~ lost /\ ~ mixed
  <2> HIDE DEF lost, mixed
  <2> QED
    BY <1>1
<1> QED
  BY <1>1, <1>2 DEF InCall

LEMMA OwnArg ==
  ASSUME KernelInv, TracerInv, [Next]_vars, NEW p \in PIDs, OneActive(p), Stream(p),
         p \notin disturbed',
         NEW t \in Threads, PID[t] = p, SubmitArg(t)
  PROVE  OneActive(p)' /\ Stream(p)'
<1>1. PICK r \in Records : r = ArgRecord(t)
  BY SubmitArgSubmits DEF RecordOK
<1>2. PerfSubmit(t, cpu[t], r) /\ thread[t] = "enter" /\ UNCHANGED <<probed, call, called, argv>>
  BY <1>1 DEF SubmitArg
<1>3. PICK c \in Cpus : c = cpu[t]
  BY SubmitArgSubmits
<1>4. /\ ring' = [ring EXCEPT ![c] = Append(@, r)] /\ ~ WaitsElsewhere(p, c)
      /\ \A u \in Threads : PID[u] = p /\ u # t => thread[u] = "user"
  BY <1>2, <1>3, Undisturbed
<1>5. /\ Sent(t) \in Nat /\ Sent(t)' = Sent(t) + 1 /\ call[t] \in Nat \ {0}
  <2>1. call[t] \in 1..Len(called)
    BY <1>2, CallOf
  <2> QED
    BY <2>1, SentBySubmit
<1>6. probed[t]
  BY <1>2 DEF OneActive
<1>7. \A u \in Threads : PID[u] = p /\ u # t => ~ probed[u]
  BY <1>4, ProbedInCall
<1>8. r.pid = p /\ r.type = "ARG" /\ r.call = call[t] /\ r.at = Sent(t) + 1
  BY <1>1 DEF ArgRecord
<1>9. ASSUME NEW g, Reached(p, g) PROVE g = Before(r)
  <2>1. CASE Sent(t) = 0
    <3>1. \A u \in Threads : PID[u] = p => ~ Active(u)
      BY <1>7, <2>1 DEF Active
    <3>2. g = Idle
      BY <1>9, <3>1 DEF Reached
    <3>3. r.at = 1
      BY <1>8, <2>1
    <3> QED
      BY <3>2, <3>3 DEF Before
  <2>2. CASE Sent(t) # 0
    <3>1. Active(t)
      BY <1>5, <1>6, <2>2 DEF Active
    <3>2. g = <<call[t], Sent(t)>>
      BY <1>7, <1>9, <3>1 DEF Reached, Active
    <3>3. r.at # 1 /\ r.at - 1 = Sent(t)
      BY <1>5, <1>8, <2>2
    <3> QED
      BY <1>8, <3>2, <3>3 DEF Before
  <2> QED
    BY <2>1, <2>2
<1>10. Reached(p, After(r))'
  <2>1. After(r) = <<call'[t], Sent(t)'>>
    BY <1>2, <1>5, <1>8 DEF After
  <2>2. Active(t)'
    BY <1>2, <1>5, <1>6 DEF Active
  <2> QED
    BY <2>1, <2>2 DEF Reached
<1>11. Stream(p)'
  BY <1>2, <1>4, <1>8, <1>9, <1>10, OwnSubmits
<1>12. OneActive(p)'
  <2>1. ASSUME NEW u \in Threads, PID[u] = p, u # t PROVE thread'[u] = "user" /\ ~ Active(u)'
    <3>1. thread'[u] = thread[u]
      BY <2>1 DEF SubmitArg, KernelInv
    <3> QED
      BY <1>2, <1>4, <1>7, <2>1, <3>1 DEF Active
  <2> QED
    BY <1>2, <1>6, <2>1 DEF OneActive
<1> QED
  BY <1>11, <1>12

\* A return that does not disturb: no call of the process remains.
LEMMA OwnReturn ==
  ASSUME KernelInv, TracerInv, [Next]_vars, NEW p \in PIDs, OneActive(p), Stream(p),
         p \notin disturbed',
         NEW t \in Threads, PID[t] = p, ExecveReturn(t)
  PROVE  OneActive(p)' /\ Stream(p)'
<1>1. PICK r \in Records : r = RetRecord(t)
  BY ReturnSubmits DEF RecordOK
<1>2. PICK c \in Cpus : PerfSubmit(t, c, r)
  BY <1>1 DEF ExecveReturn
<1>3. /\ ring' = [ring EXCEPT ![c] = Append(@, r)] /\ ~ WaitsElsewhere(p, c)
      /\ \A u \in Threads : PID[u] = p /\ u # t => thread[u] = "user"
  BY <1>2, Undisturbed
<1>4. thread[t] = "execve" /\ probed[t] /\ CallsOver(t) /\ UNCHANGED <<called, argv>>
  BY DEF ExecveReturn
<1>5. /\ Sent(t) = Len(Submitted(called[call[t]].args)) /\ Sent(t) \in Nat \ {0}
      /\ call[t] \in Nat \ {0}
  <2>1. /\ call[t] \in 1..Len(called) /\ Sent(t) = Len(Submitted(called[call[t]].args))
        /\ Len(Submitted(called[call[t]].args)) \in 1..(MAXARG + 1)
    BY <1>4, CallOf
  <2> QED
    BY <2>1, ExecTracerAssumption
<1>6. \A u \in Threads : PID[u] = p /\ u # t => ~ probed[u]
  BY <1>3, ProbedInCall
<1>7. r.pid = p /\ r.type = "RET" /\ r.call = call[t] /\ r.at = Sent(t) + 1
  BY <1>1 DEF RetRecord
<1>8. ASSUME NEW g, Reached(p, g) PROVE g = Before(r)
  <2>1. Active(t)
    BY <1>4, <1>5 DEF Active
  <2>2. g = <<call[t], Sent(t)>>
    BY <1>6, <1>8, <2>1 DEF Reached, Active
  <2>3. r.at # 1 /\ r.at - 1 = Sent(t)
    BY <1>5, <1>7
  <2> QED
    BY <1>7, <2>2, <2>3 DEF Before
<1>9. ASSUME NEW u \in Threads, PID[u] = p PROVE thread'[u] = "user" /\ ~ probed'[u]
  <2>1. PICK over \in {{t}, {v \in Threads : PID[v] = PID[t]}} :
          /\ thread' = [v \in Threads |-> IF v \in over THEN "user" ELSE thread[v]]
          /\ probed' = [v \in Threads |-> v \notin over /\ probed[v]]
    BY <1>4 DEF CallsOver
  <2> QED
    BY <1>3, <1>6, <1>9, <2>1
<1>10. Reached(p, After(r))'
  BY <1>7, <1>9 DEF Reached, After, Active
<1>11. Stream(p)'
  BY <1>3, <1>4, <1>7, <1>8, <1>10, OwnSubmits
<1>12. OneActive(p)'
  BY <1>9 DEF OneActive, Active
<1> QED
  BY <1>11, <1>12

\* A call begins: it has submitted nothing.
LEMMA OwnEnter ==
  ASSUME KernelInv, [Next]_vars, NEW p \in PIDs, OneActive(p), Stream(p), p \notin disturbed',
         NEW t \in Threads, PID[t] = p, ExecveEnter(t)
  PROVE  OneActive(p)' /\ Stream(p)'
<1>1. PICK args \in ArgLists, hit \in BOOLEAN :
        /\ hit => "return" \in attached
        /\ called' = Append(called, [pid |-> PID[t], life |-> life[PID[t]], args |-> args])
        /\ probed' = [probed EXCEPT ![t] = hit]
        /\ IF "entry" \in attached
           THEN /\ left' = [left EXCEPT ![t] = Submitted(args)]
                /\ thread' = [thread EXCEPT ![t] = "enter"]
                /\ disturbed' = disturbed \union (IF hit THEN {} ELSE {PID[t]})
           ELSE /\ thread' = [thread EXCEPT ![t] = "execve"]
                /\ UNCHANGED left
  BY DEF ExecveEnter
<1>2. /\ thread[t] = "user" /\ call' = [call EXCEPT ![t] = Len(called) + 1]
      /\ UNCHANGED <<ring, argv>>
  BY DEF ExecveEnter
<1>3. /\ thread \in [Threads -> {"user", "enter", "execve"}] /\ left \in [Threads -> Seq(SubmittedArgs)]
      /\ probed \in [Threads -> BOOLEAN] /\ call \in [Threads -> Nat]
      /\ called \in Seq(Calls) /\ attached \in ToSet(Stages)
  BY DEF KernelInv
<1>4. ASSUME NEW u \in Threads, u # t
      PROVE  /\ thread'[u] = thread[u] /\ left'[u] = left[u]
             /\ call'[u] = call[u] /\ probed'[u] = probed[u]
             /\ thread[u] # "user" => Sent(u)' = Sent(u)
             /\ Active(u)' <=> Active(u)
  <2>1. thread'[u] = thread[u] /\ left'[u] = left[u] /\ call'[u] = call[u] /\ probed'[u] = probed[u]
    BY <1>1, <1>2, <1>3, <1>4
  <2>2. thread[u] # "user" => Sent(u)' = Sent(u)
    BY <2>1, SameSentInCall
  <2>3. probed[u] => thread[u] # "user"
    BY ProbedInCall
  <2> QED
    BY <2>1, <2>2, <2>3 DEF Active
<1>5. ~ Active(t)
  BY <1>2, ProbedInCall DEF Active
<1>6. /\ thread'[t] = "enter" => probed'[t] /\ Sent(t)' = 0
      /\ thread'[t] # "enter" => "entry" \notin attached /\ ~ probed'[t]
      /\ ~ Active(t)'
  <2>1. CASE "entry" \in attached
    <3>1. left'[t] = Submitted(args) /\ thread'[t] = "enter"
      BY <1>1, <1>3, <2>1
    <3>2. hit
      BY <1>1, <2>1
    <3>3. called'[call'[t]].args = args
      <4>1. call'[t] = Len(called) + 1
        BY <1>2, <1>3
      <4> DEFINE new == [pid |-> PID[t], life |-> life[PID[t]], args |-> args]
      <4>2. new \in Calls /\ called' = Append(called, new)
        <5>1. PID[t] \in PIDs /\ life[PID[t]] \in 0..MaxLives
          BY DEF PIDs, KernelInv
        <5>2. called' = Append(called, new)
          BY <1>1
        <5> QED
          BY <5>1, <5>2 DEF Calls
      <4> HIDE DEF new
      <4>3. called'[Len(called) + 1] = new
        BY <1>3, <4>2, AppendProperties
      <4> QED
        BY <4>1, <4>3 DEF new
    <3>4. Len(Submitted(args)) \in 1..(MAXARG + 1) /\ MAXARG \in Nat
      BY SubmittedOK, ExecTracerAssumption
    <3>5. Sent(t)' = Len(Submitted(args)) - Len(Submitted(args))
      BY <3>1, <3>3 DEF Sent
    <3>6. Sent(t)' = 0
      BY <3>4, <3>5
    <3> QED
      BY <1>1, <1>3, <3>1, <3>2, <3>6 DEF Active
  <2>2. CASE "entry" \notin attached
    <3>1. thread'[t] = "execve" /\ ~ hit
      BY <1>1, <1>3, <2>2, ReturnAfterEntry
    <3> QED
      BY <1>1, <1>3, <2>2, <3>1 DEF Active
  <2> QED
    BY <2>1, <2>2
<1>7. OneActive(p)'
  <2>1. ASSUME NEW u \in Threads, PID[u] = p, thread'[u] = "enter" PROVE probed'[u]
    BY <1>4, <1>6, <2>1 DEF OneActive
  <2>2. ASSUME NEW v \in Threads, NEW u \in Threads, PID[v] = p, PID[u] = p, u # v, Active(v)',
               thread'[u] # "user"
        PROVE  thread'[u] = "enter" /\ Sent(u)' = 0
    <3>1. v # t /\ Active(v)
      BY <1>4, <1>6, <2>2
    <3>2. CASE u = t
      <4>1. "entry" \in attached
        BY <3>1, ProbedInCall DEF Active
      <4> QED
        BY <1>6, <3>2, <4>1
    <3>3. CASE u # t
      BY <1>4, <2>2, <3>1, <3>3 DEF OneActive
    <3> QED
      BY <3>2, <3>3
  <2> QED
    BY <2>1, <2>2 DEF OneActive
<1>8. ASSUME NEW g, Reached(p, g) PROVE Reached(p, g)'
  <2>1. ASSUME NEW u \in Threads, PID[u] = p, Active(u), g = <<call[u], Sent(u)>> PROVE Reached(p,
               g)'
    <3>1. u # t /\ thread[u] # "user"
      BY <1>5, <2>1, ProbedInCall DEF Active
    <3>2. Active(u)' /\ g = <<call'[u], Sent(u)'>>
      BY <1>4, <2>1, <3>1
    <3> QED
      BY <2>1, <3>2 DEF Reached
  <2>2. ASSUME g = Idle, \A u \in Threads : PID[u] = p => ~ Active(u) PROVE Reached(p, g)'
    BY <1>4, <1>6, <2>2 DEF Reached
  <2> QED
    BY <1>8, <2>1, <2>2 DEF Reached
<1>9. Stream(p)'
  BY <1>2, <1>8, StreamStays
<1> QED
  BY <1>7, <1>9

\* A return that is not probed, in a process that is not disturbed: its call had submitted
\* nothing, and neither had any other.
LEMMA OwnUnseen ==
  ASSUME KernelInv, [Next]_vars, NEW p \in PIDs, OneActive(p), Stream(p),
         NEW t \in Threads, PID[t] = p, ReturnUnseen(t)
  PROVE  OneActive(p)' /\ Stream(p)'
<1>1. thread[t] = "execve" /\ ~ probed[t] /\ CallsOver(t) /\ UNCHANGED <<left, called, ring, argv>>
  BY DEF ReturnUnseen
<1>2. \A u \in Threads : PID[u] = p => ~ Active(u)
  BY <1>1 DEF OneActive, Active
<1>3. PICK over \in {{t}, {v \in Threads : PID[v] = PID[t]}} :
        /\ thread' = [v \in Threads |-> IF v \in over THEN "user" ELSE thread[v]]
        /\ call' = [v \in Threads |-> IF v \in over THEN 0 ELSE call[v]]
        /\ probed' = [v \in Threads |-> v \notin over /\ probed[v]]
  BY <1>1 DEF CallsOver
<1>4. ASSUME NEW u \in Threads, PID[u] = p PROVE ~ Active(u)'
  <2>1. CASE u \in over
    BY <1>3, <2>1 DEF Active
  <2>2. CASE u \notin over
    <3>1. call'[u] = call[u] /\ (probed'[u] => probed[u])
      BY <1>3, <2>2
    <3>2. Sent(u)' = Sent(u)
      BY <1>1, <3>1 DEF Sent
    <3> QED
      BY <1>2, <1>4, <3>1, <3>2 DEF Active
  <2> QED
    BY <2>1, <2>2
<1>5. OneActive(p)'
  <2>1. ASSUME NEW u \in Threads, PID[u] = p, thread'[u] = "enter" PROVE probed'[u]
    <3>1. u \notin over /\ thread[u] = "enter"
      BY <1>3, <2>1
    <3> QED
      BY <1>3, <2>1, <3>1 DEF OneActive
  <2> QED
    BY <1>4, <2>1 DEF OneActive
<1>6. ASSUME NEW g, Reached(p, g) PROVE Reached(p, g)'
  BY <1>2, <1>4, <1>6 DEF Reached
<1>7. Stream(p)'
  BY <1>1, <1>6, StreamStays
<1> QED
  BY <1>5, <1>7

\* Where nothing of a process is under way and nothing is gathered, its stream is at rest.
LEMMA ComesToRest ==
  ASSUME KernelInv, NEW p \in PIDs, UNCHANGED <<thread, probed>>, InCall(p) = {}, argv'[p] = << >>,
         Cpus # {}, \A d \in Cpus : ring'[d] \in Seq(Records) /\ NoneOf(ring'[d], p)
  PROVE  OneActive(p)' /\ Stream(p)'
<1>1. \A t \in Threads : PID[t] = p => thread'[t] = "user" /\ ~ Active(t)'
  BY ProbedInCall DEF InCall, Active
<1>2. OneActive(p)' /\ Reached(p, Idle)'
  BY <1>1 DEF OneActive, Reached
<1>3. Idle \in Positions
  BY DEF Idle, Positions
<1>4. PICK c \in Cpus : TRUE
  OBVIOUS
<1>5. Chain(ring'[c], p, Idle, Idle)
  BY <1>3, ChainOfNone
<1>6. ArgsOf(argv'[p]) = ShownAt(Idle, called') /\ OfCall(argv'[p], Idle[1])
  BY DEF ShownAt, ArgsOf, OfCall
<1> QED
  BY <1>2, <1>3, <1>5, <1>6 DEF Stream

LEMMA StreamInvKeptOf ==
  ASSUME KernelInv, TracerInv, StreamInv, [Next]_vars,
         NEW p \in PIDs, p \notin disturbed, p \notin disturbed'
  PROVE  OneActive(p)' /\ Stream(p)'
<1>2. OneActive(p) /\ Stream(p)
  BY DEF StreamInv
\* The steps of the threads of other processes.
<1>3. ASSUME NEW t \in Threads, PID[t] # p, ExecveEnter(t) PROVE OneActive(p)' /\ Stream(p)'
  <2>1. SameThreads(p) /\ UNCHANGED <<ring, argv>>
    BY <1>3 DEF ExecveEnter, SameThreads, KernelInv
  <2> QED
    BY <1>2, <2>1, OthersOnly
<1>4. ASSUME NEW t \in Threads, PID[t] # p, CallsOver(t), UNCHANGED left PROVE SameThreads(p)
  <2>1. PICK over \in {{t}, {v \in Threads : PID[v] = PID[t]}} :
          /\ thread' = [v \in Threads |-> IF v \in over THEN "user" ELSE thread[v]]
          /\ call' = [v \in Threads |-> IF v \in over THEN 0 ELSE call[v]]
          /\ probed' = [v \in Threads |-> v \notin over /\ probed[v]]
    BY <1>4 DEF CallsOver
  <2>2. \A u \in Threads : PID[u] = p => u \notin over
    BY <1>4
  <2>3. \A u \in Threads : PID[u] = p => thread'[u] = thread[u] /\ call'[u] = call[u]
    BY <2>1, <2>2
  <2>4. \A u \in Threads : PID[u] = p => probed'[u] = probed[u]
    <3> SUFFICES ASSUME NEW u \in Threads, PID[u] = p PROVE probed'[u] = probed[u]
      OBVIOUS
    <3>1. probed'[u] \in BOOLEAN /\ probed[u] \in BOOLEAN
      BY <2>1 DEF KernelInv
    <3>2. probed'[u] <=> probed[u]
      BY <2>1, <2>2
    <3> QED
      BY <3>1, <3>2
  <2> QED
    BY <1>4, <2>3, <2>4 DEF SameThreads
<1>5. ASSUME NEW t \in Threads, PID[t] # p, SubmitArg(t) PROVE OneActive(p)' /\ Stream(p)'
  <2>1. SameThreads(p)
    BY <1>5 DEF SubmitArg, SameThreads, KernelInv
  <2>2. PICK r \in Records : r = ArgRecord(t)
    BY <1>5, SubmitArgSubmits DEF RecordOK
  <2>3. cpu[t] \in Cpus /\ Submits(cpu[t], r) /\ argv' = argv /\ r.pid # p
    BY <1>5, <2>2, SubmitArgSubmits DEF ArgRecord
  <2> QED
    BY <1>2, <2>1, <2>3, OthersSubmit
<1>6. ASSUME NEW t \in Threads, PID[t] # p, ExecveReturn(t) PROVE OneActive(p)' /\ Stream(p)'
  <2>1. SameThreads(p)
    BY <1>4, <1>6 DEF ExecveReturn
  <2>2. PICK r \in Records : r = RetRecord(t)
    BY <1>6, ReturnSubmits DEF RecordOK
  <2>3. argv' = argv /\ r.pid # p /\ \E c \in Cpus : Submits(c, r)
    BY <1>6, <2>2, ReturnSubmits DEF RetRecord
  <2> QED
    BY <1>2, <2>1, <2>3, OthersSubmit
<1>7. ASSUME NEW t \in Threads, PID[t] # p, ReturnUnseen(t) PROVE OneActive(p)' /\ Stream(p)'
  <2>1. SameThreads(p) /\ UNCHANGED <<ring, argv>>
    BY <1>4, <1>7 DEF ReturnUnseen
  <2> QED
    BY <1>2, <2>1, OthersOnly
<1>8. ASSUME NEW c \in Cpus, Takes(c) PROVE OneActive(p)' /\ Stream(p)'
  BY <1>2, <1>8, TakesStream
<1>9. CASE UNCHANGED vars \/ Load \/ \E q \in PIDs : Reuse(q)
  <2>1. SameThreads(p) /\ UNCHANGED <<ring, argv>>
    BY <1>9 DEF vars, kernelVars, Load, Reuse, SameThreads
  <2> QED
    BY <1>2, <2>1, OthersOnly
<1>10. ASSUME NEW t \in Threads, SubmitArg(t) PROVE OneActive(p)' /\ Stream(p)'
  BY <1>2, <1>5, <1>10, OwnArg
<1>11. ASSUME NEW t \in Threads, ExecveReturn(t) PROVE OneActive(p)' /\ Stream(p)'
  BY <1>2, <1>6, <1>11, OwnReturn
<1>12. ASSUME NEW t \in Threads, ExecveEnter(t) PROVE OneActive(p)' /\ Stream(p)'
  BY <1>2, <1>3, <1>12, OwnEnter
<1>13. ASSUME NEW t \in Threads, ReturnUnseen(t) PROVE OneActive(p)' /\ Stream(p)'
  BY <1>2, <1>7, <1>13, OwnUnseen
<1> QED
  BY <1>8, <1>9, <1>10, <1>11, <1>12, <1>13, EveryStep

LEMMA StreamInvKept ==
  ASSUME KernelInv, TracerInv, StreamInv, [Next]_vars
  PROVE  StreamInv'
<1> SUFFICES ASSUME NEW p \in PIDs, p \notin disturbed'
             PROVE  OneActive(p)' /\ Stream(p)'
  BY DEF StreamInv
\* A PID that was disturbed and no longer is has come to rest.
<1>1. CASE p \in disturbed
  <2>1. PICK c \in Cpus : Takes(c) /\ p = Head(ring[c]).pid /\ Quiet(p, ring') /\ argv' = [argv EXCEPT ![p] = << >>]
    <3>1. \E c \in Cpus : Takes(c)
      <4>1. UNCHANGED vars => disturbed' = disturbed
        BY DEF vars
      <4>2. Load => disturbed' = disturbed
        BY DEF Load
      <4>3. \A t \in Threads : ExecveEnter(t) => disturbed \subseteq disturbed'
        BY DEF ExecveEnter
      <4>4. \A t \in Threads : SubmitArg(t) => disturbed \subseteq disturbed'
        BY DEF SubmitArg, PerfSubmit
      <4>5. \A t \in Threads : ExecveReturn(t) => disturbed \subseteq disturbed'
        BY DEF ExecveReturn, PerfSubmit
      <4>6. \A t \in Threads : ReturnUnseen(t) => disturbed' = disturbed
        BY DEF ReturnUnseen
      <4>7. \A q \in PIDs : Reuse(q) => disturbed' = disturbed
        BY DEF Reuse
      <4> QED
        BY <1>1, <4>1, <4>2, <4>3, <4>4, <4>5, <4>6, <4>7, WatchTakes DEF Next
    <3>2. PICK c \in Cpus : Takes(c)
      BY <3>1
    <3> QED
      BY <1>1, <3>2 DEF Takes
  <2>2. argv'[p] = << >> /\ UNCHANGED <<thread, probed>> /\ InCall(p) = {}
    BY <2>1 DEF Takes, kernelVars, TracerInv, Quiet
  <2>3. \A d \in Cpus : ring'[d] \in Seq(Records) /\ NoneOf(ring'[d], p)
    BY <2>1, TracerKept DEF TracerInv, Quiet, NoneOf
  <2> QED
    BY <2>1, <2>2, <2>3, ComesToRest
<1>2. CASE p \notin disturbed
  BY <1>2, StreamInvKeptOf
<1> QED
  BY <1>1, <1>2

\* The record of a return is where the stream shows the whole of its call's arguments.
LEMMA ArgvExactKept ==
  ASSUME KernelInv, TracerInv, EventInv, StreamInv, ArgvExact, [Next]_vars
  PROVE  ArgvExact'
<1>1. ASSUME event' = event PROVE ArgvExact'
  <2> SUFFICES ASSUME event # NoEvent, ~event.disturbed
               PROVE  /\ ArgsOf(event.argv) = Shown(called'[event.call].args)
                      /\ \A i \in DOMAIN event.argv : event.argv[i].call = event.call
    BY <1>1 DEF ArgvExact
  <2>1. called'[event.call] = called[event.call]
    BY HistoryGrows DEF EventInv, Extends
  <2> QED
    BY <2>1 DEF ArgvExact
<1>2. ASSUME NEW c \in Cpus, Takes(c) PROVE ArgvExact'
  <2> DEFINE r == ring[c][1]
  <2>1. ring[c] # << >> /\ ring' = [ring EXCEPT ![c] = Tail(@)] /\ called' = called
    BY <1>2 DEF Takes, kernelVars
  <2>2. 1 \in DOMAIN ring[c] /\ Head(ring[c]) = r /\ r \in Records /\ RecordOK(r, called)
    BY <2>1, HeadOf
  <2>3. CASE event' = NoEvent
    BY <2>3 DEF ArgvExact
  <2>4. CASE r.type = "RET" /\ event' = EventOf(r)
    <3>1. r.pid \in PIDs
      BY <2>2 DEF Records
    <3> SUFFICES ASSUME r.pid \notin disturbed
                 PROVE  /\ ArgsOf(argv[r.pid]) = Shown(called[r.call].args)
                        /\ OfCall(argv[r.pid], r.call)
      <4>1. /\ event'.pid = r.pid /\ event'.call = r.call /\ event'.argv = argv[r.pid]
            /\ event'.disturbed <=> r.pid \in disturbed
        BY <2>4 DEF EventOf
      <4> HIDE DEF r
      <4> QED
        BY <2>1, <4>1 DEF ArgvExact, OfCall
    <3>2. PICK b \in Cpus, f \in Positions, g \in Positions :
            /\ \A d \in Cpus \ {b} : NoneOf(ring[d], r.pid)
            /\ Chain(ring[b], r.pid, f, g)
            /\ ArgsOf(argv[r.pid]) = ShownAt(f, called)
            /\ OfCall(argv[r.pid], f[1])
      BY <3>1 DEF StreamInv, Stream
    <3>3. b = c
      BY <2>2, <3>2 DEF NoneOf
    <3>4. ring[c] \in Seq(Records)
      BY DEF TracerInv
    <3>5. f = Before(r)
      BY <2>1, <3>2, <3>3, <3>4, ChainTail
    <3>6. f[1] = r.call
      <4>1. Len(Submitted(called[r.call].args)) \in Nat \ {0} /\ r.at = Len(Submitted(called[r.call].args)) + 1
        BY <2>2, <2>4, SubmittedOfRecord DEF RecordOK
      <4>2. r.at # 1
        BY <4>1
      <4> QED
        BY <3>5, <4>2 DEF Before
    <3> QED
      BY <2>2, <2>4, <3>2, <3>5, <3>6, ShownBeforeReturn
  <2> QED
    BY <1>2, <2>2, <2>3, <2>4 DEF Takes
<1>3. ASSUME NEW t \in Threads, SubmitArg(t) \/ ExecveReturn(t) PROVE ArgvExact'
  BY <1>1, <1>3 DEF SubmitArg, ExecveReturn
<1> QED
  BY <1>1, <1>2, <1>3, EveryStep

StreamsInv == ExecInv /\ StreamInv /\ ArgvExact

LEMMA StreamsInvHolds == Spec => []StreamsInv
<1>1. Init => StreamsInv
  <2> SUFFICES ASSUME Init PROVE StreamsInv
    OBVIOUS
  <2>1. ExecInv
    BY ExecInvInit
  <2>2. ASSUME NEW p \in PIDs PROVE OneActive(p) /\ Stream(p)
    <3>1. \A t \in Threads : ~ Active(t) /\ thread[t] = "user"
      BY DEF Init, Active
    <3>2. OneActive(p) /\ Reached(p, Idle)
      BY <3>1 DEF OneActive, Reached
    <3>3. PICK c \in Cpus : c = reading
      BY DEF Init
    <3>4. \A d \in Cpus : ring[d] \in Seq(Records) /\ NoneOf(ring[d], p)
      BY DEF Init, NoneOf
    <3>5. Idle \in Positions
      BY DEF Idle, Positions
    <3>6. Chain(ring[c], p, Idle, Idle)
      BY <3>4, <3>5, ChainOfNone
    <3>7. ArgsOf(argv[p]) = ShownAt(Idle, called) /\ OfCall(argv[p], Idle[1])
      BY DEF Init, ShownAt, ArgsOf, OfCall
    <3> QED
      BY <3>2, <3>4, <3>5, <3>6, <3>7 DEF Stream
  <2>3. ArgvExact
    BY DEF Init, ArgvExact
  <2> QED
    BY <2>1, <2>2, <2>3 DEF StreamsInv, StreamInv
<1>2. StreamsInv /\ [Next]_vars => StreamsInv'
  BY KernelKept, TracerKept, OrderKept, EventKept, StreamInvKept, ArgvExactKept DEF StreamsInv, ExecInv
<1> QED
  BY <1>1, <1>2, PTL DEF Spec

\* An event of a PID that nothing disturbed shows the arguments of the call that returned,
\* all of them, in their order, and none of another call, of the same process or of one that
\* had the PID before; and nothing disturbs a PID for longer than up to the first event that
\* leaves nothing of it under way (exec.go:205-245).
THEOREM EventsAreExact == Spec => []ArgvExact
BY StreamsInvHolds, PTL DEF StreamsInv

\* Whatever is lost, overtaken or mixed, and whoever has the PID by then, an event shows only
\* arguments that were passed under its PID, those of any one call in their order and without
\* repetition; and those of another process that had or got the PID only if records of the PID
\* were lost, overtaken or mixed, or not submitted, before (exec.go:205-245).
THEOREM EventsShowOwnArgs == Spec => []OwnArgsInOrder
<1>1. ASSUME StreamsInv PROVE OwnArgsInOrder
  <2> SUFFICES ASSUME event # NoEvent
               PROVE  /\ \A i \in DOMAIN event.argv :
                           LET a == event.argv[i]
                               args == Submitted(called[a.call].args)
                           IN /\ called[a.call].pid = event.pid
                              /\ called[a.call].life = called[event.call].life \/ event.disturbed
                              /\ a.at \in DOMAIN args /\ a.arg = args[a.at] /\ a.arg # Blank
                      /\ \A i, j \in DOMAIN event.argv :
                           i < j /\ event.argv[i].call = event.argv[j].call
                             => event.argv[i].at < event.argv[j].at
    BY DEF OwnArgsInOrder
  <2>1. ASSUME NEW i \in DOMAIN event.argv
        PROVE  /\ called[event.argv[i].call].pid = event.pid
               /\ event.argv[i].at \in DOMAIN Submitted(called[event.argv[i].call].args)
               /\ event.argv[i].arg = Submitted(called[event.argv[i].call].args)[event.argv[i].at]
               /\ event.argv[i].arg # Blank
    <3>1. GatheredOK(event.argv[i], event.pid, called)
      BY <1>1 DEF StreamsInv, ExecInv, EventInv
    <3>2. event.argv[i].call \in 1..Len(called) /\ called \in Seq(Calls)
      BY <1>1, <3>1 DEF StreamsInv, ExecInv, KernelInv, GatheredOK
    <3>3. called[event.argv[i].call] \in Calls
      BY <3>2
    <3>4. called[event.argv[i].call].args \in ArgLists
      BY <3>3 DEF Calls
    <3>5. Submitted(called[event.argv[i].call].args) \in Seq(SubmittedArgs)
      BY <3>4, SubmittedOK
    <3> QED
      BY <3>1, <3>5 DEF GatheredOK
  <2>2. Rising(event.argv)
    BY <1>1 DEF StreamsInv, ExecInv, EventInv
  <2>3. ASSUME NEW i \in DOMAIN event.argv
        PROVE  called[event.argv[i].call].life = called[event.call].life \/ event.disturbed
    BY <1>1 DEF StreamsInv, ArgvExact
  <2> QED
    BY <2>1, <2>2, <2>3 DEF Rising
<1> QED
  BY <1>1, StreamsInvHolds, PTL

\* When a process that is not disturbed has no call under way and no record on its way,
\* nothing is kept for it: WatchEvent's map of arguments does not grow (exec.go:241).
THEOREM ArgvIsDrained == Spec => []ArgvDrained
<1>1. ASSUME StreamsInv PROVE ArgvDrained
  <2> SUFFICES ASSUME NEW p \in PIDs \ disturbed, InCall(p) = {},
                      \A c \in Cpus : \A i \in DOMAIN ring[c] : ring[c][i].pid # p
               PROVE  argv[p] = << >>
    BY DEF ArgvDrained, Quiet
  <2>1. KernelInv /\ TracerInv /\ StreamInv
    BY <1>1 DEF StreamsInv, ExecInv
  <2>2. PICK c \in Cpus, f \in Positions, g \in Positions :
          /\ Chain(ring[c], p, f, g) /\ Reached(p, g) /\ ArgsOf(argv[p]) = ShownAt(f, called)
    BY <2>1 DEF StreamInv, Stream
  <2>3. \A t \in Threads : PID[t] = p => ~ Active(t)
    BY <2>1, ProbedInCall DEF InCall, Active
  <2>4. g = Idle
    BY <2>2, <2>3 DEF Reached
  <2>5. f = g
    <3>1. ring[c] \in Seq(Records) /\ NoneOf(ring[c], p)
      BY <2>1 DEF TracerInv, NoneOf
    <3> QED
      BY <2>2, <3>1, ChainOfNone
  <2>6. ArgsOf(argv[p]) = << >>
    BY <2>2, <2>4, <2>5 DEF ShownAt
  <2>7. DOMAIN argv[p] = {}
    BY <2>6 DEF ArgsOf
  <2>8. argv[p] \in Seq(Gatherings)
    BY <2>1 DEF TracerInv
  <2>9. Len(argv[p]) = 0
    <3>1. Len(argv[p]) \in Nat /\ DOMAIN argv[p] = 1..Len(argv[p])
      BY <2>8
    <3>2. 1 \notin 1..Len(argv[p])
      BY <2>7, <3>1
    <3> QED
      BY <3>1, <3>2
  <2> QED
    BY <2>8, <2>9, EmptySeq
<1> QED
  BY <1>1, StreamsInvHolds, PTL
================================================================================
