------------------------------ MODULE ExecTracer ------------------------------
(***************************************************************************)
(* The exec tracer (tracer/exec/exec.go): the two BPF programs, the perf   *)
(* buffers they submit their records to, and WatchEvent, which gathers the *)
(* arguments of a process until its return record comes; from the moment   *)
(* that Load begins to attach the programs, while calls are under way.     *)
(*                                                                         *)
(* A call of execve submits a record for each argument and, when it        *)
(* returns, one for its result.  There is a buffer for each CPU: records   *)
(* of one CPU stay in order, a record that finds its buffer full is lost,  *)
(* and a call may enter and return on different CPUs.  The PID of a record *)
(* is that of the process: its threads share it, and when the process has  *)
(* ended another one may get the number, while argv has entries by number, *)
(* which nothing but an event of that number removes.                      *)
(*                                                                         *)
(* A call is the number of its entry.  That number in a record, and in an  *)
(* argument that has been gathered, is history, and so is `at`, which of   *)
(* the call's records it is: the code has neither.                         *)
(*                                                                         *)
(* The error return of GetUIDGID (exec.go:223-226) is left out: whatever   *)
(* the status file holds it is never taken (NoneDropped in ProbePairs,     *)
(* where the same call is modelled with the text that it reads).           *)
(***************************************************************************)
EXTENDS Naturals, Sequences, SequencesExt, FiniteSetsExt

CONSTANTS
  Threads,      \* the threads that call execve
  PID,          \* PID[t]: the PID of thread t's process
  Cpus,         \* the CPUs, each with a buffer
  ArgLists,     \* what execve is called with: the file's name, then argv[1], ...
  Blank,        \* an argument of which TrimSpace leaves nothing
  Ellipsis,     \* "..."
  MAXARG,       \* the limit of the same name
  RingSize,     \* bound: how many records a buffer holds
  MaxCalls,     \* bound: the number of calls
  MaxLives      \* bound: how often a PID is given to another process

PIDs == {PID[t] : t \in Threads}

\* The arguments that execve may be called with.
AllArgs == UNION {ToSet(args) : args \in ArgLists}

ASSUME ExecTracerAssumption ==
  /\ MAXARG \in Nat \ {0, 1}
  /\ RingSize \in Nat /\ MaxCalls \in Nat /\ MaxLives \in Nat
  /\ 0 \notin Cpus
  /\ \A args \in ArgLists : args \in Seq(AllArgs) /\ args # << >>
  /\ Ellipsis # Blank

VARIABLES
  attached,     \* how far Load has come
  probed,       \* whether the return of the thread's call will run its program
  thread,       \* where a thread is: in user code, in syscall__execve, or in the kernel
  left,         \* the arguments syscall__execve has not submitted yet
  cpu,          \* the CPU syscall__execve runs on, or 0
  call,         \* the number of the thread's call, or 0
  ring,         \* the buffer of each CPU
  reading,      \* the CPU whose buffer perf_reader_poll is emptying
  argv,         \* bpftracer.argv
  event,        \* the event WatchEvent has just returned, or NoEvent
  life,         \* history: which of the processes that get the PID has it
  called,       \* history: what each call was called with, and by which process
  disturbed     \* history: the PIDs of which records were lost, overtaken or mixed
                \* with those of another call, or not submitted on return, since
                \* an event last found nothing else of the PID

kernelVars == <<attached, probed, thread, left, cpu, call, life, called>>
vars == <<kernelVars, ring, reading, argv, event, disturbed>>

\* `call` and `disturbed` of an event are history too.
NoEvent == [pid |-> 0, call |-> 0, argv |-> << >>, disturbed |-> FALSE]

Init ==
  /\ attached = {}
  /\ probed = [t \in Threads |-> FALSE]
  /\ thread = [t \in Threads |-> "user"]
  /\ left = [t \in Threads |-> << >>]
  /\ cpu = [t \in Threads |-> 0]
  /\ call = [t \in Threads |-> 0]
  /\ ring = [c \in Cpus |-> << >>]
  /\ reading \in Cpus
  /\ argv = [p \in PIDs |-> << >>]
  /\ event = NoEvent
  /\ life = [p \in PIDs |-> 0]
  /\ called = << >>
  /\ disturbed = {}

-----------------------------------------------------------------------------
(* The kernel's side.                                                      *)

\* Load: the probe on entry, the one on return, the buffers.
Stages == <<{}, {"entry"}, {"entry", "return"}, {"entry", "return", "perf"}>>

Load ==
  /\ \E i \in 1..3 : attached = Stages[i] /\ attached' = Stages[i + 1]
  /\ UNCHANGED <<probed, thread, left, cpu, call, life, called,
                 ring, reading, argv, event, disturbed>>

\* The arguments that are submitted: the loop ends at argv's NULL or at i = MAXARG,
\* and only in the second case does it come to the ellipsis.
Submitted(args) ==
  IF Len(args) < MAXARG THEN args ELSE Append(SubSeq(args, 1, MAXARG), Ellipsis)

\* How many of its arguments the thread's call has submitted.
Sent(t) == Len(Submitted(called[call[t]].args)) - Len(left[t])

ArgRecord(t) ==
  [type |-> "ARG", pid |-> PID[t], arg |-> Head(left[t]), call |-> call[t], at |-> Sent(t) + 1]
RetRecord(t) ==
  [type |-> "RET", pid |-> PID[t], arg |-> Blank, call |-> call[t], at |-> Sent(t) + 1]

InCall(p) == {t \in Threads : PID[t] = p /\ thread[t] # "user"}

\* Some record of process p waits in a buffer other than c's.
WaitsElsewhere(p, c) ==
  \E d \in Cpus \ {c} : \E i \in DOMAIN ring[d] : ring[d][i].pid = p

\* events.perf_submit by t on c: a record that has no buffer, or does not fit, is lost.
PerfSubmit(t, c, record) ==
  LET lost == "perf" \notin attached \/ Len(ring[c]) >= RingSize
      mixed == WaitsElsewhere(PID[t], c) \/ InCall(PID[t]) # {t}
  IN /\ ring' = IF lost THEN ring ELSE [ring EXCEPT ![c] = Append(@, record)]
     /\ disturbed' = disturbed \union (IF lost \/ mixed THEN {PID[t]} ELSE {})

\* A thread calls execve on some CPU: the entry probe begins, if it is there.  The
\* kernel settles here whether the return will be probed: it has a number of slots.
ExecveEnter(t) ==
  /\ thread[t] = "user"
  /\ Len(called) < MaxCalls
  /\ \E args \in ArgLists, c \in Cpus, hit \in BOOLEAN :
       /\ c \notin {cpu[u] : u \in Threads}
       /\ hit => "return" \in attached
       /\ called' = Append(called, [pid |-> PID[t], life |-> life[PID[t]], args |-> args])
       /\ probed' = [probed EXCEPT ![t] = hit]
       /\ IF "entry" \in attached
          THEN /\ left' = [left EXCEPT ![t] = Submitted(args)]
               /\ cpu' = [cpu EXCEPT ![t] = c]
               /\ thread' = [thread EXCEPT ![t] = "enter"]
               /\ disturbed' = disturbed \union (IF hit THEN {} ELSE {PID[t]})
          ELSE /\ thread' = [thread EXCEPT ![t] = "execve"]
               /\ UNCHANGED <<left, cpu, disturbed>>
  /\ call' = [call EXCEPT ![t] = Len(called) + 1]
  /\ UNCHANGED <<attached, life, ring, reading, argv, event>>

\* Faulty variant of SubmitArg: the loop ends one argument early.
SubmitArgEndsEarly(t) ==
  /\ thread[t] = "enter"
  /\ PerfSubmit(t, cpu[t], ArgRecord(t))
  /\ left' = [left EXCEPT ![t] = Tail(@)]
  /\ IF Len(left[t]) > 2
     THEN UNCHANGED <<thread, cpu>>
     ELSE thread' = [thread EXCEPT ![t] = "execve"] /\ cpu' = [cpu EXCEPT ![t] = 0]
  /\ UNCHANGED <<attached, probed, call, life, called, reading, argv, event>>

\* __submit_arg: the next argument.  A record that is lost does not stop the loop.
SubmitArg(t) ==
  /\ thread[t] = "enter"
  /\ PerfSubmit(t, cpu[t], ArgRecord(t))
  /\ left' = [left EXCEPT ![t] = Tail(@)]
  /\ IF Len(left[t]) > 1
     THEN UNCHANGED <<thread, cpu>>
     ELSE thread' = [thread EXCEPT ![t] = "execve"] /\ cpu' = [cpu EXCEPT ![t] = 0]
  /\ UNCHANGED <<attached, probed, call, life, called, reading, argv, event>>

\* execve returns.  If it succeeds, the other threads of the process are gone, and so
\* are the returns of their calls.
CallsOver(t) ==
  \E over \in {{t}, {u \in Threads : PID[u] = PID[t]}} :
    /\ \A u \in over : thread[u] # "enter"
    /\ thread' = [u \in Threads |-> IF u \in over THEN "user" ELSE thread[u]]
    /\ call' = [u \in Threads |-> IF u \in over THEN 0 ELSE call[u]]
    /\ probed' = [u \in Threads |-> u \notin over /\ probed[u]]

\* do_ret_sys_execve.
ExecveReturn(t) ==
  /\ thread[t] = "execve" /\ probed[t]
  /\ CallsOver(t)
  /\ \E c \in Cpus \ {cpu[u] : u \in Threads} : PerfSubmit(t, c, RetRecord(t))
  /\ UNCHANGED <<attached, left, cpu, life, called, reading, argv, event>>

\* The return that was not probed.
ReturnUnseen(t) ==
  /\ thread[t] = "execve" /\ ~probed[t]
  /\ CallsOver(t)
  /\ UNCHANGED <<attached, left, cpu, life, called, ring, reading, argv, event, disturbed>>

\* A process of which no thread is in execve ends, and another gets its PID.  Its
\* records and its entry in argv stay.
Reuse(p) ==
  /\ InCall(p) = {}
  /\ life[p] < MaxLives
  /\ life' = [life EXCEPT ![p] = @ + 1]
  /\ UNCHANGED <<attached, probed, thread, left, cpu, call, called,
                 ring, reading, argv, event, disturbed>>

-----------------------------------------------------------------------------
(* WatchEvent, called again and again by the tracer's watcher.             *)

\* perf_reader_poll empties one buffer before it goes on to another.
NextRecord(c) ==
  /\ ring[c] # << >>
  /\ c = reading \/ ring[reading] = << >>
  /\ reading' = c
  /\ ring' = [ring EXCEPT ![c] = Tail(@)]

Gathered(record) == [arg |-> record.arg, call |-> record.call, at |-> record.at]

\* Faulty variant of WatchArg: the argument takes the place of the others.
WatchArgOverwrites ==
  /\ \E c \in Cpus :
       /\ NextRecord(c)
       /\ LET record == Head(ring[c]) IN
            /\ record.type = "ARG"
            /\ argv' = IF record.arg = Blank THEN argv
                       ELSE [argv EXCEPT ![record.pid] =
                               <<Gathered(record)>>]
  /\ event' = NoEvent
  /\ UNCHANGED <<kernelVars, disturbed>>

\* Faulty variant of WatchArg: the argument goes in front of the others.
WatchArgPrepends ==
  /\ \E c \in Cpus :
       /\ NextRecord(c)
       /\ LET record == Head(ring[c]) IN
            /\ record.type = "ARG"
            /\ argv' = IF record.arg = Blank THEN argv
                       ELSE [argv EXCEPT ![record.pid] =
                               <<Gathered(record)>> \o @]
  /\ event' = NoEvent
  /\ UNCHANGED <<kernelVars, disturbed>>

\* An argument is appended to the others of its process, unless it is blank.
WatchArg ==
  /\ \E c \in Cpus :
       /\ NextRecord(c)
       /\ LET record == Head(ring[c]) IN
            /\ record.type = "ARG"
            /\ argv' = IF record.arg = Blank THEN argv
                       ELSE [argv EXCEPT ![record.pid] =
                               Append(@, Gathered(record))]
  /\ event' = NoEvent
  /\ UNCHANGED <<kernelVars, disturbed>>

\* The event of a return record.
EventOf(record) ==
  [pid |-> record.pid, call |-> record.call, argv |-> argv[record.pid],
   disturbed |-> record.pid \in disturbed]

\* Nothing of p is under way: no call, and no record in the buffers.
Quiet(p, buffers) ==
  InCall(p) = {} /\ \A c \in Cpus : \A i \in DOMAIN buffers[c] : buffers[c][i].pid # p

\* Faulty variant of WatchReturn: the arguments are not deleted.
WatchReturnKeepsArgv ==
  /\ \E c \in Cpus :
       /\ NextRecord(c)
       /\ LET record == Head(ring[c]) IN
            /\ record.type = "RET"
            /\ event' = EventOf(record)
            /\ disturbed' = disturbed \ (IF Quiet(record.pid, ring') THEN {record.pid} ELSE {})
  /\ UNCHANGED <<kernelVars, argv>>

\* A return: the event has the arguments gathered so far, and they are deleted.  If
\* this was the last of the PID, what disturbed it is over.
WatchReturn ==
  /\ \E c \in Cpus :
       /\ NextRecord(c)
       /\ LET record == Head(ring[c]) IN
            /\ record.type = "RET"
            /\ event' = EventOf(record)
            /\ argv' = [argv EXCEPT ![record.pid] = << >>]
            /\ disturbed' = disturbed \ (IF Quiet(record.pid, ring') THEN {record.pid} ELSE {})
  /\ UNCHANGED kernelVars

-----------------------------------------------------------------------------
Next ==
  \/ Load
  \/ \E t \in Threads : ExecveEnter(t) \/ SubmitArg(t) \/ ExecveReturn(t) \/ ReturnUnseen(t)
  \/ \E p \in PIDs : Reuse(p)
  \/ WatchArg \/ WatchReturn

Spec == Init /\ [][Next]_vars

-----------------------------------------------------------------------------
(* Properties.                                                             *)

Records ==
  [type : {"ARG", "RET"}, pid : PIDs, arg : AllArgs \union {Blank, Ellipsis},
   call : 1..MaxCalls, at : 1..(MAXARG + 2)]

\* The variables have their types; a buffer never holds more than it can.
TypeOK ==
  /\ attached \in ToSet(Stages)
  /\ \A t \in Threads : probed[t] => thread[t] # "user" /\ "return" \in attached
  /\ thread \in [Threads -> {"user", "enter", "execve"}]
  /\ \A t \in Threads : thread[t] = "enter" <=> left[t] # << >>
  /\ \A t \in Threads : IF thread[t] = "enter" THEN cpu[t] \in Cpus ELSE cpu[t] = 0
  /\ \A t \in Threads : IF thread[t] = "user" THEN call[t] = 0 ELSE call[t] \in DOMAIN called
  /\ \A c \in Cpus : ring[c] \in Seq(Records) /\ Len(ring[c]) <= RingSize
  /\ reading \in Cpus
  /\ DOMAIN argv = PIDs
  /\ event = NoEvent \/ event.pid \in PIDs
  /\ life \in [PIDs -> 0..MaxLives]
  /\ disturbed \subseteq PIDs

\* The first k of the arguments, without the blank ones, for every k.
ShownFirst(args) ==
  LET shown[k \in 0..Len(args)] ==
        IF k = 0 THEN << >>
        ELSE IF args[k] = Blank THEN shown[k - 1] ELSE Append(shown[k - 1], args[k])
  IN shown

\* What an event should show of a call's arguments.
Shown(args) == ShownFirst(Submitted(args))[Len(Submitted(args))]

ArgsOf(list) == [i \in DOMAIN list |-> list[i].arg]

\* As long as nothing disturbed a PID, every event of it shows the arguments of the
\* call that returned, all of them, in their order, and none of another call, of the
\* same process or of one that had the PID before it.  Once something did, this
\* holds again from the first event on that leaves nothing else of the PID under
\* way: what stays behind of a call can spoil no more than the events up to that
\* one (exec.go:205-245).
ArgvExact ==
  event # NoEvent /\ ~event.disturbed =>
    /\ ArgsOf(event.argv) = Shown(called[event.call].args)
    /\ \A i \in DOMAIN event.argv : event.argv[i].call = event.call

\* Whatever is lost, overtaken or mixed, and whoever has the PID by then, an event
\* shows only arguments that were passed under its PID, those of any one call in
\* their order and without repetition; and those of another process that had or
\* got the PID only if the PID was disturbed.  They do mix then: argv is kept by
\* PID and nothing removes what a process leaves there (exec.go:209, 240, 245).
OwnArgsInOrder ==
  event # NoEvent =>
    /\ \A i \in DOMAIN event.argv :
         LET a == event.argv[i]
             args == Submitted(called[a.call].args)
         IN /\ called[a.call].pid = event.pid
            /\ called[a.call].life = called[event.call].life \/ event.disturbed
            /\ a.at \in DOMAIN args /\ a.arg = args[a.at] /\ a.arg # Blank
    /\ \A i, j \in DOMAIN event.argv :
         i < j /\ event.argv[i].call = event.argv[j].call => event.argv[i].at < event.argv[j].at

\* When a PID has no call under way and no record on its way, nothing is kept for
\* it, unless it was disturbed and has had no event since: argv does not grow.
ArgvDrained == \A p \in PIDs \ disturbed : Quiet(p, ring) => argv[p] = << >>

=============================================================================
