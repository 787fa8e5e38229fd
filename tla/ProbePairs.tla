------------------------------ MODULE ProbePairs ------------------------------
(***************************************************************************)
(* The tracers whose BPF side is a probe on entry and one on return of a   *)
(* kernel function, open, dockeropenbreakout and tcpdrop, from the call    *)
(* to the event with its origin filled in and the process killed for it;   *)
(* and bashreadline, which has a probe on return only.                     *)
(* The entry probe leaves a record in the BPF hash tmp, under the calling  *)
(* thread's id; the return probe submits it and deletes the entry.  The    *)
(* watcher goroutine then asks /proc about a process that may be gone, or  *)
(* whose number another has by now, and each file it reads is itself a     *)
(* call of the function that open watches.                                 *)
(***************************************************************************)
EXTENDS ProcFS, RecordLayout

CONSTANTS
  Kinds,        \* the tracers: of open, dockeropenbreakout, bashreadline, tcpdrop
  Hosts,        \* what RuntimeAround finds in the daemon's surroundings
  Callers,      \* Callers[k]: the tasks that call what tracer k watches
  Paths,        \* Paths[k]: the files that they open
  GraphDirs,    \* the directories of a container's graph driver
  MaxCalls,     \* bound on the calls
  RingSize      \* records that the perf buffer has room for (64 pages)

\* Numbers are of one thread, except for those of the idle tasks; at the start no two
\* processes share one.  The daemon is there from the start, under its own name.
ASSUME ProbePairsAssumption ==
  /\ MaxCalls \in Nat /\ RingSize \in Nat /\ Kinds \subseteq DOMAIN Data
  /\ \A k \in Kinds : Callers[k] \subseteq Threads
  /\ \A k \in Kinds \intersect {"open", "dockeropenbreakout"} : Paths[k] \subseteq Seq(STRING)
  /\ Task[Self].process # "late"
  /\ \A t \in Threads : Task[t].process = Task[Self].process => Task[t].comm = "bpfd"
  /\ \A t, u \in Threads :
       Task[t].pid = Task[u].pid /\ Task[t].pid # 0 =>
         /\ Task[t].process = Task[u].process /\ Task[t].tid = Task[u].tid => t = u
         /\ Task[t].process # "late" /\ Task[u].process # "late" =>
              Task[t].process = Task[u].process

VARIABLES
  kind,         \* the tracer that is watched in this behaviour
  reports,      \* the kernel has a number for the parent (open.go:43)
  host,
  attached,     \* how far Load has come
  thread,       \* where each task is in the watched function
  tmp, ring,    \* the BPF hash and the perf buffer
  watcher,      \* the watcher goroutine's event
  calls,        \* history: calls so far
  missed,       \* history: calls whose return the kernel did not probe
  unanswered,   \* history: calls that docker had no answer for
  reused,       \* history: calls whose PID went to another process meanwhile
  reported,     \* history: events that passed NewServer's loop up to the rules
  kills         \* history: processes signalled, and for which call

kernelVars == <<attached, thread, tmp, ring, calls, missed>>
vars == <<kind, reports, host, alive, kernelVars, watcher, unanswered, reused, reported, kills>>

OpenKinds == {"open", "dockeropenbreakout"}

\* What paths are made of: those that tasks open, and the daemon's own.
OpenedParts == UNION {ToSet(path) : path \in UNION {Paths[k] : k \in Kinds \intersect OpenKinds}}
PathParts ==
  OpenedParts \union ToSet(Figures)
  \union {"/proc/", "self/", "/task/", "/status", "/cgroup", "/cmdline"}

\* call is the call the data is of and by the call whose return submitted it; 0
\* are calls of the daemon.  The numbers and the command are those of task.
Records == [call : 0..MaxCalls, by : 0..MaxCalls, task : Threads, path : Seq(PathParts)]

\* Faulty variant of Key: the process for the thread.
KeyOfProcess(t) == <<Task[t].pid, 0>>

\* bpf_get_current_pid_tgid, and the tgid that the BPF programs put in the record.
Key(t) == <<Task[t].pid, Task[t].tid>>
Tgid(t) == IF reports THEN Task[t].parent ELSE 0

Outside == [pc |-> "outside", call |-> 0, path |-> << >>, hit |-> FALSE]
Idle == [pc |-> "idle"]

-----------------------------------------------------------------------------
(* Load, which attaches probe by probe while calls are made.               *)

Parts(k) == IF k = "bashreadline" THEN {"return", "perf"} ELSE {"entry", "return", "perf"}
Before == [entry |-> {}, return |-> {"entry"}, perf |-> {"entry", "return"}]
Attach(part) ==
  /\ part \notin attached
  /\ Before[part] \intersect Parts(kind) \subseteq attached
  /\ attached' = attached \union {part}
  /\ UNCHANGED <<kind, reports, host, alive, thread, tmp, ring, calls, missed, watcher,
                 unanswered, reused, reported, kills>>

OpenLoad == kind = "open" /\ \E part \in Parts(kind) : Attach(part)
BreakoutLoad == kind = "dockeropenbreakout" /\ \E part \in Parts(kind) : Attach(part)
TcpLoad == kind = "tcpdrop" /\ \E part \in Parts(kind) : Attach(part)

\* Faulty variant of BashLoad: an entry probe as the others have.
BashLoadPair == kind = "bashreadline" /\ \E part \in Parts("open") : Attach(part)

BashLoad == kind = "bashreadline" /\ \E part \in Parts(kind) : Attach(part)

-----------------------------------------------------------------------------
(* The probes.                                                             *)

\* perf_submit: lost without a buffer, or without room in it.
Submit(r) == IF "perf" \in attached /\ Len(ring) < RingSize THEN Append(ring, r) ELSE ring

\* update replaces an entry, and may fail for a new one: the hash has room for a
\* number of threads, which others than those of the model may have used up.
Updates(entry, k) ==
  {[j \in DOMAIN tmp \union {k} |-> IF j = k THEN entry ELSE tmp[j]]}
  \union IF k \in DOMAIN tmp THEN {} ELSE {tmp}

\* trace_entry.  Whether the return will be probed is settled here: the kernel
\* has a number of slots for calls that are to be probed on return.
Enter(t, path) ==
  /\ kind # "bashreadline" /\ thread[t].pc = "outside" /\ calls < MaxCalls
  /\ calls' = calls + 1
  /\ \E hit \in IF "return" \in attached THEN BOOLEAN ELSE {FALSE} :
       thread' = [thread EXCEPT ![t] =
                    [pc |-> "inside", call |-> calls + 1, path |-> path, hit |-> hit]]
  /\ IF "entry" \in attached
     THEN tmp' \in Updates([call |-> calls + 1, task |-> t, path |-> path], Key(t))
     ELSE tmp' = tmp
  /\ UNCHANGED <<kind, reports, host, alive, attached, ring, missed, watcher,
                 unanswered, reused, reported, kills>>

OpenEnter(t) == kind = "open" /\ \E path \in Paths[kind] : Enter(t, path)
BreakoutEnter(t) == kind = "dockeropenbreakout" /\ \E path \in Paths[kind] : Enter(t, path)
TcpEnter(t) == kind = "tcpdrop" /\ Enter(t, << >>)

\* The function returns and no probe is run, or it finds no entry.
ReturnUnseen(t) ==
  /\ thread[t].pc = "inside" /\ (thread[t].hit => Key(t) \notin DOMAIN tmp)
  /\ thread' = [thread EXCEPT ![t] = Outside]
  /\ missed' = IF thread[t].hit THEN missed ELSE missed \union {thread[t].call}
  /\ UNCHANGED <<kind, reports, host, alive, attached, tmp, ring, calls, watcher,
                 unanswered, reused, reported, kills>>

\* Faulty variant of Return: no delete after a submit that failed.
ReturnOnError(t) ==
  /\ thread[t].pc = "inside" /\ thread[t].hit /\ Key(t) \in DOMAIN tmp
  /\ LET d == tmp[Key(t)] IN
       ring' = Submit([call |-> d.call, by |-> thread[t].call, task |-> d.task, path |-> d.path])
  /\ thread' = [thread EXCEPT ![t] = IF ring' = ring THEN Outside ELSE [@ EXCEPT !.pc = "sent"]]
  /\ UNCHANGED <<kind, reports, host, alive, attached, tmp, calls, missed, watcher,
                 unanswered, reused, reported, kills>>

\* trace_return: the entry is looked up, copied and submitted...
Return(t) ==
  /\ thread[t].pc = "inside" /\ thread[t].hit /\ Key(t) \in DOMAIN tmp
  /\ LET d == tmp[Key(t)] IN
       ring' = Submit([call |-> d.call, by |-> thread[t].call, task |-> d.task, path |-> d.path])
  /\ thread' = [thread EXCEPT ![t].pc = "sent"]
  /\ UNCHANGED <<kind, reports, host, alive, attached, tmp, calls, missed, watcher,
                 unanswered, reused, reported, kills>>

\* ...and deleted, whoever's it is by then.
ReturnDelete(t) ==
  /\ thread[t].pc = "sent"
  /\ tmp' = Restrict(tmp, DOMAIN tmp \ {Key(t)})
  /\ thread' = [thread EXCEPT ![t] = Outside]
  /\ UNCHANGED <<kind, reports, host, alive, attached, ring, calls, missed, watcher,
                 unanswered, reused, reported, kills>>

\* get_return_value: the record is made and submitted on return.  At the end of input
\* readline returns NULL and nothing is submitted: no step.
BashReturn(t) ==
  /\ kind = "bashreadline" /\ "return" \in attached
  /\ thread[t].pc = "outside" /\ calls < MaxCalls
  /\ calls' = calls + 1
  /\ ring' = Submit([call |-> calls + 1, by |-> calls + 1, task |-> t, path |-> << >>])
  /\ UNCHANGED <<kind, reports, host, alive, attached, thread, tmp, missed, watcher,
                 unanswered, reused, reported, kills>>

-----------------------------------------------------------------------------
(* Processes come and go.                                                  *)

Exit(t) ==
  /\ thread[t].pc = "outside" /\ t # Self /\ Task[t].pid # 0
  /\ thread' = [thread EXCEPT ![t].pc = "gone"]
  /\ alive' = alive \ {t}
  /\ UNCHANGED <<kind, reports, host, attached, tmp, ring, calls, missed, watcher,
                 unanswered, reused, reported, kills>>

\* The calls whose record, anywhere, has the PID p.
CallsOf(p) ==
  {tmp[k].call : k \in {k \in DOMAIN tmp : Task[tmp[k].task].pid = p}}
  \union {ring[i].call : i \in {i \in DOMAIN ring : Task[ring[i].task].pid = p}}
  \union (IF watcher # Idle /\ Task[watcher.rec.task].pid = p THEN {watcher.rec.call} ELSE {})

\* A new process, which may be given the number of one that is gone.
Start(t) ==
  /\ thread[t].pc = "unborn"
  /\ \A u \in WithPid(Task[t].pid) : Task[u].process = Task[t].process
  /\ thread' = [thread EXCEPT ![t] = Outside]
  /\ alive' = alive \union {t}
  /\ reused' = reused \union CallsOf(Task[t].pid)
  /\ UNCHANGED <<kind, reports, host, attached, tmp, ring, calls, missed, watcher,
                 unanswered, reported, kills>>

-----------------------------------------------------------------------------
(* The watcher goroutine: WatchEvent, NewServer's loop, and an action.     *)

watcherVars == <<kind, reports, host, alive, attached, thread, tmp, calls, missed, reused>>

\* The records of the files that the daemon opens: ReadFile's open is a call too.
WithOpensOfDaemon(paths) ==
  LET traced == kind \in OpenKinds /\ attached = Parts(kind)
      all == ring \o [i \in DOMAIN paths |->
                        [call |-> 0, by |-> 0, task |-> Self, path |-> paths[i]]]
  IN IF traced THEN SubSeq(all, 1, IF Len(all) < RingSize THEN Len(all) ELSE RingSize) ELSE ring
ReadOf(r, file) ==
  LET tgid == Tgid(r.task) pid == Task[r.task].pid
  IN IF TaskRead(tgid, pid) = {} THEN << >> ELSE <<ProcFile(tgid, pid, file)>>

\* Faulty variant of Ignored: only the paths are looked at.
IgnoredByPath(r) ==
  \/ IsPrefix(<<"/proc/">> \o Digits[Task[r.task].pid], r.path)
  \/ IsPrefix(<<"/proc/">> \o Digits[Tgid(r.task)], r.path)

\* "Ignore files with our own PID": those of the process that opens and of its
\* parent, of PIDs that begin with the digits of theirs, and all of bpfd's own.
Ignored(r) ==
  \/ IsPrefix(<<"/proc/">> \o Digits[Task[r.task].pid], r.path)
  \/ IsPrefix(<<"/proc/">> \o Digits[Tgid(r.task)], r.path)
  \/ Task[r.task].comm = "bpfd"

Pending(pc, r) ==
  [pc |-> pc, rec |-> r, fields |-> FieldsInPlace(kind), runtime |-> "", id |-> "",
   ids |-> <<Task[r.task].uid, Task[r.task].gid>>]

\* The next record, and what becomes of the watcher with it.
Receive(event) ==
  /\ watcher.pc = "idle" /\ ring # << >>
  /\ ring' = Tail(ring)
  /\ watcher' = IF Decodes(kind) THEN event ELSE Idle
  /\ UNCHANGED <<watcherVars, unanswered, reported, kills>>

OpenReceive ==
  kind = "open" /\ Receive(IF Ignored(Head(ring)) THEN Idle ELSE Pending("ids", Head(ring)))
BreakoutReceive ==
  kind = "dockeropenbreakout" /\ Receive(IF Ignored(Head(ring)) THEN Idle ELSE Pending("ids", Head(ring)))

\* The user and the group are in the records of these two; tcp.States has every state
\* that a socket may be in.
TcpReceive == kind = "tcpdrop" /\ Receive(Pending("runtime", Head(ring)))
BashReceive == kind = "bashreadline" /\ Receive(Pending("dataless", Head(ring)))

\* NewServer's loop passes over an event without Data, which bashreadline's are.
PassOver ==
  /\ watcher.pc = "dataless"
  /\ watcher' = Idle
  /\ UNCHANGED <<watcherVars, ring, unanswered, reported, kills>>

Continue(pc, opened) ==
  /\ ring' = WithOpensOfDaemon(opened)
  /\ watcher' = pc
  /\ UNCHANGED <<watcherVars, unanswered, reported, kills>>

\* An error of GetUIDGID drops the event.
ReadIds ==
  /\ watcher.pc = "ids"
  /\ LET r == watcher.rec ids == GetUIDGID(Tgid(r.task), Task[r.task].pid) IN
       Continue(IF NoNumber \in {ids[1], ids[2]} THEN Idle
                ELSE [watcher EXCEPT !.pc = "runtime", !.ids = ids],
                ReadOf(r, "/status"))

\* dockeropenbreakout goes on for "docker" alone.
ReadRuntime ==
  /\ watcher.pc = "runtime"
  /\ LET r == watcher.rec
         tgid == Tgid(r.task)
         runtime == GetContainerRuntime(tgid, Task[r.task].pid, host)
         own == RuntimeIn(UNION {Task[t].cgroup.names : t \in TaskRead(tgid, Task[r.task].pid)})
     IN Continue(IF kind = "dockeropenbreakout" /\ runtime # "docker" THEN Idle
                 ELSE [watcher EXCEPT !.pc = "id", !.runtime = runtime],
                 ReadOf(r, "/cgroup") \o IF own = "not-found" THEN OpensAround(host) ELSE << >>)

\* dockeropenbreakout needs an ID; it asks docker about it.
ReadId ==
  /\ watcher.pc = "id"
  /\ LET r == watcher.rec id == GetContainerID(Tgid(r.task), Task[r.task].pid) IN
       Continue(IF kind # "dockeropenbreakout" THEN [watcher EXCEPT !.pc = "rules", !.id = id]
                ELSE IF id = "" THEN Idle ELSE [watcher EXCEPT !.pc = "inspect", !.id = id],
                ReadOf(r, "/cgroup"))

InMounts(path) == \E dir \in GraphDirs : IsPrefix(dir, path)

\* docker knows the container, and the file is in none of its directories.
Inspect ==
  /\ watcher.pc = "inspect"
  /\ Continue(IF InMounts(watcher.rec.path) THEN Idle
              ELSE [watcher EXCEPT !.pc = "rules"], << >>)

\* docker does not know it (any more).
InspectFails ==
  /\ watcher.pc = "inspect"
  /\ unanswered' = unanswered \union {watcher.rec.call}
  /\ watcher' = Idle
  /\ UNCHANGED <<watcherVars, ring, reported, kills>>

\* The event goes through the rules, one of which may kill its process.
Report ==
  /\ watcher.pc = "rules"
  /\ reported' = reported \union {[watcher EXCEPT !.pc = "reported"]}
  /\ \E kill \in BOOLEAN : watcher' = IF kill THEN [watcher EXCEPT !.pc = "kill"] ELSE Idle
  /\ UNCHANGED <<watcherVars, ring, unanswered, kills>>

\* Faulty variant of Do: the other number of the event.
DoToParent ==
  /\ watcher.pc = "kill"
  /\ kills' = kills \union {[call |-> watcher.rec.call, task |-> watcher.rec.task,
                             killed |-> WithPid(Tgid(watcher.rec.task))]}
  /\ watcher' = Idle
  /\ UNCHANGED <<watcherVars, ring, unanswered, reported>>

\* kill's and interrupt's Do signal whoever has the PID; os.Process refuses PID 0.
Do ==
  /\ watcher.pc = "kill"
  /\ LET pid == Task[watcher.rec.task].pid IN
       kills' = kills \union {[call |-> watcher.rec.call, task |-> watcher.rec.task,
                               killed |-> IF pid = 0 THEN {} ELSE WithPid(pid)]}
  /\ watcher' = Idle
  /\ UNCHANGED <<watcherVars, ring, unanswered, reported>>

-----------------------------------------------------------------------------
Init ==
  /\ kind \in Kinds /\ reports \in BOOLEAN /\ host \in Hosts
  /\ alive = {t \in Threads : Task[t].process # "late"}
  /\ attached = {} /\ tmp = << >> /\ ring = << >> /\ calls = 0
  /\ thread = [t \in Threads |-> IF t \in alive THEN Outside ELSE [Outside EXCEPT !.pc = "unborn"]]
  /\ watcher = Idle
  /\ missed = {} /\ unanswered = {} /\ reused = {} /\ reported = {} /\ kills = {}

Load == OpenLoad \/ BreakoutLoad \/ TcpLoad \/ BashLoad
Call(t) == OpenEnter(t) \/ BreakoutEnter(t) \/ TcpEnter(t) \/ BashReturn(t)
           \/ ReturnUnseen(t) \/ Return(t) \/ ReturnDelete(t)
Watch == OpenReceive \/ BreakoutReceive \/ TcpReceive \/ BashReceive \/ PassOver \/ ReadIds
         \/ ReadRuntime \/ ReadId \/ Inspect \/ InspectFails \/ Report \/ Do

Next == Load \/ Watch \/ (\E t \in Callers[kind] : Call(t) \/ Exit(t) \/ Start(t))

\* The Go scheduler runs the watcher goroutine whenever it has a record: this is
\* WF_vars(Watch), with Resting in the place of ~ENABLED <<Watch>>_vars, which is
\* the same and takes TLC far longer.
Resting == ring = << >> /\ watcher = Idle
Spec == Init /\ [][Next]_vars /\ ([]<>Resting \/ []<><<Watch>>_vars)

-----------------------------------------------------------------------------
Steps == {"dataless", "ids", "runtime", "id", "inspect", "rules", "kill", "reported"}
Events == [pc : Steps, rec : Records, fields : SUBSET FieldsOf(kind),
           runtime : Runtimes \union {""}, ids : Nat \X Nat,
           id : {Task[t].cgroup.id : t \in Threads} \union {""}]

\* The types; the buffer stays within its size.
TypeOK ==
  /\ kind \in Kinds /\ reports \in BOOLEAN /\ host \in Hosts
  /\ alive \subseteq Threads /\ attached \subseteq Parts(kind)
  /\ \A k \in DOMAIN tmp : k = Key(tmp[k].task) /\ tmp[k].call \in 1..calls
  /\ Len(ring) <= RingSize /\ \A i \in DOMAIN ring : ring[i] \in Records
  /\ watcher = Idle \/ watcher \in Events
  /\ reported \subseteq Events
  /\ calls \in 0..MaxCalls /\ missed \subseteq 1..calls /\ reused \subseteq 0..calls
  /\ unanswered \subseteq 1..calls
  /\ \A t \in Threads : (t \in alive) = (thread[t].pc \notin {"unborn", "gone"})

\* What a return probe submits is the data of its own call, whatever calls of
\* other threads, unprobed returns, or a full hash came in between; except for the
\* idle tasks, which run tcp_drop on several CPUs under the one id 0.
OwnCall ==
  LET own(r) == Task[r.task].pid # 0 => r.call = r.by
  IN /\ \A i \in DOMAIN ring : own(ring[i])
     /\ watcher # Idle => own(watcher.rec)

\* The hash does not fill up with calls that are over: an entry is of a call under
\* way, or of one whose return the kernel did not probe.
TmpDrained ==
  \A k \in DOMAIN tmp :
    tmp[k].call \in missed \/ \E t \in Threads : thread[t].call = tmp[k].call

\* What an event says of its process is never that of another: the runtime is its
\* own or that of the daemon's surroundings, the ID its own or none, the user and
\* group its own or 0; unless the PID changed hands before /proc was read, or is 0.
OriginIsOwn ==
  \A e \in reported :
    LET t == e.rec.task IN
    e.rec.call \notin reused /\ Task[t].pid # 0 =>
      /\ e.runtime \in {RuntimeIn(Task[t].cgroup.names), RuntimeAround(host)}
      /\ e.id \in {Task[t].cgroup.id, ""}
      /\ e.ids \in {<<Task[t].uid, Task[t].gid>>, <<0, 0>>}

\* Only the process that made the call is signalled for it, unless its number went
\* to another; the daemon, whose calls are ignored, never for opening a file.
SignalsCaller ==
  \A k \in kills :
    /\ k.call \in reused \/ \A u \in k.killed : Task[u].process = Task[k.task].process
    /\ kind \in OpenKinds => Self \notin k.killed

\* Every field of an event has been given its own bytes of the record, except for the
\* last two of tcpdrop's: C leaves a hole before seq, which binary.Read does not know.
FieldsDecoded ==
  watcher # Idle =>
    watcher.fields = FieldsOf(kind) \ (IF kind = "tcpdrop" THEN {"Seq", "Len"} ELSE {})

\* The records up to the last of a call, and how far an event is from its end.
Ahead == {i \in DOMAIN ring : \E j \in i..Len(ring) : ring[j].call # 0}
Left == [idle |-> 0, dataless |-> 1, kill |-> 1, rules |-> 2, inspect |-> 3, id |-> 4,
         runtime |-> 5, ids |-> 6]

\* Each step of the watcher brings it nearer to its rest, though reading /proc for an
\* event makes records of the daemon's own: these come behind those of calls, and
\* are passed over.
RunsDown ==
  [][Watch =>
       \/ Ahead' \subseteq Ahead /\ Ahead' # Ahead
       \/ Ahead' = Ahead /\ Left[watcher'.pc] < Left[watcher.pc]
       \/ Ahead' = Ahead /\ watcher' = watcher /\ Len(ring') < Len(ring)]_vars

\* So when the processes are done, the watcher comes to rest.
ComesToRest == <>[]Resting

\* A record that reached the buffer is reported, even if its process is gone by the
\* time /proc is read, and whatever the process is called; dockeropenbreakout's if
\* the process is in a container of docker's and opens a file outside of it, as
\* long as no process ends, docker answers, and /proc is looked up by the PID alone.
Wanted(r) ==
  /\ kind # "bashreadline" /\ r.call # 0
  /\ kind \in OpenKinds => ~Ignored(r)
  /\ kind = "dockeropenbreakout" =>
       /\ ~reports /\ Task[r.task].pid # 0
       /\ RuntimeIn(Task[r.task].cgroup.names) = "docker" /\ Task[r.task].cgroup.id # ""
       /\ ~InMounts(r.path)
Awaited(c) ==
  \/ \E i \in DOMAIN ring : ring[i].call = c /\ Wanted(ring[i])
  \/ Left[watcher.pc] > 1 /\ watcher.rec.call = c /\ Wanted(watcher.rec)
Settled(c) ==
  \/ \E e \in reported : e.rec.call = c
  \/ kind = "dockeropenbreakout" /\ (c \in unanswered \/ \E t \in Threads : thread[t].pc = "gone")
Delivered == \A c \in 1..MaxCalls : Awaited(c) ~> Settled(c)

\* No step, whoever takes it, drops a record that is to be reported.
NoneDropped == [][\A c \in 1..MaxCalls : Awaited(c) => Awaited(c)' \/ Settled(c)']_vars

\* GetContainerRuntime "returns the container runtime the process is running in"
\* (proc/proc.go:94): so an event of a process that is still there names its own.
RuntimeOfProcess ==
  \A e \in reported :
    e.rec.task \in alive /\ e.rec.call # 0 /\ Task[e.rec.task].pid # 0
      => LET own == RuntimeIn(Task[e.rec.task].cgroup.names)
         IN own # "not-found" => e.runtime = own
=============================================================================
