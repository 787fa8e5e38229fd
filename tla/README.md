# A verification of bpfd

bpfd is a daemon that loads BPF tracers into the kernel, filters what they report through rules,
performs actions on what passes, and streams it to clients. This directory holds TLA+ models of the
parts of it in which goroutines, clients and the kernel interleave, the TLC runs that check them, and
TLAPS proofs about them. `PROJECT.json` lists components, runs, mutants, findings, hazards and
theorems, and maps each definition that models code to its lines.

Run the tools in this directory: `tlc -workers 2 -config LiveTrace.cfg MCLiveTrace` for a run (the
module of each run is in `PROJECT.json`), `tlapm LiveTrace_proofs.tla` for a proof module.

## 1. The system

| Part | State | Operations | Talks to |
|---|---|---|---|
| Daemon start and stop, `daemon.go` | rules read from files, tracer and action instances, the socket | start-up sequence, signal handler | rules, registries, API server |
| API server, `api/api.go`, `api/event.go` | `rules` and `rulesMutex`; `events`, `eventsMutex` and `isStreaming` | `CreateRule`, `RemoveRule`, `ListRules`, `LiveTrace`; one watcher goroutine per tracer | gRPC clients (one goroutine per request), tracers, actions |
| Rules, `rules/rules.go` | none | `Match`, `Validate`, `ValidateTracersAndActions`, `ParseFiles` | called by watchers, handlers, daemon, `bpfd create` |
| Tracers, `tracer/*` | in the kernel, the hash between entry and return probe and the perf buffers; in the daemon, module, perf map, channel, and for `exec` the arguments it has gathered | `Load`, `Start`, `WatchEvent`, `Unload` | kernel probes; `proc`; docker; watched by the API server |
| Actions, `action/*` | none | `Do` | called by watchers; signal processes |
| proc and tcp, `proc/proc.go`, `tcp/tcp.go` | none | reading `/proc`, tables of names | called by tracers and watchers |
| Client, `create.go`, `list.go`, `remove.go`, `trace.go`, `client.go` | none | one RPC per rule or name; a stream | API server |

What makes it hard:

* **The watchers and `ListRules` read the rule table without a lock** while `CreateRule` and
  `RemoveRule` write it under `rulesMutex`. Correct: the writers are atomic to each other; an event
  that no write overtakes is dispatched exactly; no action of a rule is performed that was never in
  force. (Modules `RuleTable`, `Dispatch`, `ListRules`.)
* **`isStreaming` is one unlocked flag for all clients** and the buffer is shared by all streams.
  Correct: no event twice, none lost except by a failed `Send`, nothing accepted while no call runs, a call
  whose client has gone ends. (Module `LiveTrace`.)
* **The records of one execve come one by one**, from buffers of several CPUs that may overflow, and are gathered
  under a PID that another process may get. Correct: an event shows the arguments of its own call, and what is lost spoils
  no more than the events up to the next one that leaves nothing of the PID under way. (Module `ExecTracer`.)
* **A call is seen by two probes** that are attached at different times, may each be missed, and meet in a
  hash under the thread's id. Correct: what the return submits is its own call's data, and the hash does not
  fill up. (Module `ProbePairs`.)
* **An event names its process by number**, and the daemon reads `/proc` and sends signals by that number
  later; reading `/proc` makes events of its own. Correct: an event is never given another process's
  origin, only its own process is signalled, the daemon comes to rest. (Modules `ProbePairs`, `ProcFS`.)
* **The start of the daemon is a chain of steps that may each fail**, next to a goroutine that ends the
  process, on a socket path that other daemons remove; and a command sends its rules one by one to whatever
  daemon is there. Correct: the path leads to a daemon that serves, what is in force is valid,
  what a command prints is in force, and both end. (Modules `Daemon`, `RuleClient`.)
* **`Match` ranges over maps** in any order and returns from the middle of three loops. (Module
  `MatchLoop`.)

## 2. Modules

```
EventPool  <-- LiveTrace <-- MCLiveTrace            Rules <-- MatchLoop <-- MCMatchLoop
                   ^                                ^   ^         ^
                   LiveTrace_proofs                 |   |         MatchLoop_proofs
                                                    |   |
AtomicRules <-- RuleTable (extends Rules) ----------+   +-- Daemon <-- RuleClient <-- MCRuleClient
                   ^  ^                                                    ^
                   |  MCRuleTable, RuleTable_proofs                        RuleClient_proofs
                RuleReader <-- Dispatch  <-- MCDispatch, Dispatch_proofs
                    ^--------- ListRules <-- MCListRules, ListRules_proofs

ProcFS, RecordLayout <-- ProbePairs <-- MCProbePairs            ExecTracer <-- MCExecTracer
                             ^                                       ^
                             ProbePairs_proofs                       ExecTracer_proofs

Dispatch_proofs and ListRules_proofs extend RuleTable_proofs.
```

* `EventPool` is the abstract specification of the live-trace queue: a set of accepted events, each of
  which is delivered to one stream or lost by a failed `Send`. `LiveTrace` implements it (`PoolSpec`).
* `LiveTrace` has one variable for each field (`isStreaming`, `events`) and for the locals that live
  across steps (`watcher`: the event an `addEvent` call is about to append; `hand`: `LiveTrace`'s
  `event`). Every unlocked access to `isStreaming` is an action of its own (`AddEventTest`,
  `LiveTraceStart`, `LiveTraceTest`, `LiveTraceCtx`, `LiveTraceSendFails`); what runs under
  `eventsMutex` is one action (`AddEventAppend`, `LiveTracePop`). An event is the number of its
  `addEvent` call. A `Send` may fail when the client has gone or for an event that protobuf cannot
  marshal (`Unencodable`: a string that is not UTF-8), and may succeed although the client has just gone.
* `Rules` states what `Match`, `Validate` and `ValidateTracersAndActions` decide. `MatchLoop` is `Match`
  statement by statement, and is shown to return `Rules!Match`.
* `AtomicRules` is the abstract rule table: a set of rules, changed by whole requests. `RuleTable` is the
  two handlers with the mutex. A write to a Go map is split into the steps that a reader without the
  lock can tell apart: the flag `writing` (`hashWriting` in the runtime), and the slot `inTransit` whose
  value is being copied. `Deletes` says when RemoveRule writes a map: `delete` raises the flag even for a name that is
  not there. `AtomicSpec` maps `committed`, the table when the mutex was last released, to
  the abstract table; `WritesAreLocked` says that `rules` is `committed` whenever the mutex is free.
* `RuleReader` is what a range without the lock sees, as the Go runtime of `.travis.yml` (1.11) does it:
  which entries it must and may produce, what a copy of a slot in transit may be, when the process is
  aborted. `born` (in `RuleTable`) is the number of the write that made a slot, which tells an entry from a later one of its
  name. These definitions are external: they model the Go runtime.
* `Dispatch` is the watcher goroutine of `NewServer`, from the event to the last action, one action per
  access to the table. `added` and `done` record, for each name, how often its event was queued and which actions were
  performed on it. `ListRules` is the handler of that name; its result is kept as one cell per tracer
  because all pointers of one range point to the same variable.
* `ExecTracer` is the exec tracer's two BPF programs, the perf buffers, and `WatchEvent`. `thread`, `left`,
  `cpu` are the kernel's side, `ring` the buffers, `argv` the field of that name. `Load` attaches the entry probe,
  the return probe and the buffers one after the other, at any moment of any call; `probed` says whether the
  kernel will run the return program of a call, which it settles when the call is entered. `Reuse` gives the PID of a process that
  has ended to another, while `ring` and `argv` keep what the first one left; `disturbed` are the PIDs of which records were lost,
  overtaken, mixed or not submitted, until an event leaves nothing of the PID under way. Each record and each argument gathered
  has the call it comes from and its place in it (`call`, `at`), which the code does not have.
* `ProbePairs` is the other four tracers; the variable `kind`, chosen at the start, says which one. `thread` is where a task is
  in the watched function, `tmp` the BPF hash, `ring` the perf buffer, `watcher` the event that `WatchEvent` and
  `NewServer`'s loop are filling in; each file of `/proc` that is read, docker's answer, the rules and the action
  are steps of their own (`ReadIds`, `ReadRuntime`, `ReadId`, `Inspect`, `Report`, `Do`), between which processes end
  (`Exit`) and start with the same number (`Start`). `WithOpensOfDaemon` are the records of the opens that those reads are.
* `ProcFS` says which task's files `proc.go` reads for an event's two numbers (`TaskRead`) and what it makes of their text;
  `reports` in `ProbePairs` is whether the kernel gave the BPF program the parent's number (it does not on older ones). `Digits` and `ScanLines` are recursive functions.
* `RecordLayout` computes the offsets of the fields in the C structs that the BPF programs submit and
  in the Go structs that `binary.Read` fills (`Ends`, a recursive function), and with them which fields get their own bytes.
* `Daemon` is `Run` of `daemon.go` step by step, for several lives of the daemon that share the socket path
  (`socket`: whose listener it leads to), with `NewServer`'s loading of the tracers, signals, `UnloadAll` and kills.
  `ParseFiles` is the set of the rules that no later file replaces; `FilesInOrder` (section 6) shows that it is what the
  loop of the code leaves. A removal of the old socket may fail, which Run only warns of (`RemoveFails`, `warned`), and the file system
  and the listen may fail for reasons of their own (`SystemFails`). It has no specification of its own.
* `RuleClient` adds the commands `create` and `rm` to it, and `CreateRule` and `RemoveRule` as the whole
  requests that `RuleTable` shows them to be. `client[c]` has the state of one run of a command; `todo` are the rules or names it has
  still to send, and `printed` those that it printed, with the daemon that took them.

Variables marked *history* in the modules are not in the code; they record what the properties speak of.
The operators called "Faulty variant" are used by no specification: each is a plausible bug that, put in
the place of its action, makes TLC refute the property that `PROJECT.json` names under "mutants".

## 3. Runs

| Run | Shows | Bounds |
|---|---|---|
| `LiveTrace` | `NoOrphanedBuffering`, `StreamingWhileConnected`, `AtMostOnce`, `PoolSpec`, `CancelledEnds`, `AcceptedIsSent` | 2 watchers, 2 streams, 3 events of which one cannot be marshalled |
| `MatchLoop` | `ReturnsMatch` | all rules over 2 filter keys and 2 runtimes with lists of at most 2, all data over 3 keys |
| `RuleTable` | `WritesAreLocked`, `AtomicSpec`, `RequestsReturn` | 2 handlers, 4 requests out of 8 (2 of them refused), 2 tracers, 2 names |
| `Dispatch` | `ExactDispatch`, `ActionsInForce` | watchers of 2 tracers, 2 events, 1 handler with 2 requests |
| `ListRules` | `RepliesCount` | 1 lister with 2 requests, 1 writer with 3 |
| `ExecTracer` | `OwnArgsInOrder`, `ArgvExact`, `ArgvDrained` | 2 threads of a process whose PID another one gets, 1 thread of a process that calls once, 2 CPUs, 3 calls, buffers of 3 records, `MAXARG` 2, `Load` at any time |
| `ProbePairs` | `OwnCall`, `TmpDrained`, `OriginIsOwn`, `SignalsCaller`, `FieldsDecoded`, `RunsDown`, `NoneDropped`, `ComesToRest`, `Delivered` | 4 tracers, 7 tasks (2 threads of one process, its parent, a later process with its number, 2 idle tasks, the daemon), 2 calls, a buffer of 2 records, 2 kinds of host, kernels with and without the parent's number |
| `RuleClient` | `ListenFailsForCause`, `ReachableUnlessReplaced`, `InForceIsValid`, `PrintedInForce`, `SuccessMeansAll`, `CommandsRunDown`, `SignalEnds`, `CommandsEnd` | 2 daemons, 1 command out of 3 (one has two rules of which one is refused), 2 tracers, 4 contents of the directory of rules |
| `LiveTrace_past`, `Dispatch_abort`, `ListRules_alias`, `ProbePairs_runtime` | a counterexample each, see section 4 | smaller versions of the above |

Why the bounds are enough for the interesting cases. Two streams let one put the flag down under the
other and up again; two watchers and three events let an append fall between the end of one stream and
the start of the next, and let an event be buffered, in a handler and in an `addEvent` call at once. The bound on `addEvent` calls is also an end of the
supply of events, which `AcceptedIsSent` therefore has as its premise, `<>[][calls' = calls]_vars`. The
theorems of section 6 remove the bounds for the safety part. Two requests against one event in
`Dispatch` are enough for every kind of write (first rule of a tracer, new name, overwrite, remove from
all tracers) to fall on every step of a watcher; since the mutex serialises writers, one handler at a time
is what a watcher can meet. Three calls in `ExecTracer` let arguments left by one call pass through a second
into a third; buffers of three records overflow within one call; the lists are below and above `MAXARG` and one has
an argument that `TrimSpace` empties. The threads of one process and the CPUs are interchangeable and declared
symmetric; that run checks invariants only. What one process leaves to another needs one change of hands, which the run
(`Bounds` in `MCExecTracer`) allows between two calls made under the PID: earlier or later nothing reads it. A process with another PID
fills buffers and delays, for which one call is enough; the theorems have no such bounds. In `ProbePairs` two calls are one whose entry is left behind and
one that could take it for its own, or two at once of two threads; a buffer of two records
overflows with the files that the daemon itself opens. In `RuleClient` two daemons are what one needs to take over the
socket of the other at every step of its start; one command meets both of them. Several commands meet each other
only in the table, which `RuleTable` has; `RuleClient_proofs` has any number of both.

Deadlock is not checked: every system here stops when the bounded number of calls, requests, events or lives
of the daemon is used up.

**Fairness.** `LiveTrace`: weak fairness of every handler's steps and of the locked append, since the Go
scheduler runs every runnable goroutine (the handler loop makes function calls, where Go 1.11 can
preempt it) and the mutex is held for an append or a pop only. That `Send` returns is part of it: gRPC
returns as soon as the client reads or is gone. `RuleTable`: strong fairness of `Lock`, which
`sync.Mutex` gives since Go 1.9 (a goroutine that has waited 1 ms is handed the mutex), and weak fairness of the
steps under the mutex. `ProbePairs`: weak fairness of the watcher goroutine, written out as "again and again it
rests or takes a step", which says the same and is far cheaper to check. `RuleClient`: weak fairness of `Run`, of the
goroutine that waits for the signal once one has come, of the handlers and of the command. Nothing makes clients call,
leave or stay, tracers report, calls return, daemons start, or signals come.

## 4. What the runs found

* `ListRules_alias`: `ListRules` appends `&rule`, the address of the range's variable. With two rules for one
  tracer `bpfd ls` prints one of them twice and never the other.
* `Dispatch_abort`: watchers read maps that handlers write. The Go runtime aborts the daemon; the
  comment on `rulesMutex` says that it locks every transaction. The same missing lock lets a watcher copy a slot before
  the rule is in it: the zero rule has no filters and matches, so the event is queued for live trace.
* `LiveTrace_past`: nothing empties the buffer when a stream ends, so the next client begins with events
  from before its call.
* `ProbePairs_runtime`: the BPF programs put the parent's number in the field `tgid`, and `proc.go` reads
  `/proc/<tgid>/task/<pid>`, which does not exist: on kernels that have the parent's number an event of a container is
  given the host's runtime, user and group 0, and `dockeropenbreakout` reports nothing.

Seen while modelling, without a run of its own:

* `LiveTrace`: a client that leaves puts the flag down for all, and the streams of the others end (`api.go:219`).
  `popEvent` pops the newest event where its comment says the bottom of the heap (`event.go:26`): as long as newer ones keep coming
  the oldest is never sent. An event that has passed `addEvent`'s test when the last call ends is buffered with nobody there (`event.go:9`).
* `Dispatch`: without rules for a tracer only the `stdout` action is performed, where the README says that
  events are passed to actions.
* `ExecTracer`: a call with exactly `MAXARG` arguments is shown with "..." although none is missing.
* `ProbePairs`, bashreadline: its events have no `Data`, and `NewServer`'s loop passes over such events
  (`api.go:71`); nothing it reads is ever printed, where the README shows it. A line that fills the 80 bytes makes
  `IndexByte` return -1, and the slice panics (`bashreadline.go:124`).
* tcpdrop: `seq` is aligned in C and not in Go, so that `Seq` and `Len` are read two bytes too early
  (`tcpdrop.go:44`; `FieldsDecoded` excepts them), and nothing converts them from network order. The idle tasks of all CPUs share the
  id 0 in the hash (`OwnCall` excepts them).
* open: the test that is to leave out the daemon's own files (`open.go:160`) compares prefixes with the numbers of the opener and
  its parent: it hides files of processes whose number begins with those digits; the daemon's own are left out
  by the command's name.
* dockeropenbreakout never collects the container's mounts, so a file of a volume counts as outside.
* `ProcFS`: "lxc" comes before "lxc-libvirt" in the list that is searched, so the latter is never found.
* `Daemon`: `UnloadAll` works on new instances, whose `Unload` does nothing, and panics for a tracer that cannot
  be made; what is attached is detached because the process ends (`tracer.go:69`). A second daemon takes the socket
  of one that runs (`daemon.go:124`), which `ReachableUnlessReplaced` excepts.

## 5. What holds in spite of the races

`ActionsInForce` holds although a watcher's copy of a rule may be zero, old, new or mixed: a zero copy has
no actions, a copy whose slice header is torn aborts the process, and a whole `actions` field comes from a
rule that was in force since the event was taken. `ExactDispatch` and `RepliesCount` speak of
events and replies that no write overtakes (`Undisturbed`); for the others the repository promises nothing.
`ArgvExact` likewise speaks of processes none of whose records were lost, overtaken on another CPU or mixed with
those of a second thread, nor come from a call that only one of the two probes saw. What such a call leaves in `argv` is shown
by later events of its PID, also of another process that has got it, since `argv` does not expire; but only up to the first event that leaves nothing
of the PID under way, for that empties the entry. `OwnArgsInOrder` says what holds even then: the arguments are some that were passed under
that PID, those of a call in their order; and that nothing mixes two processes' arguments but such a loss.

`NoOrphanedBuffering` does not say that the buffer is empty while no call runs. It says that the flag is down then, whatever the order
of connects, disconnects and failed sends, so that what enters the buffer is at most one event of each watcher, which had passed the test
before. `AcceptedIsSent` holds once the tracers fall silent; under steady arrivals the stack starves its oldest event.

`OwnCall` holds although entries stay in the hash when a return is not probed: a later call of the thread replaces
the entry, and replacing, unlike inserting, never fails; a thread that has ended leaves its id to a thread that enters before it
returns. `TmpDrained` bounds what stays by the missed returns. `OriginIsOwn` and
`SignalsCaller` except only calls whose process's number was given to another meanwhile (`reused`), which the code cannot see.

`ListenFailsForCause`: since a start removes whatever is at the path, only a daemon that gets in between
its removal and its listen makes it fail, or a removal that failed, and then there is a warning in the log. `PrintedInForce` holds across lost replies and another daemon at the socket, as a
command prints after the reply only.

## 6. Proofs

`LiveTrace_proofs` proves, for any sets of watchers and streams and any number of events, from
`LiveTraceAssumption` alone:

* `TypeCorrect`: `Spec => []TypeOK`, by induction over the actions.
* `NoOrphanedBufferingHolds`: the flag goes up only in a call that is running, and a call that stops puts it
  down or finds it down (`FlagOwned`, inductive with `TypeOK`). So no step that is taken while no call runs accepts an event.
* `StreamingWhileConnectedHolds`: in the same way; `cancelled` and `failed` only grow.
* `AtMostOnceHolds`: `AtMostOnce` is not inductive by itself: that a new event is nowhere yet needs `Numbered`,
  which bounds every event anywhere by `calls`. `QueueInv` is `TypeOK /\ Numbered /\ AtMostOnce`; its lemmas go action by
  action, on two lemmas about what append and pop do to the contents of a sequence.
* `ImplementsEventPool`: `Spec => PoolSpec`. With `QueueInv`, `AddEventTest` maps to `Accept` or a stutter,
  `LiveTraceSend` to `Deliver`, `LiveTraceSendFails` to `Lose`, and every other step leaves the mapped
  variables alone.
* `CancelledGetsOn`: a call whose client has gone has at most four steps left (`StepsLeft`), each of its own is one
  less, and nobody else's moves it. Needs that a client goes only once it has called (`CalledFirst`).

`MatchLoop_proofs` proves, for any set of rules, data and runtimes of the right types
(`MatchLoopAssumption`):

* `TypeCorrect`, with the indices in bounds.
* `ReturnsMatchHolds`: `Match` returns the rule's verdict. The inductive invariant `MatchInv` adds what each loop has
  excluded so far: no runtime among those passed, no find in the keys no longer in `todo`, none of the
  values passed.

`RuleTable_proofs` proves, for any handlers, tracers, names and requests (`RuleTableAssumption`):

* `TypeCorrect`, `WritesAreLockedHolds`, `ImplementsAtomicRules`. None is inductive by itself. `TableInv` adds what each
  program point of the handler that holds the mutex (`HolderInv`) knows of `rules` against `committed`: equal before the first
  write; `IsCreated` while the new rule is being copied; `IsRemoved` in a remove, for the tracers no longer in `todo`.
  `MutexInv` leaves every other handler idle or waiting, so that each step has one program point to look at.
  `CreatedContents`, `FirstRule` and `RemovedContents` turn these facts about maps of maps into facts about sets of rules, which is what
  `AtomicRules` speaks of: `CreateTracer` and `CreateCopied` map to `Create`, `RemoveEnd` to `Remove`, the rest to stutters.
* `RequestsGetOn`: each step for a request lowers a measure (`Stages`, then the tracers in `todo`). That a deletion leaves one tracer
  less needs `HolderInv`: the map that is being written is one that the handler still has to do, since no other writes meanwhile.

`Dispatch_proofs` proves, for any watchers, handlers, rules, events and requests (`RuleTableAssumption`; `DispatchAssumption`,
that the rules of requests and files list their actions in sequences, and that the events are bounded by a number):

* `WatchersTyped`, `OnlyActionsInForce` and `DispatchIsExact`. `DispatchInv` contains `TableInv`, since what a range may meet depends
  on where the handler that holds the mutex is. `TransitOK` says that a slot in transit is between two values each of which is in
  force or the zero rule; with it `WatcherOK` ties the actions that a watcher is performing, and those that it has performed, to
  rules in `alive`. `ActionsInForce` needs that because the copy of a rule is made steps before its actions are read off it.
  `Exact` says, at each program point and as long as `Undisturbed` holds, that everything that is to be done has been done for
  exactly the names that the range is through with; the write that ends `Undisturbed` ends what is to be shown.

`ListRules_proofs` proves, for any handlers and requests (`RuleTableAssumption`; `ListRulesAssumption`):

* `ListersTyped` and `RepliesCountHolds`. `ListInv` is built in the same way: `ListerOK` bounds the result by the tracers that the
  outer range has produced, and `Exact` says that each cell counts the rules of its tracer, and that the current one counts
  those its range has added.

`ExecTracer_proofs` proves, for any threads, PIDs, CPUs, argument lists, `MAXARG`, size of the buffers, number of calls and number of
processes that get a PID in turn:

* `ExecTyped` and `EventsShowOwnArgs`. `ExecInv` has four parts: `KernelInv` (what a thread has left to submit is the end of its
  call's arguments, and no two threads are in one call), `TracerInv` (each record and each argument gathered is of a call that
  was made under its PID), `OrderInv` (the records of a call are in one buffer and in order; those gathered come before those that wait, and
  both before those not yet sent) and `EventInv`. Without `OrderInv` nothing forbids a record of a call from being added to
  `argv` after a later one of that call.
* `EventsAreExact` and `ArgvIsDrained`. `StreamInv` says of a PID that is not disturbed that all its records wait in one buffer and
  form a `Chain`: each one begins where the one before has ended, from what has been gathered (`ShownAt`) to where the calls of the
  process have come (`Reached`). A return then finds all arguments of its call gathered, and with no record and no
  call left nothing is. `OneActive` is what makes it hold with several threads: while one of them is between its first
  argument and its return, the others have submitted nothing. The proof has a lemma for each way a step can move the
  stream (a thread submits, an argument or a return is taken, another PID's record is taken, a call begins). A PID becomes undisturbed
  again with an event that leaves nothing of it under way: then its stream is empty, and so is its entry in `argv`. That
  `EventsShowOwnArgs` excepts only disturbed PIDs from showing another process's arguments follows from `EventsAreExact`.

`RuleClient_proofs` proves, for any lives of the daemon, commands, rules, tracers and actions (`DaemonAssumption`;
`RuleClientAssumption`, that a command's rules are finitely many and its names a sequence):

* `TypesOfAll`, `RefusedForCause` and `PathLeadsToDaemon`. `DaemonInv` adds `ListenedSince` to them: a file at the path while
  a daemon is about to listen was put there by another one since the removal. The steps that only move `Run` forward,
  those that change what a daemon has loaded or in its table, and those that end it have a lemma each
  (`GoOnStep`, `InPlaceStep`, `ExitStep`); every action is an instance of one of them but `RemoveSocket`, `RemoveFails` and `Listen`.
* `PrintedStays`: `PrintOK` extends `PrintedInForce` to the reply that has not been read yet, and `Kept` says that the
  daemon serves or has ended, since one that is yet to read its files would forget the rule. `KeptStep` shows that no step of a daemon takes a
  rule out of the table of one that serves, `ChangeStep` that a handler moves to `displaced` what it takes out.
* `SuccessIsComplete`: what was printed and what is still in `todo` make up the rules of the files (`AllThere`).
* `InForceStaysValid`: `ReadIsValid` adds that from the files until the validation every rule is valid by itself; the check against
  the lists of tracers and actions, which comes later, is what takes it to `InForceIsValid`, and the handlers check both.
* `CommandsGetOn`: what is done for a command lowers, lexicographically, its requests to do, the daemons that have not ended
  (`Alive`), and how far its request is (`ToGo`); no other step raises them. A request may be sent again, to another daemon, but only after
  the one it was sent to has ended, and `ClientOK` says that a connection is to one that has listened, which no daemon does twice.
  `TodoInv` (what is to do is a sequence of requests) makes an answer shorten it.
* `FilesInOrder`: `ParseFiles` of no file is empty, and of one file more it is that file's rule put in the table of the others.

`ProbePairs_proofs` proves, for any tasks, files, number of calls and size of the buffer (`ProbePairsAssumption`:
numbers belong to one thread, except those of the idle tasks, and no two processes share one at the start;
`ProcFSAssumption`: the threads of a process have one cgroup, user and group):

* `SubmittedIsOwn` and `HashIsDrained`. `ProbeInv` ties each entry of `tmp` to a call of the task it is kept for (`EntryOK`)
  and says that what a probed return will find is its own call's (`EntryIsOwn`), which needs that a probed return had its
  entry probed, that no two tasks are in one call, and that two tasks that exist and share a number are of one
  process (`NumbersOK`). `OwnInv` carries that to the buffer and the watcher, past the daemon's own opens.
* `ProbesTyped`, `OriginHolds` and `SignalsHold`. An event holds a number, and `/proc` is read by it several steps after the call. `HeldInv`
  says of all data that waits in the hash, in the buffer or with the watcher that whoever has its number now is of the
  process that called, or that the call is in `reused` (`NumberKept`); a step that gives a number to a new process puts the
  calls of that number that are held into `reused`. `OwnOrigin` shows that the files found by such a number tell what is true of the
  process (`ScanStatus`: the lines of its status file give its IDs even if its name looks like a label). `EventInv`
  keeps what each file has told, until the event is reported and a signal is sent. That the daemon is not signalled
  for an open rests on `Ignored`, which leaves its command name out.
* `FieldsAreDecoded`: `OpenEnds`, `BashEnds` and `TcpEnds` compute the ends of the fields of each layout, aligned and packed, one by one
  (`EndsStep`, `ReadStep`); from them `FieldsInPlace` is every field but tcpdrop's `Seq` and `Len`. `AllDecode` says that no
  record is shorter than its Go struct, so that `binary.Read` never fails. `FieldsInv` carries it through the watcher's steps.
* `WatcherGetsOn`: each step of the watcher lowers, lexicographically, the records up to the last one of a call (`Ahead`), what is
  left to do for its event (`Left`), and the length of the buffer. Reading `/proc` adds records, but `CallInv` says that they are of no call and
  behind all that wait (`OpensBehind`), and for such a record the watcher does nothing but pass over it (`Ignored`).
* `NoneDroppedHolds`: by the same lemmas, a record that is to be reported waits on or is taken (`Taken`), and the event made of
  it goes on to its report (`EventGoesOn`), with the files of `/proc` giving what lets it (`DockerIsThere`).

Recursive functions (`Digits`, `ScanLines`, `ShownFirst`, `Ends`) are proved about by a table of their values up to the least number at which there
would be none, which needs no induction over an operator.

The liveness properties (`CancelledEnds`, `AcceptedIsSent`, `RequestsReturn`, `ComesToRest`, `Delivered`, `SignalEnds`,
`CommandsEnd`) are only model-checked: fairness and ENABLED are out of the prover's reach. For five of them what the prover can
show of the argument is proved: `CancelledRunDown`, `RequestsRunDown`, `RunsDown` and `CommandsRunDown` give a
measure that falls with each step of the process in question and that no other process raises, which is why the first, third,
fourth and last of the list end if that process is scheduled; `NoneDropped` says that what `Delivered` waits for is not lost on its way. What stays
with TLC is that a step is always enabled until then, and fairness. Only model-checked are also the four properties that are
violated. Every invariant and every action property of the passing runs is a theorem. Four theorems go beyond the runs, which
leave out what they would only repeat: `RequestsRunDown`, `CancelledRunDown`, and the types of `MatchLoop` and `ListRules`.

## 7. What is abstracted, and what is not modelled

* Strings are model values or sequences of letters where `strings.Contains` looks into them; a text of `/proc` is the
  set of the labels or runtimes found in it, a path a sequence of parts; logging, formats and
  the other fields of an event are left out.
* `Dispatch` keeps the events that passed in `added`; what `addEvent` does with them is `LiveTrace`, and
  the two meet only there. Filling in container runtime and ID is in `ProbePairs`.
* `ExecTracer`: that reading an argument from user memory may fail (a page that is not resident) and the cut at
  128 bytes are left out, and so is the error return of `proc.GetUIDGID` (`exec.go:223`): the name of a process may look like a
  label of the status file, but the lines with the IDs come later and replace its value (`ProcFS!ScanLine`; `NoneDropped` depends on it).
* `ProbePairs`: one perf buffer stands for those of all CPUs, since each of these tracers submits one record per call. How full the hash is
  with threads of others is a choice of `Updates`. A packet's values, the bits of its flags and nested drops in one
  softirq are left out. The files that exist on some hosts only and that the daemon opens when it asks for the runtime,
  `/proc/version_signature` and `/run/systemd/container` (`proc.go:133,147`), make no records in the model: the watcher would pass over
  them as over the others of the daemon. `kill` and `interrupt` differ only in the signal.
* `RuleReader`: a torn slice header is taken to fault; it could also point to other memory, which the copy would then read. What
  Go leaves undefined there is not modelled further.
* `Daemon`: what toml makes of a file is an input. Registering the gRPC service and `Serve`'s errors are not told apart
  from the end of the process.
* `RuleClient`: gRPC connects again at the next request, or sends one again that no handler has seen; its
  timers and its other retries are left out. The handlers are whole requests, which `RuleTable` and its proof justify.
* Not modelled: the functions of `proc.go` that nothing but tests calls (capabilities, AppArmor, namespaces, seccomp), the
  tables of `tcp.go`, generated gRPC code, the version, what is printed, vendored code. They keep no state.
  `Unload` of a tracer that was loaded is called by nothing. `PROJECT.json` has the reason for each.

## 8. Plan

Done: all components that keep state, and eight proof modules that hold every invariant and action property that the passing runs check. What is
left, in this order:

1. Safety lemmas for the other two liveness properties: for `AcceptedIsSent`, how deep in the stack an event is; for
   `SignalEnds`, that a signal stays until the daemon ends.
2. `ApiServer`: watchers and streams composed, from the event to the client.
