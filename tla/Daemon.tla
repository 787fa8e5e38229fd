-------------------------------- MODULE Daemon --------------------------------
(***************************************************************************)
(* bpfd daemon, from its start to its end (daemon.go): the steps of Run,   *)
(* each of which may fail, with the tracers that NewServer loads one after *)
(* the other, next to the goroutine that waits for a signal; and the path  *)
(* of the socket, which daemons that run one after the other or at the     *)
(* same time share.  A member of Daemons is one life of the process.       *)
(***************************************************************************)
EXTENDS Rules, FiniteSets

CONSTANTS
  Daemons,      \* lives of the daemon
  NoDaemon,     \* no file at the socket's path
  Tracers,      \* tracer.List
  Actions,      \* action.List
  Runtimes,     \* proc.ContainerRuntimes
  Directories   \* what the directory of rules may hold: sequences of files

ASSUME DaemonAssumption == NoDaemon \notin Daemons

VARIABLES
  pc,           \* where Run is
  status,       \* how it ended
  signal,       \* d's channel c holds a signal
  badEnv,       \* the daemons whose docker client cannot be made (Init fails)
  table,        \* d's rules in force
  loaded, started,  \* d's tracers with their probes attached, and polled
  socket,       \* whose listener the socket's path leads to
  listening,    \* the daemons that listen
  warned,       \* history: who logged that the old socket was not removed, and has not
                \* listened since
  boundSince,   \* history: who listened since d removed the old socket, or tried to
  removedSince  \* history: who removed a socket since d listened

daemonVars == <<pc, status, signal, badEnv, table, loaded, started, socket, listening,
                warned, boundSince, removedSince>>

-----------------------------------------------------------------------------
(* Rule files (rules/rules.go).                                            *)

\* A file: its base name, whether it is toml, and the rule in it.
File(base, toml, rule) == [base |-> base, toml |-> toml, rule |-> rule]

\* Parse: a rule without a name has that of its file.
Parse(file) == IF file.rule.name = "" THEN [file.rule EXCEPT !.name = file.base] ELSE file.rule
Parses(file) == file.toml /\ Validate(Parse(file), Runtimes)

\* The assignment to rules[tracer][name], here and in CreateRule.
Put(rules, rule) ==
  {r \in rules : r.tracer # rule.tracer \/ r.name # rule.name} \union {rule}

\* A later file replaces an earlier one with the same tracer and name.
Replaces(files, j, i) ==
  /\ j > i
  /\ Parse(files[j]).tracer = Parse(files[i]).tracer /\ Parse(files[j]).name = Parse(files[i]).name
ParseFiles(files) ==
  {Parse(files[i]) : i \in {i \in DOMAIN files : \A j \in DOMAIN files : ~Replaces(files, j, i)}}
AllParse(files) == \A file \in ToSet(files) : Parses(file)

-----------------------------------------------------------------------------
(* Run.                                                                    *)

Step(d, from, to) == pc[d] = from /\ pc' = [pc EXCEPT ![d] = to]

\* The process ends: what it had attached is detached, its listener is closed, its
\* rules are forgotten; but nothing unlinks the socket.
Exit(d, how) ==
  /\ pc' = [pc EXCEPT ![d] = "exited"]
  /\ status' = [status EXCEPT ![d] = how]
  /\ signal' = [signal EXCEPT ![d] = FALSE] /\ badEnv' = badEnv \ {d}
  /\ table' = [table EXCEPT ![d] = {}]
  /\ loaded' = [loaded EXCEPT ![d] = {}] /\ started' = [started EXCEPT ![d] = {}]
  /\ listening' = listening \ {d}
  /\ removedSince' = [removedSince EXCEPT ![d] = {}]
  /\ UNCHANGED <<socket, warned, boundSince>>

\* signal.Notify, and the goroutine that waits.
Begin(d) ==
  /\ Step(d, "off", "rules")
  /\ badEnv' \in {badEnv, badEnv \union {d}}
  /\ UNCHANGED <<status, signal, table, loaded, started, socket, listening,
                 warned, boundSince, removedSince>>

\* ReadDir and ParseFiles; a directory that is not there holds no files.
ReadRules(d) ==
  /\ pc[d] = "rules"
  /\ \E files \in Directories :
       IF AllParse(files)
       THEN /\ Step(d, "rules", "registry")
            /\ table' = [table EXCEPT ![d] = ParseFiles(files)]
            /\ UNCHANGED <<status, signal, badEnv, loaded, started, socket, listening,
                           warned, boundSince, removedSince>>
       ELSE Exit(d, "error")

\* Init of dockeropenbreakout, which needs a docker client.
Inits(d) == d \notin badEnv

\* tracer.Get and action.Get for every name of their lists.
GetAll(d) ==
  IF ~Inits(d) THEN pc[d] = "registry" /\ Exit(d, "error")
  ELSE /\ Step(d, "registry", "validate")
       /\ UNCHANGED <<status, signal, badEnv, table, loaded, started, socket, listening,
                      warned, boundSince, removedSince>>

ValidateAll(d) ==
  IF \A r \in table[d] : ValidateTracersAndActions(r, Tracers, Actions)
  THEN /\ Step(d, "validate", "socket")
       /\ UNCHANGED <<status, signal, badEnv, table, loaded, started, socket, listening,
                      warned, boundSince, removedSince>>
  ELSE pc[d] = "validate" /\ Exit(d, "error")

\* Faulty variant of RemoveSocket: the old socket stays.
KeepSocket(d) ==
  /\ Step(d, "socket", "listen")
  /\ boundSince' = [boundSince EXCEPT ![d] = {}]
  /\ UNCHANGED <<status, signal, badEnv, table, loaded, started, socket, listening,
                 warned, removedSince>>

\* MkdirAll and RemoveAll, whoever's socket it is...
RemoveSocket(d) ==
  /\ Step(d, "socket", "listen")
  /\ socket' = NoDaemon
  /\ boundSince' = [boundSince EXCEPT ![d] = {}]
  /\ removedSince' = [e \in Daemons |-> removedSince[e] \union {d}]
  /\ UNCHANGED <<status, signal, badEnv, table, loaded, started, listening, warned>>

\* ...or RemoveAll fails: Run warns of it and goes on.
RemoveFails(d) ==
  /\ Step(d, "socket", "listen")
  /\ warned' = warned \union {d}
  /\ boundSince' = [boundSince EXCEPT ![d] = {}]
  /\ UNCHANGED <<status, signal, badEnv, table, loaded, started, socket, listening,
                 removedSince>>

\* ReadDir fails and not because the directory is not there, or MkdirAll fails, or
\* net.Listen for another reason than a file at the path: each ends Run.
SystemFails(d) == pc[d] \in {"rules", "socket", "listen"} /\ Exit(d, "error")

\* Faulty variant of Listen: the old socket is removed once the new one is there.
ListenAndRemove(d) ==
  /\ Step(d, "listen", "load")
  /\ socket' = NoDaemon /\ listening' = listening \union {d}
  /\ boundSince' = [e \in Daemons |-> boundSince[e] \union {d}]
  /\ removedSince' = [removedSince EXCEPT ![d] = {}] /\ warned' = warned \ {d}
  /\ UNCHANGED <<status, signal, badEnv, table, loaded, started>>

\* net.Listen fails if there is a file at the path.
Listen(d) ==
  IF socket # NoDaemon THEN pc[d] = "listen" /\ Exit(d, "address in use")
  ELSE /\ Step(d, "listen", "load")
       /\ socket' = d /\ listening' = listening \union {d}
       /\ boundSince' = [e \in Daemons |-> boundSince[e] \union {d}]
       /\ removedSince' = [removedSince EXCEPT ![d] = {}] /\ warned' = warned \ {d}
       /\ UNCHANGED <<status, signal, badEnv, table, loaded, started>>

\* Faulty variant of LoadTracer: Start comes before Load.
StartUnloaded(d) ==
  /\ pc[d] = "load" /\ loaded[d] = started[d]
  /\ \E t \in Tracers \ loaded[d] : started' = [started EXCEPT ![d] = @ \union {t}]
  /\ UNCHANGED <<pc, status, signal, badEnv, table, loaded, socket, listening,
                 warned, boundSince, removedSince>>

\* NewServer's range over the tracers: Load, the watcher's goroutine, Start...
LoadTracer(d) ==
  /\ pc[d] = "load" /\ loaded[d] = started[d]
  /\ \E t \in Tracers \ loaded[d] : loaded' = [loaded EXCEPT ![d] = @ \union {t}]
  /\ UNCHANGED <<pc, status, signal, badEnv, table, started, socket, listening,
                 warned, boundSince, removedSince>>
StartTracer(d) ==
  /\ pc[d] = "load" /\ loaded[d] # started[d]
  /\ started' = [started EXCEPT ![d] = loaded[d]]
  /\ UNCHANGED <<pc, status, signal, badEnv, table, loaded, socket, listening,
                 warned, boundSince, removedSince>>

\* ...or the first Load that fails ends Run, with other tracers at work.
LoadFails(d) ==
  pc[d] = "load" /\ loaded[d] = started[d] /\ started[d] # Tracers /\ Exit(d, "error")

Serve(d) ==
  /\ started[d] = Tracers /\ Step(d, "load", "serving")
  /\ UNCHANGED <<status, signal, badEnv, table, loaded, started, socket, listening,
                 warned, boundSince, removedSince>>

-----------------------------------------------------------------------------
(* Signals.                                                                *)

Running(d) == pc[d] \notin {"off", "exited"}

\* ^C or SIGTERM; the channel has room for one.
Signal(d) ==
  /\ Running(d) /\ ~signal[d]
  /\ signal' = [signal EXCEPT ![d] = TRUE]
  /\ UNCHANGED <<pc, status, badEnv, table, loaded, started, socket, listening,
                 warned, boundSince, removedSince>>

\* Faulty variant of UnloadAll: the tracers are unloaded and Run goes on.
UnloadOnly(d) ==
  /\ Running(d) /\ signal[d]
  /\ signal' = [signal EXCEPT ![d] = FALSE]
  /\ UNCHANGED <<pc, status, badEnv, table, loaded, started, socket, listening,
                 warned, boundSince, removedSince>>

\* UnloadAll gets fresh instances from the registry, whose module and perfMap are
\* nil: their Unload does nothing.  One that cannot be made is nil itself and its
\* Unload panics.
UnloadEnd(d) == IF Inits(d) THEN "0" ELSE "panic"

\* The goroutine that waits ends the process, whatever Run is doing.
UnloadAll(d) == Running(d) /\ signal[d] /\ Exit(d, UnloadEnd(d))

\* Killed, or before Notify a plain ^C.
Crash(d) == Running(d) /\ Exit(d, "killed")

-----------------------------------------------------------------------------
InitDaemon ==
  /\ pc = [d \in Daemons |-> "off"]
  /\ status = [d \in Daemons |-> "running"]
  /\ signal = [d \in Daemons |-> FALSE]
  /\ badEnv = {}
  /\ table = [d \in Daemons |-> {}]
  /\ loaded = [d \in Daemons |-> {}] /\ started = [d \in Daemons |-> {}]
  /\ socket = NoDaemon /\ listening = {} /\ warned = {}
  /\ boundSince = [d \in Daemons |-> {}] /\ removedSince = [d \in Daemons |-> {}]

Main(d) ==
  \/ ReadRules(d) \/ GetAll(d) \/ ValidateAll(d)
  \/ RemoveSocket(d) \/ RemoveFails(d) \/ Listen(d) \/ SystemFails(d)
  \/ LoadTracer(d) \/ StartTracer(d) \/ LoadFails(d) \/ Serve(d)

NextDaemon(d) == Begin(d) \/ Main(d) \/ Signal(d) \/ UnloadAll(d) \/ Crash(d)

Phases == {"off", "rules", "registry", "validate", "socket", "listen", "load", "serving",
           "exited"}
Ends == {"running", "error", "address in use", "0", "panic", "killed"}

\* The types; who listens is one that has got that far, and only one that was not
\* started yet or has ended has no tracers or has a status.
DaemonTypeOK ==
  /\ pc \in [Daemons -> Phases] /\ status \in [Daemons -> Ends]
  /\ signal \in [Daemons -> BOOLEAN] /\ badEnv \subseteq Daemons
  /\ socket \in Daemons \union {NoDaemon} /\ listening \subseteq Daemons
  /\ warned \subseteq Daemons
  /\ \A d \in Daemons :
       /\ started[d] \subseteq loaded[d] /\ loaded[d] \subseteq Tracers
       /\ d \in listening <=> pc[d] \in {"load", "serving"}
       /\ loaded[d] # {} => d \in listening
       /\ pc[d] = "exited" <=> status[d] # "running"

\* The socket of a daemon that was killed does not keep the next one from starting:
\* net.Listen finds a file at the path only if yet another daemon got in after the
\* removal, or the removal failed, and then the log has a warning (daemon.go:124-126).
ListenFailsForCause ==
  \A d \in Daemons : status[d] = "address in use" => boundSince[d] \ {d} # {} \/ d \in warned

\* The path leads to the daemon that serves, unless another was started after it;
\* and never to one that has not listened.
ReachableUnlessReplaced ==
  \A d \in Daemons : d \in listening => socket = d \/ removedSince[d] # {}

\* What a daemon has in force once it has checked its files is valid, the rules that
\* clients create later included, and it serves with every tracer at work.
InForceIsValid ==
  \A d \in Daemons :
    /\ pc[d] \in {"socket", "listen", "load", "serving"} =>
         \A r \in table[d] : /\ Validate(r, Runtimes)
                             /\ ValidateTracersAndActions(r, Tracers, Actions)
    /\ pc[d] = "serving" => started[d] = Tracers

\* A signal ends the daemon, at whatever point of its start it comes.
SignalEnds == \A d \in Daemons : signal[d] ~> pc[d] = "exited"
=============================================================================
