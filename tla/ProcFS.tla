-------------------------------- MODULE ProcFS --------------------------------
(***************************************************************************)
(* /proc as package proc reads it (proc/proc.go): which task's files are   *)
(* read for the two numbers of an event, and what the text in them tells.  *)
(* Processes come and go: a PID names the process that has it now.         *)
(* A text that is searched for the names of container runtimes is the set  *)
(* of the names it contains; a status file is a sequence of lines, each    *)
(* with the labels that strings.Contains finds in it and the number after  *)
(* its first colon.  A path is a sequence whose numbers are single digits. *)
(***************************************************************************)
EXTENDS Naturals, Sequences, SequencesExt, FiniteSetsExt

CONSTANTS
  Threads,      \* the tasks there may ever be
  Task,         \* Task[t]: one of Tasks
  Self,         \* the daemon's task
  NoNumber      \* text that strconv.Atoi does not parse

\* process tells apart two processes that have the same PID one after the other;
\* name is the labels that the name of the process looks like.
Tasks == [process : STRING, pid : Nat, tid : Nat, parent : Nat, uid : Nat, gid : Nat,
          cgroup : [names : SUBSET STRING, id : STRING],
          name : SUBSET {"Uid:", "Gid:"}, comm : STRING]

\* The threads of a process are in one cgroup and have one user and one group.
ASSUME ProcFSAssumption ==
  /\ Task \in [Threads -> Tasks] /\ Self \in Threads /\ NoNumber \notin Nat
  /\ \A t, u \in Threads :
       Task[t].process = Task[u].process =>
         /\ Task[t].cgroup = Task[u].cgroup
         /\ Task[t].uid = Task[u].uid /\ Task[t].gid = Task[u].gid

VARIABLE alive  \* the tasks that exist

ContainerRuntimes ==
  <<"docker", "rkt", "systemd-nspawn", "lxc", "lxc-libvirt", "openvz", "kube", "garden",
    "podman", "gvisor", "firejail", "wsl">>
Runtimes == ToSet(ContainerRuntimes) \union {"not-found"}

\* getContainerRuntime: the first of the list that the text contains.
RuntimeIn(names) ==
  LET found == {i \in DOMAIN ContainerRuntimes : ContainerRuntimes[i] \in names}
  IN IF found = {} THEN "not-found" ELSE ContainerRuntimes[Min(found)]

WithPid(p) == {t \in alive : Task[t].pid = p}

\* Faulty variant of TaskRead: the files of the parent, if its number is known.
TaskReadOfParent(tgid, pid) == IF tgid > 0 THEN WithPid(tgid) ELSE WithPid(pid)

\* The tasks of the process whose files are read.  /proc/tgid/task/pid exists if
\* pid is a thread of process tgid, and pid, a process's number, only is its own.
TaskRead(tgid, pid) ==
  IF pid = 0 THEN {Self} \intersect alive
  ELSE {t \in WithPid(pid) : tgid > 0 => tgid = pid}

\* A number in a path.
Figures == <<"0", "1", "2", "3", "4", "5", "6", "7", "8", "9">>
Digits[n \in Nat] ==
  IF n < 10 THEN <<Figures[n + 1]>> ELSE Append(Digits[n \div 10], Figures[(n % 10) + 1])

\* The file that is read for the two numbers.
ProcFile(tgid, pid, file) ==
  IF pid = 0 THEN <<"/proc/", "self/", file>>
  ELSE IF tgid > 0 THEN <<"/proc/">> \o Digits[tgid] \o <<"/task/">> \o Digits[pid] \o <<file>>
  ELSE <<"/proc/">> \o Digits[pid] \o <<file>>

\* What the daemon's surroundings say, in the order in which they are asked when
\* the cgroup names no runtime: files of openvz and gVisor, the command line of
\* process 1, WSL's version file, $container and /run/systemd/container.
RuntimeAround(host) ==
  IF host.vz /\ ~host.bc THEN "openvz"
  ELSE IF host.runsc THEN "gvisor"
  ELSE IF RuntimeIn(host.cmdline) # "not-found" THEN RuntimeIn(host.cmdline)
  ELSE IF host.microsoft THEN "wsl"
  ELSE IF RuntimeIn(host.env) # "not-found" THEN RuntimeIn(host.env)
  ELSE RuntimeIn(host.run)

\* The files of process 1 and of the host that RuntimeAround opens.
OpensAround(host) ==
  IF (host.vz /\ ~host.bc) \/ host.runsc THEN << >> ELSE << <<"/proc/", "1", "/cmdline">> >>

GetContainerRuntime(tgid, pid, host) ==
  LET own == RuntimeIn(UNION {Task[t].cgroup.names : t \in TaskRead(tgid, pid)})
  IN IF own # "not-found" THEN own ELSE RuntimeAround(host)

\* The ID in the first cgroup path of the forms that the expression lists, or "".
GetContainerID(tgid, pid) ==
  LET ts == TaskRead(tgid, pid)
  IN IF ts = {} THEN "" ELSE Task[CHOOSE t \in ts : TRUE].cgroup.id

\* The lines of a task's status file that matter: its name, which may look like
\* one of the labels, its IDs, and a line after them.
Status(t) ==
  << [labels |-> Task[t].name, value |-> NoNumber],
     [labels |-> {"Uid:"}, value |-> Task[t].uid],
     [labels |-> {"Gid:"}, value |-> Task[t].gid],
     [labels |-> {}, value |-> NoNumber] >>

NoIds == [uid |-> << >>, gid |-> << >>]

\* Faulty variant of ScanLine: the first line with a label counts.
ScanFirstLine(ids, line) ==
  IF "Uid:" \in line.labels /\ ids.uid = << >> THEN [ids EXCEPT !.uid = <<line.value>>]
  ELSE IF "Gid:" \in line.labels /\ ids.gid = << >> THEN [ids EXCEPT !.gid = <<line.value>>]
  ELSE ids

\* The body of getUIDGID's loop: a later line with a label replaces an earlier
\* one.  The break, on a line without a label once both are set, comes after the
\* IDs, as no line after them has a label.
ScanLine(ids, line) ==
  IF "Uid:" \in line.labels THEN [ids EXCEPT !.uid = <<line.value>>]
  ELSE IF "Gid:" \in line.labels THEN [ids EXCEPT !.gid = <<line.value>>]
  ELSE ids

ScanLines(lines) ==
  LET scanned[i \in 0..Len(lines)] ==
        IF i = 0 THEN NoIds ELSE ScanLine(scanned[i - 1], lines[i])
  IN scanned[Len(lines)]

\* GetUIDGID: 0 and 0 when there is no file to read; NoNumber stands for an error.
GetUIDGID(tgid, pid) ==
  LET ts == TaskRead(tgid, pid)
      ids == ScanLines(IF ts = {} THEN << >> ELSE Status(CHOOSE t \in ts : TRUE))
  IN IF ids = NoIds THEN <<0, 0>> ELSE <<ids.uid[1], ids.gid[1]>>
=============================================================================
