----------------------------- MODULE MCProbePairs -----------------------------
(* Values for the constants of ProbePairs.                                   *)
EXTENDS ProbePairs

MCTask(process, pid, tid, parent, uid, names, id, name, comm) ==
  [process |-> process, pid |-> pid, tid |-> tid, parent |-> parent, uid |-> uid, gid |-> uid,
   cgroup |-> [names |-> names, id |-> id], name |-> name, comm |-> comm]

\* Two threads of a process in docker; its parent, outside; a later process with the
\* number of the first and a name like a label; two CPUs' idle tasks; the daemon, which
\* the shell has started.
MCThreads == {"a", "b", "shell", "late", "idle0", "idle1", "bpfd"}
MCTaskTable ==
  [a |-> MCTask("app", 12, 12, 11, 5, {"docker"}, "c5", {}, "sh"),
   b |-> MCTask("app", 12, 13, 11, 5, {"docker"}, "c5", {}, "sh"),
   shell |-> MCTask("shell", 11, 11, 1, 7, {}, "", {}, "sh"),
   late |-> MCTask("late", 12, 12, 11, 8, {"lxc", "lxc-libvirt"}, "c8", {"Uid:"}, "Uid:"),
   idle0 |-> MCTask("idle", 0, 0, 0, 0, {}, "", {}, "swapper/0"),
   idle1 |-> MCTask("idle", 0, 0, 0, 0, {}, "", {}, "swapper/1"),
   bpfd |-> MCTask("bpfd", 2, 2, 11, 0, {}, "", {}, "bpfd")]

MCCallers ==
  [open |-> {"a", "b", "late"}, dockeropenbreakout |-> {"a", "shell", "late"},
   tcpdrop |-> {"a", "idle0", "idle1", "late"}, bashreadline |-> {"a", "b"}]

\* A file of the host; one of a process whose PID begins with the opener's parent's;
\* one of the container's.
MCPaths ==
  [open |-> {<<"/etc/">>, <<"/proc/", "1", "1", "4">>},
   dockeropenbreakout |-> {<<"/etc/">>, <<"/proc/", "1", "1", "4">>, <<"/overlay/", "f">>}]
MCGraphDirs == {<<"/overlay/">>}

Bare == [vz |-> FALSE, bc |-> FALSE, runsc |-> FALSE, cmdline |-> {}, microsoft |-> FALSE,
         env |-> {}, run |-> {}]
MCHosts == {Bare, [Bare EXCEPT !.cmdline = {"firejail"}, !.microsoft = TRUE]}
=============================================================================
