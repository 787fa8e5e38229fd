---------------------------- MODULE MCExecTracer ----------------------------
(* Values for the constants of ExecTracer: two threads of one process and a *)
(* process of its own, two CPUs, and lists of arguments below and above     *)
(* MAXARG = 2.                                                             *)
EXTENDS ExecTracer

CONSTANTS t1, t2, t3

MCPID == [t \in Threads |-> IF t = t3 THEN 2 ELSE 1]

MCArgLists == {<<"ls">>, <<"sh", " ", "-x">>}

\* Bounds of the run.  Under PID 2 there is one call at most, and the PID is not given
\* away.  PID 1 is given away between two calls made under it only: what reads `life`
\* is a call, so that before the first and after the last it makes no difference.
CallsUnder(p) == {i \in DOMAIN called : called[i].pid = p}
Bounds ==
  /\ life[2] = 0 /\ \A i, j \in CallsUnder(2) : i = j
  /\ life[1] = 1 =>
       /\ \E i \in CallsUnder(1) : called[i].life = 0
       /\ Len(called) < MaxCalls \/ \E i \in CallsUnder(1) : called[i].life = 1

\* The threads of one process, and the CPUs, are interchangeable.
Symmetry == Permutations({t1, t2}) \union Permutations(Cpus)
=============================================================================
