----------------------------- MODULE MCMatchLoop -----------------------------
(* Values for the constants of MatchLoop: every rule over two filter keys   *)
(* and two runtimes with lists of at most two, and every event over the     *)
(* same keys.                                                               *)
EXTENDS MatchLoop

FnsOver(S, T) == UNION {[D -> T] : D \in SUBSET S}
ListsOver(S) == UNION {[1..n -> S] : n \in 0..2}

MCKeys == {"command", "filename"}
MCRuntimes == {"docker", "kube"}

\* The finds are the empty string, which every value contains, and "b".
MCValues == {<<"a">>, <<"a", "b">>}
MCFinds == {<< >>, <<"b">>}

MCRules ==
  [name : {"r"}, tracer : {"exec"}, actions : {<< >>},
   filters : FnsOver(MCKeys, ListsOver(MCFinds)),
   runtimes : ListsOver(MCRuntimes)]

MCDatas == FnsOver(MCKeys \union {"argv"}, MCValues)
MCPidRuntimes == MCRuntimes \union {"not-found"}
=============================================================================
