----------------------------- MODULE MCListRules -----------------------------
(* Values for the constants of ListRules: rules of two names for the tracer  *)
(* open and one for exec, created, overwritten and removed.                  *)
EXTENDS ListRules

One(k, v) == [x \in {k} |-> v]
MCRule(name, tracer, actions) ==
  [name |-> name, tracer |-> tracer, filters |-> EmptyMap, runtimes |-> << >>,
   actions |-> actions]

MCInitialRules == One("open", One("shadow", MCRule("shadow", "open", << >>)))

MCRequests ==
  { CreateRequest(MCRule("shadow", "open", <<"kill">>)),
    CreateRequest(MCRule("setuid", "open", << >>)),
    CreateRequest(MCRule("shadow", "exec", << >>)),
    RemoveRequest("", "shadow") }
=============================================================================
