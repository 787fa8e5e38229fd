----------------------------- MODULE MCRuleTable -----------------------------
(* Values for the constants of RuleTable: two tracers, one of them with a   *)
(* rule loaded from a file; rules of two names, one of which both tracers   *)
(* can have; requests that are accepted and requests that are refused.      *)
EXTENDS RuleTable

MCRule(name, tracer, actions) ==
  [name |-> name, tracer |-> tracer, filters |-> EmptyMap, runtimes |-> << >>,
   actions |-> actions]

MCNames == {"shadow", "setuid"}
MCInitialRules == Put(EmptyMap, "open", Put(EmptyMap, "shadow", MCRule("shadow", "open", << >>)))

MCRequests ==
  { CreateRequest(MCRule("shadow", "open", <<"kill">>)),
    CreateRequest(MCRule("setuid", "open", << >>)),
    CreateRequest(MCRule("shadow", "exec", << >>)),
    CreateRequest(MCRule("setuid", "exec", <<"page">>)),
    RemoveRequest("", "shadow"),
    RemoveRequest("open", "setuid"),
    RemoveRequest("exec", "shadow"),
    RemoveRequest("open", "") }
=============================================================================
