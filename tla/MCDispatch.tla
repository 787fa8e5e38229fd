------------------------------ MODULE MCDispatch ------------------------------
(* Values for the constants of Dispatch.                                     *)
EXTENDS Dispatch

One(k, v) == [x \in {k} |-> v]
MCRule(name, tracer, filters, runtimes, actions) ==
  [name |-> name, tracer |-> tracer, filters |-> filters, runtimes |-> runtimes,
   actions |-> actions]

Shadow == One("filename", <<<<"s">>>>)
Other == One("filename", <<<<"x">>>>)

\* "shadow" in two versions, one for containers only with two actions; "setuid",
\* which does not match the event of tracer open; the first rule of exec.
ShadowRule == MCRule("shadow", "open", Shadow, << >>, <<"stdout">>)
ShadowInDocker == MCRule("shadow", "open", EmptyMap, <<"docker">>, <<"kill">>)
SetuidRule == MCRule("setuid", "open", Other, << >>, <<"kill", "stdout">>)
ExecRule == MCRule("shadow", "exec", EmptyMap, << >>, <<"stdout">>)

MCInitialRules == One("open", One("shadow", ShadowRule))

MCRequests ==
  { CreateRequest(ShadowInDocker), CreateRequest(SetuidRule), CreateRequest(ExecRule),
    RemoveRequest("", "shadow") }

\* An event that ShadowRule matches, one that SetuidRule and ShadowInDocker
\* match, one without data.
MCEvents ==
  { [data |-> One("filename", <<"s">>), runtime |-> "not-found"],
    [data |-> One("filename", <<"x">>), runtime |-> "docker"],
    NoEvent }
=============================================================================
