----------------------------- MODULE MCRuleClient -----------------------------
(* Values for the constants of RuleClient and Daemon.                        *)
EXTENDS RuleClient

MCRule(name, tracer, actions) ==
  [ZeroRule EXCEPT !.name = name, !.tracer = tracer, !.actions = actions]

\* A rule named by its file; another version of it; one for a tracer that is not
\* compiled in; a file that is no rule.
Shadow == File("shadow", TRUE, MCRule("", "open", <<"stdout">>))
ShadowKill == File("other", TRUE, MCRule("shadow", "open", <<"kill">>))
Unknown == File("unknown", TRUE, MCRule("", "nosuch", << >>))
NoToml == File("readme", FALSE, ZeroRule)

MCDirectories == {<< >>, <<Shadow, ShadowKill>>, <<Unknown>>, <<NoToml>>}
MCCommands ==
  { [op |-> "create", files |-> <<Shadow, Unknown>>],
    [op |-> "create", files |-> <<Shadow, ShadowKill>>],
    [op |-> "rm", names |-> <<"shadow", "">>] }
=============================================================================
