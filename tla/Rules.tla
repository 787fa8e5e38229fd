-------------------------------- MODULE Rules --------------------------------
(***************************************************************************)
(* Rules (grpc.Rule) and the functions of rules/rules.go that decide with  *)
(* them.  A rule is a record                                               *)
(*   [name, tracer : strings, filters : keys -> Seq(values),               *)
(*    runtimes : Seq(strings), actions : Seq(strings)];                    *)
(* an event's Data is a function from keys to values.  A value is a        *)
(* sequence of characters; which characters is left open.                  *)
(***************************************************************************)
EXTENDS Naturals, Sequences, SequencesExt

\* strings.Contains: find is a contiguous part of value; an empty find is.
StringContains(value, find) ==
  \E i \in 0..(Len(value) - Len(find)) :
    \A j \in 1..Len(find) : value[i + j] = find[j]

EmptyMap == [key \in {} |-> << >>]

\* grpc.Rule{}, what a map slot holds before a rule is copied into it.
ZeroRule ==
  [name |-> "", tracer |-> "", filters |-> EmptyMap, runtimes |-> << >>, actions |-> << >>]

RuntimeAllowed(rule, pidRuntime) ==
  rule.runtimes = << >> \/ pidRuntime \in ToSet(rule.runtimes)

FilterFound(rule, data) ==
  \E key \in DOMAIN data \intersect DOMAIN rule.filters :
    \E find \in ToSet(rule.filters[key]) : StringContains(data[key], find)

\* What Match decides: a runtime of the rule's list, if it lists any, AND a
\* value of one of its filters, if it has any.
Match(rule, data, pidRuntime) ==
  /\ RuntimeAllowed(rule, pidRuntime)
  /\ DOMAIN rule.filters = {} \/ FilterFound(rule, data)

\* Validate returns nil.
Validate(rule, validRuntimes) ==
  /\ rule.name # ""
  /\ rule.tracer # ""
  /\ ToSet(rule.runtimes) \subseteq validRuntimes

\* ValidateTracersAndActions returns nil.
ValidateTracersAndActions(rule, tracers, actions) ==
  /\ rule.tracer \in tracers
  /\ ToSet(rule.actions) \subseteq actions
=============================================================================
