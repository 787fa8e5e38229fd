----------------------------- MODULE AtomicRules -----------------------------
(***************************************************************************)
(* What CreateRule and RemoveRule (api/api.go) promise about the table of  *)
(* rules: it holds at most one rule for a tracer and a name, and a request *)
(* that is accepted takes effect at once and as a whole.                   *)
(***************************************************************************)
CONSTANTS Requests,          \* the requests clients send
          Accepted(_),       \* the rules that pass validation
          InitialTable       \* the rules loaded from files

VARIABLE table               \* the set of the rules in force

Init == table = InitialTable

Create(rule) ==
  /\ Accepted(rule)
  /\ table' = {r \in table : r.tracer # rule.tracer \/ r.name # rule.name} \union {rule}

\* Without a tracer the rule goes from every tracer that has one of the name.
Remove(tracer, name) ==
  table' = {r \in table : r.name # name \/ tracer \notin {"", r.tracer}}

Next ==
  \E req \in Requests :
    IF req.op = "create" THEN Create(req.rule) ELSE Remove(req.tracer, req.name)

Spec == Init /\ [][Next]_table
=============================================================================
