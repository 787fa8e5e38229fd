------------------------------ MODULE ListRules ------------------------------
(***************************************************************************)
(* The ListRules handler (api/api.go), which ranges over the whole table   *)
(* without the mutex while CreateRule and RemoveRule write it.             *)
(*                                                                         *)
(* It appends &rule to its result for every entry, where `rule` is the     *)
(* range's variable: Go 1.11 (.travis.yml) has one variable for all turns  *)
(* of a range, so the pointers that one tracer's range adds all point to   *)
(* the rule it copied last.  The result is therefore kept as one cell for  *)
(* each tracer ranged over: how many pointers there are to it, and the     *)
(* rule in it.                                                             *)
(***************************************************************************)
EXTENDS RuleReader

CONSTANTS
  Listers,       \* the goroutines that serve ListRules
  MaxLists       \* bound: the number of ListRules requests

ASSUME ListRulesAssumption == MaxLists \in Nat /\ NoOne \notin Nat

VARIABLES
  up,            \* the daemon has not been aborted by the Go runtime
  lpc,           \* program counter of the handler
  tracersLeft,   \* the tracers that must still be produced by the outer range
  tracersSeen,   \* the tracers it has produced
  p,             \* the tracer it is at
  since,         \* `writes` when the range over its rules began
  seen,          \* the entries that range has produced
  entry,         \* the entry it is at
  cell,          \* the range's variable: pointers to it, and its value
  result,        \* rs: the cells of the tracers ranged over
  lists,         \* history: how many requests there have been
  start          \* history: `writes` when the request came, or NoOne if a map
                 \* was being written just then

listVars == <<lpc, tracersLeft, tracersSeen, p, since, seen, entry, cell, result,
              lists, start>>
allVars == <<vars, up, listVars>>

NoEntry == <<"", 0>>
NoCell == [count |-> 0, rule |-> ZeroRule]

ListInit ==
  /\ Init
  /\ up = TRUE
  /\ lpc = [l \in Listers |-> "idle"]
  /\ tracersLeft = [l \in Listers |-> {}]
  /\ tracersSeen = [l \in Listers |-> {}]
  /\ p = [l \in Listers |-> ""]
  /\ since = [l \in Listers |-> 0]
  /\ seen = [l \in Listers |-> {}]
  /\ entry = [l \in Listers |-> NoEntry]
  /\ cell = [l \in Listers |-> NoCell]
  /\ result = [l \in Listers |-> << >>]
  /\ lists = 0
  /\ start = [l \in Listers |-> NoOne]

-----------------------------------------------------------------------------
LGoTo(l, pcl) == lpc' = [lpc EXCEPT ![l] = pcl]

\* A client's request; the handler comes to its range over s.rules.
ListCall(l) ==
  /\ lpc[l] = "idle"
  /\ lists < MaxLists
  /\ lists' = lists + 1
  /\ LGoTo(l, "begin")
  /\ start' = [start EXCEPT ![l] =
                 IF writing = NoOne /\ inTransit = NoOne THEN writes ELSE NoOne]
  /\ UNCHANGED <<tracersLeft, tracersSeen, p, since, seen, entry, cell, result>>

\* The outer range moves on to a tracer, or ends: the reply is sent.  No tracer
\* is ever removed from the outer map; one added meanwhile may be produced.
AdvanceOuter(l, left, produced) ==
  \/ /\ \E q \in DOMAIN rules \ produced :
          /\ p' = [p EXCEPT ![l] = q]
          /\ tracersLeft' = [tracersLeft EXCEPT ![l] = left \ {q}]
          /\ tracersSeen' = [tracersSeen EXCEPT ![l] = produced \union {q}]
     /\ LGoTo(l, "range")
  \/ /\ left = {}
     /\ LGoTo(l, "reply")
     /\ UNCHANGED <<p, tracersLeft, tracersSeen>>

OuterBegin(l) ==
  /\ lpc[l] = "begin"
  /\ writing # "outer" \/ DOMAIN rules = {}
  /\ AdvanceOuter(l, DOMAIN rules, {})
  /\ UNCHANGED <<since, seen, entry, cell, result, lists, start>>

\* Faulty variant of OuterNext: the range's variable is not started afresh, and
\* the pointers of the tracers before it are added again.
OuterNextKeepsCell(l) ==
  /\ lpc[l] = "outer"
  /\ writing # "outer"
  /\ result' = [result EXCEPT ![l] = IF cell[l].count = 0 THEN @ ELSE Append(@, cell[l])]
  /\ UNCHANGED cell
  /\ AdvanceOuter(l, tracersLeft[l], tracersSeen[l])
  /\ UNCHANGED <<since, seen, entry, lists, start>>

\* The inner range is over: its variable stays behind in the result.
OuterNext(l) ==
  /\ lpc[l] = "outer"
  /\ writing # "outer"
  /\ result' = [result EXCEPT ![l] = IF cell[l].count = 0 THEN @ ELSE Append(@, cell[l])]
  /\ cell' = [cell EXCEPT ![l] = NoCell]
  /\ AdvanceOuter(l, tracersLeft[l], tracersSeen[l])
  /\ UNCHANGED <<since, seen, entry, lists, start>>

AdvanceInner(l, begun, produced) ==
  \/ \E e \in EntriesOf(p[l]) \ produced :
       /\ entry' = [entry EXCEPT ![l] = e]
       /\ seen' = [seen EXCEPT ![l] = produced \union {e}]
       /\ LGoTo(l, "copy")
  \/ /\ MayEnd(p[l], begun, produced)
     /\ LGoTo(l, "outer")
     /\ UNCHANGED <<entry, seen>>

RangeBegin(l) ==
  /\ lpc[l] = "range"
  /\ writing # p[l] \/ DOMAIN rules[p[l]] = {}
  /\ since' = [since EXCEPT ![l] = writes]
  /\ AdvanceInner(l, writes, {})
  /\ UNCHANGED <<tracersLeft, tracersSeen, p, cell, result, lists, start>>

RangeNext(l) ==
  /\ lpc[l] = "next"
  /\ writing # p[l]
  /\ AdvanceInner(l, since[l], seen[l])
  /\ UNCHANGED <<tracersLeft, tracersSeen, p, since, cell, result, lists, start>>

\* rs = append(rs, &rule)
AppendRule(l) ==
  /\ lpc[l] = "copy"
  /\ \E r \in Copies(p[l], entry[l]) :
       cell' = [cell EXCEPT ![l] = [count |-> @.count + 1, rule |-> r]]
  /\ LGoTo(l, "next")
  /\ UNCHANGED <<tracersLeft, tracersSeen, p, since, seen, entry, result, lists, start>>

\* The reply has gone out.
Reply(l) ==
  /\ lpc[l] = "reply"
  /\ LGoTo(l, "idle")
  /\ tracersSeen' = [tracersSeen EXCEPT ![l] = {}]
  /\ p' = [p EXCEPT ![l] = ""]
  /\ since' = [since EXCEPT ![l] = 0]
  /\ seen' = [seen EXCEPT ![l] = {}]
  /\ entry' = [entry EXCEPT ![l] = NoEntry]
  /\ result' = [result EXCEPT ![l] = << >>]
  /\ start' = [start EXCEPT ![l] = NoOne]
  /\ UNCHANGED <<tracersLeft, cell, lists>>

\* The range meets a map being written, or the reply is made of a copy whose
\* slice header is torn.
Abort(l) ==
  /\ \/ lpc[l] = "begin" /\ writing = "outer" /\ DOMAIN rules # {}
     \/ lpc[l] = "outer" /\ writing = "outer"
     \/ lpc[l] = "range" /\ writing = p[l] /\ DOMAIN rules[p[l]] # {}
     \/ lpc[l] = "next" /\ writing = p[l]
     \/ lpc[l] = "copy" /\ TornHeader(p[l], entry[l])
  /\ up' = FALSE
  /\ UNCHANGED listVars

-----------------------------------------------------------------------------
ListerStep(l) ==
  \/ OuterBegin(l) \/ OuterNext(l) \/ RangeBegin(l) \/ RangeNext(l) \/ AppendRule(l)
  \/ Reply(l)

ListNext ==
  /\ up
  /\ \/ Next /\ UNCHANGED <<up, listVars>>
     \/ (\E l \in Listers : ListCall(l) \/ ListerStep(l)) /\ UNCHANGED <<vars, up>>
     \/ (\E l \in Listers : Abort(l)) /\ UNCHANGED vars

ListSpec == ListInit /\ [][ListNext]_allVars

-----------------------------------------------------------------------------
(* Properties.                                                             *)

\* The handlers' variables have their types; a range is over a tracer of the
\* table, and the reply has at most one cell for each.
ListTypeOK ==
  /\ up \in BOOLEAN
  /\ lpc \in [Listers -> {"idle", "begin", "range", "next", "copy", "outer", "reply"}]
  /\ \A l \in Listers :
       /\ tracersLeft[l] \subseteq DOMAIN rules \ tracersSeen[l]
       /\ tracersSeen[l] \subseteq DOMAIN rules
       /\ lpc[l] \in {"range", "next", "copy", "outer"} => p[l] \in tracersSeen[l]
       /\ Len(result[l]) <= Cardinality(tracersSeen[l])
  /\ lists \in 0..MaxLists

Undisturbed(l) == start[l] = writes

\* The entries of a reply.
Listed(l) == {result[l][i].rule : i \in DOMAIN result[l]}
CountOf(q, l) ==
  LET own == {i \in DOMAIN result[l] : result[l][i].rule.tracer = q}
  IN IF own = {} THEN 0 ELSE result[l][CHOOSE i \in own : TRUE].count

\* A reply that no write overtakes has as many entries for each tracer as the
\* tracer has rules, and each entry is a rule of the table: `bpfd ls` shows the
\* right number of lines, none of them invented (api.go:201-211).
RepliesCount ==
  \A l \in Listers : lpc[l] = "reply" /\ Undisturbed(l) =>
    /\ Listed(l) \subseteq Contents(rules)
    /\ \A q \in DOMAIN rules : CountOf(q, l) = Cardinality(DOMAIN rules[q])

-----------------------------------------------------------------------------
\* "You can list the rules that the daemon is filtering with by using the `ls`
\* command." (README.md:277): a reply that no write overtakes has every rule.
ListsEveryRule ==
  \A l \in Listers : lpc[l] = "reply" /\ Undisturbed(l) => Listed(l) = Contents(rules)
=============================================================================
