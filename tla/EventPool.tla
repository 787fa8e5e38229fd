------------------------------ MODULE EventPool ------------------------------
(***************************************************************************)
(* What the live-trace queue of api/event.go and api/api.go promises about *)
(* an event it has accepted: it is handed over whole, once, to one stream, *)
(* or it is given up because a Send failed; nothing else makes it vanish,  *)
(* and nothing is delivered that was not accepted.  The order in which     *)
(* events leave the pool, and which stream gets them, are left open.       *)
(***************************************************************************)
CONSTANTS Streams,      \* the LiveTrace calls
          Ids           \* the identities of the events offered to the queue

VARIABLES pool,         \* accepted and not yet handed over
          delivered,    \* delivered[s]: what stream s has been sent
          lost          \* taken from the pool by a Send that failed

vars == <<pool, delivered, lost>>

Known == pool \union lost \union UNION {delivered[s] : s \in Streams}

Init ==
  /\ pool = {}
  /\ delivered = [s \in Streams |-> {}]
  /\ lost = {}

Accept(e) ==
  /\ e \notin Known
  /\ pool' = pool \union {e}
  /\ UNCHANGED <<delivered, lost>>

Deliver(e, s) ==
  /\ e \in pool
  /\ pool' = pool \ {e}
  /\ delivered' = [delivered EXCEPT ![s] = @ \union {e}]
  /\ UNCHANGED lost

Lose(e) ==
  /\ e \in pool
  /\ pool' = pool \ {e}
  /\ lost' = lost \union {e}
  /\ UNCHANGED delivered

Next ==
  \E e \in Ids :
    \/ Accept(e)
    \/ Lose(e)
    \/ \E s \in Streams : Deliver(e, s)

Spec == Init /\ [][Next]_vars
=============================================================================
