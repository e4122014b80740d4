-------------------------- MODULE SessionAuthority --------------------------
(***************************************************************************)
(* What operator sessions promise, without rows, credentials, snapshots or *)
(* processes that share a database. A request is trusted with one session, *)
(* and only while that session is open. A request trusted with a session   *)
(* may close it, and closed it stays, until the store that remembers it is *)
(* lost with its process.                                                  *)
(*                                                                         *)
(* The promise is silent on requests that were trusted before the session  *)
(* was closed: they are answered, see the README, "Operator sessions".     *)
(***************************************************************************)
CONSTANTS Requests, Volatile, Durable, SessionIds, None

VARIABLES
    closed,     \* the closed sessions, each with the store it is closed in
    trusted     \* the session each request is trusted with, or None

vars == <<closed, trusted>>

Session == (Volatile \cup Durable) \X SessionIds

Init ==
    /\ closed = {}
    /\ trusted = [q \in Requests |-> None]

Trust(q, s) ==
    /\ trusted[q] = None
    /\ s \notin closed
    /\ trusted' = [trusted EXCEPT ![q] = s]
    /\ UNCHANGED closed

Close(q) ==
    /\ trusted[q] # None
    /\ closed' = closed \cup {trusted[q]}
    /\ UNCHANGED trusted

Dismiss(Q) ==
    /\ trusted' = [q \in Requests |-> IF q \in Q THEN None ELSE trusted[q]]
    /\ UNCHANGED closed

\* A volatile store dies with its process and takes its requests with it.
Lose(m) ==
    /\ closed' = closed \ ({m} \X SessionIds)
    /\ trusted' = [q \in Requests |->
                      IF trusted[q] \in {m} \X SessionIds THEN None
                      ELSE trusted[q]]

Next ==
    \/ \E q \in Requests, s \in Session : Trust(q, s)
    \/ \E q \in Requests : Close(q)
    \/ \E Q \in SUBSET Requests : Dismiss(Q)
    \/ \E m \in Volatile : Lose(m)

Spec == Init /\ [][Next]_vars
=============================================================================
