------------------------- MODULE ApprovalAuthority -------------------------
(***************************************************************************)
(* What the approval machinery promises, without maps, hashes, clocks or   *)
(* interleaved calls. Every approval id carries one mandate. It is opened  *)
(* for one action, a human grants or refuses it, and at some point it is   *)
(* closed for good (consumed, expired or lost with the process). A side    *)
(* effect that needs approval happens only under a granted mandate and is  *)
(* exactly the action the mandate was opened for.                          *)
(*                                                                         *)
(* The promise is deliberately silent on how many calls may start while    *)
(* the mandate is granted: see the README, "One-time use".                 *)
(***************************************************************************)
CONSTANTS Ids, Actions, Callers, None

VARIABLES
    mandate,    \* the state of each id's mandate
    asked,      \* the action an open, granted or refused mandate is about
    effects     \* the approved side effects started so far

vars == <<mandate, asked, effects>>

Live == {"open", "granted", "refused"}
Effect == [call : Callers, id : Ids, action : Actions]

Init ==
    /\ mandate = [i \in Ids |-> "none"]
    /\ asked = [i \in Ids |-> None]
    /\ effects = {}

Open(i, a) ==
    /\ mandate[i] = "none"
    /\ mandate' = [mandate EXCEPT ![i] = "open"]
    /\ asked' = [asked EXCEPT ![i] = a]
    /\ UNCHANGED effects

Grant(i) ==
    /\ mandate[i] = "open"
    /\ mandate' = [mandate EXCEPT ![i] = "granted"]
    /\ UNCHANGED <<asked, effects>>

Refuse(i) ==
    /\ mandate[i] = "open"
    /\ mandate' = [mandate EXCEPT ![i] = "refused"]
    /\ UNCHANGED <<asked, effects>>

\* Several mandates can expire on one tick, and a crash closes all of them.
Close(S) ==
    /\ \A i \in S : mandate[i] \in Live
    /\ mandate' = [i \in Ids |-> IF i \in S THEN "closed" ELSE mandate[i]]
    /\ asked' = [i \in Ids |-> IF i \in S THEN None ELSE asked[i]]
    /\ UNCHANGED effects

Run(c, i) ==
    /\ mandate[i] = "granted"
    /\ effects' = effects \cup {[call |-> c, id |-> i, action |-> asked[i]]}
    /\ UNCHANGED <<mandate, asked>>

Next ==
    \/ \E i \in Ids, a \in Actions : Open(i, a)
    \/ \E i \in Ids : Grant(i) \/ Refuse(i)
    \/ \E S \in SUBSET Ids : Close(S)
    \/ \E c \in Callers, i \in Ids : Run(c, i)

Spec == Init /\ [][Next]_vars
=============================================================================
