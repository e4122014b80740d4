-------------------------- MODULE ContentAuthority --------------------------
(***************************************************************************)
(* The stronger promise of content receipts: they are mandates like those  *)
(* of tool calls, but a mandate is closed by the very step that acts on    *)
(* it, so at most one release ever happens under it.                       *)
(***************************************************************************)
EXTENDS ApprovalAuthority

RunOnce(c, i) ==
    /\ mandate[i] = "granted"
    /\ effects' = effects \cup {[call |-> c, id |-> i, action |-> asked[i]]}
    /\ mandate' = [mandate EXCEPT ![i] = "closed"]
    /\ asked' = [asked EXCEPT ![i] = None]

OnceNext ==
    \/ \E i \in Ids, a \in Actions : Open(i, a)
    \/ \E i \in Ids : Grant(i) \/ Refuse(i)
    \/ \E S \in SUBSET Ids : Close(S)
    \/ \E c \in Callers, i \in Ids : RunOnce(c, i)

OnceSpec == Init /\ [][OnceNext]_vars
=============================================================================
