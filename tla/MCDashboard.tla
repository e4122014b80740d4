----------------------------- MODULE MCDashboard -----------------------------
(***************************************************************************)
(* One page, an administrator's token with a session of its own and an     *)
(* auditor's without, two refreshes that overlap, and one failure of a     *)
(* fetch, of /auth/me or of some of the lists.                             *)
(***************************************************************************)
EXTENDS Dashboard

CONSTANTS admin, auditor

MCPermissions ==
    [t \in Tokens |->
        IF t = admin THEN {"approvals:read", "approvals:decide", "audit:read",
                           "stats:read"}
        ELSE {"audit:read", "stats:read"}]
=============================================================================
