------------------------- MODULE MCOperatorSession -------------------------
(***************************************************************************)
(* Two gateway processes and two requests at a time. With one session      *)
(* database for both they verify the JWTs of a rotating session, one of    *)
(* them without a jti, one of another operator with the same session id,   *)
(* and one that names no session at all; with a map each they know         *)
(* development tokens, with and without a pinned session.                  *)
(***************************************************************************)
EXTENDS OperatorSession, TLC

CONSTANTS dev, anyone, old, new, bare, other, nameless, alice, bob,
          s1, s2, r1, k1, k2

MCProfiles ==
    (dev :> [operator |-> alice, session |-> s2, roles |-> None])
    @@ (anyone :> [operator |-> bob, session |-> None, roles |-> {"viewer"}])

Jwt(sub, sid, jti, iat) ==
    [sub |-> sub, sid |-> sid, jti |-> jti, iat |-> iat,
     roles |-> {"approver", "guest"}]

MCClaims ==
    (old :> Jwt(alice, s1, k1, 1)) @@ (new :> Jwt(alice, s1, k2, 2))
    @@ (bare :> Jwt(alice, s1, None, 1)) @@ (other :> Jwt(bob, s1, k2, 2))
    @@ (nameless :> Jwt(alice, None, None, 1))

MCDeployments ==
    {[backend |-> "sqlite", authenticator |-> [p \in Processes |-> "oidc"]],
     [backend |-> "memory", authenticator |-> [p \in Processes |-> "dev"]]}

Symmetry == Permutations(Requests) \cup Permutations(Processes)
=============================================================================
