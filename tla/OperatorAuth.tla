---------------------------- MODULE OperatorAuth ----------------------------
(***************************************************************************)
(* Who an Authorization header stands for. An authenticator turns a bearer *)
(* token into the operator it proves, or refuses it: development tokens    *)
(* are looked up in a table of profiles, JWTs are verified and their       *)
(* claims read. A role gives permissions, and routes ask for permissions.  *)
(*                                                                         *)
(* Signatures, key sets, issuers, audiences and expiry are the business of *)
(* the jose library: its verdict on a JWT may be a refusal at any time.    *)
(***************************************************************************)
EXTENDS Optional, Integers

CONSTANTS
    Profiles,       \* development token -> profile, the configured table
    Claims,         \* JWT -> claims, for the JWTs the key set can verify
    RandomSessions  \* session ids drawn with crypto.randomUUID

DevTokens == DOMAIN Profiles
Jwts == DOMAIN Claims
Tokens == DevTokens \cup Jwts

OperatorRole == {"viewer", "approver", "auditor", "admin"}

RolePermissions ==
    [viewer |-> {"stats:read"},
     approver |-> {"approvals:read", "approvals:decide", "stats:read"},
     auditor |-> {"audit:read", "stats:read"},
     admin |-> {"approvals:read", "approvals:decide", "audit:read",
                "stats:read"}]

PermissionsForOperator(operator) ==
    UNION {RolePermissions[role] : role \in operator.roles}

HasOperatorPermission(operator, permission) ==
    permission \in PermissionsForOperator(operator)

-----------------------------------------------------------------------------
NoCredential == [id |-> None, issuedAt |-> None]

\* A JWT without a jti carries no credential metadata at all.
CredentialOf(claims) ==
    IF claims.jti = None THEN NoCredential
    ELSE [id |-> claims.jti, issuedAt |-> claims.iat]

\* A profile without roles is an administrator's; one with no valid role is
\* refused. Without a pinned session every request has a session of its own.
DevelopmentOperators(token, drawn) ==
    LET profile == Profiles[token]
        listed == IF profile.roles = None THEN {"admin"} ELSE profile.roles
        roles == listed \cap OperatorRole
        ids == IF profile.session # None THEN {profile.session}
               ELSE RandomSessions \ drawn
    IN  IF roles = {} THEN {}
        ELSE {[operator |-> profile.operator, session |-> s,
               method |-> "dev-token", roles |-> roles,
               credential |-> NoCredential] : s \in ids}

\* The session claim names the session, and failing that the jti does.
SessionClaim(claims) == IF claims.sid # None THEN claims.sid ELSE claims.jti

\* Mutant: a JWT need not name a session.
IdentifiesSomebody(claims) == claims.sub # None

IdentifiesSession(claims) ==
    claims.sub # None /\ SessionClaim(claims) # None

OidcOperators(token) ==
    LET claims == Claims[token]
        roles == claims.roles \cap OperatorRole
    IN  IF ~IdentifiesSession(claims) \/ roles = {} THEN {}
        ELSE {[operator |-> claims.sub, session |-> SessionClaim(claims),
               method |-> "oidc-jwt", roles |-> roles,
               credential |-> CredentialOf(claims)]}

\* The operators an authenticator may take a token for; none is a refusal.
\* Without configuration a gateway refuses everybody.
Authenticated(authenticator, token, drawn) ==
    CASE authenticator = "dev" /\ token \in DevTokens ->
             DevelopmentOperators(token, drawn)
      [] authenticator = "oidc" /\ token \in Jwts -> OidcOperators(token)
      [] OTHER -> {}
=============================================================================
