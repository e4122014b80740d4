--------------------------- MODULE OperatorSession ---------------------------
(***************************************************************************)
(* Operator sessions from request to answer: a request arrives with a      *)
(* token, the authenticator proves an operator, the session store observes *)
(* it, the gateway records what happened to the session, and the route     *)
(* acts: it answers, decides an approval or logs the session out.          *)
(*                                                                         *)
(* A process runs one piece of JavaScript at a time, from one await to the *)
(* next. Its session store is a map of its own, lost with the process, or  *)
(* an SQLite file that several processes share: there the SELECT and the   *)
(* upsert of one observation are two statements and no transaction.        *)
(*                                                                         *)
(* Display names, roles and timestamps of a row decide nothing and are     *)
(* left out; SQLite's file is one more store, shared by all processes.     *)
(***************************************************************************)
EXTENDS OperatorAuth, FiniteSets

CONSTANTS
    Processes,      \* gateway processes
    File,           \* the SQLite database
    Deployments,    \* ways to configure them: backend and authenticators
    Requests,       \* slots for operator requests, used again and again
    SessionIds,     \* pinned, claimed and random session ids
    Routes          \* the operator routes that are called

ASSUME DeploymentAssumption ==
    /\ Deployments \subseteq
           [backend : {"memory", "sqlite"},
            authenticator : [Processes -> {"dev", "oidc", "none"}]]
    /\ File \notin Processes
    /\ Routes \subseteq {"me", "logout", "decide", "audit"}
    /\ RandomSessions \subseteq SessionIds
    /\ None \notin SessionIds

\* Sessions that tokens name are among the ids, and issue times are numbers.
ASSUME TokenAssumption ==
    /\ \A t \in DevTokens : Profiles[t].session \in SessionIds \cup {None}
    /\ \A t \in Jwts : /\ SessionClaim(Claims[t]) \in SessionIds \cup {None}
                       /\ Claims[t].iat \in Nat \cup {None}

VARIABLES
    deployment,     \* fixed when the processes start
    sessions,       \* each store's map from session ids to rows
    drawn,          \* random session ids drawn so far
    requests,       \* what each slot is doing
    told,           \* session, credential pairs the audit log was told of
    untold,         \* did an audit record ever get lost?
    loggedOut       \* sessions whose logout was answered 200, by store

vars == <<deployment, sessions, drawn, requests, told, untold, loggedOut>>

-----------------------------------------------------------------------------
Stores == Processes \cup {File}
StoreOf(p) == IF deployment.backend = "sqlite" THEN File ELSE p

NoSessions == [s \in {} |-> None]
Known(m, s) == s \in DOMAIN sessions[m]
Revoked(m, s) == Known(m, s) /\ sessions[m][s].revoked
RowOf(m, s) == IF Known(m, s) THEN sessions[m][s] ELSE None

RouteNeeds ==
    [me |-> None, logout |-> None, decide |-> "approvals:decide",
     audit |-> "audit:read"]

SessionFromOperator(operator) ==
    [operator |-> operator.operator, method |-> operator.method,
     credential |-> operator.credential, revoked |-> FALSE]

\* Mutant: the times of issue are not compared.
OvertakesAnyhow(shown, current) == shown.id # current.id

\* A tracked credential gives way only to one that was issued strictly later.
Overtakes(shown, current) ==
    \/ current.id = None
    \/ /\ None \notin {current.issuedAt, shown.issuedAt}
       /\ shown.issuedAt > current.issuedAt

\* Once the rotation of a JWT session is tracked, an untracked credential is
\* refused.
CredentialTransition(row, operator) ==
    LET current == row.credential
        shown == operator.credential
        owned == row.method = operator.method /\ row.operator = operator.operator
        tracked == row.method = "oidc-jwt" /\ current.id # None
    IN  CASE ~owned -> "rejected"
          [] owned /\ shown.id = None ->
                 IF tracked THEN "rejected" ELSE "resumed"
          [] owned /\ shown.id # None /\ shown.id = current.id -> "resumed"
          [] OTHER ->
                 IF Overtakes(shown, current) THEN "rotated" ELSE "rejected"

\* Mutant: a session is resumed although it was revoked.
TransitionThoughRevoked(row, operator) ==
    IF row = None THEN "started" ELSE CredentialTransition(row, operator)

\* What observe makes of the row it read: started, revoked or a transition.
Transition(row, operator) ==
    IF row = None THEN "started"
    ELSE IF row.revoked THEN "revoked" ELSE CredentialTransition(row, operator)

\* The session that observe returns and writes.
RefreshedSession(row, operator, transition) ==
    CASE transition = "started" -> SessionFromOperator(operator)
      [] transition = "rotated" ->
             [row EXCEPT !.credential = operator.credential]
      [] OTHER -> row

\* Mutant: the upsert writes every column, the revocation included.
WrittenWhole(m, s, session) == session

\* The upsert never touches the owner or the revocation of a row it finds,
\* but writes back the credential that was read, whatever became of it since.
Written(m, s, session) ==
    IF Known(m, s)
    THEN [sessions[m][s] EXCEPT !.credential = session.credential]
    ELSE session

-----------------------------------------------------------------------------
Idle == [pc |-> "idle", at |-> None, token |-> None, route |-> None,
         late |-> FALSE, operator |-> None, found |-> None]

Init ==
    /\ deployment \in Deployments
    /\ sessions = [m \in Stores |-> NoSessions]
    /\ drawn = {}
    /\ requests = [q \in Requests |-> Idle]
    /\ told = {}
    /\ untold = FALSE
    /\ loggedOut = [m \in Stores |-> {}]

At(q, pc) == requests[q].pc = pc
SessionOf(q) == requests[q].operator.session
Store(q) == StoreOf(requests[q].at)
Goto(q, pc) == requests' = [requests EXCEPT ![q].pc = pc]
Answer(q) == requests' = [requests EXCEPT ![q] = Idle]

\* A process in the middle of a synchronous piece of code.
Busy(p) ==
    \E q \in Requests :
        /\ requests[q].at = p
        /\ requests[q].pc \in {"observed", "noting", "revoked"}

TransitionOf(q) == Transition(requests[q].found, requests[q].operator)

SessionToWrite(q) ==
    RefreshedSession(requests[q].found, requests[q].operator, TransitionOf(q))

\* The session a token belongs to, when the token itself says so.
PinnedSession(p, token) ==
    {o.session : o \in
        Authenticated(deployment.authenticator[p], token, RandomSessions)}

Holds(q) ==
    LET need == RouteNeeds[requests[q].route]
    IN  need = None \/ HasOperatorPermission(requests[q].operator, need)

-----------------------------------------------------------------------------
\* A request is sent and waits for its token to be verified.
Arrive(q, p, token, route) ==
    /\ At(q, "idle")
    /\ requests' = [requests EXCEPT ![q] =
           [Idle EXCEPT !.pc = "arrived", !.at = p, !.token = token,
                        !.route = route,
                        !.late = PinnedSession(p, token)
                                     \cap loggedOut[StoreOf(p)] # {}]]
    /\ UNCHANGED <<deployment, sessions, drawn, told, untold, loggedOut>>

\* A token the authenticator does not know, which no token at all is like, or a
\* JWT that it does not verify: 401.
Refuse(q) ==
    LET authenticator == deployment.authenticator[requests[q].at]
    IN  /\ At(q, "arrived")
        /\ ~Busy(requests[q].at)
        /\ \/ authenticator = "oidc"
           \/ Authenticated(authenticator, requests[q].token, {}) = {}
        /\ Answer(q)
        /\ UNCHANGED <<deployment, sessions, drawn, told, untold, loggedOut>>

\* The authenticator proved an operator, and the store reads its session. A
\* revoked session or a rejected credential is answered 401 at once.
Observe(q) ==
    /\ At(q, "arrived")
    /\ ~Busy(requests[q].at)
    /\ \E operator \in Authenticated(deployment.authenticator[requests[q].at],
                                     requests[q].token, drawn) :
           LET found == RowOf(Store(q), operator.session)
               refused == Transition(found, operator)
                              \in {"revoked", "rejected"}
           IN  /\ drawn' = drawn \cup ({operator.session} \cap RandomSessions)
               /\ \/ refused /\ Answer(q)
                  \/ /\ ~refused
                     /\ requests' = [requests EXCEPT ![q].pc = "observed",
                                                     ![q].operator = operator,
                                                     ![q].found = found]
    /\ UNCHANGED <<deployment, sessions, told, untold, loggedOut>>

\* The store throws: reading or writing an observation, and nobody is let in,
\* 401; or updating the row of a logout, and the session stands, 500.
StoreFails(q) ==
    /\ deployment.backend = "sqlite"
    /\ \/ At(q, "arrived") /\ ~Busy(requests[q].at)
       \/ At(q, "observed")
       \/ At(q, "trusted") /\ ~Busy(requests[q].at)
              /\ requests[q].route = "logout"
    /\ Answer(q)
    /\ UNCHANGED <<deployment, sessions, drawn, told, untold, loggedOut>>

\* Mutant: only the start of a session is noted.
NoteworthyStart(transition) == transition = "started"

Noteworthy(transition) == transition \in {"started", "rotated"}

WriteSession(q) ==
    LET m == Store(q)
        s == SessionOf(q)
        row == Written(m, s, SessionToWrite(q))
    IN  /\ At(q, "observed")
        /\ sessions' = [sessions EXCEPT ![m] =
               [id \in DOMAIN @ \cup {s} |-> IF id = s THEN row ELSE @[id]]]
        /\ requests' = [requests EXCEPT
               ![q].pc = IF Noteworthy(TransitionOf(q)) THEN "noting"
                         ELSE "trusted",
               ![q].found = None]
        /\ UNCHANGED <<deployment, drawn, told, untold, loggedOut>>

Telling(q, event) ==
    [store |-> Store(q), session |-> SessionOf(q), event |-> event]

\* OPERATOR_SESSION_STARTED or _ROTATED. The record names the session and its
\* operator; told also remembers which credential it was written for.
NoteSession(q) ==
    /\ At(q, "noting")
    /\ told' = told \cup {Telling(q, requests[q].operator.credential.id)}
    /\ Goto(q, "trusted")
    /\ UNCHANGED <<deployment, sessions, drawn, untold, loggedOut>>

\* The audit log throws outside of every try, or the SELECT that follows the
\* UPDATE of a logout does: 500, and the session stands as it was written.
NoteFails(q) ==
    /\ At(q, "noting") \/ At(q, "revoked")
    /\ untold' = TRUE
    /\ Answer(q)
    /\ UNCHANGED <<deployment, sessions, drawn, told, loggedOut>>

-----------------------------------------------------------------------------
\* 403: the token's roles do not give the permission the route asks for.
Forbid(q) ==
    /\ At(q, "trusted")
    /\ ~Busy(requests[q].at)
    /\ ~Holds(q)
    /\ Answer(q)
    /\ UNCHANGED <<deployment, sessions, drawn, told, untold, loggedOut>>

\* The route's own work, a decision for one, and its answer.
Serve(q) ==
    /\ At(q, "trusted")
    /\ ~Busy(requests[q].at)
    /\ Holds(q)
    /\ requests[q].route # "logout"
    /\ Answer(q)
    /\ UNCHANGED <<deployment, sessions, drawn, told, untold, loggedOut>>

\* Mutant: a logout forgets the session instead of closing it.
RowForgotten(q) ==
    sessions' = [sessions EXCEPT ![Store(q)] =
           [s \in DOMAIN @ \ {SessionOf(q)} |-> @[s]]]

RowClosed(q) ==
    sessions' = [sessions EXCEPT ![Store(q)][SessionOf(q)].revoked = TRUE]

Revocable(q) ==
    /\ Known(Store(q), SessionOf(q))
    /\ sessions[Store(q)][SessionOf(q)].operator = requests[q].operator.operator
    /\ ~sessions[Store(q)][SessionOf(q)].revoked

\* One conditional UPDATE, or the same in memory.
Revoke(q) ==
    /\ At(q, "trusted")
    /\ ~Busy(requests[q].at)
    /\ requests[q].route = "logout"
    /\ Revocable(q)
    /\ RowClosed(q)
    /\ Goto(q, "revoked")
    /\ UNCHANGED <<deployment, drawn, told, untold, loggedOut>>

\* 409: another logout was faster.
Conflict(q) ==
    /\ At(q, "trusted")
    /\ ~Busy(requests[q].at)
    /\ requests[q].route = "logout"
    /\ ~Revocable(q)
    /\ Answer(q)
    /\ UNCHANGED <<deployment, sessions, drawn, told, untold, loggedOut>>

\* OPERATOR_SESSION_REVOKED, and then the 200 that promises the logout.
NoteRevocation(q) ==
    /\ At(q, "revoked")
    /\ told' = told \cup {Telling(q, "revoked")}
    /\ loggedOut' = [loggedOut EXCEPT ![Store(q)] = @ \cup {SessionOf(q)}]
    /\ Answer(q)
    /\ UNCHANGED <<deployment, sessions, drawn, untold>>

\* A process dies and starts again: its requests, and a store in its memory,
\* are gone.
Crash(p) ==
    /\ sessions' = [sessions EXCEPT ![p] = NoSessions]
    /\ loggedOut' = [loggedOut EXCEPT ![p] = {}]
    /\ told' = {t \in told : t.store # p}
    /\ untold' = (untold \/ \E q \in Requests :
           requests[q].at = p /\ requests[q].pc \in {"noting", "revoked"})
    /\ requests' = [q \in Requests |->
                       IF requests[q].at = p THEN Idle ELSE requests[q]]
    /\ UNCHANGED <<deployment, drawn>>

Next ==
    \/ \E q \in Requests, p \in Processes, token \in Tokens,
          route \in Routes : Arrive(q, p, token, route)
    \/ \E q \in Requests : Refuse(q)
    \/ \E q \in Requests : Observe(q)
    \/ \E q \in Requests : StoreFails(q)
    \/ \E q \in Requests : WriteSession(q)
    \/ \E q \in Requests : NoteSession(q) \/ NoteRevocation(q) \/ NoteFails(q)
    \/ \E q \in Requests : Forbid(q) \/ Serve(q)
    \/ \E q \in Requests : Revoke(q) \/ Conflict(q)
    \/ \E p \in Processes : Crash(p)

Spec == Init /\ [][Next]_vars

-----------------------------------------------------------------------------
CredentialIds == {claims.jti : claims \in {Claims[t] : t \in Jwts}} \cup {None}
Times == Nat \cup {None}
Credential == [id : CredentialIds, issuedAt : Times]
OperatorIds == {Profiles[t].operator : t \in DevTokens}
                   \cup {Claims[t].sub : t \in Jwts}
Methods == {"dev-token", "oidc-jwt"}
Row == [operator : OperatorIds, method : Methods, credential : Credential,
        revoked : BOOLEAN]
Operator == [operator : OperatorIds, session : SessionIds, method : Methods,
             roles : SUBSET OperatorRole, credential : Credential]
Working == {"observed", "noting", "trusted", "revoked"}
ASSUME NoneAssumption ==
    /\ None \notin Row /\ None \notin Operator /\ None \notin Processes
    /\ None \notin (Processes \cup {File}) \X SessionIds

Request ==
    [pc : {"idle", "arrived"} \cup Working, at : Processes \cup {None},
     token : Tokens \cup {None}, route : Routes \cup {None}, late : BOOLEAN,
     operator : Operator \cup {None}, found : Row \cup {None}]

\* Type invariant: rows and requests are well formed, only a request whose
\* token was verified has an operator, and one process runs one piece of code
\* at a time (operator-session-store.ts: OperatorSession; auth.ts).
SessionTypeOK ==
    /\ deployment \in Deployments
    /\ DOMAIN sessions = Stores
    /\ \A m \in Stores : /\ DOMAIN sessions[m] \subseteq SessionIds
                         /\ sessions[m] \in [DOMAIN sessions[m] -> Row]
    /\ drawn \subseteq RandomSessions
    /\ requests \in [Requests -> Request]
    /\ \A q \in Requests :
           /\ requests[q].pc = "idle" <=> requests[q].at = None
           /\ requests[q].pc \in Working <=> requests[q].operator # None
           /\ requests[q].found # None => At(q, "observed")
    /\ told \subseteq [store : Stores, session : SessionIds,
                       event : CredentialIds \cup {"revoked"}]
    /\ untold \in BOOLEAN
    /\ loggedOut \in [Stores -> SUBSET SessionIds]

\* After a logout was answered 200, a request that arrives with any credential
\* of that session is never let in, whichever process it reaches and whatever
\* was in flight there (HTTP_API.md:129, "The same credential then receives
\* 401"). Development tokens without a pinned session are not of that session:
\* every request of theirs is one of its own.
LogoutIsFelt ==
    \A q \in Requests : requests[q].late => ~(requests[q].pc \in Working)

\* A store keeps its rows with their owners, and what is revoked revoked.
RowsKept(m) ==
    \A s \in DOMAIN sessions[m] :
        LET row == sessions[m][s]
        IN  /\ s \in DOMAIN sessions'[m]
            /\ sessions'[m][s].operator = row.operator
            /\ sessions'[m][s].method = row.method
            /\ row.revoked => sessions'[m][s].revoked

KeepRows ==
    \A m \in Stores : \/ m \in Processes /\ sessions'[m] = NoSessions
                     \/ RowsKept(m)

\* Nothing that happens to a session afterwards reopens it or gives it to
\* somebody else: observations that read it earlier, write-backs, rotations,
\* other processes. Only a map in memory goes, and goes whole.
RevokedForGood == [][KeepRows]_vars

\* An observation between its SELECT and its upsert that was overtaken: the
\* row is no longer the one it read.
Overtaken(q) ==
    At(q, "observed") /\ requests[q].found # RowOf(Store(q), SessionOf(q))

\* A credential gives way to one that is tracked where none was, or that was
\* issued strictly later.
Replaces(new, old) ==
    \/ new = old
    \/ old.id = None /\ new.id # None
    \/ None \notin {old.issuedAt, new.issuedAt} /\ old.issuedAt < new.issuedAt

MoveCredentials ==
    \A m \in Stores : \A s \in DOMAIN sessions[m] \cap DOMAIN sessions'[m] :
        \/ Replaces(sessions'[m][s].credential, sessions[m][s].credential)
        \/ m = File /\ \E q \in Requests : Overtaken(q) /\ SessionOf(q) = s

\* The credential of a session only ever gives way to one issued strictly
\* later, so that an older token cannot come back, except by the hand of an
\* observation that another process overtook on the shared file.
CredentialsMoveForward == [][MoveCredentials]_vars

\* The audit log tells of every session in a store: of the credential it is
\* held with, whoever wrote it back last, and of its revocation; unless a
\* record is being written, or one got lost with a failing log or a crash.
TrailTellsSession ==
    untold \/ \A m \in Stores : \A s \in DOMAIN sessions[m] :
        LET row == sessions[m][s]
            Tells(event) ==
                \/ [store |-> m, session |-> s, event |-> event] \in told
                \/ \E q \in Requests :
                       /\ requests[q].pc \in {"noting", "revoked"}
                       /\ Store(q) = m /\ SessionOf(q) = s
        IN  Tells(row.credential.id) /\ (row.revoked => Tells("revoked"))

-----------------------------------------------------------------------------
TrustOf(q) ==
    IF requests[q].pc \in Working THEN <<Store(q), SessionOf(q)>> ELSE None

Authority == INSTANCE SessionAuthority WITH
    Volatile <- Processes,
    Durable <- {File},
    closed <- {x \in Stores \X SessionIds : Revoked(x[1], x[2])},
    trusted <- [q \in Requests |-> TrustOf(q)]

\* The gateway and its stores keep the promise of SessionAuthority: a request
\* is trusted with a session that is open in its store at the read, only a
\* request trusted with it closes it, and it stays closed.
SessionsImplementAuthority == Authority!Spec
=============================================================================
