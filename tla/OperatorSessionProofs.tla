------------------------ MODULE OperatorSessionProofs ------------------------
(***************************************************************************)
(* Operator sessions, for every set of tokens, processes, requests and     *)
(* routes, every deployment and every interleaving: what rows and requests *)
(* look like, that a revoked session stays revoked and a logout is felt,   *)
(* that credentials move forward, that the audit log tells of every        *)
(* session, and that all this implements SessionAuthority.                 *)
(***************************************************************************)
EXTENDS OperatorSession, TLAPS

USE DeploymentAssumption, TokenAssumption, NoneAssumption

-----------------------------------------------------------------------------
\* Authenticators.

\* What an authenticator proves is an operator with a session.
LEMMA OperatorTyped ==
    ASSUME NEW a, NEW token, NEW d, NEW o \in Authenticated(a, token, d)
    PROVE  o \in Operator
<1>1. CASE a = "dev" /\ token \in DevTokens
  <2>1. o \in DevelopmentOperators(token, d)
    BY <1>1 DEF Authenticated
  <2>2. Profiles[token].operator \in OperatorIds
    BY <1>1 DEF OperatorIds
  <2>3. NoCredential \in Credential
    BY DEF NoCredential, Credential, CredentialIds, Times
  <2> QED  BY <1>1, <2>1, <2>2, <2>3 DEF DevelopmentOperators, Operator, Methods
<1>2. CASE a = "oidc" /\ token \in Jwts
  <2>1. o \in OidcOperators(token)
    BY <1>2 DEF Authenticated
  <2>2. Claims[token].sub \in OperatorIds /\ Claims[token].jti \in CredentialIds
    BY <1>2 DEF OperatorIds, CredentialIds
  <2>3. CredentialOf(Claims[token]) \in Credential
    BY <1>2, <2>2 DEF CredentialOf, NoCredential, Credential, CredentialIds, Times
  <2>4. SessionClaim(Claims[token]) \in SessionIds
    BY <1>2, <2>1 DEF OidcOperators, IdentifiesSession
  <2> QED  BY <1>2, <2>1, <2>2, <2>3, <2>4 DEF OidcOperators, Operator, Methods
<1> QED  BY <1>1, <1>2 DEF Authenticated

\* A token with a session of its own proves no other.
LEMMA SessionIsTheTokens ==
    ASSUME NEW a, NEW token, NEW d, NEW o \in Authenticated(a, token, d),
           NEW p \in Authenticated(a, token, RandomSessions)
    PROVE  o.session = p.session
<1>1. CASE a = "dev" /\ token \in DevTokens
  <2>1. /\ o \in DevelopmentOperators(token, d)
        /\ p \in DevelopmentOperators(token, RandomSessions)
    BY <1>1 DEF Authenticated
  <2> QED  BY <2>1 DEF DevelopmentOperators
<1>2. CASE a = "oidc" /\ token \in Jwts
  <2>1. o \in OidcOperators(token) /\ p \in OidcOperators(token)
    BY <1>2 DEF Authenticated
  <2> QED  BY <2>1 DEF OidcOperators
<1> QED  BY <1>1, <1>2 DEF Authenticated

-----------------------------------------------------------------------------
\* The steps, with what each does to the requests spelt out.

\* A request is answered; a record it was about to write is lost with it.
Dismissed(q) ==
    /\ requests' = [requests EXCEPT ![q] = Idle]
    /\ drawn' \in SUBSET RandomSessions
    /\ At(q, "noting") \/ At(q, "revoked") => untold'
    /\ untold => untold'
    /\ untold' \in BOOLEAN
    /\ UNCHANGED <<deployment, sessions, told, loggedOut>>

\* An observation that goes on to write what it makes of the row it read.
Admitted(q, o) ==
    LET row == RowOf(Store(q), o.session) IN
    /\ At(q, "arrived")
    /\ ~Busy(requests[q].at)
    /\ o \in Authenticated(deployment.authenticator[requests[q].at],
                           requests[q].token, drawn)
    /\ Transition(row, o) \notin {"revoked", "rejected"}
    /\ requests' = [requests EXCEPT ![q] =
           [requests[q] EXCEPT !.pc = "observed", !.operator = o, !.found = row]]
    /\ drawn' \in SUBSET RandomSessions
    /\ UNCHANGED <<deployment, sessions, told, untold, loggedOut>>

LEMMA RefusalsDismiss ==
    ASSUME SessionTypeOK, NEW q \in Requests,
           Refuse(q) \/ StoreFails(q) \/ NoteFails(q) \/ Forbid(q) \/ Serve(q)
               \/ Conflict(q)
    PROVE  Dismissed(q)
<1>1. drawn \in SUBSET RandomSessions /\ untold \in BOOLEAN
  BY DEF SessionTypeOK
<1>2. CASE Refuse(q)
  BY <1>1, <1>2 DEF Refuse, Answer, Dismissed, At
<1>3. CASE StoreFails(q)
  BY <1>1, <1>3 DEF StoreFails, Answer, Dismissed, At
<1>4. CASE NoteFails(q)
  BY <1>1, <1>4 DEF NoteFails, Answer, Dismissed
<1>5. CASE Forbid(q)
  BY <1>1, <1>5 DEF Forbid, Answer, Dismissed, At
<1>6. CASE Serve(q)
  BY <1>1, <1>6 DEF Serve, Answer, Dismissed, At
<1>7. CASE Conflict(q)
  BY <1>1, <1>7 DEF Conflict, Answer, Dismissed, At
<1> QED  BY <1>2, <1>3, <1>4, <1>5, <1>6, <1>7

LEMMA ObservationsDismissOrAdmit ==
    ASSUME SessionTypeOK, NEW q \in Requests, Observe(q)
    PROVE  Dismissed(q) \/ \E o \in Operator : Admitted(q, o)
<1>1. PICK o \in Authenticated(deployment.authenticator[requests[q].at],
                               requests[q].token, drawn) :
          LET found == RowOf(Store(q), o.session)
              refused == Transition(found, o) \in {"revoked", "rejected"}
          IN  /\ drawn' = drawn \cup ({o.session} \cap RandomSessions)
              /\ \/ refused /\ Answer(q)
                 \/ /\ ~refused
                    /\ requests' = [requests EXCEPT ![q].pc = "observed",
                                                    ![q].operator = o,
                                                    ![q].found = found]
  BY DEF Observe
<1>2. o \in Operator
  BY OperatorTyped
<1>3. drawn' \in SUBSET RandomSessions /\ untold \in BOOLEAN
  BY <1>1 DEF SessionTypeOK
<1>4. CASE Transition(RowOf(Store(q), o.session), o) \in {"revoked", "rejected"}
  BY <1>1, <1>3, <1>4 DEF Observe, Answer, Dismissed, At
<1>5. CASE Transition(RowOf(Store(q), o.session), o)
               \notin {"revoked", "rejected"}
  <2>1. requests' = [requests EXCEPT ![q] =
            [requests[q] EXCEPT !.pc = "observed", !.operator = o,
                                !.found = RowOf(Store(q), o.session)]]
    BY <1>1, <1>5
  <2>2. Admitted(q, o)
    BY <1>3, <1>5, <2>1 DEF Observe, Admitted
  <2> QED  BY <1>2, <2>2
<1> QED  BY <1>4, <1>5

\* What the properties distinguish about a step.
LEMMA StepKinds ==
    ASSUME SessionTypeOK, [Next]_vars
    PROVE  \/ UNCHANGED vars
           \/ \E q \in Requests, p \in Processes, token \in Tokens,
                 route \in Routes : Arrive(q, p, token, route)
           \/ \E q \in Requests : Dismissed(q)
           \/ \E q \in Requests, o \in Operator : Admitted(q, o)
           \/ \E q \in Requests : WriteSession(q)
           \/ \E q \in Requests : NoteSession(q)
           \/ \E q \in Requests : Revoke(q)
           \/ \E q \in Requests : NoteRevocation(q)
           \/ \E p \in Processes : Crash(p)
BY RefusalsDismiss, ObservationsDismissOrAdmit DEF Next

\* What a step does to one request.
LEMMA RequestMoves ==
    ASSUME SessionTypeOK, [Next]_vars, NEW x \in Requests
    PROVE  \/ requests'[x] = requests[x] \/ requests'[x] = Idle
           \/ \E p \in Processes, token \in Tokens, route \in Routes :
                  Arrive(x, p, token, route)
           \/ \E o \in Operator : Admitted(x, o)
           \/ WriteSession(x) \/ NoteSession(x) \/ Revoke(x)
<1>1. requests \in [Requests -> Request]
  BY DEF SessionTypeOK
<1>2. ASSUME NEW q \in Requests, NoteRevocation(q)
      PROVE  requests'[x] = requests[x] \/ requests'[x] = Idle
  BY <1>1, <1>2 DEF NoteRevocation, Answer
<1>3. ASSUME NEW q \in Requests, Dismissed(q)
      PROVE  requests'[x] = requests[x] \/ requests'[x] = Idle
  BY <1>1, <1>3 DEF Dismissed
<1>4. ASSUME NEW p \in Processes, Crash(p)
      PROVE  requests'[x] = requests[x] \/ requests'[x] = Idle
  BY <1>4 DEF Crash
<1>5. ASSUME NEW q \in Requests, NEW p \in Processes, NEW token \in Tokens,
             NEW route \in Routes, Arrive(q, p, token, route)
      PROVE  requests'[x] = requests[x] \/ q = x
  BY <1>1, <1>5 DEF Arrive
<1>6. ASSUME NEW q \in Requests, NEW o \in Operator, Admitted(q, o)
      PROVE  requests'[x] = requests[x] \/ q = x
  BY <1>1, <1>6 DEF Admitted
<1>7. ASSUME NEW q \in Requests, WriteSession(q) \/ NoteSession(q) \/ Revoke(q)
      PROVE  requests'[x] = requests[x] \/ q = x
  BY <1>1, <1>7 DEF WriteSession, NoteSession, Revoke, Goto
<1>8. CASE UNCHANGED vars
  BY <1>8 DEF vars
<1> QED
  BY <1>2, <1>3, <1>4, <1>5, <1>6, <1>7, <1>8, StepKinds

-----------------------------------------------------------------------------
\* Type correctness.

RequestOK(r) ==
    /\ r \in Request
    /\ r.pc = "idle" <=> r.at = None
    /\ r.pc \in Working <=> r.operator # None
    /\ r.found # None => r.pc = "observed"

LEMMA RequestsOK ==
    ASSUME SessionTypeOK, NEW q \in Requests
    PROVE  RequestOK(requests[q])
BY DEF SessionTypeOK, RequestOK, At

LEMMA IdleOK == RequestOK(Idle)
BY DEF RequestOK, Idle, Request, Working

\* A step of one request keeps the requests well formed.
LEMMA RequestSteps ==
    ASSUME SessionTypeOK, NEW q \in Requests, NEW r, RequestOK(r),
           requests' = [requests EXCEPT ![q] = r]
    PROVE  /\ requests' \in [Requests -> Request]
           /\ \A x \in Requests : RequestOK(requests'[x])
<1>1. requests \in [Requests -> Request]
  BY DEF SessionTypeOK
<1>2. r \in Request
  BY DEF RequestOK
<1>3. \A x \in Requests : requests'[x] = IF x = q THEN r ELSE requests[x]
  BY <1>1
<1>4. requests' \in [Requests -> Request]
  BY <1>1, <1>2
<1> QED  BY <1>3, <1>4, RequestsOK

\* The rest of the type invariant.
StateOK ==
    /\ deployment \in Deployments
    /\ DOMAIN sessions = Stores
    /\ \A m \in Stores : /\ DOMAIN sessions[m] \subseteq SessionIds
                         /\ sessions[m] \in [DOMAIN sessions[m] -> Row]
    /\ drawn \subseteq RandomSessions
    /\ told \subseteq [store : Stores, session : SessionIds,
                       event : CredentialIds \cup {"revoked"}]
    /\ untold \in BOOLEAN
    /\ loggedOut \in [Stores -> SUBSET SessionIds]

LEMMA TypeParts ==
    SessionTypeOK <=> /\ StateOK
                      /\ requests \in [Requests -> Request]
                      /\ \A q \in Requests : RequestOK(requests[q])
BY DEF SessionTypeOK, StateOK, RequestOK, At

\* A request at work belongs to a process, an operator and a session.
LEMMA AtWork ==
    ASSUME SessionTypeOK, NEW q \in Requests, requests[q].pc # "idle"
    PROVE  /\ requests[q].at \in Processes /\ Store(q) \in Stores
           /\ requests[q].pc \in Working =>
                  /\ requests[q].operator \in Operator
                  /\ SessionOf(q) \in SessionIds
<1>1. RequestOK(requests[q])
  BY RequestsOK
<1>2. requests[q].at \in Processes
  BY <1>1 DEF RequestOK, Request
<1>3. requests[q].pc \in Working => requests[q].operator \in Operator
  BY <1>1 DEF RequestOK, Request
<1> QED  BY <1>2, <1>3 DEF Store, StoreOf, Stores, SessionOf, Operator

LEMMA RowReplaced ==
    ASSUME NEW f, f \in [DOMAIN f -> Row], NEW s, NEW row \in Row
    PROVE  /\ DOMAIN [f EXCEPT ![s] = row] = DOMAIN f
           /\ [f EXCEPT ![s] = row] \in [DOMAIN f -> Row]
OBVIOUS

LEMMA RowsTyped ==
    ASSUME SessionTypeOK, NEW m \in Stores, NEW s, Known(m, s)
    PROVE  sessions[m][s] \in Row
BY DEF SessionTypeOK, Known

LEMMA RowOfTyped ==
    ASSUME SessionTypeOK, NEW m \in Stores, NEW s
    PROVE  /\ RowOf(m, s) \in Row \cup {None}
           /\ RowOf(m, s) = None <=> ~Known(m, s)
BY RowsTyped DEF RowOf

LEMMA RefreshedTyped ==
    ASSUME NEW row \in Row \cup {None}, NEW o \in Operator
    PROVE  RefreshedSession(row, o, Transition(row, o)) \in Row
<1>1. CASE row = None
  <2>1. Transition(row, o) = "started"
    BY <1>1 DEF Transition
  <2> QED  BY <2>1 DEF RefreshedSession, SessionFromOperator, Row, Operator
<1>2. CASE row # None
  <2>1. row \in Row /\ Transition(row, o) # "started"
    BY <1>2 DEF Transition, CredentialTransition
  <2>2. [row EXCEPT !.credential = o.credential] \in Row
    BY <2>1 DEF Row, Operator
  <2> QED  BY <2>1, <2>2 DEF RefreshedSession
<1> QED  BY <1>1, <1>2

\* What the upsert leaves in its row, and that it leaves the other rows alone.
LEMMA WriteSteps ==
    ASSUME SessionTypeOK, NEW q \in Requests, WriteSession(q)
    PROVE  LET m == Store(q)
               s == SessionOf(q)
               row == Written(m, s, SessionToWrite(q))
           IN  /\ m \in Stores /\ s \in SessionIds
               /\ SessionToWrite(q) \in Row /\ row \in Row
               /\ DOMAIN sessions' = Stores
               /\ \A n \in Stores \ {m} : sessions'[n] = sessions[n]
               /\ DOMAIN sessions'[m] = DOMAIN sessions[m] \cup {s}
               /\ sessions'[m] \in [DOMAIN sessions[m] \cup {s} -> Row]
               /\ sessions'[m][s] = row
               /\ \A t \in DOMAIN sessions[m] \ {s} :
                      sessions'[m][t] = sessions[m][t]
<1> DEFINE m == Store(q)
           s == SessionOf(q)
           row == Written(m, s, SessionToWrite(q))
<1>1. /\ At(q, "observed")
      /\ sessions' = [sessions EXCEPT ![m] =
             [id \in DOMAIN sessions[m] \cup {s} |->
                 IF id = s THEN row ELSE sessions[m][id]]]
  BY DEF WriteSession
<1>2. m \in Stores /\ s \in SessionIds /\ requests[q].operator \in Operator
  BY <1>1, AtWork DEF At, Working
<1>3. SessionToWrite(q) \in Row
  <2>1. requests[q].found \in Row \cup {None}
    BY RequestsOK DEF RequestOK, Request
  <2> QED  BY <1>2, <2>1, RefreshedTyped DEF SessionToWrite, TransitionOf
<1>4. row \in Row
  <2>1. CASE Known(m, s)
    <3>1. sessions[m][s] \in Row /\ SessionToWrite(q).credential \in Credential
      BY <1>2, <1>3, <2>1, RowsTyped DEF Row
    <3> QED  BY <2>1, <3>1 DEF Written, Row
  <2>2. CASE ~Known(m, s)
    BY <1>3, <2>2 DEF Written
  <2> QED  BY <2>1, <2>2
<1>5. DOMAIN sessions = Stores
      /\ \A t \in DOMAIN sessions[m] : sessions[m][t] \in Row
  BY <1>2, RowsTyped DEF SessionTypeOK, Known
<1>6. sessions'[m] = [id \in DOMAIN sessions[m] \cup {s} |->
                         IF id = s THEN row ELSE sessions[m][id]]
  BY <1>1, <1>2, <1>5
<1>7. \A n \in Stores \ {m} : sessions'[n] = sessions[n]
  BY <1>1, <1>5
<1>8. DOMAIN sessions' = Stores
  BY <1>1, <1>5
<1> HIDE DEF m, s, row
<1>9. /\ sessions'[m] \in [DOMAIN sessions[m] \cup {s} -> Row]
      /\ DOMAIN sessions'[m] = DOMAIN sessions[m] \cup {s}
      /\ sessions'[m][s] = row
      /\ \A t \in DOMAIN sessions[m] \ {s} : sessions'[m][t] = sessions[m][t]
  BY <1>4, <1>5, <1>6
<1> QED  BY <1>2, <1>3, <1>4, <1>7, <1>8, <1>9 DEF m, s, row

LEMMA TypeInit == Init => SessionTypeOK
<1> SUFFICES ASSUME Init PROVE SessionTypeOK
  OBVIOUS
<1>1. StateOK
  BY DEF Init, StateOK, NoSessions
<1>2. requests = [q \in Requests |-> Idle]
  BY DEF Init
<1>3. Idle \in Request
  BY IdleOK DEF RequestOK
<1> QED  BY <1>1, <1>2, <1>3, IdleOK, TypeParts

LEMMA TypeInductive == SessionTypeOK /\ [Next]_vars => SessionTypeOK'
<1> SUFFICES ASSUME SessionTypeOK, [Next]_vars PROVE SessionTypeOK'
  OBVIOUS
<1>1. StateOK /\ requests \in [Requests -> Request]
  BY TypeParts
<1>2. ASSUME NEW q \in Requests, NEW r, RequestOK(r), StateOK',
             requests' = [requests EXCEPT ![q] = r]
      PROVE  SessionTypeOK'
  <2>1. /\ requests' \in [Requests -> Request]
        /\ \A x \in Requests : RequestOK(requests'[x])
    BY <1>2, RequestSteps
  <2>2. \A x \in Requests : RequestOK(requests[x])'
    BY <2>1 DEF RequestOK, Request, Row, Operator, Credential, CredentialIds,
       Times, OperatorIds, Methods, Working
  <2> QED  BY <1>2, <2>1, <2>2 DEF SessionTypeOK, StateOK, RequestOK, At
<1>3. CASE UNCHANGED vars
  BY <1>3 DEF vars, SessionTypeOK, At
<1>4. ASSUME NEW q \in Requests, NEW p \in Processes, NEW token \in Tokens,
             NEW route \in Routes, Arrive(q, p, token, route)
      PROVE  SessionTypeOK'
  <2> DEFINE late == PinnedSession(p, token) \cap loggedOut[StoreOf(p)] # {}
             r == [Idle EXCEPT !.pc = "arrived", !.at = p, !.token = token,
                               !.route = route, !.late = late]
  <2>1. RequestOK(r)
    BY DEF RequestOK, Idle, Request, Working
  <2>2. requests' = [requests EXCEPT ![q] = r] /\ StateOK'
    BY <1>1, <1>4 DEF Arrive, StateOK
  <2> QED  BY <1>2, <2>1, <2>2
<1>5. ASSUME NEW q \in Requests, Dismissed(q)
      PROVE  SessionTypeOK'
  <2>1. StateOK'
    BY <1>1, <1>5 DEF Dismissed, StateOK
  <2> QED  BY <1>2, <1>5, <2>1, IdleOK DEF Dismissed
<1>6. ASSUME NEW q \in Requests, NEW o \in Operator, Admitted(q, o)
      PROVE  SessionTypeOK'
  <2> DEFINE row == RowOf(Store(q), o.session)
             r == [requests[q] EXCEPT !.pc = "observed", !.operator = o,
                                      !.found = row]
  <2>1. requests[q] \in Request /\ requests[q].pc = "arrived"
        /\ requests[q].at # None
    BY <1>6, RequestsOK DEF Admitted, RequestOK, At
  <2>2. row \in Row \cup {None}
    BY <1>6, AtWork, RowOfTyped DEF Admitted, At
  <2>3. RequestOK(r)
    BY <2>1, <2>2 DEF RequestOK, Request, Working
  <2>4. requests' = [requests EXCEPT ![q] = r] /\ StateOK'
    BY <1>1, <1>6 DEF Admitted, StateOK
  <2> QED  BY <1>2, <2>3, <2>4
<1>7. ASSUME NEW q \in Requests, NEW r, WriteSession(q),
             r = [requests[q] EXCEPT
                     !.pc = IF Noteworthy(TransitionOf(q)) THEN "noting"
                            ELSE "trusted",
                     !.found = None]
      PROVE  SessionTypeOK'
  <2>1. requests[q].pc = "observed" /\ RequestOK(requests[q])
    BY <1>7, RequestsOK DEF WriteSession, At
  <2>2. RequestOK(r)
    BY <1>7, <2>1 DEF RequestOK, Request, Working
  <2>3. StateOK'
    <3>1. ASSUME NEW n \in Stores
          PROVE  /\ DOMAIN sessions'[n] \subseteq SessionIds
                 /\ sessions'[n] \in [DOMAIN sessions'[n] -> Row]
      <4>1. CASE n = Store(q)
        <5>1. DOMAIN sessions[n] \cup {SessionOf(q)} \subseteq SessionIds
          BY <1>1, <1>7, WriteSteps DEF StateOK
        <5> QED  BY <1>7, <4>1, <5>1, WriteSteps
      <4>2. CASE n # Store(q)
        <5>1. sessions'[n] = sessions[n]
          BY <1>7, <4>2, WriteSteps
        <5>2. /\ DOMAIN sessions[n] \subseteq SessionIds
              /\ sessions[n] \in [DOMAIN sessions[n] -> Row]
          BY <1>1 DEF StateOK
        <5> QED  BY <5>1, <5>2
      <4> QED  BY <4>1, <4>2
    <3>2. DOMAIN sessions' = Stores
      BY <1>7, WriteSteps
    <3> QED  BY <1>1, <1>7, <3>1, <3>2 DEF WriteSession, StateOK
  <2>4. requests' = [requests EXCEPT ![q] = r]
    BY <1>7 DEF WriteSession
  <2> QED  BY <1>2, <2>2, <2>3, <2>4
<1>8. ASSUME NEW q \in Requests, NoteSession(q)
      PROVE  SessionTypeOK'
  <2> DEFINE r == [requests[q] EXCEPT !.pc = "trusted"]
  <2>1. requests[q].pc = "noting" /\ RequestOK(requests[q])
    BY <1>8, RequestsOK DEF NoteSession, At
  <2>2. RequestOK(r)
    BY <2>1 DEF RequestOK, Request, Working
  <2>3. Telling(q, requests[q].operator.credential.id)
            \in [store : Stores, session : SessionIds,
                 event : CredentialIds \cup {"revoked"}]
    BY <2>1, AtWork DEF Telling, Working, Operator, Credential
  <2>4. StateOK'
    BY <1>1, <1>8, <2>3 DEF NoteSession, StateOK
  <2>5. requests' = [requests EXCEPT ![q] = r]
    BY <1>8 DEF NoteSession, Goto
  <2> QED  BY <1>2, <2>2, <2>4, <2>5
<1>9. ASSUME NEW q \in Requests, Revoke(q)
      PROVE  SessionTypeOK'
  <2> DEFINE r == [requests[q] EXCEPT !.pc = "revoked"]
             m == Store(q)
             s == SessionOf(q)
  <2>1. requests[q].pc = "trusted" /\ RequestOK(requests[q])
    BY <1>9, RequestsOK DEF Revoke, At
  <2>2. RequestOK(r)
    BY <2>1 DEF RequestOK, Request, Working
  <2>3. m \in Stores /\ Known(m, s)
    BY <1>9, <2>1, AtWork DEF Revoke, Revocable
  <2>4. sessions[m][s] \in Row
    BY <2>3, RowsTyped
  <2>5. [sessions[m][s] EXCEPT !.revoked = TRUE] \in Row
    BY <2>4 DEF Row
  <2>6. sessions' = [sessions EXCEPT ![m] =
            [sessions[m] EXCEPT ![s] = [sessions[m][s] EXCEPT !.revoked = TRUE]]]
    BY <1>9 DEF Revoke, RowClosed
  <2>7. StateOK'
    <3> HIDE DEF m, s
    <3>1. /\ DOMAIN sessions' = Stores
          /\ \A n \in Stores : sessions'[n] = IF n = m THEN
                 [sessions[m] EXCEPT ![s] = [sessions[m][s] EXCEPT !.revoked = TRUE]]
                 ELSE sessions[n]
      BY <1>1, <2>6, <2>3 DEF StateOK
    <3>2. ASSUME NEW n \in Stores
          PROVE  /\ DOMAIN sessions'[n] = DOMAIN sessions[n]
                 /\ sessions'[n] \in [DOMAIN sessions'[n] -> Row]
      <4>1. sessions[n] \in [DOMAIN sessions[n] -> Row]
        BY <1>1 DEF StateOK
      <4>2. CASE n = m
        <5>1. sessions'[n] = [sessions[n] EXCEPT ![s] =
                                 [sessions[m][s] EXCEPT !.revoked = TRUE]]
          BY <3>1, <4>2
        <5> QED  BY <2>5, <4>1, <5>1, RowReplaced
      <4>3. CASE n # m
        BY <3>1, <4>1, <4>3
      <4> QED  BY <4>2, <4>3
    <3> QED  BY <1>1, <1>9, <3>1, <3>2 DEF Revoke, StateOK
  <2>8. requests' = [requests EXCEPT ![q] = r]
    BY <1>9 DEF Revoke, Goto
  <2> QED  BY <1>2, <2>2, <2>7, <2>8
<1>10. ASSUME NEW q \in Requests, NoteRevocation(q)
       PROVE  SessionTypeOK'
  <2>1. Store(q) \in Stores /\ SessionOf(q) \in SessionIds
    BY <1>10, AtWork DEF NoteRevocation, At, Working
  <2>2. Telling(q, "revoked") \in [store : Stores, session : SessionIds,
                                   event : CredentialIds \cup {"revoked"}]
    BY <2>1 DEF Telling
  <2>3. StateOK'
    BY <1>1, <1>10, <2>1, <2>2 DEF NoteRevocation, StateOK
  <2> QED  BY <1>2, <1>10, <2>3, IdleOK DEF NoteRevocation, Answer
<1>11. ASSUME NEW p \in Processes, Crash(p)
       PROVE  SessionTypeOK'
  <2>1. StateOK'
    <3>1. p \in Stores
      BY DEF Stores
    <3>2. /\ DOMAIN sessions' = Stores
          /\ \A n \in Stores : sessions'[n] = IF n = p THEN NoSessions
                                               ELSE sessions[n]
      BY <1>1, <1>11, <3>1 DEF Crash, StateOK
    <3>3. DOMAIN NoSessions = {} /\ NoSessions \in [{} -> Row]
      BY DEF NoSessions
    <3>4. untold' \in BOOLEAN /\ told' \subseteq told
          /\ loggedOut' \in [Stores -> SUBSET SessionIds]
      BY <1>1, <1>11 DEF Crash, StateOK
    <3> QED  BY <1>1, <1>11, <3>2, <3>3, <3>4 DEF Crash, StateOK
  <2>2. \A x \in Requests : requests'[x] = IF requests[x].at = p THEN Idle
                                           ELSE requests[x]
    BY <1>11 DEF Crash
  <2>3. \A x \in Requests : RequestOK(requests'[x])
    BY <2>2, IdleOK, RequestsOK
  <2>4. requests' \in [Requests -> Request]
    BY <1>11, <2>3 DEF Crash, RequestOK
  <2> QED  BY <2>1, <2>3, <2>4 DEF SessionTypeOK, StateOK, RequestOK, At
<1> QED
  BY <1>3, <1>4, <1>5, <1>6, <1>7, <1>8, <1>9, <1>10, <1>11, StepKinds

\* Rows and requests are well formed at all times.
THEOREM SessionTypeCorrect == Spec => []SessionTypeOK
<1> QED  BY TypeInit, TypeInductive, PTL DEF Spec

-----------------------------------------------------------------------------
\* What steps do to the rows.

\* Only an observation's upsert, a logout and a crash touch the rows.
LEMMA RowSteps ==
    ASSUME SessionTypeOK, [Next]_vars
    PROVE  \/ sessions' = sessions
           \/ \E q \in Requests : WriteSession(q) \/ Revoke(q)
           \/ \E p \in Processes : Crash(p)
BY StepKinds DEF vars, Arrive, Dismissed, Admitted, NoteSession, NoteRevocation

\* A logout closes its session and leaves everything else as it is.
LEMMA RevokeSteps ==
    ASSUME SessionTypeOK, NEW q \in Requests, Revoke(q)
    PROVE  LET m == Store(q)
               s == SessionOf(q)
           IN  /\ m \in Stores /\ s \in SessionIds
               /\ s \in DOMAIN sessions[m]
               /\ \A n \in Stores \ {m} : sessions'[n] = sessions[n]
               /\ DOMAIN sessions'[m] = DOMAIN sessions[m]
               /\ sessions'[m][s] = [sessions[m][s] EXCEPT !.revoked = TRUE]
               /\ \A t \in DOMAIN sessions[m] \ {s} :
                      sessions'[m][t] = sessions[m][t]
<1> DEFINE m == Store(q)
           s == SessionOf(q)
<1>1. m \in Stores /\ s \in SessionIds
  BY AtWork DEF Revoke, At, Working
<1>2. s \in DOMAIN sessions[m]
  BY DEF Revoke, Revocable, Known
<1>3. sessions' = [sessions EXCEPT ![m] = [sessions[m] EXCEPT ![s] =
                      [sessions[m][s] EXCEPT !.revoked = TRUE]]]
  BY DEF Revoke, RowClosed
<1>4. DOMAIN sessions = Stores
  BY DEF SessionTypeOK
<1> HIDE DEF m, s
<1>5. sessions'[m] = [sessions[m] EXCEPT ![s] =
                         [sessions[m][s] EXCEPT !.revoked = TRUE]]
  BY <1>1, <1>3, <1>4
<1>6. \A n \in Stores \ {m} : sessions'[n] = sessions[n]
  BY <1>3, <1>4
<1> QED  BY <1>1, <1>2, <1>5, <1>6 DEF m, s

\* The upsert of a row it finds changes the credential only.
LEMMA WriteKeepsOwner ==
    ASSUME SessionTypeOK, NEW q \in Requests, WriteSession(q),
           Known(Store(q), SessionOf(q))
    PROVE  LET old == sessions[Store(q)][SessionOf(q)]
               new == sessions'[Store(q)][SessionOf(q)]
           IN  /\ new.operator = old.operator /\ new.method = old.method
               /\ new.revoked = old.revoked
               /\ new.credential = SessionToWrite(q).credential
<1> DEFINE old == sessions[Store(q)][SessionOf(q)]
           new == sessions'[Store(q)][SessionOf(q)]
<1>1. old \in Row
  BY WriteSteps, RowsTyped
<1>2. new = [old EXCEPT !.credential = SessionToWrite(q).credential]
  BY WriteSteps DEF Written
<1> QED  BY <1>1, <1>2 DEF Row

LEMMA RowsStay ==
    ASSUME SessionTypeOK, [Next]_vars, NEW m \in Stores
    PROVE  (m \in Processes /\ Crash(m)) \/ RowsKept(m)
<1>1. CASE sessions' = sessions
  BY <1>1 DEF RowsKept
<1>2. ASSUME NEW q \in Requests, WriteSession(q)
      PROVE  RowsKept(m)
  <2>1. CASE m # Store(q)
    <3>1. sessions'[m] = sessions[m]
      BY <1>2, <2>1, WriteSteps
    <3> QED  BY <3>1 DEF RowsKept
  <2>2. ASSUME m = Store(q), NEW s \in DOMAIN sessions[m]
        PROVE  /\ s \in DOMAIN sessions'[m]
               /\ sessions'[m][s].operator = sessions[m][s].operator
               /\ sessions'[m][s].method = sessions[m][s].method
               /\ sessions'[m][s].revoked = sessions[m][s].revoked
    <3>1. CASE s = SessionOf(q)
      BY <1>2, <2>2, <3>1, WriteKeepsOwner, WriteSteps DEF Known
    <3>2. CASE s # SessionOf(q)
      BY <1>2, <2>2, <3>2, WriteSteps
    <3> QED  BY <3>1, <3>2
  <2> QED  BY <2>1, <2>2 DEF RowsKept
<1>3. ASSUME NEW q \in Requests, Revoke(q)
      PROVE  RowsKept(m)
  <2>1. CASE m # Store(q)
    <3>1. sessions'[m] = sessions[m]
      BY <1>3, <2>1, RevokeSteps
    <3> QED  BY <3>1 DEF RowsKept
  <2>2. ASSUME m = Store(q), NEW s \in DOMAIN sessions[m]
        PROVE  /\ s \in DOMAIN sessions'[m]
               /\ sessions'[m][s].operator = sessions[m][s].operator
               /\ sessions'[m][s].method = sessions[m][s].method
               /\ sessions[m][s].revoked => sessions'[m][s].revoked
    <3>1. CASE s = SessionOf(q)
      <4>1. sessions[m][s] \in Row
        BY <2>2, RowsTyped DEF Known
      <4>2. /\ s \in DOMAIN sessions'[m]
            /\ sessions'[m][s] = [sessions[m][s] EXCEPT !.revoked = TRUE]
        BY <1>3, <2>2, <3>1, RevokeSteps
      <4> QED  BY <4>1, <4>2 DEF Row
    <3>2. CASE s # SessionOf(q)
      <4>1. s \in DOMAIN sessions'[m] /\ sessions'[m][s] = sessions[m][s]
        BY <1>3, <2>2, <3>2, RevokeSteps
      <4> QED  BY <4>1
    <3> QED  BY <3>1, <3>2
  <2> QED  BY <2>1, <2>2 DEF RowsKept
<1>4. ASSUME NEW p \in Processes, Crash(p)
      PROVE  (m \in Processes /\ Crash(m)) \/ RowsKept(m)
  <2>1. m # p => sessions'[m] = sessions[m]
    BY <1>4 DEF Crash, SessionTypeOK
  <2> QED  BY <1>4, <2>1 DEF RowsKept
<1> QED  BY <1>1, <1>2, <1>3, <1>4, RowSteps

\* Nothing reopens a session or gives it to somebody else; a store in memory
\* loses them all at once.
THEOREM RevocationStays == Spec => RevokedForGood
<1>1. SessionTypeOK /\ [Next]_vars => [KeepRows]_vars
  <2> SUFFICES ASSUME SessionTypeOK, [Next]_vars, NEW m \in Stores
               PROVE  \/ m \in Processes /\ sessions'[m] = NoSessions
                      \/ RowsKept(m)
    BY DEF KeepRows
  <2>1. m \in Processes /\ Crash(m) => sessions'[m] = NoSessions
    BY DEF Crash, SessionTypeOK
  <2> QED  BY <2>1, RowsStay
<1> QED  BY <1>1, SessionTypeCorrect, PTL DEF Spec, RevokedForGood

-----------------------------------------------------------------------------
\* Logouts.

LogoutOK(q) ==
    /\ At(q, "revoked") => Revoked(Store(q), SessionOf(q))
    /\ requests[q].late /\ At(q, "arrived") =>
           PinnedSession(requests[q].at, requests[q].token)
               \cap loggedOut[Store(q)] # {}
    /\ requests[q].late => ~(requests[q].pc \in Working)

\* A session whose logout was answered is revoked, one whose logout is being
\* recorded as well; and a late request waits for a refusal.
LogoutInv ==
    /\ \A m \in Stores : \A s \in loggedOut[m] : Revoked(m, s)
    /\ \A q \in Requests : LogoutOK(q)

\* Short of a crash, nothing revoked or logged out is forgotten.
LEMMA LogoutsStay ==
    ASSUME SessionTypeOK, [Next]_vars
    PROVE  /\ deployment' = deployment
           /\ \A m \in Stores :
                  \/ m \in Processes /\ Crash(m)
                  \/ RowsKept(m) /\ loggedOut[m] \subseteq loggedOut'[m]
<1>1. deployment' = deployment
  BY StepKinds DEF vars, Arrive, Dismissed, Admitted, WriteSession, NoteSession,
     Revoke, NoteRevocation, Crash
<1>2. ASSUME NEW m \in Stores, ~(m \in Processes /\ Crash(m))
      PROVE  loggedOut[m] \subseteq loggedOut'[m]
  <2>1. loggedOut \in [Stores -> SUBSET SessionIds]
    BY DEF SessionTypeOK
  <2>2. CASE loggedOut' = loggedOut
    BY <2>2
  <2>3. ASSUME NEW q \in Requests, NoteRevocation(q)
        PROVE  loggedOut[m] \subseteq loggedOut'[m]
    BY <2>1, <2>3 DEF NoteRevocation
  <2>4. ASSUME NEW p \in Processes, Crash(p)
        PROVE  loggedOut[m] \subseteq loggedOut'[m]
    <3>1. m # p
      BY <1>2, <2>4
    <3> QED  BY <2>1, <2>4, <3>1 DEF Crash
  <2> QED
    BY <2>2, <2>3, <2>4, StepKinds DEF vars, Arrive, Dismissed, Admitted,
       WriteSession, NoteSession, Revoke
<1> QED  BY <1>1, <1>2, RowsStay

LEMMA RevokedStays ==
    ASSUME NEW m, RowsKept(m), NEW s, Revoked(m, s)
    PROVE  Revoked(m, s)'
BY DEF RowsKept, Revoked, Known

\* A process that crashes owns no store but its own.
LEMMA StoreOfOthers ==
    ASSUME NEW p \in Processes, NEW q \in Requests, requests[q].at # p
    PROVE  Store(q) # p
BY DEF Store, StoreOf

\* What holds of a request the step does not move goes on holding.
LEMMA UnmovedLogoutOK ==
    ASSUME SessionTypeOK, [Next]_vars, NEW q \in Requests, LogoutOK(q),
           requests'[q] = requests[q]
    PROVE  LogoutOK(q)'
<1>1. CASE requests[q].pc = "idle"
  BY <1>1 DEF LogoutOK, At, Working
<1>2. CASE requests[q].pc # "idle"
  <2>1. Store(q) \in Stores
    BY <1>2, AtWork
  <2>2. ~(Store(q) \in Processes /\ Crash(Store(q)))
    <3>1. ASSUME NEW p \in Processes, Crash(p), requests[q].at = p
          PROVE  FALSE
      BY <3>1 DEF Crash, Idle
    <3> QED  BY <3>1, StoreOfOthers
  <2>3. /\ deployment' = deployment
        /\ RowsKept(Store(q)) /\ loggedOut[Store(q)] \subseteq loggedOut'[Store(q)]
    BY <2>1, <2>2, LogoutsStay
  <2>4. Store(q)' = Store(q) /\ SessionOf(q)' = SessionOf(q)
    BY <2>3 DEF Store, StoreOf, SessionOf
  <2>5. PinnedSession(requests[q].at, requests[q].token)'
            = PinnedSession(requests[q].at, requests[q].token)
    BY <2>3 DEF PinnedSession
  <2>6. At(q, "revoked")' => Revoked(Store(q), SessionOf(q))'
    <3>1. At(q, "revoked")' => Revoked(Store(q), SessionOf(q))
      BY DEF LogoutOK, At
    <3> QED  BY <2>3, <2>4, <3>1 DEF RowsKept, Revoked, Known
  <2>7. (requests[q].late /\ At(q, "arrived"))' =>
            (PinnedSession(requests[q].at, requests[q].token)
                \cap loggedOut[Store(q)] # {})'
    BY <2>3, <2>4, <2>5 DEF LogoutOK, At
  <2> QED  BY <2>6, <2>7 DEF LogoutOK
<1> QED  BY <1>1, <1>2

\* An observation of a late request finds its session revoked.
LEMMA LateIsRefused ==
    ASSUME SessionTypeOK, LogoutInv, NEW q \in Requests, NEW o \in Operator,
           Admitted(q, o)
    PROVE  ~requests[q].late
<1> SUFFICES ASSUME requests[q].late PROVE FALSE
  OBVIOUS
<1>1. PICK s \in loggedOut[Store(q)] :
          s \in PinnedSession(requests[q].at, requests[q].token)
  BY DEF LogoutInv, LogoutOK, Admitted
<1>2. o.session = s
  BY <1>1, SessionIsTheTokens DEF PinnedSession, Admitted
<1>3. Store(q) \in Stores
  BY AtWork DEF Admitted, At
<1>4. Revoked(Store(q), o.session)
  BY <1>1, <1>2, <1>3 DEF LogoutInv
<1>5. Transition(RowOf(Store(q), o.session), o) = "revoked"
  BY <1>3, <1>4, RowOfTyped DEF Revoked, RowOf, Transition
<1> QED  BY <1>5 DEF Admitted

LEMMA LogoutInductive ==
    SessionTypeOK /\ LogoutInv /\ [Next]_vars => LogoutInv'
<1> SUFFICES ASSUME SessionTypeOK, LogoutInv, [Next]_vars PROVE LogoutInv'
  OBVIOUS
<1>1. ASSUME NEW m \in Stores, NEW s \in loggedOut'[m]
      PROVE  Revoked(m, s)'
  <2>1. loggedOut \in [Stores -> SUBSET SessionIds]
    BY DEF SessionTypeOK
  <2>2. CASE m \in Processes /\ Crash(m)
    BY <1>1, <2>1, <2>2 DEF Crash
  <2>3. CASE ~(m \in Processes /\ Crash(m)) /\ s \in loggedOut[m]
    BY <2>3, LogoutsStay, RevokedStays DEF LogoutInv
  <2>4. CASE ~(m \in Processes /\ Crash(m)) /\ s \notin loggedOut[m]
    <3>1. PICK q \in Requests :
              NoteRevocation(q) /\ m = Store(q) /\ s = SessionOf(q)
      <4>1. ASSUME NEW q \in Requests, NoteRevocation(q)
            PROVE  m = Store(q) /\ s = SessionOf(q)
        BY <1>1, <2>1, <2>4, <4>1 DEF NoteRevocation
      <4>2. ASSUME NEW p \in Processes, Crash(p)
            PROVE  FALSE
        BY <1>1, <2>1, <2>4, <4>2 DEF Crash
      <4> QED
        BY <1>1, <2>4, <4>1, <4>2, StepKinds DEF vars, Arrive, Dismissed,
           Admitted, WriteSession, NoteSession, Revoke
    <3>2. Revoked(m, s)
      BY <3>1 DEF LogoutInv, LogoutOK, NoteRevocation
    <3> QED  BY <2>4, <3>2, LogoutsStay, RevokedStays
  <2> QED  BY <2>2, <2>3, <2>4
<1>2. ASSUME NEW x \in Requests PROVE LogoutOK(x)'
  <2>1. LogoutOK(x) /\ deployment' = deployment
    BY LogoutsStay DEF LogoutInv
  <2>2. CASE requests'[x] = requests[x]
    BY <2>1, <2>2, UnmovedLogoutOK
  <2>3. CASE requests'[x] = Idle
    BY <2>3 DEF LogoutOK, At, Idle, Working
  <2>4. ASSUME NEW p \in Processes, NEW token \in Tokens, NEW route \in Routes,
               Arrive(x, p, token, route)
        PROVE  LogoutOK(x)'
    <3> DEFINE late == PinnedSession(p, token) \cap loggedOut[StoreOf(p)] # {}
    <3>1. /\ requests'[x].pc = "arrived" /\ requests'[x].at = p
          /\ requests'[x].token = token /\ requests'[x].late = late
          /\ loggedOut' = loggedOut
      BY <2>4 DEF Arrive, Idle, SessionTypeOK
    <3>2. late => (PinnedSession(requests[x].at, requests[x].token)
                      \cap loggedOut[Store(x)] # {})'
      BY <2>1, <3>1 DEF PinnedSession, Store, StoreOf
    <3> QED  BY <3>1, <3>2 DEF LogoutOK, At, Working
  <2>5. ASSUME NEW o \in Operator, Admitted(x, o)
        PROVE  LogoutOK(x)'
    <3>1. requests'[x].pc = "observed" /\ requests'[x].late = requests[x].late
      <4>1. requests[x] \in Request /\ requests \in [Requests -> Request]
        BY DEF SessionTypeOK
      <4> QED  BY <2>5, <4>1 DEF Admitted, Request
    <3> QED  BY <2>5, <3>1, LateIsRefused DEF LogoutOK, At
  <2>6. CASE WriteSession(x) \/ NoteSession(x)
    <3>1. /\ requests'[x].pc \in {"noting", "trusted"}
          /\ requests'[x].late = requests[x].late
          /\ requests[x].pc \in Working
      <4>1. requests[x] \in Request /\ requests \in [Requests -> Request]
        BY DEF SessionTypeOK
      <4> QED
        BY <2>6, <4>1 DEF WriteSession, NoteSession, Goto, Request, At, Working
    <3> QED  BY <2>1, <3>1 DEF LogoutOK, At, Working
  <2>7. CASE Revoke(x)
    <3>1. /\ requests'[x].pc = "revoked" /\ requests'[x].at = requests[x].at
          /\ requests'[x].late = requests[x].late
          /\ requests'[x].operator = requests[x].operator
          /\ requests[x].pc \in Working
      <4>1. requests[x] \in Request /\ requests \in [Requests -> Request]
        BY DEF SessionTypeOK
      <4> QED  BY <2>7, <4>1 DEF Revoke, Goto, Request, At, Working
    <3>2. Store(x)' = Store(x) /\ SessionOf(x)' = SessionOf(x)
      BY <2>1, <3>1 DEF Store, StoreOf, SessionOf
    <3>3. Revoked(Store(x), SessionOf(x))'
      <4>1. sessions[Store(x)][SessionOf(x)] \in Row
        BY <2>7, RevokeSteps, RowsTyped DEF Known
      <4>2. sessions'[Store(x)][SessionOf(x)].revoked
        BY <2>7, <4>1, RevokeSteps DEF Row
      <4>3. SessionOf(x) \in DOMAIN sessions'[Store(x)]
        BY <2>7, RevokeSteps
      <4> QED  BY <3>2, <4>2, <4>3 DEF Revoked, Known
    <3> QED  BY <2>1, <3>1, <3>3 DEF LogoutOK, At
  <2> QED
    BY <2>2, <2>3, <2>4, <2>5, <2>6, <2>7, RequestMoves
<1> QED  BY <1>1, <1>2 DEF LogoutInv

\* After a logout was answered no request that arrives with a credential of
\* its session is let in.
THEOREM LogoutWorks == Spec => []LogoutIsFelt
<1>1. Init => LogoutInv
  BY DEF Init, LogoutInv, LogoutOK, At, Idle, Working
<1>2. LogoutInv => LogoutIsFelt
  BY DEF LogoutInv, LogoutOK, LogoutIsFelt
<1> QED  BY <1>1, <1>2, LogoutInductive, SessionTypeCorrect, PTL DEF Spec

-----------------------------------------------------------------------------
\* Operator sessions implement SessionAuthority.

\* An observation goes on only with a session it found open, and a database
\* leaves the processes' own maps empty.
ReadInv ==
    /\ \A q \in Requests :
           At(q, "observed") => TransitionOf(q) \notin {"revoked", "rejected"}
    /\ deployment.backend = "sqlite" =>
           \A p \in Processes : sessions[p] = NoSessions

LEMMA ReadInductive ==
    SessionTypeOK /\ ReadInv /\ [Next]_vars => ReadInv'
<1> SUFFICES ASSUME SessionTypeOK, ReadInv, [Next]_vars PROVE ReadInv'
  OBVIOUS
<1>1. ASSUME NEW x \in Requests, At(x, "observed")'
      PROVE  TransitionOf(x)' \notin {"revoked", "rejected"}
  <2>1. requests \in [Requests -> Request]
    BY DEF SessionTypeOK
  <2>2. CASE requests'[x] = requests[x]
    BY <1>1, <2>2 DEF ReadInv, At, TransitionOf
  <2>3. ASSUME NEW o \in Operator, Admitted(x, o)
        PROVE  TransitionOf(x)' \notin {"revoked", "rejected"}
    <3>1. /\ requests'[x].found = RowOf(Store(x), o.session)
          /\ requests'[x].operator = o
      BY <2>1, <2>3 DEF Admitted, Request
    <3> QED  BY <2>3, <3>1 DEF Admitted, TransitionOf
  <2>4. CASE requests'[x] # requests[x] /\ ~\E o \in Operator : Admitted(x, o)
    <3>1. requests'[x].pc # "observed"
      <4>1. requests'[x] = Idle => requests'[x].pc = "idle"
        BY DEF Idle
      <4>2. ASSUME NEW p \in Processes, NEW token \in Tokens,
                   NEW route \in Routes, Arrive(x, p, token, route)
            PROVE  requests'[x].pc = "arrived"
        BY <2>1, <4>2 DEF Arrive, Idle
      <4>3. WriteSession(x) \/ NoteSession(x) \/ Revoke(x) =>
                requests'[x].pc \in {"noting", "trusted", "revoked"}
        BY <2>1 DEF WriteSession, NoteSession, Revoke, Goto, Request
      <4> QED  BY <2>4, <4>1, <4>2, <4>3, RequestMoves
    <3> QED  BY <1>1, <3>1 DEF At
  <2> QED  BY <2>2, <2>3, <2>4
<1>2. ASSUME deployment'.backend = "sqlite", NEW p \in Processes
      PROVE  sessions'[p] = NoSessions
  <2>1. deployment' = deployment /\ sessions[p] = NoSessions
    BY <1>2, LogoutsStay DEF ReadInv
  <2>2. p \in Stores /\ p # File
    BY DEF Stores
  <2>3. \A q \in Requests : Store(q) = File
    BY <1>2, <2>1 DEF Store, StoreOf
  <2>4. ASSUME NEW q \in Requests, WriteSession(q) \/ Revoke(q)
        PROVE  sessions'[p] = sessions[p]
    <3>1. p \in Stores \ {Store(q)}
      BY <2>2, <2>3
    <3>2. CASE WriteSession(q)
      BY <3>1, <3>2, WriteSteps
    <3>3. CASE Revoke(q)
      BY <3>1, <3>3, RevokeSteps
    <3> QED  BY <2>4, <3>2, <3>3
  <2>5. ASSUME NEW d \in Processes, Crash(d)
        PROVE  sessions'[p] \in {NoSessions, sessions[p]}
    BY <2>2, <2>5 DEF Crash, SessionTypeOK
  <2> QED  BY <2>1, <2>4, <2>5, RowSteps
<1> QED  BY <1>1, <1>2 DEF ReadInv

SameClosed ==
    \A m \in Stores, s \in SessionIds : Revoked(m, s)' <=> Revoked(m, s)

LEMMA RowsUntouched ==
    ASSUME sessions' = sessions PROVE SameClosed
BY DEF SameClosed, Revoked, Known

\* A request that a step does not move is trusted as before; one that is
\* answered is not trusted.
LEMMA TrustStays ==
    ASSUME SessionTypeOK, [Next]_vars, NEW x \in Requests,
           requests'[x] = requests[x]
    PROVE  TrustOf(x)' = TrustOf(x)
BY LogoutsStay DEF TrustOf, Store, StoreOf, SessionOf

LEMMA IdleTrustsNothing ==
    ASSUME NEW x \in Requests, requests'[x] = Idle
    PROVE  TrustOf(x)' = None
BY DEF TrustOf, Idle, Working

LEMMA NothingCloses ==
    ASSUME SameClosed
    PROVE  {x \in Stores \X SessionIds : Revoked(x[1], x[2])}'
               = {x \in Stores \X SessionIds : Revoked(x[1], x[2])}
BY DEF SameClosed, Stores

LEMMA SomeAreDismissed ==
    ASSUME SameClosed, NEW Q \in SUBSET Requests,
           \A x \in Requests : TrustOf(x)' = IF x \in Q THEN None ELSE TrustOf(x)
    PROVE  Authority!Next
<1>1. Authority!Dismiss(Q)
  BY NothingCloses DEF Authority!Dismiss
<1> QED  BY <1>1 DEF Authority!Next

LEMMA NothingToSee ==
    ASSUME SameClosed, \A x \in Requests : TrustOf(x)' = TrustOf(x)
    PROVE  UNCHANGED Authority!vars
BY NothingCloses DEF Authority!vars

-----------------------------------------------------------------------------
\* From steps of the gateway to steps of SessionAuthority.

\* An observation trusts its request with an open session.
LEMMA AdmittedIsTrusted ==
    ASSUME SessionTypeOK, [Next]_vars, NEW q \in Requests, NEW o \in Operator,
           Admitted(q, o)
    PROVE  Authority!Next
<1> DEFINE s == <<Store(q), o.session>>
<1>1. Store(q) \in Stores /\ o.session \in SessionIds
  BY AtWork DEF Admitted, At, Operator
<1>2. TrustOf(q) = None
  BY DEF TrustOf, Admitted, At, Working
<1>3. ~Revoked(Store(q), o.session)
  <2>1. Revoked(Store(q), o.session) =>
            Transition(RowOf(Store(q), o.session), o) = "revoked"
    BY <1>1, RowOfTyped DEF Revoked, RowOf, Transition
  <2> QED  BY <2>1 DEF Admitted
<1>4. SameClosed
  BY RowsUntouched DEF Admitted
<1>5. TrustOf(q)' = s
  <2>1. /\ requests'[q].pc = "observed" /\ requests'[q].at = requests[q].at
        /\ requests'[q].operator = o
    BY DEF Admitted, SessionTypeOK, Request
  <2> QED
    BY <2>1 DEF TrustOf, Working, Store, StoreOf, SessionOf, Admitted
<1>6. \A x \in Requests \ {q} : TrustOf(x)' = TrustOf(x)
  <2>1. \A x \in Requests \ {q} : requests'[x] = requests[x]
    BY DEF Admitted, SessionTypeOK
  <2> QED  BY <2>1, TrustStays
<1>7. Authority!Trust(q, s)
  BY <1>1, <1>2, <1>3, <1>4, <1>5, <1>6, NothingCloses DEF Authority!Trust
<1>8. s \in Authority!Session
  BY <1>1 DEF Authority!Session, Stores
<1> QED  BY <1>7, <1>8 DEF Authority!Next

\* An upsert revokes nothing and revives nothing.
LEMMA WriteClosesNothing ==
    ASSUME SessionTypeOK, ReadInv, NEW q \in Requests, WriteSession(q)
    PROVE  SameClosed
<1> SUFFICES ASSUME NEW m \in Stores, NEW s \in SessionIds
             PROVE  Revoked(m, s)' <=> Revoked(m, s)
  BY DEF SameClosed
<1>1. CASE m # Store(q)
  <2>1. sessions'[m] = sessions[m]
    BY <1>1, WriteSteps
  <2> QED  BY <2>1 DEF Revoked, Known
<1>2. CASE m = Store(q) /\ s # SessionOf(q)
  <2>1. /\ s \in DOMAIN sessions'[m] <=> s \in DOMAIN sessions[m]
        /\ s \in DOMAIN sessions[m] => sessions'[m][s] = sessions[m][s]
    <3>1. DOMAIN sessions'[m] = DOMAIN sessions[m] \cup {SessionOf(q)}
      BY <1>2, WriteSteps
    <3>2. s \in DOMAIN sessions[m] => sessions'[m][s] = sessions[m][s]
      BY <1>2, WriteSteps
    <3> QED  BY <1>2, <3>1, <3>2
  <2> QED  BY <2>1 DEF Revoked, Known
<1>3. CASE m = Store(q) /\ s = SessionOf(q) /\ Known(m, s)
  <2>1. s \in DOMAIN sessions'[m]
    BY <1>3, WriteSteps
  <2>2. sessions'[m][s].revoked = sessions[m][s].revoked
    BY <1>3, WriteKeepsOwner
  <2> QED  BY <1>3, <2>1, <2>2 DEF Revoked, Known
<1>4. CASE m = Store(q) /\ s = SessionOf(q) /\ ~Known(m, s)
  <2>1. sessions'[m][s] = SessionToWrite(q)
    BY <1>4, WriteSteps DEF Written
  <2>2. requests[q].found \in Row \cup {None}
    BY RequestsOK DEF RequestOK, Request
  <2>3. TransitionOf(q) \notin {"revoked", "rejected"}
    BY DEF ReadInv, WriteSession
  <2>4. ~SessionToWrite(q).revoked
    <3>1. CASE requests[q].found = None
      BY <3>1 DEF SessionToWrite, TransitionOf, Transition, RefreshedSession,
         SessionFromOperator
    <3>2. CASE requests[q].found # None
      <4>1. requests[q].found \in Row /\ ~requests[q].found.revoked
        BY <2>2, <2>3, <3>2 DEF TransitionOf, Transition
      <4>2. TransitionOf(q) # "started"
        BY <3>2 DEF TransitionOf, Transition, CredentialTransition
      <4> QED  BY <4>1, <4>2 DEF SessionToWrite, RefreshedSession, Row
    <3> QED  BY <3>1, <3>2
  <2> QED  BY <1>4, <2>1, <2>4 DEF Revoked, Known
<1> QED  BY <1>1, <1>2, <1>3, <1>4

\* A logout closes the session its request is trusted with.
LEMMA RevokeCloses ==
    ASSUME SessionTypeOK, [Next]_vars, NEW q \in Requests, Revoke(q)
    PROVE  Authority!Next
<1> DEFINE m == Store(q)
           s == SessionOf(q)
           closed == {x \in Stores \X SessionIds : Revoked(x[1], x[2])}
<1>1. requests[q].pc = "trusted" /\ TrustOf(q) = <<m, s>>
  BY DEF Revoke, At, TrustOf, Working
<1>2. m \in Stores /\ s \in SessionIds
  BY RevokeSteps
<1>3. s \in DOMAIN sessions'[m] /\ sessions'[m][s].revoked
  <2>1. sessions[m][s] \in Row
    BY RevokeSteps, RowsTyped DEF Known
  <2> QED  BY <2>1, RevokeSteps DEF Row
<1>4. \A n \in Stores, t \in SessionIds :
          Revoked(n, t)' <=> Revoked(n, t) \/ <<n, t>> = <<m, s>>
  <2> SUFFICES ASSUME NEW n \in Stores, NEW t \in SessionIds
               PROVE  Revoked(n, t)' <=> Revoked(n, t) \/ (n = m /\ t = s)
    OBVIOUS
  <2>1. CASE n # m
    <3>1. sessions'[n] = sessions[n]
      BY <2>1, RevokeSteps
    <3> QED  BY <2>1, <3>1 DEF Revoked, Known
  <2>2. CASE n = m /\ t # s
    <3>1. DOMAIN sessions'[n] = DOMAIN sessions[n]
      BY <2>2, RevokeSteps
    <3>2. t \in DOMAIN sessions[n] => sessions'[n][t] = sessions[n][t]
      BY <2>2, RevokeSteps
    <3> QED  BY <2>2, <3>1, <3>2 DEF Revoked, Known
  <2>3. CASE n = m /\ t = s
    BY <1>3, <2>3 DEF Revoked, Known
  <2> QED  BY <2>1, <2>2, <2>3
<1>5. \A x \in Requests : TrustOf(x)' = TrustOf(x)
  <2>1. \A x \in Requests \ {q} : requests'[x] = requests[x]
    BY DEF Revoke, Goto, SessionTypeOK
  <2>2. /\ requests'[q].pc = "revoked" /\ requests'[q].at = requests[q].at
        /\ requests'[q].operator = requests[q].operator
    BY DEF Revoke, Goto, SessionTypeOK, Request
  <2>3. TrustOf(q)' = TrustOf(q)
    BY <1>1, <2>2, LogoutsStay
       DEF TrustOf, Working, Store, StoreOf, SessionOf
  <2> QED  BY <2>1, <2>3, TrustStays
<1>6. closed' = closed \cup {<<m, s>>}
  <2> DEFINE y == <<m, s>>
  <2>1. y \in Stores \X SessionIds
    BY <1>2
  <2>2. \A x \in Stores \X SessionIds :
            Revoked(x[1], x[2])' <=> Revoked(x[1], x[2]) \/ x = y
    BY <1>4
  <2>3. closed' = {x \in Stores \X SessionIds : Revoked(x[1], x[2])'}
    BY DEF Stores
  <2> HIDE DEF y
  <2>4. closed' = closed \cup {y}
    BY <2>1, <2>2, <2>3
  <2> QED  BY <2>4 DEF y
<1>7. Authority!Close(q)
  <2> DEFINE trusted == [x \in Requests |-> TrustOf(x)]
  <2>1. trusted[q] = <<m, s>> /\ trusted[q] # None
    BY <1>1, <1>2 DEF Stores
  <2>2. UNCHANGED trusted
    BY <1>5
  <2>3. closed' = closed \cup {trusted[q]}
    BY <1>6, <2>1
  <2> QED  BY <2>1, <2>2, <2>3 DEF Authority!Close
<1> QED  BY <1>7 DEF Authority!Next

\* A crash dismisses the requests of its process, and loses a store in memory.
LEMMA CrashLoses ==
    ASSUME SessionTypeOK, ReadInv, [Next]_vars, NEW p \in Processes, Crash(p)
    PROVE  Authority!Next
<1> DEFINE Q == {x \in Requests : requests[x].at = p}
<1>1. \A x \in Requests : TrustOf(x)' = IF x \in Q THEN None ELSE TrustOf(x)
  <2>1. \A x \in Requests : requests'[x] = IF x \in Q THEN Idle ELSE requests[x]
    BY DEF Crash
  <2> QED  BY <2>1, TrustStays, IdleTrustsNothing
<1>2. \A m \in Stores : sessions'[m] = IF m = p THEN NoSessions ELSE sessions[m]
  BY DEF Crash, SessionTypeOK
<1>3. p \in Stores /\ p # File
  BY DEF Stores
<1>4. CASE deployment.backend = "sqlite"
  <2>1. sessions[p] = NoSessions
    BY <1>4 DEF ReadInv
  <2>2. \A m \in Stores : sessions'[m] = sessions[m]
    BY <1>2, <2>1
  <2>3. SameClosed
    BY <2>2 DEF SameClosed, Revoked, Known
  <2> QED  BY <1>1, <2>3, SomeAreDismissed
<1>5. CASE deployment.backend # "sqlite"
  <2> DEFINE closed == {x \in Stores \X SessionIds : Revoked(x[1], x[2])}
             trusted == [x \in Requests |-> TrustOf(x)]
  <2>1. \A m \in Stores, s \in SessionIds :
            Revoked(m, s)' <=> m # p /\ Revoked(m, s)
    BY <1>2 DEF Revoked, Known, NoSessions
  <2>2. closed' = closed \ ({p} \X SessionIds)
    <3>1. closed' = {x \in Stores \X SessionIds : Revoked(x[1], x[2])'}
      BY DEF Stores
    <3> QED  BY <2>1, <3>1
  <2>3. \A x \in Requests : requests[x].pc \in Working =>
            Store(x) = requests[x].at /\ SessionOf(x) \in SessionIds
    BY <1>5, AtWork DEF Store, StoreOf, Working
  <2>4. \A x \in Requests : TrustOf(x)' =
            IF TrustOf(x) \in {p} \X SessionIds THEN None ELSE TrustOf(x)
    <3>1. ASSUME NEW x \in Requests, x \in Q
          PROVE  TrustOf(x) = None \/ TrustOf(x) \in {p} \X SessionIds
      BY <2>3, <3>1 DEF TrustOf
    <3>2. ASSUME NEW x \in Requests, x \notin Q
          PROVE  TrustOf(x) \notin {p} \X SessionIds
      <4>1. CASE requests[x].pc \in Working
        BY <2>3, <3>2, <4>1 DEF TrustOf
      <4>2. CASE ~(requests[x].pc \in Working)
        BY <4>2 DEF TrustOf
      <4> QED  BY <4>1, <4>2
    <3> QED  BY <1>1, <3>1, <3>2
  <2>5. trusted' = [x \in Requests |->
                       IF trusted[x] \in {p} \X SessionIds THEN None
                       ELSE trusted[x]]
    BY <2>4
  <2>6. Authority!Lose(p)
    BY <2>2, <2>5 DEF Authority!Lose
  <2> QED  BY <2>6 DEF Authority!Next
<1> QED  BY <1>4, <1>5

LEMMA StepImplementsAuthority ==
    SessionTypeOK /\ ReadInv /\ [Next]_vars =>
        [Authority!Next]_(Authority!vars)
<1> SUFFICES ASSUME SessionTypeOK, ReadInv, [Next]_vars
             PROVE  [Authority!Next]_(Authority!vars)
  OBVIOUS
<1>1. CASE UNCHANGED vars
  <2>1. SameClosed /\ \A x \in Requests : TrustOf(x)' = TrustOf(x)
    BY <1>1, RowsUntouched, TrustStays DEF vars
  <2> QED  BY <2>1, NothingToSee
<1>2. ASSUME NEW q \in Requests, NEW p \in Processes, NEW token \in Tokens,
             NEW route \in Routes, Arrive(q, p, token, route)
      PROVE  UNCHANGED Authority!vars
  <2>1. SameClosed
    BY <1>2, RowsUntouched DEF Arrive
  <2>2. \A x \in Requests \ {q} : requests'[x] = requests[x]
    BY <1>2 DEF Arrive, SessionTypeOK
  <2>3. TrustOf(q)' = TrustOf(q)
    <3>1. requests'[q].pc = "arrived"
      BY <1>2 DEF Arrive, SessionTypeOK, Idle
    <3> QED  BY <1>2, <3>1 DEF TrustOf, Working, Arrive, At
  <2> QED  BY <2>1, <2>2, <2>3, TrustStays, NothingToSee
<1>3. ASSUME NEW q \in Requests,
             requests' = [requests EXCEPT ![q] = Idle], sessions' = sessions
      PROVE  Authority!Next
  <2>1. \A x \in Requests : requests'[x] = IF x = q THEN Idle ELSE requests[x]
    BY <1>3 DEF SessionTypeOK
  <2>2. \A x \in Requests :
            TrustOf(x)' = IF x \in {q} THEN None ELSE TrustOf(x)
    BY <2>1, TrustStays, IdleTrustsNothing
  <2> QED  BY <1>3, <2>2, RowsUntouched, SomeAreDismissed
<1>4. ASSUME NEW q \in Requests, WriteSession(q) \/ NoteSession(q)
      PROVE  UNCHANGED Authority!vars
  <2>1. SameClosed
    BY <1>4, RowsUntouched, WriteClosesNothing DEF NoteSession
  <2>2. \A x \in Requests \ {q} : requests'[x] = requests[x]
    BY <1>4 DEF WriteSession, NoteSession, Goto, SessionTypeOK
  <2>3. TrustOf(q)' = TrustOf(q)
    <3>1. /\ requests'[q].pc \in Working /\ requests[q].pc \in Working
          /\ requests'[q].at = requests[q].at
          /\ requests'[q].operator = requests[q].operator
      BY <1>4 DEF WriteSession, NoteSession, Goto, At, Working, SessionTypeOK,
         Request
    <3> QED
      BY <3>1, LogoutsStay DEF TrustOf, Store, StoreOf, SessionOf
  <2> QED  BY <2>1, <2>2, <2>3, TrustStays, NothingToSee
<1> QED
  BY <1>1, <1>2, <1>3, <1>4, AdmittedIsTrusted, RevokeCloses, CrashLoses,
     StepKinds DEF Dismissed, NoteRevocation, Answer

\* The gateway and its session stores implement SessionAuthority.
THEOREM SessionsKeepThePromise == Spec => SessionsImplementAuthority
<1>1. Init => Authority!Init
  <2> SUFFICES ASSUME Init PROVE Authority!Init
    OBVIOUS
  <2>1. \A m \in Stores, s \in SessionIds : ~Revoked(m, s)
    BY DEF Init, Revoked, Known, NoSessions
  <2>2. \A q \in Requests : TrustOf(q) = None
    BY DEF Init, TrustOf, Idle, Working
  <2> QED  BY <2>1, <2>2 DEF Authority!Init
<1>2. Init => ReadInv
  BY DEF Init, ReadInv, At, Idle, Stores
<1> QED
  BY <1>1, <1>2, ReadInductive, StepImplementsAuthority, SessionTypeCorrect,
     PTL DEF Spec, SessionsImplementAuthority, Authority!Spec

-----------------------------------------------------------------------------
\* Credentials.

Inside(q) == requests[q].pc \in {"observed", "noting", "revoked"}

\* A process is in the middle of one request at most, and while an observation
\* is, the row it read in its process's own map stays as it was.
FreshInv ==
    /\ \A q, r \in Requests :
           Inside(q) /\ Inside(r) /\ requests[q].at = requests[r].at => q = r
    /\ \A q \in Requests : At(q, "observed") /\ Store(q) # File =>
           requests[q].found = RowOf(Store(q), SessionOf(q))

\* Steps that move a request from without to within find its process free.
LEMMA EntersFree ==
    ASSUME SessionTypeOK, [Next]_vars, NEW x \in Requests, Inside(x)'
    PROVE  /\ \/ Inside(x)
              \/ ~Busy(requests[x].at) /\
                 (Revoke(x) \/ \E o \in Operator : Admitted(x, o))
           /\ requests'[x].at = requests[x].at
<1>1. requests \in [Requests -> Request]
  BY DEF SessionTypeOK
<1>2. CASE requests'[x] = requests[x]
  BY <1>2 DEF Inside
<1>3. CASE requests'[x] = Idle
  BY <1>3 DEF Inside, Idle
<1>4. ASSUME NEW p \in Processes, NEW token \in Tokens, NEW route \in Routes,
             Arrive(x, p, token, route)
      PROVE  FALSE
  BY <1>1, <1>4 DEF Arrive, Idle, Inside
<1>5. ASSUME NEW o \in Operator, Admitted(x, o)
      PROVE  ~Busy(requests[x].at) /\ requests'[x].at = requests[x].at
  BY <1>1, <1>5 DEF Admitted, Request
<1>6. CASE WriteSession(x) \/ NoteSession(x)
  BY <1>1, <1>6 DEF WriteSession, NoteSession, Goto, At, Inside, Request
<1>7. CASE Revoke(x)
  BY <1>1, <1>7 DEF Revoke, Goto, Request
<1> QED  BY <1>2, <1>3, <1>4, <1>5, <1>6, <1>7, RequestMoves

LEMMA OneAtATime ==
    ASSUME SessionTypeOK, FreshInv, [Next]_vars, NEW q \in Requests,
           NEW r \in Requests, Inside(q)', Inside(r)',
           requests'[q].at = requests'[r].at
    PROVE  q = r
<1>1. requests[q].at = requests[r].at
  BY EntersFree
<1>2. ASSUME NEW x \in Requests, NEW y \in Requests, Inside(x),
             requests[x].at = requests[y].at
      PROVE  Busy(requests[y].at)
  BY <1>2 DEF Busy, Inside
<1>3. CASE Inside(q) /\ Inside(r)
  BY <1>1, <1>3 DEF FreshInv
<1>4. CASE Inside(q) /\ ~Inside(r)
  BY <1>1, <1>2, <1>4, EntersFree
<1>5. CASE ~Inside(q) /\ Inside(r)
  BY <1>1, <1>2, <1>5, EntersFree
<1>6. CASE ~Inside(q) /\ ~Inside(r)
  <2>1. requests'[q] # requests[q] /\ requests'[r] # requests[r]
    BY <1>6 DEF Inside
  <2>2. Revoke(q) \/ \E o \in Operator : Admitted(q, o)
    BY <1>6, EntersFree
  <2>3. \A x \in Requests \ {q} : requests'[x] = requests[x]
    BY <2>2 DEF Revoke, Admitted, Goto, SessionTypeOK
  <2> QED  BY <2>1, <2>3
<1> QED  BY <1>3, <1>4, <1>5, <1>6

LEMMA FreshInductive ==
    SessionTypeOK /\ FreshInv /\ [Next]_vars => FreshInv'
<1> SUFFICES ASSUME SessionTypeOK, FreshInv, [Next]_vars PROVE FreshInv'
  OBVIOUS
<1>1. ASSUME NEW x \in Requests, At(x, "observed")', Store(x)' # File
      PROVE  (requests[x].found = RowOf(Store(x), SessionOf(x)))'
  <2>1. /\ deployment' = deployment
        /\ requests \in [Requests -> Request]
    BY LogoutsStay DEF SessionTypeOK
  <2>2. ASSUME NEW o \in Operator, Admitted(x, o)
        PROVE  (requests[x].found = RowOf(Store(x), SessionOf(x)))'
    <3>1. /\ requests'[x].found = RowOf(Store(x), o.session)
          /\ requests'[x].operator = o /\ requests'[x].at = requests[x].at
      BY <2>1, <2>2 DEF Admitted, Request
    <3>2. Store(x)' = Store(x) /\ SessionOf(x)' = o.session
      BY <2>1, <3>1 DEF Store, StoreOf, SessionOf
    <3> QED  BY <2>2, <3>1, <3>2 DEF Admitted, RowOf, Known
  <2>3. CASE requests'[x] = requests[x]
    <3>1. /\ Store(x)' = Store(x) /\ SessionOf(x)' = SessionOf(x)
          /\ At(x, "observed") /\ Inside(x)
      BY <1>1, <2>1, <2>3 DEF Store, StoreOf, SessionOf, At, Inside
    <3>2. requests[x].found = RowOf(Store(x), SessionOf(x))
      BY <1>1, <3>1 DEF FreshInv
    <3>3. Store(x) \in Stores /\ Store(x) = requests[x].at
      BY <1>1, <3>1, AtWork DEF At, Store, StoreOf
    <3>4. sessions'[Store(x)] = sessions[Store(x)]
      <4>1. ASSUME NEW q \in Requests, WriteSession(q) \/ Revoke(q),
                   Store(q) = Store(x)
            PROVE  FALSE
        <5>1. requests[q].at = requests[x].at
          BY <1>1, <3>1, <3>3, <4>1 DEF Store, StoreOf
        <5>2. q # x
          BY <2>1, <2>3, <3>1, <4>1
             DEF WriteSession, Revoke, At, Request
        <5>3. WriteSession(q) => Inside(q)
          BY DEF WriteSession, At, Inside
        <5>4. Revoke(q) => ~Inside(x)
          BY <5>1 DEF Revoke, Busy, Inside
        <5> QED  BY <3>1, <4>1, <5>1, <5>2, <5>3, <5>4 DEF FreshInv
      <4>2. ASSUME NEW q \in Requests, WriteSession(q)
            PROVE  sessions'[Store(x)] = sessions[Store(x)]
        <5>1. Store(x) \in Stores \ {Store(q)}
          BY <3>3, <4>1, <4>2
        <5> QED  BY <4>2, <5>1, WriteSteps
      <4>3. ASSUME NEW q \in Requests, Revoke(q)
            PROVE  sessions'[Store(x)] = sessions[Store(x)]
        <5>1. Store(x) \in Stores \ {Store(q)}
          BY <3>3, <4>1, <4>3
        <5> QED  BY <4>3, <5>1, RevokeSteps
      <4>4. ASSUME NEW p \in Processes, Crash(p)
            PROVE  sessions'[Store(x)] = sessions[Store(x)]
        <5>1. requests[x].at # p
          BY <1>1, <4>4 DEF Crash, At, Idle
        <5> QED  BY <3>3, <4>4, <5>1 DEF Crash, SessionTypeOK
      <4> QED  BY <4>2, <4>3, <4>4, RowSteps
    <3> QED  BY <2>3, <3>1, <3>2, <3>4 DEF RowOf, Known
  <2>4. CASE requests'[x] # requests[x] /\ ~\E o \in Operator : Admitted(x, o)
    <3>1. ASSUME NEW p \in Processes, NEW token \in Tokens, NEW route \in Routes,
                 Arrive(x, p, token, route)
          PROVE  requests'[x].pc = "arrived"
      BY <2>1, <3>1 DEF Arrive, Idle
    <3>2. WriteSession(x) \/ NoteSession(x) \/ Revoke(x) =>
              requests'[x].pc \in {"noting", "trusted", "revoked"}
      BY <2>1 DEF WriteSession, NoteSession, Revoke, Goto, Request
    <3>3. requests'[x] = Idle => requests'[x].pc = "idle"
      BY DEF Idle
    <3>4. requests'[x].pc # "observed"
      BY <2>4, <3>1, <3>2, <3>3, RequestMoves
    <3> QED  BY <1>1, <3>4 DEF At
  <2> QED  BY <2>2, <2>3, <2>4
<1> QED  BY <1>1, OneAtATime DEF FreshInv

\* What an observation that was not overtaken writes into the row it read.
LEMMA WriteMovesForward ==
    ASSUME SessionTypeOK, ReadInv, NEW q \in Requests, WriteSession(q),
           Known(Store(q), SessionOf(q)), ~Overtaken(q)
    PROVE  Replaces(SessionToWrite(q).credential,
                    sessions[Store(q)][SessionOf(q)].credential)
<1> DEFINE row == sessions[Store(q)][SessionOf(q)]
           o == requests[q].operator
<1>1. At(q, "observed") /\ Store(q) \in Stores
  BY WriteSteps DEF WriteSession
<1>2. row \in Row /\ requests[q].found = row
  BY <1>1, RowsTyped DEF Overtaken, RowOf
<1>3. row # None /\ TransitionOf(q) \notin {"revoked", "rejected"}
  BY <1>1, <1>2 DEF ReadInv
<1>4. TransitionOf(q) = CredentialTransition(row, o)
  BY <1>2, <1>3 DEF TransitionOf, Transition
<1>5. CASE TransitionOf(q) = "rotated"
  <2>1. SessionToWrite(q).credential = o.credential
    BY <1>2, <1>5 DEF SessionToWrite, RefreshedSession, Row
  <2>2. o.credential.id # None /\ Overtakes(o.credential, row.credential)
    BY <1>4, <1>5 DEF CredentialTransition
  <2> QED  BY <2>1, <2>2 DEF Replaces, Overtakes
<1>6. CASE TransitionOf(q) # "rotated"
  <2>1. TransitionOf(q) = "resumed"
    BY <1>3, <1>4, <1>6 DEF CredentialTransition
  <2>2. SessionToWrite(q) = row
    BY <1>2, <2>1 DEF SessionToWrite, RefreshedSession
  <2> QED  BY <2>2 DEF Replaces
<1> QED  BY <1>5, <1>6

LEMMA CredentialSteps ==
    ASSUME SessionTypeOK, ReadInv, FreshInv, [Next]_vars
    PROVE  MoveCredentials
<1> SUFFICES ASSUME NEW m \in Stores,
                    NEW s \in DOMAIN sessions[m] \cap DOMAIN sessions'[m]
             PROVE  \/ Replaces(sessions'[m][s].credential,
                                sessions[m][s].credential)
                    \/ m = File /\ \E q \in Requests :
                           Overtaken(q) /\ SessionOf(q) = s
  BY DEF MoveCredentials
<1>1. CASE sessions'[m][s].credential = sessions[m][s].credential
  BY <1>1 DEF Replaces
<1>2. ASSUME NEW q \in Requests, WriteSession(q),
             sessions'[m][s].credential # sessions[m][s].credential
      PROVE  \/ Replaces(sessions'[m][s].credential, sessions[m][s].credential)
             \/ m = File /\ Overtaken(q) /\ SessionOf(q) = s
  <2>1. m = Store(q)
    <3>1. m # Store(q) => sessions'[m] = sessions[m]
      BY <1>2, WriteSteps
    <3> QED  BY <1>2, <3>1
  <2>2. s = SessionOf(q)
    <3>1. s # SessionOf(q) => sessions'[m][s] = sessions[m][s]
      BY <1>2, <2>1, WriteSteps
    <3> QED  BY <1>2, <3>1
  <2>3. Known(Store(q), SessionOf(q))
    BY <2>1, <2>2 DEF Known
  <2>4. sessions'[m][s].credential = SessionToWrite(q).credential
    BY <1>2, <2>1, <2>2, <2>3, WriteKeepsOwner
  <2>5. Overtaken(q) => m = File
    BY <2>1 DEF Overtaken, FreshInv
  <2> QED
    BY <1>2, <2>1, <2>2, <2>3, <2>4, <2>5, WriteMovesForward
<1>3. ASSUME NEW q \in Requests, Revoke(q)
      PROVE  sessions'[m][s].credential = sessions[m][s].credential
  <2>1. CASE m # Store(q)
    <3>1. sessions'[m] = sessions[m]
      BY <1>3, <2>1, RevokeSteps
    <3> QED  BY <3>1
  <2>2. CASE m = Store(q) /\ s # SessionOf(q)
    <3>1. sessions'[m][s] = sessions[m][s]
      BY <1>3, <2>2, RevokeSteps
    <3> QED  BY <3>1
  <2>3. CASE m = Store(q) /\ s = SessionOf(q)
    <3>1. sessions[m][s] \in Row
      BY RowsTyped DEF Known
    <3>2. sessions'[m][s] = [sessions[m][s] EXCEPT !.revoked = TRUE]
      BY <1>3, <2>3, RevokeSteps
    <3> QED  BY <3>1, <3>2 DEF Row
  <2> QED  BY <2>1, <2>2, <2>3
<1>4. ASSUME NEW p \in Processes, Crash(p)
      PROVE  sessions'[m][s].credential = sessions[m][s].credential
  <2>1. sessions'[m] = IF m = p THEN NoSessions ELSE sessions[m]
    BY <1>4 DEF Crash, SessionTypeOK
  <2> QED  BY <2>1 DEF NoSessions
<1> QED  BY <1>1, <1>2, <1>3, <1>4, RowSteps

\* A credential gives way only to one issued later, unless a process on a
\* shared file overtook the observation that writes it back.
THEOREM CredentialsAdvance == Spec => CredentialsMoveForward
<1>1. Init => ReadInv /\ FreshInv
  BY DEF Init, ReadInv, FreshInv, Inside, At, Idle, Stores
<1>2. SessionTypeOK /\ ReadInv /\ FreshInv /\ [Next]_vars =>
          [MoveCredentials]_vars
  BY CredentialSteps
<1> QED
  BY <1>1, <1>2, ReadInductive, FreshInductive, SessionTypeCorrect,
     PTL DEF Spec, CredentialsMoveForward

-----------------------------------------------------------------------------
\* The audit log.

Record(m, s, event) == [store |-> m, session |-> s, event |-> event]

\* The log was told of this credential of a session, or is about to be.
CredentialTold(m, s, c) ==
    \/ Record(m, s, c) \in told
    \/ \E q \in Requests : /\ At(q, "noting")
                           /\ Store(q) = m /\ SessionOf(q) = s
                           /\ requests[q].operator.credential.id = c

RevocationTold(m, s) ==
    \/ Record(m, s, "revoked") \in told
    \/ \E q \in Requests : At(q, "revoked") /\ Store(q) = m /\ SessionOf(q) = s

\* Unless a record was lost the log knows the credential of every row, and of
\* every row an observation read and may write back, and every revocation.
TrailInv ==
    untold \/
    /\ \A m \in Stores : \A s \in DOMAIN sessions[m] :
           /\ CredentialTold(m, s, sessions[m][s].credential.id)
           /\ sessions[m][s].revoked => RevocationTold(m, s)
    /\ \A q \in Requests : At(q, "observed") /\ requests[q].found # None =>
           CredentialTold(Store(q), SessionOf(q), requests[q].found.credential.id)

\* A request keeps its store and session while a step leaves it at work.
LEMMA PlaceStays ==
    ASSUME SessionTypeOK, [Next]_vars, NEW x \in Requests,
           requests'[x].at = requests[x].at,
           requests'[x].operator = requests[x].operator
    PROVE  Store(x)' = Store(x) /\ SessionOf(x)' = SessionOf(x)
BY LogoutsStay DEF Store, StoreOf, SessionOf

\* A request that records something is answered only when its record is
\* written or lost.
LEMMA RecordsGoOn ==
    ASSUME SessionTypeOK, [Next]_vars, ~untold', NEW q \in Requests,
           requests[q].pc \in {"noting", "revoked"}
    PROVE  \/ requests'[q] = requests[q]
           \/ At(q, "noting") /\ NoteSession(q)
           \/ At(q, "revoked") /\ NoteRevocation(q)
<1>1. requests \in [Requests -> Request]
  BY DEF SessionTypeOK
<1>3. ASSUME NEW r \in Requests, Dismissed(r) PROVE requests'[q] = requests[q]
  BY <1>1, <1>3 DEF Dismissed, At
<1>4. ASSUME NEW p \in Processes, Crash(p) PROVE requests'[q] = requests[q]
  BY <1>4 DEF Crash
<1>5. ASSUME NEW r \in Requests, NEW p \in Processes, NEW token \in Tokens,
             NEW route \in Routes, Arrive(r, p, token, route)
      PROVE  requests'[q] = requests[q]
  BY <1>1, <1>5 DEF Arrive, At
<1>6. ASSUME NEW r \in Requests, NEW o \in Operator, Admitted(r, o)
      PROVE  requests'[q] = requests[q]
  BY <1>1, <1>6 DEF Admitted, At
<1>7. ASSUME NEW r \in Requests, WriteSession(r) \/ Revoke(r)
      PROVE  requests'[q] = requests[q]
  BY <1>1, <1>7 DEF WriteSession, Revoke, Goto, At
<1>8. ASSUME NEW r \in Requests, NoteSession(r) \/ NoteRevocation(r), r # q
      PROVE  requests'[q] = requests[q]
  BY <1>1, <1>8 DEF NoteSession, NoteRevocation, Goto, Answer
<1>9. NoteSession(q) => At(q, "noting")
  BY DEF NoteSession
<1>10. NoteRevocation(q) => At(q, "revoked")
  BY DEF NoteRevocation
<1>11. CASE UNCHANGED vars
  BY <1>11 DEF vars
<1> QED
  BY <1>3, <1>4, <1>5, <1>6, <1>7, <1>8, <1>9, <1>10, <1>11, StepKinds

\* The log forgets nothing but with a store that crashes, and a lost record
\* stays lost.
LEMMA LogStays ==
    ASSUME SessionTypeOK, [Next]_vars
    PROVE  /\ untold => untold'
           /\ \A m, s, e : \/ m \in Processes /\ Crash(m)
                           \/ Record(m, s, e) \in told =>
                                  Record(m, s, e) \in told'
<1>2. ASSUME NEW q \in Requests, NoteSession(q) \/ NoteRevocation(q)
      PROVE  told \subseteq told' /\ untold' = untold
  BY <1>2 DEF NoteSession, NoteRevocation
<1>3. ASSUME NEW p \in Processes, Crash(p), NEW m, NEW s, NEW e,
             ~(m \in Processes /\ Crash(m))
      PROVE  /\ untold => untold'
             /\ Record(m, s, e) \in told => Record(m, s, e) \in told'
  <2>1. m # p /\ Record(m, s, e).store = m
    BY <1>3 DEF Record
  <2> QED  BY <1>3, <2>1 DEF Crash
<1>4. ASSUME NEW p \in Processes, Crash(p)
      PROVE  untold => untold'
  BY <1>4 DEF Crash
<1>5. \/ told' = told /\ (untold => untold')
      \/ \E q \in Requests : NoteSession(q) \/ NoteRevocation(q)
      \/ \E p \in Processes : Crash(p)
  BY StepKinds DEF vars, Arrive, Dismissed, Admitted, WriteSession, Revoke
<1>6. untold => untold'
  BY <1>2, <1>4, <1>5
<1>7. ASSUME NEW m, NEW s, NEW e, ~(m \in Processes /\ Crash(m)),
             Record(m, s, e) \in told
      PROVE  Record(m, s, e) \in told'
  BY <1>2, <1>3, <1>5, <1>7
<1> QED  BY <1>6, <1>7

LEMMA ToldStays ==
    ASSUME SessionTypeOK, [Next]_vars, ~untold', NEW m, NEW s, NEW c,
           ~(m \in Processes /\ Crash(m))
    PROVE  /\ CredentialTold(m, s, c) => CredentialTold(m, s, c)'
           /\ RevocationTold(m, s) => RevocationTold(m, s)'
<1>1. ASSUME NEW e, Record(m, s, e) \in told PROVE Record(m, s, e) \in told'
  BY <1>1, LogStays
<1>2. ASSUME NEW q \in Requests, At(q, "noting"), Store(q) = m,
             SessionOf(q) = s, requests[q].operator.credential.id = c
      PROVE  CredentialTold(m, s, c)'
  <2>1. CASE requests'[q] = requests[q]
    <3>1. Store(q)' = m /\ SessionOf(q)' = s
      BY <1>2, <2>1, PlaceStays
    <3> QED  BY <1>2, <2>1, <3>1 DEF CredentialTold, At
  <2>2. CASE NoteSession(q)
    <3>1. Record(m, s, c) \in told'
      BY <1>2, <2>2 DEF NoteSession, Telling, Record
    <3> QED  BY <3>1 DEF CredentialTold, Record
  <2> QED  BY <1>2, <2>1, <2>2, RecordsGoOn DEF At
<1>3. ASSUME NEW q \in Requests, At(q, "revoked"), Store(q) = m,
             SessionOf(q) = s
      PROVE  RevocationTold(m, s)'
  <2>1. CASE requests'[q] = requests[q]
    <3>1. Store(q)' = m /\ SessionOf(q)' = s
      BY <1>3, <2>1, PlaceStays
    <3> QED  BY <1>3, <2>1, <3>1 DEF RevocationTold, At
  <2>2. CASE NoteRevocation(q)
    <3>1. Record(m, s, "revoked") \in told'
      BY <1>3, <2>2 DEF NoteRevocation, Telling, Record
    <3> QED  BY <3>1 DEF RevocationTold, Record
  <2> QED  BY <1>3, <2>1, <2>2, RecordsGoOn DEF At
<1>4. Record(m, s, c)' = Record(m, s, c)
  BY DEF Record
<1>5. CredentialTold(m, s, c) => CredentialTold(m, s, c)'
  BY <1>1, <1>2 DEF CredentialTold, Record
<1>6. RevocationTold(m, s) => RevocationTold(m, s)'
  BY <1>1, <1>3 DEF RevocationTold, Record
<1> QED  BY <1>5, <1>6

\* A step that leaves a request with what it observed is no crash of its store.
LEMMA ObservedSurvives ==
    ASSUME SessionTypeOK, [Next]_vars, NEW x \in Requests,
           At(x, "observed")', requests'[x].at = requests[x].at,
           requests[x].pc # "idle"
    PROVE  ~(Store(x) \in Processes /\ Crash(Store(x)))
<1>1. ASSUME NEW p \in Processes, Crash(p), requests[x].at = p
      PROVE  FALSE
  BY <1>1 DEF Crash, Idle, At
<1> QED  BY <1>1, StoreOfOthers

\* What an observation writes the log was told of, or is about to be.
LEMMA WriteIsTold ==
    ASSUME SessionTypeOK, ReadInv, TrailInv, [Next]_vars, ~untold',
           NEW q \in Requests, WriteSession(q),
           NEW m, m = Store(q), NEW s, s = SessionOf(q),
           NEW c, c = SessionToWrite(q).credential.id
    PROVE  CredentialTold(m, s, c)'
<1>1. /\ At(q, "observed")
      /\ requests'[q].at = requests[q].at
      /\ requests'[q].operator = requests[q].operator
      /\ requests'[q].pc = IF Noteworthy(TransitionOf(q)) THEN "noting"
                           ELSE "trusted"
  BY DEF WriteSession, SessionTypeOK, Request
<1>2. Store(q)' = m /\ SessionOf(q)' = s
  BY <1>1, PlaceStays
<1>3. TransitionOf(q) \in {"started", "rotated", "resumed"}
  BY <1>1 DEF ReadInv, TransitionOf, Transition, CredentialTransition
<1>4. requests[q].found \in Row \cup {None}
  BY RequestsOK DEF RequestOK, Request
<1>5. CASE TransitionOf(q) \in {"started", "rotated"}
  <2>1. requests[q].found # None \/ TransitionOf(q) = "started"
    BY DEF TransitionOf, Transition
  <2>2. SessionToWrite(q).credential = requests[q].operator.credential
    <3>1. CASE TransitionOf(q) = "started"
      BY <3>1 DEF SessionToWrite, RefreshedSession, SessionFromOperator
    <3>2. CASE TransitionOf(q) = "rotated"
      BY <1>4, <2>1, <3>2 DEF SessionToWrite, RefreshedSession, Row
    <3> QED  BY <1>5, <3>1, <3>2
  <2>3. At(q, "noting")'
    BY <1>1, <1>5 DEF Noteworthy, At
  <2>4. requests'[q].operator.credential.id = c
    BY <1>1, <2>2
  <2> QED  BY <1>2, <2>3, <2>4 DEF CredentialTold
<1>6. CASE TransitionOf(q) = "resumed"
  <2>1. requests[q].found # None
    BY <1>6 DEF TransitionOf, Transition
  <2>2. SessionToWrite(q) = requests[q].found
    BY <1>6 DEF SessionToWrite, RefreshedSession
  <2>3. ~untold
    BY LogStays
  <2>4. CredentialTold(m, s, c)
    BY <1>1, <2>1, <2>2, <2>3 DEF TrailInv
  <2>5. ~(m \in Processes /\ Crash(m))
    <3>1. requests[q].pc # "idle" /\ requests'[q].pc # "idle"
      BY <1>1 DEF At
    <3>2. ASSUME NEW p \in Processes, Crash(p), requests[q].at = p
          PROVE  FALSE
      BY <3>1, <3>2 DEF Crash, Idle
    <3> QED  BY <3>2, StoreOfOthers
  <2> QED  BY <2>4, <2>5, ToldStays
<1> QED  BY <1>3, <1>5, <1>6

LEMMA TrailInductive ==
    SessionTypeOK /\ ReadInv /\ TrailInv /\ [Next]_vars => TrailInv'
<1> SUFFICES ASSUME SessionTypeOK, ReadInv, TrailInv, [Next]_vars, ~untold'
             PROVE  TrailInv'
  BY DEF TrailInv
<1>1. ~untold
  BY LogStays
<1>2. ASSUME NEW m \in Stores, NEW s \in DOMAIN sessions'[m],
             NEW c, c = sessions'[m][s].credential.id
      PROVE  /\ CredentialTold(m, s, c)'
             /\ sessions'[m][s].revoked => RevocationTold(m, s)'
  <2>1. ~(m \in Processes /\ Crash(m))
    BY <1>2 DEF Crash, SessionTypeOK, NoSessions
  <2>2. CASE /\ s \in DOMAIN sessions[m]
             /\ sessions'[m][s].credential = sessions[m][s].credential
             /\ sessions'[m][s].revoked = sessions[m][s].revoked
    <3>1. /\ CredentialTold(m, s, c)
          /\ sessions[m][s].revoked => RevocationTold(m, s)
      BY <1>1, <1>2, <2>2 DEF TrailInv
    <3> QED  BY <2>1, <2>2, <3>1, ToldStays
  <2>3. ASSUME NEW q \in Requests, WriteSession(q), m = Store(q),
               s = SessionOf(q)
        PROVE  /\ CredentialTold(m, s, c)'
               /\ sessions'[m][s].revoked => RevocationTold(m, s)'
    <3>1. sessions'[m][s].credential = SessionToWrite(q).credential
      <4>1. CASE Known(m, s)
        BY <2>3, <4>1, WriteKeepsOwner
      <4>2. CASE ~Known(m, s)
        BY <2>3, <4>2, WriteSteps DEF Written
      <4> QED  BY <4>1, <4>2
    <3>2. CredentialTold(m, s, c)'
      BY <1>2, <2>3, <3>1, WriteIsTold
    <3>3. ASSUME sessions'[m][s].revoked PROVE RevocationTold(m, s)'
      <4>1. Revoked(m, s)'
        BY <1>2, <3>3 DEF Revoked, Known
      <4>2. Revoked(m, s)
        BY <2>3, <4>1, WriteClosesNothing, WriteSteps DEF SameClosed
      <4>3. RevocationTold(m, s)
        BY <1>1, <4>2 DEF TrailInv, Revoked, Known
      <4> QED  BY <2>1, <4>3, ToldStays
    <3> QED  BY <3>2, <3>3
  <2>4. ASSUME NEW q \in Requests, Revoke(q), m = Store(q), s = SessionOf(q)
        PROVE  /\ CredentialTold(m, s, c)'
               /\ sessions'[m][s].revoked => RevocationTold(m, s)'
    <3>1. s \in DOMAIN sessions[m] /\ sessions[m][s] \in Row
      BY <2>4, RevokeSteps, RowsTyped DEF Known
    <3>2. sessions'[m][s] = [sessions[m][s] EXCEPT !.revoked = TRUE]
      BY <2>4, RevokeSteps
    <3>3. sessions'[m][s].credential = sessions[m][s].credential
      BY <3>1, <3>2 DEF Row
    <3>4. CredentialTold(m, s, c)'
      <4>1. CredentialTold(m, s, c)
        BY <1>1, <1>2, <3>1, <3>3 DEF TrailInv
      <4> QED  BY <2>1, <4>1, ToldStays
    <3>5. RevocationTold(m, s)'
      <4>1. /\ requests'[q].at = requests[q].at
            /\ requests'[q].operator = requests[q].operator
            /\ requests'[q].pc = "revoked"
        BY <2>4 DEF Revoke, Goto, SessionTypeOK, Request
      <4>2. Store(q)' = m /\ SessionOf(q)' = s
        BY <2>4, <4>1, PlaceStays
      <4> QED  BY <4>1, <4>2 DEF RevocationTold, At
    <3> QED  BY <3>4, <3>5
  <2>5. \/ /\ s \in DOMAIN sessions[m]
           /\ sessions'[m][s] = sessions[m][s]
        \/ \E q \in Requests : /\ WriteSession(q) \/ Revoke(q)
                               /\ m = Store(q) /\ s = SessionOf(q)
    <3>1. CASE sessions' = sessions
      BY <1>2, <3>1
    <3>2. ASSUME NEW q \in Requests, WriteSession(q),
                 m # Store(q) \/ s # SessionOf(q)
          PROVE  s \in DOMAIN sessions[m] /\ sessions'[m][s] = sessions[m][s]
      <4>1. CASE m # Store(q)
        <5>1. sessions'[m] = sessions[m]
          BY <3>2, <4>1, WriteSteps
        <5> QED  BY <1>2, <5>1
      <4>2. CASE m = Store(q) /\ s # SessionOf(q)
        <5>1. DOMAIN sessions'[m] = DOMAIN sessions[m] \cup {SessionOf(q)}
          BY <3>2, <4>2, WriteSteps
        <5>2. s \in DOMAIN sessions[m]
          BY <1>2, <4>2, <5>1
        <5> QED  BY <3>2, <4>2, <5>2, WriteSteps
      <4> QED  BY <3>2, <4>1, <4>2
    <3>3. ASSUME NEW q \in Requests, Revoke(q),
                 m # Store(q) \/ s # SessionOf(q)
          PROVE  s \in DOMAIN sessions[m] /\ sessions'[m][s] = sessions[m][s]
      <4>1. CASE m # Store(q)
        <5>1. sessions'[m] = sessions[m]
          BY <3>3, <4>1, RevokeSteps
        <5> QED  BY <1>2, <5>1
      <4>2. CASE m = Store(q) /\ s # SessionOf(q)
        <5>1. DOMAIN sessions'[m] = DOMAIN sessions[m]
          BY <3>3, <4>2, RevokeSteps
        <5> QED  BY <1>2, <3>3, <4>2, <5>1, RevokeSteps
      <4> QED  BY <3>3, <4>1, <4>2
    <3>4. ASSUME NEW p \in Processes, Crash(p)
          PROVE  s \in DOMAIN sessions[m] /\ sessions'[m][s] = sessions[m][s]
      <4>1. m # p
        BY <2>1, <3>4
      <4>2. sessions'[m] = sessions[m]
        BY <3>4, <4>1 DEF Crash, SessionTypeOK
      <4> QED  BY <1>2, <4>2
    <3> QED  BY <3>1, <3>2, <3>3, <3>4, RowSteps
  <2> QED  BY <2>2, <2>3, <2>4, <2>5
<1>3. ASSUME NEW x \in Requests, At(x, "observed")', requests'[x].found # None,
             NEW m, m = Store(x), NEW s, s = SessionOf(x)',
             NEW c, c = requests'[x].found.credential.id
      PROVE  Store(x)' = m /\ CredentialTold(m, s, c)'
  <2>1. /\ deployment' = deployment
        /\ requests \in [Requests -> Request]
    BY LogoutsStay DEF SessionTypeOK
  <2>2. ASSUME NEW o \in Operator, Admitted(x, o)
        PROVE  Store(x)' = m /\ CredentialTold(m, s, c)'
    <3>1. /\ requests'[x].found = RowOf(Store(x), o.session)
          /\ requests'[x].operator = o /\ requests'[x].at = requests[x].at
          /\ requests[x].pc # "idle"
      BY <2>1, <2>2 DEF Admitted, Request, At
    <3>2. Store(x)' = m /\ s = o.session
      BY <1>3, <2>1, <3>1 DEF Store, StoreOf, SessionOf
    <3>3. m \in Stores
      BY <1>3, <3>1, AtWork
    <3>4. s \in DOMAIN sessions[m] /\ c = sessions[m][s].credential.id
      BY <1>3, <3>1, <3>2 DEF RowOf, Known
    <3>5. CredentialTold(m, s, c)
      BY <1>1, <3>3, <3>4 DEF TrailInv
    <3>6. ~(m \in Processes /\ Crash(m))
      BY <1>3, <3>1, ObservedSurvives
    <3> QED  BY <3>2, <3>5, <3>6, ToldStays
  <2>3. CASE requests'[x] = requests[x]
    <3>1. /\ Store(x)' = m /\ s = SessionOf(x) /\ At(x, "observed")
          /\ c = requests[x].found.credential.id /\ requests[x].found # None
      BY <1>3, <2>1, <2>3 DEF Store, StoreOf, SessionOf, At
    <3>2. CredentialTold(m, s, c)
      BY <1>1, <1>3, <3>1 DEF TrailInv
    <3>3. ~(m \in Processes /\ Crash(m))
      BY <1>3, <2>3, <3>1, ObservedSurvives DEF At
    <3> QED  BY <3>1, <3>2, <3>3, ToldStays
  <2>4. requests'[x] = requests[x] \/ \E o \in Operator : Admitted(x, o)
    <3>1. ASSUME NEW p \in Processes, NEW token \in Tokens, NEW route \in Routes,
                 Arrive(x, p, token, route)
          PROVE  requests'[x].pc = "arrived"
      BY <2>1, <3>1 DEF Arrive, Idle
    <3>2. WriteSession(x) \/ NoteSession(x) \/ Revoke(x) =>
              requests'[x].pc \in {"noting", "trusted", "revoked"}
      BY <2>1 DEF WriteSession, NoteSession, Revoke, Goto, Request
    <3>3. requests'[x] = Idle => requests'[x].pc = "idle"
      BY DEF Idle
    <3>4. requests'[x].pc = "observed"
      BY <1>3 DEF At
    <3> QED  BY <3>1, <3>2, <3>3, <3>4, RequestMoves
  <2> QED  BY <2>2, <2>3, <2>4
<1>4. \A m \in Stores : \A s \in DOMAIN sessions'[m] :
          /\ CredentialTold(m, s, sessions[m][s].credential.id)'
          /\ sessions'[m][s].revoked => RevocationTold(m, s)'
  BY <1>2 DEF CredentialTold, Record
<1>5. \A x \in Requests :
          At(x, "observed")' /\ requests'[x].found # None =>
              CredentialTold(Store(x), SessionOf(x),
                             requests[x].found.credential.id)'
  <2> SUFFICES ASSUME NEW x \in Requests, At(x, "observed")',
                      requests'[x].found # None
               PROVE  CredentialTold(Store(x), SessionOf(x),
                                     requests[x].found.credential.id)'
    OBVIOUS
  <2>1. PICK m, s, c : /\ m = Store(x) /\ s = SessionOf(x)'
                       /\ c = requests'[x].found.credential.id
    OBVIOUS
  <2>2. Store(x)' = m /\ CredentialTold(m, s, c)'
    BY <1>3, <2>1
  <2> QED  BY <2>1, <2>2 DEF CredentialTold, Record
<1> QED  BY <1>4, <1>5 DEF TrailInv, Stores

\* The audit log tells of the sessions in the stores.
THEOREM TrailIsComplete == Spec => []TrailTellsSession
<1>1. Init => ReadInv /\ TrailInv
  BY DEF Init, ReadInv, TrailInv, At, Idle, Stores, NoSessions
<1>2. SessionTypeOK /\ TrailInv => TrailTellsSession
  <2> SUFFICES ASSUME SessionTypeOK, TrailInv, ~untold,
                      NEW m \in Stores, NEW s \in DOMAIN sessions[m],
                      NEW e, \/ e = sessions[m][s].credential.id
                             \/ e = "revoked" /\ sessions[m][s].revoked
               PROVE  \/ Record(m, s, e) \in told
                      \/ \E q \in Requests :
                             /\ requests[q].pc \in {"noting", "revoked"}
                             /\ Store(q) = m /\ SessionOf(q) = s
    BY DEF TrailTellsSession, Record
  <2> QED  BY DEF TrailInv, CredentialTold, RevocationTold, At
<1> QED
  BY <1>1, <1>2, ReadInductive, TrailInductive, SessionTypeCorrect,
     PTL DEF Spec
=============================================================================
