------------------------------ MODULE Dashboard ------------------------------
(***************************************************************************)
(* The operator's browser and the gateway behind it. The page shows what   *)
(* refreshes fetch: who is signed in, then statistics, audit events and    *)
(* pending approvals, then pending content approvals. A refresh starts     *)
(* when the token changes, every three seconds, on request and after a     *)
(* decision, each with the token it was started with, and refreshes        *)
(* overlap: the page shows whatever was applied last.                      *)
(*                                                                         *)
(* Of each list the page shows the model keeps whether there is anything   *)
(* in it; one approval of each kind is asked for and decided once. A       *)
(* response's body arrives with its headers. Left out: messages, layout,   *)
(* the choice of the tab and the copy of the token in sessionStorage.      *)
(***************************************************************************)
EXTENDS Optional, Integers

CONSTANTS
    Tokens,         \* operator tokens that get typed
    NoToken,        \* the empty token field
    Permissions,    \* token -> the permissions of its operator
    Unpinned,       \* development tokens whose every request is a session
    Kinds,          \* kinds of approvals that get asked for, of two
    MaxRefreshes,   \* bound on refreshes in flight
    MaxFailures     \* bound on failures that refreshes meet

ASSUME DashboardAssumption ==
    /\ NoToken \notin Tokens /\ None \notin Tokens \cup {NoToken}
    /\ Permissions \in
           [Tokens -> SUBSET {"approvals:read", "approvals:decide",
                              "audit:read", "stats:read"}]
    /\ Unpinned \subseteq Tokens
    /\ Kinds \subseteq {"approvals", "content"}
    /\ MaxRefreshes \in Nat \ {0} /\ MaxFailures \in Nat

VARIABLES
    open,           \* tokens the gateway accepts: valid, session not revoked
    approvals,      \* the approval of each kind: unasked, pending or settled
    field,          \* operatorToken: the token field of the page
    operator,       \* the operator the page shows, by his token
    shown,          \* the lists the page shows something in
    refreshes,      \* refreshes in flight
    request,        \* the logout or decision in flight, one at a time
    failures        \* failures that refreshes met

serverVars == <<open, approvals>>
pageVars == <<field, operator, shown>>
vars == <<serverVars, pageVars, refreshes, request, failures>>

-----------------------------------------------------------------------------
Token == Tokens \cup {NoToken}
Slots == 1 .. MaxRefreshes

Can(token, permission) == token \in Tokens /\ permission \in Permissions[token]

\* What each list needs; the content approvals are fetched after the others.
Needs == [stats |-> "stats:read", audit |-> "audit:read",
          approvals |-> "approvals:read", content |-> "approvals:read"]
FirstLists == {"stats", "audit", "approvals"}
Lists == FirstLists \cup {"content"}

\* The lists among these that are fetched for a token.
Wanted(token, lists) == {l \in lists : Can(token, Needs[l])}

\* There is something in the list now.
Filled(l) ==
    l \in {"stats", "audit"} \/ (l \in Kinds /\ approvals[l] = "pending")

Free == [stage |-> "free", token |-> None, due |-> {}, got |-> {}]
Started(token) == [Free EXCEPT !.stage = "me", !.token = token]

FreeSlots == {f \in Slots : refreshes[f] = Free}

StartRefresh(token) ==
    /\ FreeSlots # {}
    /\ LET f == CHOOSE f \in FreeSlots : \A g \in FreeSlots : f <= g
       IN  refreshes' = [refreshes EXCEPT ![f] = Started(token)]

\* Logouts and decisions: what was asked for, with which token.
NoRequest == [what |-> "nothing", token |-> None, stage |-> "free"]
Sent(what) == [what |-> what, token |-> field, stage |-> "sent"]

-----------------------------------------------------------------------------
\* The operator.
Type(token) ==
    /\ field # token
    /\ field' = token
    /\ StartRefresh(token)
    /\ UNCHANGED <<serverVars, operator, shown, request, failures>>

\* Sign out is offered while an operator is shown, and logs out the token in
\* the field.
SignOut ==
    /\ operator # None
    /\ request = NoRequest
    /\ request' = Sent("logout")
    /\ UNCHANGED <<serverVars, pageVars, refreshes, failures>>

\* Approve and Reject, for an approval the page lists, when the operator shown
\* may decide; the decision is sent with the token in the field.
Decide(kind) ==
    /\ kind \in shown
    /\ Can(operator, "approvals:decide")
    /\ request = NoRequest
    /\ request' = Sent(kind)
    /\ UNCHANGED <<serverVars, pageVars, refreshes, failures>>

-----------------------------------------------------------------------------
\* A refresh. The gateway answers /auth/me, and the page shows the operator.
AnswerMe(f) ==
    /\ refreshes[f].stage = "me"
    /\ refreshes' = [refreshes EXCEPT ![f].stage =
           IF refreshes[f].token \in open THEN "known" ELSE "unknown"]
    /\ UNCHANGED <<serverVars, pageVars, request, failures>>

\* Mutant: a refused refresh leaves the lists on the page.
KeepShown == shown

NothingShown == {}

ShowNobody(f) ==
    /\ refreshes[f].stage = "unknown"
    /\ operator' = None
    /\ shown' = NothingShown
    /\ refreshes' = [refreshes EXCEPT ![f] = Free]
    /\ UNCHANGED <<serverVars, field, request, failures>>

\* Mutant: the lists are chosen for the token in the field.
ShowOperatorOfField(f) ==
    /\ refreshes[f].stage = "known"
    /\ operator' = refreshes[f].token
    /\ refreshes' = [refreshes EXCEPT
           ![f].stage = "lists", ![f].due = Wanted(field, FirstLists)]
    /\ UNCHANGED <<serverVars, field, shown, request, failures>>

ShowOperator(f) ==
    /\ refreshes[f].stage = "known"
    /\ operator' = refreshes[f].token
    /\ refreshes' = [refreshes EXCEPT
           ![f].stage = "lists",
           ![f].due = Wanted(refreshes[f].token, FirstLists)]
    /\ UNCHANGED <<serverVars, field, shown, request, failures>>

\* The gateway answers the requests for the lists of a stage: with what there
\* is, or all with 401. They are sent together and awaited together.
AnswerLists(f) ==
    /\ refreshes[f].due # {}
    /\ refreshes' = [refreshes EXCEPT
           ![f].due = {},
           ![f].got = IF refreshes[f].token \in open
                      THEN {l \in refreshes[f].due : Filled(l)} ELSE {}]
    /\ UNCHANGED <<serverVars, pageVars, request, failures>>

ShowLists(f) ==
    /\ refreshes[f].stage = "lists" /\ refreshes[f].due = {}
    /\ shown' = (shown \ FirstLists) \cup refreshes[f].got
    /\ refreshes' = [refreshes EXCEPT
           ![f].stage = "content", ![f].got = {},
           ![f].due = Wanted(refreshes[f].token, {"content"})]
    /\ UNCHANGED <<serverVars, field, operator, request, failures>>

ShowContent(f) ==
    /\ refreshes[f].stage = "content" /\ refreshes[f].due = {}
    /\ shown' = (shown \ {"content"}) \cup refreshes[f].got
    /\ refreshes' = [refreshes EXCEPT ![f] = Free]
    /\ UNCHANGED <<serverVars, field, operator, request, failures>>

\* A fetch is rejected: the refresh ends there, and the page stays as it is.
FailRefresh(f) ==
    /\ failures < MaxFailures
    /\ refreshes[f].stage \in {"me", "lists", "content"}
    /\ refreshes' = [refreshes EXCEPT ![f] = Free]
    /\ failures' = failures + 1
    /\ UNCHANGED <<serverVars, pageVars, request>>

\* The gateway's session store or its log throws: a token that is accepted is
\* answered 401 or 500, and to the page it is unknown,
MisanswerMe(f) ==
    /\ failures < MaxFailures
    /\ refreshes[f].stage = "me"
    /\ refreshes' = [refreshes EXCEPT ![f].stage = "unknown"]
    /\ failures' = failures + 1
    /\ UNCHANGED <<serverVars, pageVars, request>>

\* or some of its lists come back with an error, and the page empties them.
MisanswerLists(f) ==
    /\ failures < MaxFailures
    /\ refreshes[f].due # {}
    /\ refreshes[f].token \in open
    /\ \E lost \in SUBSET refreshes[f].due \ {{}} :
           refreshes' = [refreshes EXCEPT
               ![f].due = {},
               ![f].got = {l \in refreshes[f].due \ lost : Filled(l)}]
    /\ failures' = failures + 1
    /\ UNCHANGED <<serverVars, pageVars, request>>

\* setInterval, every three seconds, however many refreshes are in flight; the
\* button Authenticate starts a refresh just the same.
Poll ==
    /\ StartRefresh(field)
    /\ UNCHANGED <<serverVars, pageVars, request, failures>>

-----------------------------------------------------------------------------
\* The session of the request is revoked; of an unpinned token it is the
\* session of this request alone, and the token stays good.
AnswerLogout ==
    /\ request.what = "logout" /\ request.stage = "sent"
    /\ request.token \in open
    /\ open' = open \ ({request.token} \ Unpinned)
    /\ request' = [request EXCEPT !.stage = "ok"]
    /\ UNCHANGED <<approvals, pageVars, refreshes, failures>>

\* Signed out: the field and the page are emptied, whatever token the field
\* holds by now; an emptied field starts a refresh.
ShowSignedOut ==
    /\ request.what = "logout" /\ request.stage = "ok"
    /\ field' = NoToken
    /\ operator' = None
    /\ shown' = {}
    /\ IF field = NoToken THEN UNCHANGED refreshes ELSE StartRefresh(NoToken)
    /\ request' = NoRequest
    /\ UNCHANGED <<serverVars, failures>>

\* The gateway decides the approval if it is still pending and the token may.
AnswerDecision ==
    /\ request.what \in Kinds /\ request.stage = "sent"
    /\ request.token \in open /\ Can(request.token, "approvals:decide")
    /\ approvals[request.what] = "pending"
    /\ approvals' = [approvals EXCEPT ![request.what] = "settled"]
    /\ request' = [request EXCEPT !.stage = "ok"]
    /\ UNCHANGED <<open, pageVars, refreshes, failures>>

\* The refresh that follows uses the token of the click.
ShowDecided ==
    /\ request.what \in Kinds /\ request.stage = "ok"
    /\ StartRefresh(request.token)
    /\ request' = NoRequest
    /\ UNCHANGED <<serverVars, pageVars, failures>>

\* The gateway refuses, or the request or its answer is lost.
RequestFails ==
    /\ request # NoRequest
    /\ request' = NoRequest
    /\ UNCHANGED <<serverVars, pageVars, refreshes, failures>>

-----------------------------------------------------------------------------
\* Elsewhere: an agent's call asks for an approval, another page decides it or
\* it expires, and tokens expire.
AgentAsks(kind) ==
    /\ approvals[kind] = "unasked"
    /\ approvals' = [approvals EXCEPT ![kind] = "pending"]
    /\ UNCHANGED <<open, pageVars, refreshes, request, failures>>

SettledElsewhere(kind) ==
    /\ approvals[kind] = "pending"
    /\ approvals' = [approvals EXCEPT ![kind] = "settled"]
    /\ UNCHANGED <<open, pageVars, refreshes, request, failures>>

Expire(token) ==
    /\ token \in open
    /\ open' = open \ {token}
    /\ UNCHANGED <<approvals, pageVars, refreshes, request, failures>>

\* The page is loaded: the first refresh has started.
Init ==
    /\ open = Tokens
    /\ approvals = [kind \in Kinds |-> "unasked"]
    /\ field \in Token
    /\ operator = None
    /\ shown = {}
    /\ refreshes = [f \in Slots |-> IF f = 1 THEN Started(field) ELSE Free]
    /\ request = NoRequest
    /\ failures = 0

\* The steps of one refresh.
Proceed(f) ==
    \/ AnswerMe(f)
    \/ ShowNobody(f)
    \/ ShowOperator(f)
    \/ AnswerLists(f)
    \/ ShowLists(f)
    \/ ShowContent(f)

Settle ==
    \/ AnswerLogout
    \/ ShowSignedOut
    \/ AnswerDecision
    \/ ShowDecided
    \/ RequestFails

Next ==
    \/ \E token \in Token : Type(token)
    \/ SignOut
    \/ \E kind \in Kinds : Decide(kind)
    \/ \E f \in Slots : Proceed(f)
    \/ \E f \in Slots : FailRefresh(f) \/ MisanswerMe(f) \/ MisanswerLists(f)
    \/ Poll
    \/ Settle
    \/ \E kind \in Kinds : AgentAsks(kind) \/ SettledElsewhere(kind)
    \/ \E token \in Tokens : Expire(token)

\* Requests are answered or fail, the page applies what it got, and the
\* interval fires again and again. Operators, agents and the network's
\* failures owe nothing.
Fairness ==
    /\ \A f \in Slots : WF_vars(Proceed(f))
    /\ SF_vars(Poll)
    /\ WF_vars(Settle)

Spec == Init /\ [][Next]_vars /\ Fairness

-----------------------------------------------------------------------------
\* Type invariant: a refresh that got as far as its lists carries a token the
\* gateway knew, and has at most the lists its operator may read (App.tsx:
\* refresh, logout, decideApproval, decideContentApproval).
DashboardTypeOK ==
    /\ open \subseteq Tokens
    /\ approvals \in [Kinds -> {"unasked", "pending", "settled"}]
    /\ field \in Token
    /\ operator \in Tokens \cup {None}
    /\ shown \subseteq Lists
    /\ \A f \in Slots : LET r == refreshes[f] IN
           \/ r = Free
           \/ /\ r.stage \in {"me", "unknown"}
              /\ r.token \in Token /\ r.due = {} /\ r.got = {}
           \/ /\ r.stage \in {"known", "lists", "content"}
              /\ r.token \in Tokens
              /\ r.due \cap r.got = {}
              /\ r.due \cup r.got \subseteq Wanted(r.token,
                     CASE r.stage = "known" -> {}
                       [] r.stage = "lists" -> FirstLists
                       [] r.stage = "content" -> {"content"})
    /\ \/ request = NoRequest
       \/ /\ request.what \in Kinds \cup {"logout"}
          /\ request.token \in Token
          /\ request.stage \in {"sent", "ok"}
    /\ failures \in 0 .. MaxFailures

\* The page shows the operator of the token in its field and what there is
\* for him to see; and nothing at all for a token that is not accepted.
PageAgrees ==
    IF field \in open
    THEN /\ operator = field
         /\ shown = {l \in Wanted(field, Lists) : Filled(l)}
    ELSE operator = None /\ shown = {}

\* Once the token field is left alone the page comes to agree with the gateway
\* and stays so, whatever refreshes of other tokens were in flight, answered
\* late, overtook each other or failed: in particular what a late answer puts
\* back on the page after a sign-out is taken off again (App.tsx:138).
ViewSettles == <>[][field' = field]_field => <>[]PageAgrees
=============================================================================
