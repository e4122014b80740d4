-------------------------- MODULE DashboardProofs --------------------------
(***************************************************************************)
(* Theorems about the operator's page, for every set of tokens and every   *)
(* number of refreshes in flight.                                          *)
(***************************************************************************)
EXTENDS Dashboard, TLAPS

USE DashboardAssumption

-----------------------------------------------------------------------------
\* The parts of the type invariant.

ServerOK ==
    /\ open \subseteq Tokens
    /\ approvals \in [Kinds -> {"unasked", "pending", "settled"}]

PageOK ==
    /\ field \in Token
    /\ operator \in Tokens \cup {None}
    /\ shown \subseteq Lists

\* The lists that a refresh may have asked for at a stage.
ListsAt(stage) ==
    CASE stage = "known" -> {}
      [] stage = "lists" -> FirstLists
      [] stage = "content" -> {"content"}

\* A refresh in flight is as far as its token allows.
RefreshOK(r) ==
    \/ r = Free
    \/ /\ r.stage \in {"me", "unknown"}
       /\ r.token \in Token /\ r.due = {} /\ r.got = {}
    \/ /\ r.stage \in {"known", "lists", "content"}
       /\ r.token \in Tokens
       /\ r.due \cap r.got = {}
       /\ r.due \cup r.got \subseteq Wanted(r.token, ListsAt(r.stage))

RequestOK ==
    \/ request = NoRequest
    \/ /\ request.what \in Kinds \cup {"logout"}
       /\ request.token \in Token
       /\ request.stage \in {"sent", "ok"}

\* The slots hold refreshes and nothing else.
Refresh ==
    [stage : {"free", "me", "unknown", "known", "lists", "content"},
     token : Token \cup {None}, due : SUBSET Lists, got : SUBSET Lists]
SlotsOK ==
    /\ refreshes \in [Slots -> Refresh]
    /\ \A f \in Slots : RefreshOK(refreshes[f])

Request ==
    [what : Kinds \cup {"logout", "nothing"}, token : Token \cup {None},
     stage : {"free", "sent", "ok"}]

DashInv ==
    /\ ServerOK /\ PageOK /\ SlotsOK
    /\ request \in Request /\ RequestOK
    /\ failures \in 0 .. MaxFailures

LEMMA DashInvImpliesTypeOK == DashInv => DashboardTypeOK
BY DEF DashInv, DashboardTypeOK, ServerOK, PageOK, SlotsOK, RefreshOK, ListsAt,
       RequestOK

-----------------------------------------------------------------------------
LEMMA FreeOK == Free \in Refresh /\ RefreshOK(Free)
BY DEF Free, Refresh, RefreshOK

LEMMA StartedOK ==
    ASSUME NEW token \in Token
    PROVE  Started(token) \in Refresh /\ RefreshOK(Started(token))
BY DEF Started, Free, Refresh, RefreshOK

\* Putting a good refresh into a slot leaves the slots good.
LEMMA PutOK ==
    ASSUME SlotsOK, NEW f, NEW r \in Refresh, RefreshOK(r),
           refreshes' = [refreshes EXCEPT ![f] = r]
    PROVE  SlotsOK'
<1>1. refreshes' \in [Slots -> Refresh]
  BY DEF SlotsOK
<1>2. \A g \in Slots : refreshes'[g] = IF g = f THEN r ELSE refreshes[g]
  BY DEF SlotsOK
<1> QED  BY <1>1, <1>2 DEF SlotsOK

\* A refresh that starts takes a slot.
LEMMA StartOK ==
    ASSUME SlotsOK, NEW token \in Token, StartRefresh(token)
    PROVE  SlotsOK'
<1> DEFINE f == CHOOSE f \in FreeSlots : \A g \in FreeSlots : f <= g
<1>1. refreshes' = [refreshes EXCEPT ![f] = Started(token)]
  BY DEF StartRefresh
<1> HIDE DEF f
<1> QED  BY <1>1, StartedOK, PutOK

\* What a token is sent for can be read with it.
LEMMA WantedTyped ==
    ASSUME NEW token \in Token, NEW lists \in SUBSET Lists
    PROVE  /\ Wanted(token, lists) \in SUBSET Lists
           /\ token \in Token
BY DEF Wanted

\* The steps of one refresh.
LEMMA ProceedKeeps ==
    ASSUME DashInv, NEW f \in Slots, Proceed(f)
    PROVE  DashInv'
<1> DEFINE r == refreshes[f]
<1>0. r \in Refresh /\ RefreshOK(r) /\ SlotsOK
  BY DEF DashInv, SlotsOK
<1> SUFFICES /\ SlotsOK'
             /\ operator' \in Tokens \cup {None}
             /\ shown' \subseteq Lists
  BY DEF DashInv, ServerOK, PageOK, Proceed, AnswerMe, ShowNobody,
         ShowOperator, AnswerLists, ShowLists, ShowContent, serverVars,
         pageVars, RequestOK
<1> USE <1>0
<1>1. CASE AnswerMe(f)
  <2> DEFINE next == [r EXCEPT !.stage = IF r.token \in open THEN "known"
                                         ELSE "unknown"]
  <2>1. refreshes' = [refreshes EXCEPT ![f] = next]
    BY <1>1 DEF AnswerMe, SlotsOK
  <2>2. next \in Refresh
    BY DEF Refresh
  <2>3. RefreshOK(next)
    BY <1>1 DEF AnswerMe, RefreshOK, Free, Refresh, ListsAt, DashInv, ServerOK
  <2>4. SlotsOK'
    <3> HIDE DEF next
    <3> QED  BY <2>1, <2>2, <2>3, PutOK
  <2> QED  BY <2>4, <1>1 DEF AnswerMe, pageVars, DashInv, PageOK
<1>2. CASE ShowNobody(f)
  <2>1. SlotsOK'
    BY <1>2, FreeOK, PutOK DEF ShowNobody
  <2> QED  BY <2>1, <1>2 DEF ShowNobody, NothingShown
<1>3. CASE ShowOperator(f)
  <2> DEFINE next == [r EXCEPT !.stage = "lists",
                               !.due = Wanted(r.token, FirstLists)]
  <2>1. refreshes' = [refreshes EXCEPT ![f] = next]
    BY <1>3 DEF ShowOperator, SlotsOK
  <2>2. r.stage = "known" /\ r.token \in Tokens /\ r.due = {} /\ r.got = {}
    BY <1>3 DEF ShowOperator, RefreshOK, Free, ListsAt, Wanted
  <2>3. next \in Refresh
    BY DEF Refresh, Wanted, Lists
  <2>4. /\ next.stage = "lists" /\ next.token \in Tokens
        /\ next.due = Wanted(r.token, FirstLists) /\ next.got = {}
        /\ next.token = r.token
    BY <2>2 DEF Refresh
  <2>5. RefreshOK(next)
    <3> HIDE DEF next
    <3> QED  BY <2>4 DEF RefreshOK, ListsAt
  <2>6. SlotsOK'
    <3> HIDE DEF next
    <3> QED  BY <2>1, <2>3, <2>5, PutOK
  <2> QED  BY <2>2, <2>6, <1>3 DEF ShowOperator, DashInv, PageOK
<1>4. CASE AnswerLists(f)
  <2> DEFINE got == IF r.token \in open THEN {l \in r.due : Filled(l)} ELSE {}
             next == [r EXCEPT !.due = {}, !.got = got]
  <2>1. refreshes' = [refreshes EXCEPT ![f] = next]
    BY <1>4 DEF AnswerLists, SlotsOK
  <2>2. got \subseteq r.due /\ r.due \subseteq Lists
    BY DEF Refresh
  <2> HIDE DEF got
  <2>3. next \in Refresh
    BY <2>2 DEF Refresh
  <2>4. /\ next.stage = r.stage /\ next.token = r.token
        /\ next.due = {} /\ next.got = got
    BY DEF Refresh
  <2>5. r.stage \in {"known", "lists", "content"} /\ r.token \in Tokens
        /\ r.due \cup r.got \subseteq Wanted(r.token, ListsAt(r.stage))
    BY <1>4 DEF AnswerLists, RefreshOK, Free
  <2>6. RefreshOK(next)
    <3> HIDE DEF next
    <3> QED  BY <2>2, <2>4, <2>5 DEF RefreshOK
  <2>7. SlotsOK'
    <3> HIDE DEF next
    <3> QED  BY <2>1, <2>3, <2>6, PutOK
  <2> QED  BY <2>7, <1>4 DEF AnswerLists, pageVars, DashInv, PageOK
<1>5. CASE ShowLists(f)
  <2> DEFINE next == [r EXCEPT !.stage = "content", !.got = {},
                               !.due = Wanted(r.token, {"content"})]
  <2>1. refreshes' = [refreshes EXCEPT ![f] = next]
    BY <1>5 DEF ShowLists, SlotsOK
  <2>2. r.stage = "lists" /\ r.token \in Tokens /\ r.got \subseteq Lists
    BY <1>5 DEF ShowLists, RefreshOK, Free, Refresh
  <2>3. next \in Refresh
    BY DEF Refresh, Wanted, Lists
  <2>4. /\ next.stage = "content" /\ next.token \in Tokens
        /\ next.due = Wanted(r.token, {"content"}) /\ next.got = {}
        /\ next.token = r.token
    BY <2>2 DEF Refresh
  <2>5. RefreshOK(next)
    <3> HIDE DEF next
    <3> QED  BY <2>4 DEF RefreshOK, ListsAt
  <2>6. SlotsOK'
    <3> HIDE DEF next
    <3> QED  BY <2>1, <2>3, <2>5, PutOK
  <2>7. shown' \subseteq Lists
    BY <2>2, <1>5 DEF ShowLists, DashInv, PageOK
  <2> QED  BY <2>6, <2>7, <1>5 DEF ShowLists, DashInv, PageOK
<1>6. CASE ShowContent(f)
  <2>1. SlotsOK'
    BY <1>6, FreeOK, PutOK DEF ShowContent
  <2>2. r.got \subseteq Lists
    BY DEF Refresh
  <2>3. shown' \subseteq Lists
    BY <2>2, <1>6 DEF ShowContent, DashInv, PageOK
  <2> QED  BY <2>1, <2>3, <1>6 DEF ShowContent, DashInv, PageOK
<1> QED  BY <1>1, <1>2, <1>3, <1>4, <1>5, <1>6 DEF Proceed

\* Logouts and decisions as they are answered.
LEMMA SettleKeeps ==
    ASSUME DashInv, Settle
    PROVE  DashInv'
<1>1. CASE AnswerLogout
  BY <1>1 DEF AnswerLogout, DashInv, ServerOK, PageOK, SlotsOK, Request,
              RequestOK, pageVars
<1>2. CASE ShowSignedOut
  <2>1. SlotsOK'
    <3>1. CASE UNCHANGED refreshes
      BY <3>1 DEF DashInv, SlotsOK
    <3>2. CASE StartRefresh(NoToken)
      BY <3>2, StartOK DEF DashInv, Token
    <3> QED  BY <3>1, <3>2, <1>2 DEF ShowSignedOut
  <2> QED  BY <2>1, <1>2 DEF ShowSignedOut, DashInv, ServerOK, PageOK, Token,
                             serverVars, NoRequest, Request, RequestOK
<1>3. CASE AnswerDecision
  BY <1>3 DEF AnswerDecision, DashInv, ServerOK, PageOK, SlotsOK, Request,
              RequestOK, pageVars
<1>4. CASE ShowDecided
  <2>1. request.token \in Token
    BY <1>4 DEF ShowDecided, DashInv, RequestOK, NoRequest
  <2>2. SlotsOK'
    BY <2>1, <1>4, StartOK DEF ShowDecided, DashInv
  <2> QED  BY <2>2, <1>4 DEF ShowDecided, DashInv, ServerOK, PageOK,
                             serverVars, pageVars, NoRequest, Request, RequestOK
<1>5. CASE RequestFails
  BY <1>5 DEF RequestFails, DashInv, ServerOK, PageOK, SlotsOK, serverVars,
              pageVars, NoRequest, Request, RequestOK
<1> QED  BY <1>1, <1>2, <1>3, <1>4, <1>5 DEF Settle

LEMMA InitDashInv == Init => DashInv
<1> SUFFICES ASSUME Init PROVE DashInv
  OBVIOUS
<1>1. SlotsOK
  <2>1. \A f \in Slots : refreshes[f] = IF f = 1 THEN Started(field) ELSE Free
    BY DEF Init
  <2>2. \A f \in Slots : refreshes[f] \in Refresh /\ RefreshOK(refreshes[f])
    BY <2>1, FreeOK, StartedOK DEF Init
  <2> QED  BY <2>2 DEF SlotsOK, Init
<1> QED  BY <1>1 DEF Init, DashInv, ServerOK, PageOK, Request, RequestOK,
                     NoRequest

LEMMA NextDashInv == DashInv /\ [Next]_vars => DashInv'
<1> SUFFICES ASSUME DashInv, [Next]_vars PROVE DashInv'
  OBVIOUS
<1>1. ASSUME NEW token \in Token, Type(token) PROVE DashInv'
  <2>1. SlotsOK'
    BY <1>1, StartOK DEF Type, DashInv
  <2> QED  BY <2>1, <1>1 DEF Type, DashInv, ServerOK, PageOK, serverVars,
                             RequestOK
<1>2. CASE SignOut
  BY <1>2 DEF SignOut, Sent, DashInv, ServerOK, PageOK, SlotsOK, Request,
              RequestOK, serverVars, pageVars
<1>3. ASSUME NEW kind \in Kinds, Decide(kind) PROVE DashInv'
  BY <1>3 DEF Decide, Sent, DashInv, ServerOK, PageOK, SlotsOK, Request,
              RequestOK, serverVars, pageVars
<1>4. ASSUME NEW f \in Slots, Proceed(f) PROVE DashInv'
  BY <1>4, ProceedKeeps
<1>5. ASSUME NEW f \in Slots, FailRefresh(f) PROVE DashInv'
  <2>1. SlotsOK'
    BY <1>5, FreeOK, PutOK DEF FailRefresh, DashInv
  <2> QED  BY <2>1, <1>5 DEF FailRefresh, DashInv, ServerOK, PageOK,
                             serverVars, pageVars, RequestOK
<1>6. CASE Poll
  <2>1. SlotsOK'
    BY <1>6, StartOK DEF Poll, DashInv, PageOK
  <2> QED  BY <2>1, <1>6 DEF Poll, DashInv, ServerOK, PageOK, serverVars,
                             pageVars, RequestOK
<1>7. CASE Settle
  BY <1>7, SettleKeeps
<1>8. ASSUME NEW kind \in Kinds, AgentAsks(kind) \/ SettledElsewhere(kind)
      PROVE  DashInv'
  BY <1>8 DEF AgentAsks, SettledElsewhere, DashInv, ServerOK, PageOK, SlotsOK,
              pageVars, RequestOK
<1>9. ASSUME NEW token \in Tokens, Expire(token) PROVE DashInv'
  BY <1>9 DEF Expire, DashInv, ServerOK, PageOK, SlotsOK, pageVars, RequestOK
<1>10. CASE UNCHANGED vars
  BY <1>10 DEF vars, serverVars, pageVars, DashInv, ServerOK, PageOK, SlotsOK,
               RequestOK
<1>11. ASSUME NEW f \in Slots, MisanswerMe(f) PROVE DashInv'
  <2> DEFINE r == refreshes[f]
             next == [r EXCEPT !.stage = "unknown"]
  <2>1. refreshes' = [refreshes EXCEPT ![f] = next]
    BY <1>11 DEF MisanswerMe, DashInv, SlotsOK
  <2>2. r \in Refresh /\ RefreshOK(r) /\ r.stage = "me"
    BY <1>11 DEF MisanswerMe, DashInv, SlotsOK
  <2>3. next \in Refresh /\ RefreshOK(next)
    BY <2>2 DEF Refresh, RefreshOK, Free
  <2>4. SlotsOK'
    <3> HIDE DEF next
    <3> QED  BY <2>1, <2>3, PutOK DEF DashInv
  <2> QED  BY <2>4, <1>11 DEF MisanswerMe, DashInv, ServerOK, PageOK,
                              serverVars, pageVars, RequestOK
<1>12. ASSUME NEW f \in Slots, MisanswerLists(f) PROVE DashInv'
  <2> DEFINE r == refreshes[f]
  <2>1. PICK lost \in SUBSET r.due :
            refreshes' = [refreshes EXCEPT
                ![f].due = {}, ![f].got = {l \in r.due \ lost : Filled(l)}]
    BY <1>12 DEF MisanswerLists
  <2> DEFINE got == {l \in r.due \ lost : Filled(l)}
             next == [r EXCEPT !.due = {}, !.got = got]
  <2>2. refreshes' = [refreshes EXCEPT ![f] = next]
    BY <2>1 DEF DashInv, SlotsOK
  <2>3. r \in Refresh /\ RefreshOK(r) /\ r.due # {}
    BY <1>12 DEF MisanswerLists, DashInv, SlotsOK
  <2>4. got \subseteq r.due /\ r.due \subseteq Lists
    BY <2>3 DEF Refresh
  <2> HIDE DEF got
  <2>5. next \in Refresh
    BY <2>3, <2>4 DEF Refresh
  <2>6. /\ next.stage = r.stage /\ next.token = r.token
        /\ next.due = {} /\ next.got = got
    BY <2>3 DEF Refresh
  <2>7. r.stage \in {"known", "lists", "content"} /\ r.token \in Tokens
        /\ r.due \cup r.got \subseteq Wanted(r.token, ListsAt(r.stage))
    BY <2>3 DEF RefreshOK, Free
  <2>8. RefreshOK(next)
    <3> HIDE DEF next
    <3> QED  BY <2>4, <2>6, <2>7 DEF RefreshOK
  <2>9. SlotsOK'
    <3> HIDE DEF next
    <3> QED  BY <2>2, <2>5, <2>8, PutOK DEF DashInv
  <2> QED  BY <2>9, <1>12 DEF MisanswerLists, DashInv, ServerOK, PageOK,
                              serverVars, pageVars, RequestOK
<1> QED  BY <1>1, <1>2, <1>3, <1>4, <1>5, <1>6, <1>7, <1>8, <1>9, <1>10,
          <1>11, <1>12 DEF Next

\* The page and its refreshes stay in order: whatever overlaps, a refresh that
\* has got as far as its lists carries a token that the gateway knew, and has
\* at most the lists that this token may read (App.tsx: refresh).
THEOREM DashboardTypeCorrect == Spec => []DashboardTypeOK
<1>1. Spec => []DashInv
  BY InitDashInv, NextDashInv, PTL DEF Spec
<1> QED  BY <1>1, DashInvImpliesTypeOK, PTL
=============================================================================
