------------------------------ MODULE CallProofs ------------------------------
(***************************************************************************)
(* What holds of a call and its grant while other calls, decisions and     *)
(* restarts interleave: no reuse once an answer is out, and no effect      *)
(* without evidence; and what a call is told: the audit log says the same  *)
(* as the answer, and a faithful retry is never taken for another action.  *)
(***************************************************************************)
EXTENDS GatewayProofs

USE StoreAssumption, NoneAssumption, GatewayAssumption

-----------------------------------------------------------------------------
\* No reuse after the answer.

\* A call came with an id that was issued.
KnownIds ==
    \A c \in Requests :
        calls[c].pc # "idle" /\ calls[c].approvalId # None =>
            calls[c].approvalId \in issued

\* The grant of a call that ran and was answered is dead.
SpentIsDead ==
    \A c \in Requests :
        /\ calls[c].pc = "returned"
        /\ calls[c].ran
        /\ calls[c].approvalId # None
        => Dead(calls[c].approvalId)

UseInv == RefInv /\ KnownIds /\ SpentIsDead

\* Ids stay issued.
LEMMA IssuedGrows == [StoreNext]_storeVars => issued \subseteq issued'
BY DEF StoreNext, storeVars, RequestApproval, StoreApproval, Approve,
       ApproveApproval, Reject, RejectApproval, Consume, ConsumeApproval,
       Clear, ClearApprovals, Tick

\* Only issued ids are submitted.
LEMMA SubmittedId ==
    ASSUME NEW c \in Requests, NEW r \in Submission, Execute(c, r)
    PROVE  r.approvalId # None => r.approvalId \in issued
BY DEF Execute, RefuseContext, DenyCall, AskForApproval, KeepWaiting,
       AnswerRejected, AnswerInvalidated, FailToHash, AnswerNoExecutor,
       Invoke, Admitted, Submitted

\* Consuming an issued grant kills it.
LEMMA ConsumedIsDead ==
    ASSUME StoreInv, NEW g \in issued, Consume(g)
    PROVE  Dead(g)'
<1>1. issued' = issued /\ DOMAIN grants' = DOMAIN grants
  BY DEF Consume, ConsumeApproval
<1>2. CASE ~Stored(g)
  BY <1>1, <1>2 DEF Dead, Stored
<1>3. CASE Stored(g)
  <2>1. grants[g] \in Grant
    BY <1>3 DEF Stored, StoreInv, StoreTypeOK
  <2>2. grants'[g].used
    BY <1>3, <2>1 DEF Consume, ConsumeApproval, Stored, Grant
  <2> QED  BY <1>1, <2>2 DEF Dead
<1> QED  BY <1>2, <1>3

\* A dead grant approves nothing.
LEMMA DeadApprovesNothing ==
    ASSUME NEW c \in Requests, NEW r \in Submission, Approved(c, r)
    PROVE  ~Dead(r.approvalId)
BY DEF Approved, ValidApproval, Redeemable, Dead

\* What a step does to calls: one is submitted, one ends, or they are left
\* alone but for those that a restart loses.
LEMMA CallSteps ==
    ASSUME RefInv, [Next]_vars
    PROVE  \/ \E c \in Requests, r \in Submission,
                 call \in Call, t \in Seq(Event) :
                  /\ Execute(c, r)
                  /\ Settled(c, r, call, t)
           \/ \E c \in Requests, call \in Call, t \in Seq(Event) :
                  Ended(c, call, t)
           \/ \A c \in Requests :
                  /\ \/ calls'[c] = calls[c]
                     \/ calls[c].pc = "executing" /\ calls'[c].pc = "lost"
                  /\ calls'[c].ran = calls[c].ran
                  /\ calls'[c].decision = calls[c].decision
                  /\ calls'[c].approvalId = calls[c].approvalId
                  /\ calls'[c].action = calls[c].action
<1>1. ASSUME NEW c \in Requests, NEW r \in Submission, Execute(c, r)
      PROVE  \E call \in Call, t \in Seq(Event) : Settled(c, r, call, t)
  BY <1>1, ExecuteSettles DEF RefInv
<1>2. ASSUME NEW c \in Requests, NEW result \in Results, Finish(c, result)
      PROVE  \E call \in Call, t \in Seq(Event) : Ended(c, call, t)
  BY <1>2, FinishEnds DEF RefInv
<1> QED  BY <1>1, <1>2, OtherStepsKeepCalls DEF Next

\* No step makes a call's id unknown or revives a spent grant.
LEMMA UseInvKept == UseInv /\ [Next]_vars => KnownIds' /\ SpentIsDead'
<1> SUFFICES ASSUME UseInv, [Next]_vars
             PROVE  KnownIds' /\ SpentIsDead'
  OBVIOUS
<1>1. RefInv /\ StoreInv /\ TypeOK /\ calls \in [Requests -> Call]
  BY DEF UseInv, RefInv, TypeOK
<1>2. issued \subseteq issued'
  BY <1>1, StepIsStoreStep, IssuedGrows
<1>3. \A g \in GrantIds : Dead(g) => Dead(g)'
  BY <1>1, StepIsStoreStep, DeadStaysDead
<1>4. issued \subseteq GrantIds
  BY <1>1 DEF StoreInv, StoreTypeOK
<1>5. ASSUME NEW c \in Requests, calls'[c] = calls[c]
      PROVE  /\ calls'[c].pc # "idle" /\ calls'[c].approvalId # None =>
                    calls'[c].approvalId \in issued'
             /\ /\ calls'[c].pc = "returned"
                /\ calls'[c].ran
                /\ calls'[c].approvalId # None
                => (calls[c].approvalId \in GrantIds /\
                    Dead(calls[c].approvalId))
  BY <1>1, <1>2, <1>4, <1>5 DEF UseInv, KnownIds, SpentIsDead, Call
<1>6. ASSUME NEW c \in Requests, NEW r \in Submission,
             NEW call \in Call, NEW t \in Seq(Event),
             Execute(c, r), Settled(c, r, call, t)
      PROVE  KnownIds' /\ SpentIsDead'
  <2>1. calls'[c] = call /\ \A d \in Requests \ {c} : calls'[d] = calls[d]
    BY <1>1, <1>6 DEF Settled
  <2>2. call.approvalId # None => call.approvalId \in issued'
    BY <1>2, <1>6, SubmittedId DEF Settled
  <2>3. ~(call.pc = "returned" /\ call.ran)
    BY <1>6 DEF Settled
  <2>4. KnownIds'
    BY <1>5, <2>1, <2>2 DEF KnownIds
  <2>5. SpentIsDead'
    BY <1>3, <1>5, <2>1, <2>3 DEF SpentIsDead
  <2> QED  BY <2>4, <2>5
<1>7. ASSUME NEW c \in Requests, NEW call \in Call, NEW t \in Seq(Event),
             Ended(c, call, t)
      PROVE  KnownIds' /\ SpentIsDead'
  <2>1. calls'[c] = call /\ \A d \in Requests \ {c} : calls'[d] = calls[d]
    BY <1>1, <1>7 DEF Ended
  <2>2. call.approvalId # None => call.approvalId \in issued
    BY <1>7 DEF Ended, UseInv, KnownIds
  <2>3. call.pc = "returned" /\ call.approvalId # None =>
            Dead(call.approvalId)'
    BY <1>1, <1>7, <2>2, ConsumedIsDead DEF Ended
  <2>4. KnownIds'
    BY <1>2, <1>5, <2>1, <2>2 DEF KnownIds
  <2>5. SpentIsDead'
    BY <1>3, <1>5, <2>1, <2>3 DEF SpentIsDead
  <2> QED  BY <2>4, <2>5
<1>8. ASSUME \A c \in Requests :
                 /\ \/ calls'[c] = calls[c]
                    \/ calls[c].pc = "executing" /\ calls'[c].pc = "lost"
                 /\ calls'[c].approvalId = calls[c].approvalId
      PROVE  KnownIds' /\ SpentIsDead'
  <2>1. SpentIsDead'
    BY <1>3, <1>5, <1>8 DEF SpentIsDead
  <2>2. KnownIds'
    BY <1>2, <1>8 DEF UseInv, KnownIds
  <2> QED  BY <2>1, <2>2
<1> QED  BY <1>1, <1>6, <1>7, <1>8, CallSteps

\* Ids are known and spent grants dead in every reachable state.
THEOREM UseInvariant == Spec => []UseInv
<1>1. Init => KnownIds /\ SpentIsDead
  BY DEF Init, KnownIds, SpentIsDead, IdleCall
<1>2. RefInv /\ (KnownIds /\ SpentIsDead) /\ [Next]_vars =>
          (KnownIds /\ SpentIsDead)'
  BY UseInvKept DEF UseInv
<1>3. UseInv <=> RefInv /\ (KnownIds /\ SpentIsDead)
  BY DEF UseInv
<1> QED  BY <1>1, <1>2, <1>3, RefinementInvariant, PTL DEF Spec

\* Once a call that ran with a grant has been answered, no call that starts
\* afterwards runs with that grant.
THEOREM NoReuse == Spec => NoReuseAfterReturn
<1>1. ASSUME UseInv, [Next]_vars, NEW c \in Requests, NEW d \in Requests,
             ~calls[c].ran, NeededApproval(c)',
             calls[d].pc = "returned", calls[d].ran
      PROVE  calls'[c].approvalId # calls[d].approvalId
  <2>1. PICK r \in Submission, call \in Call, t \in Seq(Event) :
            Execute(c, r) /\ Settled(c, r, call, t)
    <3>1. RefInv /\ calls \in [Requests -> Call] /\ calls'[c].ran # calls[c].ran
      BY <1>1 DEF UseInv, RefInv, TypeOK, NeededApproval
    <3>2. ASSUME NEW e \in Requests, NEW r \in Submission,
                 NEW call \in Call, NEW t \in Seq(Event),
                 Settled(e, r, call, t)
          PROVE  e = c
      BY <3>1, <3>2 DEF Settled
    <3>3. ASSUME NEW e \in Requests, NEW call \in Call, NEW t \in Seq(Event),
                 Ended(e, call, t)
          PROVE  FALSE
      BY <3>1, <3>3 DEF Ended
    <3> QED  BY <1>1, <3>1, <3>2, <3>3, CallSteps
  <2>2. /\ calls'[c] = call
        /\ call.ran
        /\ call.decision = "REQUIRE_APPROVAL"
    BY <1>1, <2>1 DEF Settled, UseInv, RefInv, TypeOK, NeededApproval
  <2>3. Approved(c, r) /\ calls'[c].approvalId = r.approvalId
    BY <2>1, <2>2 DEF Settled, Cleared
  <2>4. r.approvalId # None /\ ~Dead(r.approvalId)
    BY <2>3, DeadApprovesNothing DEF Approved
  <2> QED  BY <1>1, <2>3, <2>4 DEF UseInv, SpentIsDead
<1>2. UseInv /\ [Next]_vars =>
          [\A c, d \in Requests :
              /\ ~calls[c].ran
              /\ NeededApproval(c)'
              /\ calls[d].pc = "returned"
              /\ calls[d].ran
              => calls'[c].approvalId # calls[d].approvalId]_vars
  BY <1>1
<1> QED  BY <1>2, UseInvariant, PTL DEF Spec, NoReuseAfterReturn

-----------------------------------------------------------------------------
\* Evidence precedes effect.

\* With a log that cannot fail, every approved grant has been logged.
ApprovalLogged ==
    AuditBackend = "memory" =>
        \A g \in DOMAIN grants :
            grants[g].status = "approved" =>
                \E record \in decisionLog :
                    /\ record.type = "APPROVAL_GRANTED"
                    /\ record.hash.actionHash = grants[g].actionHash

EvidenceInv == RefInv /\ ApprovalLogged /\ EvidenceBeforeEffect

\* Every approved grant was approved for the same action before the step.
NoNewApproval ==
    \A g \in DOMAIN grants' :
        grants'[g].status = "approved" =>
            /\ g \in DOMAIN grants
            /\ grants[g].status = "approved"
            /\ grants'[g].actionHash = grants[g].actionHash

\* Only an operator's approval approves.
LEMMA OthersApproveNothing ==
    ASSUME StoreInv,
           \/ UNCHANGED storeVars
           \/ \E g \in GrantIds, p \in Proposal : RequestApproval(g, p)
           \/ \E g \in GrantIds : Consume(g)
           \/ \E g \in GrantIds, operator \in Operators :
                  RejectApproval(g, operator)
           \/ grants' = grants
    PROVE  NoNewApproval
<1>1. \A g \in DOMAIN grants : grants[g] \in Grant
  BY DEF StoreInv, StoreTypeOK
<1>2. CASE grants' = grants
  BY <1>2 DEF NoNewApproval
<1>3. ASSUME NEW g \in GrantIds, NEW p \in Proposal, RequestApproval(g, p)
      PROVE  NoNewApproval
  <2>1. /\ DOMAIN grants' = DOMAIN grants \cup {g}
        /\ grants'[g] = PendingGrant(p, now + TTL)
        /\ \A h \in DOMAIN grants \ {g} : grants'[h] = grants[h]
    BY <1>3 DEF RequestApproval, StoreApproval
  <2>2. grants'[g].status = "pending"
    BY <2>1 DEF PendingGrant
  <2> QED  BY <2>1, <2>2 DEF NoNewApproval
<1>4. ASSUME NEW g \in GrantIds, Consume(g)
      PROVE  NoNewApproval
  <2>1. /\ DOMAIN grants' = DOMAIN grants
        /\ \A h \in DOMAIN grants :
               grants'[h] = IF h = g THEN [grants[h] EXCEPT !.used = TRUE]
                            ELSE grants[h]
    BY <1>4 DEF Consume, ConsumeApproval
  <2>2. \A h \in DOMAIN grants :
            LET spent == [grants[h] EXCEPT !.used = TRUE] IN
            /\ spent.status = grants[h].status
            /\ spent.actionHash = grants[h].actionHash
    BY <1>1 DEF Grant
  <2> QED  BY <2>1, <2>2 DEF NoNewApproval
<1>5. ASSUME NEW g \in GrantIds, NEW operator \in Operators,
             RejectApproval(g, operator)
      PROVE  NoNewApproval
  <2>1. /\ DOMAIN grants' = DOMAIN grants
        /\ \A h \in DOMAIN grants \ {g} : grants'[h] = grants[h]
    BY <1>5 DEF RejectApproval
  <2>2. g \in DOMAIN grants /\ grants[g] \in Grant
    BY <1>1, <1>5 DEF RejectApproval, Rejectable, Stored
  <2>3. grants'[g].status = "rejected"
    BY <1>5, <2>2 DEF RejectApproval, Grant
  <2> QED  BY <2>1, <2>3 DEF NoNewApproval
<1> QED  BY <1>2, <1>3, <1>4, <1>5 DEF storeVars

\* What was logged stays logged while nothing new is approved.
LEMMA LoggedIsKept ==
    ASSUME ApprovalLogged, NoNewApproval, decisionLog \subseteq decisionLog'
    PROVE  ApprovalLogged'
BY DEF ApprovalLogged, NoNewApproval

\* An approval is logged in the step that gives it.
LEMMA ApprovalIsLogged ==
    ASSUME RefInv, ApprovalLogged, NEW g \in GrantIds,
           NEW operator \in Operators, PostApprove(g, operator)
    PROVE  ApprovalLogged'
<1> SUFFICES ASSUME AuditBackend = "memory"
             PROVE  ApprovalLogged'
  BY DEF ApprovalLogged
<1> DEFINE new == [type |-> "APPROVAL_GRANTED", operator |-> operator,
                   hash |-> HashApprovalBinding(grants[g].actionHash, operator)]
<1>1. decisionLog' = decisionLog \cup {new}
  BY DEF PostApprove, Logged
<1>2. /\ DOMAIN grants' = DOMAIN grants
      /\ \A h \in DOMAIN grants \ {g} : grants'[h] = grants[h]
      /\ g \in DOMAIN grants
  BY DEF PostApprove, ApproveApproval, Approvable, Stored
<1>3. grants'[g].actionHash = grants[g].actionHash
  <2>1. grants[g] \in Grant
    BY <1>2 DEF RefInv, StoreInv, StoreTypeOK
  <2> QED  BY <1>2, <2>1 DEF PostApprove, ApproveApproval, Grant
<1>4. new.type = "APPROVAL_GRANTED" /\ new.hash.actionHash = grants[g].actionHash
  BY DEF HashApprovalBinding
<1> HIDE DEF new
<1>5. ASSUME NEW h \in DOMAIN grants', grants'[h].status = "approved"
      PROVE  \E record \in decisionLog' :
                 /\ record.type = "APPROVAL_GRANTED"
                 /\ record.hash.actionHash = grants'[h].actionHash
  <2>1. CASE h = g
    BY <1>1, <1>3, <1>4, <2>1
  <2>2. CASE h # g
    BY <1>1, <1>2, <1>5, <2>2 DEF ApprovalLogged
  <2> QED  BY <2>1, <2>2
<1> QED  BY <1>5 DEF ApprovalLogged

\* Every step keeps the approvals logged.
LEMMA ApprovalsStayLogged ==
    ASSUME EvidenceInv, [Next]_vars
    PROVE  ApprovalLogged'
<1> USE DEF EvidenceInv, RefInv
<1>1. ASSUME NEW c \in Requests, NEW r \in Submission, Execute(c, r)
      PROVE  ApprovalLogged'
  <2>1. PICK call \in Call, t \in Seq(Event) : Settled(c, r, call, t)
    BY <1>1, ExecuteSettles
  <2>2. NoNewApproval /\ decisionLog' = decisionLog
    BY <2>1, ProposalTyped, OthersApproveNothing DEF Settled
  <2> QED  BY <2>2, LoggedIsKept
<1>2. ASSUME NEW c \in Requests, NEW result \in Results, Finish(c, result)
      PROVE  ApprovalLogged'
  <2>1. PICK call \in Call, t \in Seq(Event) : Ended(c, call, t)
    BY <1>2, FinishEnds
  <2>2. NoNewApproval /\ decisionLog' = decisionLog
    BY <2>1, OthersApproveNothing DEF Ended
  <2> QED  BY <2>2, LoggedIsKept
<1>3. ASSUME NEW g \in GrantIds, NEW operator \in Operators,
             PostReject(g, operator)
      PROVE  ApprovalLogged'
  <2>1. NoNewApproval /\ decisionLog \subseteq decisionLog'
    BY <1>3, OthersApproveNothing DEF PostReject, Logged
  <2> QED  BY <2>1, LoggedIsKept
<1>4. ASSUME NEW g \in GrantIds, NEW operator \in Operators,
             PostApprove(g, operator)
      PROVE  ApprovalLogged'
  BY <1>4, ApprovalIsLogged
<1>5. CASE Restart
  BY <1>5 DEF Restart, ClearApprovals, ApprovalLogged
<1>6. ASSUME grants' = grants, decisionLog' = decisionLog
      PROVE  ApprovalLogged'
  BY <1>6, LoggedIsKept, OthersApproveNothing
<1> QED  BY <1>1, <1>2, <1>3, <1>4, <1>5, <1>6
         DEF Next, RegisterTool, SetExecutor, LoadPolicy, PassTime, Tick, vars,
             storeVars

\* The evidence for call c, while it runs.
Evidence(c) ==
    calls[c].pc = "executing" =>
        /\ audit[c] = Preamble
        /\ AuditBackend = "memory" /\ NeededApproval(c) =>
               \E record \in decisionLog :
                   /\ record.type = "APPROVAL_GRANTED"
                   /\ record.hash.actionHash.action = calls[c].action

\* A step that leaves a call and its trail alone, and forgets no decision,
\* leaves its evidence.
LEMMA EvidenceStays ==
    ASSUME NEW c \in Requests, Evidence(c), calls'[c] = calls[c],
           audit'[c] = audit[c], decisionLog \subseteq decisionLog'
    PROVE  Evidence(c)'
BY DEF Evidence, NeededApproval, Preamble, Mark

\* A cleared call that needs approval finds its approval in the log.
LEMMA ClearedIsLogged ==
    ASSUME EvidenceInv, AuditBackend = "memory",
           NEW c \in Requests, NEW r \in Submission, Cleared(c, r),
           DecisionOn(r.tool) = "REQUIRE_APPROVAL"
    PROVE  \E record \in decisionLog :
               /\ record.type = "APPROVAL_GRANTED"
               /\ record.hash.actionHash.action = ActionOf(ProposalOf(c, r))
<1>1. Approved(c, r)
  BY DEF Cleared
<1>2. /\ r.approvalId \in DOMAIN grants
      /\ grants[r.approvalId].status = "approved"
      /\ grants[r.approvalId].actionHash.action = ActionOf(ProposalOf(c, r))
  BY <1>1 DEF Approved, ValidApproval, Redeemable, Stored, HashApprovalAction
<1> QED  BY <1>2 DEF EvidenceInv, ApprovalLogged

\* No step starts or keeps a call running without its evidence.
LEMMA EvidenceKept ==
    ASSUME EvidenceInv, [Next]_vars, NEW c \in Requests
    PROVE  Evidence(c)'
<1>1. /\ RefInv /\ TypeOK /\ Evidence(c)
      /\ calls \in [Requests -> Call] /\ audit \in [Requests -> Seq(Event)]
  BY DEF EvidenceInv, RefInv, EvidenceBeforeEffect, Evidence, TypeOK
<1>2. ASSUME NEW d \in Requests, NEW r \in Submission, Execute(d, r)
      PROVE  Evidence(c)'
  <2>1. PICK call \in Call, t \in Seq(Event) : Settled(d, r, call, t)
    BY <1>1, <1>2, ExecuteSettles
  <2>2. decisionLog' = decisionLog
    BY <2>1 DEF Settled
  <2>3. CASE c # d
    BY <1>1, <2>1, <2>2, <2>3, EvidenceStays DEF Settled
  <2>4. CASE c = d /\ ~call.ran
    BY <1>1, <2>1, <2>4 DEF Settled, Evidence
  <2>5. CASE c = d /\ call.ran
    <3>1. /\ calls'[c] = call /\ audit'[c] = Preamble
          /\ Cleared(c, r)
          /\ call.decision = DecisionOn(r.tool)
          /\ call.action = ActionOf(ProposalOf(c, r))
      BY <1>1, <2>1, <2>5 DEF Settled
    <3>2. AuditBackend = "memory" /\ NeededApproval(c)' =>
              \E record \in decisionLog' :
                  /\ record.type = "APPROVAL_GRANTED"
                  /\ record.hash.actionHash.action = calls'[c].action
      BY <2>2, <3>1, ClearedIsLogged DEF NeededApproval
    <3> QED  BY <3>1, <3>2 DEF Evidence, Preamble, Mark
  <2> QED  BY <2>3, <2>4, <2>5
<1>3. ASSUME NEW d \in Requests, NEW result \in Results, Finish(d, result)
      PROVE  Evidence(c)'
  <2>1. PICK call \in Call, t \in Seq(Event) : Ended(d, call, t)
    BY <1>1, <1>3, FinishEnds
  <2>2. decisionLog' = decisionLog
    BY <2>1 DEF Ended
  <2>3. CASE c # d
    BY <1>1, <2>1, <2>2, <2>3, EvidenceStays DEF Ended
  <2>4. CASE c = d
    BY <1>1, <2>1, <2>4 DEF Ended, Evidence
  <2> QED  BY <2>3, <2>4
<1>4. CASE Restart
  <2>1. calls'[c].pc # "executing"
    <3>1. calls[c] \in Call
      BY <1>1
    <3>2. calls'[c] = IF calls[c].pc = "executing"
                      THEN [calls[c] EXCEPT !.pc = "lost"]
                      ELSE calls[c]
      BY <1>4 DEF Restart
    <3> QED  BY <3>1, <3>2 DEF Call
  <2> QED  BY <2>1 DEF Evidence
<1>5. ASSUME calls' = calls, audit' = audit, decisionLog \subseteq decisionLog'
      PROVE  Evidence(c)'
  BY <1>1, <1>5, EvidenceStays
<1> QED  BY <1>2, <1>3, <1>4, <1>5
         DEF Next, PostApprove, PostReject, Logged, RegisterTool, SetExecutor,
             LoadPolicy, PassTime, vars

\* While an executor runs, the log holds the request and the policy check of
\* its call and, if audit writes cannot fail, an operator's approval of
\* exactly the action it performs.
THEOREM EvidenceFirst == Spec => []EvidenceBeforeEffect
<1>1. Init => ApprovalLogged /\ EvidenceBeforeEffect
  BY DEF Init, StoreInit, ApprovalLogged, EvidenceBeforeEffect, IdleCall
<1>2. RefInv /\ (ApprovalLogged /\ EvidenceBeforeEffect) /\ [Next]_vars =>
          (ApprovalLogged /\ EvidenceBeforeEffect)'
  <2> SUFFICES ASSUME EvidenceInv, [Next]_vars
               PROVE  ApprovalLogged' /\ EvidenceBeforeEffect'
    BY DEF EvidenceInv
  <2>1. ApprovalLogged'
    BY ApprovalsStayLogged
  <2>2. \A c \in Requests : Evidence(c)'
    BY EvidenceKept
  <2> QED  BY <2>1, <2>2 DEF EvidenceBeforeEffect, Evidence
<1> QED  BY <1>1, <1>2, RefinementInvariant, PTL DEF Spec

-----------------------------------------------------------------------------
\* The log tells what the caller was told.

OutcomesIn(trail) ==
    {i \in DOMAIN trail : trail[i].type = "OUTCOME_GENERATED"}

ExecutionsIn(trail) ==
    {i \in DOMAIN trail : trail[i].type \in {"TOOL_EXECUTED", "TOOL_FAILED"}}

ShowsExecution(trail) == ExecutionsIn(trail) # {}

\* The trail ends with the outcome, or has none when the answer is to wait,
\* and an execution has it too.
EndsWith(trail, outcome) ==
    /\ OutcomesIn(trail) =
           IF outcome = WaitingForApproval THEN {} ELSE {Len(trail)}
    /\ \A i \in OutcomesIn(trail) \cup ExecutionsIn(trail) :
           Reports(trail[i].outcome, outcome)

\* What AuditTellsOutcome says of one call.
Tells(c) ==
    calls[c].pc = "returned" /\ audit[c] # <<>> =>
        /\ EndsWith(audit[c], calls[c].outcome)
        /\ calls[c].ran <=> ShowsExecution(audit[c])

\* A call that was not submitted has no trail, and one in the executor has
\* been started and has the preamble on record.
Underway(c) ==
    /\ calls[c].pc = "idle" => audit[c] = <<>>
    /\ calls[c].pc = "executing" => calls[c].ran /\ audit[c] = Preamble

AnswerInv == RefInv /\ \A c \in Requests : Tells(c) /\ Underway(c)

\* Only the answer to wait is that outcome.
LEMMA OthersDoNotWait ==
    /\ PolicyDenied # WaitingForApproval
    /\ ApprovalInvalidated # WaitingForApproval
    /\ PermissionDenied # WaitingForApproval
    /\ \A result : ClassifyOutcome(result) # WaitingForApproval
<1>1. WaitingForApproval.state = "WAITING_FOR_APPROVAL"
  BY DEF WaitingForApproval, MkOutcome
<1>2. /\ PolicyDenied.state = "DENIED"
      /\ ApprovalInvalidated.state = "APPROVAL_INVALIDATED"
      /\ PermissionDenied.state = "DENIED"
  BY DEF PolicyDenied, ApprovalInvalidated, PermissionDenied, MkOutcome
<1>3. \A result : ClassifyOutcome(result).state \in
          {"COMPLETED", "FAILED", "APPROVAL_INVALIDATED"}
  BY <1>2 DEF ClassifyOutcome, FailureOutcome, MkOutcome
<1> QED  BY <1>1, <1>2, <1>3

\* What the log gives back of an outcome reports it.
LEMMA LoggedReports ==
    ASSUME NEW type, NEW outcome \in Outcome
    PROVE  /\ WithOutcome(type, outcome).type = type
           /\ Reports(WithOutcome(type, outcome).outcome, outcome)
<1>1. /\ WithoutAdvice(outcome).state = outcome.state
      /\ WithoutAdvice(outcome).reason = outcome.reason
  BY DEF WithoutAdvice, Outcome
<1>2. CASE AuditBackend = "sqlite"
  BY <1>1, <1>2 DEF WithOutcome, Reports
<1>3. CASE AuditBackend # "sqlite"
  BY <1>3 DEF WithOutcome, Reports
<1> QED  BY <1>2, <1>3

LEMMA GeneratedReports ==
    ASSUME NEW outcome \in Outcome
    PROVE  /\ Generated(outcome).type = "OUTCOME_GENERATED"
           /\ Reports(Generated(outcome).outcome, outcome)
BY LoggedReports DEF Generated

\* The preamble and what may follow it in the first segment.
LEMMA TrailsEndWell ==
    /\ EndsWith(Preamble, WaitingForApproval)
    /\ ~ShowsExecution(Preamble)
    /\ \A outcome \in Outcome :
       \A type \in {"APPROVAL_DENIED", "APPROVAL_INVALIDATED"} :
           LET trail == Preamble \o <<Mark(type), Generated(outcome)>>
           IN  /\ outcome # WaitingForApproval => EndsWith(trail, outcome)
               /\ ~ShowsExecution(trail)
    /\ \A outcome \in Outcome :
           LET trail == Append(Preamble, Generated(outcome))
           IN  /\ outcome # WaitingForApproval => EndsWith(trail, outcome)
               /\ ~ShowsExecution(trail)
    /\ LET trail == Append(Preamble, Mark("APPROVAL_REQUESTED"))
       IN  EndsWith(trail, WaitingForApproval) /\ ~ShowsExecution(trail)
<1>1. Preamble = <<Mark("TOOL_CALL_REQUESTED"), Mark("POLICY_CHECKED")>>
  BY DEF Preamble
<1>2. \A type : Mark(type).type = type
  BY DEF Mark
<1>3. \A outcome \in Outcome :
          /\ Generated(outcome).type = "OUTCOME_GENERATED"
          /\ Reports(Generated(outcome).outcome, outcome)
  BY GeneratedReports
<1>4. EndsWith(Preamble, WaitingForApproval) /\ ~ShowsExecution(Preamble)
  BY <1>1, <1>2 DEF EndsWith, OutcomesIn, ExecutionsIn, ShowsExecution
<1>5. ASSUME NEW outcome \in Outcome,
             NEW type \in {"APPROVAL_DENIED", "APPROVAL_INVALIDATED"}
      PROVE  LET trail == Preamble \o <<Mark(type), Generated(outcome)>>
             IN  /\ outcome # WaitingForApproval => EndsWith(trail, outcome)
                 /\ ~ShowsExecution(trail)
  <2> DEFINE trail == Preamble \o <<Mark(type), Generated(outcome)>>
  <2>1. /\ Len(trail) = 4 /\ DOMAIN trail = 1 .. 4
        /\ trail[1] = Mark("TOOL_CALL_REQUESTED")
        /\ trail[2] = Mark("POLICY_CHECKED")
        /\ trail[3] = Mark(type)
        /\ trail[4] = Generated(outcome)
    BY <1>1
  <2> HIDE DEF trail
  <2>2. OutcomesIn(trail) = {4} /\ ExecutionsIn(trail) = {}
    BY <1>2, <1>3, <2>1 DEF OutcomesIn, ExecutionsIn
  <2>3. /\ outcome # WaitingForApproval => EndsWith(trail, outcome)
        /\ ~ShowsExecution(trail)
    BY <1>3, <2>1, <2>2 DEF EndsWith, ShowsExecution
  <2> QED  BY <2>3 DEF trail
<1>6. ASSUME NEW outcome \in Outcome
      PROVE  LET trail == Append(Preamble, Generated(outcome))
             IN  /\ outcome # WaitingForApproval => EndsWith(trail, outcome)
                 /\ ~ShowsExecution(trail)
  <2> DEFINE trail == Append(Preamble, Generated(outcome))
  <2>1. /\ Len(trail) = 3 /\ DOMAIN trail = 1 .. 3
        /\ trail[1] = Mark("TOOL_CALL_REQUESTED")
        /\ trail[2] = Mark("POLICY_CHECKED")
        /\ trail[3] = Generated(outcome)
    BY <1>1
  <2> HIDE DEF trail
  <2>2. OutcomesIn(trail) = {3} /\ ExecutionsIn(trail) = {}
    BY <1>2, <1>3, <2>1 DEF OutcomesIn, ExecutionsIn
  <2>3. /\ outcome # WaitingForApproval => EndsWith(trail, outcome)
        /\ ~ShowsExecution(trail)
    BY <1>3, <2>1, <2>2 DEF EndsWith, ShowsExecution
  <2> QED  BY <2>3 DEF trail
<1>7. LET trail == Append(Preamble, Mark("APPROVAL_REQUESTED"))
      IN  EndsWith(trail, WaitingForApproval) /\ ~ShowsExecution(trail)
  <2> DEFINE trail == Append(Preamble, Mark("APPROVAL_REQUESTED"))
  <2>1. /\ Len(trail) = 3 /\ DOMAIN trail = 1 .. 3
        /\ trail[1] = Mark("TOOL_CALL_REQUESTED")
        /\ trail[2] = Mark("POLICY_CHECKED")
        /\ trail[3] = Mark("APPROVAL_REQUESTED")
    BY <1>1
  <2> HIDE DEF trail
  <2>2. OutcomesIn(trail) = {} /\ ExecutionsIn(trail) = {}
    BY <1>2, <2>1 DEF OutcomesIn, ExecutionsIn
  <2>3. EndsWith(trail, WaitingForApproval) /\ ~ShowsExecution(trail)
    BY <2>2 DEF EndsWith, ShowsExecution
  <2> QED  BY <2>3 DEF trail
<1> QED  BY <1>4, <1>5, <1>6, <1>7

\* The records of an execution follow the preamble and have its outcome.
LEMMA ExecutionEndsWell ==
    ASSUME NEW result \in Results
    PROVE  LET trail == Preamble \o TrailOf(result)
           IN  /\ EndsWith(trail, ClassifyOutcome(result))
               /\ ShowsExecution(trail)
<1> DEFINE trail == Preamble \o TrailOf(result)
           outcome == ClassifyOutcome(result)
           type == IF result.success THEN "TOOL_EXECUTED" ELSE "TOOL_FAILED"
<1>1. Preamble = <<Mark("TOOL_CALL_REQUESTED"), Mark("POLICY_CHECKED")>>
  BY DEF Preamble
<1>2. TrailOf(result) = <<WithOutcome(type, outcome), Generated(outcome)>>
  BY DEF TrailOf
<1>3. /\ type \in {"TOOL_EXECUTED", "TOOL_FAILED"}
      /\ outcome # WaitingForApproval
      /\ outcome \in Outcome
  BY OthersDoNotWait, ResultTyped
<1> HIDE DEF type, outcome
<1>4. /\ Len(trail) = 4 /\ DOMAIN trail = 1 .. 4
      /\ trail[1] = Mark("TOOL_CALL_REQUESTED")
      /\ trail[2] = Mark("POLICY_CHECKED")
      /\ trail[3] = WithOutcome(type, outcome)
      /\ trail[4] = Generated(outcome)
  BY <1>1, <1>2
<1> HIDE DEF trail
<1>5. \A kind : Mark(kind).type = kind
  BY DEF Mark
<1>6. /\ WithOutcome(type, outcome).type = type
      /\ Reports(WithOutcome(type, outcome).outcome, outcome)
      /\ Generated(outcome).type = "OUTCOME_GENERATED"
      /\ Reports(Generated(outcome).outcome, outcome)
  BY <1>3, LoggedReports, GeneratedReports
<1>7. OutcomesIn(trail) = {4} /\ ExecutionsIn(trail) = {3}
  BY <1>3, <1>4, <1>5, <1>6 DEF OutcomesIn, ExecutionsIn
<1>8. EndsWith(trail, outcome) /\ ShowsExecution(trail)
  BY <1>3, <1>4, <1>6, <1>7 DEF EndsWith, ShowsExecution
<1> QED  BY <1>8 DEF trail, outcome

-----------------------------------------------------------------------------
\* A call that Answer ends is told what its trail ends with.
LEMMA AnswerTells ==
    ASSUME TypeOK, NEW c \in Requests, NEW r \in Submission,
           NEW trail \in Seq(Event), NEW outcome, NEW grantId,
           EndsWith(trail, outcome), ~ShowsExecution(trail),
           Answer(c, r, trail, outcome, grantId)
    PROVE  Tells(c)'
<1>1. PICK n \in Written(trail) :
          /\ audit' = [audit EXCEPT ![c] = SubSeq(trail, 1, n)]
          /\ calls' = [calls EXCEPT ![c] =
                 IF n = Len(trail)
                 THEN SubmittedCall(c, r, "returned", outcome, grantId)
                 ELSE ThrownCall(c, r)]
  BY DEF Answer
<1>2. calls \in [Requests -> Call] /\ audit \in [Requests -> Seq(Event)]
  BY DEF TypeOK
<1>3. CASE n = Len(trail)
  <2>1. /\ audit'[c] = trail
        /\ calls'[c].outcome = outcome
        /\ ~calls'[c].ran
    BY <1>1, <1>2, <1>3, WrittenPrefix DEF SubmittedCall
  <2> QED  BY <2>1 DEF Tells, EndsWith, OutcomesIn, ExecutionsIn,
     ShowsExecution
<1>4. CASE n # Len(trail)
  <2>1. calls'[c].pc = "threw"
    BY <1>1, <1>2, <1>4 DEF ThrownCall, SubmittedCall
  <2> QED  BY <2>1 DEF Tells
<1> QED  BY <1>3, <1>4

\* A request for approval is answered to wait, and its trail says no more.
LEMMA AskTells ==
    ASSUME TypeOK, NEW c \in Requests, NEW r \in Submission,
           NEW g \in GrantIds, AskForApproval(c, r, g)
    PROVE  Tells(c)'
<1> DEFINE trail == Append(Preamble, Mark("APPROVAL_REQUESTED"))
<1>1. trail \in Seq(Event)
  BY TrailsTyped DEF EventTypes
<1>2. EndsWith(trail, WaitingForApproval) /\ ~ShowsExecution(trail)
  BY TrailsEndWell
<1>3. PICK n \in Written(trail) :
          /\ audit' = [audit EXCEPT ![c] = SubSeq(trail, 1, n)]
          /\ calls' = [calls EXCEPT ![c] =
                 IF n = Len(trail)
                 THEN SubmittedCall(c, r, "returned", WaitingForApproval, g)
                 ELSE ThrownCall(c, r)]
  BY DEF AskForApproval
<1> HIDE DEF trail
<1>4. calls \in [Requests -> Call] /\ audit \in [Requests -> Seq(Event)]
  BY DEF TypeOK
<1>5. CASE n = Len(trail)
  <2>1. /\ audit'[c] = trail
        /\ calls'[c].outcome = WaitingForApproval
        /\ ~calls'[c].ran
    BY <1>1, <1>3, <1>4, <1>5, WrittenPrefix DEF SubmittedCall
  <2> QED  BY <1>2, <2>1 DEF Tells, EndsWith, OutcomesIn, ExecutionsIn,
     ShowsExecution
<1>6. CASE n # Len(trail)
  <2>1. calls'[c].pc = "threw"
    BY <1>3, <1>4, <1>6 DEF ThrownCall, SubmittedCall
  <2> QED  BY <2>1 DEF Tells
<1> QED  BY <1>5, <1>6

\* Whatever way the first segment ends, the trail says what the call is told.
LEMMA ExecuteTells ==
    ASSUME AnswerInv, NEW c \in Requests, NEW r \in Submission, Execute(c, r)
    PROVE  Tells(c)'
<1>0. TypeOK /\ Underway(c) /\ calls \in [Requests -> Call]
          /\ audit \in [Requests -> Seq(Event)]
  BY DEF AnswerInv, RefInv, TypeOK
<1>1. CASE RefuseContext(c, r)
  <2>1. audit[c] = <<>> /\ audit' = audit
    BY <1>0, <1>1 DEF RefuseContext, Submitted, Underway
  <2> QED  BY <2>1 DEF Tells
<1>2. CASE DenyCall(c, r)
  <2> DEFINE trail == Append(Preamble, Generated(PolicyDenied))
  <2>1. /\ trail \in Seq(Event)
        /\ EndsWith(trail, PolicyDenied)
        /\ ~ShowsExecution(trail)
    BY TrailsTyped, FixedOutcomesTyped, TrailsEndWell, OthersDoNotWait
  <2> QED  BY <1>0, <1>2, <2>1, AnswerTells DEF DenyCall
<1>3. CASE \E g \in GrantIds : AskForApproval(c, r, g)
  BY <1>0, <1>3, AskTells
<1>4. CASE KeepWaiting(c, r)
  BY <1>0, <1>4, AnswerTells, TrailsTyped, TrailsEndWell DEF KeepWaiting
<1>5. CASE AnswerRejected(c, r)
  <2> DEFINE trail ==
          Preamble \o <<Mark("APPROVAL_DENIED"), Generated(PolicyDenied)>>
  <2>1. /\ trail \in Seq(Event)
        /\ EndsWith(trail, PolicyDenied)
        /\ ~ShowsExecution(trail)
    BY TrailsTyped, FixedOutcomesTyped, TrailsEndWell, OthersDoNotWait
       DEF EventTypes
  <2> QED  BY <1>0, <1>5, <2>1, AnswerTells DEF AnswerRejected
<1>6. CASE AnswerInvalidated(c, r)
  <2> DEFINE trail ==
          Preamble \o <<Mark("APPROVAL_INVALIDATED"),
                        Generated(ApprovalInvalidated)>>
  <2>1. /\ trail \in Seq(Event)
        /\ EndsWith(trail, ApprovalInvalidated)
        /\ ~ShowsExecution(trail)
    BY TrailsTyped, FixedOutcomesTyped, TrailsEndWell, OthersDoNotWait
       DEF EventTypes
  <2> QED  BY <1>0, <1>6, <2>1, AnswerTells DEF AnswerInvalidated
<1>7. CASE FailToHash(c, r)
  <2>1. calls'[c].pc = "threw"
    BY <1>0, <1>7 DEF FailToHash, ThrownCall, SubmittedCall
  <2> QED  BY <2>1 DEF Tells
<1>8. CASE AnswerNoExecutor(c, r)
  <2> DEFINE outcome == ClassifyOutcome(FailedWith("UNKNOWN_FAILURE"))
             trail == Append(Preamble, Generated(outcome))
  <2>1. outcome \in Outcome
    BY FailureTyped DEF ReasonCodes
  <2>2. /\ trail \in Seq(Event)
        /\ EndsWith(trail, outcome)
        /\ ~ShowsExecution(trail)
    BY <2>1, TrailsTyped, TrailsEndWell, OthersDoNotWait
  <2> QED  BY <1>0, <1>8, <2>2, AnswerTells DEF AnswerNoExecutor
<1>9. CASE Invoke(c, r)
  <2>1. calls'[c].pc \in {"executing", "threw"}
    BY <1>0, <1>9 DEF Invoke, ThrownCall, SubmittedCall
  <2> QED  BY <2>1 DEF Tells
<1> QED  BY <1>1, <1>2, <1>3, <1>4, <1>5, <1>6, <1>7, <1>8, <1>9 DEF Execute

\* The second segment completes the trail with what the call is told.
LEMMA FinishTells ==
    ASSUME AnswerInv, NEW c \in Requests, NEW result \in Results,
           Finish(c, result)
    PROVE  Tells(c)'
<1> DEFINE trail == TrailOf(result)
           outcome == ClassifyOutcome(result)
<1>1. /\ Underway(c) /\ calls \in [Requests -> Call]
      /\ audit \in [Requests -> Seq(Event)]
      /\ trail \in Seq(Event)
  BY TrailsTyped DEF AnswerInv, RefInv, TypeOK
<1>2. audit[c] = Preamble /\ calls[c].ran
  BY <1>1 DEF Finish, Underway
<1>3. PICK n \in Written(trail) :
          /\ audit' = [audit EXCEPT ![c] = @ \o SubSeq(trail, 1, n)]
          /\ calls' = [calls EXCEPT
                 ![c].pc = IF n = Len(trail) THEN "returned" ELSE "threw",
                 ![c].outcome = IF n = Len(trail) THEN outcome ELSE None]
  BY DEF Finish
<1>4. EndsWith(Preamble \o trail, outcome) /\ ShowsExecution(Preamble \o trail)
  BY ExecutionEndsWell
<1> HIDE DEF trail, outcome
<1>5. CASE n = Len(trail)
  <2>1. SubSeq(trail, 1, n) = trail
    BY <1>1, <1>5, WrittenPrefix
  <2>2. audit'[c] = Preamble \o trail
    BY <1>1, <1>2, <1>3, <2>1
  <2>3. calls'[c].outcome = outcome /\ calls'[c].ran
    BY <1>1, <1>2, <1>3, <1>5 DEF Call
  <2> QED  BY <1>4, <2>2, <2>3 DEF Tells, EndsWith, OutcomesIn, ExecutionsIn,
     ShowsExecution
<1>6. CASE n # Len(trail)
  <2>1. calls'[c].pc = "threw"
    BY <1>1, <1>3, <1>6 DEF Call
  <2> QED  BY <2>1 DEF Tells
<1> QED  BY <1>5, <1>6

\* A call that a step leaves alone, with its trail, stays as it was told.
LEMMA UntouchedIsTold ==
    ASSUME NEW c \in Requests, Tells(c), Underway(c),
           calls'[c] = calls[c], audit'[c] = audit[c]
    PROVE  Tells(c)' /\ Underway(c)'
BY DEF Tells, Underway, EndsWith, OutcomesIn, ExecutionsIn, ShowsExecution,
       Preamble, Mark

\* No step separates an answer from its trail.
LEMMA AnswerInvKept ==
    ASSUME AnswerInv, [Next]_vars, NEW c \in Requests
    PROVE  Tells(c)' /\ Underway(c)'
<1>1. /\ RefInv /\ TypeOK /\ Tells(c) /\ Underway(c)
      /\ calls \in [Requests -> Call] /\ audit \in [Requests -> Seq(Event)]
  BY DEF AnswerInv, RefInv, TypeOK
<1>2. ASSUME NEW d \in Requests, NEW r \in Submission, Execute(d, r)
      PROVE  Tells(c)' /\ Underway(c)'
  <2>1. PICK call \in Call, t \in Seq(Event) : Settled(d, r, call, t)
    BY <1>1, <1>2, ExecuteSettles
  <2>2. CASE c # d
    BY <1>1, <2>1, <2>2, UntouchedIsTold DEF Settled
  <2>3. CASE c = d
    <3>1. /\ calls'[c] = call /\ audit'[c] = t
          /\ call.pc \in {"executing", "returned", "threw"}
          /\ call.ran <=> call.pc = "executing"
          /\ call.ran => t = Preamble
      BY <1>1, <2>1, <2>3 DEF Settled
    <3>2. Underway(c)'
      BY <3>1 DEF Underway, Preamble, Mark
    <3> QED  BY <1>2, <2>3, <3>2, ExecuteTells
  <2> QED  BY <2>2, <2>3
<1>3. ASSUME NEW d \in Requests, NEW result \in Results, Finish(d, result)
      PROVE  Tells(c)' /\ Underway(c)'
  <2>1. PICK call \in Call, t \in Seq(Event) : Ended(d, call, t)
    BY <1>1, <1>3, FinishEnds
  <2>2. CASE c # d
    BY <1>1, <2>1, <2>2, UntouchedIsTold DEF Ended
  <2>3. CASE c = d
    <3>1. calls'[c].pc \in {"returned", "threw"}
      BY <1>1, <2>1, <2>3 DEF Ended
    <3>2. Underway(c)'
      BY <3>1 DEF Underway
    <3> QED  BY <1>3, <2>3, <3>2, FinishTells
  <2> QED  BY <2>2, <2>3
<1>4. CASE Restart
  <2>1. /\ calls'[c] = IF calls[c].pc = "executing"
                       THEN [calls[c] EXCEPT !.pc = "lost"] ELSE calls[c]
        /\ audit'[c] \in {<<>>, audit[c]}
    BY <1>1, <1>4 DEF Restart
  <2>2. CASE calls[c].pc = "executing"
    <3>1. calls'[c].pc = "lost"
      BY <1>1, <2>1, <2>2 DEF Call
    <3> QED  BY <3>1 DEF Tells, Underway
  <2>3. CASE calls[c].pc # "executing"
    <3>1. calls'[c] = calls[c]
      BY <2>1, <2>3
    <3>2. CASE audit'[c] = <<>>
      BY <2>3, <3>1, <3>2 DEF Tells, Underway
    <3>3. CASE audit'[c] = audit[c]
      BY <1>1, <3>1, <3>3, UntouchedIsTold
    <3> QED  BY <2>1, <3>2, <3>3
  <2> QED  BY <2>2, <2>3
<1>5. ASSUME calls' = calls, audit' = audit
      PROVE  Tells(c)' /\ Underway(c)'
  BY <1>1, <1>5, UntouchedIsTold
<1> QED  BY <1>2, <1>3, <1>4, <1>5
         DEF Next, PostApprove, PostReject, RegisterTool, SetExecutor,
             LoadPolicy, PassTime, vars

\* The invariant that ties each answer to its trail.
THEOREM AnswerInvariant == Spec => []AnswerInv
<1> DEFINE Told == \A c \in Requests : Tells(c) /\ Underway(c)
<1>1. Init => Told
  BY DEF Init, Tells, Underway, IdleCall
<1>2. RefInv /\ Told /\ [Next]_vars => Told'
  BY AnswerInvKept DEF AnswerInv
<1>3. AnswerInv <=> RefInv /\ Told
  BY DEF AnswerInv
<1> HIDE DEF Told
<1> QED  BY <1>1, <1>2, <1>3, RefinementInvariant, PTL DEF Spec

\* An answered call whose trail is still there has exactly one outcome on
\* record, or none when it was told to wait, and its trail shows an execution
\* exactly when its executor was started; either has the state and the reason
\* that the caller was told, and in a log that keeps it the advice as well.
THEOREM LogTellsTheAnswer == Spec => []AuditTellsOutcome
<1>1. ASSUME AnswerInv PROVE AuditTellsOutcome
  BY <1>1 DEF AnswerInv, AuditTellsOutcome, Tells, EndsWith, OutcomesIn,
     ExecutionsIn, OutcomeEvents, Executions, ShowsExecution
<1> QED  BY <1>1, AnswerInvariant, PTL

-----------------------------------------------------------------------------
\* A faithful retry is recognised.

\* Grant g is dead, or is still there and was asked for this action.
StandsFor(g, action) ==
    \/ Dead(g)
    \/ Stored(g) /\ grants[g].actionHash.action = action

\* Grant g is dead, or is still there and was asked for another action.
StandsForAnother(g, action) ==
    \/ Dead(g)
    \/ Stored(g) /\ grants[g].actionHash.action # action

\* What a call that brought no id was given a grant for is what it asked for.
OwnGrant(c) ==
    calls[c].approvalId = None /\ calls[c].grantId # None =>
        /\ calls[c].pc # "idle"
        /\ calls[c].grantId \in issued
        /\ StandsFor(calls[c].grantId, calls[c].action)

\* What a call was told is not its approval is not.
OtherGrant(c) ==
    Invalidated(c) /\ calls[c].approvalId # None =>
        /\ calls[c].approvalId \in issued
        /\ StandsForAnother(calls[c].approvalId, calls[c].action)

\* A credential that names its session has one session.
OneSession(c) ==
    calls[c].pc # "idle" =>
        /\ calls[c].action \in Action
        /\ LET context == calls[c].action.context
           IN  context.principal \in PinnedPrincipals =>
                   context.session = context.principal

InOrder(c) == OwnGrant(c) /\ OtherGrant(c) /\ OneSession(c)

RetryInv == UseInv /\ AnswerInv /\ \A c \in Requests : InOrder(c)

\* No operation of the store changes what a living grant was asked for.
LEMMA GrantsKeepTheirAction ==
    ASSUME StoreInv, [StoreNext]_storeVars, NEW g \in issued, ~Dead(g)'
    PROVE  /\ g \in issued'
           /\ ~Dead(g)
           /\ Stored(g) /\ Stored(g)'
           /\ grants'[g].actionHash = grants[g].actionHash
<1>1. g \in issued' /\ g \in GrantIds
  BY IssuedGrows DEF StoreInv, StoreTypeOK
<1>2. ~Dead(g) /\ Stored(g)'
  BY <1>1, DeadStaysDead DEF Dead
<1>3. Stored(g) /\ grants[g] \in Grant
  BY <1>2 DEF Dead, Stored, StoreInv, StoreTypeOK
<1>4. grants'[g].actionHash = grants[g].actionHash
  <2>1. ASSUME NEW h \in GrantIds, NEW p \in Proposal, RequestApproval(h, p)
        PROVE  grants'[g].actionHash = grants[g].actionHash
    BY <1>3, <2>1 DEF RequestApproval, StoreApproval, Stored
  <2>2. ASSUME NEW h \in GrantIds, NEW operator \in Operators,
               Approve(h, operator)
        PROVE  grants'[g].actionHash = grants[g].actionHash
    BY <1>3, <2>2 DEF Approve, ApproveApproval, Stored, Grant
  <2>3. ASSUME NEW h \in GrantIds, NEW operator \in Operators,
               Reject(h, operator)
        PROVE  grants'[g].actionHash = grants[g].actionHash
    BY <1>3, <2>3 DEF Reject, RejectApproval, Stored, Grant
  <2>4. ASSUME NEW h \in GrantIds, Consume(h)
        PROVE  grants'[g].actionHash = grants[g].actionHash
    BY <1>3, <2>4 DEF Consume, ConsumeApproval, Stored, Grant
  <2>5. CASE Clear
    BY <1>2, <2>5 DEF Clear, ClearApprovals, Stored
  <2>6. CASE Tick
    BY <2>6 DEF Tick
  <2>7. CASE UNCHANGED storeVars
    BY <2>7 DEF storeVars
  <2> QED  BY <2>1, <2>2, <2>3, <2>4, <2>5, <2>6, <2>7 DEF StoreNext
<1> QED  BY <1>1, <1>2, <1>3, <1>4

\* A call that no step touches keeps its relation to its grants.
LEMMA UntouchedKeepsGrants ==
    ASSUME TypeOK, StoreInv, [Next]_vars, NEW c \in Requests,
           InOrder(c),
           \/ calls'[c] = calls[c]
           \/ /\ calls'[c].pc \in {"lost", "threw"}
              /\ calls[c].pc # "idle"
              /\ calls'[c].action = calls[c].action
              /\ calls'[c].approvalId = calls[c].approvalId
              /\ calls'[c].grantId = calls[c].grantId
    PROVE  InOrder(c)'
<1>1. [StoreNext]_storeVars
  BY StepIsStoreStep
<1>2. ASSUME NEW g \in issued, NEW action, StandsFor(g, action)
      PROVE  g \in issued' /\ StandsFor(g, action)'
  BY <1>1, <1>2, IssuedGrows, GrantsKeepTheirAction DEF StandsFor
<1>3. ASSUME NEW g \in issued, NEW action, StandsForAnother(g, action)
      PROVE  g \in issued' /\ StandsForAnother(g, action)'
  BY <1>1, <1>3, IssuedGrows, GrantsKeepTheirAction DEF StandsForAnother
<1>4. OwnGrant(c)'
  BY <1>2 DEF InOrder, OwnGrant
<1>5. OtherGrant(c)'
  BY <1>3 DEF InOrder, OtherGrant, Invalidated
<1>6. OneSession(c)'
  BY DEF InOrder, OneSession
<1> QED  BY <1>4, <1>5, <1>6 DEF InOrder

\* A first submission is given a grant for what it proposes.
LEMMA AskOwnsGrant ==
    ASSUME TypeOK, NEW c \in Requests, NEW r \in Submission,
           NEW g \in GrantIds, AskForApproval(c, r, g),
           calls'[c].grantId # None
    PROVE  /\ calls'[c].grantId = g
           /\ g \in issued' /\ Stored(g)'
           /\ grants'[g].actionHash.action = calls'[c].action
<1> DEFINE trail == Append(Preamble, Mark("APPROVAL_REQUESTED"))
           p == ProposalOf(c, r)
<1>1. PICK n \in Written(trail) :
        /\ calls' = [calls EXCEPT ![c] =
               IF n = Len(trail)
               THEN SubmittedCall(c, r, "returned", WaitingForApproval, g)
               ELSE ThrownCall(c, r)]
        /\ IF n >= Len(Preamble) THEN StoreApproval(g, p, now + TTL)
           ELSE UNCHANGED <<grants, issued>>
  BY DEF AskForApproval
<1>2. Len(trail) = 3 /\ Len(Preamble) = 2
  <2>1. Preamble = <<Mark("TOOL_CALL_REQUESTED"), Mark("POLICY_CHECKED")>>
    BY DEF Preamble
  <2> QED  BY <2>1
<1> HIDE DEF trail
<1>3. calls \in [Requests -> Call]
  BY DEF TypeOK
<1>4. n = Len(trail)
  BY <1>1, <1>3 DEF ThrownCall, SubmittedCall
<1>5. calls'[c].grantId = g /\ calls'[c].action = ActionOf(p)
  BY <1>1, <1>3, <1>4 DEF SubmittedCall
<1>6. StoreApproval(g, p, now + TTL)
  BY <1>1, <1>2, <1>4
<1> HIDE DEF p
<1>7. /\ g \in issued' /\ g \in DOMAIN grants'
      /\ grants'[g] = PendingGrant(p, now + TTL)
  BY <1>6 DEF StoreApproval
<1>8. grants'[g].actionHash.action = ActionOf(p)
  BY <1>7 DEF PendingGrant, HashApprovalAction
<1> QED  BY <1>5, <1>7, <1>8 DEF Stored

\* What Answer tells a call that it ends.
LEMMA AnswerSays ==
    ASSUME TypeOK, NEW c \in Requests, NEW r \in Submission,
           NEW trail, NEW outcome, NEW grantId,
           Answer(c, r, trail, outcome, grantId)
    PROVE  /\ calls'[c].pc = "returned" => calls'[c].outcome = outcome
           /\ calls'[c].grantId \in {None, grantId}
           /\ UNCHANGED storeVars
<1>1. calls \in [Requests -> Call]
  BY DEF TypeOK
<1>2. \/ calls'[c] = SubmittedCall(c, r, "returned", outcome, grantId)
      \/ calls'[c] = ThrownCall(c, r)
  BY <1>1 DEF Answer
<1> QED  BY <1>2 DEF Answer, SubmittedCall, ThrownCall

\* Only a request for approval gives a call an id it did not come with.
LEMMA OnlyAskGivesGrants ==
    ASSUME TypeOK, NEW c \in Requests, NEW r \in Submission, Execute(c, r),
           ~ \E g \in GrantIds : AskForApproval(c, r, g)
    PROVE  calls'[c].grantId \in {None, r.approvalId}
<1>1. calls \in [Requests -> Call]
  BY DEF TypeOK
<1>2. CASE RefuseContext(c, r)
  BY <1>1, <1>2 DEF RefuseContext, SubmittedCall
<1>3. CASE FailToHash(c, r)
  BY <1>1, <1>3 DEF FailToHash, ThrownCall, SubmittedCall
<1>4. CASE Invoke(c, r)
  BY <1>1, <1>4 DEF Invoke, ThrownCall, SubmittedCall
<1>5. CASE \/ DenyCall(c, r) \/ KeepWaiting(c, r) \/ AnswerRejected(c, r)
           \/ AnswerInvalidated(c, r) \/ AnswerNoExecutor(c, r)
  BY <1>5, AnswerSays DEF DenyCall, KeepWaiting, AnswerRejected,
     AnswerInvalidated, AnswerNoExecutor
<1> QED  BY <1>2, <1>3, <1>4, <1>5 DEF Execute

\* Only a failed check makes the first segment call an approval invalid.
LEMMA InvalidatedByCheck ==
    ASSUME TypeOK, NEW c \in Requests, NEW r \in Submission, Execute(c, r),
           calls'[c].pc = "returned",
           calls'[c].outcome.state = "APPROVAL_INVALIDATED"
    PROVE  AnswerInvalidated(c, r) /\ UNCHANGED storeVars
<1>1. calls \in [Requests -> Call]
  BY DEF TypeOK
<1>2. /\ PermissionDenied.state = "DENIED" /\ PolicyDenied.state = "DENIED"
      /\ WaitingForApproval.state = "WAITING_FOR_APPROVAL"
      /\ ClassifyOutcome(FailedWith("UNKNOWN_FAILURE")).state = "FAILED"
  BY DEF PermissionDenied, PolicyDenied, WaitingForApproval, ClassifyOutcome,
     FailedWith, FailureOutcome, MkOutcome
<1>3. CASE RefuseContext(c, r)
  <2>1. calls'[c].outcome = PermissionDenied
    BY <1>1, <1>3 DEF RefuseContext, SubmittedCall
  <2> QED  BY <1>2, <2>1
<1>4. CASE DenyCall(c, r) \/ AnswerRejected(c, r)
  <2>1. calls'[c].outcome = PolicyDenied
    BY <1>4, AnswerSays DEF DenyCall, AnswerRejected
  <2> QED  BY <1>2, <2>1
<1>5. CASE \E g \in GrantIds : AskForApproval(c, r, g)
  <2>1. \/ calls'[c].outcome = WaitingForApproval
        \/ calls'[c].pc = "threw"
    BY <1>1, <1>5 DEF AskForApproval, SubmittedCall, ThrownCall
  <2> QED  BY <1>2, <2>1
<1>6. CASE KeepWaiting(c, r)
  <2>1. calls'[c].outcome = WaitingForApproval
    BY <1>6, AnswerSays DEF KeepWaiting
  <2> QED  BY <1>2, <2>1
<1>7. CASE FailToHash(c, r) \/ Invoke(c, r)
  <2>1. calls'[c].pc \in {"threw", "executing"}
    BY <1>1, <1>7 DEF FailToHash, Invoke, ThrownCall, SubmittedCall
  <2> QED  BY <2>1
<1>8. CASE AnswerNoExecutor(c, r)
  <2>1. calls'[c].outcome = ClassifyOutcome(FailedWith("UNKNOWN_FAILURE"))
    BY <1>8, AnswerSays DEF AnswerNoExecutor
  <2> QED  BY <1>2, <2>1
<1>9. CASE AnswerInvalidated(c, r)
  BY <1>9, AnswerSays DEF AnswerInvalidated
<1> QED  BY <1>3, <1>4, <1>5, <1>6, <1>7, <1>8, <1>9 DEF Execute

\* A grant that fails the check of a call is dead or for another action.
LEMMA CheckFailsForCause ==
    ASSUME StoreInv, NEW c \in Requests, NEW r \in Submission,
           AnswerInvalidated(c, r), r.approvalId \in issued
    PROVE  StandsForAnother(r.approvalId, ActionOf(ProposalOf(c, r)))
<1> DEFINE g == r.approvalId
           action == ActionOf(ProposalOf(c, r))
<1> SUFFICES ASSUME ~Dead(g)
             PROVE  Stored(g) /\ grants[g].actionHash.action # action
  BY DEF StandsForAnother
<1>1. /\ Stored(g) /\ ~grants[g].used /\ ~Expired(g)
      /\ grants[g].status # "rejected"
  BY DEF Dead
<1>2. grants[g] \in Grant
  BY <1>1 DEF Stored, StoreInv, StoreTypeOK
<1>3. grants[g].status = "approved"
  BY <1>1, <1>2 DEF AnswerInvalidated, StillPending, Grant
<1>4. Redeemable(g)
  BY <1>1, <1>3 DEF Redeemable
<1>5. ~ValidApproval(g, ProposalOf(c, r))
  BY <1>4 DEF AnswerInvalidated, CannotBeHashed, Approved
<1>6. /\ BoundToApprover(grants[g])
      /\ grants[g].actionHash.expiresAt = grants[g].expiresAt
  BY <1>1, <1>3 DEF StoreInv, ExclusiveDecision, ApprovedInTime, Stored
<1>7. grants[g].actionHash #
          HashApprovalAction(ProposalOf(c, r), grants[g].expiresAt)
  BY <1>4, <1>5, <1>6 DEF ValidApproval
<1>8. grants[g].actionHash \in ActionHash
  BY <1>2 DEF Grant
<1>9. grants[g].actionHash.action # action
  BY <1>6, <1>7, <1>8 DEF HashApprovalAction, ActionHash
<1> QED  BY <1>1, <1>9

\* A submission is in order with the grant it gets or comes with.
LEMMA SubmissionKeepsGrants ==
    ASSUME UseInv, NEW c \in Requests, NEW r \in Submission, Execute(c, r)
    PROVE  InOrder(c)'
<1>1. TypeOK /\ StoreInv /\ calls \in [Requests -> Call]
  BY DEF UseInv, RefInv, TypeOK
<1>2. PICK call \in Call, t \in Seq(Event) : Settled(c, r, call, t)
  BY <1>1, ExecuteSettles
<1>3. /\ calls'[c].pc # "idle"
      /\ calls'[c].action = ActionOf(ProposalOf(c, r))
      /\ calls'[c].approvalId = r.approvalId
  BY <1>1, <1>2 DEF Settled
<1>4. OwnGrant(c)'
  <2> SUFFICES ASSUME r.approvalId = None, calls'[c].grantId # None
               PROVE  /\ calls'[c].grantId \in issued'
                      /\ StandsFor(calls[c].grantId, calls[c].action)'
    BY <1>3 DEF OwnGrant
  <2>1. PICK g \in GrantIds : AskForApproval(c, r, g)
    BY <1>1, OnlyAskGivesGrants
  <2>2. /\ calls'[c].grantId = g
        /\ g \in issued' /\ g \in DOMAIN grants'
        /\ grants'[g].actionHash.action = calls'[c].action
    BY <1>1, <2>1, AskOwnsGrant DEF Stored
  <2> QED  BY <2>2 DEF StandsFor, Stored
<1>5. OtherGrant(c)'
  <2> SUFFICES ASSUME Invalidated(c)', r.approvalId # None
               PROVE  /\ r.approvalId \in issued'
                      /\ StandsForAnother(calls[c].approvalId,
                                          calls[c].action)'
    BY <1>3 DEF OtherGrant
  <2>1. AnswerInvalidated(c, r) /\ UNCHANGED storeVars
    BY <1>1, InvalidatedByCheck DEF Invalidated
  <2>2. r.approvalId \in issued
    BY SubmittedId
  <2>3. StandsForAnother(r.approvalId, ActionOf(ProposalOf(c, r)))
    BY <1>1, <2>1, <2>2, CheckFailsForCause
  <2> QED  BY <1>3, <2>1, <2>2, <2>3
           DEF StandsForAnother, Dead, Stored, Expired, storeVars
<1>6. OneSession(c)'
  <2>1. ActionOf(ProposalOf(c, r)) \in Action
    BY <1>1, ProposalTyped
  <2>2. LET context == ActionOf(ProposalOf(c, r)).context
        IN  context.principal \in PinnedPrincipals =>
                context.session = context.principal
    BY DEF ActionOf, ProposalOf, AuthorityRelevantContext, ContextFor
  <2> QED  BY <1>3, <2>1, <2>2 DEF OneSession
<1> QED  BY <1>4, <1>5, <1>6 DEF InOrder

\* A call that ends keeps its grant, and one that ran has used it up.
LEMMA FinishKeepsGrants ==
    ASSUME UseInv, [Next]_vars, NEW c \in Requests, NEW result \in Results,
           Finish(c, result), InOrder(c), calls[c].ran
    PROVE  InOrder(c)'
<1>1. TypeOK /\ StoreInv /\ calls \in [Requests -> Call]
  BY DEF UseInv, RefInv, TypeOK
<1>2. calls[c] \in Call /\ calls[c].pc = "executing"
  BY <1>1 DEF Finish
<1>3. /\ calls'[c].pc \in {"returned", "threw"}
      /\ calls'[c].ran
      /\ calls'[c].action = calls[c].action
      /\ calls'[c].approvalId = calls[c].approvalId
      /\ calls'[c].grantId = calls[c].grantId
  BY <1>1, <1>2 DEF Finish, Call
<1>4. [StoreNext]_storeVars
  BY <1>1, StepIsStoreStep
<1>5. OwnGrant(c)'
  <2>1. ASSUME NEW g \in issued, NEW action, StandsFor(g, action)
        PROVE  g \in issued' /\ StandsFor(g, action)'
    BY <1>1, <1>4, <2>1, IssuedGrows, GrantsKeepTheirAction DEF StandsFor
  <2> QED  BY <1>3, <2>1 DEF InOrder, OwnGrant
<1>6. OtherGrant(c)'
  <2>1. KnownIds' /\ SpentIsDead'
    BY UseInvKept
  <2> QED  BY <1>3, <2>1
           DEF OtherGrant, Invalidated, KnownIds, SpentIsDead, StandsForAnother
<1>7. OneSession(c)'
  BY <1>2, <1>3 DEF InOrder, OneSession
<1> QED  BY <1>5, <1>6, <1>7 DEF InOrder

\* No step confuses a call's grant with another.
LEMMA RetryInvKept ==
    ASSUME RetryInv, [Next]_vars, NEW c \in Requests
    PROVE  InOrder(c)'
<1>1. /\ UseInv /\ TypeOK /\ StoreInv /\ InOrder(c)
      /\ calls \in [Requests -> Call]
  BY DEF RetryInv, UseInv, RefInv, TypeOK
<1>2. ASSUME calls'[c] = calls[c] PROVE InOrder(c)'
  BY <1>1, <1>2, UntouchedKeepsGrants
<1>3. ASSUME NEW d \in Requests, NEW r \in Submission, Execute(d, r)
      PROVE  InOrder(c)'
  <2>1. PICK call \in Call, t \in Seq(Event) : Settled(d, r, call, t)
    BY <1>1, <1>3, ExecuteSettles
  <2>2. CASE c = d
    BY <1>1, <1>3, <2>2, SubmissionKeepsGrants
  <2>3. CASE c # d
    BY <1>1, <1>2, <2>1, <2>3 DEF Settled
  <2> QED  BY <2>2, <2>3
<1>4. ASSUME NEW d \in Requests, NEW result \in Results, Finish(d, result)
      PROVE  InOrder(c)'
  <2>1. PICK call \in Call, t \in Seq(Event) : Ended(d, call, t)
    BY <1>1, <1>4, FinishEnds
  <2>2. CASE c = d
    <3>1. calls[c].ran
      BY <1>4, <2>2 DEF RetryInv, AnswerInv, Underway, Finish
    <3> QED  BY <1>1, <1>4, <2>2, <3>1, FinishKeepsGrants
  <2>3. CASE c # d
    BY <1>1, <1>2, <2>1, <2>3 DEF Ended
  <2> QED  BY <2>2, <2>3
<1>5. CASE Restart
  <2>1. calls'[c] = IF calls[c].pc = "executing"
                    THEN [calls[c] EXCEPT !.pc = "lost"] ELSE calls[c]
    BY <1>5 DEF Restart
  <2>2. CASE calls[c].pc = "executing"
    <3>1. /\ calls'[c].pc = "lost" /\ calls[c].pc # "idle"
          /\ calls'[c].action = calls[c].action
          /\ calls'[c].approvalId = calls[c].approvalId
          /\ calls'[c].grantId = calls[c].grantId
      BY <1>1, <2>1, <2>2 DEF Call
    <3> QED  BY <1>1, <3>1, UntouchedKeepsGrants
  <2> QED  BY <1>2, <2>1, <2>2
<1>6. ASSUME calls' = calls PROVE InOrder(c)'
  BY <1>2, <1>6
<1> QED  BY <1>3, <1>4, <1>5, <1>6
         DEF Next, PostApprove, PostReject, RegisterTool, SetExecutor,
             LoadPolicy, PassTime, vars

\* The invariant that ties each call to the grants it knows.
THEOREM RetryInvariant == Spec => []RetryInv
<1> DEFINE Ordered == \A c \in Requests : InOrder(c)
<1>1. Init => Ordered
  BY DEF Init, InOrder, OwnGrant, OtherGrant, OneSession, Invalidated,
         IdleCall
<1>2. UseInv /\ AnswerInv /\ Ordered /\ [Next]_vars => Ordered'
  BY RetryInvKept DEF RetryInv
<1>3. RetryInv <=> UseInv /\ AnswerInv /\ Ordered
  BY DEF RetryInv
<1> HIDE DEF Ordered
<1> QED  BY <1>1, <1>2, <1>3, UseInvariant, AnswerInvariant, PTL DEF Spec

\* Two actions of one credential that agree on every field a retry repeats
\* are the same action.
LEMMA SameAgain ==
    ASSUME NEW c \in Requests, NEW d \in Requests, InOrder(c), InOrder(d),
           calls[c].pc # "idle", calls[d].pc # "idle", Resubmits(c, d),
           calls[c].action.context.principal \in PinnedPrincipals
    PROVE  calls[c].action = calls[d].action
<1> DEFINE a == calls[c].action
           b == calls[d].action
<1>1. /\ a.server = b.server /\ a.tool = b.tool
      /\ a.arguments = b.arguments
      /\ a.context.principal = b.context.principal
      /\ a.context.actionId = b.context.actionId
  BY DEF Resubmits
<1>2. a \in Action /\ b \in Action /\ a.context.session = b.context.session
  BY <1>1 DEF InOrder, OneSession
<1> HIDE DEF a, b
<1>3. a.context = b.context
  BY <1>1, <1>2 DEF Action, StableContext
<1>4. a = b
  BY <1>1, <1>2, <1>3 DEF Action
<1> QED  BY <1>4 DEF a, b

\* A faithful retry is never mistaken for a different action: whoever
\* resubmits, under a credential whose profile names its session, the call it
\* was given a grant for is told that the approval is invalid only if the
\* grant is really dead.
THEOREM RetriesAreRecognised == Spec => []RetryIsRecognised
<1>1. ASSUME RetryInv, NEW c \in Requests, NEW d \in Requests,
             Invalidated(c), Resubmits(c, d),
             calls[c].action.context.principal \in PinnedPrincipals
      PROVE  Dead(calls[c].approvalId)
  <2>1. InOrder(c) /\ InOrder(d)
    BY <1>1 DEF RetryInv
  <2>2. /\ calls[d].pc # "idle"
        /\ StandsFor(calls[c].approvalId, calls[d].action)
    BY <1>1, <2>1 DEF InOrder, OwnGrant, Resubmits
  <2>3. calls[c].approvalId # None /\ calls[c].pc # "idle"
    BY <1>1 DEF Resubmits, Invalidated
  <2>4. StandsForAnother(calls[c].approvalId, calls[c].action)
    BY <1>1, <2>1, <2>3 DEF InOrder, OtherGrant
  <2>5. calls[c].action = calls[d].action
    BY <1>1, <2>1, <2>2, <2>3, SameAgain
  <2> QED  BY <2>2, <2>4, <2>5 DEF StandsFor, StandsForAnother
<1>2. RetryInv => RetryIsRecognised
  BY <1>1 DEF RetryIsRecognised
<1> QED  BY <1>2, RetryInvariant, PTL
=============================================================================
