---------------------------- MODULE GatewayProofs ----------------------------
(***************************************************************************)
(* Theorems about the approval store and the gateway, for every set of     *)
(* agents, operators, ids, tools, policies and proposals, every TTL and    *)
(* both audit backends. The store invariant StoreInv is inductive as it    *)
(* stands: each operation is proved to preserve it. Then the gateway: its  *)
(* type invariant, that it uses the store as the store's specification     *)
(* says, and that it implements ApprovalAuthority. Every store operation   *)
(* opens, grants, refuses or closes mandates (or changes none), and only   *)
(* the start of an executor adds an effect.                                *)
(***************************************************************************)
EXTENDS Gateway, SequenceTheorems, TLAPS

USE StoreAssumption, NoneAssumption

\* A well-formed proposal has a well-formed hash at every expiry.
LEMMA HashTyped ==
    ASSUME NEW p \in Proposal, NEW e \in Nat
    PROVE  HashApprovalAction(p, e) \in ActionHash
BY DEF HashApprovalAction, ActionOf, AuthorityRelevantContext, ActionHash,
       Action, StableContext, Proposal, Context

\* A fresh grant is well formed.
LEMMA PendingGrantTyped ==
    ASSUME NEW p \in Proposal, NEW e \in Nat
    PROVE  PendingGrant(p, e) \in Grant
BY HashTyped DEF PendingGrant, Grant, NoTime

\* What the store relies on: well-formed grants, and for each of them the
\* relation between status, deciders, binding and expiry.
StoreInv == StoreTypeOK /\ ExclusiveDecision /\ ApprovedInTime

-----------------------------------------------------------------------------
\* The store starts empty.
LEMMA InitStoreInv == StoreInit => StoreInv
BY DEF StoreInit, StoreInv, StoreTypeOK, ExclusiveDecision, ApprovedInTime

\* Storing a fresh pending grant keeps the invariant.
LEMMA StoreKeepsInv ==
    ASSUME StoreInv, NEW g \in GrantIds, NEW p \in Proposal, NEW e \in Nat,
           StoreApproval(g, p, e), UNCHANGED now
    PROVE  StoreInv'
<1> DEFINE new == PendingGrant(p, e)
<1>1. new \in Grant
  BY PendingGrantTyped
<1>2. /\ DOMAIN grants' = DOMAIN grants \cup {g}
      /\ g \notin DOMAIN grants
      /\ grants'[g] = new
      /\ \A h \in DOMAIN grants : grants'[h] = grants[h]
  BY DEF StoreApproval, StoreInv, StoreTypeOK
<1>3. StoreTypeOK'
  BY <1>1, <1>2 DEF StoreApproval, StoreInv, StoreTypeOK
<1>4. /\ new.status = "pending"
      /\ new.approvedBy = None
      /\ new.rejectedBy = None
      /\ new.actionHash.expiresAt = new.expiresAt
  BY DEF PendingGrant, HashApprovalAction
<1>5. ExclusiveDecision'
  BY <1>2, <1>4 DEF StoreInv, ExclusiveDecision, BoundToApprover
<1>6. ApprovedInTime'
  BY <1>2, <1>4 DEF StoreInv, ApprovedInTime
<1> QED  BY <1>3, <1>5, <1>6 DEF StoreInv

\* An approval keeps the invariant: it is refused to rejected and to expired
\* grants.
LEMMA ApproveKeepsInv ==
    ASSUME StoreInv, NEW g \in GrantIds, NEW operator \in Operators,
           ApproveApproval(g, operator), UNCHANGED now
    PROVE  StoreInv'
<1> DEFINE old == grants[g]
           hash == HashApprovalBinding(old.actionHash, operator)
           new == grants'[g]
<1>1. /\ g \in DOMAIN grants
      /\ old \in Grant
      /\ old.status # "rejected"
      /\ ~(old.expiresAt <= now)
  BY DEF ApproveApproval, Approvable, Stored, Expired, StoreInv, StoreTypeOK
<1>2. /\ new = [old EXCEPT !.status = "approved", !.approvedBy = operator,
                           !.approvedAt = now, !.bindingHash = hash]
      /\ DOMAIN grants' = DOMAIN grants
      /\ \A h \in DOMAIN grants : h # g => grants'[h] = grants[h]
      /\ grants' \in [DOMAIN grants -> {grants'[h] : h \in DOMAIN grants}]
  <2>1. grants' = [grants EXCEPT ![g] =
                      [old EXCEPT !.status = "approved",
                                  !.approvedBy = operator,
                                  !.approvedAt = now, !.bindingHash = hash]]
    BY <1>1 DEF ApproveApproval, Grant
  <2>2. grants \in [DOMAIN grants -> Grant]
    BY DEF StoreInv, StoreTypeOK
  <2> QED  BY <1>1, <2>1, <2>2
<1>3. hash \in BindingHash
  BY <1>1 DEF HashApprovalBinding, BindingHash, Grant
<1>4. /\ new \in Grant
      /\ new.status = "approved"
      /\ new.approvedBy = operator
      /\ new.approvedAt = now
      /\ new.bindingHash = hash
      /\ new.expiresAt = old.expiresAt
      /\ new.actionHash = old.actionHash
      /\ new.rejectedBy = old.rejectedBy
  BY <1>1, <1>2, <1>3 DEF Grant, StoreInv, StoreTypeOK
<1> HIDE DEF new, hash
<1>5. StoreTypeOK'
  BY <1>1, <1>2, <1>4 DEF ApproveApproval, StoreInv, StoreTypeOK, new
<1>6. ExclusiveDecision'
  <2>1. old.rejectedBy = None
    BY <1>1 DEF StoreInv, ExclusiveDecision
  <2>2. new.status = "approved" /\ BoundToApprover(new) /\ new.rejectedBy = None
    BY <1>3, <1>4, <2>1 DEF BoundToApprover, hash
  <2>3. new.approvedBy # None
    BY <1>4
  <2>4. \A h \in DOMAIN grants : h # g =>
           (BoundToApprover(grants'[h]) <=> BoundToApprover(grants[h]))
    BY <1>2
  <2> QED  BY <1>1, <1>2, <2>2, <2>3, <2>4 DEF StoreInv, ExclusiveDecision, new
<1>7. ApprovedInTime'
  <2>1. /\ new.actionHash.expiresAt = new.expiresAt
        /\ new.approvedAt \in 0 .. new.expiresAt - 1
    BY <1>1, <1>4 DEF StoreInv, StoreTypeOK, ApprovedInTime, Grant
  <2> QED  BY <1>2, <2>1 DEF StoreInv, ApprovedInTime, new
<1> QED  BY <1>5, <1>6, <1>7 DEF StoreInv

\* A rejection keeps the invariant: it is refused to approved grants.
LEMMA RejectKeepsInv ==
    ASSUME StoreInv, NEW g \in GrantIds, NEW operator \in Operators,
           RejectApproval(g, operator), UNCHANGED now
    PROVE  StoreInv'
<1> DEFINE old == grants[g]
           new == grants'[g]
<1>1. /\ g \in DOMAIN grants
      /\ old \in Grant
      /\ old.status # "approved"
  BY DEF RejectApproval, Rejectable, Stored, StoreInv, StoreTypeOK
<1>2. /\ new = [old EXCEPT !.status = "rejected", !.rejectedBy = operator]
      /\ DOMAIN grants' = DOMAIN grants
      /\ \A h \in DOMAIN grants : h # g => grants'[h] = grants[h]
      /\ grants' \in [DOMAIN grants -> {grants'[h] : h \in DOMAIN grants}]
  <2>1. grants' = [grants EXCEPT ![g] =
                      [old EXCEPT !.status = "rejected",
                                  !.rejectedBy = operator]]
    BY <1>1 DEF RejectApproval, Grant
  <2>2. grants \in [DOMAIN grants -> Grant]
    BY DEF StoreInv, StoreTypeOK
  <2> QED  BY <1>1, <2>1, <2>2
<1>3. /\ new \in Grant
      /\ new.status = "rejected"
      /\ new.rejectedBy = operator
      /\ new.approvedBy = old.approvedBy
      /\ new.bindingHash = old.bindingHash
      /\ new.expiresAt = old.expiresAt
      /\ new.actionHash = old.actionHash
  BY <1>1, <1>2 DEF Grant
<1> HIDE DEF new
<1>4. StoreTypeOK'
  BY <1>1, <1>2, <1>3 DEF RejectApproval, StoreInv, StoreTypeOK, new
<1>5. ExclusiveDecision'
  <2>1. old.approvedBy = None
    BY <1>1 DEF StoreInv, ExclusiveDecision
  <2>2. operator # None
    OBVIOUS
  <2>3. \A h \in DOMAIN grants : h # g =>
           (BoundToApprover(grants'[h]) <=> BoundToApprover(grants[h]))
    BY <1>2
  <2> QED  BY <1>1, <1>2, <1>3, <2>1, <2>2, <2>3
           DEF StoreInv, ExclusiveDecision, new
<1>6. ApprovedInTime'
  <2>1. new.actionHash.expiresAt = new.expiresAt
    BY <1>1, <1>3 DEF StoreInv, ApprovedInTime
  <2>2. new.status # "approved"
    BY <1>3
  <2> QED  BY <1>1, <1>2, <2>1, <2>2 DEF StoreInv, ApprovedInTime, new
<1> QED  BY <1>4, <1>5, <1>6 DEF StoreInv

\* Consumption keeps the invariant: it touches nothing but the used flag.
LEMMA ConsumeKeepsInv ==
    ASSUME StoreInv, NEW g, ConsumeApproval(g), UNCHANGED now
    PROVE  StoreInv'
<1>1. /\ DOMAIN grants' = DOMAIN grants
      /\ grants' \in [DOMAIN grants -> {grants'[h] : h \in DOMAIN grants}]
      /\ \A h \in DOMAIN grants :
             /\ grants[h] \in Grant
             /\ grants'[h] = IF h = g THEN [grants[h] EXCEPT !.used = TRUE]
                             ELSE grants[h]
  BY DEF ConsumeApproval, StoreInv, StoreTypeOK
<1>2. ASSUME NEW h \in DOMAIN grants
      PROVE  /\ grants'[h] \in Grant
             /\ grants'[h].actionHash = grants[h].actionHash
             /\ grants'[h].expiresAt = grants[h].expiresAt
             /\ grants'[h].status = grants[h].status
             /\ grants'[h].approvedBy = grants[h].approvedBy
             /\ grants'[h].approvedAt = grants[h].approvedAt
             /\ grants'[h].bindingHash = grants[h].bindingHash
             /\ grants'[h].rejectedBy = grants[h].rejectedBy
  <2> DEFINE old == grants[h]
  <2>1. old \in Grant
    BY <1>1
  <2>2. grants'[h] = old \/ grants'[h] = [old EXCEPT !.used = TRUE]
    BY <1>1
  <2> HIDE DEF old
  <2>3. LET new == [old EXCEPT !.used = TRUE]
        IN  /\ new \in Grant
            /\ new.actionHash = old.actionHash
            /\ new.expiresAt = old.expiresAt
            /\ new.status = old.status
            /\ new.approvedBy = old.approvedBy
            /\ new.approvedAt = old.approvedAt
            /\ new.bindingHash = old.bindingHash
            /\ new.rejectedBy = old.rejectedBy
    BY <2>1 DEF Grant
  <2> QED  BY <2>1, <2>2, <2>3 DEF old
<1>3. StoreTypeOK'
  BY <1>1, <1>2 DEF ConsumeApproval, StoreInv, StoreTypeOK
<1>4. ExclusiveDecision'
  BY <1>1, <1>2 DEF StoreInv, ExclusiveDecision, BoundToApprover
<1>5. ApprovedInTime'
  BY <1>1, <1>2 DEF StoreInv, ApprovedInTime
<1> QED  BY <1>3, <1>4, <1>5 DEF StoreInv

\* An empty map satisfies the invariant.
LEMMA ClearKeepsInv ==
    ASSUME StoreInv, ClearApprovals, UNCHANGED now
    PROVE  StoreInv'
BY DEF ClearApprovals, StoreInv, StoreTypeOK, ExclusiveDecision, ApprovedInTime

\* No conjunct but the type of the clock speaks of the time.
LEMMA TickKeepsInv ==
    ASSUME StoreInv, Tick
    PROVE  StoreInv'
BY DEF Tick, StoreInv, StoreTypeOK, ExclusiveDecision, ApprovedInTime,
       BoundToApprover

-----------------------------------------------------------------------------
\* Every operation of the store preserves the invariant.
LEMMA StoreNextKeepsInv == StoreInv /\ [StoreNext]_storeVars => StoreInv'
<1> SUFFICES ASSUME StoreInv, [StoreNext]_storeVars
             PROVE  StoreInv'
  OBVIOUS
<1>1. ASSUME NEW g \in GrantIds, NEW proposal \in Proposal,
             RequestApproval(g, proposal)
      PROVE  StoreInv'
  <2>1. now + TTL \in Nat
    BY DEF StoreInv, StoreTypeOK
  <2> QED  BY <1>1, <2>1, StoreKeepsInv DEF RequestApproval
<1>2. ASSUME NEW g \in GrantIds, NEW operator \in Operators,
             Approve(g, operator)
      PROVE  StoreInv'
  BY <1>2, ApproveKeepsInv DEF Approve
<1>3. ASSUME NEW g \in GrantIds, NEW operator \in Operators,
             Reject(g, operator)
      PROVE  StoreInv'
  BY <1>3, RejectKeepsInv DEF Reject
<1>4. ASSUME NEW g \in GrantIds, Consume(g)
      PROVE  StoreInv'
  BY <1>4, ConsumeKeepsInv DEF Consume
<1>5. CASE Clear
  BY <1>5, ClearKeepsInv DEF Clear
<1>6. CASE Tick
  BY <1>6, TickKeepsInv
<1>7. CASE UNCHANGED storeVars
  BY <1>7 DEF storeVars, StoreInv, StoreTypeOK, ExclusiveDecision,
              ApprovedInTime, BoundToApprover
<1> QED  BY <1>1, <1>2, <1>3, <1>4, <1>5, <1>6, <1>7 DEF StoreNext

\* The store invariant holds in every state the store can reach.
THEOREM StoreInvariant == StoreSpec => []StoreInv
<1>1. StoreInit => StoreInv
  BY InitStoreInv
<1>2. StoreInv /\ [StoreNext]_storeVars => StoreInv'
  BY StoreNextKeepsInv
<1> QED  BY <1>1, <1>2, PTL DEF StoreSpec

\* Every stored grant is well formed and its id was issued, whatever
\* requests, decisions, consumptions, clears and ticks have happened.
THEOREM StoreTypeCorrect == StoreSpec => []StoreTypeOK
<1>1. StoreInv => StoreTypeOK
  BY DEF StoreInv
<1> QED  BY <1>1, StoreInvariant, PTL

\* Two operators never both decide a grant, and an approved grant carries the
\* binding of the operator it names as its approver.
THEOREM DecisionIsExclusive == StoreSpec => []ExclusiveDecision
<1>1. StoreInv => ExclusiveDecision
  BY DEF StoreInv
<1> QED  BY <1>1, StoreInvariant, PTL

\* An approval is given before the expiry that the action hash binds.
THEOREM ApprovalIsInTime == StoreSpec => []ApprovedInTime
<1>1. StoreInv => ApprovedInTime
  BY DEF StoreInv
<1> QED  BY <1>1, StoreInvariant, PTL

-----------------------------------------------------------------------------
\* A step that leaves the clock and grant g alone leaves a dead g dead.
LEMMA UntouchedStaysDead ==
    ASSUME NEW g, Dead(g), issued \subseteq issued', now' = now,
           Stored(g)' => Stored(g) /\ grants'[g] = grants[g]
    PROVE  Dead(g)'
BY DEF Dead, Expired, Stored

\* No operation of the store brings a dead grant back to life.
LEMMA DeadStaysDead ==
    StoreInv /\ [StoreNext]_storeVars =>
        \A g \in GrantIds : Dead(g) => Dead(g)'
<1> SUFFICES ASSUME StoreInv, [StoreNext]_storeVars,
                    NEW g \in GrantIds, Dead(g)
             PROVE  Dead(g)'
  OBVIOUS
<1>1. ASSUME NEW h \in GrantIds, NEW proposal \in Proposal,
             RequestApproval(h, proposal)
      PROVE  Dead(g)'
  <2>1. h # g
    BY <1>1 DEF RequestApproval, StoreApproval, Dead
  <2> QED  BY <1>1, <2>1, UntouchedStaysDead
           DEF RequestApproval, StoreApproval, Stored
<1>2. ASSUME NEW h \in GrantIds, NEW operator \in Operators,
             Approve(h, operator)
      PROVE  Dead(g)'
  <2>1. h # g
    BY <1>2 DEF Approve, ApproveApproval, Approvable, Dead
  <2>2. Stored(g)' => Stored(g) /\ grants'[g] = grants[g]
    BY <1>2, <2>1 DEF Approve, ApproveApproval, Stored
  <2> QED  BY <1>2, <2>2, UntouchedStaysDead DEF Approve, ApproveApproval
<1>3. ASSUME NEW h \in GrantIds, NEW operator \in Operators,
             Reject(h, operator)
      PROVE  Dead(g)'
  <2>1. CASE h = g
    <3>1. grants'[g].status = "rejected"
      BY <1>3, <2>1
      DEF Reject, RejectApproval, Rejectable, Stored, StoreInv, StoreTypeOK,
          Grant
    <3> QED  BY <1>3, <3>1 DEF Dead, Reject, RejectApproval
  <2>2. CASE h # g
    <3>1. Stored(g)' => Stored(g) /\ grants'[g] = grants[g]
      BY <1>3, <2>2 DEF Reject, RejectApproval, Stored
    <3> QED  BY <1>3, <3>1, UntouchedStaysDead DEF Reject, RejectApproval
  <2> QED  BY <2>1, <2>2
<1>4. ASSUME NEW h \in GrantIds, Consume(h)
      PROVE  Dead(g)'
  <2>1. CASE h = g /\ Stored(g)
    <3>1. grants'[g] = [grants[g] EXCEPT !.used = TRUE] /\ grants[g] \in Grant
      BY <1>4, <2>1
      DEF Consume, ConsumeApproval, Stored, StoreInv, StoreTypeOK
    <3>2. grants'[g].used
      BY <3>1 DEF Grant
    <3> QED  BY <1>4, <3>2 DEF Dead, Consume, ConsumeApproval
  <2>2. CASE h # g \/ ~Stored(g)
    <3>1. Stored(g)' => Stored(g) /\ grants'[g] = grants[g]
      BY <1>4, <2>2 DEF Consume, ConsumeApproval, Stored
    <3> QED  BY <1>4, <3>1, UntouchedStaysDead DEF Consume, ConsumeApproval
  <2> QED  BY <2>1, <2>2
<1>5. CASE Clear
  BY <1>5 DEF Clear, ClearApprovals, Dead, Stored
<1>6. CASE Tick
  <2>1. Stored(g) => grants[g].expiresAt \in Nat /\ now \in Nat
    BY DEF StoreInv, StoreTypeOK, Stored, Grant
  <2> QED  BY <1>6, <2>1 DEF Tick, Dead, Stored, Expired
<1>7. CASE UNCHANGED storeVars
  BY <1>7, UntouchedStaysDead DEF storeVars, Stored
<1> QED  BY <1>1, <1>2, <1>3, <1>4, <1>5, <1>6, <1>7 DEF StoreNext

\* Whatever decisions, retries and ticks interleave, a grant that nobody can
\* redeem any more stays that way for good.
THEOREM DeadForGood == StoreSpec => NoRevival
<1>1. StoreInv /\ [StoreNext]_storeVars =>
          [\A g \in GrantIds : Dead(g) => Dead(g)']_storeVars
  BY DeadStaysDead
<1> QED  BY <1>1, StoreInvariant, PTL DEF StoreSpec, NoRevival

-----------------------------------------------------------------------------
\* Two proposals hash alike, at one expiry, exactly when they propose the
\* same action.
LEMMA HashIsOfAction ==
    ASSUME NEW p \in Proposal, NEW q \in Proposal, NEW e \in Nat
    PROVE  HashApprovalAction(p, e) = HashApprovalAction(q, e)
               <=> SameAction(p, q)
<1>1. HashApprovalAction(p, e) = HashApprovalAction(q, e)
          <=> ActionOf(p) = ActionOf(q)
  BY DEF HashApprovalAction
<1>2. AuthorityRelevantContext(p.context) = AuthorityRelevantContext(q.context)
          <=> \A field \in {"principal", "session", "actionId"} :
                  p.context[field] = q.context[field]
  BY DEF AuthorityRelevantContext, Proposal, Context
<1>3. ActionOf(p) = ActionOf(q)
          <=> /\ \A field \in {"server", "tool", "arguments"} :
                     p[field] = q[field]
              /\ AuthorityRelevantContext(p.context)
                     = AuthorityRelevantContext(q.context)
  BY DEF ActionOf, Proposal
<1> QED  BY <1>1, <1>2, <1>3 DEF SameAction

\* An approval covers exactly one action: changing any bound field invalidates
\* it, and a fresh request id does not.
THEOREM ApprovalPins == StoreSpec => []ApprovalPinsAction
<1>1. ASSUME StoreInv, NEW g \in DOMAIN grants, NEW p \in Proposal,
             ValidApproval(g, p), NEW q \in Proposal
      PROVE  ValidApproval(g, q) <=> SameAction(p, q)
  <2>1. grants[g].expiresAt \in Nat
    BY <1>1 DEF StoreInv, StoreTypeOK, Grant
  <2>2. ValidApproval(g, q)
            <=> HashApprovalAction(p, grants[g].expiresAt)
                    = HashApprovalAction(q, grants[g].expiresAt)
    BY <1>1 DEF ValidApproval
  <2> QED  BY <2>1, <2>2, HashIsOfAction
<1>2. StoreInv => ApprovalPinsAction
  BY <1>1 DEF ApprovalPinsAction
<1> QED  BY <1>2, StoreInvariant, PTL

-----------------------------------------------------------------------------
\* The gateway.

USE GatewayAssumption

-----------------------------------------------------------------------------
\* Facts about the operators the handlers are built from.

\* The answers that are the same for every call.
LEMMA FixedOutcomesTyped ==
    /\ PolicyDenied \in Outcome
    /\ ApprovalInvalidated \in Outcome
    /\ WaitingForApproval \in Outcome
    /\ PermissionDenied \in Outcome
BY DEF PolicyDenied, ApprovalInvalidated, WaitingForApproval,
       PermissionDenied, MkOutcome, Outcome, OutcomeStates, ReasonCodes,
       RetryableCodes, AutonomousCodes

\* Some keyword class comes first among those that match.
LEMMA FirstHit ==
    ASSUME NEW hits \in SUBSET DOMAIN ErrorClasses, hits # {}
    PROVE  \E i \in hits : \A j \in hits : i <= j
<1>1. hits \subseteq {1, 2, 3, 4, 5, 6, 7}
  BY DEF ErrorClasses
<1> QED  BY <1>1

\* Every error text is given one of the reason codes of the schema.
LEMMA ClassifyErrorTyped ==
    ASSUME NEW message
    PROVE  ClassifyError(message) \in ReasonCodes
<1> DEFINE hits == {i \in DOMAIN ErrorClasses :
                       ErrorClasses[i].words \cap message # {}}
           first == CHOOSE i \in hits : \A j \in hits : i <= j
<1>1. CASE hits = {}
  BY <1>1 DEF ClassifyError, ReasonCodes
<1>2. CASE hits # {}
  <2>1. first \in hits
    BY <1>2, FirstHit
  <2>2. first \in DOMAIN ErrorClasses
    BY <2>1
  <2> HIDE DEF first
  <2>3. \A i \in DOMAIN ErrorClasses : ErrorClasses[i].code \in ReasonCodes
    <3>1. DOMAIN ErrorClasses = {1, 2, 3, 4, 5, 6, 7}
      BY DEF ErrorClasses
    <3>2. /\ ErrorClasses[1].code = "DOWNSTREAM_TIMEOUT"
          /\ ErrorClasses[2].code = "AUTH_EXPIRED"
          /\ ErrorClasses[3].code = "PERMISSION_DENIED"
          /\ ErrorClasses[4].code = "RATE_LIMITED"
          /\ ErrorClasses[5].code = "VALIDATION_ERROR"
          /\ ErrorClasses[6].code = "STALE_STATE"
          /\ ErrorClasses[7].code = "CONFLICT"
      BY DEF ErrorClasses
    <3> QED  BY <3>1, <3>2 DEF ReasonCodes, RetryableCodes, AutonomousCodes
  <2>4. ErrorClasses[first].code \in ReasonCodes
    BY <2>2, <2>3
  <2> QED  BY <1>2, <2>4 DEF ClassifyError, first
<1> QED  BY <1>1, <1>2

\* The outcome of a failure is well formed whatever its code.
LEMMA FailureTyped ==
    ASSUME NEW code \in ReasonCodes
    PROVE  ClassifyOutcome(FailedWith(code)) \in Outcome
<1>1. FailureOutcome(code) \in Outcome
  BY DEF FailureOutcome, MkOutcome, Outcome, OutcomeStates
<1> QED  BY <1>1, FixedOutcomesTyped DEF ClassifyOutcome, FailedWith

\* Whatever an executor does, the agent gets a well-formed outcome.
LEMMA ResultTyped ==
    ASSUME NEW result \in Results
    PROVE  ClassifyOutcome(result) \in Outcome
<1>1. ClassifyOutcome(Succeeded) \in Outcome
  BY DEF ClassifyOutcome, Succeeded, MkOutcome, Outcome, OutcomeStates
<1> QED  BY <1>1, ClassifyErrorTyped, FailureTyped DEF Results

\* The policy has a decision on every tool, registered or not.
LEMMA DecisionTyped ==
    ASSUME TypeOK, NEW tool \in Tools
    PROVE  DecisionOn(tool) \in Decisions
<1> DEFINE risk == Classify(registry, tool)
<1>1. risk \in RiskClasses
  BY DEF Classify, TypeOK, RiskClasses
<1>2. DefaultPolicy[risk] \in Decisions
  BY <1>1 DEF DefaultPolicy, Decisions, RiskClasses
<1> QED  BY <1>1, <1>2 DEF DecisionOn, Evaluate, Decisions

\* What a call proposes to do is well formed.
LEMMA ProposalTyped ==
    ASSUME TypeOK, NEW c \in Requests, NEW r \in Submission
    PROVE  /\ ProposalOf(c, r) \in Proposal
           /\ ActionOf(ProposalOf(c, r)) \in Action
<1>1. ServerOf(r.tool) \in Servers \cup {None}
  BY DEF ServerOf, TypeOK, Submission
<1>2. ContextFor(c, r) \in Context
  BY DEF ContextFor, Context, Submission, Sessions
<1>3. ProposalOf(c, r) \in Proposal
  BY <1>1, <1>2 DEF ProposalOf, Proposal, Submission
<1> QED  BY <1>3 DEF Proposal, ActionOf, Action, AuthorityRelevantContext,
                      Context, StableContext

\* The record kept of a call is well formed.
LEMMA SubmittedCallTyped ==
    ASSUME TypeOK, NEW c \in Requests, NEW r \in Submission,
           NEW pc \in CallStates, NEW outcome \in Outcome \cup {None},
           NEW grantId \in GrantIds \cup {None}
    PROVE  SubmittedCall(c, r, pc, outcome, grantId) \in Call
<1>1. ActionOf(ProposalOf(c, r)) \in Action
  BY ProposalTyped
<1>2. DecisionOn(r.tool) \in Decisions
  BY DecisionTyped DEF Submission
<1> QED  BY <1>1, <1>2 DEF SubmittedCall, Call, Submission

\* What has been written of a trail is a prefix of it, and all of it unless
\* a write failed.
LEMMA WrittenPrefix ==
    ASSUME NEW trail \in Seq(Event), NEW n \in Written(trail)
    PROVE  /\ n \in 0 .. Len(trail)
           /\ SubSeq(trail, 1, n) \in Seq(Event)
           /\ n = Len(trail) => SubSeq(trail, 1, n) = trail
<1>1. Len(trail) \in Nat /\ \A i \in 1 .. Len(trail) : trail[i] \in Event
  BY LenProperties, ElementOfSeq
<1>2. n \in 0 .. Len(trail)
  BY <1>1 DEF Written
<1>3. SubSeq(trail, 1, n) \in Seq(Event)
  BY <1>1, <1>2, SubSeqProperties
<1> QED  BY <1>2, <1>3, SubSeqFull

\* The trails the handlers write consist of events.
LEMMA TrailsTyped ==
    /\ Preamble \in Seq(Event)
    /\ Len(Preamble) = 2
    /\ \A type \in EventTypes : Mark(type) \in Event
    /\ \A type \in EventTypes, outcome \in Outcome :
           WithOutcome(type, outcome) \in Event
    /\ \A outcome \in Outcome : Generated(outcome) \in Event
    /\ \A e \in Event : Append(Preamble, e) \in Seq(Event)
    /\ \A e, f \in Event : Preamble \o <<e, f>> \in Seq(Event)
    /\ \A result \in Results : TrailOf(result) \in Seq(Event)
<1>1. \A type \in EventTypes : Mark(type) \in Event
  BY DEF Mark, Event
<1>0. \A type \in EventTypes, outcome \in Outcome :
          WithOutcome(type, outcome) \in Event
  <2>1. \A outcome \in Outcome : WithoutAdvice(outcome) \in Outcome
    BY DEF WithoutAdvice, Outcome
  <2> QED  BY <2>1 DEF WithOutcome, Event
<1>2. \A outcome \in Outcome : Generated(outcome) \in Event
  BY <1>0 DEF Generated, EventTypes
<1>3. Preamble \in Seq(Event) /\ Len(Preamble) = 2
  BY <1>1 DEF Preamble, EventTypes
<1>4. \A e, f \in Event : <<e, f>> \in Seq(Event)
  OBVIOUS
<1>5. \A result \in Results : TrailOf(result) \in Seq(Event)
  <2> SUFFICES ASSUME NEW result \in Results
               PROVE  TrailOf(result) \in Seq(Event)
    OBVIOUS
  <2>1. ClassifyOutcome(result) \in Outcome
    BY ResultTyped
  <2>2. "TOOL_EXECUTED" \in EventTypes /\ "TOOL_FAILED" \in EventTypes
    BY DEF EventTypes
  <2> QED  BY <1>0, <1>2, <1>4, <2>1, <2>2 DEF TrailOf
<1>6. \A e, f \in Event : Preamble \o <<e, f>> \in Seq(Event)
  BY <1>3, <1>4, ConcatProperties
<1>7. \A e \in Event : Append(Preamble, e) \in Seq(Event)
  BY <1>3
<1> QED  BY <1>0, <1>1, <1>2, <1>3, <1>5, <1>6, <1>7

-----------------------------------------------------------------------------
\* What every way through the first segment of execute() has in common: one
\* call gets its record and its trail, the executor is started only for a
\* cleared call whose preamble is on record, and the store either stays as it
\* is or gets one fresh grant for this very proposal.
Settled(c, r, call, trail) ==
    /\ call \in Call
    /\ trail \in Seq(Event)
    /\ calls' = [calls EXCEPT ![c] = call]
    /\ audit' = [audit EXCEPT ![c] = trail]
    /\ call.pc \in {"executing", "returned", "threw"}
    /\ call.action = ActionOf(ProposalOf(c, r))
    /\ call.approvalId = r.approvalId
    /\ call.ran <=> call.pc = "executing"
    /\ call.ran => /\ trail = Preamble
                   /\ Cleared(c, r)
                   /\ call.decision = DecisionOn(r.tool)
                   /\ UNCHANGED storeVars
    /\ UNCHANGED <<now, hostVars, decisionLog>>
    /\ \/ UNCHANGED storeVars
       \/ \E g \in GrantIds : RequestApproval(g, ProposalOf(c, r))

\* A call that is answered, or whose handler throws, is settled without
\* having run.
LEMMA NotStarted ==
    ASSUME TypeOK, NEW c \in Requests, NEW r \in Submission,
           NEW pc \in {"returned", "threw"}, NEW outcome \in Outcome \cup {None},
           NEW grantId \in GrantIds \cup {None}, NEW trail \in Seq(Event),
           calls' = [calls EXCEPT ![c] =
                        SubmittedCall(c, r, pc, outcome, grantId)],
           audit' = [audit EXCEPT ![c] = trail],
           UNCHANGED <<now, hostVars, decisionLog>>,
           \/ UNCHANGED storeVars
           \/ \E g \in GrantIds : RequestApproval(g, ProposalOf(c, r))
    PROVE  \E call \in Call, t \in Seq(Event) : Settled(c, r, call, t)
<1> DEFINE call == SubmittedCall(c, r, pc, outcome, grantId)
<1>1. call \in Call
  BY SubmittedCallTyped DEF CallStates
<1>2. /\ call.pc = pc
      /\ call.action = ActionOf(ProposalOf(c, r))
      /\ call.approvalId = r.approvalId
      /\ call.ran = FALSE
  BY DEF SubmittedCall
<1>3. calls' = [calls EXCEPT ![c] = call]
  OBVIOUS
<1> HIDE DEF call
<1>4. Settled(c, r, call, trail)
  BY <1>1, <1>2, <1>3 DEF Settled
<1> QED  BY <1>1, <1>4

\* Answer settles a call.
LEMMA AnswerSettles ==
    ASSUME TypeOK, NEW c \in Requests, NEW r \in Submission,
           NEW trail \in Seq(Event), NEW outcome \in Outcome,
           NEW grantId \in GrantIds \cup {None},
           Answer(c, r, trail, outcome, grantId)
    PROVE  \E call \in Call, t \in Seq(Event) : Settled(c, r, call, t)
<1>1. PICK n \in Written(trail) :
          /\ audit' = [audit EXCEPT ![c] = SubSeq(trail, 1, n)]
          /\ calls' = [calls EXCEPT ![c] =
                 IF n = Len(trail)
                 THEN SubmittedCall(c, r, "returned", outcome, grantId)
                 ELSE ThrownCall(c, r)]
          /\ UNCHANGED <<storeVars, hostVars, decisionLog>>
  BY DEF Answer
<1>2. SubSeq(trail, 1, n) \in Seq(Event)
  BY WrittenPrefix
<1>3. UNCHANGED storeVars /\ UNCHANGED <<now, hostVars, decisionLog>>
  BY <1>1 DEF storeVars
<1>4. CASE n = Len(trail)
  BY <1>1, <1>2, <1>3, <1>4, NotStarted
<1>5. CASE n # Len(trail)
  BY <1>1, <1>2, <1>3, <1>5, NotStarted DEF ThrownCall
<1> QED  BY <1>4, <1>5

\* A refused context: nothing is audited and nothing runs.
LEMMA RefuseSettles ==
    ASSUME TypeOK, NEW c \in Requests, NEW r \in Submission,
           RefuseContext(c, r)
    PROVE  \E call \in Call, t \in Seq(Event) : Settled(c, r, call, t)
<1> DEFINE kept == SubmittedCall(c, r, "returned", PermissionDenied, None)
           call == [kept EXCEPT !.decision = None]
<1>1. kept \in Call
  BY SubmittedCallTyped, FixedOutcomesTyped DEF CallStates
<1>2. /\ kept.pc = "returned"
      /\ kept.action = ActionOf(ProposalOf(c, r))
      /\ kept.approvalId = r.approvalId
      /\ kept.ran = FALSE
  BY DEF SubmittedCall
<1> HIDE DEF kept
<1>3. call \in Call
  BY <1>1 DEF Call
<1>4. /\ call.pc = "returned"
      /\ call.action = ActionOf(ProposalOf(c, r))
      /\ call.approvalId = r.approvalId
      /\ call.ran = FALSE
  BY <1>1, <1>2 DEF Call
<1>5. /\ calls' = [calls EXCEPT ![c] = call]
      /\ audit[c] \in Seq(Event)
      /\ audit' = [audit EXCEPT ![c] = audit[c]]
      /\ UNCHANGED <<now, hostVars, decisionLog>>
      /\ UNCHANGED storeVars
  BY DEF RefuseContext, TypeOK, kept, storeVars
<1> HIDE DEF call
<1>6. Settled(c, r, call, audit[c])
  BY <1>3, <1>4, <1>5 DEF Settled
<1> QED  BY <1>3, <1>5, <1>6

\* The grant is stored as soon as the preamble is on record.
LEMMA AskSettles ==
    ASSUME TypeOK, NEW c \in Requests, NEW r \in Submission,
           NEW g \in GrantIds, AskForApproval(c, r, g)
    PROVE  \E call \in Call, t \in Seq(Event) : Settled(c, r, call, t)
<1> DEFINE trail == Append(Preamble, Mark("APPROVAL_REQUESTED"))
<1>1. trail \in Seq(Event)
  BY TrailsTyped DEF EventTypes
<1>2. PICK n \in Written(trail) :
        /\ audit' = [audit EXCEPT ![c] = SubSeq(trail, 1, n)]
        /\ calls' = [calls EXCEPT ![c] =
               IF n = Len(trail)
               THEN SubmittedCall(c, r, "returned", WaitingForApproval, g)
               ELSE ThrownCall(c, r)]
        /\ IF n >= Len(Preamble)
           THEN StoreApproval(g, ProposalOf(c, r), now + TTL)
           ELSE UNCHANGED <<grants, issued>>
  BY DEF AskForApproval
<1> HIDE DEF trail
<1>3. SubSeq(trail, 1, n) \in Seq(Event)
  BY <1>1, WrittenPrefix
<1>4. UNCHANGED <<now, hostVars, decisionLog>>
  BY DEF AskForApproval
<1>5. \/ UNCHANGED storeVars
      \/ \E h \in GrantIds : RequestApproval(h, ProposalOf(c, r))
  BY <1>2, <1>4 DEF RequestApproval, storeVars
<1>6. CASE n = Len(trail)
  BY <1>2, <1>3, <1>4, <1>5, <1>6, NotStarted, FixedOutcomesTyped
<1>7. CASE n # Len(trail)
  BY <1>2, <1>3, <1>4, <1>5, <1>7, NotStarted DEF ThrownCall
<1> QED  BY <1>6, <1>7

\* The serializer's exception.
LEMMA FailSettles ==
    ASSUME TypeOK, NEW c \in Requests, NEW r \in Submission,
           FailToHash(c, r)
    PROVE  \E call \in Call, t \in Seq(Event) : Settled(c, r, call, t)
<1>1. PICK n \in Written(Preamble) :
          audit' = [audit EXCEPT ![c] = SubSeq(Preamble, 1, n)]
  BY DEF FailToHash
<1>2. SubSeq(Preamble, 1, n) \in Seq(Event)
  BY WrittenPrefix, TrailsTyped
<1> QED  BY <1>1, <1>2, NotStarted DEF FailToHash, ThrownCall, storeVars

\* The executor is started for a cleared call, after the preamble.
LEMMA InvokeSettles ==
    ASSUME TypeOK, NEW c \in Requests, NEW r \in Submission, Invoke(c, r)
    PROVE  \E call \in Call, t \in Seq(Event) : Settled(c, r, call, t)
<1> DEFINE kept == SubmittedCall(c, r, "executing", None, None)
           call == [kept EXCEPT !.ran = TRUE]
<1>1. PICK n \in Written(Preamble) :
        /\ audit' = [audit EXCEPT ![c] = SubSeq(Preamble, 1, n)]
        /\ calls' = [calls EXCEPT ![c] =
               IF n = Len(Preamble) THEN call ELSE ThrownCall(c, r)]
  BY DEF Invoke
<1>2. /\ SubSeq(Preamble, 1, n) \in Seq(Event)
      /\ n = Len(Preamble) => SubSeq(Preamble, 1, n) = Preamble
      /\ Preamble \in Seq(Event)
  BY WrittenPrefix, TrailsTyped
<1>3. /\ UNCHANGED <<now, hostVars, decisionLog>>
      /\ UNCHANGED storeVars
      /\ Cleared(c, r)
  BY DEF Invoke, storeVars
<1>4. CASE n = Len(Preamble)
  <2>1. kept \in Call
    BY SubmittedCallTyped DEF CallStates
  <2>2. /\ kept.pc = "executing"
        /\ kept.action = ActionOf(ProposalOf(c, r))
        /\ kept.approvalId = r.approvalId
        /\ kept.decision = DecisionOn(r.tool)
    BY DEF SubmittedCall
  <2>3. calls' = [calls EXCEPT ![c] = call]
    BY <1>1, <1>4
  <2> HIDE DEF kept
  <2>4. call \in Call
    BY <2>1 DEF Call
  <2>5. /\ call.pc = "executing"
        /\ call.action = ActionOf(ProposalOf(c, r))
        /\ call.approvalId = r.approvalId
        /\ call.decision = DecisionOn(r.tool)
        /\ call.ran = TRUE
    BY <2>1, <2>2 DEF Call
  <2> HIDE DEF call
  <2>6. Settled(c, r, call, Preamble)
    BY <1>1, <1>2, <1>3, <1>4, <2>3, <2>4, <2>5 DEF Settled
  <2> QED  BY <1>2, <2>4, <2>6
<1>5. CASE n # Len(Preamble)
  BY <1>1, <1>2, <1>3, <1>5, NotStarted DEF ThrownCall
<1> QED  BY <1>4, <1>5

\* Every submission settles its call.
LEMMA ExecuteSettles ==
    ASSUME TypeOK, NEW c \in Requests, NEW r \in Submission, Execute(c, r)
    PROVE  \E call \in Call, t \in Seq(Event) : Settled(c, r, call, t)
<1> USE TrailsTyped, FixedOutcomesTyped
<1>1. CASE RefuseContext(c, r)
  BY <1>1, RefuseSettles
<1>2. CASE DenyCall(c, r)
  BY <1>2, AnswerSettles DEF DenyCall
<1>3. CASE \E g \in GrantIds : AskForApproval(c, r, g)
  BY <1>3, AskSettles
<1>4. CASE KeepWaiting(c, r)
  BY <1>4, AnswerSettles DEF KeepWaiting, Submission
<1>5. CASE AnswerRejected(c, r)
  BY <1>5, AnswerSettles DEF AnswerRejected, EventTypes
<1>6. CASE AnswerInvalidated(c, r)
  BY <1>6, AnswerSettles DEF AnswerInvalidated, EventTypes
<1>7. CASE FailToHash(c, r)
  BY <1>7, FailSettles
<1>8. CASE AnswerNoExecutor(c, r)
  <2>1. ClassifyOutcome(FailedWith("UNKNOWN_FAILURE")) \in Outcome
    BY FailureTyped DEF ReasonCodes
  <2> QED  BY <1>8, <2>1, AnswerSettles DEF AnswerNoExecutor
<1>9. CASE Invoke(c, r)
  BY <1>9, InvokeSettles
<1> QED  BY <1>1, <1>2, <1>3, <1>4, <1>5, <1>6, <1>7, <1>8, <1>9 DEF Execute

-----------------------------------------------------------------------------
\* What the second segment of execute() comes to: the call ends as what it
\* was started as, and if it is answered its grant is consumed.
Ended(c, call, trail) ==
    /\ call \in Call
    /\ trail \in Seq(Event)
    /\ calls[c].pc = "executing"
    /\ calls' = [calls EXCEPT ![c] = call]
    /\ audit' = [audit EXCEPT ![c] = trail]
    /\ call.pc \in {"returned", "threw"}
    /\ call.action = calls[c].action
    /\ call.approvalId = calls[c].approvalId
    /\ call.decision = calls[c].decision
    /\ call.ran = calls[c].ran
    /\ UNCHANGED <<now, hostVars, decisionLog>>
    /\ \/ /\ UNCHANGED storeVars
          /\ call.pc = "returned" => call.approvalId = None
       \/ call.approvalId \in GrantIds /\ Consume(call.approvalId)

\* Every settled executor ends its call.
LEMMA FinishEnds ==
    ASSUME TypeOK, NEW c \in Requests, NEW result \in Results,
           Finish(c, result)
    PROVE  \E call \in Call, t \in Seq(Event) : Ended(c, call, t)
<1> DEFINE trail == TrailOf(result)
           old == calls[c]
<1>1. old \in Call /\ audit[c] \in Seq(Event) /\ trail \in Seq(Event)
  BY TrailsTyped DEF TypeOK
<1>2. PICK n \in Written(trail) :
        /\ audit' = [audit EXCEPT ![c] = @ \o SubSeq(trail, 1, n)]
        /\ calls' = [calls EXCEPT
               ![c].pc = IF n = Len(trail) THEN "returned" ELSE "threw",
               ![c].outcome = IF n = Len(trail) THEN ClassifyOutcome(result)
                              ELSE None]
        /\ IF n = Len(trail) THEN ConsumeFor(c)
           ELSE UNCHANGED <<grants, issued>>
  BY DEF Finish
<1>3. /\ UNCHANGED <<now, hostVars, decisionLog>>
      /\ old.pc = "executing"
  BY DEF Finish
<1> DEFINE pc == IF n = Len(trail) THEN "returned" ELSE "threw"
           outcome == IF n = Len(trail) THEN ClassifyOutcome(result) ELSE None
           call == [old EXCEPT !.pc = pc, !.outcome = outcome]
           t == audit[c] \o SubSeq(trail, 1, n)
<1>4. pc \in {"returned", "threw"} /\ outcome \in Outcome \cup {None}
  BY ResultTyped
<1>5. t \in Seq(Event)
  BY <1>1, WrittenPrefix, ConcatProperties
<1>6. calls' = [calls EXCEPT ![c] = call] /\ audit' = [audit EXCEPT ![c] = t]
  BY <1>2, <1>1 DEF TypeOK, Call
<1>7. \/ /\ UNCHANGED storeVars
         /\ pc = "returned" => old.approvalId = None
      \/ old.approvalId \in GrantIds /\ Consume(old.approvalId)
  BY <1>1, <1>2, <1>3 DEF ConsumeFor, Consume, storeVars, Call
<1> HIDE DEF pc, outcome, trail
<1>8. call \in Call
  BY <1>1, <1>4 DEF Call, CallStates
<1>9. /\ call.pc = pc
      /\ call.action = old.action
      /\ call.approvalId = old.approvalId
      /\ call.decision = old.decision
      /\ call.ran = old.ran
  BY <1>1, <1>4 DEF Call
<1> HIDE DEF call, t
<1>10. Ended(c, call, t)
  BY <1>3, <1>4, <1>5, <1>6, <1>7, <1>8, <1>9 DEF Ended
<1> QED  BY <1>5, <1>8, <1>10

-----------------------------------------------------------------------------
\* The gateway uses the store through the store's operations only.

\* Every step of the gateway is one operation of the store, or none.
LEMMA StepIsStoreStep == TypeOK /\ [Next]_vars => [StoreNext]_storeVars
<1> SUFFICES ASSUME TypeOK, [Next]_vars
             PROVE  [StoreNext]_storeVars
  OBVIOUS
<1>1. ASSUME NEW c \in Requests, NEW r \in Submission, Execute(c, r)
      PROVE  [StoreNext]_storeVars
  <2>1. \/ UNCHANGED storeVars
        \/ \E g \in GrantIds : RequestApproval(g, ProposalOf(c, r))
    BY <1>1, ExecuteSettles DEF Settled
  <2> QED  BY <2>1, ProposalTyped DEF StoreNext
<1>2. ASSUME NEW c \in Requests, NEW result \in Results, Finish(c, result)
      PROVE  [StoreNext]_storeVars
  BY <1>2, FinishEnds DEF Ended, StoreNext
<1>3. ASSUME NEW g \in GrantIds, NEW operator \in Operators,
             PostApprove(g, operator) \/ PostReject(g, operator)
      PROVE  [StoreNext]_storeVars
  BY <1>3 DEF PostApprove, PostReject, StoreNext, Approve, Reject
<1>4. ASSUME NEW tool \in Tools, NEW metadata \in Metadata,
             RegisterTool(tool, metadata)
      PROVE  [StoreNext]_storeVars
  BY <1>4 DEF RegisterTool
<1>5. ASSUME NEW tool \in Tools, SetExecutor(tool)
      PROVE  [StoreNext]_storeVars
  BY <1>5 DEF SetExecutor
<1>6. ASSUME NEW config \in PolicyConfigs, LoadPolicy(config)
      PROVE  [StoreNext]_storeVars
  BY <1>6 DEF LoadPolicy
<1>7. CASE PassTime
  BY <1>7 DEF PassTime, StoreNext
<1>8. CASE Restart
  BY <1>8 DEF Restart, StoreNext, Clear
<1>9. CASE UNCHANGED vars
  BY <1>9 DEF vars
<1> QED
  BY <1>1, <1>2, <1>3, <1>4, <1>5, <1>6, <1>7, <1>8, <1>9 DEF Next

-----------------------------------------------------------------------------
\* The part of the type invariant that speaks of registrations and policy,
\* and the part that speaks of the calls and what is logged.
HostTypes ==
    /\ DOMAIN registry \subseteq Tools
    /\ registry \in [DOMAIN registry -> Metadata]
    /\ executors \subseteq Tools
    /\ policy \in PolicyConfigs

CallTypes ==
    /\ calls \in [Requests -> Call]
    /\ audit \in [Requests -> Seq(Event)]
    /\ decisionLog \subseteq DecisionRecord

\* A decision and its audit record keep the types.
LEMMA DecisionKeepsTypes ==
    ASSUME TypeOK, NEW g \in GrantIds, NEW operator \in Operators,
           PostApprove(g, operator) \/ PostReject(g, operator)
    PROVE  HostTypes' /\ CallTypes'
<1>1. Stored(g)
  BY DEF PostApprove, PostReject, ApproveApproval, RejectApproval, Approvable,
         Rejectable
<1>2. grants[g].actionHash \in ActionHash
  BY <1>1 DEF TypeOK, StoreTypeOK, Stored, Grant
<1>3. [type |-> "APPROVAL_GRANTED", operator |-> operator,
       hash |-> HashApprovalBinding(grants[g].actionHash, operator)]
          \in DecisionRecord
  BY <1>2 DEF DecisionRecord, HashApprovalBinding, BindingHash
<1>4. [type |-> "APPROVAL_DENIED", operator |-> operator,
       hash |-> grants[g].actionHash] \in DecisionRecord
  BY <1>2 DEF DecisionRecord
<1>5. decisionLog' \subseteq DecisionRecord
  BY <1>3, <1>4 DEF PostApprove, PostReject, Logged, TypeOK
<1> QED  BY <1>5 DEF PostApprove, PostReject, TypeOK, HostTypes, CallTypes,
                     hostVars

\* Every step keeps the types.
LEMMA StepKeepsTypes ==
    TypeOK /\ [Next]_vars => HostTypes' /\ CallTypes'
<1> SUFFICES ASSUME TypeOK, [Next]_vars
             PROVE  HostTypes' /\ CallTypes'
  OBVIOUS
<1>1. ASSUME NEW c \in Requests, NEW r \in Submission, Execute(c, r)
      PROVE  HostTypes' /\ CallTypes'
  BY <1>1, ExecuteSettles DEF Settled, TypeOK, HostTypes, CallTypes, hostVars
<1>2. ASSUME NEW c \in Requests, NEW result \in Results, Finish(c, result)
      PROVE  HostTypes' /\ CallTypes'
  <2>1. PICK call \in Call, t \in Seq(Event) : Ended(c, call, t)
    BY <1>2, FinishEnds
  <2> QED  BY <2>1 DEF Ended, TypeOK, HostTypes, CallTypes, hostVars
<1>3. ASSUME NEW g \in GrantIds, NEW operator \in Operators,
             PostApprove(g, operator) \/ PostReject(g, operator)
      PROVE  HostTypes' /\ CallTypes'
  BY <1>3, DecisionKeepsTypes
<1>4. ASSUME NEW tool \in Tools, NEW metadata \in Metadata,
             RegisterTool(tool, metadata)
      PROVE  HostTypes' /\ CallTypes'
  BY <1>4 DEF RegisterTool, TypeOK, HostTypes, CallTypes
<1>5. ASSUME NEW tool \in Tools, SetExecutor(tool)
      PROVE  HostTypes' /\ CallTypes'
  BY <1>5 DEF SetExecutor, TypeOK, HostTypes, CallTypes
<1>6. ASSUME NEW config \in PolicyConfigs, LoadPolicy(config)
      PROVE  HostTypes' /\ CallTypes'
  BY <1>6 DEF LoadPolicy, TypeOK, HostTypes, CallTypes
<1>7. CASE PassTime
  BY <1>7 DEF PassTime, TypeOK, HostTypes, CallTypes, hostVars
<1>8. CASE Restart
  <2>1. HostTypes'
    BY <1>8 DEF Restart, TypeOK, HostTypes
  <2>2. ASSUME NEW c \in Requests
        PROVE  [calls[c] EXCEPT !.pc = "lost"] \in Call
    BY DEF TypeOK, Call, CallStates
  <2>3. calls' \in [Requests -> Call]
    BY <1>8, <2>2 DEF Restart, TypeOK
  <2>4. audit' \in [Requests -> Seq(Event)]
    <3>1. CASE AuditBackend = "memory"
      <4>1. audit' = [c \in Requests |-> <<>>]
        BY <1>8, <3>1 DEF Restart
      <4> QED  BY <4>1, EmptySeq
    <3>2. CASE AuditBackend # "memory"
      BY <1>8, <3>2 DEF Restart, TypeOK
    <3> QED  BY <3>1, <3>2
  <2>5. decisionLog' \subseteq DecisionRecord
    BY <1>8 DEF Restart, TypeOK
  <2> QED  BY <2>1, <2>3, <2>4, <2>5 DEF CallTypes
<1>9. CASE UNCHANGED vars
  BY <1>9 DEF vars, TypeOK, HostTypes, CallTypes, hostVars
<1> QED
  BY <1>1, <1>2, <1>3, <1>4, <1>5, <1>6, <1>7, <1>8, <1>9 DEF Next

\* The initial states are well typed.
LEMMA InitTypes == Init => TypeOK /\ StoreInv
<1> SUFFICES ASSUME Init PROVE TypeOK /\ StoreInv
  OBVIOUS
<1>1. StoreInv
  BY InitStoreInv DEF Init
<1>2. IdleCall \in Call
  BY DEF IdleCall, Call, CallStates
<1>3. calls \in [Requests -> Call] /\ audit \in [Requests -> Seq(Event)]
  BY <1>2 DEF Init
<1> QED  BY <1>1, <1>3 DEF Init, TypeOK, StoreInv

\* The types of the gateway's state and the invariant of the store hold
\* through every interleaving of calls, decisions, reloads and restarts.
THEOREM TypeCorrect == Spec => [](TypeOK /\ StoreInv)
<1>1. Init => TypeOK /\ StoreInv
  BY InitTypes
<1>2. TypeOK /\ StoreInv /\ [Next]_vars => (TypeOK /\ StoreInv)'
  <2> SUFFICES ASSUME TypeOK, StoreInv, [Next]_vars
               PROVE  TypeOK' /\ StoreInv'
    OBVIOUS
  <2>1. StoreInv'
    BY StepIsStoreStep, StoreNextKeepsInv
  <2>2. HostTypes' /\ CallTypes'
    BY StepKeepsTypes
  <2> QED  BY <2>1, <2>2 DEF TypeOK, StoreInv, HostTypes, CallTypes
<1> QED  BY <1>1, <1>2, PTL DEF Spec

\* The gateway implements the store: whatever it does to grants is one of the
\* store's operations, so the store's theorems hold of it.
THEOREM GatewayUsesStore == Spec => StoreSpec
<1>1. Init => StoreInit
  BY DEF Init
<1>2. TypeOK /\ [Next]_vars => [StoreNext]_storeVars
  BY StepIsStoreStep
<1>3. Spec => []TypeOK
  BY TypeCorrect, PTL
<1> QED  BY <1>1, <1>2, <1>3, PTL DEF Spec, StoreSpec

-----------------------------------------------------------------------------
\* From single mandates to steps of ApprovalAuthority.

\* The mandate of g and its action are as they were.
Kept(g) == Mandate(g)' = Mandate(g) /\ Asked(g)' = Asked(g)

\* A step that changes no mandate and no effect is invisible.
LEMMA NothingHappens ==
    ASSUME \A h \in GrantIds : Kept(h), Effects' = Effects
    PROVE  [Authority!Next]_(Authority!vars)
BY DEF Kept, Authority!vars

\* A step that turns one mandate from none to open opens it.
LEMMA OneOpens ==
    ASSUME NEW g \in GrantIds, NEW a \in Action,
           Mandate(g) = "none", Mandate(g)' = "open", Asked(g)' = a,
           \A h \in GrantIds \ {g} : Kept(h), Effects' = Effects
    PROVE  Authority!Next
<1>1. Authority!Open(g, a)
  BY DEF Authority!Open, Kept
<1> QED  BY <1>1 DEF Authority!Next

\* A step that turns one mandate from open to granted grants it.
LEMMA OneIsGranted ==
    ASSUME NEW g \in GrantIds, Mandate(g) = "open", Mandate(g)' = "granted",
           Asked(g)' = Asked(g),
           \A h \in GrantIds \ {g} : Kept(h), Effects' = Effects
    PROVE  Authority!Next
<1>1. Authority!Grant(g)
  BY DEF Authority!Grant, Kept
<1> QED  BY <1>1 DEF Authority!Next

\* A step that turns one mandate from open to refused refuses it.
LEMMA OneIsRefused ==
    ASSUME NEW g \in GrantIds, Mandate(g) = "open", Mandate(g)' = "refused",
           Asked(g)' = Asked(g),
           \A h \in GrantIds \ {g} : Kept(h), Effects' = Effects
    PROVE  Authority!Next
<1>1. Authority!Refuse(g)
  BY DEF Authority!Refuse, Kept
<1> QED  BY <1>1 DEF Authority!Next

\* A step that does nothing but end live mandates closes them.
LEMMA SomeClose ==
    ASSUME Effects' = Effects,
           \A g \in GrantIds :
               \/ Kept(g)
               \/ /\ Mandate(g) \in {"open", "granted", "refused"}
                  /\ Mandate(g)' = "closed"
    PROVE  Authority!Next
<1> DEFINE S == {g \in GrantIds : ~Kept(g)}
<1>1. \A g \in GrantIds :
          /\ Mandate(g)' = IF g \in S THEN "closed" ELSE Mandate(g)
          /\ Asked(g)' = IF g \in S THEN None ELSE Asked(g)
  BY DEF Kept, Asked
<1>2. Authority!Close(S)
  BY <1>1 DEF Authority!Close, Authority!Live
<1> QED  BY <1>2 DEF Authority!Next

\* A granted mandate under which one more call runs.
LEMMA OneRuns ==
    ASSUME NEW c \in Requests, NEW g \in GrantIds, Mandate(g) = "granted",
           \A h \in GrantIds : Kept(h),
           Effects' = Effects \cup {[call |-> c, id |-> g, action |-> Asked(g)]}
    PROVE  Authority!Next
<1>1. Authority!Run(c, g)
  BY DEF Authority!Run, Kept
<1> QED  BY <1>1 DEF Authority!Next

-----------------------------------------------------------------------------
\* From operations of the store to steps of ApprovalAuthority.

\* A grant that is not touched keeps its mandate while the clock stands.
LEMMA UntouchedIsKept ==
    ASSUME NEW g, now' = now, (g \in issued)' <=> g \in issued,
           Stored(g)' <=> Stored(g), Stored(g) => grants'[g] = grants[g]
    PROVE  Kept(g)
BY DEF Kept, Mandate, Asked, Stored, Expired

\* A request opens a mandate for the action it proposes.
LEMMA RequestOpens ==
    ASSUME StoreInv, NEW g \in GrantIds, NEW p \in Proposal,
           RequestApproval(g, p), ActionOf(p) \in Action, Effects' = Effects
    PROVE  Authority!Next
<1>1. /\ g \notin issued
      /\ g \in issued'
      /\ Stored(g)'
      /\ grants'[g] = PendingGrant(p, now + TTL)
      /\ now' = now /\ now \in Nat
  BY DEF RequestApproval, StoreApproval, Stored, StoreInv, StoreTypeOK
<1>2. ~(now + TTL <= now)
  BY <1>1
<1>3. /\ grants'[g].used = FALSE
      /\ grants'[g].expiresAt = now + TTL
      /\ grants'[g].status = "pending"
      /\ grants'[g].actionHash.action = ActionOf(p)
  BY <1>1 DEF PendingGrant, HashApprovalAction
<1>4. Mandate(g) = "none" /\ Mandate(g)' = "open"
  BY <1>1, <1>2, <1>3 DEF Mandate, Expired
<1>5. Asked(g)' = ActionOf(p)
  BY <1>3, <1>4 DEF Asked
<1>6. \A h \in GrantIds \ {g} : Kept(h)
  BY UntouchedIsKept DEF RequestApproval, StoreApproval, Stored
<1> QED  BY <1>4, <1>5, <1>6, OneOpens

\* Approval grants an open mandate; approving again changes none.
LEMMA ApproveGrants ==
    ASSUME StoreInv, NEW g \in GrantIds, NEW operator \in Operators,
           Approve(g, operator), Effects' = Effects
    PROVE  [Authority!Next]_(Authority!vars)
<1>1. /\ Stored(g) /\ Stored(g)'
      /\ g \in issued /\ g \in issued'
      /\ grants[g] \in Grant
      /\ now' = now
      /\ ~grants[g].used
      /\ grants[g].status \in {"pending", "approved"}
      /\ ~(grants[g].expiresAt <= now)
  BY DEF Approve, ApproveApproval, Approvable, Stored, Expired, StoreInv,
         StoreTypeOK, Grant
<1>2. /\ grants'[g].used = grants[g].used
      /\ grants'[g].expiresAt = grants[g].expiresAt
      /\ grants'[g].status = "approved"
      /\ grants'[g].actionHash = grants[g].actionHash
  BY <1>1 DEF Approve, ApproveApproval, Grant, Stored
<1>3. /\ Mandate(g) = IF grants[g].status = "pending" THEN "open" ELSE "granted"
      /\ Mandate(g)' = "granted"
  BY <1>1, <1>2 DEF Mandate, Expired
<1>4. Asked(g)' = Asked(g)
  BY <1>2, <1>3 DEF Asked
<1>5. \A h \in GrantIds \ {g} : Kept(h)
  BY <1>1, UntouchedIsKept DEF Approve, ApproveApproval, Stored
<1>6. CASE grants[g].status = "pending"
  BY <1>3, <1>4, <1>5, <1>6, OneIsGranted
<1>7. CASE grants[g].status # "pending"
  <2>1. \A h \in GrantIds : Kept(h)
    BY <1>3, <1>4, <1>5, <1>7 DEF Kept
  <2> QED  BY <2>1, NothingHappens
<1> QED  BY <1>6, <1>7

\* Rejection refuses an open mandate; of a closed or refused one it changes
\* nothing.
LEMMA RejectRefuses ==
    ASSUME StoreInv, NEW g \in GrantIds, NEW operator \in Operators,
           Reject(g, operator), Effects' = Effects
    PROVE  [Authority!Next]_(Authority!vars)
<1>1. /\ Stored(g) /\ Stored(g)'
      /\ g \in issued /\ g \in issued'
      /\ grants[g] \in Grant
      /\ now' = now
      /\ ~grants[g].used
      /\ grants[g].status \in {"pending", "rejected"}
  BY DEF Reject, RejectApproval, Rejectable, Stored, StoreInv, StoreTypeOK,
         Grant
<1>2. /\ grants'[g].used = grants[g].used
      /\ grants'[g].expiresAt = grants[g].expiresAt
      /\ grants'[g].status = "rejected"
      /\ grants'[g].actionHash = grants[g].actionHash
  BY <1>1 DEF Reject, RejectApproval, Grant, Stored
<1>3. \A h \in GrantIds \ {g} : Kept(h)
  BY <1>1, UntouchedIsKept DEF Reject, RejectApproval, Stored
<1>4. CASE ~(grants[g].expiresAt <= now) /\ grants[g].status = "pending"
  <2>1. Mandate(g) = "open" /\ Mandate(g)' = "refused"
    BY <1>1, <1>2, <1>4 DEF Mandate, Expired
  <2>2. Asked(g)' = Asked(g)
    BY <1>2, <2>1 DEF Asked
  <2> QED  BY <1>3, <2>1, <2>2, OneIsRefused
<1>5. CASE grants[g].expiresAt <= now \/ grants[g].status = "rejected"
  <2>1. Mandate(g)' = Mandate(g)
    BY <1>1, <1>2, <1>5 DEF Mandate, Expired
  <2>2. Asked(g)' = Asked(g)
    BY <1>2, <2>1 DEF Asked
  <2>3. \A h \in GrantIds : Kept(h)
    BY <1>3, <2>1, <2>2 DEF Kept
  <2> QED  BY <2>3, NothingHappens
<1> QED  BY <1>1, <1>4, <1>5

\* An issued grant that is not live is closed.
LEMMA MandateOfIssued ==
    ASSUME NEW g \in GrantIds, g \in issued
    PROVE  Mandate(g) \in {"open", "granted", "refused", "closed"}
BY DEF Mandate

\* A closed mandate asks for nothing.
LEMMA ClosedIsKept ==
    ASSUME NEW g, Mandate(g) = "closed", Mandate(g)' = "closed"
    PROVE  Kept(g)
BY DEF Kept, Asked

\* Consumption, clearing and the passing of time close mandates.
LEMMA EndingCloses ==
    ASSUME StoreInv, NEW T \in SUBSET GrantIds, issued' = issued,
           \A g \in T : g \in issued /\ Mandate(g)' = "closed",
           \A g \in GrantIds \ T : Kept(g),
           Effects' = Effects
    PROVE  Authority!Next
<1>1. ASSUME NEW g \in GrantIds
      PROVE  \/ Kept(g)
             \/ /\ Mandate(g) \in {"open", "granted", "refused"}
                /\ Mandate(g)' = "closed"
  BY MandateOfIssued, ClosedIsKept
<1> QED  BY <1>1, SomeClose

\* Consuming a stored grant closes its mandate, whatever it was before.
LEMMA ConsumeCloses ==
    ASSUME StoreInv, NEW g \in GrantIds, Consume(g), Effects' = Effects
    PROVE  Authority!Next
<1> DEFINE T == {h \in {g} : Stored(h)}
<1>1. issued' = issued /\ now' = now /\ DOMAIN grants' = DOMAIN grants
  BY DEF Consume, ConsumeApproval
<1>2. ASSUME NEW h \in T
      PROVE  h \in issued /\ Mandate(h)' = "closed"
  <2>1. h = g /\ Stored(g) /\ g \in issued /\ grants[g] \in Grant
    BY DEF Stored, StoreInv, StoreTypeOK
  <2>2. grants'[g].used
    BY <2>1 DEF Consume, ConsumeApproval, Stored, Grant
  <2> QED  BY <1>1, <2>1, <2>2 DEF Mandate
<1>3. ASSUME NEW h \in GrantIds \ T
      PROVE  Kept(h)
  BY <1>1, UntouchedIsKept DEF Consume, ConsumeApproval, Stored
<1> QED  BY <1>1, <1>2, <1>3, EndingCloses

\* Clearing the store closes the mandates of all stored grants.
LEMMA ClearCloses ==
    ASSUME StoreInv, Clear, Effects' = Effects
    PROVE  Authority!Next
<1> DEFINE T == {h \in GrantIds : Stored(h)}
<1>1. issued' = issued /\ now' = now
  BY DEF Clear, ClearApprovals
<1>2. ASSUME NEW h \in T
      PROVE  h \in issued /\ Mandate(h)' = "closed"
  BY <1>1 DEF Clear, ClearApprovals, Mandate, Stored, StoreInv, StoreTypeOK
<1>3. ASSUME NEW h \in GrantIds \ T
      PROVE  Kept(h)
  BY <1>1, UntouchedIsKept DEF Clear, ClearApprovals, Stored
<1> QED  BY <1>1, <1>2, <1>3, EndingCloses

\* A tick of the clock closes the mandates that expire on it.
LEMMA TickCloses ==
    ASSUME StoreInv, Tick, Effects' = Effects
    PROVE  Authority!Next
<1> DEFINE T == {h \in GrantIds : Stored(h) /\ Expired(h)'}
<1>1. issued' = issued /\ grants' = grants /\ now' = now + 1 /\ now \in Nat
  BY DEF Tick, StoreInv, StoreTypeOK
<1>2. ASSUME NEW h \in T
      PROVE  h \in issued /\ Mandate(h)' = "closed"
  BY <1>1 DEF Mandate, Stored, StoreInv, StoreTypeOK
<1>3. ASSUME NEW h \in GrantIds \ T
      PROVE  Kept(h)
  <2>1. Stored(h) => grants[h].expiresAt \in Nat
    BY DEF Stored, StoreInv, StoreTypeOK, Grant
  <2>2. Stored(h) => ~Expired(h) /\ ~Expired(h)'
    BY <1>1, <2>1 DEF Expired
  <2> QED  BY <1>1, <2>2 DEF Kept, Mandate, Asked, Stored
<1> QED  BY <1>1, <1>2, <1>3, EndingCloses

\* A step of the store that starts no executor is a step of the authority.
LEMMA StoreStepRefines ==
    ASSUME StoreInv, [StoreNext]_storeVars, Effects' = Effects
    PROVE  [Authority!Next]_(Authority!vars)
<1>1. ASSUME NEW g \in GrantIds, NEW p \in Proposal, RequestApproval(g, p)
      PROVE  Authority!Next
  <2>1. ActionOf(p) \in Action
    BY DEF Proposal, ActionOf, Action, AuthorityRelevantContext, Context,
           StableContext
  <2> QED  BY <1>1, <2>1, RequestOpens
<1>2. ASSUME NEW g \in GrantIds, NEW operator \in Operators,
             Approve(g, operator)
      PROVE  [Authority!Next]_(Authority!vars)
  BY <1>2, ApproveGrants
<1>3. ASSUME NEW g \in GrantIds, NEW operator \in Operators,
             Reject(g, operator)
      PROVE  [Authority!Next]_(Authority!vars)
  BY <1>3, RejectRefuses
<1>4. ASSUME NEW g \in GrantIds, Consume(g)
      PROVE  Authority!Next
  BY <1>4, ConsumeCloses
<1>5. CASE Clear
  BY <1>5, ClearCloses
<1>6. CASE Tick
  BY <1>6, TickCloses
<1>7. CASE UNCHANGED storeVars
  <2>1. \A h \in GrantIds : Kept(h)
    BY <1>7, UntouchedIsKept DEF storeVars, Stored
  <2> QED  BY <2>1, NothingHappens
<1> QED  BY <1>1, <1>2, <1>3, <1>4, <1>5, <1>6, <1>7 DEF StoreNext

-----------------------------------------------------------------------------
\* What a step of the gateway does to the effects.

\* A call that was never submitted has not run; without this a submission
\* could take back an effect.
IdleIsBlank == \A c \in Requests : calls[c].pc = "idle" => ~calls[c].ran

RefInv == TypeOK /\ StoreInv /\ IdleIsBlank

\* The start of an executor is the only thing Effects depends on.
LEMMA SameEffects ==
    ASSUME \A c \in Requests :
               /\ NeededApproval(c)' <=> NeededApproval(c)
               /\ NeededApproval(c) =>
                      /\ calls'[c].approvalId = calls[c].approvalId
                      /\ calls'[c].action = calls[c].action
    PROVE  Effects' = Effects
<1>1. Effects' \subseteq Effects
  BY DEF Effects
<1>2. Effects \subseteq Effects'
  BY DEF Effects
<1> QED  BY <1>1, <1>2

\* Only calls that are not yet submitted are submitted.
LEMMA ExecuteFromIdle ==
    ASSUME NEW c \in Requests, NEW r \in Submission, Execute(c, r)
    PROVE  calls[c].pc = "idle"
BY DEF Execute, RefuseContext, DenyCall, AskForApproval, KeepWaiting,
       AnswerRejected, AnswerInvalidated, FailToHash, AnswerNoExecutor,
       Invoke, Admitted, Submitted

\* An approved retry comes under a granted mandate for its very action.
LEMMA ApprovedIsGranted ==
    ASSUME RefInv, NEW c \in Requests, NEW r \in Submission, Approved(c, r)
    PROVE  /\ r.approvalId \in GrantIds
           /\ Mandate(r.approvalId) = "granted"
           /\ Asked(r.approvalId) = ActionOf(ProposalOf(c, r))
<1> DEFINE g == r.approvalId
<1>1. g \in GrantIds /\ Redeemable(g)
  BY DEF Approved, ValidApproval, Submission
<1>2. grants[g].actionHash.action = ActionOf(ProposalOf(c, r))
  BY DEF Approved, ValidApproval, HashApprovalAction
<1>3. g \in issued
  BY <1>1 DEF Redeemable, Stored, RefInv, StoreInv, StoreTypeOK
<1>4. Mandate(g) = "granted"
  BY <1>1, <1>3 DEF Redeemable, Mandate
<1> QED  BY <1>1, <1>2, <1>4 DEF Asked

\* A submission runs under a granted mandate, adds no effect, or is a step of
\* the store.
LEMMA ExecuteRefines ==
    ASSUME RefInv, NEW c \in Requests, NEW r \in Submission, Execute(c, r)
    PROVE  [Authority!Next]_(Authority!vars)
<1>1. PICK call \in Call, t \in Seq(Event) : Settled(c, r, call, t)
  BY ExecuteSettles DEF RefInv
<1>2. /\ ~calls[c].ran /\ calls \in [Requests -> Call]
      /\ calls' = [calls EXCEPT ![c] = call]
  BY <1>1, ExecuteFromIdle DEF Settled, RefInv, IdleIsBlank, TypeOK
<1>3. /\ \A d \in Requests \ {c} : calls'[d] = calls[d]
      /\ calls'[c] = call
  BY <1>2
<1>4. CASE call.ran /\ call.decision = "REQUIRE_APPROVAL"
  <2>1. /\ Cleared(c, r) /\ DecisionOn(r.tool) = "REQUIRE_APPROVAL"
        /\ UNCHANGED storeVars
    BY <1>1, <1>4 DEF Settled
  <2>2. Approved(c, r)
    BY <2>1 DEF Cleared
  <2>3. /\ r.approvalId \in GrantIds
        /\ Mandate(r.approvalId) = "granted"
        /\ Asked(r.approvalId) = call.action
        /\ call.approvalId = r.approvalId
    BY <1>1, <2>2, ApprovedIsGranted DEF Settled
  <2>4. \A h \in GrantIds : Kept(h)
    BY <2>1, UntouchedIsKept DEF storeVars, Stored
  <2> DEFINE e == [call |-> c, id |-> r.approvalId,
                   action |-> Asked(r.approvalId)]
  <2>5. NeededApproval(c)' /\ ~NeededApproval(c)
    BY <1>2, <1>3, <1>4 DEF NeededApproval
  <2>6. \A d \in Requests \ {c} : NeededApproval(d)' <=> NeededApproval(d)
    BY <1>3 DEF NeededApproval
  <2>7. Effects' \subseteq Effects \cup {e}
    BY <1>3, <2>3, <2>6 DEF Effects
  <2>8. Effects \subseteq Effects'
    BY <1>3, <2>5, <2>6 DEF Effects
  <2>9. e \in Effects'
    BY <1>3, <2>3, <2>5 DEF Effects
  <2> QED  BY <2>3, <2>4, <2>7, <2>8, <2>9, OneRuns
<1>5. CASE ~(call.ran /\ call.decision = "REQUIRE_APPROVAL")
  <2>1. Effects' = Effects
    BY <1>2, <1>3, <1>5, SameEffects DEF NeededApproval
  <2>2. [StoreNext]_storeVars
    BY StepIsStoreStep DEF RefInv, Next
  <2> QED  BY <2>1, <2>2, StoreStepRefines DEF RefInv
<1> QED  BY <1>4, <1>5

\* The end of an execution starts nothing.
LEMMA FinishRefines ==
    ASSUME RefInv, NEW c \in Requests, NEW result \in Results,
           Finish(c, result)
    PROVE  [Authority!Next]_(Authority!vars)
<1>1. PICK call \in Call, t \in Seq(Event) : Ended(c, call, t)
  BY FinishEnds DEF RefInv
<1>2. /\ \A d \in Requests \ {c} : calls'[d] = calls[d]
      /\ calls'[c] = call
  BY <1>1 DEF Ended, RefInv, TypeOK
<1>3. Effects' = Effects
  BY <1>1, <1>2, SameEffects DEF Ended, NeededApproval
<1>4. [StoreNext]_storeVars
  BY StepIsStoreStep DEF RefInv, Next
<1> QED  BY <1>3, <1>4, StoreStepRefines DEF RefInv

\* Decisions and the host program's operations leave every call as it is, and
\* a restart ends only calls.
LEMMA OtherStepsKeepCalls ==
    ASSUME RefInv,
           \/ \E g \in GrantIds, operator \in Operators :
                  PostApprove(g, operator) \/ PostReject(g, operator)
           \/ \E tool \in Tools, metadata \in Metadata :
                  RegisterTool(tool, metadata)
           \/ \E tool \in Tools : SetExecutor(tool)
           \/ \E config \in PolicyConfigs : LoadPolicy(config)
           \/ PassTime
           \/ Restart
           \/ UNCHANGED vars
    PROVE  /\ \A c \in Requests :
                  /\ \/ calls'[c] = calls[c]
                     \/ calls[c].pc = "executing" /\ calls'[c].pc = "lost"
                  /\ calls'[c].ran = calls[c].ran
                  /\ calls'[c].decision = calls[c].decision
                  /\ calls'[c].approvalId = calls[c].approvalId
                  /\ calls'[c].action = calls[c].action
           /\ Effects' = Effects
<1>1. CASE Restart
  <2>1. ASSUME NEW c \in Requests
        PROVE  /\ \/ calls'[c] = calls[c]
                  \/ calls[c].pc = "executing" /\ calls'[c].pc = "lost"
               /\ calls'[c].ran = calls[c].ran
               /\ calls'[c].decision = calls[c].decision
               /\ calls'[c].approvalId = calls[c].approvalId
               /\ calls'[c].action = calls[c].action
    <3>1. calls[c] \in Call
      BY DEF RefInv, TypeOK
    <3>2. calls'[c] = IF calls[c].pc = "executing"
                      THEN [calls[c] EXCEPT !.pc = "lost"]
                      ELSE calls[c]
      BY <1>1 DEF Restart
    <3>3. CASE calls[c].pc = "executing"
      <4>1. calls'[c] = [calls[c] EXCEPT !.pc = "lost"]
        BY <3>2, <3>3
      <4> QED  BY <3>1, <3>3, <4>1 DEF Call
    <3>4. CASE calls[c].pc # "executing"
      BY <3>2, <3>4
    <3> QED  BY <3>3, <3>4
  <2> QED  BY <2>1, SameEffects DEF NeededApproval
<1>2. CASE ~Restart
  <2>1. calls' = calls
    BY <1>2 DEF PostApprove, PostReject, RegisterTool, SetExecutor, LoadPolicy,
                PassTime, vars
  <2>2. Effects' = Effects
    BY <2>1, SameEffects DEF NeededApproval
  <2> QED  BY <2>1, <2>2
<1> QED  BY <1>1, <1>2

\* Every step of the gateway is a step of the authority, or none.
LEMMA StepRefines ==
    RefInv /\ [Next]_vars => [Authority!Next]_(Authority!vars)
<1> SUFFICES ASSUME RefInv, [Next]_vars
             PROVE  [Authority!Next]_(Authority!vars)
  OBVIOUS
<1>1. ASSUME NEW c \in Requests, NEW r \in Submission, Execute(c, r)
      PROVE  [Authority!Next]_(Authority!vars)
  BY <1>1, ExecuteRefines
<1>2. ASSUME NEW c \in Requests, NEW result \in Results, Finish(c, result)
      PROVE  [Authority!Next]_(Authority!vars)
  BY <1>2, FinishRefines
<1>3. ASSUME Effects' = Effects
      PROVE  [Authority!Next]_(Authority!vars)
  BY <1>3, StepIsStoreStep, StoreStepRefines DEF RefInv
<1> QED  BY <1>1, <1>2, <1>3, OtherStepsKeepCalls DEF Next

\* Submission is the only way to run.
LEMMA IdleStaysBlank == RefInv /\ [Next]_vars => IdleIsBlank'
<1> SUFFICES ASSUME RefInv, [Next]_vars
             PROVE  IdleIsBlank'
  OBVIOUS
<1>1. ASSUME NEW c \in Requests, NEW r \in Submission, Execute(c, r)
      PROVE  IdleIsBlank'
  BY <1>1, ExecuteSettles DEF Settled, RefInv, IdleIsBlank, TypeOK
<1>2. ASSUME NEW c \in Requests, NEW result \in Results, Finish(c, result)
      PROVE  IdleIsBlank'
  <2>1. PICK call \in Call, t \in Seq(Event) : Ended(c, call, t)
    BY <1>2, FinishEnds DEF RefInv
  <2> QED  BY <2>1 DEF Ended, RefInv, IdleIsBlank, TypeOK
<1>3. ASSUME \A c \in Requests :
                 /\ \/ calls'[c] = calls[c]
                    \/ calls[c].pc = "executing" /\ calls'[c].pc = "lost"
                 /\ calls'[c].ran = calls[c].ran
      PROVE  IdleIsBlank'
  BY <1>3 DEF RefInv, IdleIsBlank
<1> QED  BY <1>1, <1>2, <1>3, OtherStepsKeepCalls DEF Next

\* The invariant under which the refinement holds.
THEOREM RefinementInvariant == Spec => []RefInv
<1>1. Init => IdleIsBlank
  BY DEF Init, IdleIsBlank, IdleCall
<1>2. (TypeOK /\ StoreInv) /\ IdleIsBlank /\ [Next]_vars => IdleIsBlank'
  BY IdleStaysBlank DEF RefInv
<1>3. RefInv <=> (TypeOK /\ StoreInv) /\ IdleIsBlank
  BY DEF RefInv
<1> QED  BY <1>1, <1>2, <1>3, TypeCorrect, PTL DEF Spec

\* The gateway keeps the authority's promise: an approval-gated executor is
\* started only under a live grant that a human gave for exactly the server,
\* tool, arguments and context it is started with, and no mandate that was
\* closed or refused is ever live again.
THEOREM GatewayImplementsAuthority == Spec => AuthoritySpec
<1>1. Init => Authority!Init
  <2> SUFFICES ASSUME Init PROVE Authority!Init
    OBVIOUS
  <2>1. \A g \in GrantIds : Mandate(g) = "none" /\ Asked(g) = None
    BY DEF Init, StoreInit, Mandate, Asked
  <2>2. Effects = {}
    BY DEF Init, Effects, NeededApproval, IdleCall
  <2> QED  BY <2>1, <2>2 DEF Authority!Init
<1>2. RefInv /\ [Next]_vars => [Authority!Next]_(Authority!vars)
  BY StepRefines
<1> QED  BY <1>1, <1>2, RefinementInvariant, PTL
         DEF Spec, AuthoritySpec, Authority!Spec
=============================================================================
