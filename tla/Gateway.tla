------------------------------ MODULE Gateway ------------------------------
(***************************************************************************)
(* Gateway.execute and the approval routes: many agents' calls and many    *)
(* operators' decisions on one event loop. Everything between two awaits   *)
(* is one step. A call has two: the pipeline up to the invocation of the   *)
(* executor (or an earlier return), and, when the executor settles, the    *)
(* classification, the audit records and the consumption of the grant.     *)
(*                                                                         *)
(* The module models a gateway whose content preflight is disabled, which  *)
(* is the default: preflightReadResult then returns undefined at once.     *)
(***************************************************************************)
EXTENDS ApprovalStore, OutcomeClassifier, PolicyEngine, AuditLog

CONSTANTS
    Metadata,           \* tool metadata hosts may register: [server, risk]
    StartRegistry,      \* what a new process registers before it serves
    StartExecutors,     \* the tools that have an executor from the start
    PolicyConfigs,      \* policy files the process may load
    PinnedPrincipals,   \* credentials whose profile fixes a session id
    RefusedPrincipals,  \* contexts that do not parse, or name another policy
                        \* version
    Uncanonical,        \* arguments the canonical serializer rejects
    Messages,           \* error messages of executors, as sets of keywords
    AuditBackend        \* "memory" or "sqlite"

ASSUME GatewayAssumption ==
    /\ Metadata \subseteq [server : Servers, risk : RiskClasses]
    /\ DOMAIN StartRegistry \subseteq Tools
    /\ StartRegistry \in [DOMAIN StartRegistry -> Metadata]
    /\ StartExecutors \subseteq Tools
    /\ \A config \in PolicyConfigs :
           /\ DOMAIN config \subseteq Tools
           /\ config \in [DOMAIN config -> ApprovalModes]
    /\ Uncanonical \subseteq Arguments
    /\ None \notin GrantIds

VARIABLES
    registry,       \* ToolRegistry: tool -> metadata
    executors,      \* tools with an executor
    policy,         \* the loaded policy configuration
    calls,          \* the calls to execute(), one for each request id
    audit,          \* the audit events of each call, in order
    decisionLog     \* the audit records of operators' decisions

hostVars == <<registry, executors, policy>>
vars == <<storeVars, hostVars, calls, audit, decisionLog>>

-----------------------------------------------------------------------------
Submission ==
    [tool : Tools, arguments : Arguments, principal : Principals,
     actionId : ActionIds \cup {None}, approvalId : GrantIds \cup {None}]

EventTypes ==
    {"TOOL_CALL_REQUESTED", "POLICY_CHECKED", "APPROVAL_REQUESTED",
     "APPROVAL_DENIED", "APPROVAL_INVALIDATED", "TOOL_EXECUTED",
     "TOOL_FAILED", "OUTCOME_GENERATED"}

\* An event as the log gives it back.
Event == [type : EventTypes, outcome : Outcome \cup {None}]
Mark(type) == [type |-> type, outcome |-> None]
WithOutcome(type, outcome) ==
    [type |-> type,
     outcome |-> IF AuditBackend = "sqlite" THEN WithoutAdvice(outcome)
                 ELSE outcome]
Generated(outcome) == WithOutcome("OUTCOME_GENERATED", outcome)

\* idle: not submitted; executing: awaiting the executor; returned: answered;
\* threw: execute() rejected (HTTP 500); lost: the process died first.
CallStates == {"idle", "executing", "returned", "threw", "lost"}

Call == [pc : CallStates, action : Action \cup {None},
         approvalId : GrantIds \cup {None},
         decision : Decisions \cup {None}, ran : BOOLEAN,
         outcome : Outcome \cup {None}, grantId : GrantIds \cup {None}]

IdleCall == [pc |-> "idle", action |-> None, approvalId |-> None,
             decision |-> None, ran |-> FALSE, outcome |-> None,
             grantId |-> None]

WaitingForApproval ==
    MkOutcome("WAITING_FOR_APPROVAL", "APPROVAL_REQUIRED", TRUE, TRUE, FALSE)

PermissionDenied ==
    MkOutcome("DENIED", "PERMISSION_DENIED", FALSE, FALSE, FALSE)

-----------------------------------------------------------------------------
\* Without a session id in its profile a credential gets a random one for
\* every request; the request id itself is always fresh.
ContextFor(c, r) ==
    [principal |-> r.principal,
     session |-> IF r.principal \in PinnedPrincipals THEN r.principal ELSE c,
     actionId |-> r.actionId, request |-> c]

ServerOf(tool) ==
    IF tool \in DOMAIN registry THEN registry[tool].server ELSE None

ProposalOf(c, r) ==
    [server |-> ServerOf(r.tool), tool |-> r.tool,
     arguments |-> r.arguments, context |-> ContextFor(c, r)]

DecisionOn(tool) == Evaluate(policy, tool, Classify(registry, tool))

NeedsApproval(r) == DecisionOn(r.tool) = "REQUIRE_APPROVAL"

Canonical(r) == r.arguments \notin Uncanonical

\* Mutant: an approval covers whatever is retried under its id.
ApprovedForAnything(c, r) ==
    r.approvalId # None /\ Canonical(r) /\ Redeemable(r.approvalId)

\* checkApproval succeeds: the retry may run.
Approved(c, r) ==
    /\ r.approvalId # None
    /\ Canonical(r)
    /\ ValidApproval(r.approvalId, ProposalOf(c, r))

Cleared(c, r) ==
    \/ DecisionOn(r.tool) = "ALLOW"
    \/ NeedsApproval(r) /\ Approved(c, r)

\* Hashing the call throws: when approval is first requested, or when a retry
\* gets as far as comparing hashes.
CannotBeHashed(r) ==
    /\ NeedsApproval(r)
    /\ ~Canonical(r)
    /\ IF r.approvalId = None THEN r.tool \in DOMAIN registry
       ELSE Redeemable(r.approvalId)

-----------------------------------------------------------------------------
\* Every audit record may throw when the log is a SQLite file, never when it
\* is in memory. A throw skips the rest of the handler.
Written(trail) ==
    IF AuditBackend = "sqlite" THEN 0 .. Len(trail) ELSE {Len(trail)}

Preamble == <<Mark("TOOL_CALL_REQUESTED"), Mark("POLICY_CHECKED")>>

SubmittedCall(c, r, pc, outcome, grantId) ==
    [pc |-> pc, action |-> ActionOf(ProposalOf(c, r)),
     approvalId |-> r.approvalId, decision |-> DecisionOn(r.tool),
     ran |-> FALSE, outcome |-> outcome, grantId |-> grantId]

ThrownCall(c, r) == SubmittedCall(c, r, "threw", None, None)

\* Call c is submitted as r. Only ids that were issued are submitted: one that
\* never was fares like one that a restart has forgotten.
Submitted(c, r) ==
    /\ calls[c].pc = "idle"
    /\ r.approvalId # None => r.approvalId \in issued

\* Its execution context parses under the configured policy version.
Admitted(c, r) == Submitted(c, r) /\ r.principal \notin RefusedPrincipals

\* The handler writes the events of trail one by one and then answers.
Answer(c, r, trail, outcome, grantId) ==
    \E n \in Written(trail) :
        /\ audit' = [audit EXCEPT ![c] = SubSeq(trail, 1, n)]
        /\ calls' = [calls EXCEPT ![c] =
               IF n = Len(trail)
               THEN SubmittedCall(c, r, "returned", outcome, grantId)
               ELSE ThrownCall(c, r)]
        /\ UNCHANGED <<storeVars, hostVars, decisionLog>>

-----------------------------------------------------------------------------
\* The first segment of execute(), one action for each way it can end.

\* Nothing is audited when the execution context is refused.
RefuseContext(c, r) ==
    /\ Submitted(c, r)
    /\ r.principal \in RefusedPrincipals
    /\ calls' = [calls EXCEPT ![c] =
           [SubmittedCall(c, r, "returned", PermissionDenied, None)
               EXCEPT !.decision = None]]
    /\ UNCHANGED <<storeVars, hostVars, audit, decisionLog>>

\* The policy denies the call, or demands approval of a tool that has no
\* metadata to bind an approval to.
DenyCall(c, r) ==
    /\ Admitted(c, r)
    /\ \/ DecisionOn(r.tool) = "DENY"
       \/ /\ NeedsApproval(r)
          /\ r.approvalId = None
          /\ r.tool \notin DOMAIN registry
    /\ Answer(c, r, Append(Preamble, Generated(PolicyDenied)),
              PolicyDenied, None)

\* The grant exists from the moment it is stored, even when the audit record
\* that follows throws and the agent never learns its id.
AskForApproval(c, r, g) ==
    LET trail == Append(Preamble, Mark("APPROVAL_REQUESTED")) IN
    /\ Admitted(c, r)
    /\ NeedsApproval(r)
    /\ r.approvalId = None
    /\ r.tool \in DOMAIN registry
    /\ Canonical(r)
    /\ g \notin issued
    /\ \E n \in Written(trail) :
        /\ audit' = [audit EXCEPT ![c] = SubSeq(trail, 1, n)]
        /\ calls' = [calls EXCEPT ![c] =
               IF n = Len(trail)
               THEN SubmittedCall(c, r, "returned", WaitingForApproval, g)
               ELSE ThrownCall(c, r)]
        /\ IF n >= Len(Preamble)
           THEN StoreApproval(g, ProposalOf(c, r), now + TTL)
           ELSE UNCHANGED <<grants, issued>>
    /\ UNCHANGED <<now, hostVars, decisionLog>>

\* Mutant: every answer is audited as an outcome, also the one to wait.
KeepWaitingAudited(c, r) ==
    /\ Admitted(c, r)
    /\ NeedsApproval(r)
    /\ r.approvalId # None
    /\ StillPending(r.approvalId)
    /\ Answer(c, r, Append(Preamble, Generated(WaitingForApproval)),
              WaitingForApproval, r.approvalId)

\* A retry that comes before the decision is told to wait; no outcome event.
KeepWaiting(c, r) ==
    /\ Admitted(c, r)
    /\ NeedsApproval(r)
    /\ r.approvalId # None
    /\ StillPending(r.approvalId)
    /\ Answer(c, r, Preamble, WaitingForApproval, r.approvalId)

AnswerRejected(c, r) ==
    /\ Admitted(c, r)
    /\ NeedsApproval(r)
    /\ r.approvalId # None
    /\ StillRejected(r.approvalId)
    /\ Answer(c, r,
              Preamble \o <<Mark("APPROVAL_DENIED"), Generated(PolicyDenied)>>,
              PolicyDenied, None)

\* Mutant: the log calls an invalidated approval a policy denial.
AnswerInvalidatedAsDenied(c, r) ==
    /\ Admitted(c, r)
    /\ NeedsApproval(r)
    /\ r.approvalId # None
    /\ ~StillPending(r.approvalId)
    /\ ~StillRejected(r.approvalId)
    /\ ~CannotBeHashed(r)
    /\ ~Approved(c, r)
    /\ Answer(c, r,
              Preamble \o <<Mark("APPROVAL_INVALIDATED"),
                            Generated(PolicyDenied)>>,
              ApprovalInvalidated, None)

\* Unknown, used, expired and mismatched grants are all answered alike.
AnswerInvalidated(c, r) ==
    /\ Admitted(c, r)
    /\ NeedsApproval(r)
    /\ r.approvalId # None
    /\ ~StillPending(r.approvalId)
    /\ ~StillRejected(r.approvalId)
    /\ ~CannotBeHashed(r)
    /\ ~Approved(c, r)
    /\ Answer(c, r,
              Preamble \o <<Mark("APPROVAL_INVALIDATED"),
                            Generated(ApprovalInvalidated)>>,
              ApprovalInvalidated, None)

\* The serializer's TypeError leaves execute() after two audit events.
FailToHash(c, r) ==
    /\ Admitted(c, r)
    /\ CannotBeHashed(r)
    /\ \E n \in Written(Preamble) :
           audit' = [audit EXCEPT ![c] = SubSeq(Preamble, 1, n)]
    /\ calls' = [calls EXCEPT ![c] = ThrownCall(c, r)]
    /\ UNCHANGED <<storeVars, hostVars, decisionLog>>

\* Mutant: a missing executor is reported but not audited.
AnswerNoExecutorUnaudited(c, r) ==
    /\ Admitted(c, r)
    /\ Cleared(c, r)
    /\ r.tool \notin executors
    /\ Answer(c, r, Preamble, ClassifyOutcome(FailedWith("UNKNOWN_FAILURE")),
              None)

\* No executor: the grant, if any, is checked but not consumed.
AnswerNoExecutor(c, r) ==
    LET outcome == ClassifyOutcome(FailedWith("UNKNOWN_FAILURE")) IN
    /\ Admitted(c, r)
    /\ Cleared(c, r)
    /\ r.tool \notin executors
    /\ Answer(c, r, Append(Preamble, Generated(outcome)), outcome, None)

\* Mutant: the tool is started before the call is audited.
InvokeUnaudited(c, r) ==
    /\ Admitted(c, r)
    /\ Cleared(c, r)
    /\ r.tool \in executors
    /\ calls' = [calls EXCEPT ![c] =
           [SubmittedCall(c, r, "executing", None, None) EXCEPT !.ran = TRUE]]
    /\ UNCHANGED <<storeVars, hostVars, audit, decisionLog>>

\* The executor is called in the same segment as the check; then the await.
Invoke(c, r) ==
    /\ Admitted(c, r)
    /\ Cleared(c, r)
    /\ r.tool \in executors
    /\ \E n \in Written(Preamble) :
        /\ audit' = [audit EXCEPT ![c] = SubSeq(Preamble, 1, n)]
        /\ calls' = [calls EXCEPT ![c] =
               IF n = Len(Preamble)
               THEN [SubmittedCall(c, r, "executing", None, None)
                        EXCEPT !.ran = TRUE]
               ELSE ThrownCall(c, r)]
    /\ UNCHANGED <<storeVars, hostVars, decisionLog>>

-----------------------------------------------------------------------------
\* The two records that follow an execution.
TrailOf(result) ==
    LET outcome == ClassifyOutcome(result)
        type == IF result.success THEN "TOOL_EXECUTED" ELSE "TOOL_FAILED"
    IN  <<WithOutcome(type, outcome), Generated(outcome)>>

ConsumeFor(c) ==
    IF calls[c].approvalId # None THEN ConsumeApproval(calls[c].approvalId)
    ELSE UNCHANGED <<grants, issued>>

\* Mutant: only a successful execution consumes the grant.
FinishConsumingSuccess(c, result) ==
    LET outcome == ClassifyOutcome(result)
        trail == TrailOf(result)
    IN
    /\ calls[c].pc = "executing"
    /\ \E n \in Written(trail) :
        /\ audit' = [audit EXCEPT ![c] = @ \o SubSeq(trail, 1, n)]
        /\ calls' = [calls EXCEPT
               ![c].pc = IF n = Len(trail) THEN "returned" ELSE "threw",
               ![c].outcome = IF n = Len(trail) THEN outcome ELSE None]
        /\ IF n = Len(trail) /\ result.success THEN ConsumeFor(c)
           ELSE UNCHANGED <<grants, issued>>
    /\ UNCHANGED <<now, hostVars, decisionLog>>

\* Mutant: a failing audit record no longer fails the call, and the grant
\* stays as it was.
FinishDespiteAuditFailure(c, result) ==
    LET trail == TrailOf(result) IN
    /\ calls[c].pc = "executing"
    /\ \E n \in Written(trail) :
        /\ audit' = [audit EXCEPT ![c] = @ \o SubSeq(trail, 1, n)]
        /\ calls' = [calls EXCEPT ![c].pc = "returned",
                                  ![c].outcome = ClassifyOutcome(result)]
        /\ IF n = Len(trail) THEN ConsumeFor(c)
           ELSE UNCHANGED <<grants, issued>>
    /\ UNCHANGED <<now, hostVars, decisionLog>>

\* The second segment: the executor of call c settled with a result. The
\* grant is consumed after the last audit record, for every call that came
\* with an approval id, also when the policy never asked for one.
Finish(c, result) ==
    LET outcome == ClassifyOutcome(result)
        trail == TrailOf(result)
    IN
    /\ calls[c].pc = "executing"
    /\ \E n \in Written(trail) :
        /\ audit' = [audit EXCEPT ![c] = @ \o SubSeq(trail, 1, n)]
        /\ calls' = [calls EXCEPT
               ![c].pc = IF n = Len(trail) THEN "returned" ELSE "threw",
               ![c].outcome = IF n = Len(trail) THEN outcome ELSE None]
        /\ IF n = Len(trail) THEN ConsumeFor(c)
           ELSE UNCHANGED <<grants, issued>>
    /\ UNCHANGED <<now, hostVars, decisionLog>>

\* executeTool catches whatever the executor throws.
Results == {Succeeded} \cup {FailedWith(ClassifyError(m)) : m \in Messages}

-----------------------------------------------------------------------------
\* The approval routes. The operator has been authenticated and holds
\* approvals:decide; decision and audit record share one segment.
LoggedNowhere(record) == UNCHANGED decisionLog   \* mutant: no audit record

Logged(record) ==
    \/ decisionLog' = decisionLog \cup {record}
    \/ AuditBackend = "sqlite" /\ UNCHANGED decisionLog

PostApprove(g, operator) ==
    /\ ApproveApproval(g, operator)
    /\ Logged([type |-> "APPROVAL_GRANTED", operator |-> operator,
               hash |-> HashApprovalBinding(grants[g].actionHash, operator)])
    /\ UNCHANGED <<now, hostVars, calls, audit>>

PostReject(g, operator) ==
    /\ RejectApproval(g, operator)
    /\ Logged([type |-> "APPROVAL_DENIED", operator |-> operator,
               hash |-> grants[g].actionHash])
    /\ UNCHANGED <<now, hostVars, calls, audit>>

-----------------------------------------------------------------------------
\* The host program's side: all of these are public and can run at any time.
RegisterTool(tool, metadata) ==
    /\ registry' = [t \in DOMAIN registry \cup {tool} |->
                       IF t = tool THEN metadata ELSE registry[t]]
    /\ UNCHANGED <<storeVars, executors, policy, calls, audit, decisionLog>>

SetExecutor(tool) ==
    /\ executors' = executors \cup {tool}
    /\ UNCHANGED <<storeVars, registry, policy, calls, audit, decisionLog>>

LoadPolicy(config) ==
    /\ policy' = config
    /\ UNCHANGED <<storeVars, registry, executors, calls, audit, decisionLog>>

PassTime ==
    /\ Tick
    /\ UNCHANGED <<hostVars, calls, audit, decisionLog>>

\* The process dies and is started again: grants and calls in flight are
\* gone, an in-memory audit log with them; a SQLite log survives.
Restart ==
    /\ ClearApprovals
    /\ registry' = StartRegistry
    /\ executors' = StartExecutors
    /\ policy' \in PolicyConfigs
    /\ calls' = [c \in Requests |->
           IF calls[c].pc = "executing" THEN [calls[c] EXCEPT !.pc = "lost"]
           ELSE calls[c]]
    /\ IF AuditBackend = "memory"
       THEN audit' = [c \in Requests |-> <<>>] /\ decisionLog' = {}
       ELSE UNCHANGED <<audit, decisionLog>>
    /\ UNCHANGED now

-----------------------------------------------------------------------------
Init ==
    /\ StoreInit
    /\ registry = StartRegistry
    /\ executors = StartExecutors
    /\ policy \in PolicyConfigs
    /\ calls = [c \in Requests |-> IdleCall]
    /\ audit = [c \in Requests |-> <<>>]
    /\ decisionLog = {}

Execute(c, r) ==
    \/ RefuseContext(c, r)
    \/ DenyCall(c, r)
    \/ \E g \in GrantIds : AskForApproval(c, r, g)
    \/ KeepWaiting(c, r)
    \/ AnswerRejected(c, r)
    \/ AnswerInvalidated(c, r)
    \/ FailToHash(c, r)
    \/ AnswerNoExecutor(c, r)
    \/ Invoke(c, r)

Next ==
    \/ \E c \in Requests, r \in Submission : Execute(c, r)
    \/ \E c \in Requests, result \in Results : Finish(c, result)
    \/ \E g \in GrantIds, operator \in Operators :
           PostApprove(g, operator) \/ PostReject(g, operator)
    \/ \E tool \in Tools, metadata \in Metadata : RegisterTool(tool, metadata)
    \/ \E tool \in Tools : SetExecutor(tool)
    \/ \E config \in PolicyConfigs : LoadPolicy(config)
    \/ PassTime
    \/ Restart

Spec == Init /\ [][Next]_vars

-----------------------------------------------------------------------------
\* An approval is logged with its binding hash, a rejection with the hash of
\* the action alone; neither names the grant.
DecisionRecord ==
    [type : {"APPROVAL_GRANTED"}, operator : Operators, hash : BindingHash]
        \cup
    [type : {"APPROVAL_DENIED"}, operator : Operators, hash : ActionHash]

\* Type invariant of the gateway's own state (index.ts: Gateway).
TypeOK ==
    /\ StoreTypeOK
    /\ DOMAIN registry \subseteq Tools
    /\ registry \in [DOMAIN registry -> Metadata]
    /\ executors \subseteq Tools
    /\ policy \in PolicyConfigs
    /\ calls \in [Requests -> Call]
    /\ audit \in [Requests -> Seq(Event)]
    /\ decisionLog \subseteq DecisionRecord

-----------------------------------------------------------------------------
\* The state of the mandate that approval id g stands for.
Mandate(g) ==
    IF g \notin issued THEN "none"
    ELSE IF ~Stored(g) \/ grants[g].used \/ Expired(g) THEN "closed"
    ELSE IF grants[g].status = "pending" THEN "open"
    ELSE IF grants[g].status = "approved" THEN "granted"
    ELSE "refused"

Asked(g) ==
    IF Mandate(g) \in {"none", "closed"} THEN None
    ELSE grants[g].actionHash.action

NeededApproval(c) == calls[c].ran /\ calls[c].decision = "REQUIRE_APPROVAL"

Effects ==
    {[call |-> c, id |-> calls[c].approvalId, action |-> calls[c].action] :
        c \in {d \in Requests : NeededApproval(d)}}

Authority == INSTANCE ApprovalAuthority
    WITH Ids <- GrantIds, Actions <- Action, Callers <- Requests,
         mandate <- [g \in GrantIds |-> Mandate(g)],
         asked <- [g \in GrantIds |-> Asked(g)],
         effects <- Effects

\* execute() keeps the promise of ApprovalAuthority whatever calls, decisions,
\* expiries, policy reloads, re-registrations and restarts interleave: an
\* approval-gated executor starts only under a live grant that a human gave
\* for exactly the server, tool, arguments and context it is started with,
\* and a mandate that was closed or refused never comes back.
AuthoritySpec == Authority!Spec

-----------------------------------------------------------------------------
\* One-time use, as far as the code enforces it: once a call that ran with a
\* grant has been answered, no call that starts afterwards runs with it.
NoReuseAfterReturn ==
    [][\A c, d \in Requests :
          /\ ~calls[c].ran
          /\ NeededApproval(c)'
          /\ calls[d].pc = "returned"
          /\ calls[d].ran
          => calls'[c].approvalId # calls[d].approvalId]_vars

\* Call c is the retry of what call d was given a grant for.
Resubmits(c, d) ==
    /\ calls[d].approvalId = None
    /\ calls[d].grantId # None
    /\ calls[c].approvalId = calls[d].grantId
    /\ \A field \in {"server", "tool", "arguments"} :
           calls[c].action[field] = calls[d].action[field]
    /\ \A field \in {"principal", "actionId"} :
           calls[c].action.context[field] = calls[d].action.context[field]

\* Call c was told that its approval is not for what it asks.
Invalidated(c) ==
    calls[c].pc = "returned" /\ calls[c].outcome.state = "APPROVAL_INVALIDATED"

\* A faithful retry is never mistaken for a different action: when the same
\* credential, one whose profile names its session, resubmits the call it was
\* given a grant for, the answer is APPROVAL_INVALIDATED only if that grant
\* is really dead.
RetryIsRecognised ==
    \A c, d \in Requests :
        /\ Invalidated(c)
        /\ Resubmits(c, d)
        /\ calls[c].action.context.principal \in PinnedPrincipals
        => Dead(calls[c].approvalId)

OutcomeEvents(c) ==
    {i \in DOMAIN audit[c] : audit[c][i].type = "OUTCOME_GENERATED"}

Executions(c) ==
    {i \in DOMAIN audit[c] :
        audit[c][i].type \in {"TOOL_EXECUTED", "TOOL_FAILED"}}

\* An outcome on record is the one that was told; a SQLite log has dropped the
\* advice that came with it.
Reports(logged, told) ==
    /\ logged.state = told.state
    /\ logged.reason = told.reason
    /\ AuditBackend = "memory" => logged = told

\* The log tells what the caller was told: an answered call whose trail is
\* still there has exactly one outcome event, the last one, or none at all
\* when the answer was to wait; its trail shows an execution exactly when the
\* executor was started; and either event has the state and the reason that
\* were returned and, in memory, the advice as well (index.ts: execute;
\* sqlite-audit-log.ts: rowToEvent).
AuditTellsOutcome ==
    \A c \in Requests :
        calls[c].pc = "returned" /\ audit[c] # <<>> =>
            /\ OutcomeEvents(c) =
                   IF calls[c].outcome = WaitingForApproval THEN {}
                   ELSE {Len(audit[c])}
            /\ calls[c].ran <=> Executions(c) # {}
            /\ \A i \in OutcomeEvents(c) \cup Executions(c) :
                   Reports(audit[c][i].outcome, calls[c].outcome)

\* Evidence precedes effect: while an executor runs, the request and the
\* policy check of its call are in the log, and (unless an audit write can
\* fail) so is an operator's approval of exactly that action.
EvidenceBeforeEffect ==
    \A c \in Requests :
        calls[c].pc = "executing" =>
            /\ audit[c] = Preamble
            /\ AuditBackend = "memory" /\ NeededApproval(c) =>
                   \E record \in decisionLog :
                       /\ record.type = "APPROVAL_GRANTED"
                       /\ record.hash.actionHash.action = calls[c].action

-----------------------------------------------------------------------------
\* What the documents say and the code does not do.

\* "Grants are bounded and one-time use." (docs/APPROVAL_BINDING.md:47)
OneTimeUse ==
    \A c, d \in Requests :
        /\ NeededApproval(c)
        /\ NeededApproval(d)
        /\ calls[c].approvalId = calls[d].approvalId
        => c = d

\* "requestId and causationId are per-attempt observational correlation fields
\* and are excluded from approval binding so an approved action can be retried
\* with a fresh request ID." (docs/APPROVAL_BINDING.md:49): whichever
\* credential retries its own action.
RetryNeedsNoPinnedSession ==
    \A c, d \in Requests :
        Invalidated(c) /\ Resubmits(c, d) => Dead(calls[c].approvalId)

\* "A valid approved grant is consumed after the execution attempt returns."
\* (docs/operations/retry-and-idempotency.md:44): what is consumed has been
\* approved.
ConsumedWasApproved ==
    \A g \in DOMAIN grants : grants[g].used => grants[g].status = "approved"

=============================================================================
