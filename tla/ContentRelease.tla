--------------------------- MODULE ContentRelease ---------------------------
(***************************************************************************)
(* The second half of Gateway.execute for a READ_ONLY tool when content    *)
(* preflight is enabled, and the content approval routes. A read enters    *)
(* when its executor has settled with data. It may await a scanner, the    *)
(* preflight adapter; when that settles one step observes, decides, looks  *)
(* at a receipt, picks the surface and consumes the receipt. The answer    *)
(* itself follows in a later step, after two more audit records.           *)
(***************************************************************************)
EXTENDS ContentApproval, Sequences

CONSTANTS
    Reads,          \* reads whose executor settled with data
    Requests,       \* content access requests of agents
    Observations,   \* what scanners may report
    SurfaceSets,    \* the sets of surfaces adapters may render
    ContentConfigs, \* policy configurations a process may be started with
    StartAdapters,  \* tools with a preflight adapter from the start
    Deployments     \* backends of the audit log and of the receipt store

ASSUME ReleaseAssumption ==
    /\ Requests \subseteq AccessRequest
    /\ Observations \subseteq Observation
    /\ SurfaceSets \subseteq SUBSET (Exposures \ {"NONE"})
    /\ ContentConfigs \subseteq ContentConfig
    /\ StartAdapters \subseteq ReadTools
    /\ Deployments \subseteq [audit : {"memory", "sqlite"},
                              store : {"memory", "sqlite"}]
    /\ None \notin Exposures

VARIABLES
    deployment,     \* the backends in use
    config,         \* the content policy of this process
    adapters,       \* tools with a preflight adapter
    reads,          \* the reads
    audit           \* the audit events of each read, in order

hostVars == <<deployment, config, adapters>>
vars == <<receiptVars, hostVars, reads, audit>>

-----------------------------------------------------------------------------
\* What the agent is answered; exposure is the level of the surface in it,
\* None when there is none at all, and receipt the id it names.
Outcome ==
    [state : {"COMPLETED", "DENIED", "WAITING_FOR_APPROVAL",
              "APPROVAL_INVALIDATED"},
     reason : ReasonCodes, exposure : Exposures \cup {None},
     receipt : ReceiptIds \cup {None}]

\* Absence is not an outcome.
ASSUME OutcomeAssumption == None \notin Outcome

MkOutcome(state, reason, receipt) ==
    [state |-> state, reason |-> reason, exposure |-> None,
     receipt |-> receipt]

Denied(reason) == MkOutcome("DENIED", reason, None)
Waiting(g) ==
    MkOutcome("WAITING_FOR_APPROVAL", "CONTENT_APPROVAL_REQUIRED", g)

Completed(decision, receipt) ==
    [state |-> "COMPLETED", reason |-> decision.reason,
     exposure |-> decision.granted, receipt |-> receipt]

EventTypes ==
    {"CONTENT_PREFLIGHTED", "CONTENT_ACCESS_DECIDED",
     "CONTENT_APPROVAL_REQUESTED", "CONTENT_APPROVAL_INVALIDATED",
     "TOOL_EXECUTED", "OUTCOME_GENERATED"}

Event == [type : EventTypes, action : Actions \cup {None},
          exposure : Exposures \cup {None}]

Mark(type) == [type |-> type, action |-> None, exposure |-> None]

Decided(decision) ==
    [type |-> "CONTENT_ACCESS_DECIDED", action |-> decision.action,
     exposure |-> decision.granted]

\* A denial that has no decision of the policy behind it.
DecidedDeny ==
    [type |-> "CONTENT_ACCESS_DECIDED", action |-> "DENY", exposure |-> None]

\* idle: its executor has not settled; scanning: awaiting the adapter;
\* settled: preflightReadResult resolved, execute() not yet resumed;
\* answered; threw: execute() rejected; lost: the process died first.
ReadStates == {"idle", "scanning", "settled", "answered", "threw", "lost"}

Read == [pc : ReadStates, tool : ReadTools \cup {None},
         request : AccessRequest \cup {None},
         receiptId : ReceiptIds \cup {None},
         observation : Observation \cup {None}, version : Versions \cup {None},
         outcome : Outcome \cup {None}]

IdleRead == [pc |-> "idle", tool |-> None, request |-> None,
             receiptId |-> None, observation |-> None, version |-> None,
             outcome |-> None]

-----------------------------------------------------------------------------
\* The decision and the binding that the observation o leads to, and whether
\* an adapter that renders these surfaces renders a level.
DecisionOn(c, o) == EvaluateContent(config, o, reads[c].request)
BindingFor(c, o) == BindingOf(config, o, reads[c].request)
Renders(surfaces, level) == level = "NONE" \/ level \in surfaces

\* The adapter of read c settled with an observation that can be decided on.
Scanned(c) == reads[c].pc = "scanning" /\ CanBeBound(reads[c].request)

NeedsReceipt(c, o) ==
    Scanned(c) /\ DecisionOn(c, o).action = "REQUIRE_APPROVAL"

Presents(c, o) == NeedsReceipt(c, o) /\ reads[c].receiptId # None

Honoured(c, o) ==
    /\ Presents(c, o)
    /\ ValidReceipt(reads[c].receiptId, reads[c].tool, BindingFor(c, o))

\* A receipt raises the decision to what was requested.
ApprovedDecision(c) ==
    Decide("ALLOW", "CONTENT_ACCESS_ALLOWED", reads[c].request.exposure)

Observed(c, o) == <<Mark("CONTENT_PREFLIGHTED"), Decided(DecisionOn(c, o))>>

-----------------------------------------------------------------------------
SettledRead(c, o, outcome) ==
    [reads[c] EXCEPT !.pc = "settled", !.observation = o,
                     !.version = config.version, !.outcome = outcome]

Record(c, trail) == audit' = [audit EXCEPT ![c] = @ \o trail]

\* What is on record when an audit write of trail throws.
CutShort(trail) ==
    IF deployment.audit = "sqlite"
    THEN {SubSeq(trail, 1, n) : n \in 0 .. Len(trail) - 1}
    ELSE {}

\* The catch block of preflightReadResult after the given events: whatever
\* went wrong, the data is withheld. Its own audit record may throw again.
Caught(c, o, events) ==
    \/ /\ Record(c, Append(events, DecidedDeny))
       /\ reads' = [reads EXCEPT
              ![c] = SettledRead(c, o, Denied("CONTENT_SCAN_FAILED"))]
    \/ /\ deployment.audit = "sqlite"
       /\ Record(c, events)
       /\ reads' = [reads EXCEPT
              ![c] = [SettledRead(c, o, None) EXCEPT !.pc = "threw"]]

\* The handler records trail and resolves with outcome, or is cut short.
Settle(c, o, trail, outcome) ==
    \/ /\ Record(c, trail)
       /\ reads' = [reads EXCEPT ![c] = SettledRead(c, o, outcome)]
    \/ \E events \in CutShort(trail) : Caught(c, o, events)

-----------------------------------------------------------------------------
\* The executor has settled. Without a request or an adapter the data is
\* withheld; this audit record is written outside the try block.
RefuseUnscanned(c, tool, request, g) ==
    LET entered == [IdleRead EXCEPT !.tool = tool, !.request = request,
                                    !.receiptId = g]
        denied == [entered EXCEPT
            !.pc = "settled", !.outcome = Denied("CONTENT_PREFLIGHT_REQUIRED")]
    IN
    /\ reads[c].pc = "idle"
    /\ request = None \/ tool \notin adapters
    /\ \/ Record(c, <<DecidedDeny>>) /\ reads' = [reads EXCEPT ![c] = denied]
       \/ /\ deployment.audit = "sqlite"
          /\ reads' = [reads EXCEPT ![c] = [entered EXCEPT !.pc = "threw"]]
          /\ UNCHANGED audit
    /\ UNCHANGED <<receiptVars, hostVars>>

StartScan(c, tool, request, g) ==
    /\ reads[c].pc = "idle"
    /\ request # None
    /\ tool \in adapters
    /\ reads' = [reads EXCEPT ![c] =
           [IdleRead EXCEPT !.pc = "scanning", !.tool = tool,
                            !.request = request, !.receiptId = g]]
    /\ UNCHANGED <<receiptVars, hostVars, audit>>

\* The adapter rejects, or returns an observation that cannot be recorded, or
\* one that is recorded but does not parse.
AdapterFails(c) ==
    /\ reads[c].pc = "scanning"
    /\ \E events \in {<<>>, <<Mark("CONTENT_PREFLIGHTED")>>} :
           Caught(c, None, events)
    /\ UNCHANGED <<receiptVars, hostVars>>

\* evaluate() throws before it decides anything.
CannotDecide(c, o) ==
    LET trail == <<Mark("CONTENT_PREFLIGHTED")>> IN
    /\ reads[c].pc = "scanning"
    /\ ~CanBeBound(reads[c].request)
    /\ \E events \in CutShort(trail) \cup {trail} : Caught(c, o, events)
    /\ UNCHANGED <<receiptVars, hostVars>>

Withhold(c, o) ==
    /\ Scanned(c)
    /\ DecisionOn(c, o).action \in {"DENY", "QUARANTINE"}
    /\ Settle(c, o, Observed(c, o), Denied(DecisionOn(c, o).reason))
    /\ UNCHANGED <<receiptVars, hostVars>>

\* A surface the adapter does not render is never replaced by another.
ReleaseAllowed(c, o, surfaces) ==
    LET decision == DecisionOn(c, o) IN
    /\ Scanned(c)
    /\ decision.action = "ALLOW"
    /\ IF Renders(surfaces, decision.granted)
       THEN Settle(c, o, Observed(c, o), Completed(decision, None))
       ELSE Settle(c, o,
                   Append(Observed(c, o),
                          Decided([decision EXCEPT !.action = "DENY"])),
                   Denied("CONTENT_UNSUPPORTED"))
    /\ UNCHANGED <<receiptVars, hostVars>>

\* The receipt is stored before its audit record: if that throws the agent
\* is told that the scan failed, and the receipt is pending all the same.
AskForReceipt(c, o, g) ==
    LET trail == Append(Observed(c, o), Mark("CONTENT_APPROVAL_REQUESTED")) IN
    /\ NeedsReceipt(c, o)
    /\ reads[c].receiptId = None
    /\ g \notin issued
    /\ \/ /\ Record(c, trail)
          /\ reads' = [reads EXCEPT ![c] = SettledRead(c, o, Waiting(g))]
          /\ StoreReceipt(g, reads[c].tool, BindingFor(c, o))
       \/ \E events \in CutShort(trail) :
              /\ Caught(c, o, events)
              /\ IF Len(events) = Len(Observed(c, o))
                 THEN StoreReceipt(g, reads[c].tool, BindingFor(c, o))
                 ELSE UNCHANGED <<receipts, issued>>
    /\ UNCHANGED <<now, hostVars>>

\* A pending receipt is not compared with what the read asks for.
KeepWaiting(c, o) ==
    /\ Presents(c, o)
    /\ StillPending(reads[c].receiptId)
    /\ Settle(c, o, Observed(c, o), Waiting(reads[c].receiptId))
    /\ UNCHANGED <<receiptVars, hostVars>>

AnswerRejected(c, o) ==
    /\ Presents(c, o)
    /\ StillRejected(reads[c].receiptId)
    /\ Settle(c, o, Observed(c, o),
              MkOutcome("DENIED", "CONTENT_APPROVAL_REJECTED",
                        reads[c].receiptId))
    /\ UNCHANGED <<receiptVars, hostVars>>

\* Used ones aside, an expired receipt is called stale; unknown, used and
\* mismatched ones are invalid.
AnswerInvalidated(c, o) ==
    LET g == reads[c].receiptId
        reason == IF Stored(g) /\ ~receipts[g].used /\ Expired(g)
                  THEN "CONTENT_RECEIPT_STALE"
                  ELSE "CONTENT_APPROVAL_INVALIDATED"
    IN
    /\ Presents(c, o)
    /\ ~StillPending(g)
    /\ ~StillRejected(g)
    /\ ~Honoured(c, o)
    /\ Settle(c, o,
              Append(Observed(c, o), Mark("CONTENT_APPROVAL_INVALIDATED")),
              MkOutcome("APPROVAL_INVALIDATED", reason, g))
    /\ UNCHANGED <<receiptVars, hostVars>>

\* The three records that lead to a release under a receipt.
ReleaseTrail(c, o) == Append(Observed(c, o), Decided(ApprovedDecision(c)))

\* Mutant: the decision that the receipt raised is not recorded.
ReleaseUnlogged(c, o, surfaces) ==
    /\ Honoured(c, o)
    /\ Renders(surfaces, reads[c].request.exposure)
    /\ Record(c, Observed(c, o))
    /\ reads' = [reads EXCEPT ![c] =
           SettledRead(c, o,
                       Completed(ApprovedDecision(c), reads[c].receiptId))]
    /\ ConsumeReceipt(reads[c].receiptId)
    /\ UNCHANGED <<now, hostVars>>

\* Mutant: the receipt is consumed before the surface is looked for.
ReleaseConsumingFirst(c, o, surfaces) ==
    /\ Honoured(c, o)
    /\ Settle(c, o, ReleaseTrail(c, o),
              IF Renders(surfaces, reads[c].request.exposure)
              THEN Completed(ApprovedDecision(c), reads[c].receiptId)
              ELSE Denied("CONTENT_UNSUPPORTED"))
    /\ ConsumeReceipt(reads[c].receiptId)
    /\ UNCHANGED <<now, hostVars>>

\* Check, rendering and consumption share one step: no other read comes in
\* between. What throws before the consumption leaves the receipt unused.
ReleaseApproved(c, o, surfaces) ==
    /\ Honoured(c, o)
    /\ Renders(surfaces, reads[c].request.exposure)
    /\ \/ /\ Record(c, ReleaseTrail(c, o))
          /\ reads' = [reads EXCEPT ![c] =
                 SettledRead(c, o, Completed(ApprovedDecision(c),
                                             reads[c].receiptId))]
          /\ ConsumeReceipt(reads[c].receiptId)
       \/ \E events \in CutShort(ReleaseTrail(c, o)) :
              Caught(c, o, events) /\ UNCHANGED <<receipts, issued>>
    /\ UNCHANGED <<now, hostVars>>

\* The approved surface cannot be rendered: denied, and the receipt is kept.
CannotRender(c, o, surfaces) ==
    LET denied == [ApprovedDecision(c) EXCEPT !.action = "DENY"] IN
    /\ Honoured(c, o)
    /\ ~Renders(surfaces, reads[c].request.exposure)
    /\ Settle(c, o, Append(ReleaseTrail(c, o), Decided(denied)),
              Denied("CONTENT_UNSUPPORTED"))
    /\ UNCHANGED <<receiptVars, hostVars>>

\* A receipt store in a file may throw when a receipt is requested or
\* checked, or when an approved one is consumed.
StoreThrows(c, o) ==
    /\ deployment.store = "sqlite"
    /\ \/ NeedsReceipt(c, o) /\ Caught(c, o, Observed(c, o))
       \/ Honoured(c, o) /\ Caught(c, o, ReleaseTrail(c, o))
    /\ UNCHANGED <<receiptVars, hostVars>>

-----------------------------------------------------------------------------
\* execute() resumes: two more records, and only then the answer.
AnswerRead(c) ==
    LET trail == <<Mark("TOOL_EXECUTED"), Mark("OUTCOME_GENERATED")>> IN
    /\ reads[c].pc = "settled"
    /\ \/ Record(c, trail) /\ reads' = [reads EXCEPT ![c].pc = "answered"]
       \/ \E events \in CutShort(trail) :
              Record(c, events) /\ reads' = [reads EXCEPT ![c].pc = "threw"]
    /\ UNCHANGED <<receiptVars, hostVars>>

\* The content approval routes, for an authenticated operator. Their audit
\* record follows the decision and belongs to no read.
PostApprove(g, operator) ==
    /\ ApproveReceipt(g, operator)
    /\ UNCHANGED <<now, hostVars, reads, audit>>

PostReject(g, operator) ==
    /\ RejectReceipt(g, operator)
    /\ UNCHANGED <<now, hostVars, reads, audit>>

SetContentPreflightAdapter(tool) ==
    /\ adapters' = adapters \cup {tool}
    /\ UNCHANGED <<receiptVars, deployment, config, reads, audit>>

PassTime ==
    /\ now < MaxTime
    /\ now' = now + 1
    /\ UNCHANGED <<receipts, issued, hostVars, reads, audit>>

\* The process dies and another one is started, with a policy of its own;
\* what is in memory is gone, what is in a file stays.
Restart ==
    /\ IF deployment.store = "memory" THEN ForgetReceipts
       ELSE UNCHANGED <<receipts, issued>>
    /\ config' \in ContentConfigs
    /\ adapters' = StartAdapters
    /\ reads' = [c \in Reads |->
           IF reads[c].pc \in {"scanning", "settled"}
           THEN [reads[c] EXCEPT !.pc = "lost"] ELSE reads[c]]
    /\ IF deployment.audit = "memory" THEN audit' = [c \in Reads |-> <<>>]
       ELSE UNCHANGED audit
    /\ UNCHANGED <<now, deployment>>

-----------------------------------------------------------------------------
Init ==
    /\ ReceiptInit
    /\ deployment \in Deployments
    /\ config \in ContentConfigs
    /\ adapters = StartAdapters
    /\ reads = [c \in Reads |-> IdleRead]
    /\ audit = [c \in Reads |-> <<>>]

\* The executor of read c settles; only ids that were issued are presented.
Enter(c) ==
    \E tool \in ReadTools, request \in Requests \cup {None},
       g \in issued \cup {None} :
        RefuseUnscanned(c, tool, request, g) \/ StartScan(c, tool, request, g)

\* The adapter of read c settles.
Preflight(c, o) ==
    \/ CannotDecide(c, o)
    \/ Withhold(c, o)
    \/ \E g \in ReceiptIds : AskForReceipt(c, o, g)
    \/ KeepWaiting(c, o)
    \/ AnswerRejected(c, o)
    \/ AnswerInvalidated(c, o)
    \/ StoreThrows(c, o)
    \/ \E surfaces \in SurfaceSets :
           \/ ReleaseAllowed(c, o, surfaces)
           \/ ReleaseApproved(c, o, surfaces)
           \/ CannotRender(c, o, surfaces)

Next ==
    \/ \E c \in Reads : Enter(c) \/ AdapterFails(c) \/ AnswerRead(c)
    \/ \E c \in Reads, o \in Observations : Preflight(c, o)
    \/ \E g \in ReceiptIds, operator \in Operators :
           PostApprove(g, operator) \/ PostReject(g, operator)
    \/ \E tool \in ReadTools : SetContentPreflightAdapter(tool)
    \/ PassTime
    \/ Restart

Spec == Init /\ [][Next]_vars

-----------------------------------------------------------------------------
\* Type invariant of the release path (index.ts: preflightReadResult).
TypeOK ==
    /\ ReceiptsTypeOK
    /\ deployment \in Deployments
    /\ config \in ContentConfigs
    /\ adapters \subseteq ReadTools
    /\ reads \in [Reads -> Read]
    /\ audit \in [Reads -> Seq(Event)]

-----------------------------------------------------------------------------
Mandate(g) ==
    IF g \notin issued THEN "none"
    ELSE IF ~Current(g) THEN "closed"
    ELSE IF receipts[g].status = "pending" THEN "open"
    ELSE IF receipts[g].status = "approved" THEN "granted"
    ELSE "refused"

\* What is approved: a binding, for one tool.
ReleaseOf(tool, binding) == [tool |-> tool, binding |-> binding]

Asked(g) ==
    IF Mandate(g) \in {"none", "closed"} THEN None
    ELSE ReleaseOf(receipts[g].tool, receipts[g].binding)

\* Read c was, or would have been, answered with content under a receipt.
ReleasedUnderReceipt(c) ==
    /\ reads[c].outcome # None
    /\ reads[c].outcome.state = "COMPLETED"
    /\ reads[c].outcome.receipt # None

BindingOfRead(c) ==
    BindingOf([version |-> reads[c].version], reads[c].observation,
              reads[c].request)

Releases ==
    {[call |-> c, id |-> reads[c].outcome.receipt,
      action |-> ReleaseOf(reads[c].tool, BindingOfRead(c))] :
        c \in {d \in Reads : ReleasedUnderReceipt(d)}}

Authority == INSTANCE ContentAuthority
    WITH Ids <- ReceiptIds,
         Actions <- [tool : ReadTools, binding : Binding], Callers <- Reads,
         mandate <- [g \in ReceiptIds |-> Mandate(g)],
         asked <- [g \in ReceiptIds |-> Asked(g)],
         effects <- Releases

\* "Receipts are one-time use" and "a re-scan with a changed content hash must
\* be treated as stale" (docs/CONTENT_PREFLIGHT_CONTRACT.md): whatever scans,
\* retries, decisions, expiries, failing writes and restarts interleave, a
\* receipt lets at most one read through, and only one of the very tool,
\* content, observation, exposure, target, selection and policy version that a
\* human approved; a receipt once spent, refused or expired stays so.
ContentAuthoritySpec == Authority!OnceSpec

\* The level of content that read c was answered with.
Released(c) == reads[c].outcome # None /\ reads[c].outcome.exposure # None

\* Risk stays in: no combination of flags, receipts, policy reloads and
\* unrenderable surfaces lets an agent see more than it asked for, anything
\* beyond derived facts of content that may hold a secret, or anything at all
\* of content that was not scanned or carries a script, a macro or a bomb.
RiskStaysIn ==
    \A c \in Reads :
        Released(c) =>
            LET o == reads[c].observation
                level == reads[c].outcome.exposure
            IN
            /\ IsAtMost(level, reads[c].request.exposure)
            /\ o.status = "COMPLETE"
            /\ ~HasFlag(o, {"ARCHIVE_BOMB", "OVERSIZED_PAYLOAD",
                            "EMBEDDED_SCRIPT", "MACRO_PRESENT"})
            /\ HasFlag(o, {"SECRET_LIKE_CONTENT"}) =>
                   IsAtMost(level, "DERIVED_ONLY")

\* The index of the last decision on record for read c.
LastDecision(c) ==
    CHOOSE i \in DOMAIN audit[c] :
        /\ audit[c][i].type = "CONTENT_ACCESS_DECIDED"
        /\ \A j \in DOMAIN audit[c] :
               audit[c][j].type = "CONTENT_ACCESS_DECIDED" => j <= i

\* The log tells what was released: when a read is answered and its records
\* are still there, the last decision among them is an ALLOW exactly when a
\* surface was handed out, and names the level of that surface. A denial that
\* follows a failure late in the handler overrides the ALLOW before it.
LogTellsRelease ==
    \A c \in Reads :
        reads[c].pc = "answered" /\ audit[c] # <<>> =>
            LET last == audit[c][LastDecision(c)] IN
            /\ last.action = "ALLOW" <=> Released(c)
            /\ Released(c) => last.exposure = reads[c].outcome.exposure

\* A receipt is spent for a release and for nothing else: neither a surface
\* that cannot be rendered nor a failing write nor a mismatched retry uses up
\* what a human approved.
SpentForARelease ==
    \A g \in DOMAIN receipts :
        receipts[g].used =>
            /\ receipts[g].status = "approved"
            /\ \E c \in Reads :
                   ReleasedUnderReceipt(c) /\ reads[c].outcome.receipt = g

-----------------------------------------------------------------------------
\* What the documents say and the code does not do.

\* A ContentAccessRequest has a "requested exposure, destination
\* runtime/agent, purpose, and optional field/range selection"
\* (docs/CONTENT_PREFLIGHT_CONTRACT.md:28). While no write can fail, a read is
\* then told that the preflight failed only when the scanner did.
SelectionIsOptional ==
    \A c \in Reads :
        /\ reads[c].outcome # None
        /\ reads[c].outcome.reason = "CONTENT_SCAN_FAILED"
        => \/ reads[c].observation = None
           \/ reads[c].observation.status = "FAILED"

=============================================================================
