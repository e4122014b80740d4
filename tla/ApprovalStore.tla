--------------------------- MODULE ApprovalStore ---------------------------
(***************************************************************************)
(* The approval engine and its store: one process-wide map from approval   *)
(* ids to grants. A grant is created pending for one action, decided by    *)
(* operators, checked by retries and finally consumed. Nothing is          *)
(* persisted and nothing is ever deleted except by ClearApprovals.         *)
(*                                                                         *)
(* A SHA-256 over canonical JSON is modelled as the hashed material        *)
(* itself: two hashes are equal exactly when the material is.              *)
(***************************************************************************)
EXTENDS Optional, Integers

CONSTANTS
    GrantIds,       \* approval ids; a UUID is never generated twice
    Servers,        \* MCP server names of registered tools
    Tools,          \* tool names
    Arguments,      \* argument objects
    Principals,     \* authenticated identity, delegation, tenant, scope and
                    \* purpose of an execution context, taken together
    ActionIds,      \* stable action ids of correlation contexts
    Requests,       \* per-attempt request ids, one for each call
    Operators,      \* authenticated human operators with their session
    TTL,            \* approvalTtlMs, in clock ticks
    MaxTime         \* bound on the clock, for model checking only

ASSUME StoreAssumption ==
    /\ TTL \in Nat \ {0}          \* the constructor refuses less than 1
    /\ MaxTime \in Nat

VARIABLES
    grants,         \* the map: a function whose domain is the stored ids
    issued,         \* ids generated so far, in this process or an earlier one
    now             \* the wall clock

storeVars == <<grants, issued, now>>

-----------------------------------------------------------------------------
\* A session id is pinned by the credential's profile or drawn per request.
Sessions == Principals \cup Requests

Context == [principal : Principals, session : Sessions,
            actionId : ActionIds \cup {None}, request : Requests]

StableContext == [principal : Principals, session : Sessions,
                  actionId : ActionIds \cup {None}]

\* An unregistered tool has no server; the gateway then passes ''.
Proposal == [server : Servers \cup {None}, tool : Tools,
             arguments : Arguments, context : Context]

Action == [server : Servers \cup {None}, tool : Tools,
           arguments : Arguments, context : StableContext]

\* Mutant: the agent's session is not bound.
ContextWithoutSession(context) ==
    [principal |-> context.principal, session |-> context.principal,
     actionId |-> context.actionId]

\* Mutant: the binding takes in the per-attempt request id.
ContextOfOneAttempt(context) ==
    [principal |-> context.principal, session |-> context.request,
     actionId |-> context.actionId]

\* The request id is observational and stays out of the binding.
AuthorityRelevantContext(context) ==
    [principal |-> context.principal, session |-> context.session,
     actionId |-> context.actionId]

ActionOf(proposal) ==
    [server |-> proposal.server, tool |-> proposal.tool,
     arguments |-> proposal.arguments,
     context |-> AuthorityRelevantContext(proposal.context)]

HashApprovalAction(proposal, expiresAt) ==
    [action |-> ActionOf(proposal), expiresAt |-> expiresAt]

HashApprovalBinding(actionHash, operator) ==
    [actionHash |-> actionHash, human |-> operator]

ActionHash == [action : Action, expiresAt : Nat]
BindingHash == [actionHash : ActionHash, human : Operators]
NoTime == -1

\* Absence is neither an operator nor a hash.
ASSUME NoneAssumption == None \notin Operators /\ None \notin BindingHash

Grant == [actionHash : ActionHash, expiresAt : Nat,
          status : {"pending", "approved", "rejected"}, used : BOOLEAN,
          approvedBy : Operators \cup {None}, approvedAt : Nat \cup {NoTime},
          bindingHash : BindingHash \cup {None},
          rejectedBy : Operators \cup {None}]

-----------------------------------------------------------------------------
Stored(g) == g \in DOMAIN grants

\* A grant is dead from the very tick of its expiry.
Expired(g) == grants[g].expiresAt <= now

PendingGrant(proposal, expiresAt) ==
    [actionHash |-> HashApprovalAction(proposal, expiresAt),
     expiresAt |-> expiresAt, status |-> "pending", used |-> FALSE,
     approvedBy |-> None, approvedAt |-> NoTime, bindingHash |-> None,
     rejectedBy |-> None]

\* The operator binding recorded at approval still matches the grant.
BoundToApprover(grant) ==
    /\ grant.approvedBy # None
    /\ grant.bindingHash # None
    /\ grant.bindingHash =
           HashApprovalBinding(grant.actionHash, grant.approvedBy)

\* Mutant: the expiry is not looked at when a retry is checked.
RedeemableThoughExpired(g) ==
    Stored(g) /\ ~grants[g].used /\ grants[g].status = "approved"

\* The checks that precede the computation of the proposed action's hash.
Redeemable(g) ==
    /\ Stored(g)
    /\ ~grants[g].used
    /\ ~Expired(g)
    /\ grants[g].status = "approved"

ValidApproval(g, proposal) ==
    /\ Redeemable(g)
    /\ grants[g].actionHash =
           HashApprovalAction(proposal, grants[g].expiresAt)
    /\ BoundToApprover(grants[g])

\* Pending and rejected grants are told apart from dead ones only while they
\* are neither used nor expired.
StillPending(g) ==
    Stored(g) /\ ~grants[g].used /\ ~Expired(g) /\ grants[g].status = "pending"

StillRejected(g) ==
    Stored(g) /\ ~grants[g].used /\ ~Expired(g) /\ grants[g].status = "rejected"

PendingApprovals ==
    {g \in DOMAIN grants : ~grants[g].used /\ grants[g].status = "pending"}

\* Mutants: an approve that overlooks an earlier rejection, or the expiry.
ApprovableThoughRejected(g) == Stored(g) /\ ~grants[g].used /\ ~Expired(g)
ApprovableThoughExpired(g) ==
    Stored(g) /\ ~grants[g].used /\ grants[g].status # "rejected"

\* What an operator can still approve: pending and approved grants alike.
Approvable(g) ==
    /\ Stored(g)
    /\ ~grants[g].used
    /\ grants[g].status # "rejected"
    /\ ~Expired(g)

\* Mutant: a reject that overrides an approval.
RejectableThoughApproved(g) == Stored(g) /\ ~grants[g].used

\* There is no expiry check: an expired grant can still be rejected.
Rejectable(g) ==
    /\ Stored(g)
    /\ ~grants[g].used
    /\ grants[g].status # "approved"

-----------------------------------------------------------------------------
\* Mutant: the id stays available for another grant.
StoreWithoutIssuing(g, proposal, expiresAt) ==
    /\ g \notin issued
    /\ grants' = [h \in DOMAIN grants \cup {g} |->
                     IF h = g THEN PendingGrant(proposal, expiresAt)
                     ELSE grants[h]]
    /\ UNCHANGED issued

StoreApproval(g, proposal, expiresAt) ==
    /\ g \notin issued
    /\ issued' = issued \cup {g}
    /\ grants' = [h \in DOMAIN grants \cup {g} |->
                     IF h = g THEN PendingGrant(proposal, expiresAt)
                     ELSE grants[h]]

\* An approved grant may be approved again: the later operator replaces the
\* earlier one.
ApproveApproval(g, operator) ==
    /\ Approvable(g)
    /\ grants' = [grants EXCEPT
           ![g].status = "approved",
           ![g].approvedBy = operator,
           ![g].approvedAt = now,
           ![g].bindingHash =
               HashApprovalBinding(grants[g].actionHash, operator)]
    /\ UNCHANGED issued

RejectApproval(g, operator) ==
    /\ Rejectable(g)
    /\ grants' = [grants EXCEPT ![g].status = "rejected",
                                ![g].rejectedBy = operator]
    /\ UNCHANGED issued

\* Whatever its status, a stored grant becomes used; an unknown id is ignored.
ConsumeApproval(g) ==
    /\ grants' = [h \in DOMAIN grants |->
                     IF h = g THEN [grants[h] EXCEPT !.used = TRUE]
                     ELSE grants[h]]
    /\ UNCHANGED issued

ClearApprovals ==
    /\ grants' = [g \in {} |-> {}]
    /\ UNCHANGED issued

Tick ==
    /\ now < MaxTime
    /\ now' = now + 1
    /\ UNCHANGED <<grants, issued>>

-----------------------------------------------------------------------------
StoreInit ==
    /\ grants = [g \in {} |-> {}]
    /\ issued = {}
    /\ now = 0

\* requestApproval draws a fresh id and an expiry one TTL ahead.
RequestApproval(g, proposal) ==
    StoreApproval(g, proposal, now + TTL) /\ UNCHANGED now

Approve(g, operator) == ApproveApproval(g, operator) /\ UNCHANGED now
Reject(g, operator) == RejectApproval(g, operator) /\ UNCHANGED now
Consume(g) == ConsumeApproval(g) /\ UNCHANGED now
Clear == ClearApprovals /\ UNCHANGED now

StoreNext ==
    \/ \E g \in GrantIds, proposal \in Proposal : RequestApproval(g, proposal)
    \/ \E g \in GrantIds, operator \in Operators : Approve(g, operator)
    \/ \E g \in GrantIds, operator \in Operators : Reject(g, operator)
    \/ \E g \in GrantIds : Consume(g)
    \/ Clear
    \/ Tick

StoreSpec == StoreInit /\ [][StoreNext]_storeVars

-----------------------------------------------------------------------------
\* Type invariant of the map: stored grants are well formed and their ids
\* were issued (approval-store.ts: grants, storeApproval).
StoreTypeOK ==
    /\ now \in Nat
    /\ issued \subseteq GrantIds
    /\ DOMAIN grants \subseteq issued
    /\ grants \in [DOMAIN grants -> Grant]

\* A grant nobody can redeem any more: cleared, used, expired or rejected.
Dead(g) ==
    /\ g \in issued
    /\ \/ ~Stored(g)
       \/ grants[g].used
       \/ Expired(g)
       \/ grants[g].status = "rejected"

\* No sequence of decisions, retries and clock ticks brings a dead grant back
\* to life: approveApproval, rejectApproval and consumeApproval race freely,
\* and each must respect what the others did before it.
NoRevival == [][\A g \in GrantIds : Dead(g) => Dead(g)']_storeVars

\* Two operators racing on one grant never both decide it: a grant names an
\* approver exactly when it is approved and a rejecter exactly when it is
\* rejected, and the recorded binding is that of the approver it names.
ExclusiveDecision ==
    \A g \in DOMAIN grants :
        /\ grants[g].status = "approved" <=> grants[g].approvedBy # None
        /\ grants[g].status = "approved" => BoundToApprover(grants[g])
        /\ grants[g].status = "rejected" <=> grants[g].rejectedBy # None

\* Every approval was given strictly before the expiry that the hash binds,
\* so no grant can be redeemed on the strength of a late decision.
ApprovedInTime ==
    \A g \in DOMAIN grants :
        /\ grants[g].actionHash.expiresAt = grants[g].expiresAt
        /\ grants[g].status = "approved" =>
               grants[g].approvedAt \in 0 .. grants[g].expiresAt - 1

SameAction(p, q) ==
    /\ \A field \in {"server", "tool", "arguments"} : p[field] = q[field]
    /\ \A field \in {"principal", "session", "actionId"} :
           p.context[field] = q.context[field]

\* Changing any bound field invalidates an approval, and nothing else does: of
\* two proposals that differ in more than their request id at most one is ever
\* accepted, and a retry under a fresh request id is accepted like the first
\* (canonical-hash.ts: hashApprovalAction). The tool's name is bound like the
\* rest, although docs/operations/retry-and-idempotency.md:51 says that it is
\* not re-checked.
ApprovalPinsAction ==
    \A g \in DOMAIN grants : \A p \in Proposal :
        ValidApproval(g, p) =>
            \A q \in Proposal : ValidApproval(g, q) <=> SameAction(p, q)

=============================================================================
