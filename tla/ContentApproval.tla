-------------------------- MODULE ContentApproval --------------------------
(***************************************************************************)
(* The store of content approval receipts. The in-memory and the SQLite    *)
(* backend differ in two things only: whether receipts outlive the process *)
(* and whether an operation may throw. A receipt is bound to a tool and to *)
(* the binding of one content access decision; its hash is modelled as the *)
(* material itself.                                                        *)
(***************************************************************************)
EXTENDS ContentPolicy

CONSTANTS
    ReceiptIds,     \* receipt ids; a UUID is never generated twice
    ReadTools,      \* registered READ_ONLY tools
    Operators,      \* authenticated human operators with their session
    TTL,            \* contentPreflight.approvalTtlMs, in clock ticks
    MaxTime         \* bound on the clock, for model checking only

ASSUME ReceiptAssumption ==
    /\ TTL \in Nat \ {0}          \* the gateway refuses less than 1
    /\ MaxTime \in Nat
    /\ None \notin ReceiptIds
    /\ None \notin Operators

VARIABLES
    receipts,       \* the stored receipts: a function of their ids
    issued,         \* ids generated so far, in this process or an earlier one
    now             \* the wall clock

receiptVars == <<receipts, issued, now>>

Receipt ==
    [tool : ReadTools, binding : Binding, expiresAt : Nat,
     status : {"pending", "approved", "rejected"}, used : BOOLEAN,
     approvedBy : Operators \cup {None}, rejectedBy : Operators \cup {None}]

-----------------------------------------------------------------------------
Stored(g) == g \in DOMAIN receipts

Expired(g) == receipts[g].expiresAt <= now

\* Neither used nor expired: the status decides what a check answers.
Current(g) == Stored(g) /\ ~receipts[g].used /\ ~Expired(g)

StillPending(g) == Current(g) /\ receipts[g].status = "pending"
StillRejected(g) == Current(g) /\ receipts[g].status = "rejected"

\* Mutant: the tool alone has to match.
ValidForAnyBinding(g, tool, binding) ==
    /\ Current(g)
    /\ receipts[g].status = "approved"
    /\ receipts[g].tool = tool

ValidReceipt(g, tool, binding) ==
    /\ Current(g)
    /\ receipts[g].status = "approved"
    /\ receipts[g].tool = tool
    /\ receipts[g].binding = binding

-----------------------------------------------------------------------------
\* Mutant: the id is not taken out of circulation.
StoreReceiptUnissued(g, tool, binding) ==
    /\ receipts' = [h \in DOMAIN receipts \cup {g} |->
           IF h = g
           THEN [tool |-> tool, binding |-> binding, expiresAt |-> now + TTL,
                 status |-> "pending", used |-> FALSE,
                 approvedBy |-> None, rejectedBy |-> None]
           ELSE receipts[h]]
    /\ UNCHANGED issued

StoreReceipt(g, tool, binding) ==
    /\ receipts' = [h \in DOMAIN receipts \cup {g} |->
           IF h = g
           THEN [tool |-> tool, binding |-> binding, expiresAt |-> now + TTL,
                 status |-> "pending", used |-> FALSE,
                 approvedBy |-> None, rejectedBy |-> None]
           ELSE receipts[h]]
    /\ issued' = issued \cup {g}

\* Mutant: an approval overrides a rejection.
ApproveRejectedReceipt(g, operator) ==
    /\ Current(g)
    /\ receipts' = [receipts EXCEPT ![g].status = "approved",
                                    ![g].approvedBy = operator]
    /\ UNCHANGED issued

\* Only a pending receipt is decided, and only before it expires.
ApproveReceipt(g, operator) ==
    /\ StillPending(g)
    /\ receipts' = [receipts EXCEPT ![g].status = "approved",
                                    ![g].approvedBy = operator]
    /\ UNCHANGED issued

RejectReceipt(g, operator) ==
    /\ StillPending(g)
    /\ receipts' = [receipts EXCEPT ![g].status = "rejected",
                                    ![g].rejectedBy = operator]
    /\ UNCHANGED issued

\* Expiry plays no part here, and a receipt that is not approved stays as it
\* is.
ConsumeReceipt(g) ==
    /\ receipts' = [h \in DOMAIN receipts |->
           [receipts[h] EXCEPT
               !.used = @ \/ (h = g /\ receipts[h].status = "approved")]]
    /\ UNCHANGED issued

\* The Map of an in-memory store dies with its process.
ForgetReceipts ==
    /\ receipts' = [g \in {} |-> {}]
    /\ UNCHANGED issued

ReceiptInit ==
    /\ receipts = [g \in {} |-> {}]
    /\ issued = {}
    /\ now = 0

\* Stored receipts are well formed and their ids were issued
\* (content-approval-store.ts: receipts, content_approval_receipts).
ReceiptsTypeOK ==
    /\ now \in Nat
    /\ issued \subseteq ReceiptIds
    /\ DOMAIN receipts \subseteq issued
    /\ receipts \in [DOMAIN receipts -> Receipt]

=============================================================================
