------------------------- MODULE OutcomeClassifier -------------------------
(***************************************************************************)
(* How an executor's result becomes the typed outcome an agent sees: the   *)
(* error text of a failed executor is reduced to a reason code by ordered  *)
(* keyword matching, and the reason code selects the recovery advice.      *)
(* Texts (nextAction, error) and the released data are left out.           *)
(***************************************************************************)
EXTENDS Optional, Naturals, Sequences

RetryableCodes ==
    {"DOWNSTREAM_TIMEOUT", "RATE_LIMITED", "AUTH_EXPIRED", "STALE_STATE",
     "APPROVAL_REQUIRED", "RESOURCE_VERSION_CHANGED", "CONTENT_RECEIPT_STALE",
     "PARTIAL_SUCCESS"}

\* The codes an agent may recover from without its user.
AutonomousCodes ==
    {"DOWNSTREAM_TIMEOUT", "RATE_LIMITED", "STALE_STATE",
     "RESOURCE_VERSION_CHANGED", "CONTENT_RECEIPT_STALE",
     "CONTENT_EXPOSURE_DOWNGRADED"}

ReasonCodes ==
    RetryableCodes \cup AutonomousCodes \cup
    {"CONFLICT", "VALIDATION_ERROR", "PERMISSION_DENIED", "POLICY_DENIED",
     "APPROVAL_HASH_MISMATCH", "CONTENT_PREFLIGHT_REQUIRED",
     "CONTENT_SCAN_FAILED", "CONTENT_UNSUPPORTED", "CONTENT_RESOURCE_LIMIT",
     "CONTENT_RISK_FLAGGED", "CONTENT_SECRET_EXPOSURE",
     "CONTENT_SCRIPT_PRESENT", "CONTENT_TYPE_MISMATCH",
     "CONTENT_APPROVAL_REQUIRED", "CONTENT_APPROVAL_REJECTED",
     "CONTENT_APPROVAL_INVALIDATED", "CONTENT_QUARANTINED", "UNKNOWN_FAILURE"}

OutcomeStates ==
    {"COMPLETED", "DENIED", "FAILED", "WAITING_FOR_APPROVAL",
     "APPROVAL_INVALIDATED"}

Outcome == [state : OutcomeStates, reason : ReasonCodes \cup {None},
            retryable : BOOLEAN, requiresUser : BOOLEAN,
            safeToContinue : BOOLEAN]

-----------------------------------------------------------------------------
\* The keyword classes in the order the wrapper tries them. A message is the
\* set of the keywords that occur in its lower-cased text.
ErrorClasses ==
    << [code |-> "DOWNSTREAM_TIMEOUT", words |-> {"timeout", "timed out"}],
       [code |-> "AUTH_EXPIRED", words |-> {"auth", "unauthorized", "401"}],
       [code |-> "PERMISSION_DENIED",
        words |-> {"permission", "forbidden", "403"}],
       [code |-> "RATE_LIMITED", words |-> {"rate", "429"}],
       [code |-> "VALIDATION_ERROR", words |-> {"validation", "invalid"}],
       [code |-> "STALE_STATE", words |-> {"stale", "version"}],
       [code |-> "CONFLICT", words |-> {"conflict", "409"}] >>

Keywords == UNION {ErrorClasses[i].words : i \in DOMAIN ErrorClasses}

\* The first class with a keyword in the message names the failure.
ClassifyError(message) ==
    LET hits == {i \in DOMAIN ErrorClasses :
                    ErrorClasses[i].words \cap message # {}}
    IN  IF hits = {} THEN "UNKNOWN_FAILURE"
        ELSE ErrorClasses[CHOOSE i \in hits : \A j \in hits : i <= j].code

\* What executeTool hands back: never an exception, always a result.
Succeeded == [success |-> TRUE, code |-> None]
FailedWith(code) == [success |-> FALSE, code |-> code]
ExecutionResult == [success : {TRUE}, code : {None}]
                       \cup [success : {FALSE}, code : ReasonCodes]

-----------------------------------------------------------------------------
MkOutcome(state, reason, retryable, requiresUser, safeToContinue) ==
    [state |-> state, reason |-> reason, retryable |-> retryable,
     requiresUser |-> requiresUser, safeToContinue |-> safeToContinue]

PolicyDenied == MkOutcome("DENIED", "POLICY_DENIED", FALSE, TRUE, FALSE)

ApprovalInvalidated ==
    MkOutcome("APPROVAL_INVALIDATED", "APPROVAL_HASH_MISMATCH",
              FALSE, TRUE, FALSE)

\* Mutant: the state the contract documents but the classifier never emits.
FailureOutcomeTimedOut(code) ==
    MkOutcome(IF code = "DOWNSTREAM_TIMEOUT" THEN "TIMED_OUT" ELSE "FAILED",
              code, code \in RetryableCodes, code \notin AutonomousCodes,
              code # "POLICY_DENIED")

FailureOutcome(code) ==
    MkOutcome("FAILED", code, code \in RetryableCodes,
              code \notin AutonomousCodes, code # "POLICY_DENIED")

\* classifyOutcome, without the policy decision (see PolicyDenied).
ClassifyOutcome(result) ==
    IF result.success THEN MkOutcome("COMPLETED", None, FALSE, FALSE, TRUE)
    ELSE IF result.code = "APPROVAL_HASH_MISMATCH" THEN ApprovalInvalidated
    ELSE FailureOutcome(result.code)

=============================================================================
