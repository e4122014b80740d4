--------------------------- MODULE ContentPolicy ---------------------------
(***************************************************************************)
(* What the content policy decides about the result of a read: how much of *)
(* it an agent may see, given what a scanner observed and what the agent   *)
(* asked for. Scanners give evidence, only this policy grants.             *)
(***************************************************************************)
EXTENDS Optional, Integers

CONSTANTS
    Contents,       \* content hashes
    ObservationIds, \* ids of scanner observations
    Targets,        \* destination runtime, agent and purpose, taken together
    Selections,     \* field or range selections
    Versions        \* policy versions

\* Each level shows more than the ones before it.
ExposureOrder ==
    [NONE |-> 0, DERIVED_ONLY |-> 1, SANITIZED_METADATA |-> 2,
     SELECTED_CONTENT |-> 3, FULL_CONTENT |-> 4]

Exposures == DOMAIN ExposureOrder

IsAtMost(requested, maximum) ==
    ExposureOrder[requested] <= ExposureOrder[maximum]

RiskFlags ==
    {"INSTRUCTION_LIKE_CONTENT", "SECRET_LIKE_CONTENT", "EMBEDDED_SCRIPT",
     "MACRO_PRESENT", "ARCHIVE_BOMB", "TYPE_MISMATCH", "EXTERNAL_REFERENCE",
     "OVERSIZED_PAYLOAD"}

\* ownedText: the source is trusted as OWNED and its media type is text/*.
Observation ==
    [id : ObservationIds, content : Contents, ownedText : BOOLEAN,
     status : {"COMPLETE", "FAILED", "UNSUPPORTED"}, flags : SUBSET RiskFlags]

AccessRequest ==
    [exposure : Exposures, target : Targets,
     selection : Selections \cup {None}]

ContentConfig == [version : Versions, allowFull : BOOLEAN]

Binding ==
    [content : Contents, observation : ObservationIds, exposure : Exposures,
     target : Targets, version : Versions, selection : Selections]

Actions == {"ALLOW", "REQUIRE_APPROVAL", "DENY", "QUARANTINE"}

ReasonCodes ==
    {"CONTENT_ACCESS_ALLOWED", "CONTENT_PREFLIGHT_REQUIRED",
     "CONTENT_SCAN_FAILED", "CONTENT_UNSUPPORTED", "CONTENT_RESOURCE_LIMIT",
     "CONTENT_RISK_FLAGGED", "CONTENT_SECRET_EXPOSURE",
     "CONTENT_SCRIPT_PRESENT", "CONTENT_TYPE_MISMATCH",
     "CONTENT_APPROVAL_REQUIRED", "CONTENT_APPROVAL_REJECTED",
     "CONTENT_APPROVAL_INVALIDATED", "CONTENT_RECEIPT_STALE",
     "CONTENT_EXPOSURE_DOWNGRADED"}

Decision == [action : Actions, reason : ReasonCodes, granted : Exposures]

Decide(action, reason, granted) ==
    [action |-> action, reason |-> reason, granted |-> granted]

-----------------------------------------------------------------------------
HasFlag(o, flags) == o.flags \cap flags # {}

\* Nothing that may hold a secret leaves beyond what a scanner derived of it.
DowngradeToDerived(q) ==
    IF IsAtMost(q.exposure, "DERIVED_ONLY")
    THEN Decide("ALLOW",
                IF q.exposure = "DERIVED_ONLY" THEN "CONTENT_SECRET_EXPOSURE"
                ELSE "CONTENT_ACCESS_ALLOWED",
                q.exposure)
    ELSE Decide("ALLOW", "CONTENT_EXPOSURE_DOWNGRADED", "DERIVED_ONLY")

CleanContentDecision(config, o, q) ==
    IF \/ IsAtMost(q.exposure, "SANITIZED_METADATA")
       \/ q.exposure = "SELECTED_CONTENT" /\ o.ownedText
       \/ q.exposure = "FULL_CONTENT" /\ o.ownedText /\ config.allowFull
    THEN Decide("ALLOW", "CONTENT_ACCESS_ALLOWED", q.exposure)
    ELSE Decide("REQUIRE_APPROVAL", "CONTENT_APPROVAL_REQUIRED",
                IF o.ownedText THEN "SELECTED_CONTENT"
                ELSE "SANITIZED_METADATA")

\* Mutant: what may be an instruction is looked at before what may be a
\* secret.
EvaluateInstructionFirst(config, o, q) ==
    IF HasFlag(o, {"INSTRUCTION_LIKE_CONTENT"})
    THEN Decide("REQUIRE_APPROVAL", "CONTENT_RISK_FLAGGED",
                "SANITIZED_METADATA")
    ELSE IF HasFlag(o, {"SECRET_LIKE_CONTENT"})
    THEN DowngradeToDerived(q)
    ELSE CleanContentDecision(config, o, q)

\* The first rule that applies decides.
EvaluateContent(config, o, q) ==
    IF o.status = "FAILED"
    THEN Decide("DENY", "CONTENT_SCAN_FAILED", "NONE")
    ELSE IF o.status = "UNSUPPORTED"
    THEN Decide("DENY", "CONTENT_UNSUPPORTED", "NONE")
    ELSE IF HasFlag(o, {"ARCHIVE_BOMB", "OVERSIZED_PAYLOAD"})
    THEN Decide("QUARANTINE", "CONTENT_RESOURCE_LIMIT", "NONE")
    ELSE IF HasFlag(o, {"EMBEDDED_SCRIPT", "MACRO_PRESENT"})
    THEN Decide("DENY", "CONTENT_SCRIPT_PRESENT", "NONE")
    ELSE IF HasFlag(o, {"SECRET_LIKE_CONTENT"})
    THEN DowngradeToDerived(q)
    ELSE IF HasFlag(o, {"INSTRUCTION_LIKE_CONTENT"})
    THEN Decide("REQUIRE_APPROVAL", "CONTENT_RISK_FLAGGED",
                "SANITIZED_METADATA")
    ELSE IF HasFlag(o, {"TYPE_MISMATCH"})
    THEN Decide("REQUIRE_APPROVAL", "CONTENT_TYPE_MISMATCH",
                "SANITIZED_METADATA")
    ELSE CleanContentDecision(config, o, q)

\* Hashing the binding material is the first thing evaluate() does, and the
\* serializer refuses the undefined selection of a request without one.
CanBeBound(q) == q.selection # None

BindingOf(config, o, q) ==
    [content |-> o.content, observation |-> o.id, exposure |-> q.exposure,
     target |-> q.target, version |-> config.version,
     selection |-> q.selection]

=============================================================================
