---------------------------- MODULE PolicyEngine ----------------------------
(***************************************************************************)
(* What the gateway decides about a tool before it looks at any approval:  *)
(* the risk class of the tool and the policy decision for that class.      *)
(* A registry and a policy configuration are maps, that is, functions      *)
(* whose domain is the set of tools they mention.                          *)
(***************************************************************************)

\* The risk classes a host may give a tool when it registers it.
GatedRisks == {"INTERNAL_WRITE", "EXTERNAL_SEND", "DELETE", "PAYMENT",
               "DEPLOYMENT", "PERMISSION_CHANGE", "CREDENTIAL_ACCESS",
               "NETWORK_EGRESS", "SKILL_INSTALL", "MODEL_PROVIDER_CHANGE"}

RiskClasses == GatedRisks \cup {"READ_ONLY", "UNKNOWN"}

Decisions == {"ALLOW", "REQUIRE_APPROVAL", "DENY"}

\* The `approval` field of one entry of the policy file.
ApprovalModes == {"never", "required", "conditional"}

\* A tool nobody registered is of unknown risk.
Classify(registry, tool) ==
    IF tool \in DOMAIN registry THEN registry[tool].risk ELSE "UNKNOWN"

DefaultPolicy ==
    [risk \in RiskClasses |->
        CASE risk = "READ_ONLY"   -> "ALLOW"
          [] risk = "UNKNOWN"     -> "DENY"
          [] risk \in GatedRisks  -> "REQUIRE_APPROVAL"]

\* An entry of the configuration wins over the default of the risk class;
\* "conditional" is treated as "required".
Evaluate(config, tool, risk) ==
    IF tool \in DOMAIN config
    THEN IF config[tool] = "never" THEN "ALLOW" ELSE "REQUIRE_APPROVAL"
    ELSE DefaultPolicy[risk]

=============================================================================
