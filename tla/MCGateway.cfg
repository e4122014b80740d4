CONSTANTS
    send = send
    ghost = ghost
    srv = srv
    srv2 = srv2
    GrantIds = {g1, g2}
    Servers = {srv}
    Tools = {send}
    Arguments = {a1, a2}
    Principals = {p1}
    ActionIds = {}
    Requests = {r1, r2, r3}
    Operators = {alice}
    None = None
    TTL = 2
    MaxTime = 3
    Metadata <- MCMetadata
    StartRegistry <- MCRegistry
    StartExecutors = {send}
    PolicyConfigs <- MCPolicies
    PinnedPrincipals = {p1}
    RefusedPrincipals = {}
    Uncanonical = {}
    Messages <- MCMessages
    AuditBackend = "memory"
SPECIFICATION Spec
SYMMETRY Symmetry
INVARIANTS
    TypeOK
    RetryIsRecognised
    AuditTellsOutcome
    EvidenceBeforeEffect
PROPERTIES
    AuthoritySpec
    NoReuseAfterReturn
