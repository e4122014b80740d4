CONSTANTS
    send = send
    ghost = ghost
    srv = srv
    srv2 = srv2
    GrantIds = {g1}
    Servers = {srv, srv2}
    Tools = {send}
    Arguments = {a1}
    Principals = {p1}
    ActionIds = {}
    Requests = {r1, r2, r3}
    Operators = {alice}
    None = None
    TTL = 1
    MaxTime = 1
    Metadata <- MCMetadata2
    StartRegistry <- MCRegistry
    StartExecutors = {send}
    PolicyConfigs <- MCPolicies
    PinnedPrincipals = {p1}
    RefusedPrincipals = {}
    Uncanonical = {}
    Messages <- MCMessages
    AuditBackend = "sqlite"
SPECIFICATION Spec
SYMMETRY Symmetry
INVARIANTS
    AuditTellsOutcome
    EvidenceBeforeEffect
PROPERTIES
    AuthoritySpec
    NoReuseAfterReturn
