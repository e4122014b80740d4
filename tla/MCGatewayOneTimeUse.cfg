CONSTANTS
    send = send
    ghost = ghost
    srv = srv
    srv2 = srv2
    GrantIds = {g1}
    Servers = {srv}
    Tools = {send}
    Arguments = {a1}
    Principals = {p1}
    ActionIds = {}
    Requests = {r1, r2, r3}
    Operators = {alice}
    None = None
    TTL = 2
    MaxTime = 3
    Metadata <- MCMetadata
    StartRegistry <- MCRegistry
    StartExecutors = {send}
    PolicyConfigs <- MCPolicies
    PinnedPrincipals = {p1}
    RefusedPrincipals = {}
    Uncanonical = {}
    Messages <- MCMessages
    AuditBackend = "memory"
SPECIFICATION Spec
SYMMETRY Symmetry
INVARIANTS
    OneTimeUse
