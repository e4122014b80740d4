CONSTANTS
    send = send
    ghost = ghost
    srv = srv
    srv2 = srv2
    GrantIds = {g1}
    Servers = {srv}
    Tools = {send, ghost}
    Arguments = {a1}
    Principals = {p1}
    ActionIds = {}
    Requests = {r1, r2, r3}
    Operators = {alice}
    None = None
    TTL = 2
    MaxTime = 3
    Metadata <- ReadMetadata
    StartRegistry <- ReadRegistry
    StartExecutors = {send, ghost}
    PolicyConfigs <- OnlyDefaults
    PinnedPrincipals = {p1}
    RefusedPrincipals = {}
    Uncanonical = {}
    Messages <- MCMessages
    AuditBackend = "memory"
SPECIFICATION Spec
SYMMETRY Symmetry
INVARIANTS
    ConsumedWasApproved
