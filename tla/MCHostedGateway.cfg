CONSTANTS
    send = send
    ghost = ghost
    srv = srv
    srv2 = srv2
    GrantIds = {g1, g2}
    Servers = {srv}
    Tools = {send, ghost}
    Arguments <- EdgeArguments
    Principals = {p1, p2}
    ActionIds = {}
    Requests = {r1, r2}
    Operators = {alice}
    None = None
    TTL = 1
    MaxTime = 1
    Metadata <- MCMetadata
    StartRegistry <- MCRegistry
    StartExecutors = {}
    PolicyConfigs <- EdgePolicies
    PolicyLines <- MCPolicyLines
    PolicyFiles <- MCPolicyFiles
    Filters <- MCFilters
    Characters <- MCCharacters
    Nodes = {"x", "y"}
    Scalars <- MCScalars
    SortedKeys <- MCSortedKeys
    Indices <- MCIndices
    Heaps <- JsonHeaps
    Root <- MCRoot
    PinnedPrincipals = {p1}
    RefusedPrincipals = {p2}
    Uncanonical <- EdgeUncanonical
    Messages <- MCMessages
    AuditBackend = "memory"
SPECIFICATION Spec
SYMMETRY Symmetry
INVARIANTS
    AuditTellsOutcome
    PolicyIsAsWritten
    AuditAnswersAgree
    HashesAreExact
PROPERTIES
    AuthoritySpec
