CONSTANTS
    GrantIds = {g1}
    Servers = {s1, s2}
    Tools = {t1, t2}
    Arguments = {a1, a2}
    Principals = {p1, p2}
    ActionIds = {act1, act2}
    Requests = {r1, r2}
    Operators = {alice, bob}
    None = None
    TTL = 2
    MaxTime = 4
SPECIFICATION StoreSpec
SYMMETRY Symmetry
INVARIANTS
    StoreTypeOK
    ExclusiveDecision
    ApprovedInTime
    ApprovalPinsAction
PROPERTIES
    NoRevival
