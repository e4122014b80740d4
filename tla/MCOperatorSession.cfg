CONSTANTS
    dev = dev
    anyone = anyone
    old = old
    new = new
    bare = bare
    other = other
    nameless = nameless
    alice = alice
    bob = bob
    s1 = s1
    s2 = s2
    r1 = r1
    k1 = k1
    k2 = k2
    None = None
    Profiles <- MCProfiles
    Claims <- MCClaims
    RandomSessions = {r1}
    Processes = {p1, p2}
    File = File
    Deployments <- MCDeployments
    Requests = {q1, q2}
    SessionIds = {s1, s2, r1}
    Routes = {"logout", "decide"}
SPECIFICATION Spec
SYMMETRY Symmetry
INVARIANTS
    SessionTypeOK
    LogoutIsFelt
    TrailTellsSession
PROPERTIES
    RevokedForGood
    CredentialsMoveForward
    SessionsImplementAuthority
