CONSTANTS
    admin = admin
    auditor = auditor
    None = None
    NoToken = NoToken
    Tokens = {admin, auditor}
    Permissions <- MCPermissions
    Unpinned = {auditor}
    Kinds = {"content"}
    MaxRefreshes = 2
    MaxFailures = 1
SPECIFICATION Spec
INVARIANTS
    DashboardTypeOK
PROPERTIES
    ViewSettles
