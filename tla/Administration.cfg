SPECIFICATION AdministrationSpec
CONSTANTS
    NULL = NULL
    Browsers = {ada, bea}
    Requests = {s1, s2}
    MaxSessions = 2
    MaxFactors = 2
    Mixes <- ThreeMixes
    Enrolled = {{}, {1}}
    Users = {ada, bea}
    StaffRoles = {staff}
    Admin = Admin
    Slots = {s1, s2}
    Searches = {"", "ann"}
    LastOffset = 1
    Rows = {"e1", "e2"}
    MaxRequests = 3
    MaxChanges = 1
    Administrators = {ada, bea}
    Batches = {"2024", "2025"}
    Colleges = {"nursing"}
    Totals = {1}
    MaxSaves = 2
SYMMETRY Alike
CHECK_DEADLOCK FALSE
INVARIANTS
    OneChangePerGrant
    ResetEndsOldSessions
    OnlyUnlockedRemovalsLoseAdmins
    ListIsNewest
    OwnChangesShown
    StoredIsLastSave
PROPERTIES
    RemovalsWereAsked
