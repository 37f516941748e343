CONSTANTS
    ann = ann  bob = bob
    Slugs = {"post"}
    SeedSets = {{}, {"post"}}
    Users = {ann, bob}
    Statuses = {"draft", "published"}
    Forms <- MCDraft
    Backends = {"sqlite", "d1"}
    MaxEdit = 2
    MaxNow = 2
    AcUsers = {"ed"}
    AcAdmins = {}
    AcRoles = {"editor"}
    AcPolicies <- MCPolicies
    AcConditions <- MCConditions
    AcAlways <- MCAlways
    AcActions <- MCActions
    AcOwners = {"ed", "other"}
    AcTeams = {"desk"}
    AcMissing = "missing"
    AcRequests = {"q1"}
    AcMaxChange = 5
    MdIds = {1, 2, 3}
    MdNoId = 0
    MdRequests = {"q1", "q2"}
    MdMaxRebind = 1
    ImLast = 3
    ImNames = {1, 2, 3}
    ImWpName <- MCWpName
    ImMaxRun = 2
    BkEntries = {"src", ".data"}
    BkInclude <- MCInclude
    BkDatabase = ".data"
    BkMaxEdit = 4
SPECIFICATION MCSpec
INVARIANTS TypeOK ShownIsASnapshot OriginalRestorable SiteTypeOK AllowedWasGranted RefusedWithReason LiveRowHasFile CompletedIsWhole
PROPERTIES UnseenLoss RestoredIsSnapshot
CHECK_DEADLOCK FALSE
SYMMETRY MCSymmetry
