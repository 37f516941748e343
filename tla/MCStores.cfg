CONSTANTS
    c1 = c1  c2 = c2  c3 = c3
    Providers = {1}
    Domains = {"newsletter"}
    DomainOf <- MCDomainOf
    Requests = {c1, c2, c3}
    Fields = {"old", "new"}
    NoFields = "none"
    Seals = {1, 2, 3, 4, 5}
    NoSeal = 0
    MaxRoot = 2
    LkSlugs = {"s1"}
    LkUsers = {"alice", "bob"}
    LkClients = {c1, c2, "b1"}
    LkUserOf <- MCUserOf
    LkTokens = {1, 2, 3, 4, 5}
    LkNoToken = 0
    LkNoOne = "none"
    LkTTL = 2
    MgLast = 2
    MgCommands = {c1, c2}
    MgWritten <- MCWritten
    MgTolerant <- MCTolerant
    MgCommented <- MCCommented
    FlRequests = {c1, c2, "r3"}
    FlIds = {1, 2}
    FlTTL = 2
    FlMaxNow = 4
    RlRequests = {c1, c2}
    RlForms = {"contact"}
    RlLogins = {"login"}
    RlNonces = {"nonce"}
    RlMax = 2
    RlWindow = 1
    RlMaxNow = 2
    RtPaths = {"page", "robots"}
    RtSystem = {"robots"}
    RtRequests = {c1, c2}
    RtMaxText = 2
SPECIFICATION MCSpec
INVARIANTS TypeOK LatestCredentialsKept SecretsInv StoresTypeOK ConnectedHasSecret LatestCredentialsKeptD1 RecordedIffInForce GoneOnceShown LimitHolds NewestIsShown RefusedLate StartFailsOnTaken
PROPERTIES OnlyUnsetLocksOut StealOnlyByOverlap StateUsedOnce
SYMMETRY MCSymmetry
CHECK_DEADLOCK FALSE
