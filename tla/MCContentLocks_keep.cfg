CONSTANTS
    alice = alice  bob = bob  a1 = a1  b1 = b1
    Users <- MCUsers
    Tabs <- MCTabs2
    UserOf <- MCUserOf2
    Slugs = {"s1"}
    Tokens = {1, 2, 3, 4}
    NoToken = 0
    NoOne = NoOne
    Nobody = Nobody
    TTL = 5
    Beat = 2
    Latency = 1
    Reliable = TRUE
    MaxInFlight = 2
SPECIFICATION Spec
INVARIANTS TypeOK HeartbeatKeepsLock ExclusiveEditing KeepInv
