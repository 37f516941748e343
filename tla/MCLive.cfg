CONSTANTS
    alice = alice  bob = bob  a1 = a1  b1 = b1
    Users <- MCUsers
    Tabs <- MCTabs2
    UserOf <- MCUserOf2
    Slugs = {"s1"}
    Tokens = {1, 2, 3, 4}
    NoToken = 0
    NoOne = NoOne
    Nobody = Nobody
    TTL = 2
    Beat = 1
    Latency = 0
    Reliable = FALSE
    MaxInFlight = 1
SPECIFICATION MCSpec
PROPERTIES AbandonedLockLapses ImplementsLease OnlyOwnerEndsLock ScheduleRuns
CHECK_DEADLOCK FALSE
