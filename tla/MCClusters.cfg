SPECIFICATION ClustersSpec
CONSTANTS
    None = None
    NSites = 3
    Dialled = {1}
    StopAt <- Anywhere
    MaxKeys = 7
    MaxMishaps = 2
    g1 = g1
    g2 = g2
    g3 = g3
    OldSites = {g1, g2}
    FirstFactor = 1
    Factors = {1, 2}
    Failing = {g2, g3}
    JoinMishaps = {"stop", "down"}
    MaxJoinMishaps = 2
    Owner = Owner
    NoList = NoList
    da = da
    db = db
    Deployments = {da, db}
    NKeys = 2
    Found = {1}
    Restricted = {}
    ByHand = {2}
    Leaving = {da}
    Lists = {{1}, {2}, {1, 2}}
    MaxHostEdits = 2
    MaxHostStops = 1
INVARIANTS
    KeysHeld
    PeersAgree
    SplitOnlyPaused
    PauseIsOwed
    OneFactor
    NothingMissing
PROPERTIES
    MaintenanceKept
    HostRespected
    RekeyFinishes
    JoinFinishes
    ListedGetIn
