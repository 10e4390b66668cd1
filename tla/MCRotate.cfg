SPECIFICATION FairSpec
CONSTANTS
    None = None
    d1 = d1
    d2 = d2
    d3 = d3
    standby = standby
    superuser = superuser
    login = login
    token = token
    app = app
    Sites = {d1, d2, d3}
    DataSites = {d1, d2, d3}
    Roles = {standby, superuser}
    Logins = {login}
    Inner = {}
    Pasted = {token}
    AppSites <- AppHost
    AppOf <- OneApp
    Synchronous = TRUE
    NamedSets <- OneOrOther
    MaxValue <- Times
    MaxMishaps = 2
INVARIANTS
    Recoverable
    LeaderIsLast
    AllMeansAll
PROPERTIES
    HandedIsAccepted
    RotatesOneByOne
    RotationFinishes
