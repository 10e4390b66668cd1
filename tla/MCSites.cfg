SPECIFICATION SitesSpec
CONSTANTS
    NoKey = NoKey
    None = None
    Nobody = Nobody
    w1 = w1
    w2 = w2
    both = both
    only1 = only1
    s1 = s1
    s2 = s2
    s3 = s3
    Workstations = {w1}
    NSites = 2
    Keys = {w1, w2}
    KeyOf <- OwnKey
    Confs = {both}
    Listed <- ListBoth
    Secrets = {s1, s2}
    FirstFiles <- Created
    Commands = {"apply", "recover"}
    EditWhile = {"none"}
    Mishaps = {"stop", "site", "workstation"}
    MaxVersions = 3
    MaxEdits = 2
    MaxMishaps = 3
    d1 = d1
    d2 = d2
    d3 = d3
    tie = tie
    DataSites = {d1, d2, d3}
    Founder = d1
    Declared = {{d1, d2, d3, tie}}
    Synchronous = TRUE
    MaxDeclares = 1
    MaxChangeMishaps = 1
INVARIANTS
    HeldClosed
    QuorumKept
PROPERTIES
    WitnessHolds
    WritesGoOn
    ChangesFinish
