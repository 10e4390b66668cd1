SPECIFICATION FairSpec
CONSTANTS
    NoKey = NoKey
    None = None
    w1 = w1
    w2 = w2
    both = both
    only1 = only1
    s1 = s1
    s2 = s2
    s3 = s3
    Workstations = {w1}
    NSites = 2
    Keys = {w1, w2}
    KeyOf <- OwnKey
    Confs = {both}
    Listed <- ListBoth
    Secrets = {s1, s2}
    FirstFiles <- Created
    Commands = {"apply", "apply --site"}
    EditWhile = {"none"}
    Mishaps = {"stop"}
    MaxVersions = 3
    MaxEdits = 2
    MaxMishaps = 2
INVARIANTS
    AppliedIsStored
PROPERTIES
    EverySiteLearns
