SPECIFICATION Spec
CONSTANTS
    NoKey = NoKey
    None = None
    w1 = w1
    w2 = w2
    both = both
    only1 = only1
    s1 = s1
    s2 = s2
    s3 = s3
    Workstations = {w1, w2}
    NSites = 1
    Keys = {w1, w2}
    KeyOf <- OwnKey
    Confs = {both, only1}
    Listed <- ListBoth
    Secrets = {s1}
    FirstFiles <- Created
    Commands = {"publish", "merge", "recover"}
    EditWhile = {"none"}
    Mishaps = {}
    MaxVersions = 4
    MaxEdits = 1
    MaxMishaps = 0
INVARIANTS
    HeadForAll
ACTION_CONSTRAINT LocalFirst
