SPECIFICATION Spec
CONSTANTS
    NoKey = NoKey
    None = None
    w1 = w1
    w2 = w2
    both = both
    only1 = only1
    s1 = s1
    s2 = s2
    s3 = s3
    Workstations = {w1, w2}
    NSites = 1
    Keys = {w1, w2}
    KeyOf <- OwnKey
    Confs = {both, only1}
    Listed <- ListBoth
    Secrets = {s1, s2}
    FirstFiles <- Created
    Commands = {"publish", "register", "recover", "pull"}
    EditWhile = {"none"}
    Mishaps = {"stop", "files", "cache"}
    MaxVersions = 3
    MaxEdits = 1
    MaxMishaps = 1
INVARIANT
    OwnIsSeen
PROPERTY
    EditsSurvive
ACTION_CONSTRAINT LocalFirst
