SPECIFICATION Spec
CONSTANTS
    NoKey = NoKey
    None = None
    w1 = w1
    w2 = w2
    both = both
    only1 = only1
    s1 = s1
    s2 = s2
    s3 = s3
    Workstations = {w1, w2}
    NSites = 1
    Keys = {w1, w2}
    KeyOf <- OwnKey
    Confs = {both}
    Listed <- ListBoth
    Secrets = {s1, s2, s3}
    FirstFiles <- Created
    Commands = {"publish", "pull", "recover"}
    EditWhile = {"none", "pull"}
    Mishaps = {}
    MaxVersions = 2
    MaxEdits = 2
    MaxMishaps = 0
PROPERTIES
    EditsSurvive
ACTION_CONSTRAINT LocalFirst
