SPECIFICATION FairSpec
CONSTANTS
    NoList = NoList
    Owner = Owner
    a = a
    b = b
    Deployments = {a}
    ByHand = {2}
    Leaving = {}
    NKeys = 3
    Found = {}
    Restricted = {}
    Lists = {{1, 2, 3}, {3}}
    MaxEdits = 2
    MaxStops = 1
PROPERTY
    StoppedRunResumes
