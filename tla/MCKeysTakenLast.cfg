SPECIFICATION Spec
CONSTANTS
    NoList = NoList
    Owner = Owner
    a = a
    b = b
    Deployments = {a, b}
    ByHand = {}
    Leaving = {}
    NKeys = 3
    Found = {}
    Restricted = {}
    Lists = {{1}, {2}, {3}}
    MaxEdits = 2
    MaxStops = 0
PROPERTY
    TakenLast
