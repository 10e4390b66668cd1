SPECIFICATION Spec
CHECK_DEADLOCK FALSE
CONSTANTS
    None = None
    n = n
    h1 = h1
    h2 = h2
    o1 = o1
    o2 = o2
    s3 = s3
    oidc = oidc
    a = a
    b = b
    NSites = 2
    Names = {n}
    Operators = {o1, o2}
    Mover = o1
    Hostnames = {h1, h2}
    Monitors = {2}
    TTL = 2
    Mishaps = {"stop", "miss", "unread"}
    MaxDeclares = 3
    MaxEvents = 2
INVARIANT
    AddSurvives
