SPECIFICATION StagedSpec
CHECK_DEADLOCK FALSE
CONSTANTS
    None = None
    n = n
    h1 = h1
    h2 = h2
    o1 = o1
    o2 = o2
    s3 = s3
    oidc = oidc
    a = a
    b = b
    NSites = 2
    Names = {n}
    Operators = {o1, o2}
    Mover = o1
    Hostnames = {h1, h2}
    Monitors = {2}
    TTL = 2
    Mishaps = {"stop", "miss"}
    MaxDeclares = 3
    MaxEvents = 2
    Keys = {s3}
    Clients = {oidc}
    AppSites = {a, b}
    Commands = {"apply", "init", "create"}
    MaxHeld = 3
    MaxValue = 4
    MaxStops = 3
INVARIANTS
    AddSurvives
    AlwaysPublished
    StragglersServed
    NoForgottenKey
PROPERTIES
    MoveFinishes
    OwnStepsKeepWorking
    OldSecretsGone
    KeyRotationFinishes
