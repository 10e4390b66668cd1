SPECIFICATION Spec
CONSTANTS
    s3 = s3
    oidc = oidc
    a = a
    b = b
    None = None
    Keys = {s3}
    Clients = {oidc}
    AppSites = {a, b}
    Commands = {"apply", "init", "create"}
    MaxHeld = 3
    MaxValue = 4
    MaxStops = 3
INVARIANT AppHasWorkingKey
