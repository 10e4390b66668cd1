SPECIFICATION Spec
CONSTANTS
    NoKey = NoKey
    None = None
    Keys = {k1, k2, k3}
    Own = k3
    MaxVersions = 4
SYMMETRY Symmetry
INVARIANTS
    VerdictIsGrounded
    RemovalIsFinal
    OperatorsAgree
PROPERTIES
    UntrustedChangesNothing
CHECK_DEADLOCK FALSE
