SPECIFICATION Spec
CONSTANTS
    Clients = {a, b}
    Huts = {h1, h2}
    Keys = {k1, k2}
    None = None
SYMMETRY Sym
CHECK_DEADLOCK FALSE
INVARIANT HoldIsUntold
INVARIANT NoStuckPress
PROPERTY RepeatStaysInHut
