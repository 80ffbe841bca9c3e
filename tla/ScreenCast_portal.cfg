SPECIFICATION Spec
CONSTANTS
    Sessions = {s1, s2}
    Calls = {c1, c2}
    None = None
INVARIANT CastsAreOwned
PROPERTY CastsAreKept
PROPERTY StartAnswered
PROPERTY CastEnds
