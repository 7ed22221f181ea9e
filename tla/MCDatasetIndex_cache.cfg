SPECIFICATION Spec
CONSTANTS
    Packages = {p1}
    Workers = {w1, w2}
    p1 = p1
    w1 = w1
    w2 = w2
    None = None
    Kinds <- Stamped
    Updates <- MCUpdates
    Patches <- MCPatches
    Faults = TRUE
    MaxTime = 2
SYMMETRY Symmetry
INVARIANT TypeOK
INVARIANT CacheHonest
INVARIANT ReplyHonest
PROPERTY ImplementsRegister
