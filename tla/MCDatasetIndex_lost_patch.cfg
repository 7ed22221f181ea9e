SPECIFICATION Spec
CONSTANTS
    Packages = {p1}
    Workers = {w1, w2}
    p1 = p1
    w1 = w1
    w2 = w2
    None = None
    Kinds <- Patching
    Updates <- MCUpdates
    Patches <- MCPatches
    Faults = FALSE
    MaxTime = 2
PROPERTY PatchLeavesOthers
