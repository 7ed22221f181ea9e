SPECIFICATION Spec
CONSTANTS
    p1 = p1  p2 = p2  w1 = w1  None = None
    Packages = {p1, p2}
    Types = {"depends_on", "dependency_of"}
    Comments = {"", "c"}
    Workers = {w1}
    MaxRows = 2
PROPERTY CreatedIsThere
CHECK_DEADLOCK FALSE
