SPECIFICATION Spec
CONSTANTS
    p1 = p1  p2 = p2  u1 = u1  g1 = g1  o1 = o1  o2 = o2  o3 = o3
    s1 = s1  s2 = s2  s3 = s3  w1 = w1  w2 = w2
    None = None
    Roles = {"admin", "member"}
    Packages = {p1}  Private = {}  Users = {}
    Groups = {o1, o2}  Orgs = {o1, o2}
    Slots = {s1, s2, s3}  Workers = {w1}
    Lists <- NoLists
    Kinds <- MoveKinds
    Faults = FALSE
INVARIANT OwnerIsOrganization
CHECK_DEADLOCK FALSE
