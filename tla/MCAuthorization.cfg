SPECIFICATION Spec
CONSTANTS
    ann = ann  root = root  o1 = o1  o2 = o2  o3 = o3  p1 = p1
    None = None
    Users = {ann, root}  Sysadmins = {root}  Members = {ann}
    Groups = {o1, o2, o3}
    TypeOf <- ThreeOrgs
    Packages = {p1}
    Configs <- Portals
    MaxRecurses = 1  MaxSize = 2
    References = {"id", "name"}
INVARIANT ListedArePermitted
INVARIANT EditorsSee
INVARIANT PermissionsComeFromAbove
CHECK_DEADLOCK FALSE
SYMMETRY SameOrgs
