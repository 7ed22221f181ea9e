SPECIFICATION MCSpec
CONSTANTS
    w1 = w1  w2 = w2  x = x  q1 = q1  q2 = q2
    None = None  NotFound = NotFound
    EmptyList = EmptyList  Missing = Missing
    Workers = {w1, w2}
    Packages = {p1}  p1 = p1  Private = {}  Users = {}  Groups = {g1, o1}  g1 = g1
    Orgs = {o1}  o1 = o1  Roles = {"admin"}  Lists = {}
    Slots = {s1, s2, s3}  s1 = s1  s2 = s2  s3 = s3
    Kinds = {"package_create", "package_update", "owner_org", "package_delete"}
    Faults = TRUE
    Resources = {r1}  r1 = r1  MaxAsked = 3
    Fields = {"f1", "f2"}  Cells = {1, 2}  Aliases = {"a"}
    Creates <- TheCreates  Records <- TheRecords  Filters <- TheFilters  MaxRows = 2
    Visitors = {q1, q2}  Pages = {x, y}  y = y  Links = {l}  l = l
    Starts = {0}  MaxDay = 2  MaxViews = 2
    Processes = {q1, q2}  Keys = {"a", "b"}  Settings = {1, 2}  Default = 0
    Updates <- TheUpdates  MaxUpdates = 2
    Beginnings <- TheFiles  Desires <- TheWishes  MaxLines = 14
    Inputs <- TheInputs  Schemas <- TheSchemas  Empty = ""  DefaultText = "default"
INVARIANT OneRowPerGroup
PROPERTY GroupsAsListed
INVARIANT TasksSettle
 
PROPERTY OptionsHold
INVARIANT ValidationKeeps
PROPERTY TablesKeepData
PROPERTY ViewsAddUp
SYMMETRY Alike
CHECK_DEADLOCK FALSE
