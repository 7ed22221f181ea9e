SPECIFICATION MCSpec
CONSTANTS
    p1 = p1  g1 = g1  w1 = w1  w2 = w2
    None = None  Gone = Gone
    Workers = {w1, w2}  Packages = {p1}
    Users = {ann, bob}  ann = ann  bob = bob  Groups = {g1}
    Followers = {ann}  Hidden = {}
    PackagesOf <- GroupOfOne
    Edits <- TwoEdits
    Crossing = FALSE
    MaxTime = 3
    ResourceIds = {"r1", "r2", "r3"}  Keys = {"k1"}  Values = {1, 2}  Tags = {"t1"}
    Asks <- TheAsks  MaxRequests = 4
    Vocabularies = {v1}  v1 = v1  Names = {"n"}  TagNames = {"t", "u"}  MaxTags = 3
    Linked = {p1, p2}  p2 = p2
    Types = {"depends_on", "dependency_of"}  Comments = {"", "c"}  MaxRelationships = 2
    Resources = {r1}  r1 = r1  Link = Link  MaxUploads = 3
INVARIANT StreamsAreWhole
PROPERTY OldStaysOld
PROPERTY EditsAreLogged
PROPERTY ListsAsAsked
PROPERTY VocabularyAsListed
PROPERTY ForwardAsAsked
 
SYMMETRY SameWorkers
CHECK_DEADLOCK FALSE
