SPECIFICATION MCSpec
CONSTANTS
    w1 = w1  w2 = w2  p1 = p1  p2 = p2  g1 = g1  o1 = o1  o2 = o2
    ann = ann  bob = bob  root = root  d1 = d1  d2 = d2
    None = None  Gone = Gone
    Workers = {w1, w2}  Packages = {p1}  Users = {ann}
    Kinds = {"update", "member_create", "bulk_private", "reindex", "rebuild"}
    Updates <- OneUpdate  Patches = {}  Faults = FALSE  MaxTime = 2
    Listed = {p1, p2}  Groups = {g1}  GroupNames = {"a", "b"}  Orgs = {o1, o2}
    Readers = {ann, root}  Sysadmins = {root}
    Editors <- TheEditors  CreatorOf <- TheCreators  TagsOf <- TheTags
    ResourcesOf <- TheResources  Managers <- TheManagers  DefaultRows = 1
    PlugIns = {"x", "y", "z"}  Unknown = "none"  Core <- TheCore  Defines <- TheDefinitions
    TypesOf <- TheTypes  Fallbacks = {"y"}  MaxLoads = 4
    Title = "title"  Notes = "notes"  TermNames = {"title", "notes"}
    Texts = {"x", "y"}  Langs = {"en", "fr"}  DefaultLang = "en"
    TermRequests <- TheEntries  MaxTermRequests = 3
    RoleObjects = {"d"}  RoleUsers = {ann, bob}  Creators = {ann}
    RoleNames = {"admin", "editor", "reader"}  DefaultRoles <- TheDefaults
    RoleRequests <- TheRoles  MaxRoleRequests = 3
    ItemNames = {"i"}  Contents = {1, 2}  MaxItemRequests = 3
    Persons = {d1, d2}  Names = {"site", "n"}  SiteId = "site"
    Passwords = {"x", "y"}  MaxKeys = 2
    Dataset = p1  Parts = {"r"}  Values = {1, 2}  MaxRevised = 3
    Tagged = {d1, d2}  TagNames = {"s", "t"}  MaxTags = 2
INVARIANT IndexComplete
INVARIANT ListsAgree
INVARIANT ServedAsLoaded
INVARIANT ItemsAsTold
PROPERTY TranslationsAsAsked
PROPERTY RolesAsAsked
PROPERTY AccountsHold
PROPERTY HistoryHolds
PROPERTY FreeTagsHold
SYMMETRY Alike
CHECK_DEADLOCK FALSE
