SPECIFICATION MCSpec
CONSTANTS
    a = a  b = b  m1 = m1  m2 = m2  n1 = n1
    Focus <- Each
    Client = {c1, c2}  Http = {h1}  Stdio = {p1}  Item = {i1}
    Asset <- Kinds  AssetKind <- Own  NodeName = {a, b}  Registered = {b}  MaxStamp = 2
    OldAlbum <- ThreeIds  Crashes = 1
    StartScript = {s1, s2}  Updater = {u1}  MaxProcess = 2  MaxTurn = 1
    Latest = {2, 3}  MaxMishap = 2
    Workflow = {"w1", "w2"}  Dep = {m1, m2, n1}  RefOf <- Refs  CategoryOf <- Categories
    Unhashed = {"file"}  Missing <- Needed  MaxVersion = 2  TTL = 1  MaxPlans = 1
    MaxRedirects = 1  MaxIssued = 2  MaxClock = 1  MaxMoves = 1
    Called = {"vault_trash_empty"}  Cap = 1  SessionIdle = 0  CallRate = 1  Window = 0  Batch = 1
    MaxSession = 2  MaxCall = 2  MaxEvent = 1
    Id <- ThreeIds  KeyOf <- KeysOf  ListHits <- HitsOf  MaxLimit = 2
    Questions <- Queries  Stored <- Libraries
    Shelved <- Stock  FactsOf <- Facts  Content = {"x", "y"}  First <- Shelves
    StaleDays = 180  MaxCommit = 2
    Poster = {p1}  Media = {"image", "model3d"}  MaxClean = 1
    ConfigAsks <- Wishes  Looks <- Installs  Dir <- Directories  HintsOf <- Usual
    ChildrenOf <- Listed  MAX_CHILD_PROBE = 2  MaxSaves = 1  MaxFailures = 1
    Releases = {1, 2}  RETRIES = 1  BREAKER_THRESHOLD = 2  MaxAsk = 2  MaxScan = 1
    Package = {1}  ComfyRoot = {"none", "r1", "r2"}  Managed = {"r1"}  MaxLook = 2  MaxFetch = 2
    AlbumName = {"a", "b"}  System = {"b", "c"}  MaxAlbum = 3  MaxEdit = 4
    Uid <- ThreeIds  ArmOf <- Arms  PageSize = 2  MaxChange = 1
INVARIANTS   OneComfyUI   AgentsPermitted ListsComplete  ThumbsCurrent  ConfigSound 
CONSTRAINT Followed
CHECK_DEADLOCK FALSE
