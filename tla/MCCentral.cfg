SPECIFICATION CentralSpec
CONSTANTS
    Nobody = nobody
    SoldTo = c1
    FirstTerms = l1
    EdgePolicies = {l1, l2}
    MaxKeys = 3
    MaxCrashes = 1
    Absent = absent
    Txns = {t1, t2, t3}
    Machines = {m1, m2}
    Tenants = {c1, c2}
    EventsPerMinute = 2
    MaxCost = 8
    IngestEvents = {e1, e2}
    WithSnapshot = {e1}
    IngestRequests = {r1, r2}
    MaxPuts = 2
    KeptEvent = e1
    ClipEvents = {e1, e2, e3}
    Workers = {w1, w2}
    Quota = 1
    Retention <- MCRetention
    MaxTries <- MCMaxTries
    MaxStruck = 1
    Nothing = nothing
    Agents = {a1, a2}
    AgentRequests = {r1, r2}
    LastHost = 3
    MaxCalls = 5
    NoAgent = noagent
    Users = {u1}
    Roles = {"gestor", "viewer"}
    Manager = "gestor"
    SessionRequests = {r1}
    AccessTtl = 1
    PlaybackTtl = 2
    MaxWait = 1
    Rules = {n1, n2}
    ContactRules = {n1}
    MaxRuns = 2
    GatewayTries = 2
    Consents = {k1, k2, k3}
    Profiles = {p1}
    Deletions = {d1, d2}
    FirstSlug = s1
    Slugs = {s1, s2}
    Emails = {e1}
    AdminRequests = {q1, q2}
    NoSlug = noslug
    NoEmail = noemail
    ReportIds = {i1, i2}
    ReportTenants = {c1}
    AnyTenant = any
    Jobs = {j1, j2}
    PdfSemLimit = 1
    PdfSemTtl = 3
    SemTimeout = 1
    JobTimeout = 2
    MaxDeaths = 1
    MaxCuts = 1
    Procs = {p1, p2}
    Boxes = {b1}
    Commands = {r1, r2}
    Links = {l1, l2}
    LanCameras <- MCLanCameras
    LanReplies <- MCLanReplies
    NoBox = nobox
    NoProc = noproc
    NoLink = nolink
    NoCommand = nocommand
    Streams = {s1, s2}
    News = {e1, e2}
    EarlyNews = {e1}
    Watchers = {c1}
    MaxStreams = 1
    PoolSize = 2
    NoWatcher = nowatcher
CHECK_DEADLOCK FALSE
INVARIANTS
    CentralTypeOK
    LicenceIsHeld
    QuotaHolds
    EventsKept
    ClipsKept
    PeersAreTunnels
    AccessIsRecent
    MessagesAreLogged
    FaceDataKept
    TrailIsTrue
    FewPdfs
    AnswersMatch
    StreamsAreTrue
PROPERTY OnlyOwnerOrAdminRevokes
