SPECIFICATION MonitoringSpec
CONSTANTS
    CameraRequests = {q1, q2}
    Grace = 1
    MaxEdits = 2
    MaxFields = 1
    NoPath = nopath
    Readings = {m1, m2}
    OneRequest = q1
    OneReading = m1
    OneCamera = c1
    DedupTtl = 1
    MaxSends = 2
    NoReading = noreading
    Cameras = {c1, c2}
    Plugins = {u1, u2}
    OtherPlugin = other
    QueueSize = 1
    MaxBatch = 2
    MaxEmptyFrames = 2
    MaxFrames = 3
    MaxChanges = 2
    MaxMishaps = 1
    Zones = {z1}
    ZoneCameras = {c1, c2}
    Watched = {c1}
    ApiWorkers = {w1, w2}
    CacheTtl = 2
    RefreshEvery = 1
    MaxDelay = 1
    NoCamera = nocamera
    FenceCameras = {"gate", "yard"}
    FenceZones <- MCFenceZones
    Places = {"p1", "p2", "p3"}
    Close <- MCClose
    TrackIds = {t1, t2}
    TrackTtl = 0
    MaxDetections = 2
    MaxRedraws = 1
    NoFrame = noframe
    RetentionDays = {1, 2}
    PruneEvery = 2
    HookDelay = 1
    LastTick = 7
    MaxSkips = 1
    MaxRecEdits = 1
    MaxRecFields = 1
    MaxSegments = 2
    NoRecPath = norecpath
    TrapCamera = "gate"
    OtherCameras = {"yard"}
    Vehicles = {v1, v2}
    RoadEnd = 3
    Reach = 1
    MinShift = 1
    SpeedTracks = {t1}
    SpeedTtl = 1
    LastFrame = 4
    MaxReshapes = 1
    MaxShown = 1
    NoTrap = notrap
    ReconnectInterval = 2
    FrameInterval = 1
    MaxFailed = 2
    MaxTurns = 5
    PtzRequests = {r1, r2}
    Spots = {s1, s2}
    OneSpot = s1
    NoMove = nomove
    NoToken = notoken
CHECK_DEADLOCK FALSE
INVARIANTS
    
    RowAndPathAgree
    NoReadingLost
    SeesItsOwnFrame
    ZonesAreRecent
    FalseAlarmsExplained
    TimelineIsTrue
    NeverTooFast
    FramesComeBack
    HaltsHold
