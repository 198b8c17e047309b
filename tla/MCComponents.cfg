SPECIFICATION Spec
CONSTANTS
    e1 = e1
    s1 = s1
    u1 = u1
    u2 = u2
    e2 = e2
    e3 = e3
    d1 = d1
    d2 = d2
    EventSessions = {e1, e2, e3}
    Descriptors = {d1, d2}
    DescriptorOf <- MCDescriptorOf
    NoSession = NoSession
    HandlerIds = {1, 2, 3}
    PollingThreadSlots = {1, 2}
    minimumPollingThreads = 1
    maximumEventsPerPollingThread = 1
    MaxSessions = 2
    MaxUpdates = 2
    Holders = {h1, h2}
    DeletedAtShutdown = {h1}
    Resurrectable = {h1, h2}
    Users = {u1, u2}
    NobodyHolds = NobodyHolds
    MaxCreated = 2
    Clients = {c1, c2}
    MAX_SESSIONS_HISTORY = 2
    MAX_LOGS_HISTORY = 2
    Monitors = {m1, m2}
    MaxMonitored = 3
    MaxTransactions = 3
    FollowedSessions = {1}
    Bytes = {a}
    Junk = Junk
    resizeIncrement = 0
    MaxBufferSize = 4
    MaxBytesSent = 3
    Savers = {s1, s2}
    Original = Original
    Stamps = {1, 2}
    NoFile = NoFile
    l1 = l1
    auto = auto
    LoggerNames <- MCLoggerNames
    Loggers = {l1, auto}
    NameOf <- MCNameOf
    AutoLogger = auto
    Levels = {0, 1}
    AutoLevel = 1
    LevelSetters = {t1, t2}
    NoLogger = NoLogger
    LogMessages = {a, b, c}
    Filtered = {c}
    Severe = {b}
    NoMessage = NoMessage
    MaxLogged = 3
    MAX_ONE_BYTE_LENGTH = 12
    V_MAX_U16 = 24
    V_MAX_U32 = 40
    Hierarchies <- MCHierarchies
    Texts <- MCTexts
    ByteOrders = {"left", "right"}
    TailThreads = {r1, r2}
    NoTailThread = NoTailThread
    MaxBytes = 2
    MaxTransfer = 2
    TimeOut = 1
    Pieces <- MCPieces
    InternalSize = 2
    ExpansionChunk = 2
    MaxText = 4
    SettingPaths <- MCSettingPaths
    SettingValues <- MCSettingValues
    SettingTexts <- MCSettingTexts
    Indexed <- MCIndexed
    MaxNodes = 5
INVARIANTS
    ComponentsTypeOK
    DiesOnlyOfRace
    NewSessionsMonitored
    SubscribersHearEvents
    UpdatesAreWhole
    InstancesAreRegistered
    HistoriesAreWhole
    StreamIsAFile
    AVersionSurvives
    ActiveLevelsPass
    LoggedIsCounted
    LinesMakeTheText
    TransfersAreWhole
    StringKeepsText
    WrittenIsReadBack
PROPERTIES
    HangUpReported
    StopReturnsIfEvents
    RaiseReturns
    WSAStopEnds
    ShutdownCompletes
    TailFollows
CHECK_DEADLOCK FALSE
