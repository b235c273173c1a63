SPECIFICATION ServicesSpec
CONSTANTS
    Exporters = {"e1", "e2"}
    TemplateIds = {1}
    Definitions = {"d1", "d2"}
    Datagrams <- SampleDatagrams
    Allowlists <- SampleLists
    MaxTemplates = 1
    MaxTracked = 1
    MaxDatagrams = 3
    Probes <- SampleProbes
    ClientPorts = {3}
    ScanWindow = 2
    FloodWindow = 1
    Cooldown = 2
    SweepInterval = 2
    PortScanPorts = 2
    HostSweepHosts = 1
    SynFloodAttempts = 3
    MaxReported = 2
    MaxProbes = 5
    Macs = {m1, m2}
    Ips = {i1, i2}
    Configured = {i2}
    RightMac = m1
    NoIp = NoIp
    Trusted = 2
    MaxIpsPerMac = 1
    FlipWindow = 1
    LearningPeriod = 1
    TouchInterval = 2
    MaxTrackedIps = 1
    MaxTrackedMacs = 1
    MaxTrackedDevices = 1
    MaxFrames = 3
    Callers = {d1, d2}
    Passwords = {"p1", "p2"}
    NoPassword = "none"
    ConsolePatches <- SamplePatches
    MaxCalls = 2
    MaxFaults = 1
    Requests = {r1, r2}
    Emails = {"x", "y"}
    SeededUsers = {}
    AllowOpenSignup = TRUE
    MaxAccounts = 2
    MaxRequests = 2
    Instances = {p1, p2}
    Values = {v1, v2}
    Legacy = Legacy
    Unset = Unset
    Default = Default
    MaxBoots = 3
    MaxSettingSaves = 1
    MaxSettingFaults = 1
    Feeds <- SampleFeeds
    Downloads = {"net"}
    Bodies = {"a", "b", "c"}
    Contents <- SampleContents
    Addresses = {0, 1, 2, 3, 4, 5, 6, 7, 8}
    NonRoutable = {0}
    MaxIndicators = 3
    NoBody = "none"
    MaxReloads = 3
    MaxIntelCrashes = 1
    Runners = {p1, p2}
    Directories <- SampleDirectories
    MaxStarts = 3
    FirstRunAlone = TRUE
    Users = {u1, u2}
    NoUser = NoUser
    TokenLife = 8
    StoredLives = {2}
    GuideLife = 5
    RenewInterval = 2
    CheckedFirst = TRUE
    MaxTime = 2
    MaxSignIns = 1
    MaxMisses = 1
    MaxOut = 1
    MaxEdits = 2
    MaxEvents = 1
    Contacts <- SampleContacts
    LocalHosts = {"h"}
    Questions <- SampleQuestions
    NoQuestion = "-"
    Indicator <- SampleIndicator
    ContactPause = 2
    TunnelPause = 1
    TunnelWindow = 2
    DistinctNames = 2
    MaxPairings = 1
    MaxContacts = 3
    MaxListChanges = 1
    Width <- SampleWidth
    Windows = {3, 4, 5}
    KeptFor = 2
    LastInstant = 5
    MaxStored = 2
    Alerts = {x1, x2}
    Analysts = {n1, n2}
    MaxDeskPresses = 2
    MaxDeskEvents = 1
    Bits = 2
    Blank = Blank
    AlertKinds = {"scan", "arp"}
    RetiredKind = "old"
    Ports = {1}
    Texts <- SampleTexts
    AlertsShown <- SampleAlerts
    SampleLimit = 1
    SomeRows <- SampleRules
    MaxRuleEdits = 1
    MaxRuleCalls = 2
    Shapes <- SampleShapes
    PlainShape <- SamplePlain
    Messages <- SampleMessages
    FramesPerTick = 2
    RingSize = 2
    MaxQueued = 2
    MaxFramesSent = 3
    MaxOpens = 2
    SensorIds = {"me", "all"}
    Self = "me"
    EverySensor = ""
    Ranks = {0, 1}
    ListLimit = 2
    PageSizes = {1, 2}
    NoRows = NoRows
    Listings <- SampleListings
    MaxListed = 4
    MaxListEvents = 1
    MaxPageActs = 2
    Actions = {"delete", "log"}
    Written = {"delete"}
    AllActions = "all"
    PageLimit = 1
    MaxEntries = 4
    MaxTrailActs = 4
    QueryCallers = {1, 2}
    MaxClients = 1
    RowCaps = {2}
    MaxQueries = 2
    MaxListedFindings = 2
    MaxEmbeds = 3
    MaxString = 3
    MaxLine = 6
    MarkerBytes = 2
    MaxBatch = 3
    MaxText = 3
    SavedSettings <- SampleSettings
    MaxDeliverySaves = 1
    MaxTests = 1
    ScopeTTL = 4
    ScopeRefresh = 2
    TimerLate = 1
    MaxScopeTime = 10
    MaxArrivals = 2
    Pages = {"dashboard", "alerts", "rules", "delivery"}
    Sections = {"overview", "security", "administration"}
    SectionOf <- SampleSectionOf
    AdminPages = {"delivery"}
    Terms = {"ru"}
    FoundBy <- SampleFound
    MaxVisits = 1
    Octets = 4
    Second = 4
    NtpOffset = 10
    MinPlausible = 20
    Exports <- SampleExports
    MaxV5 = 2
INVARIANTS
    ServicesTypeOK
    
    ConsoleExact
    AccessExact
    MigrationsExact
    PagesExact
    ReadingsExact
    DeliveryExact
PROPERTIES
    AdministrationExact
    SettingsExact
    IntelExact
    ScreensExact
    SavedExact
CHECK_DEADLOCK FALSE
