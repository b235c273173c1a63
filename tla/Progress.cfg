SPECIFICATION ProgressSpec
CONSTANTS
    Keys = {k1, k2}
    Closers = {c1}
    Savers = {r1, r2}
    Settings <- AllSettings
    FirstSettings <- Open
    Hour = 2
    MaxQueued = 1
    MaxThrottleKeys = 1
    MaxTime = 3
    MaxFindings = 3
    MaxSaves = 2
    Drainers = {f1, f2}
    MaxExportBatch = 2
    MaxExportQueue = 3
    MaxExported = 5
    Admins = {a1, a2}
    Criteria = {k, s}
    Patches <- ClearOne
    Refresh = 1
    PromptRetries = 1
    Backoff = 1
    MaxVersion = 3
    MaxLoadFailures = 2
    Nobody = Nobody
    Clients = {c1, c2}
    Bindings = {b1, b2}
    DefaultBinding = b1
    BootMayOverlap = FALSE
    MaxPuts = 2
    MaxReadFailures = 1
    MaxSocketErrors = 1
    Closed = Closed
    MaxPresses = 2
    MaxOthers = 1
    MaxDeaths = 1
    MaxReadErrors = 1
    MaxLines = 2
    MaxAttempts = 3
    Locale <- SampleLocales
    English <- SampleEnglish
    RightToLeft <- SampleRightToLeft
    Tags <- SampleTags
    BrowserTags <- SampleBrowserTags
    FindingCatalogs <- SampleFindings
    ServerErrors <- SampleServerErrors
    BundleErrors <- SampleBundleErrors
    RowsRead <- SampleRows
    Failures <- SampleFailures
INVARIANTS
    ProgressTypeOK
    Conserved
    SettingsInForce
    CeilingHolds
    ThrottleHolds
    FeedSafety
    CacheSafety
    OneSocket
    ResultsAreHonest
    WordsExact
PROPERTIES
    InForceWhenAnswered
    SaveSettles
    DueIsDone
CHECK_DEADLOCK FALSE
