SPECIFICATION RecordsSpec
CONSTANTS
    Relatives = {p1, p2, p3}
    NoPerson = NoPerson
    Admins = {a1, a2}
    Names = {"former", "new"}
    Ids = {1, 2, 3}
    PageTimes = {1, 2}
    Limits = {1, 2}
    Moons <- MCMoons
    NewMoon <- MCNewMoon
    Section <- MCSection
    Calendars <- MCCalendars
    FirstDay <- MCFirstDay
    LastDay <- MCLastDay
    PageDays = 30
    PageLimit = 2
    Unions = {u1, u2}
    NoUnion = NoUnion
    Statuses = {"married", "divorced"}
    Orders = {1}
    NoOrder = 0
    MaxEdits = 1
    EventIds = {1}
    Fields = {"title", "event_date"}
    Values = {0, 1}
    Releases <- MCReleases
    LastMigration <- MCLastMigration
    MaxAttempts = 1
SYMMETRY RecordsSymmetry
INVARIANTS
    ListedOnce
    NextIsFirstKept
    UpcomingIsAnnounced
    EventAuditReplays
    ReleaseKeepsServing
PROPERTIES
    SuspensionSticks
    FounderIsTold
    SharedOrderOnlyByRace
CHECK_DEADLOCK FALSE
