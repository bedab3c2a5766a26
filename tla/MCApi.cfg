SPECIFICATION ApiSpec
CONSTANTS
    Slots = {w1, w2}
    Threads = {w1, w2}
    Workers = {w1, w2}
    Desks = {w1, w2}
    Tokens = {t1, t2, t3}
    Cap = 2
    Lifetimes = {2}
    Limit = 1
    Window = 2
    MaxTime = 3
    MaxRequests = 3
    Events = {e1, e2}
    Stops = {e1, e2}
    EventIds = {e1}
    Vibes = {v1, v2}
    MaxWrites = 3
    People = {p1, p2}
    FolderIds = {f1, f2}
    Invites = {i1}
    Ttl = {0, 1}
    MaxDay = 2
    MaxAsked = 4
    Plans = {s1, s2}
    Lasting = {1, 3}
    MaxHour = 3
    MaxRevision = 1
    MaxServed = 4
    Ids = {1, 2, 3}
    Queries = {"all", "music"}
    Passing <- MCPassing
    Starts = {1, 2}
    PageSize = 1
    MaxFetches = 3
    MaxChanges = 1
    Candidates = {1, 2, 3}
    RawScores = {25, 35}
    Categories = {"", "music"}
    Penalty = 10
    Limits = {1, 2}
    Corpus <- MCCorpus
    UserStops <- MCUserStops
    MaxCorpus = 3
    MaxUserStops = 2
    Miles <- MCMiles
    Dawn = 12
    Samplers = {w1, w2}
    Quota = 2
    Interval = 2
    Retention = 3
    MaxSamples = 2
    MaxMinute = 4
    MaxReports = 4
INVARIANTS
    TokenCap WindowBounded
    ColumnsIndependent SavedIsSignalled
    JoinedInTime OneVoteEach
    OnePlanPerLink
    ShownOfQuery GapsExplained
    PagesAreTheRanking
    PlanKeepsTime
    SamplesThinned
PROPERTIES
    RevokedStaysOut
