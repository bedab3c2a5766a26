SPECIFICATION PartsSpec
CONSTANTS
    Horizon = 3
    MinWindow = 1
    Reachable = 2
    PerPage = 1
    Budget = 8
    Catalog = {1, 2, 3, 4}
    MaxShifts = 1
    Sites = {"dothebay", "sfstation", "eventbrite", "funcheap", "truncated", "single"}
    Units = 2
    MaxPages = 3
    UnitCap = 2
    CategoryCap = 1
    SectionCap = 1
    RequestCap = 4
    CandidateCap = 3
    DetailCap = 1
    TableVenues = {"t"}
    OtherVenues = {"v"}
    Placeholders = {"tba"}
    Cities = {"c"}
    TableCities = {"c"}
    Addresses = {"a"}
    Origins <- MCOrigins
    ObservedListings <- MCListings
    MaxLookups = 2
    RetryDays = 1
    LastDay = 2
    MaxObserved = 2
    Callers = {c1, c2, c3}
    MaxCalls = 2
    Period = 3
    Turns = 2
    MaxNow = 8
    Taggers = {w1, w2}
    Descriptions = {d1, d2}
    TagSets = {"calm", "loud"}
    MaxTagCalls = 2
    TagConcurrency = 1
    MaxTagRuns = 2
INVARIANTS
    CompleteOrReported
    NothingSilentlyMissed
    SearchableIsPlaced
    NegativesAreAnswers
    OutboundBounded
    OneChoicePerDescription
PROPERTIES
    FetchesEnd
    FailuresExpire
