SPECIFICATION Spec
CONSTANTS
    Sources <- MCSources
    Stable <- MCStable
    Tier <- MCTier
    Says <- MCSays
    DayLength = 10
    Window = 2
    MaxDays = 2
    MaxRevisions = 3
INVARIANT PointMatchesVenue
PROPERTIES UndoneByOwner PublishedTimeKept OldEvidencePowerless NoOscillation
