SPECIFICATION Spec
CONSTANTS
    w1 = w1
    w2 = w2
    Workers = {w1, w2}
    NumListings = 3
    Orders <- MCOrders
    Stable <- MCStable
    Moving <- MCMoving
    Poisoned <- MCPoisoned
    Legacy <- MCLegacy
    NumNights = 2
    CommitEvery = 2
    MaxEvents = 4
    MaxRevisions = 1
    MaxFailures = 1
INVARIANTS CleanRunDurable
PROPERTIES NoTwinRows IdentityPermanent
SYMMETRY MCSymmetry
