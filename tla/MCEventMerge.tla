---------------------------- MODULE MCEventMerge ----------------------------
EXTENDS EventMerge

\* Two stable sources of one tier, a stable one and a weak one of the next.
MCSources == 1..4
MCStable  == {1, 2, 3}
MCTier    == <<1, 1, 2, 2>>

\* Hours 1 and 2 are one night and hour 11 is the next.
Listing(start, est, status, venue, placed) ==
    [start |-> start, est |-> est, status |-> status, venue |-> venue, placed |-> placed]

MCSays ==
    << {Listing(2, FALSE, "scheduled", 1, TRUE), Listing(2, FALSE, "cancelled", 1, TRUE),
        Listing(11, TRUE, "scheduled", 1, FALSE), Listing(1, TRUE, "scheduled", 2, FALSE),
        Listing(1, FALSE, "postponed", 0, FALSE)},
       {Listing(1, FALSE, "scheduled", 0, FALSE), Listing(11, FALSE, "scheduled", 2, FALSE),
        Listing(1, FALSE, "postponed", 1, FALSE), Listing(2, FALSE, "scheduled", 2, TRUE)},
       {Listing(2, FALSE, "scheduled", 1, FALSE), Listing(12, FALSE, "scheduled", 2, TRUE),
        Listing(12, FALSE, "cancelled", 1, FALSE)},
       {Listing(1, TRUE, "scheduled", 2, FALSE), Listing(2, FALSE, "cancelled", 1, FALSE)} >>
=============================================================================
