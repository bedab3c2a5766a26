--------------------------- MODULE MCDataPipeline ---------------------------
EXTENDS DataPipeline, TLC

\* A source may return its listings in another order.
MCOrders   == {<<1, 2, 3>>, <<2, 1, 3>>}
MCStable   == {1, 2, 3}
MCMoving   == {2, 3}
MCPoisoned == {1}
\* Two rows of listing 2, inserted when it moved before identities were kept.
MCLegacy   == << <<1, 2>>, <<2, 2>> >>

MCSymmetry == Permutations(Workers)
=============================================================================
