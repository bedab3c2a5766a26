-------------------------------- MODULE MCApi --------------------------------
EXTENDS Api, TLC

\* The second query passes one event of the first.
MCPassing == [all |-> Ids, music |-> {1}]
\* Quarters of an hour from six in the evening; the anchor is at x.
MCMiles == [x |-> [x |-> 0, y |-> 1, z |-> 2],
            y |-> [x |-> 1, y |-> 0, z |-> 3],
            z |-> [x |-> 2, y |-> 3, z |-> 0]]

NightEvent(s, e, g, t, p, r) ==
    [start |-> s, end |-> e, guessed |-> g, tier |-> t, spot |-> p, trust |-> r]

MCCorpus ==
    {NightEvent(6, e, FALSE, "main", "x", "exact") : e \in {5, 8, NoEnd}}
    \cup {NightEvent(6, 8, g, "main", "x", "none") : g \in BOOLEAN}
    \cup {NightEvent(s[1], s[2], FALSE, "support", p, "exact") :
            s \in {<<2, 4>>, <<4, 5>>, <<9, 8>>, <<9, 11>>, <<11, NoEnd>>, <<12, 13>>},
            p \in {"y", "z"}}
    \cup {NightEvent(3, 4, FALSE, "support", "y", r) : r \in {"rough", "none"}}

MCUserStops ==
    {NightEvent(s[1], s[2], FALSE, "support", "y", r) :
        s \in {<<2, 9>>, <<3, 5>>, <<4, NoEnd>>, <<9, 10>>}, r \in {"exact", "none"}}
=============================================================================
