--------------------------- MODULE EventMerge_proofs ---------------------------
(***************************************************************************)
(* Theorems about the merge rules, for any sources, tiers and listings,    *)
(* any number of revisions, and enrichment that comes and goes: the types, *)
(* that a row's tier is that of its source and its point that of its       *)
(* venue, and who may take a row back or over.                             *)
(***************************************************************************)
EXTENDS EventMerge, TLAPS

Row == [source : Sources \cup {0}, tier : Nat, start : Nat, est : BOOLEAN,
        status : Statuses, venue : Nat, point : Nat, sure : BOOLEAN,
        tagged : BOOLEAN]

\* What Observation makes of the words of a source.
Heard == [source : Sources, tier : Nat, start : Nat, est : BOOLEAN,
          status : Statuses, venue : Nat, point : Nat, sure : BOOLEAN,
          tagged : BOOLEAN, unchanged : BOOLEAN, known : BOOLEAN]

\* A row or an observation names the tier of its source, and it is sure of no
\* point but that of a venue it names.
Honest(r) ==
    /\ r.source \in Sources
    /\ r.tier = Tier[r.source]
    /\ r.sure => r.venue # 0 /\ r.point = r.venue

\* Whoever has named a venue, the row has one: so a replay never puts a point
\* on a row without a venue.
VenueKnown == \A s \in Sources : seen[s].venue # 0 => row.venue # 0

MergeInv == TypeOK /\ (row # NoRow => Honest(row)) /\ VenueKnown

-----------------------------------------------------------------------------
\* The smaller and the larger of two numbers.
LEMMA MinOfTwo == ASSUME NEW a \in Nat, NEW b \in Nat
                  PROVE  Min({a, b}) = IF a <= b THEN a ELSE b
<1>1. \E x \in {a, b} : \A y \in {a, b} : x <= y
  OBVIOUS
<1> QED BY <1>1 DEF Min

LEMMA MaxOfTwo == ASSUME NEW a \in Nat, NEW b \in Nat
                  PROVE  Max({a, b}) = IF a <= b THEN b ELSE a
<1>1. \E x \in {a, b} : \A y \in {a, b} : x >= y
  OBVIOUS
<1> QED BY <1>1 DEF Max

LEMMA HeardIsHonest ==
    ASSUME NEW s \in Sources, NEW facts \in Says[s],
           NEW located \in BOOLEAN, NEW tags \in BOOLEAN, located => facts.venue # 0
    PROVE  /\ Observation(s, facts, located, tags) \in Heard
           /\ Honest(Observation(s, facts, located, tags))
<1> DEFINE o == Observation(s, facts, located, tags)
<1>1. facts \in Facts /\ (facts.placed => facts.venue # 0) /\ Tier[s] \in Nat
  BY MergeAssumption
<1>2. o \in Heard
  BY <1>1 DEF Observation, Heard, Facts
<1>3. o.source = s /\ o.tier = Tier[s] /\ o.venue = facts.venue
  BY DEF Observation
<1>4. o.sure => o.venue # 0 /\ o.point = o.venue
  BY <1>1 DEF Observation
<1> QED BY <1>2, <1>3, <1>4 DEF Honest

LEMMA StatusType ==
    ASSUME NEW a \in Statuses, NEW b \in Statuses
    PROVE  WorseStatus(a, b) \in {a, b}
BY DEF WorseStatus

LEMMA TimeType ==
    ASSUME NEW r \in Row, NEW o \in Heard
    PROVE  /\ MergedTime(r, o).start \in Nat /\ MergedTime(r, o).est \in BOOLEAN
           /\ RevisedTime(r, o).start \in Nat /\ RevisedTime(r, o).est \in BOOLEAN
<1>1. Min({r.start, o.start}) \in Nat
  BY MinOfTwo DEF Row, Heard
<1>2. MergedTime(r, o).start \in Nat /\ MergedTime(r, o).est \in BOOLEAN
  <2>1. CASE r.est # o.est
    BY <2>1 DEF MergedTime, Row, Heard
  <2>2. CASE r.est = o.est /\ r.tier < o.tier
    BY <2>2 DEF MergedTime, Row, Heard
  <2>3. CASE r.est = o.est /\ o.tier < r.tier
    BY <2>3 DEF MergedTime, Row, Heard
  <2>4. CASE r.est = o.est /\ r.tier = o.tier
    BY <1>1, <2>4 DEF MergedTime, Row, Heard
  <2> QED BY <2>1, <2>2, <2>3, <2>4 DEF Row, Heard
<1> QED BY <1>2 DEF RevisedTime, Row, Heard

\* A guess never replaces a published hour of the same day.
LEMMA GuessMoves ==
    ASSUME NEW r \in Row, NEW o \in Heard, ~r.est
    PROVE  /\ ~MergedTime(r, o).est
           /\ RevisedTime(r, o).est => Day(RevisedTime(r, o).start) # Day(r.start)
<1>1. ~MergedTime(r, o).est
  <2>1. CASE o.est
    BY <2>1 DEF MergedTime
  <2>2. CASE ~o.est /\ r.tier < o.tier
    BY <2>2 DEF MergedTime, Row, Heard
  <2>3. CASE ~o.est /\ o.tier < r.tier
    BY <2>3 DEF MergedTime, Row, Heard
  <2>4. CASE ~o.est /\ r.tier = o.tier
    BY <2>4 DEF MergedTime, Row, Heard
  <2> QED BY <2>1, <2>2, <2>3, <2>4 DEF Row, Heard
<1> QED BY <1>1 DEF RevisedTime

\* Source and tier, together.
LEMMA OwnerAndTier ==
    ASSUME NEW r \in Row, NEW o \in Heard, Honest(r), Honest(o)
    PROVE  LET c == Common(r, o)
           IN  /\ c.source \in Sources /\ c.tier = Tier[c.source]
               /\ c.tier \in Nat /\ c.tagged \in BOOLEAN
               /\ c.source # r.source =>
                     o.tier < r.tier \/ (Authoritative(r, o) /\ ~SameSource(r, o))
               /\ o.tier < r.tier => c.tier = o.tier
<1>1. Min({r.tier, o.tier}) = IF r.tier <= o.tier THEN r.tier ELSE o.tier
  BY MinOfTwo DEF Row, Heard
<1>2. Authoritative(r, o) => o.tier <= r.tier
  BY DEF Authoritative
<1>3. SameSource(r, o) => r.source = o.source
  BY DEF SameSource
<1> QED BY <1>1, <1>2, <1>3 DEF Common, Honest, Row, Heard

\* The two ways of merging keep a row typed and honest, and keep its venue.
LEMMA RevisionIsHonest ==
    ASSUME NEW r \in Row, NEW o \in Heard, Honest(r), Honest(o)
    PROVE  LET m == Revision(r, o)
           IN  /\ m.start \in Nat /\ m.est \in BOOLEAN /\ m.status \in Statuses
               /\ m.venue \in Nat /\ m.point \in Nat /\ m.sure \in BOOLEAN
               /\ m.sure => m.venue # 0 /\ m.point = m.venue
               /\ m.venue = 0 => r.venue = 0 /\ o.venue = 0
<1> DEFINE m == Revision(r, o)
<1>1. m.start \in Nat /\ m.est \in BOOLEAN
  BY TimeType DEF Revision
<1>2. "past" \in Statuses
  BY DEF Statuses, Severity
<1>3. m.status \in Statuses
  BY <1>2 DEF Revision, Heard
<1>4. m.venue = IF o.venue = 0 THEN r.venue ELSE o.venue
  BY DEF Revision
<1>5. m.point = (IF TakesPoint(r, o) THEN o.point ELSE r.point)
      /\ m.sure = (IF TakesPoint(r, o) THEN o.sure ELSE r.sure)
  BY DEF Revision
<1>6. m.point \in Nat /\ m.sure \in BOOLEAN /\ m.venue \in Nat
  BY <1>4, <1>5 DEF Row, Heard
<1>7. m.sure => m.venue # 0 /\ m.point = m.venue
  BY <1>4, <1>5 DEF TakesPoint, Honest
<1> QED BY <1>1, <1>3, <1>4, <1>6, <1>7

LEMMA MergeIsHonest ==
    ASSUME NEW r \in Row, NEW o \in Heard, Honest(r), Honest(o)
    PROVE  LET m == Merge(r, o)
           IN  /\ m.start \in Nat /\ m.est \in BOOLEAN /\ m.status \in Statuses
               /\ m.venue \in Nat /\ m.point \in Nat /\ m.sure \in BOOLEAN
               /\ m.sure => m.venue # 0 /\ m.point = m.venue
               /\ m.venue = 0 => r.venue = 0 /\ o.venue = 0
               /\ m.sure /\ r.venue # 0 => m.point = r.venue
               /\ m.status = WorseStatus(r.status, o.status) /\ ~m.reset
<1> DEFINE m == Merge(r, o)
           takes == SamePlace(r, o) /\ o.sure /\ ~r.sure
<1>1. m.start \in Nat /\ m.est \in BOOLEAN
  BY TimeType DEF Merge
<1>2. m.status = WorseStatus(r.status, o.status) /\ ~m.reset
  BY DEF Merge
<1>3. m.status \in Statuses
  BY <1>2, StatusType DEF Row, Heard
<1>4. r.venue \in Nat /\ o.venue \in Nat
  BY DEF Row, Heard
<1>5. m.venue = IF SamePlace(r, o)
                THEN IF r.venue <= o.venue THEN o.venue ELSE r.venue
                ELSE r.venue
  BY <1>4, MaxOfTwo DEF Merge
<1>6. m.point = (IF takes THEN o.point ELSE r.point)
  BY DEF Merge
<1>7. m.sure = (r.sure \/ takes)
  BY DEF Merge
<1>8. m.point \in Nat /\ m.sure \in BOOLEAN /\ m.venue \in Nat
  BY <1>4, <1>5, <1>6, <1>7 DEF Row, Heard
<1>9. CASE takes
  <2>1. o.venue # 0 /\ o.point = o.venue /\ (r.venue = 0 \/ r.venue = o.venue)
    BY <1>9 DEF Honest, SamePlace
  <2>2. m.venue = o.venue
    BY <2>1, <1>4, <1>5, <1>9
  <2> QED BY <2>1, <2>2, <1>1, <1>2, <1>3, <1>6, <1>8, <1>9
<1>10. CASE ~takes
  <2>1. m.point = r.point /\ m.sure = r.sure
    BY <1>6, <1>7, <1>10 DEF Row
  <2>2. m.venue = 0 => r.venue = 0 /\ o.venue = 0
    BY <1>4, <1>5 DEF SamePlace
  <2>3. r.sure => r.venue # 0 /\ r.point = r.venue
    BY DEF Honest
  <2>4. r.sure => m.venue = r.venue
    BY <2>3, <1>4, <1>5 DEF SamePlace
  <2> QED BY <2>1, <2>2, <2>3, <2>4, <1>1, <1>2, <1>3, <1>8
<1> QED BY <1>9, <1>10

\* The three payloads a row may be merged into.
LEMMA Payloads ==
    ASSUME NEW r \in Row, NEW o \in Heard
    PROVE  LET m == MergedPayload(r, o)
           IN  /\ ~OldEvidence(r, o) /\ Authoritative(r, o) => m = Revision(r, o)
               /\ ~OldEvidence(r, o) /\ ~Authoritative(r, o) => m = Merge(r, o)
               /\ OldEvidence(r, o) =>
                     /\ m.source = r.source /\ m.tier = r.tier /\ m.start = r.start
                     /\ m.est = r.est /\ m.status = r.status /\ m.venue = r.venue
                     /\ m.point = Merge(r, o).point /\ m.sure = Merge(r, o).sure
                     /\ m.tagged = Merge(r, o).tagged /\ m.reset = FALSE
<1> DEFINE m == MergedPayload(r, o)
<1>1. ~OldEvidence(r, o) /\ Authoritative(r, o) => m = Revision(r, o)
  BY DEF MergedPayload
<1>2. ~OldEvidence(r, o) /\ ~Authoritative(r, o) => m = Merge(r, o)
  BY DEF MergedPayload
<1>3. CASE OldEvidence(r, o)
  <2>1. ~Authoritative(r, o)
    BY <1>3 DEF OldEvidence, Authoritative
  <2>2. (IF Authoritative(r, o) THEN Revision(r, o) ELSE Merge(r, o)) = Merge(r, o)
    BY <2>1
  <2>3. m = [Merge(r, o) EXCEPT !.source = r.source, !.tier = r.tier, !.start = r.start,
                                !.est = r.est, !.status = r.status, !.venue = r.venue,
                                !.reset = FALSE]
    BY <1>3, <2>2, Zenon DEF MergedPayload
  <2> QED BY <1>3, <2>3 DEF Merge
<1> QED BY <1>1, <1>2, <1>3

\* What the row becomes when an observation is applied: typed and honest.
LEMMA AppliedIsHonest ==
    ASSUME NEW r \in Row, NEW o \in Heard, Honest(r), Honest(o),
           o.unchanged /\ o.venue # 0 => r.venue # 0
    PROVE  LET a == Applied(r, MergedPayload(r, o))
           IN  /\ a \in Row /\ Honest(a)
               /\ a.venue = 0 => r.venue = 0 /\ o.venue = 0
<1> DEFINE m == MergedPayload(r, o)
           a == Applied(r, m)
<1>1. ASSUME m.source \in Sources, m.tier = Tier[m.source], m.tier \in Nat,
             m.start \in Nat, m.est \in BOOLEAN, m.status \in Statuses,
             m.venue \in Nat, m.point \in Nat, m.sure \in BOOLEAN, m.tagged \in BOOLEAN,
             m.sure => m.venue # 0 /\ m.point = m.venue,
             m.venue = 0 => r.venue = 0 /\ o.venue = 0
      PROVE  a \in Row /\ Honest(a) /\ (a.venue = 0 => r.venue = 0 /\ o.venue = 0)
  <2>1. r.status \in Statuses
    BY DEF Row
  <2>2. WorseStatus(r.status, m.status) \in Statuses
    BY <1>1, <2>1, StatusType
  <2> HIDE DEF m
  <2>3. a \in Row
    BY <1>1, <2>2 DEF Applied, Row
  <2>4. a.source = m.source /\ a.tier = m.tier /\ a.sure = m.sure
        /\ a.point = m.point /\ a.venue = m.venue
    BY DEF Applied
  <2> QED BY <2>3, <2>4, <1>1 DEF Honest
<1>2. CASE ~OldEvidence(r, o) /\ Authoritative(r, o)
  <2>1. m = Revision(r, o)
    BY <1>2, Payloads
  <2>2. m.source = Common(r, o).source /\ m.tier = Common(r, o).tier
        /\ m.tagged = Common(r, o).tagged
    BY <2>1 DEF Revision
  <2> QED BY <1>1, <2>1, <2>2, OwnerAndTier, RevisionIsHonest
<1>3. CASE ~OldEvidence(r, o) /\ ~Authoritative(r, o)
  <2>1. m = Merge(r, o)
    BY <1>3, Payloads
  <2>2. m.source = Common(r, o).source /\ m.tier = Common(r, o).tier
        /\ m.tagged = Common(r, o).tagged
    BY <2>1 DEF Merge
  <2> QED BY <1>1, <2>1, <2>2, OwnerAndTier, MergeIsHonest
<1>4. CASE OldEvidence(r, o)
  <2>1. ~Authoritative(r, o) /\ o.unchanged
    BY <1>4 DEF OldEvidence, Authoritative
  <2>2. /\ m.source = r.source /\ m.tier = r.tier /\ m.start = r.start /\ m.est = r.est
        /\ m.status = r.status /\ m.venue = r.venue
        /\ m.point = Merge(r, o).point /\ m.sure = Merge(r, o).sure
        /\ m.tagged = Merge(r, o).tagged
    BY <1>4, Payloads
  <2>3. Merge(r, o).tagged = Common(r, o).tagged
    BY DEF Merge
  <2>4. m.sure => r.venue # 0 /\ m.point = r.venue
    <3>1. m.sure => r.venue # 0
      BY <2>1, <2>2 DEF Merge, Honest, SamePlace
    <3> QED BY <3>1, <2>2, MergeIsHonest
  <2>5. m.tagged \in BOOLEAN /\ m.point \in Nat /\ m.sure \in BOOLEAN
    BY <2>2, <2>3, OwnerAndTier, MergeIsHonest
  <2> QED BY <1>1, <2>1, <2>2, <2>4, <2>5 DEF Honest, Row
<1> QED BY <1>2, <1>3, <1>4

\* Who undoes a status, and who takes an unavailable event over.
LEMMA OnlyTheOwnerUndoes ==
    ASSUME NEW r \in Row, NEW o \in Heard, Honest(r), Honest(o)
    PROVE  LET a == Applied(r, MergedPayload(r, o))
           IN  /\ Severity[a.status] < Severity[r.status] =>
                      /\ Authoritative(r, o)
                      /\ r.status = "past" => a.start # r.start
               /\ r.status # "scheduled" /\ a.source # r.source => a.tier < r.tier
<1> DEFINE m == MergedPayload(r, o)
           a == Applied(r, m)
<1>1. a.source = m.source /\ a.tier = m.tier /\ a.start = m.start
      /\ a.status = IF m.reset THEN m.status ELSE WorseStatus(r.status, m.status)
  BY DEF Applied
<1>2. ~m.reset => ~(Severity[a.status] < Severity[r.status])
  <2>1. \A x, y \in Statuses : ~(Severity[WorseStatus(x, y)] < Severity[x])
    BY DEF WorseStatus, Statuses, Severity
  <2>2. r.status \in Statuses
    BY DEF Row
  <2>3. m.status \in Statuses
    <3>1. m = Revision(r, o) \/ m = Merge(r, o) \/ m.status = r.status
      BY Payloads
    <3> HIDE DEF m
    <3> QED BY <3>1, <2>2, RevisionIsHonest, MergeIsHonest
  <2> HIDE DEF m
  <2> QED BY <1>1, <2>1, <2>2, <2>3
<1>3. m.reset => /\ Authoritative(r, o) /\ ~OldEvidence(r, o)
                 /\ r.status = "past" => m.start # r.start
  <2>1. OldEvidence(r, o) => ~m.reset
    BY Payloads
  <2>2. ~OldEvidence(r, o) /\ ~Authoritative(r, o) => m = Merge(r, o)
    BY Payloads
  <2>3. ~OldEvidence(r, o) /\ Authoritative(r, o) => m = Revision(r, o)
    BY Payloads
  <2>4. ~Merge(r, o).reset
    BY DEF Merge
  <2>5. Revision(r, o).reset /\ r.status = "past" => Revision(r, o).start # r.start
    BY DEF Revision
  <2> HIDE DEF m
  <2> QED BY <2>1, <2>2, <2>3, <2>4, <2>5
<1>4. CASE OldEvidence(r, o)
  <2>1. m.source = r.source
    BY <1>4, Payloads
  <2> QED BY <2>1, <1>1, <1>2, <1>3
<1>5. CASE ~OldEvidence(r, o)
  <2>1. m.source = Common(r, o).source /\ m.tier = Common(r, o).tier
    <3>1. m = Revision(r, o) \/ m = Merge(r, o)
      BY <1>5, Payloads
    <3>2. Revision(r, o).source = Common(r, o).source
          /\ Revision(r, o).tier = Common(r, o).tier
      BY DEF Revision
    <3>3. Merge(r, o).source = Common(r, o).source
          /\ Merge(r, o).tier = Common(r, o).tier
      BY DEF Merge
    <3> HIDE DEF m
    <3> QED BY <3>1, <3>2, <3>3
  <2>2. m.source # r.source =>
           o.tier < r.tier \/ (Authoritative(r, o) /\ ~SameSource(r, o))
    BY <2>1, OwnerAndTier
  <2>3. m.source # r.source /\ r.status # "scheduled" => o.tier < r.tier
    BY <2>2 DEF Authoritative, AliasCanRevise
  <2>4. o.tier < r.tier => m.tier = o.tier
    BY <2>1, OwnerAndTier
  <2> QED BY <2>3, <2>4, <1>1, <1>2, <1>3
<1> QED BY <1>4, <1>5

\* The hour of a row that has a published one.
LEMMA AppliedTime ==
    ASSUME NEW r \in Row, NEW o \in Heard, ~r.est,
           Applied(r, MergedPayload(r, o)).est
    PROVE  Day(Applied(r, MergedPayload(r, o)).start) # Day(r.start)
<1>1. Applied(r, MergedPayload(r, o)).start = MergedPayload(r, o).start
      /\ Applied(r, MergedPayload(r, o)).est = MergedPayload(r, o).est
  BY DEF Applied
<1>2. CASE OldEvidence(r, o)
  <2>1. MergedPayload(r, o).est = r.est
    BY <1>2, Payloads
  <2> QED BY <1>1, <2>1
<1>3. CASE ~OldEvidence(r, o) /\ Authoritative(r, o)
  <2>1. MergedPayload(r, o).est = RevisedTime(r, o).est
        /\ MergedPayload(r, o).start = RevisedTime(r, o).start
    <3>1. MergedPayload(r, o) = Revision(r, o)
      BY <1>3, Payloads
    <3> QED BY <3>1 DEF Revision
  <2> QED BY <1>1, <2>1, GuessMoves
<1>4. CASE ~OldEvidence(r, o) /\ ~Authoritative(r, o)
  <2>1. MergedPayload(r, o).est = MergedTime(r, o).est
    <3>1. MergedPayload(r, o) = Merge(r, o)
      BY <1>4, Payloads
    <3> QED BY <3>1 DEF Merge
  <2> QED BY <1>1, <2>1, GuessMoves
<1> QED BY <1>2, <1>3, <1>4

\* Old evidence leaves the facts of the row as they are.
LEMMA OldEvidenceKeeps ==
    ASSUME NEW r \in Row, NEW o \in Heard, OldEvidence(r, o)
    PROVE  LET a == Applied(r, MergedPayload(r, o))
           IN  /\ a.start = r.start /\ a.venue = r.venue
               /\ a.status = r.status /\ a.source = r.source
<1>2. LET m == MergedPayload(r, o)
      IN  /\ m.start = r.start /\ m.venue = r.venue /\ m.status = r.status
          /\ m.source = r.source /\ m.reset = FALSE
  BY Payloads
<1>3. WorseStatus(r.status, r.status) = r.status
  BY DEF WorseStatus
<1> QED BY <1>2, <1>3 DEF Applied

-----------------------------------------------------------------------------
LEMMA InitInv == Init => MergeInv
<1> SUFFICES ASSUME Init PROVE MergeInv
  OBVIOUS
<1>1. NoRow \in Row
  BY DEF NoRow, Row, Statuses, Severity
<1>2. Nothing \in Facts /\ Nothing.venue = 0
  BY DEF Nothing, Facts, Statuses, Severity
<1>3. TypeOK
  BY <1>1, <1>2, MergeAssumption DEF Init, TypeOK, Row
<1> QED BY <1>2, <1>3 DEF Init, MergeInv, VenueKnown

\* What an observation is to the row, and what it makes of it: everything the
\* theorems need of an Observe step.
LEMMA ObserveStep ==
    ASSUME MergeInv, NEW s \in Sources, Observe(s)
    PROVE  \E facts \in Facts, o \in Heard :
              /\ Honest(o) /\ o.source = s /\ o.tier = Tier[s] /\ o.venue = facts.venue
              /\ seen' = [seen EXCEPT ![s] = facts]
              /\ Process(o)
              /\ o.unchanged <=> s \in Stable /\ seen[s] = facts
              /\ o.known => s \in Stable
              /\ today' = today /\ revisions' \in 0..MaxRevisions
<1>1. PICK facts \in Says[s], located \in BOOLEAN, tagged \in BOOLEAN :
          LET o == Observation(s, facts, located, tagged)
          IN  /\ located => facts.venue # 0
              /\ IF seen[s] \in {Nothing, facts}
                 THEN revisions' = revisions
                 ELSE revisions < MaxRevisions /\ revisions' = revisions + 1
              /\ Process(o)
              /\ seen' = [seen EXCEPT ![s] = facts]
              /\ today' = today
  BY DEF Observe
<1> DEFINE o == Observation(s, facts, located, tagged)
<1>2. o \in Heard /\ Honest(o)
  BY <1>1, HeardIsHonest
<1>3. o.source = s /\ o.tier = Tier[s] /\ o.venue = facts.venue
      /\ (o.unchanged <=> s \in Stable /\ seen[s] = facts)
      /\ (o.known => s \in Stable)
  BY DEF Observation
<1>4. facts \in Facts
  BY MergeAssumption
<1>5. revisions' \in 0..MaxRevisions
  BY <1>1, MergeAssumption DEF MergeInv, TypeOK
<1> HIDE DEF o
<1> QED BY <1>1, <1>2, <1>3, <1>4, <1>5 DEF o

LEMMA StepInv == MergeInv /\ [Next]_vars => MergeInv'
<1> SUFFICES ASSUME MergeInv, [Next]_vars PROVE MergeInv'
  OBVIOUS
<1>0. row \in Row /\ seen \in [Sources -> Facts]
  BY DEF MergeInv, TypeOK, Row
<1>1. ASSUME NEW s \in Sources, Observe(s) PROVE MergeInv'
  <2>1. PICK facts \in Facts, o \in Heard :
              /\ Honest(o) /\ o.source = s /\ o.tier = Tier[s] /\ o.venue = facts.venue
              /\ seen' = [seen EXCEPT ![s] = facts]
              /\ Process(o)
              /\ o.unchanged <=> s \in Stable /\ seen[s] = facts
              /\ o.known => s \in Stable
              /\ today' = today /\ revisions' \in 0..MaxRevisions
    BY <1>1, ObserveStep
  <2>2. row' \in Row /\ Honest(row') /\ (row'.venue = 0 => row.venue = 0 /\ o.venue = 0)
    <3>1. CASE row = NoRow
      <4>1. row' = Inserted(o)
        BY <2>1, <3>1 DEF Process
      <4>2. Inserted(o) \in Row /\ Honest(Inserted(o)) /\ Inserted(o).venue = o.venue
        BY <2>1 DEF Inserted, Row, Heard, Honest
      <4> QED BY <4>1, <4>2, <3>1 DEF NoRow
    <3>2. CASE row # NoRow /\ Significant(row, o)
      <4>1. row' = Applied(row, MergedPayload(row, o))
        BY <2>1, <3>2 DEF Process
      <4>2. o.unchanged /\ o.venue # 0 => row.venue # 0
        BY <2>1 DEF MergeInv, VenueKnown
      <4>3. Honest(row)
        BY <3>2 DEF MergeInv
      <4> QED BY <4>1, <4>2, <4>3, <1>0, <2>1, AppliedIsHonest
    <3>3. CASE row # NoRow /\ ~Significant(row, o)
      <4>1. row' = row
        BY <2>1, <3>3 DEF Process
      <4>2. Honest(row)
        BY <3>3 DEF MergeInv
      <4>3. o.venue # 0 => row.venue # 0
        <5>1. o.unchanged /\ o.venue # 0 => row.venue # 0
          BY <2>1 DEF MergeInv, VenueKnown
        <5>2. ~o.unchanged /\ o.venue # 0 => row.venue # 0
          BY <3>3 DEF Significant
        <5> QED BY <5>1, <5>2
      <4> QED BY <4>1, <4>2, <4>3, <1>0
    <3> QED BY <3>1, <3>2, <3>3
  <2>3. seen' \in [Sources -> Facts]
    BY <1>0, <2>1
  <2>4. TypeOK'
    BY <2>1, <2>2, <2>3 DEF MergeInv, TypeOK, Row
  <2>5. VenueKnown'
    BY <1>0, <2>1, <2>2 DEF MergeInv, VenueKnown
  <2> QED BY <2>2, <2>4, <2>5 DEF MergeInv
<1>2. CASE NextDay
  BY <1>2, MergeAssumption DEF NextDay, MergeInv, TypeOK, VenueKnown, Honest
<1>3. CASE MarkPast
  <2>1. row' = [row EXCEPT !.status = "past"]
        /\ seen' = seen /\ today' = today /\ revisions' = revisions
    BY <1>3 DEF MarkPast
  <2>2. row' \in Row
    BY <1>0, <2>1 DEF Row, Statuses, Severity
  <2>3. row'.source = row.source /\ row'.tier = row.tier /\ row'.venue = row.venue
        /\ row'.point = row.point /\ row'.sure = row.sure
    BY <1>0, <2>1 DEF Row
  <2>4. Honest(row')
    BY <1>3, <2>3 DEF MarkPast, MergeInv, Honest
  <2>5. TypeOK' /\ VenueKnown'
    BY <2>1, <2>2, <2>3 DEF MergeInv, TypeOK, VenueKnown, Row
  <2> QED BY <2>4, <2>5 DEF MergeInv
<1>4. CASE UNCHANGED vars
  BY <1>4 DEF vars, MergeInv, TypeOK, VenueKnown, Honest
<1> QED BY <1>1, <1>2, <1>3, <1>4 DEF Next

\* The row and the records have their types, in every state: EventMerge.
THEOREM MergeInvariant == Spec => []MergeInv
BY InitInv, StepInv, PTL DEF Spec

\* Type correctness: the Event, the record of each source and the counters.
THEOREM TypesHold == Spec => []TypeOK
<1>1. MergeInv => TypeOK
  BY DEF MergeInv
<1> QED BY <1>1, MergeInvariant, PTL

\* The source a row names is the one its tier belongs to, however the row has
\* changed hands: _merge_event_payloads.
THEOREM TierIsOwners == Spec => []TierOfOwner
<1>1. MergeInv => TierOfOwner
  BY DEF MergeInv, Honest, TierOfOwner
<1> QED BY <1>1, MergeInvariant, PTL

\* A coordinate good enough to search by is that of the venue the row names, for
\* any number of sources, venues and revisions: _merge_event_payloads.
THEOREM PointIsVenues == Spec => []PointMatchesVenue
<1>1. MergeInv => PointMatchesVenue
  BY DEF MergeInv, Honest, PointMatchesVenue, NoRow
<1> QED BY <1>1, MergeInvariant, PTL

-----------------------------------------------------------------------------
\* What a step can do to a row that is there.
LEMMA RowSteps ==
    ASSUME MergeInv, Next, row # NoRow, row' # row
    PROVE  /\ row \in Row /\ Honest(row)
           /\ \/ MarkPast
              \/ \E s \in Sources, o \in Heard :
                    /\ Observe(s)
                    /\ Honest(o) /\ o.source = s /\ o.tier = Tier[s]
                    /\ row' = Applied(row, MergedPayload(row, o))
                    /\ o.unchanged <=> s \in Stable /\ seen'[s] = seen[s]
                    /\ o.known => s \in Stable
<1>1. row \in Row /\ Honest(row) /\ seen \in [Sources -> Facts]
  BY DEF MergeInv, TypeOK, Row
<1>2. CASE NextDay
  BY <1>2 DEF NextDay
<1>3. ASSUME NEW s \in Sources, Observe(s)
      PROVE  \E o \in Heard :
                /\ Honest(o) /\ o.source = s /\ o.tier = Tier[s]
                /\ row' = Applied(row, MergedPayload(row, o))
                /\ o.unchanged <=> s \in Stable /\ seen'[s] = seen[s]
                /\ o.known => s \in Stable
  <2>1. PICK facts \in Facts, o \in Heard :
              /\ Honest(o) /\ o.source = s /\ o.tier = Tier[s] /\ o.venue = facts.venue
              /\ seen' = [seen EXCEPT ![s] = facts]
              /\ Process(o)
              /\ o.unchanged <=> s \in Stable /\ seen[s] = facts
              /\ o.known => s \in Stable
              /\ today' = today /\ revisions' \in 0..MaxRevisions
    BY <1>3, ObserveStep
  <2>2. row' = Applied(row, MergedPayload(row, o))
    BY <2>1 DEF Process
  <2>3. seen'[s] = facts
    BY <1>1, <2>1
  <2> QED BY <2>1, <2>2, <2>3
<1> QED BY <1>1, <1>2, <1>3 DEF Next

\* A cancellation, a postponement or a past event is undone only by a revision of
\* the row's owner or of a better tier, a past event only by a new start, and an
\* unavailable event changes hands only to a better tier: _merge_event_payloads,
\* _apply_payload.
THEOREM OnlyOwnersUndo == Spec => UndoneByOwner
<1> DEFINE Undone ==
      /\ Severity[row'.status] < Severity[row.status] =>
             /\ \E s \in Stable : /\ seen'[s] # seen[s]
                                  /\ s = row.source \/ Tier[s] < row.tier
             /\ row.status = "past" => row'.start # row.start
      /\ row # NoRow /\ row.status # "scheduled" /\ row'.source # row.source =>
             row'.tier < row.tier
<1>1. ASSUME MergeInv, [Next]_vars PROVE [Undone]_vars
  <2>0. MergeInv'
    BY <1>1, StepInv
  <2>1. row \in Row /\ row' \in Row
    BY <1>1, <2>0 DEF MergeInv, TypeOK, Row
  <2>2. CASE row' = row
    <3>1. Severity[row.status] \in Int
      BY <2>1 DEF Row, Statuses, Severity
    <3> QED BY <3>1, <2>2
  <2>3. CASE row = NoRow
    <3>1. Severity[row.status] = 0 /\ Severity[row'.status] \in Nat
      BY <2>1, <2>3 DEF NoRow, Row, Statuses, Severity
    <3> QED BY <3>1, <2>3
  <2>4. CASE row # NoRow /\ row' # row /\ MarkPast
    <3>1. row.status = "scheduled" /\ row' = [row EXCEPT !.status = "past"]
      BY <2>4 DEF MarkPast
    <3>2. Severity[row.status] = 0 /\ Severity[row'.status] = 3
      BY <2>1, <3>1 DEF Row, Severity
    <3> QED BY <3>1, <3>2
  <2>5. CASE row # NoRow /\ row' # row /\ ~MarkPast
    <3>1. Next
      BY <1>1, <2>5 DEF vars
    <3>2. Honest(row)
      BY <1>1, <2>5 DEF MergeInv
    <3>3. PICK s \in Sources, o \in Heard :
                    /\ Observe(s)
                    /\ Honest(o) /\ o.source = s /\ o.tier = Tier[s]
                    /\ row' = Applied(row, MergedPayload(row, o))
                    /\ o.unchanged <=> s \in Stable /\ seen'[s] = seen[s]
                    /\ o.known => s \in Stable
      BY <1>1, <2>5, <3>1, RowSteps
    <3>4. /\ Severity[row'.status] < Severity[row.status] =>
                /\ Authoritative(row, o)
                /\ row.status = "past" => row'.start # row.start
          /\ row.status # "scheduled" /\ row'.source # row.source => row'.tier < row.tier
      BY <2>1, <3>2, <3>3, OnlyTheOwnerUndoes
    <3>5. ASSUME Severity[row'.status] < Severity[row.status], Authoritative(row, o)
          PROVE  \E x \in Stable : /\ seen'[x] # seen[x]
                                   /\ x = row.source \/ Tier[x] < row.tier
      <4>1. row.status # "scheduled"
        <5>1. Severity["scheduled"] = 0 /\ Severity[row'.status] \in Nat
          BY <2>1 DEF Row, Statuses, Severity
        <5> QED BY <3>5, <5>1
      <4>2. SameSource(row, o) \/ (o.known /\ o.tier < row.tier)
        BY <3>5, <4>1 DEF Authoritative, AliasCanRevise
      <4>3. ~o.unchanged
        BY <3>5 DEF Authoritative
      <4>4. s \in Stable
        BY <4>2, <3>3 DEF SameSource
      <4> WITNESS s \in Stable
      <4> QED BY <4>2, <4>3, <4>4, <3>3 DEF SameSource
    <3> QED BY <3>4, <3>5
  <2> QED BY <2>2, <2>3, <2>4, <2>5
<1> QED BY <1>1, MergeInvariant, PTL DEF Spec, UndoneByOwner

\* A published hour gives way to a guess only when the event moves to another
\* day, whichever source says so: RevisedTime, MergedTime.
THEOREM PublishedTimeStays == Spec => PublishedTimeKept
<1> DEFINE Kept == row # NoRow /\ ~row.est /\ row'.est => Day(row'.start) # Day(row.start)
<1>1. ASSUME MergeInv, [Next]_vars PROVE [Kept]_vars
  <2>1. CASE row' = row \/ row = NoRow
    BY <2>1
  <2>2. CASE row # NoRow /\ row' # row /\ MarkPast
    <3>1. row' = [row EXCEPT !.status = "past"] /\ row \in Row
      BY <1>1, <2>2 DEF MarkPast, MergeInv, TypeOK, Row
    <3>2. row'.est = row.est
      BY <3>1 DEF Row
    <3> QED BY <3>2
  <2>3. CASE row # NoRow /\ row' # row /\ ~MarkPast
    <3>1. Next
      BY <1>1, <2>3 DEF vars
    <3>2. PICK o \in Heard : row' = Applied(row, MergedPayload(row, o))
      BY <1>1, <2>3, <3>1, RowSteps
    <3>3. row \in Row
      BY <1>1 DEF MergeInv, TypeOK, Row
    <3> QED BY <3>2, <3>3, AppliedTime
  <2> QED BY <2>1, <2>2, <2>3
<1> QED BY <1>1, MergeInvariant, PTL DEF Spec, PublishedTimeKept

\* A replay by a source no better than the row's leaves the start, the status,
\* the venue and the owner alone: source_facts_are_old in _merge_event_payloads.
THEOREM ReplaysArePowerless == Spec => OldEvidencePowerless
<1> DEFINE Powerless ==
      row # NoRow /\ seen' = seen /\ Revised' # Revised =>
          \/ MarkPast
          \/ \E s \in Sources : (s \notin Stable \/ Tier[s] < row.tier) /\ Observe(s)
<1>1. ASSUME MergeInv, [Next]_vars PROVE [Powerless]_vars
  <2>1. CASE row' = row
    BY <2>1 DEF Revised
  <2>2. CASE row' # row /\ ~MarkPast /\ row # NoRow /\ seen' = seen
    <3>1. Next
      BY <1>1, <2>2 DEF vars
    <3>2. PICK s \in Sources, o \in Heard :
                    /\ Observe(s)
                    /\ Honest(o) /\ o.source = s /\ o.tier = Tier[s]
                    /\ row' = Applied(row, MergedPayload(row, o))
                    /\ o.unchanged <=> s \in Stable /\ seen'[s] = seen[s]
      BY <1>1, <2>2, <3>1, RowSteps
    <3>3. row \in Row
      BY <1>1 DEF MergeInv, TypeOK, Row
    <3>4. CASE s \notin Stable \/ Tier[s] < row.tier
      BY <3>2, <3>4
    <3>5. CASE s \in Stable /\ ~(Tier[s] < row.tier)
      <4>1. o.unchanged /\ o.tier >= row.tier
        BY <2>2, <3>2, <3>3, <3>5, MergeAssumption DEF Row
      <4>2. OldEvidence(row, o)
        BY <4>1 DEF OldEvidence
      <4>3. Revised' = Revised
        BY <3>2, <3>3, <4>2, OldEvidenceKeeps DEF Revised
      <4> QED BY <4>3
    <3> QED BY <3>4, <3>5
  <2> QED BY <2>1, <2>2
<1> QED BY <1>1, MergeInvariant, PTL DEF Spec, OldEvidencePowerless
=============================================================================
