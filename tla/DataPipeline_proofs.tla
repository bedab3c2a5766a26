------------------------ MODULE DataPipeline_proofs ------------------------
(***************************************************************************)
(* Theorems about the transactions of the pipeline, for any number of      *)
(* workers, listings and nights, any chunk length and any order of a       *)
(* batch: its types, that an identity never changes its event, that no     *)
(* listing gets a second row, and that a run which reports no rejection    *)
(* has stored every stable listing it was given.                           *)
(***************************************************************************)
EXTENDS DataPipeline, WellFoundedInduction, TLAPS

-----------------------------------------------------------------------------
(* The inductive invariant, in terms of one session and what is committed. *)

Session ==
    [pc : {"idle", "find", "write", "done", "victim"}, seen : [Listings -> Nights],
     batch : [Listings -> Listings], pos : 1..(NumListings + 1), target : EventIds \cup {0},
     known : Record,
     rows : [EventIds -> Row], records : [Stable -> Record], rejected : BOOLEAN]

\* The row a session sees.
Visible(s, e) == IF s.rows[e] # NoRow THEN s.rows[e] ELSE events[e]

\* What a savepoint is about to write to exists, and a listing for which none was
\* found had no identity.
Targeted(s) ==
    s.pc = "write" =>
        /\ s.pos \in Listings
        /\ s.target # 0 => Visible(s, s.target) # NoRow
        /\ s.target = 0 /\ s.batch[s.pos] \in Stable => s.known = NoRecord

\* A pending identity belongs to a row, the one a committed identity already has.
Owned(s) ==
    \A l \in Stable : s.records[l] # NoRecord =>
        /\ Visible(s, s.records[l].event) # NoRow
        /\ records[l] # NoRecord => records[l].event = s.records[l].event

\* A pending new row has the only identity of its listing, which is pending too.
Claimed(s) ==
    \A e \in EventIds :
        s.rows[e] # NoRow /\ events[e] = NoRow /\ s.rows[e].origin \in Stable =>
            /\ records[s.rows[e].origin] = NoRecord
            /\ s.records[s.rows[e].origin].event = e

SessionInv(s) == Targeted(s) /\ Owned(s) /\ Claimed(s)

\* No two sessions have written the same row or identity.
Apart(s, t) ==
    /\ \A e \in EventIds : s.rows[e] = NoRow \/ t.rows[e] = NoRow
    /\ \A l \in Stable : s.records[l] = NoRecord \/ t.records[l] = NoRecord

CommittedOwned == \A l \in Stable : records[l] # NoRecord => events[records[l].event] # NoRow

IInv ==
    /\ TypeOK
    /\ CommittedOwned
    /\ \A w \in Workers : SessionInv(session[w])
    /\ \A w \in Workers : \A v \in Others(w) : Apart(session[w], session[v])

-----------------------------------------------------------------------------
(* Lemmas about what a session sees. *)

LEMMA MinIsMember ==
    ASSUME NEW S \in SUBSET EventIds, S # {}
    PROVE  Min(S) \in S
<1>1. PICK x \in S : \A y \in S : ~(<<y, x>> \in OpToRel(<, Nat))
  <2>1. S \subseteq Nat
    BY DEF EventIds
  <2> QED BY <2>1, NatLessThanWellFounded, WFMin
<1>2. \A y \in S : x <= y
  <2>1. \A y \in S : <<y, x>> \in Nat \X Nat => ~(y < x)
    BY <1>1, Zenon DEF OpToRel
  <2>2. x \in Nat /\ \A y \in S : y \in Nat
    BY DEF EventIds
  <2>3. \A y \in S : ~(y < x)
    BY <2>1, <2>2
  <2> QED BY <2>2, <2>3
<1> QED BY <1>2 DEF Min

LEMMA VisibleIsSeen ==
    ASSUME NEW w \in Workers, NEW e
    PROVE  RowSeen(w, e) = Visible(session[w], e)
  BY DEF RowSeen, Visible

LEMMA SeenTypes ==
    ASSUME TypeOK, NEW w \in Workers
    PROVE  /\ session[w] \in Session
           /\ \A e \in EventIds : RowSeen(w, e) \in Row
           /\ \A l \in Stable : RecordSeen(w, l) \in Record
           /\ \A l \in Listings : Known(w, l) \in Record
<1>1. session[w] \in Session
  BY DEF TypeOK, Session
<1>2. NoRecord \in Record
  BY DEF Record
<1> QED BY <1>1, <1>2, PipelineAssumption
        DEF TypeOK, Session, RowSeen, RecordSeen, Known

\* An identity is that of an event: it is not the one of no event.
LEMMA NoneIsNone ==
    /\ \A r \in Record : r # NoRecord => r.event \in EventIds /\ r.event # 0 /\ r.hash \in Nights
    /\ NoRow.origin \notin Listings /\ NoRow \in Row /\ NoRecord \in Record
    /\ \A n \in Nights : n # 0
    /\ 0 \notin EventIds
    /\ \A r \in Row : r # NoRow => /\ r.night \in Nights
                                   /\ r.source \in Listings
                                   /\ r.origin \in Listings
  BY DEF Record, Row, NoRecord, NoRow, EventIds, Nights, Listings

\* What the lookup returns is there.
LEMMA TargetsExist ==
    ASSUME IInv, NEW w \in Workers, NEW l \in Listings, NEW e \in Targets(w, l)
    PROVE  /\ e \in EventIds \cup {0}
           /\ e # 0 => RowSeen(w, e) # NoRow
           /\ e = 0 /\ l \in Stable => RecordSeen(w, l) = NoRecord
<1> USE NoneIsNone
<1>1. CASE l \in Stable /\ RecordSeen(w, l) # NoRecord
  <2>1. e = RecordSeen(w, l).event
    BY <1>1 DEF Targets
  <2>2. e \in EventIds
    BY <1>1, <2>1, SeenTypes DEF IInv
  <2>3. RowSeen(w, e) # NoRow
    BY <1>1, <2>1, <2>2 DEF IInv, CommittedOwned, SessionInv, Owned, Visible, RowSeen, RecordSeen
  <2> QED BY <2>2, <2>3
<1>2. CASE l \in Stable /\ RecordSeen(w, l) = NoRecord /\ LegacyRows(w, l) # {}
  <2>1. LegacyRows(w, l) \in SUBSET EventIds /\ Targets(w, l) = {Min(LegacyRows(w, l))}
    BY <1>2 DEF LegacyRows, Rows, Targets
  <2>2. e \in LegacyRows(w, l)
    BY <1>2, <2>1, MinIsMember
  <2> QED BY <1>2, <2>2 DEF LegacyRows, Rows
<1>3. CASE ~(l \in Stable /\ RecordSeen(w, l) # NoRecord)
           /\ ~(l \in Stable /\ RecordSeen(w, l) = NoRecord /\ LegacyRows(w, l) # {})
  <2>1. e \in Alike(w, l)
    BY <1>3 DEF Targets
  <2>2. e \in Rows(w) \cup {0}
    BY <2>1 DEF Alike
  <2> QED BY <1>3, <2>2 DEF Rows
<1> QED BY <1>1, <1>2, <1>3

-----------------------------------------------------------------------------
(* The two ways in which a step changes a session. *)

\* It writes to the session only.
LEMMA LocalStep ==
    ASSUME IInv, NEW w \in Workers, NEW s \in Session,
           session' = [session EXCEPT ![w] = s],
           UNCHANGED <<poison, events, records>>, feed' \in [Listings -> Nights],
           revisions' \in 0..MaxRevisions, failures' \in 0..MaxFailures,
           SessionInv(s), \A v \in Others(w) : Apart(s, session[v])
    PROVE  IInv'
<1>1. session \in [Workers -> Session]
  BY DEF IInv, TypeOK, Session
<1>2. session'[w] = s /\ \A v \in Others(w) : session'[v] = session[v]
  BY <1>1 DEF Others
<1>3. TypeOK'
  <2>1. session' \in [Workers -> Session]
    BY <1>1
  <2> QED BY <2>1 DEF IInv, TypeOK, Session
<1>4. CommittedOwned'
  BY DEF IInv, CommittedOwned
<1>5. ASSUME NEW v \in Workers PROVE SessionInv(session[v])'
  <2>1. PICK t : t = session'[v]
    OBVIOUS
  <2>2. SessionInv(t)
    BY <1>2, <2>1 DEF IInv, Others
  <2>3. Targeted(t)' /\ Owned(t)' /\ Claimed(t)'
    BY <2>2 DEF SessionInv, Targeted, Owned, Claimed, Visible
  <2> QED BY <2>1, <2>3 DEF SessionInv
<1>6. ASSUME NEW u \in Workers, NEW v \in Others(u) PROVE Apart(session[u], session[v])'
  <2>1. Apart(session'[u], session'[v])
    BY <1>2 DEF IInv, Apart, Others
  <2> QED BY <2>1 DEF Apart
<1> QED BY <1>3, <1>4, <1>5, <1>6 DEF IInv

\* It commits the session, which goes on with nothing pending.
LEMMA CommitStep ==
    ASSUME IInv, NEW w \in Workers, NEW s \in Session,
           session' = [session EXCEPT ![w] = s],
           Committed(w), UNCHANGED <<feed, poison, revisions, failures>>,
           s.rows = NoRows, s.records = NoRecords,
           s.pc = "write" => /\ s.pos \in Listings
                             /\ s.target # 0 => RowSeen(w, s.target) # NoRow
                             /\ s.target = 0 /\ s.batch[s.pos] \in Stable => s.known = NoRecord
    PROVE  IInv'
<1> USE NoneIsNone
<1>1. session \in [Workers -> Session]
  BY DEF IInv, TypeOK, Session
<1>2. session'[w] = s /\ \A v \in Others(w) : session'[v] = session[v]
  BY <1>1 DEF Others
<1>3. TypeOK'
  <2>1. session' \in [Workers -> Session]
    BY <1>1
  <2>2. events' \in [EventIds -> Row] /\ records' \in [Stable -> Record]
    BY SeenTypes DEF Committed, IInv
  <2> QED BY <2>1, <2>2 DEF IInv, TypeOK, Session
<1>4. \A e \in EventIds : events'[e] = RowSeen(w, e) /\ (events[e] # NoRow => events'[e] # NoRow)
  BY DEF Committed, RowSeen
<1>5. \A l \in Stable : records'[l] = RecordSeen(w, l)
  BY DEF Committed
<1>6. CommittedOwned'
  <2> SUFFICES ASSUME NEW l \in Stable, RecordSeen(w, l) # NoRecord
               PROVE  events'[RecordSeen(w, l).event] # NoRow
    BY <1>5 DEF CommittedOwned
  <2>1. RecordSeen(w, l).event \in EventIds
    BY SeenTypes DEF IInv
  <2> QED BY <2>1, <1>4 DEF IInv, CommittedOwned, SessionInv, Owned, Visible, RowSeen, RecordSeen
<1>7. SessionInv(session[w])'
  <2>1. Targeted(session[w])'
    BY <1>2, <1>4 DEF Targeted, Visible, NoRows, Session
  <2>2. Owned(session[w])' /\ Claimed(session[w])'
    BY <1>2 DEF Owned, Claimed, NoRows, NoRecords
  <2> QED BY <2>1, <2>2 DEF SessionInv
<1>8. ASSUME NEW v \in Others(w) PROVE SessionInv(session[v])'
  <2>1. v \in Workers /\ session[v] \in Session /\ session'[v] = session[v]
    BY <1>1, <1>2 DEF Others
  <2>2. Apart(session[w], session[v]) /\ SessionInv(session[v])
    BY <2>1 DEF IInv
  <2>3. \A e \in EventIds : Visible(session[v], e) # NoRow => Visible(session[v], e)' # NoRow
    BY <2>1, <1>4 DEF Visible
  <2>4. Targeted(session[v])'
    BY <2>1, <2>2, <2>3 DEF SessionInv, Targeted, Session
  <2>5. Owned(session[v])'
    <3> SUFFICES ASSUME NEW l \in Stable, session[v].records[l] # NoRecord
                 PROVE  /\ Visible(session[v], session[v].records[l].event)' # NoRow
                        /\ records'[l] # NoRecord =>
                             records'[l].event = session[v].records[l].event
      BY <2>1 DEF Owned, Visible
    <3>1. session[v].records[l].event \in EventIds
      BY <2>1 DEF Session
    <3>2. records'[l] = records[l]
      BY <2>2, <1>5 DEF Apart, RecordSeen
    <3>3. Visible(session[v], session[v].records[l].event) # NoRow
      BY <2>2 DEF SessionInv, Owned
    <3>4. Visible(session[v], session[v].records[l].event)' # NoRow
      BY <2>1, <1>4, <3>1, <3>3 DEF Visible
    <3> QED BY <2>2, <3>2, <3>4 DEF SessionInv, Owned
  <2>6. Claimed(session[v])'
    <3> SUFFICES ASSUME NEW e \in EventIds, session[v].rows[e] # NoRow, events'[e] = NoRow,
                        session[v].rows[e].origin \in Stable
                 PROVE  /\ records'[session[v].rows[e].origin] = NoRecord
                        /\ session[v].records[session[v].rows[e].origin].event = e
      BY <2>1 DEF Claimed
    <3> DEFINE l == session[v].rows[e].origin
    <3>1. events[e] = NoRow
      BY <1>4
    <3>2. records[l] = NoRecord /\ session[v].records[l].event = e
      BY <2>2, <3>1 DEF SessionInv, Claimed
    <3>3. session[v].records[l] # NoRecord
      BY <3>2 DEF NoRecord
    <3>4. records'[l] = NoRecord
      BY <2>2, <1>5, <3>2, <3>3 DEF Apart, RecordSeen
    <3> QED BY <3>2, <3>4
  <2> QED BY <2>4, <2>5, <2>6 DEF SessionInv
<1>9. ASSUME NEW u \in Workers, NEW v \in Others(u) PROVE Apart(session[u], session[v])'
  <2>1. Apart(session'[u], session'[v])
    BY <1>2 DEF IInv, Apart, Others, NoRows, NoRecords
  <2> QED BY <2>1 DEF Apart
<1> QED BY <1>3, <1>6, <1>7, <1>8, <1>9 DEF IInv, Others

-----------------------------------------------------------------------------
(* The steps of a run. *)

LEMMA IdleIsFine ==
    /\ Idle \in Session /\ SessionInv(Idle)
    /\ \A t : Apart(Idle, t)
<1>1. 1 \in Nights /\ 1 \in Listings /\ 1 \in 1..(NumListings + 1)
  BY PipelineAssumption DEF Nights, Listings
<1>2. Idle \in Session
  BY <1>1, NoneIsNone DEF Idle, Session, NoRows, NoRecords
<1> QED BY <1>2 DEF Idle, SessionInv, Targeted, Owned, Claimed, Apart, NoRows, NoRecords

LEMMA InitInv == Init => IInv
<1> SUFFICES ASSUME Init PROVE IInv
  OBVIOUS
<1> USE NoneIsNone
<1>1. TypeOK
  <2>1. session \in [Workers -> Session]
    BY IdleIsFine DEF Init
  <2>2. feed \in [Listings -> Nights] /\ revisions \in 0..MaxRevisions /\ failures \in 0..MaxFailures
    BY PipelineAssumption DEF Init, Nights
  <2>3. ASSUME NEW e \in EventIds, e <= Len(Legacy)
        PROVE  Legacy[e][1] \in Nights /\ Legacy[e][2] \in Listings
    <3>1. Legacy[e] \in Nights \X Stable
      BY <2>3, PipelineAssumption DEF EventIds
    <3> QED BY <3>1, PipelineAssumption
  <2>4. events \in [EventIds -> Row]
    BY <2>3 DEF Init, Row
  <2>5. records \in [Stable -> Record] /\ poison \subseteq Poisoned
    BY DEF Init, NoRecords
  <2> QED BY <2>1, <2>2, <2>4, <2>5 DEF TypeOK, Session
<1> QED BY <1>1, IdleIsFine DEF Init, NoRecords, IInv, CommittedOwned

LEMMA FindInv ==
    ASSUME IInv, NEW w \in Workers, Find(w)
    PROVE  IInv'
<1> USE NoneIsNone
<1> DEFINE l == At(w)
<1>1. session[w] \in Session /\ l \in Listings
  BY SeenTypes DEF IInv, Find, At, Session
<1>2. PICK e \in Targets(w, l) :
        LET found == [session[w] EXCEPT !.pc = "write", !.target = e, !.known = Known(w, l)]
        IN  IF CommitDue(w)
            THEN /\ Committed(w)
                 /\ session' = [session EXCEPT
                                  ![w] = [found EXCEPT !.rows = NoRows, !.records = NoRecords]]
            ELSE session' = [session EXCEPT ![w] = found] /\ UNCHANGED <<events, records>>
  BY DEF Find
<1> DEFINE found == [session[w] EXCEPT !.pc = "write", !.target = e, !.known = Known(w, l)]
<1>3. /\ e \in EventIds \cup {0}
      /\ e # 0 => RowSeen(w, e) # NoRow
      /\ e = 0 /\ l \in Stable => Known(w, l) = NoRecord
  BY <1>1, TargetsExist DEF Known
<1>4. found \in Session /\ session[w].pos \in Listings
  BY <1>1, <1>3, SeenTypes DEF IInv, Find, Session
<1>5. UNCHANGED <<feed, poison, revisions, failures>>
  BY DEF Find
<1>6. CASE CommitDue(w)
  <2> DEFINE s == [found EXCEPT !.rows = NoRows, !.records = NoRecords]
  <2>1. s \in Session
    BY <1>4 DEF Session, NoRows, NoRecords
  <2>2. s.rows = NoRows /\ s.records = NoRecords /\ s.target = e /\ s.pos = session[w].pos
        /\ s.batch[s.pos] = l /\ s.known = Known(w, l)
    BY <1>1 DEF Session, At
  <2>3. session' = [session EXCEPT ![w] = s] /\ Committed(w)
    BY <1>2, <1>6
  <2> HIDE DEF s
  <2> QED BY <1>3, <1>4, <1>5, <2>1, <2>2, <2>3, CommitStep
<1>7. CASE ~CommitDue(w)
  <2>1. session' = [session EXCEPT ![w] = found] /\ UNCHANGED <<events, records>>
    BY <1>2, <1>7
  <2>2. /\ found.rows = session[w].rows /\ found.records = session[w].records
        /\ found.pos = session[w].pos /\ found.batch = session[w].batch
        /\ found.target = e /\ found.known = Known(w, l)
    BY <1>1 DEF Session
  <2> HIDE DEF found
  <2>3. Targeted(found)
    BY <1>3, <1>4, <2>2 DEF Targeted, Visible, RowSeen, At
  <2>4. Owned(found) /\ Claimed(found)
    BY SMTT(30), <2>2 DEF IInv, SessionInv, Owned, Claimed, Visible
  <2>5. \A v \in Others(w) : Apart(found, session[v])
    BY <2>2 DEF IInv, Apart
  <2> QED BY <1>4, <1>5, <2>1, <2>3, <2>4, <2>5, LocalStep DEF IInv, TypeOK, SessionInv
<1> QED BY <1>6, <1>7

\* The listing at which a savepoint is open.
LEMMA AtWrite ==
    ASSUME IInv, NEW w \in Workers, session[w].pc = "write"
    PROVE  /\ session[w] \in Session /\ session[w].pos \in Listings /\ At(w) \in Listings
           /\ session[w].pos + 1 \in 1..(NumListings + 1)
           /\ session[w].seen[At(w)] \in Nights
           /\ session[w].target # 0 => RowSeen(w, session[w].target) # NoRow
           /\ session[w].target = 0 /\ At(w) \in Stable => session[w].known = NoRecord
<1>1. session[w] \in Session /\ session[w].pos \in Listings
  BY SeenTypes DEF IInv, SessionInv, Targeted
<1>2. session[w].pos + 1 \in 1..(NumListings + 1)
  BY <1>1, PipelineAssumption DEF Listings
<1>3. At(w) \in Listings /\ session[w].seen[At(w)] \in Nights
  BY <1>1 DEF At, Session
<1> QED BY <1>1, <1>2, <1>3 DEF IInv, SessionInv, Targeted, RowSeen, Visible, At

\* A session that writes takes the identity of a listing only if nobody has it.
LEMMA InsertInv ==
    ASSUME IInv, NEW w \in Workers, Insert(w)
    PROVE  IInv'
<1> USE NoneIsNone
<1> DEFINE l == At(w)
           n == session[w].seen[l]
           e == Min(FreshIds)
           row == [night |-> n, source |-> l, origin |-> l]
           record == [event |-> e, hash |-> n]
           s == [session[w] EXCEPT
                   !.pc = "find", !.pos = @ + 1, !.known = NoRecord,
                   !.rows[e] = row,
                   !.records = IF l \in Stable THEN [@ EXCEPT ![l] = record] ELSE @]
<1>1. /\ session[w].pc = "write" /\ session[w].target = 0 /\ l \notin poison
      /\ ~Blocked(w) /\ ~Stolen(w, l, 0) /\ FreshIds # {}
      /\ UNCHANGED <<feed, poison, events, records, revisions, failures>>
  BY DEF Insert
<1>2. /\ session[w] \in Session /\ l \in Listings /\ n \in Nights
      /\ session[w].pos + 1 \in 1..(NumListings + 1)
      /\ l \in Stable => session[w].known = NoRecord
  BY <1>1, AtWrite
<1>3. /\ e \in EventIds /\ events[e] = NoRow
      /\ \A v \in Workers : session[v].rows[e] = NoRow
  <2>1. FreshIds \in SUBSET EventIds
    BY DEF FreshIds
  <2>2. e \in FreshIds
    BY <1>1, <2>1, MinIsMember
  <2> QED BY <2>2 DEF FreshIds
<1>4. session' = [session EXCEPT ![w] = s]
  <2>1. session \in [Workers -> Session]
    BY DEF IInv, TypeOK, Session
  <2> QED BY <2>1 DEF Insert, Session
<1>5. /\ s.pc = "find" /\ s.rows = [session[w].rows EXCEPT ![e] = row]
      /\ s.records = IF l \in Stable THEN [session[w].records EXCEPT ![l] = record]
                     ELSE session[w].records
  BY <1>2 DEF Session
<1>6. row \in Row /\ record \in Record /\ row # NoRow /\ record # NoRecord
  BY <1>2, <1>3 DEF Row, Record, NoRow, NoRecord
<1>7. s \in Session
  BY <1>2, <1>6 DEF Session
<1>8. l \in Stable => records[l] = NoRecord /\ session[w].records[l] = NoRecord
  BY <1>1, SeenTypes DEF IInv, Stolen, RecordSeen
<1>9. \A v \in Others(w) : l \in Stable => session[v].records[l] = NoRecord
  <2>1. l \in Stable => ~Unchanged(w)
    BY <1>2 DEF Unchanged, NoRecord
  <2> QED BY <1>1, <2>1 DEF Blocked, WaitsFor, RecordHeld
<1> HIDE DEF s
<1>10. Targeted(s)
  BY <1>5 DEF Targeted
<1>11. Owned(s)
  <2> SUFFICES ASSUME NEW k \in Stable, s.records[k] # NoRecord
               PROVE  /\ Visible(s, s.records[k].event) # NoRow
                      /\ records[k] # NoRecord => records[k].event = s.records[k].event
    BY DEF Owned
  <2>1. CASE k = l
    BY <1>2, <1>3, <1>5, <1>6, <1>8, <2>1 DEF Visible, Session
  <2>2. CASE k # l
    <3>1. s.records[k] = session[w].records[k]
      BY <1>2, <1>5, <2>2 DEF Session
    <3>2. s.records[k].event \in EventIds
      BY <1>2, <3>1 DEF Session
    <3>3. /\ Visible(session[w], s.records[k].event) # NoRow
          /\ records[k] # NoRecord => records[k].event = s.records[k].event
      BY <3>1 DEF IInv, SessionInv, Owned
    <3>4. s.rows[s.records[k].event] = IF s.records[k].event = e THEN row
                                       ELSE session[w].rows[s.records[k].event]
      BY <1>2, <1>5, <3>2 DEF Session
    <3> QED BY <1>6, <3>3, <3>4 DEF Visible
  <2> QED BY <2>1, <2>2
<1>12. Claimed(s)
  <2> SUFFICES ASSUME NEW f \in EventIds, s.rows[f] # NoRow, events[f] = NoRow,
                      s.rows[f].origin \in Stable
               PROVE  /\ records[s.rows[f].origin] = NoRecord
                      /\ s.records[s.rows[f].origin].event = f
    BY DEF Claimed
  <2>1. CASE f = e
    BY <1>2, <1>3, <1>5, <1>8, <2>1 DEF Session
  <2>2. CASE f # e
    <3>1. s.rows[f] = session[w].rows[f]
      BY <1>2, <1>5, <2>2 DEF Session
    <3>2. /\ records[s.rows[f].origin] = NoRecord
          /\ session[w].records[s.rows[f].origin].event = f
      BY <3>1 DEF IInv, SessionInv, Claimed
    <3>3. l \in Stable => s.rows[f].origin # l
      BY <1>8, <3>2 DEF NoRecord
    <3> QED BY <1>2, <1>5, <3>2, <3>3 DEF Session
  <2> QED BY <2>1, <2>2
<1>13. \A v \in Others(w) : Apart(s, session[v])
  BY <1>2, <1>3, <1>5, <1>9 DEF IInv, Apart, Others, Session
<1> QED BY <1>1, <1>4, <1>7, <1>10, <1>11, <1>12, <1>13, LocalStep DEF IInv, TypeOK, SessionInv

LEMMA UpdateInv ==
    ASSUME IInv, NEW w \in Workers, Update(w)
    PROVE  IInv'
<1> USE NoneIsNone
<1> DEFINE l == At(w)
           n == session[w].seen[l]
           e == session[w].target
           record == [event |-> e, hash |-> n]
           s(row) == [session[w] EXCEPT
                   !.pc = "find", !.pos = @ + 1, !.known = NoRecord,
                   !.rows[e] = IF row = RowSeen(w, e) THEN @ ELSE row,
                   !.records = IF l \in Stable /\ ~Unchanged(w)
                               THEN [@ EXCEPT ![l] = record] ELSE @]
<1>1. /\ session[w].pc = "write" /\ e # 0 /\ l \notin poison
      /\ \A v \in Others(w) : Unchanged(w) \/ ~RecordHeld(w, v)
      /\ ~Stolen(w, l, e)
      /\ UNCHANGED <<feed, poison, events, records, revisions, failures>>
  BY DEF Update
<1>2. /\ session[w] \in Session /\ l \in Listings /\ n \in Nights
      /\ session[w].pos + 1 \in 1..(NumListings + 1)
      /\ e \in EventIds /\ RowSeen(w, e) # NoRow /\ RowSeen(w, e) \in Row
  BY <1>1, AtWrite, SeenTypes DEF IInv, Session
<1>3. PICK row \in Merges(w, l, e) :
        /\ row # RowSeen(w, e) => \A v \in Others(w) : ~RowHeld(w, v)
        /\ session' = [session EXCEPT ![w] = s(row)]
  <2>1. session \in [Workers -> Session]
    BY DEF IInv, TypeOK, Session
  <2>2. PICK row \in Merges(w, l, e) :
          /\ row # RowSeen(w, e) => \A v \in Others(w) : ~RowHeld(w, v)
          /\ session' = [session EXCEPT
               ![w].pc = "find", ![w].pos = @ + 1, ![w].known = NoRecord,
               ![w].rows[e] = IF row = RowSeen(w, e) THEN @ ELSE row,
               ![w].records = IF l \in Stable /\ ~Unchanged(w)
                              THEN [@ EXCEPT ![l] = record] ELSE @]
    BY DEF Update
  <2>3. session' = [session EXCEPT ![w] = s(row)]
    BY <2>1, <2>2 DEF Session
  <2> QED BY <2>2, <2>3
<1>4. row \in Row /\ row # NoRow /\ row.origin = RowSeen(w, e).origin
  <2>1. CASE row = RowSeen(w, e)
    BY <1>2, <2>1
  <2>2. CASE row # RowSeen(w, e)
    <3>1. PICK night \in {RowSeen(w, e).night, n}, source \in {RowSeen(w, e).source, l} :
            row = [RowSeen(w, e) EXCEPT !.night = night, !.source = source]
      BY <2>2 DEF Merges
    <3>2. RowSeen(w, e) \in [night : Nights, source : Listings, origin : Listings]
      BY <1>2 DEF Row
    <3>3. night \in Nights /\ source \in Listings
      BY <1>2, <3>2
    <3>4. row \in [night : Nights, source : Listings, origin : Listings]
          /\ row.origin = RowSeen(w, e).origin
      BY <3>1, <3>2, <3>3
    <3> QED BY <3>4 DEF Row, NoRow
  <2> QED BY <2>1, <2>2
<1>5. /\ s(row).pc = "find"
      /\ s(row).rows = [session[w].rows EXCEPT ![e] = IF row = RowSeen(w, e) THEN @ ELSE row]
      /\ s(row).records = IF l \in Stable /\ ~Unchanged(w)
                     THEN [session[w].records EXCEPT ![l] = record] ELSE session[w].records
  BY <1>2 DEF Session
<1>6. record \in Record /\ record # NoRecord
  BY <1>2 DEF Record, NoRecord
<1>7. s(row) \in Session
  BY <1>2, <1>4, <1>6 DEF Session
<1>8. /\ l \in Stable /\ records[l] # NoRecord => records[l].event = e
      /\ l \in Stable /\ session[w].records[l] # NoRecord => session[w].records[l].event = e
  BY <1>1 DEF IInv, SessionInv, Owned, Stolen, RecordSeen
<1> DEFINE t == s(row)
<1> HIDE DEF s
<1>9. \A f \in EventIds : Visible(session[w], f) # NoRow => Visible(t, f) # NoRow
  BY <1>2, <1>4, <1>5 DEF Visible, Session
<1>10. Targeted(t)
  BY <1>5 DEF Targeted
<1>11. Owned(t)
  <2> SUFFICES ASSUME NEW k \in Stable, t.records[k] # NoRecord
               PROVE  /\ Visible(t, t.records[k].event) # NoRow
                      /\ records[k] # NoRecord => records[k].event = t.records[k].event
    BY DEF Owned
  <2>1. CASE k = l /\ ~Unchanged(w)
    <3>1. t.records[k] = record
      BY <1>2, <1>5, <2>1 DEF Session
    <3> QED BY <1>2, <1>8, <1>9, <2>1, <3>1, VisibleIsSeen
  <2>2. CASE ~(k = l /\ ~Unchanged(w))
    <3>1. t.records[k] = session[w].records[k]
      BY <1>2, <1>5, <2>2 DEF Session
    <3>2. t.records[k].event \in EventIds
      BY <1>2, <3>1 DEF Session
    <3> QED BY <1>9, <3>1, <3>2 DEF IInv, SessionInv, Owned
  <2> QED BY <2>1, <2>2
<1>12. Claimed(t)
  <2> SUFFICES ASSUME NEW f \in EventIds, t.rows[f] # NoRow, events[f] = NoRow,
                      t.rows[f].origin \in Stable
               PROVE  /\ records[t.rows[f].origin] = NoRecord
                      /\ t.records[t.rows[f].origin].event = f
    BY DEF Claimed
  <2>1. session[w].rows[f] # NoRow /\ session[w].rows[f].origin = t.rows[f].origin
    BY <1>2, <1>4, <1>5 DEF RowSeen, Session
  <2>2. /\ records[t.rows[f].origin] = NoRecord
        /\ session[w].records[t.rows[f].origin].event = f
    BY <2>1 DEF IInv, SessionInv, Claimed
  <2>3. t.rows[f].origin = l => f = e
    BY <1>8, <2>2 DEF NoRecord
  <2>4. t.rows[f].origin \in Stable /\ (t.rows[f].origin = l => record.event = f)
    BY <1>2, <2>3
  <2> QED BY <1>2, <1>5, <2>2, <2>4 DEF Session
<1>13. \A v \in Others(w) : Apart(t, session[v])
  BY <1>1, <1>2, <1>3, <1>5 DEF IInv, Apart, Others, Session, RowHeld, RecordHeld
<1> QED BY <1>1, <1>3, <1>7, <1>10, <1>11, <1>12, <1>13, LocalStep DEF IInv, TypeOK, SessionInv

\* The steps that leave what is pending alone, or drop it.
LEMMA RejectInv ==
    ASSUME IInv, NEW w \in Workers, Reject(w)
    PROVE  IInv'
<1> DEFINE s == [session[w] EXCEPT !.pc = "find", !.pos = @ + 1, !.known = NoRecord,
                                   !.rejected = TRUE]
<1>1. session[w] \in Session /\ session[w].pos + 1 \in 1..(NumListings + 1)
  BY AtWrite DEF Reject
<1>2. session' = [session EXCEPT ![w] = s]
  <2>1. session \in [Workers -> Session]
    BY DEF IInv, TypeOK, Session
  <2> QED BY <2>1 DEF Reject, Session
<1>3. s \in Session /\ s.pc = "find" /\ s.rows = session[w].rows /\ s.records = session[w].records
  BY <1>1, NoneIsNone DEF Session
<1> HIDE DEF s
<1>4. SessionInv(s) /\ \A v \in Others(w) : Apart(s, session[v])
  BY SMTT(30), <1>3 DEF IInv, SessionInv, Targeted, Owned, Claimed, Visible, Apart
<1> QED BY <1>2, <1>3, <1>4, LocalStep DEF Reject, IInv, TypeOK

LEMMA FinishInv ==
    ASSUME IInv, NEW w \in Workers, Finish(w)
    PROVE  IInv'
<1> DEFINE s == [session[w] EXCEPT !.pc = "done", !.rows = NoRows, !.records = NoRecords]
<1>1. session[w] \in Session
  BY SeenTypes DEF IInv
<1>2. session' = [session EXCEPT ![w] = s]
  <2>1. session \in [Workers -> Session]
    BY DEF IInv, TypeOK, Session
  <2> QED BY <2>1 DEF Finish, Session
<1>3. s \in Session /\ s.pc = "done" /\ s.rows = NoRows /\ s.records = NoRecords
  BY <1>1, NoneIsNone DEF Session, NoRows, NoRecords
<1> HIDE DEF s
<1> QED BY <1>2, <1>3, CommitStep DEF Finish

LEMMA ResetInv ==
    ASSUME IInv, NEW w \in Workers, Start(w) \/ Return(w) \/ Fail(w) \/ DeadlockVictim(w)
    PROVE  IInv'
<1>1. PICK s \in Session :
        /\ session' = [session EXCEPT ![w] = s]
        /\ s.pc # "write" /\ s.rows = NoRows /\ s.records = NoRecords
  <2>1. CASE Start(w)
    <3>1. PICK order \in Orders :
            session' = [session EXCEPT
                          ![w] = [Idle EXCEPT !.pc = "find", !.seen = feed, !.batch = order]]
      BY <2>1 DEF Start
    <3>2. order \in [Listings -> Listings] /\ feed \in [Listings -> Nights]
      BY PipelineAssumption DEF IInv, TypeOK
    <3> DEFINE s == [Idle EXCEPT !.pc = "find", !.seen = feed, !.batch = order]
    <3>3. s \in Session
      BY <3>2, IdleIsFine DEF Session
    <3>4. s.pc = "find" /\ s.rows = NoRows /\ s.records = NoRecords
      BY DEF Idle
    <3> QED BY <3>1, <3>3, <3>4
  <2>2. CASE Return(w) \/ Fail(w)
    BY <2>2, IdleIsFine DEF Return, Fail, Idle
  <2>3. CASE DeadlockVictim(w)
    <3> DEFINE s == [Idle EXCEPT !.pc = "victim"]
    <3>1. s \in Session
      BY IdleIsFine DEF Session
    <3>2. s.pc = "victim" /\ s.rows = NoRows /\ s.records = NoRecords
      BY DEF Idle
    <3> QED BY <2>3, <3>1, <3>2 DEF DeadlockVictim
  <2> QED BY <2>1, <2>2, <2>3
<1>2. SessionInv(s) /\ \A v \in Others(w) : Apart(s, session[v])
  BY <1>1 DEF SessionInv, Targeted, Owned, Claimed, Apart, NoRows, NoRecords
<1>3. /\ UNCHANGED <<feed, poison, events, records, revisions>>
      /\ failures' \in 0..MaxFailures
  <2>1. failures \in 0..MaxFailures /\ MaxFailures \in Nat
    BY PipelineAssumption DEF IInv, TypeOK
  <2>2. CASE Start(w) \/ Return(w) \/ DeadlockVictim(w)
    BY <2>1, <2>2 DEF Start, Return, DeadlockVictim
  <2>3. CASE Fail(w)
    BY <2>1, <2>3 DEF Fail
  <2> QED BY <2>2, <2>3
<1> QED BY <1>1, <1>2, <1>3, LocalStep DEF IInv, TypeOK

LEMMA OtherInv ==
    ASSUME IInv, (\E l \in Moving : Revise(l)) \/ UNCHANGED vars
    PROVE  IInv'
<1>1. UNCHANGED <<poison, events, records, session, failures>>
  BY DEF Revise, vars
<1>2. feed' \in [Listings -> Nights] /\ revisions' \in 0..MaxRevisions
  BY PipelineAssumption DEF Revise, vars, IInv, TypeOK
<1>3. TypeOK' /\ CommittedOwned'
  BY <1>1, <1>2 DEF IInv, TypeOK, CommittedOwned
<1>4. ASSUME NEW w \in Workers
      PROVE  /\ SessionInv(session[w])'
             /\ \A v \in Others(w) : Apart(session[w], session[v])'
  BY <1>1 DEF IInv, SessionInv, Targeted, Owned, Claimed, Visible, Apart
<1> QED BY <1>3, <1>4 DEF IInv, Others

LEMMA NextInv ==
    ASSUME IInv, [Next]_vars
    PROVE  IInv'
  BY FindInv, InsertInv, UpdateInv, RejectInv, FinishInv, ResetInv, OtherInv DEF Next, Run

\* The inductive invariant.
THEOREM InvHolds == Spec => []IInv
  BY InitInv, NextInv, PTL DEF Spec

\* The types of the runs: whatever the sessions write stays a row or an identity.
THEOREM TypesHold == Spec => []TypeOK
<1>1. IInv => TypeOK
  BY DEF IInv
<1> QED BY <1>1, InvHolds, PTL

-----------------------------------------------------------------------------
(* What a commit may change. *)

LEMMA OnlyCommits ==
    ASSUME [Next]_vars
    PROVE  UNCHANGED <<events, records>> \/ \E w \in Workers : Committed(w)
<1>1. ASSUME NEW w \in Workers, Find(w)
      PROVE  UNCHANGED <<events, records>> \/ Committed(w)
  <2>1. CASE CommitDue(w)
    BY <1>1, <2>1 DEF Find
  <2>2. CASE ~CommitDue(w)
    BY <1>1, <2>2 DEF Find
  <2> QED BY <2>1, <2>2
<1>2. ASSUME NEW w \in Workers,
             Start(w) \/ Insert(w) \/ Update(w) \/ Reject(w) \/ Return(w) \/ Fail(w) \/ DeadlockVictim(w)
      PROVE  UNCHANGED <<events, records>>
  BY <1>2 DEF Start, Insert, Update, Reject, Return, Fail, DeadlockVictim
<1>3. ASSUME NEW w \in Workers, Finish(w) PROVE Committed(w)
  BY <1>3 DEF Finish
<1>4. ASSUME (\E l \in Moving : Revise(l)) \/ UNCHANGED vars PROVE UNCHANGED <<events, records>>
  BY <1>4 DEF Revise, vars
<1> QED BY <1>1, <1>2, <1>3, <1>4 DEF Next, Run

\* Once committed, an identity stays with its event, whoever observes it and in
\* whatever order the sessions commit.
THEOREM IdentityIsPermanent == Spec => IdentityPermanent
<1>1. ASSUME IInv, [Next]_vars, NEW l \in Stable, records[l] # NoRecord
      PROVE  records'[l].event = records[l].event
  <2>1. CASE UNCHANGED <<events, records>>
    BY <2>1
  <2>2. ASSUME NEW w \in Workers, Committed(w)
        PROVE  records'[l].event = records[l].event
    BY <1>1, <2>2 DEF Committed, RecordSeen, IInv, SessionInv, Owned
  <2> QED BY <1>1, <2>1, <2>2, OnlyCommits
<1>2. IInv /\ [Next]_vars =>
        [\A l \in Stable : records[l] # NoRecord => records'[l].event = records[l].event]_vars
  BY <1>1
<1> QED BY <1>2, InvHolds, PTL DEF Spec, IdentityPermanent

\* A row and the identity it was inserted for become durable together, and only for
\* an identity nobody had: no listing gets a second row.
THEOREM NoTwins == Spec => NoTwinRows
<1>1. ASSUME IInv, [Next]_vars, NEW e \in EventIds,
             events[e] = NoRow, events'[e] # NoRow, events'[e].origin \in Stable
      PROVE  /\ records[events'[e].origin] = NoRecord
             /\ records'[events'[e].origin].event = e
  <2>1. PICK w \in Workers : Committed(w)
    BY <1>1, OnlyCommits
  <2>2. events'[e] = session[w].rows[e] /\ session[w].rows[e] # NoRow
    BY <1>1, <2>1 DEF Committed, RowSeen
  <2> DEFINE l == session[w].rows[e].origin
  <2>3. records[l] = NoRecord /\ session[w].records[l].event = e
    BY <1>1, <2>2 DEF IInv, SessionInv, Claimed
  <2>4. session[w].records[l] # NoRecord
    BY <2>3, NoneIsNone DEF NoRecord
  <2>5. records'[l] = session[w].records[l]
    BY <1>1, <2>1, <2>2, <2>4 DEF Committed, RecordSeen
  <2> QED BY <2>2, <2>3, <2>5
<1>2. IInv /\ [Next]_vars =>
        [\A e \in EventIds :
            events[e] = NoRow /\ events'[e] # NoRow /\ events'[e].origin \in Stable =>
                /\ records[events'[e].origin] = NoRecord
                /\ records'[events'[e].origin].event = e]_vars
  BY <1>1
<1> QED BY <1>2, InvHolds, PTL DEF Spec, NoTwinRows

-----------------------------------------------------------------------------
(* A run that reports no rejection has stored what it was given. *)

\* While a run has rejected nothing, the stable listings behind it have their
\* identities, pending or committed; a record once found is still there.
Fed(w) ==
    /\ session[w].pc \in {"find", "write"} => session[w].batch \in Orders
    /\ session[w].pc \in {"find", "write"} /\ ~session[w].rejected =>
          \A i \in Listings : i < session[w].pos /\ session[w].batch[i] \in Stable =>
             RecordSeen(w, session[w].batch[i]) # NoRecord
    /\ session[w].pc = "write" /\ session[w].known # NoRecord =>
          At(w) \in Stable /\ RecordSeen(w, At(w)) # NoRecord
    /\ session[w].pc = "done" /\ ~session[w].rejected =>
          \A l \in Stable : records[l] # NoRecord

AllFed == \A w \in Workers : Fed(w)

LEMMA RecordsStay ==
    ASSUME IInv, [Next]_vars, NEW l \in Stable, records[l] # NoRecord
    PROVE  records'[l] # NoRecord
<1>1. CASE UNCHANGED <<events, records>>
  BY <1>1
<1>2. ASSUME NEW w \in Workers, Committed(w) PROVE records'[l] # NoRecord
  BY <1>2 DEF Committed, RecordSeen
<1> QED BY <1>1, <1>2, OnlyCommits

\* Another session's step leaves a run's claims standing.
LEMMA FedKept ==
    ASSUME IInv, [Next]_vars, NEW v \in Workers, Fed(v), session'[v] = session[v]
    PROVE  Fed(v)'
<1>1. \A l \in Stable : RecordSeen(v, l) # NoRecord => RecordSeen(v, l)' # NoRecord
  BY RecordsStay DEF RecordSeen
<1>2. At(v)' = At(v)
  BY DEF At
<1>3. \A l \in Stable : records[l] # NoRecord => records'[l] # NoRecord
  BY RecordsStay
<1> QED BY <1>1, <1>2, <1>3 DEF Fed

\* What a step of one worker has to show: the state s it goes to.
LEMMA FedStep ==
    ASSUME IInv, AllFed, [Next]_vars, NEW w \in Workers, NEW s,
           session' = [session EXCEPT ![w] = s],
           Fed(w)'
    PROVE  AllFed'
<1>1. \A v \in Workers : v # w => session'[v] = session[v]
  BY DEF IInv, TypeOK
<1> QED BY <1>1, FedKept DEF AllFed

LEMMA FedFind ==
    ASSUME IInv, AllFed, NEW w \in Workers, Find(w)
    PROVE  AllFed'
<1> USE NoneIsNone
<1>0. [Next]_vars
  BY DEF Next, Run
<1>1. session \in [Workers -> Session] /\ session[w] \in Session
  BY DEF IInv, TypeOK, Session
<1>2. PICK e \in Targets(w, At(w)) :
        LET found == [session[w] EXCEPT !.pc = "write", !.target = e, !.known = Known(w, At(w))]
        IN  IF CommitDue(w)
            THEN /\ Committed(w)
                 /\ session' = [session EXCEPT
                                  ![w] = [found EXCEPT !.rows = NoRows, !.records = NoRecords]]
            ELSE session' = [session EXCEPT ![w] = found] /\ UNCHANGED <<events, records>>
  BY DEF Find
<1> DEFINE found == [session[w] EXCEPT !.pc = "write", !.target = e, !.known = Known(w, At(w))]
           kept  == [found EXCEPT !.rows = NoRows, !.records = NoRecords]
<1>3. session[w].pc = "find"
  BY DEF Find
<1>4. /\ session' = [session EXCEPT ![w] = IF CommitDue(w) THEN kept ELSE found]
      /\ CommitDue(w) => Committed(w)
      /\ ~CommitDue(w) => records' = records
  BY <1>2
<1>5. /\ session'[w].pc = "write" /\ session'[w].batch = session[w].batch
      /\ session'[w].pos = session[w].pos /\ session'[w].rejected = session[w].rejected
      /\ session'[w].known = Known(w, At(w))
      /\ session'[w].records = IF CommitDue(w) THEN NoRecords ELSE session[w].records
  BY <1>1, <1>4 DEF Session
<1>6. \A l \in Stable : RecordSeen(w, l)' = RecordSeen(w, l)
  <2>1. CASE CommitDue(w)
    BY <1>4, <1>5, <2>1 DEF Committed, RecordSeen, NoRecords
  <2>2. CASE ~CommitDue(w)
    BY <1>4, <1>5, <2>2 DEF RecordSeen
  <2> QED BY <2>1, <2>2
<1>7. At(w)' = At(w)
  BY <1>5 DEF At
<1>8. Known(w, At(w)) # NoRecord => At(w) \in Stable /\ RecordSeen(w, At(w)) # NoRecord
  BY DEF Known
<1>9. Fed(w)'
  BY <1>3, <1>5, <1>6, <1>7, <1>8 DEF AllFed, Fed
<1> QED BY <1>0, <1>4, <1>9, FedStep

\* A savepoint of listing a that is written: the session goes to s, and a has its
\* identity if it is stable.
Written(w, s, a) ==
    /\ session[w].pc = "write" /\ session[w].pos \in Listings /\ a = At(w)
    /\ session' = [session EXCEPT ![w] = s] /\ records' = records
    /\ s.pc = "find" /\ s.pos = session[w].pos + 1 /\ s.batch = session[w].batch
    /\ s.rejected = session[w].rejected
    /\ \A k \in Stable : session[w].records[k] # NoRecord => s.records[k] # NoRecord
    /\ a \in Stable => s.records[a] # NoRecord \/ records[a] # NoRecord

LEMMA FedWritten ==
    ASSUME IInv, AllFed, [Next]_vars, NEW w \in Workers, NEW s, NEW a, Written(w, s, a)
    PROVE  AllFed'
<1> USE DEF Written
<1>1. session'[w] = s
  BY DEF IInv, TypeOK
<1>2. \A l \in Stable : RecordSeen(w, l) # NoRecord => RecordSeen(w, l)' # NoRecord
  BY <1>1 DEF RecordSeen
<1>3. a \in Stable => RecordSeen(w, a)' # NoRecord
  BY <1>1 DEF RecordSeen
<1>4. Fed(w)'
  <2>1. s.batch \in Orders
    BY DEF AllFed, Fed
  <2>2. ASSUME ~s.rejected, NEW i \in Listings, i < s.pos, s.batch[i] \in Stable
        PROVE  RecordSeen(w, s.batch[i])' # NoRecord
    <3>1. PICK x : x = s.batch[i]
      OBVIOUS
    <3>2. CASE i = session[w].pos
      BY <1>3, <2>2, <3>1, <3>2 DEF At
    <3>3. CASE i # session[w].pos
      <4>1. i < session[w].pos
        BY <2>2, <3>3 DEF Listings
      <4>2. RecordSeen(w, x) # NoRecord
        BY <2>2, <3>1, <4>1 DEF AllFed, Fed
      <4>3. RecordSeen(w, x)' # NoRecord
        BY <1>2, <2>2, <3>1, <4>2
      <4> QED BY <3>1, <4>3, <1>1
    <3> QED BY <3>2, <3>3
  <2> QED BY <1>1, <2>1, <2>2 DEF Fed
<1> QED BY <1>4, FedStep

LEMMA FedInsert ==
    ASSUME IInv, AllFed, NEW w \in Workers, Insert(w)
    PROVE  AllFed'
<1> USE NoneIsNone
<1> DEFINE l == At(w)
           e == Min(FreshIds)
           row == [night |-> session[w].seen[l], source |-> l, origin |-> l]
           record == [event |-> e, hash |-> session[w].seen[l]]
           s == [session[w] EXCEPT
                   !.pc = "find", !.pos = @ + 1, !.known = NoRecord,
                   !.rows[e] = row,
                   !.records = IF l \in Stable THEN [@ EXCEPT ![l] = record] ELSE @]
<1>1. session[w].pc = "write" /\ FreshIds # {} /\ records' = records
  BY DEF Insert
<1>2. session[w] \in Session /\ session[w].pos \in Listings /\ l \in Listings
  BY <1>1, AtWrite DEF IInv, SessionInv, Targeted
<1>3. session' = [session EXCEPT ![w] = s]
  <2>1. session \in [Workers -> Session]
    BY DEF IInv, TypeOK, Session
  <2> QED BY <2>1 DEF Insert, Session
<1>4. e \in EventIds
  <2>1. FreshIds \in SUBSET EventIds
    BY DEF FreshIds
  <2> QED BY <1>1, <2>1, MinIsMember
<1>5. record # NoRecord
  BY <1>4 DEF NoRecord
<1>6. /\ s.pc = "find" /\ s.pos = session[w].pos + 1 /\ s.batch = session[w].batch
      /\ s.rejected = session[w].rejected
      /\ s.records = IF l \in Stable THEN [session[w].records EXCEPT ![l] = record]
                     ELSE session[w].records
  BY <1>2 DEF Session
<1>7. [Next]_vars
  BY DEF Next, Run
<1> HIDE DEF s, record
<1>8. \A k \in Stable : session[w].records[k] # NoRecord => s.records[k] # NoRecord
  BY <1>2, <1>5, <1>6 DEF Session
<1>9. l \in Stable => s.records[l] # NoRecord
  BY <1>2, <1>5, <1>6 DEF Session
<1>10. PICK a, t : a = l /\ t = s
  OBVIOUS
<1>11. Written(w, t, a)
  BY <1>1, <1>2, <1>3, <1>6, <1>8, <1>9, <1>10 DEF Written
<1> QED BY <1>7, <1>11, FedWritten

LEMMA FedUpdate ==
    ASSUME IInv, AllFed, NEW w \in Workers, Update(w)
    PROVE  AllFed'
<1> USE NoneIsNone
<1> DEFINE l == At(w)
           n == session[w].seen[l]
           e == session[w].target
           record == [event |-> e, hash |-> n]
           s(row) == [session[w] EXCEPT
                   !.pc = "find", !.pos = @ + 1, !.known = NoRecord,
                   !.rows[e] = IF row = RowSeen(w, e) THEN @ ELSE row,
                   !.records = IF l \in Stable /\ ~Unchanged(w)
                               THEN [@ EXCEPT ![l] = record] ELSE @]
<1>1. session[w].pc = "write" /\ e # 0 /\ records' = records
  BY DEF Update
<1>2. /\ session[w] \in Session /\ session[w].pos \in Listings
      /\ l \in Listings /\ n \in Nights
  BY <1>1, AtWrite DEF IInv, SessionInv, Targeted
<1>3. PICK row : session' = [session EXCEPT ![w] = s(row)]
  <2>1. session \in [Workers -> Session]
    BY DEF IInv, TypeOK, Session
  <2>2. PICK row \in Merges(w, l, e) :
          session' = [session EXCEPT
               ![w].pc = "find", ![w].pos = @ + 1, ![w].known = NoRecord,
               ![w].rows[e] = IF row = RowSeen(w, e) THEN @ ELSE row,
               ![w].records = IF l \in Stable /\ ~Unchanged(w)
                              THEN [@ EXCEPT ![l] = record] ELSE @]
    BY DEF Update
  <2>3. session' = [session EXCEPT ![w] = s(row)]
    BY <2>1, <2>2 DEF Session
  <2> QED BY <2>3
<1>4. record # NoRecord
  BY <1>1 DEF NoRecord
<1>5. /\ s(row).pc = "find" /\ s(row).pos = session[w].pos + 1
      /\ s(row).batch = session[w].batch /\ s(row).rejected = session[w].rejected
      /\ s(row).records = IF l \in Stable /\ ~Unchanged(w)
                     THEN [session[w].records EXCEPT ![l] = record] ELSE session[w].records
  BY <1>2 DEF Session
<1>6. [Next]_vars
  BY DEF Next, Run
<1> HIDE DEF s, record
<1>7. \A k \in Stable : session[w].records[k] # NoRecord => s(row).records[k] # NoRecord
  BY <1>2, <1>4, <1>5 DEF Session
\* A replay: the record it was recognised by is there.
<1>8. l \in Stable => s(row).records[l] # NoRecord \/ records[l] # NoRecord
  <2>1. CASE l \in Stable /\ ~Unchanged(w)
    BY <1>2, <1>4, <1>5, <2>1 DEF Session
  <2>2. CASE l \in Stable /\ Unchanged(w)
    <3>1. session[w].known.hash # 0
      BY <1>2, <2>2 DEF Unchanged
    <3>2. session[w].known # NoRecord
      BY <3>1 DEF NoRecord
    <3>3. RecordSeen(w, l) # NoRecord
      BY <1>1, <3>2 DEF AllFed, Fed
    <3> QED BY <2>2, <3>3, <1>7 DEF RecordSeen
  <2> QED BY <2>1, <2>2
<1>9. PICK a, t : a = l /\ t = s(row)
  OBVIOUS
<1>10. Written(w, t, a)
  BY <1>1, <1>2, <1>3, <1>5, <1>7, <1>8, <1>9 DEF Written
<1> QED BY <1>6, <1>10, FedWritten

LEMMA FedReject ==
    ASSUME IInv, AllFed, NEW w \in Workers, Reject(w)
    PROVE  AllFed'
<1> DEFINE s == [session[w] EXCEPT !.pc = "find", !.pos = @ + 1, !.known = NoRecord,
                                   !.rejected = TRUE]
<1>1. session \in [Workers -> Session] /\ session[w] \in Session
  BY DEF IInv, TypeOK, Session
<1>2. session[w].pc = "write" /\ session' = [session EXCEPT ![w] = s]
  BY <1>1 DEF Reject, Session
<1>3. s.pc = "find" /\ s.rejected /\ s.batch = session[w].batch
  BY <1>1 DEF Session
<1>4. session'[w] = s
  BY <1>1, <1>2
<1>5. Fed(w)'
  BY <1>2, <1>3, <1>4 DEF AllFed, Fed
<1> QED BY <1>2, <1>5, FedStep DEF Next, Run

\* The last commit: the loop has been through the whole batch.
LEMMA FedFinish ==
    ASSUME IInv, AllFed, NEW w \in Workers, Finish(w)
    PROVE  AllFed'
<1> DEFINE s == [session[w] EXCEPT !.pc = "done", !.rows = NoRows, !.records = NoRecords]
<1>1. session \in [Workers -> Session] /\ session[w] \in Session
  BY DEF IInv, TypeOK, Session
<1>2. /\ session[w].pc = "find" /\ session[w].pos > NumListings
      /\ Committed(w) /\ session' = [session EXCEPT ![w] = s]
  BY <1>1 DEF Finish, Session
<1>3. session'[w] = s /\ s.pc = "done" /\ s.rejected = session[w].rejected
  BY <1>1, <1>2 DEF Session
<1>4. ASSUME ~session[w].rejected, NEW l \in Stable
      PROVE  records'[l] # NoRecord
  <2>1. session[w].batch \in Orders /\ l \in Listings
    BY <1>2, PipelineAssumption DEF AllFed, Fed
  <2>2. {session[w].batch[i] : i \in Listings} = Listings
    BY <2>1, PipelineAssumption
  <2>3. PICK i \in Listings : session[w].batch[i] = l
    BY <2>1, <2>2
  <2>4. i < session[w].pos
    BY <1>1, <1>2, PipelineAssumption DEF Listings, Session
  <2>5. RecordSeen(w, l) # NoRecord
    BY <1>2, <1>4, <2>3, <2>4 DEF AllFed, Fed
  <2> QED BY <1>2, <2>5 DEF Committed
<1>5. Fed(w)'
  BY <1>3, <1>4 DEF Fed
<1> QED BY <1>2, <1>5, FedStep DEF Next, Run

LEMMA FedReset ==
    ASSUME IInv, AllFed, NEW w \in Workers,
           Start(w) \/ Return(w) \/ Fail(w) \/ DeadlockVictim(w)
    PROVE  AllFed'
<1>1. session \in [Workers -> Session]
  BY DEF IInv, TypeOK, Session
<1>2. [Next]_vars
  BY DEF Next, Run
<1>3. CASE Start(w)
  <2>1. PICK order \in Orders :
          session' = [session EXCEPT
                        ![w] = [Idle EXCEPT !.pc = "find", !.seen = feed, !.batch = order]]
    BY <1>3 DEF Start
  <2> DEFINE s == [Idle EXCEPT !.pc = "find", !.seen = feed, !.batch = order]
  <2>2. s.pc = "find" /\ s.batch = order /\ s.pos = 1
    BY DEF Idle
  <2>3. session'[w] = s
    BY <1>1, <2>1
  <2>4. \A i \in Listings : ~(i < 1)
    BY DEF Listings
  <2>5. Fed(w)'
    BY <2>2, <2>3, <2>4 DEF Fed
  <2> QED BY <1>2, <2>1, <2>5, FedStep
<1>4. CASE Return(w) \/ Fail(w) \/ DeadlockVictim(w)
  <2>0. Idle.pc = "idle" /\ [Idle EXCEPT !.pc = "victim"].pc = "victim"
    BY DEF Idle
  <2>1. PICK s : session' = [session EXCEPT ![w] = s] /\ s.pc \in {"idle", "victim"}
    BY <1>4, <2>0 DEF Return, Fail, DeadlockVictim
  <2>2. session'[w] = s
    BY <1>1, <2>1
  <2>3. Fed(w)'
    BY <2>1, <2>2 DEF Fed
  <2> QED BY <1>2, <2>1, <2>3, FedStep
<1> QED BY <1>3, <1>4

LEMMA FedNext ==
    ASSUME IInv, AllFed, [Next]_vars
    PROVE  AllFed'
<1>1. CASE (\E l \in Moving : Revise(l)) \/ UNCHANGED vars
  <2>1. UNCHANGED session
    BY <1>1 DEF Revise, vars
  <2> QED BY <2>1, FedKept DEF AllFed
<1> QED BY <1>1, FedFind, FedInsert, FedUpdate, FedReject, FedFinish, FedReset DEF Next, Run

\* A run that reports no rejection has made every stable listing it was given
\* durable, whatever other workers did meanwhile: from AllFed, which follows each
\* listing from its savepoint to the commit of its chunk.
THEOREM CleanRunsAreDurable == Spec => []CleanRunDurable
<1>1. Init => AllFed
  BY DEF Init, Idle, AllFed, Fed
<1>2. AllFed => CleanRunDurable
  BY DEF AllFed, Fed, CleanRunDurable
<1> QED BY <1>1, <1>2, FedNext, InvHolds, PTL DEF Spec
=============================================================================
