---------------------------- MODULE DataPipeline ----------------------------
(***************************************************************************)
(* Transactions and identities of app/services/data_pipeline.py: how       *)
(* process_raw_events turns a batch of observations into event rows and    *)
(* source identities, while another worker (`make worker` beside the       *)
(* scheduled one) may be doing the same.                                   *)
(*                                                                         *)
(* An observation is found (_find_existing_event) in one step and written  *)
(* inside its savepoint in another; what it writes stays with the session  *)
(* until the chunk commits.  The database is PostgreSQL at READ COMMITTED: *)
(* a session sees what is committed and what it wrote, and waits for a row *)
(* or a primary key another session has written.                           *)
(*                                                                         *)
(* Simplifications.  What a listing says, and so its content hash, is the  *)
(* night it is on.  What a merge does to a row is left open here and is    *)
(* the subject of EventMerge.  Vibe tags and geocoding write to tables of  *)
(* their own before the first observation: see VibeTags and Geocoding.     *)
(***************************************************************************)
EXTENDS Integers, Sequences, FiniteSets, FiniteSetsExt

CONSTANTS
    Workers,       \* processes that may run the pipeline
    NumListings,   \* listings of the sources
    Orders,        \* the orders in which a batch may hold them
    Stable,        \* the listings with a _stable_source_identity
    Moving,        \* the listings their sources may move to another night
    Poisoned,      \* the listings whose rows may be ones no validation or constraint lets pass
    Legacy,        \* rows that predate source records: a sequence of <<night, listing>>
    NumNights,     \* nights a listing may be on
    CommitEvery,   \* commit_every
    MaxEvents,     \* bound: rows of the event table
    MaxRevisions,  \* bound: how often the sources move a listing
    MaxFailures    \* bound: runs lost to the infrastructure

Listings == 1..NumListings
Nights   == 1..NumNights
EventIds == 1..MaxEvents

ASSUME PipelineAssumption ==
    /\ NumListings \in Nat \ {0}
    /\ Orders \subseteq [Listings -> Listings]
    /\ \A order \in Orders : {order[i] : i \in Listings} = Listings
    /\ NumNights \in Nat \ {0}
    /\ Stable \subseteq Listings
    /\ Moving \subseteq Listings
    /\ Poisoned \subseteq Listings
    /\ Legacy \in Seq(Nights \X Stable)
    /\ MaxEvents \in Nat /\ MaxEvents >= Len(Legacy)
    /\ CommitEvery \in Nat \ {0}
    /\ MaxRevisions \in Nat
    /\ MaxFailures \in Nat

VARIABLES
    feed,      \* what the sources say now: the night of each listing
    poison,    \* the listings whose rows are invalid
    events,    \* committed rows; `origin` is the listing a row was inserted for
    records,   \* committed EventSourceRecords of the stable listings
    session,   \* the run of each worker
    revisions,
    failures

vars == <<feed, poison, events, records, session, revisions, failures>>

NoRow    == [night |-> 0, source |-> 0, origin |-> 0]
NoRecord == [event |-> 0, hash |-> 0]

Row    == [night : Nights, source : Listings, origin : Listings] \cup {NoRow}
Record == [event : EventIds, hash : Nights] \cup {NoRecord}

NoRows    == [e \in EventIds |-> NoRow]
NoRecords == [l \in Stable |-> NoRecord]

Idle == [pc |-> "idle", seen |-> [l \in Listings |-> 1], batch |-> [i \in Listings |-> i],
         pos |-> 1, target |-> 0, known |-> NoRecord, rows |-> NoRows, records |-> NoRecords, rejected |-> FALSE]

Init ==
    /\ feed = [l \in Listings |-> 1]
    /\ poison \in SUBSET Poisoned
    /\ events = [e \in EventIds |->
                   IF e <= Len(Legacy)
                   THEN [night  |-> Legacy[e][1], source |-> Legacy[e][2],
                         origin |-> Legacy[e][2]]
                   ELSE NoRow]
    /\ records = NoRecords
    /\ session = [w \in Workers |-> Idle]
    /\ revisions = 0
    /\ failures = 0

-----------------------------------------------------------------------------
(* What a session sees: its own pending writes over the committed state. *)

RowSeen(w, e) == IF session[w].rows[e] # NoRow THEN session[w].rows[e] ELSE events[e]

RecordSeen(w, l) ==
    IF session[w].records[l] # NoRecord THEN session[w].records[l] ELSE records[l]

Rows(w) == {e \in EventIds : RowSeen(w, e) # NoRow}

Others(w) == Workers \ {w}

\* The listing the loop is at.
At(w) == session[w].batch[session[w].pos]

\* The record looked up has the hash of what the source says: a replay.
Unchanged(w) == session[w].known.hash = session[w].seen[At(w)]

(* _find_existing_event.  A stable listing belongs to the event of its       *)
(* record, or to the oldest row that names it; any other goes to a row of    *)
(* the same night that looks like it, or to none, which is 0.  A row that    *)
(* came from the same listing always looks like it.                          *)
LegacyRows(w, l) == {e \in Rows(w) : RowSeen(w, e).source = l}

Alike(w, l) ==
    LET tonight == {e \in Rows(w) : RowSeen(w, e).night = session[w].seen[l]}
    IN  IF \E e \in tonight : RowSeen(w, e).source = l THEN tonight ELSE tonight \cup {0}

Targets(w, l) ==
    CASE l \in Stable /\ RecordSeen(w, l) # NoRecord -> {RecordSeen(w, l).event}
      [] l \in Stable /\ RecordSeen(w, l) = NoRecord /\ LegacyRows(w, l) # {}
                                                     -> {Min(LegacyRows(w, l))}
      [] OTHER                                       -> Alike(w, l)

\* Another session has written the row, or the key, this savepoint would write.  A
\* replay writes neither, and a merge that changes nothing leaves the row alone.
RowHeld(w, v)    == session[w].target # 0 /\ session[v].rows[session[w].target] # NoRow
RecordHeld(w, v) == At(w) \in Stable /\ session[v].records[At(w)] # NoRecord

WaitsFor(w, v) ==
    /\ session[w].pc = "write"
    /\ At(w) \notin poison
    /\ ~Unchanged(w)
    /\ RowHeld(w, v) \/ RecordHeld(w, v)

Blocked(w) == \E v \in Others(w) : WaitsFor(w, v)

\* Fault: whose the identity is, is not checked.
Stolen_Never(w, l, e) == FALSE

\* _remember_source_records finds the identity with another event.
Stolen(w, l, e) ==
    /\ l \in Stable
    /\ RecordSeen(w, l) # NoRecord
    /\ RecordSeen(w, l).event # e

\* The identity was created since it was looked up: creating it again violates
\* the primary key if the lookup of _remember_source_records missed it as well.
Taken(w, l) ==
    /\ l \in Stable
    /\ session[w].known = NoRecord
    /\ RecordSeen(w, l) # NoRecord

\* session.commit(): the pending writes of the session become durable.
Committed(w) ==
    /\ events' = [e \in EventIds |-> RowSeen(w, e)]
    /\ records' = [l \in Stable |-> RecordSeen(w, l)]

CommitDue(w) == session[w].pos > 1 /\ (session[w].pos - 1) % CommitEvery = 0

\* The record of a listing, as _find_existing_event sees it.
Known(w, l) == IF l \in Stable THEN RecordSeen(w, l) ELSE NoRecord

\* The id a new row gets: one that no row, committed or pending, has.
FreshIds ==
    {e \in EventIds : events[e] = NoRow /\ \A w \in Workers : session[w].rows[e] = NoRow}

-----------------------------------------------------------------------------
\* A source moves a listing to another night.
Revise(l) ==
    /\ revisions < MaxRevisions
    /\ \E n \in Nights \ {feed[l]} : feed' = [feed EXCEPT ![l] = n]
    /\ revisions' = revisions + 1
    /\ UNCHANGED <<poison, events, records, session, failures>>

\* A run begins with what its sources said.
Start(w) ==
    /\ session[w].pc = "idle"
    /\ \E order \in Orders :
         session' = [session EXCEPT
                       ![w] = [Idle EXCEPT !.pc = "find", !.seen = feed, !.batch = order]]
    /\ UNCHANGED <<feed, poison, events, records, revisions, failures>>

\* The loop reaches the next observation: it commits the chunk if one is full,
\* and looks the observation up.
Find(w) ==
    /\ session[w].pc = "find"
    /\ session[w].pos \in Listings
    /\ \E e \in Targets(w, At(w)) :
         LET found == [session[w] EXCEPT !.pc = "write", !.target = e,
                                         !.known = Known(w, At(w))]
         IN  IF CommitDue(w)
             THEN /\ Committed(w)
                  /\ session' = [session EXCEPT
                                   ![w] = [found EXCEPT !.rows = NoRows, !.records = NoRecords]]
             ELSE /\ session' = [session EXCEPT ![w] = found]
                  /\ UNCHANGED <<events, records>>
    /\ UNCHANGED <<feed, poison, revisions, failures>>

\* A new row and its identity.
Insert(w) ==
    LET l == At(w)
        n == session[w].seen[l]
    IN  /\ session[w].pc = "write"
        /\ session[w].target = 0
        /\ l \notin poison
        /\ ~Blocked(w)
        /\ ~Stolen(w, l, 0)
        /\ FreshIds # {}
        /\ session' = [session EXCEPT
             ![w].pc = "find", ![w].pos = @ + 1, ![w].known = NoRecord,
             ![w].rows[Min(FreshIds)] = [night |-> n, source |-> l, origin |-> l],
             ![w].records = IF l \in Stable
                            THEN [@ EXCEPT ![l] = [event |-> Min(FreshIds), hash |-> n]]
                            ELSE @]
        /\ UNCHANGED <<feed, poison, events, records, revisions, failures>>

\* What the row may be after the merge.  A replay of what the record had seen
\* changes nothing.
Merges(w, l, e) ==
    LET row == RowSeen(w, e)
        n   == session[w].seen[l]
    IN  IF Unchanged(w)
        THEN {row}
        ELSE {[row EXCEPT !.night = night, !.source = source] :
                 night \in {row.night, n}, source \in {row.source, l}}

\* An observation of a known event.
Update(w) ==
    LET l == At(w)
        e == session[w].target
        n == session[w].seen[l]
    IN  /\ session[w].pc = "write"
        /\ e # 0
        /\ l \notin poison
        /\ \A v \in Others(w) : Unchanged(w) \/ ~RecordHeld(w, v)
        /\ ~Stolen(w, l, e)
        /\ \E row \in Merges(w, l, e) :
             /\ row # RowSeen(w, e) => \A v \in Others(w) : ~RowHeld(w, v)
             /\ session' = [session EXCEPT
                  ![w].pc = "find", ![w].pos = @ + 1, ![w].known = NoRecord,
                  ![w].rows[e] = IF row = RowSeen(w, e) THEN @ ELSE row,
                  ![w].records = IF l \in Stable /\ ~Unchanged(w)
                                 THEN [@ EXCEPT ![l] = [event |-> e, hash |-> n]]
                                 ELSE @]
        /\ UNCHANGED <<feed, poison, events, records, revisions, failures>>

\* Fault: a row inserted for an identity someone else has just claimed stays.
Reject_KeepRow(w) ==
    LET l == At(w)
    IN  /\ session[w].pc = "write"
        /\ l \in poison \/ (~Blocked(w) /\ (Stolen(w, l, session[w].target) \/ Taken(w, l)))
        /\ FreshIds # {}
        /\ session' = [session EXCEPT
             ![w].pc = "find", ![w].pos = @ + 1, ![w].known = NoRecord,
             ![w].rejected = TRUE,
             ![w].rows[Min(FreshIds)] =
                 IF l \in poison THEN @
                 ELSE [night |-> session[w].seen[l], source |-> l, origin |-> l]]
        /\ UNCHANGED <<feed, poison, events, records, revisions, failures>>

\* Fault: the first rejected observation ends the loop.
Reject_Break(w) ==
    LET l == At(w)
    IN  /\ session[w].pc = "write"
        /\ l \in poison \/ (~Blocked(w) /\ (Stolen(w, l, session[w].target) \/ Taken(w, l)))
        /\ session' = [session EXCEPT ![w].pc = "find", ![w].pos = NumListings + 1,
                                      ![w].rejected = TRUE]
        /\ UNCHANGED <<feed, poison, events, records, revisions, failures>>

\* The savepoint rolls back, the observation counts as rejected and the loop
\* goes on.
Reject(w) ==
    LET l == At(w)
    IN  /\ session[w].pc = "write"
        /\ l \in poison \/ (~Blocked(w) /\ (Stolen(w, l, session[w].target) \/ Taken(w, l)))
        /\ session' = [session EXCEPT
             ![w].pc = "find", ![w].pos = @ + 1, ![w].known = NoRecord,
             ![w].rejected = TRUE]
        /\ UNCHANGED <<feed, poison, events, records, revisions, failures>>

\* Fault: the rows after the last full chunk are not committed.
Finish_NoCommit(w) ==
    /\ session[w].pc = "find"
    /\ session[w].pos > NumListings
    /\ session' = [session EXCEPT ![w].pc = "done",
                                  ![w].rows = NoRows, ![w].records = NoRecords]
    /\ UNCHANGED <<feed, poison, events, records, revisions, failures>>

\* The last commit.
Finish(w) ==
    /\ session[w].pc = "find"
    /\ session[w].pos > NumListings
    /\ Committed(w)
    /\ session' = [session EXCEPT ![w].pc = "done",
                                  ![w].rows = NoRows, ![w].records = NoRecords]
    /\ UNCHANGED <<feed, poison, revisions, failures>>

\* The summary, or the error of a deadlock, goes back to the worker: the error
\* comes through the worker's delay, long after the lock it freed was granted and
\* the other savepoint written.
Return(w) ==
    /\ \/ session[w].pc = "done"
       \/ /\ session[w].pc = "victim"
          /\ \A v \in Others(w) : session[v].pc # "write"
    /\ session' = [session EXCEPT ![w] = Idle]
    /\ UNCHANGED <<feed, poison, events, records, revisions, failures>>

\* An error the loop does not catch, or the end of the process: the chunk rolls
\* back, earlier chunks stay.
Fail(w) ==
    /\ session[w].pc \in {"find", "write"}
    /\ failures < MaxFailures
    /\ failures' = failures + 1
    /\ session' = [session EXCEPT ![w] = Idle]
    /\ UNCHANGED <<feed, poison, events, records, revisions>>

\* PostgreSQL breaks a deadlock by failing one of its sessions, which rolls back.
DeadlockVictim(w) ==
    /\ \E v \in Others(w) : WaitsFor(w, v) /\ WaitsFor(v, w)
    /\ session' = [session EXCEPT ![w] = [Idle EXCEPT !.pc = "victim"]]
    /\ UNCHANGED <<feed, poison, events, records, revisions, failures>>

Run(w) ==
    \/ Start(w) \/ Find(w) \/ Insert(w) \/ Update(w) \/ Reject(w)
    \/ Finish(w) \/ Return(w) \/ DeadlockVictim(w)

Next ==
    \/ \E l \in Moving : Revise(l)
    \/ \E w \in Workers : Run(w) \/ Fail(w)

Fairness == \A w \in Workers : WF_vars(Run(w))

Spec == Init /\ [][Next]_vars /\ Fairness

-----------------------------------------------------------------------------
TypeOK ==
    /\ feed \in [Listings -> Nights]
    /\ poison \subseteq Poisoned
    /\ events \in [EventIds -> Row]
    /\ records \in [Stable -> Record]
    /\ session \in [Workers ->
         [pc : {"idle", "find", "write", "done", "victim"}, seen : [Listings -> Nights],
          batch : [Listings -> Listings], pos : 1..(NumListings + 1), target : EventIds \cup {0},
          known : Record,
          rows : [EventIds -> Row], records : [Stable -> Record], rejected : BOOLEAN]]
    /\ revisions \in 0..MaxRevisions
    /\ failures \in 0..MaxFailures

\* A row and the identity it was inserted for become durable together, and only
\* for an identity nobody had: no interleaving of two workers, rejection or
\* replay gives a listing a second row.
NoTwinRows ==
    [][\A e \in EventIds :
          events[e] = NoRow /\ events'[e] # NoRow /\ events'[e].origin \in Stable =>
              /\ records[events'[e].origin] = NoRecord
              /\ records'[events'[e].origin].event = e]_vars

\* Once committed, an identity stays with its event, whatever night it moves to
\* and whoever observes it.
IdentityPermanent ==
    [][\A l \in Stable :
          records[l] # NoRecord => records'[l].event = records[l].event]_vars

\* A run that reports no rejection has made every stable listing it was given
\* durable: what lets the worker acknowledge its sources.
CleanRunDurable ==
    \A w \in Workers :
        session[w].pc = "done" /\ ~session[w].rejected =>
            \A l \in Stable : records[l] # NoRecord

\* Every valid listing is stored in the end: poisoned ones before it, lost runs
\* and other workers only delay it.
EventuallyStored ==
    \A l \in Stable : <>(l \in poison \/ records[l] # NoRecord)
=============================================================================
