----------------------- MODULE IngestionWorker_proofs -----------------------
(***************************************************************************)
(* Theorems about the ingestion worker, for any number of sources, any     *)
(* interleaving and any of its failures: its types, the soundness of the   *)
(* completion file, that it implements DurableSync, and what its health    *)
(* table, its canary counters and its alerts say of each source.           *)
(***************************************************************************)
EXTENDS IngestionWorker, FiniteSetTheorems, TLAPS

-----------------------------------------------------------------------------
(* Lemmas about the operators of the model. *)

\* A history stays a sequence of counts.
LEMMA RememberType ==
    ASSUME NEW counts \in Seq(Nat), NEW count \in Nat
    PROVE  Remember(counts, count) \in Seq(Nat)
<1>1. CASE Len(counts) < HistorySize
  BY <1>1 DEF Remember
<1>2. CASE ~(Len(counts) < HistorySize)
  <2>1. counts # <<>>
    BY <1>2, WorkerAssumption
  <2>2. Tail(counts) \in Seq(Nat)
    BY <2>1
  <2> QED BY <1>2, <2>2 DEF Remember
<1> QED BY <1>1, <1>2

\* Whatever a run was, the health computed from a health record is one.
LEMMA HealthAfterType ==
    ASSUME NEW prev \in Health, NEW count \in Nat, NEW error \in BOOLEAN, cycle \in Cycles
    PROVE  HealthAfter(prev, count, error) \in Health
<1>1. Zeros(prev, count) \in Nat
  BY DEF Zeros, Health
<1>2. \A z \in Nat : Status(z, error) \in {"healthy", "degraded", "failing"}
  BY DEF Status
<1>3. Status(Zeros(prev, count), error) \in {"healthy", "degraded", "failing"}
  BY <1>1, <1>2
<1>4. /\ (error \/ count = 0) \in BOOLEAN
      /\ prev.lastErrorAt \in Cycles
      /\ prev.lastSuccessAt \in Cycles
  BY DEF Health
<1> QED BY <1>1, <1>3, <1>4 DEF HealthAfter, Health

-----------------------------------------------------------------------------
(* Types. *)

\* The loop over sources is on a source while one is being read.
ReadsASource == phase = "reading" => next \in Sources

\* No number the worker keeps of a source exceeds what the source has published.
WithinPublished ==
    /\ \A s \in Sources : run[s].started <= published[s]
    /\ \A s \in Sources : run[s].got \subseteq 1..published[s]
    /\ \A s \in Sources : checkpoint[s].upto <= published[s]
    /\ \A r \in batch : r[2] \in 1..published[r[1]]

TypeInv == TypeOK /\ ReadsASource /\ WithinPublished

\* What was read is counted by a natural number.
LEMMA CountType ==
    ASSUME TypeInv, NEW s \in Sources
    PROVE  Count(s) \in Nat
<1>1. run[s].got \in SUBSET (1..published[s])
  BY DEF TypeInv, WithinPublished
<1>2. published[s] \in Int
  BY DEF TypeInv, TypeOK
<1>3. IsFiniteSet(1..published[s])
  BY <1>2, FS_Interval
<1>4. IsFiniteSet(run[s].got)
  BY <1>1, <1>3, FS_Subset
<1> QED BY <1>4, FS_CardinalityType DEF Count

LEMMA InitType == Init => TypeInv
<1> SUFFICES ASSUME Init PROVE TypeInv
  OBVIOUS
<1>1. NoRun \in [started : Nat, got : SUBSET Nat, error : BOOLEAN]
  BY DEF NoRun
<1>2. 0 \in Cycles
  BY WorkerAssumption DEF Cycles
<1>3. NoHealth \in Health
  BY <1>2 DEF NoHealth, Health
<1>4. NoCheckpoint \in [cycle : Cycles, upto : Nat]
  BY <1>2 DEF NoCheckpoint
<1>5. TypeOK
  <2>1. published \in [Sources -> Nat] /\ phase \in Phases
    BY DEF Init, Phases
  <2>2. next \in 1..(NumSources + 1)
    BY WorkerAssumption DEF Init
  <2>3. run \in [Sources -> [started : Nat, got : SUBSET Nat, error : BOOLEAN]]
    BY <1>1 DEF Init
  <2>4. batch \subseteq Sources \X Nat /\ rejected \in BOOLEAN /\ stored \subseteq Sources \X Nat
    BY DEF Init
  <2>5. history \in [Sources -> Seq(Nat)]
    <3>1. <<>> \in Seq(Nat)
      OBVIOUS
    <3> QED BY <3>1 DEF Init
  <2>6. health \in [Sources -> Health] /\ dbHealth \in [Sources -> Health]
    BY <1>3 DEF Init
  <2>7. alerts \subseteq AlertKinds \X (0..NumSources)
    BY DEF Init
  <2>8. checkpoint \in [Sources -> [cycle : Cycles, upto : Nat]]
    BY <1>4 DEF Init
  <2>9. cycle \in Cycles /\ crashes \in 0..MaxCrashes
    BY <1>2, WorkerAssumption DEF Init
  <2> QED BY <2>1, <2>2, <2>3, <2>4, <2>5, <2>6, <2>7, <2>8, <2>9 DEF TypeOK
<1>6. ReadsASource
  BY DEF Init, ReadsASource
<1>7. WithinPublished
  BY DEF Init, WithinPublished, NoRun, NoCheckpoint
<1> QED BY <1>5, <1>6, <1>7 DEF TypeInv

\* Every step preserves the types.
LEMMA NextType ==
    ASSUME TypeInv, [Next]_vars
    PROVE  TypeInv'
<1> USE DEF TypeInv
<1>1. ASSUME NEW s \in Sources, Publish(s) PROVE TypeInv'
  <2> USE <1>1 DEF Publish, durable, volatile
  <2>1. /\ published' \in [Sources -> Nat]
        /\ \A t \in Sources : published[t] <= published'[t]
    BY DEF TypeOK
  <2>2. TypeOK'
    BY <2>1 DEF TypeOK
  <2>3. WithinPublished'
    <3>1. \A t \in Sources : 1..published[t] \subseteq 1..published'[t]
      BY <2>1 DEF TypeOK
    <3>2. \A t \in Sources : /\ run[t].started \in Nat
                             /\ checkpoint[t].upto \in Nat
                             /\ published[t] \in Nat /\ published'[t] \in Nat
      BY <2>1 DEF TypeOK
    <3>3. \A r \in batch : r[1] \in Sources
      BY DEF TypeOK
    <3> QED BY <2>1, <3>1, <3>2, <3>3 DEF WithinPublished
  <2> QED BY <2>2, <2>3 DEF ReadsASource
<1>2. ASSUME StartCycle PROVE TypeInv'
  <2> USE <1>2 DEF StartCycle, external, durable
  <2>1. cycle' \in Cycles /\ phase' \in Phases
    BY WorkerAssumption DEF TypeOK, Cycles, Phases
  <2>2. TypeOK'
    BY <2>1 DEF TypeOK
  <2> QED BY <2>2 DEF ReadsASource, WithinPublished
<1>3. ASSUME StartFetch PROVE TypeInv'
  <2> USE <1>3 DEF StartFetch, external, durable
  <2>1. run' \in [Sources -> [started : Nat, got : SUBSET Nat, error : BOOLEAN]]
    BY DEF TypeOK
  <2>2. phase' \in Phases
    BY DEF Phases
  <2>3. TypeOK'
    BY <2>1, <2>2 DEF TypeOK
  <2>4. WithinPublished'
    BY DEF WithinPublished, TypeOK
  <2> QED BY <2>3, <2>4 DEF ReadsASource
<1>4. ASSUME FinishFetch PROVE TypeInv'
  <2> USE <1>4 DEF FinishFetch, external, durable
  <2>0. next \in Sources
    BY DEF ReadsASource
  <2>1. PICK out \in FetchOutcomes(next) :
          run' = [run EXCEPT ![next].got = out.got, ![next].error = out.error]
    OBVIOUS
  <2>2. out.got \subseteq 1..published[next] /\ out.error \in BOOLEAN
    <3>1. CASE out \in Failures(next)
      <4>1. PICK got \in SUBSET (1..published[next]) : out = [got |-> got, error |-> TRUE]
        BY <3>1 DEF Failures
      <4> QED BY <4>1
    <3>2. CASE out \in Completions(next)
      <4>1. PICK extra \in SUBSET ((run[next].started + 1)..published[next]) :
              out = [got |-> (1..run[next].started) \cup extra, error |-> FALSE]
        BY <3>2 DEF Completions
      <4>2. /\ run[next].started \in Nat /\ published[next] \in Nat
            /\ run[next].started <= published[next]
        BY <2>0 DEF TypeOK, WithinPublished
      <4> QED BY <4>1, <4>2
    <3>3. CASE out = SilentZero
      BY <3>3 DEF SilentZero
    <3> QED BY <2>1, <3>1, <3>2, <3>3 DEF FetchOutcomes
  <2>3. run' \in [Sources -> [started : Nat, got : SUBSET Nat, error : BOOLEAN]]
    <3>1. out.got \in SUBSET Nat
      BY <2>0, <2>2 DEF TypeOK
    <3>2. run \in [Sources -> [started : Nat, got : SUBSET Nat, error : BOOLEAN]]
      BY DEF TypeOK
    <3> HIDE DEF FinishFetch
    <3> QED BY <2>0, <2>1, <2>2, <3>1, <3>2
  <2>4. \A s \in Sources : run'[s].got \subseteq 1..published[s]
    BY <2>0, <2>1, <2>2 DEF TypeOK, WithinPublished
  <2>5. /\ batch' \subseteq Sources \X Nat
        /\ \A r \in batch' : r[2] \in 1..published[r[1]]
    <3>1. CASE next = NumSources
      BY <3>1, <2>3, <2>4
    <3>2. CASE next # NumSources
      BY <3>2 DEF TypeOK, WithinPublished
    <3> QED BY <3>1, <3>2
  <2>6. next' \in 1..(NumSources + 1) /\ phase' \in Phases
    BY <2>0, WorkerAssumption DEF Phases, Sources
  <2>7. TypeOK'
    BY <2>3, <2>5, <2>6 DEF TypeOK
  <2>8. \A s \in Sources : run'[s].started = run[s].started
    BY <2>0, <2>1 DEF TypeOK
  <2>9. WithinPublished'
    BY <2>4, <2>5, <2>8 DEF WithinPublished
  <2>10. ReadsASource'
    BY DEF ReadsASource
  <2> QED BY <2>7, <2>9, <2>10
<1>5. ASSUME PipelineCommit PROVE TypeInv'
  <2> USE <1>5 DEF PipelineCommit, external
  <2>1. /\ batch' \subseteq batch
        /\ stored' \subseteq stored \cup batch
        /\ rejected' \in BOOLEAN
    BY DEF TypeOK
  <2>2. TypeOK'
    BY <2>1 DEF TypeOK
  <2>3. WithinPublished'
    BY <2>1 DEF WithinPublished
  <2> QED BY <2>2, <2>3 DEF ReadsASource
<1>6. ASSUME PipelineDone PROVE TypeInv'
  <2> USE <1>6 DEF PipelineDone, external, durable
  <2>1. next' \in 1..(NumSources + 1) /\ phase' \in Phases
    BY WorkerAssumption DEF Phases
  <2>2. TypeOK'
    BY <2>1 DEF TypeOK
  <2> QED BY <2>2 DEF ReadsASource, WithinPublished
<1>7. ASSUME PipelineFail PROVE TypeInv'
  <2> USE <1>7 DEF PipelineFail, external, durable
  <2>1. \A s \in Sources : Count(s) \in Nat
    BY CountType
  <2>2. history' \in [Sources -> Seq(Nat)]
    <3>1. \A s \in Sources : Remember(history[s], Count(s)) \in Seq(Nat)
      BY <2>1, RememberType DEF TypeOK
    <3> QED BY <3>1
  <2>3. health' \in [Sources -> Health]
    <3>1. \A s \in Sources : HealthAfter(health[s], Count(s), TRUE) \in Health
      BY <2>1, HealthAfterType DEF TypeOK
    <3> QED BY <3>1
  <2>4. alerts' \subseteq AlertKinds \X (0..NumSources)
    <3>1. \A s \in Sources : CanaryAlert(s, Count(s)) \subseteq AlertKinds \X (0..NumSources)
      BY WorkerAssumption DEF CanaryAlert, AlertKinds, Sources
    <3>2. <<"pipeline", 0>> \in AlertKinds \X (0..NumSources)
      BY WorkerAssumption DEF AlertKinds
    <3> QED BY <3>1, <3>2 DEF TypeOK
  <2>5. phase' \in Phases
    BY DEF Phases
  <2>6. TypeOK'
    BY <2>2, <2>3, <2>4, <2>5 DEF TypeOK
  <2> QED BY <2>6 DEF ReadsASource, WithinPublished
<1>8. ASSUME Acknowledge PROVE TypeInv'
  <2> USE <1>8 DEF Acknowledge, external
  <2>1. next \in Sources /\ Count(next) \in Nat
    BY CountType
  <2>2. PICK saved \in BOOLEAN :
          /\ checkpoint' =
               IF saved
               THEN [checkpoint EXCEPT ![next] = [cycle |-> cycle, upto |-> run[next].started]]
               ELSE checkpoint
          /\ history' = [history EXCEPT ![next] = Remember(@, Count(next))]
          /\ health' = [health EXCEPT ![next] =
                          HealthAfter(@, Count(next), RunError(next, saved))]
          /\ alerts' = alerts \cup CanaryAlert(next, Count(next))
                              \cup IncompleteAlert(next, RunError(next, saved))
    OBVIOUS
  <2>3. checkpoint' \in [Sources -> [cycle : Cycles, upto : Nat]]
    BY <2>1, <2>2 DEF TypeOK
  <2>4. history' \in [Sources -> Seq(Nat)]
    <3>1. Remember(history[next], Count(next)) \in Seq(Nat)
      BY <2>1, RememberType DEF TypeOK
    <3> QED BY <2>2, <3>1 DEF TypeOK
  <2>5. health' \in [Sources -> Health]
    <3>1. RunError(next, saved) \in BOOLEAN
      BY <2>1 DEF RunError, Incomplete, TypeOK
    <3>2. HealthAfter(health[next], Count(next), RunError(next, saved)) \in Health
      BY <2>1, <3>1, HealthAfterType DEF TypeOK
    <3> QED BY <2>2, <3>2 DEF TypeOK
  <2>6. alerts' \subseteq AlertKinds \X (0..NumSources)
    <3>1. /\ CanaryAlert(next, Count(next)) \subseteq AlertKinds \X (0..NumSources)
          /\ IncompleteAlert(next, RunError(next, saved)) \subseteq AlertKinds \X (0..NumSources)
      BY <2>1, WorkerAssumption DEF CanaryAlert, IncompleteAlert, AlertKinds, Sources
    <3> QED BY <2>2, <3>1 DEF TypeOK
  <2>7. next' \in 1..(NumSources + 1) /\ phase' \in Phases
    BY <2>1, WorkerAssumption DEF Phases, Sources
  <2>8. TypeOK'
    BY <2>3, <2>4, <2>5, <2>6, <2>7 DEF TypeOK
  <2>9. \A s \in Sources : checkpoint'[s].upto <= published[s]
    BY <2>1, <2>2 DEF TypeOK, WithinPublished
  <2> QED BY <2>8, <2>9 DEF ReadsASource, WithinPublished
<1>9. ASSUME PersistHealth PROVE TypeInv'
  <2> USE <1>9 DEF PersistHealth, external
  <2>1. dbHealth' \in [Sources -> Health]
    BY DEF TypeOK
  <2>2. phase' \in Phases
    BY DEF Phases
  <2>3. TypeOK'
    BY <2>1, <2>2 DEF TypeOK
  <2> QED BY <2>3 DEF ReadsASource, WithinPublished
<1>10. ASSUME ForgetCycle PROVE /\ run' \in [Sources -> [started : Nat, got : SUBSET Nat, error : BOOLEAN]]
                                /\ batch' \subseteq Sources \X Nat
                                /\ rejected' \in BOOLEAN
                                /\ next' \in 1..(NumSources + 1)
                                /\ phase' \in Phases
                                /\ ReadsASource'
                                /\ published' = published /\ checkpoint' = checkpoint => WithinPublished'
  <2> USE <1>10 DEF ForgetCycle
  <2>1. next' \in 1..(NumSources + 1) /\ phase' \in Phases
    BY WorkerAssumption DEF Phases
  <2>2. published' = published /\ checkpoint' = checkpoint => WithinPublished'
    BY DEF WithinPublished, NoRun, TypeOK
  <2> QED BY <2>1, <2>2 DEF NoRun, ReadsASource
<1>11. ASSUME FlushAlerts PROVE TypeInv'
  <2>1. TypeOK'
    BY <1>10, <1>11 DEF FlushAlerts, external, durable, TypeOK
  <2> QED BY <1>10, <1>11, <2>1 DEF FlushAlerts, external, durable
<1>12. ASSUME Crash PROVE TypeInv'
  <2> USE <1>12 DEF Crash, external, durable
  <2>1. history' \in [Sources -> Seq(Nat)]
    <3>1. <<>> \in Seq(Nat)
      OBVIOUS
    <3> QED BY <3>1
  <2>2. health' \in [Sources -> Health]
    BY WorkerAssumption DEF NoHealth, Health, Cycles
  <2>3. crashes' \in 0..MaxCrashes
    BY WorkerAssumption DEF TypeOK
  <2>4. TypeOK'
    BY <1>10, <2>1, <2>2, <2>3 DEF TypeOK
  <2> QED BY <1>10, <2>4
<1>13. CASE UNCHANGED vars
  BY <1>13 DEF vars, external, durable, volatile, TypeOK, ReadsASource, WithinPublished
<1> QED BY <1>1, <1>2, <1>3, <1>4, <1>5, <1>6, <1>7, <1>8, <1>9, <1>11, <1>12, <1>13
        DEF Next, Worker

\* Type correctness: every variable keeps its type, and no number the worker
\* keeps of a source runs ahead of the source.
THEOREM TypeCorrect == Spec => []TypeInv
<1>1. TypeInv /\ [Next]_vars => TypeInv'
  BY NextType
<1> QED BY <1>1, InitType, PTL DEF Spec

\* The type invariant the runs check, for any number of sources, any history size
\* and any bounds.
THEOREM TypesHold == Spec => []TypeOK
<1>1. TypeInv => TypeOK
  BY DEF TypeInv
<1> QED BY <1>1, TypeCorrect, PTL

-----------------------------------------------------------------------------
(* The completion file is sound.  CheckpointCovered is not inductive: that *)
(* a checkpoint may be saved follows from what happened to its rows since  *)
(* they were read, through the fetch loop, the batch and the event store.  *)

\* The fetch of s in this cycle is over and its result is still known.
Fetched(s) == phase \in {"pipeline", "ack"} \/ (phase \in {"fetching", "reading"} /\ s < next)

\* A fetch without an error read everything listed when it began.
CleanFetchComplete ==
    \A s \in Checkpointing :
        Fetched(s) /\ ~run[s].error => 1..run[s].started \subseteq run[s].got

\* While nothing has been rejected, what was read is durable or still to come.
NothingDropped ==
    phase = "pipeline" /\ ~rejected =>
        \A s \in Sources : \A r \in run[s].got : <<s, r>> \in stored \cup batch

\* If nothing was rejected, all that was read is durable once sources are acknowledged.
ReadIsStored ==
    phase = "ack" /\ ~rejected =>
        \A s \in Sources : \A r \in run[s].got : <<s, r>> \in stored

\* A cycle starts with the first source.
IdleIsFresh == phase = "idle" => next = 1

CoverInv ==
    CleanFetchComplete /\ NothingDropped /\ ReadIsStored /\ IdleIsFresh /\ CheckpointCovered

LEMMA CoverInit == Init => CoverInv
<1> SUFFICES ASSUME Init PROVE CoverInv
  OBVIOUS
<1>1. CleanFetchComplete
  BY WorkerAssumption DEF Init, CleanFetchComplete, Fetched, Sources
<1>2. NothingDropped /\ ReadIsStored /\ IdleIsFresh
  BY DEF Init, NothingDropped, ReadIsStored, IdleIsFresh
<1>3. CheckpointCovered
  BY DEF Init, NoCheckpoint, CheckpointCovered
<1> QED BY <1>1, <1>2, <1>3 DEF CoverInv

\* What a clean fetch of a checkpointing source returns.
LEMMA CleanOutcome ==
    ASSUME NEW s \in Checkpointing, NEW out \in FetchOutcomes(s), ~out.error
    PROVE  1..run[s].started \subseteq out.got
<1>1. CASE out \in Failures(s)
  <2>1. PICK got \in SUBSET (1..published[s]) : out = [got |-> got, error |-> TRUE]
    BY <1>1 DEF Failures
  <2> QED BY <2>1
<1>2. CASE out \in Completions(s)
  <2>1. PICK extra \in SUBSET ((run[s].started + 1)..published[s]) :
          out = [got |-> (1..run[s].started) \cup extra, error |-> FALSE]
    BY <1>2 DEF Completions
  <2> QED BY <2>1
<1> QED BY <1>1, <1>2 DEF FetchOutcomes

\* Every step preserves the conjuncts.
LEMMA CoverNext ==
    ASSUME TypeInv, CoverInv, [Next]_vars
    PROVE  CoverInv'
<1> USE DEF CoverInv
<1>0. Checkpointing \subseteq Sources /\ NumSources \in Nat \ {0}
  BY WorkerAssumption
<1>1. ASSUME NEW s \in Sources, Publish(s) PROVE CoverInv'
  BY <1>1 DEF Publish, durable, volatile, CleanFetchComplete, Fetched, NothingDropped,
              ReadIsStored, IdleIsFresh, CheckpointCovered
<1>2. ASSUME StartCycle PROVE CoverInv'
  BY <1>0, <1>2 DEF StartCycle, durable, CleanFetchComplete, Fetched, NothingDropped,
                    ReadIsStored, IdleIsFresh, CheckpointCovered, Sources
<1>3. ASSUME StartFetch PROVE CoverInv'
  <2> USE <1>3 DEF StartFetch, durable
  <2>1. \A s \in Sources : Fetched(s)' => Fetched(s) /\ run'[s] = run[s]
    BY DEF Fetched, Sources, TypeInv, TypeOK
  <2>2. CleanFetchComplete'
    BY <1>0, <2>1 DEF CleanFetchComplete
  <2> QED BY <2>2 DEF NothingDropped, ReadIsStored, IdleIsFresh, CheckpointCovered
<1>4. ASSUME FinishFetch PROVE CoverInv'
  <2> USE <1>4 DEF FinishFetch, durable
  <2>1. next \in Sources
    BY DEF TypeInv, ReadsASource
  <2>2. PICK out \in FetchOutcomes(next) :
          run' = [run EXCEPT ![next].got = out.got, ![next].error = out.error]
    OBVIOUS
  <2>3. ASSUME NEW s \in Checkpointing, Fetched(s)', ~run'[s].error
        PROVE  1..run'[s].started \subseteq run'[s].got
    <3>1. CASE s = next
      <4>1. /\ run'[s].got = out.got /\ run'[s].error = out.error
            /\ run'[s].started = run[s].started
        BY <1>0, <2>1, <2>2, <3>1 DEF TypeInv, TypeOK
      <4>2. 1..run[s].started \subseteq out.got
        BY <2>3, <3>1, <4>1, CleanOutcome
      <4> QED BY <4>1, <4>2
    <3>2. CASE s # next
      <4>1. run'[s] = run[s]
        BY <1>0, <2>1, <2>2, <3>2 DEF TypeInv, TypeOK
      <4>2. Fetched(s)
        BY <1>0, <2>1, <2>3, <3>2 DEF Fetched, Sources
      <4> QED BY <1>0, <2>3, <4>1, <4>2 DEF CleanFetchComplete
    <3> QED BY <3>1, <3>2
  <2>4. NothingDropped'
    BY DEF NothingDropped
  <2> QED BY <2>3, <2>4 DEF CleanFetchComplete, ReadIsStored, IdleIsFresh, CheckpointCovered
<1>5. ASSUME PipelineCommit PROVE CoverInv'
  <2> USE <1>5 DEF PipelineCommit
  <2>1. PICK chunk \in SUBSET batch, bad \in SUBSET batch :
          /\ bad \subseteq chunk
          /\ stored' = stored \cup (chunk \ bad)
          /\ batch' = batch \ chunk
          /\ rejected' = (rejected \/ bad # {})
    OBVIOUS
  <2>2. NothingDropped'
    BY <2>1 DEF NothingDropped
  <2>3. CheckpointCovered'
    BY <2>1 DEF CheckpointCovered
  <2> QED BY <2>2, <2>3 DEF CleanFetchComplete, Fetched, ReadIsStored, IdleIsFresh
<1>6. ASSUME PipelineDone PROVE CoverInv'
  BY <1>6 DEF PipelineDone, durable, CleanFetchComplete, Fetched, NothingDropped,
              ReadIsStored, IdleIsFresh, CheckpointCovered
<1>7. ASSUME PipelineFail PROVE CoverInv'
  BY <1>7 DEF PipelineFail, durable, CleanFetchComplete, Fetched, NothingDropped,
              ReadIsStored, IdleIsFresh, CheckpointCovered
<1>8. ASSUME Acknowledge PROVE CoverInv'
  <2> USE <1>8 DEF Acknowledge
  <2>1. PICK saved \in BOOLEAN :
          /\ saved => next \in Checkpointing /\ ~Incomplete(next)
          /\ checkpoint' =
               IF saved
               THEN [checkpoint EXCEPT ![next] = [cycle |-> cycle, upto |-> run[next].started]]
               ELSE checkpoint
    OBVIOUS
  <2>2. CheckpointCovered'
    <3>1. CASE ~saved
      BY <2>1, <3>1 DEF CheckpointCovered
    <3>2. CASE saved
      <4>1. next \in Checkpointing /\ ~run[next].error /\ ~rejected
        BY <2>1, <3>2 DEF Incomplete
      <4>2. 1..run[next].started \subseteq run[next].got
        BY <4>1 DEF CleanFetchComplete, Fetched
      <4>3. \A r \in 1..run[next].started : <<next, r>> \in stored
        BY <4>1, <4>2 DEF ReadIsStored
      <4>4. checkpoint' =
              [checkpoint EXCEPT ![next] = [cycle |-> cycle, upto |-> run[next].started]]
        BY <2>1, <3>2
      <4>5. \A s \in Sources : checkpoint'[s].upto =
              IF s = next THEN run[next].started ELSE checkpoint[s].upto
        BY <4>4 DEF TypeInv, TypeOK
      <4> QED BY <4>3, <4>5 DEF CheckpointCovered
    <3> QED BY <3>1, <3>2
  <2>3. CleanFetchComplete' /\ NothingDropped' /\ ReadIsStored' /\ IdleIsFresh'
    BY DEF CleanFetchComplete, Fetched, NothingDropped, ReadIsStored, IdleIsFresh
  <2> QED BY <2>2, <2>3
<1>9. ASSUME PersistHealth PROVE CoverInv'
  BY <1>9 DEF PersistHealth, CleanFetchComplete, Fetched, NothingDropped,
              ReadIsStored, IdleIsFresh, CheckpointCovered
<1>10. ASSUME ForgetCycle, UNCHANGED durable PROVE CoverInv'
  <2>1. CleanFetchComplete'
    BY <1>0, <1>10 DEF ForgetCycle, CleanFetchComplete, Fetched, Sources
  <2> QED BY <1>10, <2>1 DEF ForgetCycle, durable, NothingDropped, ReadIsStored,
                             IdleIsFresh, CheckpointCovered
<1>11. ASSUME FlushAlerts PROVE CoverInv'
  BY <1>10, <1>11 DEF FlushAlerts, durable
<1>12. ASSUME Crash PROVE CoverInv'
  BY <1>10, <1>12 DEF Crash, durable
<1>13. CASE UNCHANGED vars
  BY <1>13 DEF vars, durable, volatile, CleanFetchComplete, Fetched, NothingDropped,
               ReadIsStored, IdleIsFresh, CheckpointCovered
<1> QED BY <1>1, <1>2, <1>3, <1>4, <1>5, <1>6, <1>7, <1>8, <1>9, <1>11, <1>12, <1>13
        DEF Next, Worker

\* The completion file never claims more than the event store holds, however many
\* sources there are and however fetches, chunks, failures and crashes interleave.
THEOREM CheckpointSound == Spec => []CheckpointCovered
<1>1. TypeInv /\ CoverInv /\ [Next]_vars => CoverInv'
  BY CoverNext
<1>2. CoverInv => CheckpointCovered
  BY DEF CoverInv
<1> QED BY <1>1, <1>2, CoverInit, TypeCorrect, PTL DEF Spec

-----------------------------------------------------------------------------
(* The worker implements DurableSync: its durable state moves as that      *)
(* specification allows, and no other way.                                 *)

\* A fetch in progress began no earlier than the saved checkpoint.
NotOlder ==
    \A s \in Sources :
        Fetched(s) \/ (phase = "reading" /\ s = next) => checkpoint[s].upto <= run[s].started

LEMMA NotOlderInit == Init => NotOlder
  BY DEF Init, NotOlder, NoRun, NoCheckpoint

LEMMA NotOlderNext ==
    ASSUME TypeInv, IdleIsFresh, NotOlder, [Next]_vars
    PROVE  NotOlder'
<1>1. ASSUME NEW s \in Sources, Publish(s) PROVE NotOlder'
  BY <1>1 DEF Publish, durable, volatile, NotOlder, Fetched
<1>2. ASSUME StartCycle PROVE NotOlder'
  BY <1>2 DEF StartCycle, durable, NotOlder, Fetched, IdleIsFresh, Sources
<1>3. ASSUME StartFetch PROVE NotOlder'
  <2> USE <1>3 DEF StartFetch, durable
  <2>1. run'[next].started = published[next]
    BY DEF TypeInv, TypeOK
  <2>2. checkpoint[next].upto <= published[next]
    BY DEF TypeInv, WithinPublished
  <2>3. \A s \in Sources : s # next => run'[s] = run[s]
    BY DEF TypeInv, TypeOK
  <2> QED BY <2>1, <2>2, <2>3 DEF NotOlder, Fetched
<1>4. ASSUME FinishFetch PROVE NotOlder'
  <2> USE <1>4 DEF FinishFetch, durable
  <2>1. next \in Sources
    BY DEF TypeInv, ReadsASource
  <2>2. \A s \in Sources : run'[s].started = run[s].started
    BY <2>1 DEF TypeInv, TypeOK
  <2>3. \A s \in Sources : Fetched(s)' => Fetched(s) \/ s = next
    BY <2>1, WorkerAssumption DEF Fetched, Sources
  <2>4. phase' # "reading"
    OBVIOUS
  <2> QED BY <2>2, <2>3, <2>4 DEF NotOlder
<1>5. ASSUME PipelineCommit PROVE NotOlder'
  BY <1>5 DEF PipelineCommit, NotOlder, Fetched
<1>6. ASSUME PipelineDone PROVE NotOlder'
  BY <1>6 DEF PipelineDone, durable, NotOlder, Fetched
<1>7. ASSUME PipelineFail PROVE NotOlder'
  BY <1>7 DEF PipelineFail, durable, NotOlder, Fetched
<1>8. ASSUME Acknowledge PROVE NotOlder'
  <2> USE <1>8 DEF Acknowledge
  <2>1. \A s \in Sources : run'[s] = run[s]
    OBVIOUS
  <2>2. \A s \in Sources : checkpoint'[s].upto \in {checkpoint[s].upto, run[s].started}
    BY DEF TypeInv, TypeOK
  <2>3. \A s \in Sources : run[s].started \in Nat
    BY DEF TypeInv, TypeOK
  <2>4. \A s \in Sources : Fetched(s) /\ phase' # "reading"
    BY DEF Fetched
  <2> QED BY <2>1, <2>2, <2>3, <2>4 DEF NotOlder
<1>9. ASSUME PersistHealth PROVE NotOlder'
  BY <1>9 DEF PersistHealth, NotOlder, Fetched
<1>10. ASSUME FlushAlerts PROVE NotOlder'
  BY <1>10 DEF FlushAlerts, ForgetCycle, NotOlder, Fetched
<1>11. ASSUME Crash PROVE NotOlder'
  BY <1>11 DEF Crash, ForgetCycle, NotOlder, Fetched
<1>12. CASE UNCHANGED vars
  BY <1>12 DEF vars, durable, volatile, NotOlder, Fetched
<1> QED BY <1>1, <1>2, <1>3, <1>4, <1>5, <1>6, <1>7, <1>8, <1>9, <1>10, <1>11, <1>12
        DEF Next, Worker

LEMMA SyncInit == Init => Sync!Init
  BY DEF Init, Sync!Init, NoCheckpoint

\* Each step of the worker is a step of the promise or changes none of its state.
LEMMA SyncStep ==
    ASSUME TypeInv, CoverInv, NotOlder, [Next]_vars
    PROVE  [Sync!Next]_(Sync!vars)
<1>1. ASSUME NEW s \in Sources, Publish(s) PROVE Sync!Next
  BY <1>1 DEF Publish, durable, Sync!Next, Sync!Publish
<1>2. ASSUME PipelineCommit PROVE Sync!Next
  <2> USE <1>2 DEF PipelineCommit, external
  <2>1. stored \subseteq stored' /\ stored' \ stored \subseteq batch
    OBVIOUS
  <2>2. \A row \in stored' \ stored : row[2] \in 1..published[row[1]]
    BY <2>1 DEF TypeInv, WithinPublished
  <2> QED BY <2>1, <2>2 DEF Sync!Next, Sync!Store
<1>3. ASSUME Acknowledge PROVE Sync!Next \/ UNCHANGED Sync!vars
  <2> USE <1>3 DEF Acknowledge, external
  <2>1. PICK saved \in BOOLEAN :
          /\ saved => next \in Checkpointing /\ ~Incomplete(next)
          /\ checkpoint' =
               IF saved
               THEN [checkpoint EXCEPT ![next] = [cycle |-> cycle, upto |-> run[next].started]]
               ELSE checkpoint
    OBVIOUS
  <2>2. CASE ~saved
    BY <2>1, <2>2 DEF Sync!vars
  <2>3. CASE saved
    <3> DEFINE upto == run[next].started
    <3>1. next \in Checkpointing /\ ~run[next].error /\ ~rejected
      BY <2>1, <2>3 DEF Incomplete
    <3>2. \A r \in 1..upto : <<next, r>> \in stored
      BY <3>1 DEF CoverInv, CleanFetchComplete, Fetched, ReadIsStored
    <3>3. upto \in 0..published[next]
      BY DEF TypeInv, TypeOK, WithinPublished
    <3>4. checkpoint[next].upto <= upto
      BY DEF NotOlder, Fetched
    <3>5. checkpoint' =
            [checkpoint EXCEPT ![next] = [cycle |-> cycle, upto |-> upto]]
      BY <2>1, <2>3
    <3>6. [s \in Sources |-> checkpoint'[s].upto] =
            [[s \in Sources |-> checkpoint[s].upto] EXCEPT ![next] = upto]
      BY <3>5 DEF TypeInv, TypeOK
    <3>7. \E s \in Sources : Sync!Advance(s)
      BY <3>2, <3>3, <3>4, <3>6 DEF Sync!Advance
    <3> QED BY <3>7 DEF Sync!Next
  <2> QED BY <2>2, <2>3
<1>4. ASSUME StartCycle \/ StartFetch \/ FinishFetch \/ PipelineDone \/ PipelineFail
               \/ PersistHealth \/ FlushAlerts \/ Crash
      PROVE  UNCHANGED Sync!vars
  BY <1>4 DEF StartCycle, StartFetch, FinishFetch, PipelineDone, PipelineFail,
              PersistHealth, FlushAlerts, Crash, external, durable, Sync!vars
<1>5. CASE UNCHANGED vars
  BY <1>5 DEF vars, external, durable, Sync!vars
<1> QED BY <1>1, <1>2, <1>3, <1>4, <1>5 DEF Next, Worker

\* The worker implements DurableSync: nothing becomes durable that was not
\* published, no row is lost, and a checkpoint only moves forward, over durable rows.
THEOREM WorkerImplementsSync == Spec => SyncSpec
<1>1. TypeInv /\ CoverInv /\ [Next]_vars => CoverInv'
  BY CoverNext
<1>2. TypeInv /\ CoverInv /\ NotOlder /\ [Next]_vars => NotOlder'
  BY NotOlderNext DEF CoverInv
<1>3. TypeInv /\ CoverInv /\ NotOlder /\ [Next]_vars => [Sync!Next]_(Sync!vars)
  BY SyncStep
<1> QED BY <1>1, <1>2, <1>3, TypeCorrect, CoverInit, NotOlderInit, SyncInit, PTL
        DEF Spec, SyncSpec, Sync!Spec

-----------------------------------------------------------------------------
(* The health of a source, in the process and in the table, and its checkpoint. *)

\* What a step does to the health and the history of the sources: nothing, one
\* turn of the acknowledging loop, a failed pipeline or a crash.
LEMMA HealthSteps ==
    ASSUME TypeInv, [Next]_vars
    PROVE  \/ health' = health /\ history' = history
           \/ Acknowledge
           \/ PipelineFail
           \/ health' = [s \in Sources |-> NoHealth] /\ history' = [s \in Sources |-> <<>>]
<1>1. CASE UNCHANGED vars
  BY <1>1 DEF vars, volatile
<1>2. ASSUME NEW s \in Sources, Publish(s) PROVE health' = health /\ history' = history
  BY <1>2 DEF Publish, volatile
<1>3. CASE Crash
  BY <1>3 DEF Crash
<1>4. CASE StartCycle \/ StartFetch \/ FinishFetch
  BY <1>4 DEF StartCycle, StartFetch, FinishFetch
<1>5. CASE PipelineCommit \/ PipelineDone
  BY <1>5 DEF PipelineCommit, PipelineDone
<1>6. CASE PersistHealth \/ FlushAlerts
  BY <1>6 DEF PersistHealth, FlushAlerts
<1> QED BY <1>1, <1>2, <1>3, <1>4, <1>5, <1>6 DEF Next, Worker

\* Checkpoints come from cycles that have begun, and whoever is healthy, in the
\* process or in the table, has its checkpoint from that run or a later one.
Backed(s, h) == h.status = "healthy" => checkpoint[s].cycle >= h.lastRun

BackedInv ==
    /\ \A s \in Sources : checkpoint[s].cycle <= cycle
    /\ \A s \in Checkpointing : Backed(s, health[s])
    /\ HealthyMeansCheckpointed

LEMMA BackedInit == Init => BackedInv
<1> SUFFICES ASSUME Init PROVE BackedInv
  OBVIOUS
<1>1. \A s \in Sources : checkpoint[s].cycle = 0 /\ health[s].status = "unknown"
                        /\ dbHealth[s].status = "unknown"
  BY DEF Init, NoCheckpoint, NoHealth
<1> QED BY <1>1, WorkerAssumption DEF Init, BackedInv, Backed, HealthyMeansCheckpointed

\* Only an acknowledgement moves a checkpoint, to the cycle it belongs to.
LEMMA BackedNext ==
    ASSUME TypeInv, BackedInv, [Next]_vars
    PROVE  BackedInv'
<1>0. /\ Checkpointing \subseteq Sources
      /\ cycle \in Nat /\ \A s \in Sources : checkpoint[s].cycle \in Nat
      /\ \A s \in Sources : health[s].lastRun \in Nat /\ dbHealth[s].lastRun \in Nat
  BY WorkerAssumption DEF TypeInv, TypeOK, Cycles, Health
<1>1. CASE Acknowledge
  <2>1. PICK saved \in BOOLEAN :
           /\ checkpoint' = IF saved
                THEN [checkpoint EXCEPT ![next] = [cycle |-> cycle, upto |-> run[next].started]]
                ELSE checkpoint
           /\ health' = [health EXCEPT ![next] =
                           HealthAfter(@, Count(next), RunError(next, saved))]
    BY <1>1 DEF Acknowledge
  <2>2. next \in Sources /\ dbHealth' = dbHealth /\ cycle' = cycle
    BY <1>1 DEF Acknowledge
  <2>3. /\ \A s \in Sources : s # next => /\ checkpoint'[s] = checkpoint[s]
                                         /\ health'[s] = health[s]
        /\ checkpoint'[next].cycle = IF saved THEN cycle ELSE checkpoint[next].cycle
        /\ health'[next] = HealthAfter(health[next], Count(next), RunError(next, saved))
    BY <2>1, <2>2 DEF TypeInv, TypeOK
  <2>4. checkpoint[next].cycle <= cycle
    BY <2>2 DEF BackedInv
  <2>5. health'[next].lastRun = cycle
    BY <2>3 DEF HealthAfter
  <2>6. next \in Checkpointing /\ health'[next].status = "healthy" => saved
    BY <2>3 DEF HealthAfter, Status, RunError
  <2>7. \A s \in Sources : checkpoint'[s].cycle <= cycle'
    BY <2>2, <2>3, <2>4, <1>0 DEF BackedInv
  <2>8. \A s \in Checkpointing : Backed(s, health[s])'
    <3>1. ASSUME NEW s \in Checkpointing, s = next PROVE Backed(s, health[s])'
      BY <3>1, <2>3, <2>5, <2>6, <1>0 DEF Backed
    <3>2. ASSUME NEW s \in Checkpointing, s # next PROVE Backed(s, health[s])'
      BY <3>2, <2>3, <1>0 DEF BackedInv, Backed
    <3> QED BY <3>1, <3>2
  <2>9. \A s \in Sources : checkpoint'[s].cycle >= checkpoint[s].cycle
    BY <2>2, <2>3, <2>4, <1>0
  <2>10. \A s \in Sources : checkpoint'[s].cycle \in Nat
    BY <2>2, <2>3, <1>0
  <2>11. HealthyMeansCheckpointed'
    <3>1. ASSUME NEW s \in Checkpointing, dbHealth[s].status = "healthy"
          PROVE  checkpoint'[s].cycle >= dbHealth[s].lastRun
      <4>1. checkpoint[s].cycle >= dbHealth[s].lastRun
        BY <3>1 DEF BackedInv, HealthyMeansCheckpointed
      <4> QED BY <4>1, <2>9, <2>10, <1>0
    <3> QED BY <3>1, <2>2 DEF HealthyMeansCheckpointed
  <2> QED BY <2>7, <2>8, <2>11 DEF BackedInv
<1>2. CASE PersistHealth
  <2>1. /\ checkpoint' = checkpoint /\ cycle' = cycle /\ health' = health
        /\ \A s \in Sources : dbHealth'[s] \in {dbHealth[s], health[s]}
    BY <1>2 DEF PersistHealth, TypeInv, TypeOK
  <2>2. HealthyMeansCheckpointed'
    BY <2>1, <1>0 DEF BackedInv, Backed, HealthyMeansCheckpointed
  <2> QED BY <2>1, <2>2 DEF BackedInv, Backed
<1>3. CASE ~Acknowledge /\ ~PersistHealth
  <2>1. checkpoint' = checkpoint /\ dbHealth' = dbHealth /\ cycle' \in {cycle, cycle + 1}
    <3>1. CASE UNCHANGED vars
      BY <3>1 DEF vars, durable
    <3>2. ASSUME NEW s \in Sources, Publish(s)
          PROVE  checkpoint' = checkpoint /\ dbHealth' = dbHealth /\ cycle' = cycle
      BY <3>2 DEF Publish, durable
    <3>3. CASE Crash \/ StartCycle \/ StartFetch \/ FinishFetch
      BY <3>3 DEF Crash, StartCycle, StartFetch, FinishFetch, durable
    <3>4. CASE PipelineCommit \/ PipelineDone \/ PipelineFail \/ FlushAlerts
      BY <3>4 DEF PipelineCommit, PipelineDone, PipelineFail, FlushAlerts, durable
    <3> QED BY <1>3, <3>1, <3>2, <3>3, <3>4 DEF Next, Worker
  <2>2. \A s \in Sources : health'[s].status = "healthy" => health'[s] = health[s]
    <3>1. CASE PipelineFail
      BY <3>1 DEF PipelineFail, HealthAfter, Status
    <3>2. CASE health' = [s \in Sources |-> NoHealth]
      BY <3>2 DEF NoHealth
    <3>3. CASE health' = health
      BY <3>3
    <3> QED BY <1>3, <3>1, <3>2, <3>3, HealthSteps
  <2>3. \A s \in Sources : checkpoint'[s].cycle <= cycle'
    BY <2>1, <1>0 DEF BackedInv
  <2>4. HealthyMeansCheckpointed'
    BY <2>1 DEF BackedInv, HealthyMeansCheckpointed
  <2>5. \A s \in Checkpointing : Backed(s, health[s])'
    BY <2>1, <2>2, <1>0 DEF BackedInv, Backed
  <2> QED BY <2>3, <2>4, <2>5 DEF BackedInv
<1> QED BY <1>1, <1>2, <1>3

\* The table calls a source healthy only if its checkpoint is from that run or a
\* later one, however saves, failures of the table and crashes interleave.
THEOREM HealthyIsBacked == Spec => []HealthyMeansCheckpointed
<1>1. TypeInv /\ BackedInv /\ [Next]_vars => BackedInv'
  BY BackedNext
<1>2. BackedInv => HealthyMeansCheckpointed
  BY DEF BackedInv
<1> QED BY <1>1, <1>2, BackedInit, TypeCorrect, PTL DEF Spec

-----------------------------------------------------------------------------
(* The counter of zeros and the history, source by source. *)

\* The last z counts are zeros, and the one before them is not.
InStep(counts, z) ==
    LET n == Len(counts)
    IN  /\ \A i \in 1..n : i > n - z => counts[i] = 0
        /\ z < n => counts[n - z] # 0

\* One more count keeps the two in step, whether or not the history was full.
LEMMA RememberInStep ==
    ASSUME NEW counts \in Seq(Nat), NEW z \in Nat, NEW count \in Nat, InStep(counts, z)
    PROVE  InStep(Remember(counts, count), IF count = 0 THEN z + 1 ELSE 0)
<1> DEFINE new == Remember(counts, count)
           n   == Len(counts)
           m   == Len(new)
           y   == IF count = 0 THEN z + 1 ELSE 0
<1>0. n \in Nat
  OBVIOUS
<1>1. CASE n < HistorySize
  <2>1. new = Append(counts, count)
    BY <1>1 DEF Remember
  <2>2. m = n + 1 /\ new[m] = count /\ \A i \in 1..n : new[i] = counts[i]
    BY <2>1
  <2> HIDE DEF new
  <2>3. \A i \in 1..m : i > m - y => new[i] = 0
    <3>1. ASSUME NEW i \in 1..m, i > m - y PROVE new[i] = 0
      <4>1. count = 0
        BY <3>1, <2>2, <1>0
      <4>2. CASE i = m
        BY <4>1, <4>2, <2>2
      <4>3. CASE i # m
        <5>1. i \in 1..n /\ i > n - z
          BY <3>1, <4>1, <4>3, <2>2, <1>0
        <5> QED BY <5>1, <2>2 DEF InStep
      <4> QED BY <4>2, <4>3
    <3> QED BY <3>1
  <2>4. y < m => new[m - y] # 0
    <3>1. CASE count # 0
      BY <3>1, <2>2
    <3>2. CASE count = 0 /\ y < m
      <4>1. z < n /\ m - y = n - z /\ n - z \in 1..n
        BY <3>2, <2>2, <1>0
      <4> QED BY <4>1, <2>2 DEF InStep
    <3> QED BY <3>1, <3>2
  <2> QED BY <2>3, <2>4 DEF InStep, new
<1>2. CASE ~(n < HistorySize)
  <2>1. new = Append(Tail(counts), count)
    BY <1>2 DEF Remember
  <2>2. n \in Nat \ {0} /\ counts # <<>>
    BY <1>2, <1>0, WorkerAssumption
  <2>3. /\ Tail(counts) \in Seq(Nat) /\ Len(Tail(counts)) = n - 1
        /\ \A i \in 1..(n - 1) : Tail(counts)[i] = counts[i + 1]
    BY <2>2
  <2>4. m = n /\ new[n] = count /\ \A i \in 1..(n - 1) : new[i] = counts[i + 1]
    BY <2>1, <2>2, <2>3
  <2> HIDE DEF new
  <2>5. \A i \in 1..m : i > m - y => new[i] = 0
    <3>1. ASSUME NEW i \in 1..m, i > m - y PROVE new[i] = 0
      <4>1. count = 0
        BY <3>1, <2>4, <1>0
      <4>2. CASE i = n
        BY <4>1, <4>2, <2>4
      <4>3. CASE i # n
        <5>1. i \in 1..(n - 1) /\ i + 1 \in 1..n /\ i + 1 > n - z
          BY <3>1, <4>1, <4>3, <2>4, <1>0
        <5> QED BY <5>1, <2>4 DEF InStep
      <4> QED BY <4>2, <4>3
    <3> QED BY <3>1
  <2>6. y < m => new[m - y] # 0
    <3>1. CASE count # 0
      BY <3>1, <2>4
    <3>2. CASE count = 0 /\ y < m
      <4>1. z < n /\ m - y \in 1..(n - 1) /\ (m - y) + 1 = n - z
        BY <3>2, <2>4, <1>0
      <4>2. new[m - y] = counts[n - z]
        BY <4>1, <2>4
      <4> QED BY <4>1, <4>2 DEF InStep
    <3> QED BY <3>1, <3>2
  <2> QED BY <2>5, <2>6 DEF InStep, new
<1> QED BY <1>1, <1>2

LEMMA ZerosInit == Init => ZerosMatchHistory
  BY DEF Init, NoHealth, ZerosMatchHistory

LEMMA ZerosNext ==
    ASSUME TypeInv, ZerosMatchHistory, [Next]_vars
    PROVE  ZerosMatchHistory'
<1>0. \A s \in Sources : /\ history[s] \in Seq(Nat) /\ health[s].zeros \in Nat
                        /\ Count(s) \in Nat /\ InStep(history[s], health[s].zeros)
  BY CountType DEF TypeInv, TypeOK, Health, ZerosMatchHistory, InStep
<1>1. ASSUME NEW s \in Sources, NEW e \in BOOLEAN
      PROVE  InStep(Remember(history[s], Count(s)),
                    HealthAfter(health[s], Count(s), e).zeros)
  <2>1. HealthAfter(health[s], Count(s), e).zeros =
           IF Count(s) = 0 THEN health[s].zeros + 1 ELSE 0
    BY DEF HealthAfter, Zeros
  <2> QED BY <2>1, <1>0, RememberInStep
<1>2. CASE health' = health /\ history' = history
  BY <1>2 DEF ZerosMatchHistory
<1>3. CASE Acknowledge
  <2>1. PICK saved \in BOOLEAN :
           /\ history' = [history EXCEPT ![next] = Remember(@, Count(next))]
           /\ health' = [health EXCEPT ![next] =
                           HealthAfter(@, Count(next), RunError(next, saved))]
    BY <1>3 DEF Acknowledge
  <2>2. next \in Sources
    BY <1>3 DEF Acknowledge
  <2>3. RunError(next, saved) \in BOOLEAN
    BY <2>2 DEF RunError, Incomplete, TypeInv, TypeOK
  <2>4. /\ history'[next] = Remember(history[next], Count(next))
        /\ health'[next] = HealthAfter(health[next], Count(next), RunError(next, saved))
        /\ \A s \in Sources : s # next => history'[s] = history[s] /\ health'[s] = health[s]
    BY <2>1, <2>2 DEF TypeInv, TypeOK
  <2>5. \A s \in Sources : InStep(history'[s], health'[s].zeros)
    BY <2>2, <2>3, <2>4, <1>0, <1>1
  <2> QED BY <2>5 DEF ZerosMatchHistory, InStep
<1>4. CASE PipelineFail
  <2>1. \A s \in Sources : /\ history'[s] = Remember(history[s], Count(s))
                          /\ health'[s] = HealthAfter(health[s], Count(s), TRUE)
    BY <1>4 DEF PipelineFail
  <2>2. \A s \in Sources : InStep(history'[s], health'[s].zeros)
    BY <2>1, <1>1
  <2> QED BY <2>2 DEF ZerosMatchHistory, InStep
<1>5. CASE /\ health' = [s \in Sources |-> NoHealth]
           /\ history' = [s \in Sources |-> <<>>]
  BY <1>5 DEF ZerosMatchHistory, NoHealth
<1> QED BY <1>2, <1>3, <1>4, <1>5, HealthSteps

\* The counter of zeros and the canary history tell the same story on both ways
\* out of the pipeline and after a restart, for a history of any size.
THEOREM ZerosAreHistory == Spec => []ZerosMatchHistory
<1>1. TypeInv /\ ZerosMatchHistory /\ [Next]_vars => ZerosMatchHistory'
  BY ZerosNext
<1> QED BY <1>1, ZerosInit, TypeCorrect, PTL DEF Spec

-----------------------------------------------------------------------------
(* No failure goes unannounced. *)

Announced(s) ==
    health[s].status = "failing" =>
        \/ <<"pipeline", 0>> \in alerts
        \/ <<"incomplete", s>> \in alerts
        \/ health[s].zeros > 1 /\ ~run[s].error /\ run[s].got = {}

\* While sources are acknowledged, those passed are announced; then all are.
AnnouncedInv ==
    /\ phase = "ack" => \A s \in Sources : s < next => Announced(s)
    /\ phase \in {"persist", "flush"} => \A s \in Sources : Announced(s)

LEMMA AnnouncedNext ==
    ASSUME TypeInv, AnnouncedInv, [Next]_vars
    PROVE  AnnouncedInv'
<1>1. CASE Acknowledge
  <2>1. PICK saved \in BOOLEAN :
           /\ health' = [health EXCEPT ![next] =
                           HealthAfter(@, Count(next), RunError(next, saved))]
           /\ alerts' = alerts \cup CanaryAlert(next, Count(next))
                               \cup IncompleteAlert(next, RunError(next, saved))
    BY <1>1 DEF Acknowledge
  <2>2. /\ next \in Sources /\ run' = run /\ phase = "ack" /\ next' = next + 1
        /\ phase' = IF next = NumSources THEN "persist" ELSE "ack"
    BY <1>1 DEF Acknowledge
  <2>3. \A s \in Sources : s < next => Announced(s)'
    <3>1. ASSUME NEW s \in Sources, s < next PROVE Announced(s)'
      <4>1. Announced(s) /\ health'[s] = health[s] /\ alerts \subseteq alerts'
        BY <3>1, <2>1, <2>2 DEF AnnouncedInv, TypeInv, TypeOK, Sources
      <4> QED BY <4>1, <2>2 DEF Announced
    <3> QED BY <3>1
  <2>4. ASSUME NEW s \in Sources, s = next PROVE Announced(s)'
    <3>1. health'[s] = HealthAfter(health[s], Count(s), RunError(s, saved))
      BY <2>1, <2>2, <2>4 DEF TypeInv, TypeOK
    <3>2. CASE RunError(s, saved)
      <4>1. <<"incomplete", s>> \in alerts'
        BY <2>1, <2>4, <3>2 DEF IncompleteAlert
      <4> QED BY <4>1 DEF Announced
    <3>3. CASE ~RunError(s, saved)
      <4>e. RunError(s, saved) = FALSE
        BY <3>3 DEF RunError
      <4>f. health'[s] = HealthAfter(health[s], Count(s), FALSE)
        BY <3>1, <4>e, Zenon
      <4>1. /\ health'[s].status = Status(Zeros(health[s], Count(s)), FALSE)
            /\ health'[s].zeros = Zeros(health[s], Count(s))
        BY <4>f DEF HealthAfter
      <4>2. Zeros(health[s], Count(s)) \in Nat
        BY DEF Zeros, Health, TypeInv, TypeOK
      <4>3. health'[s].status = "failing" => Zeros(health[s], Count(s)) > 1
        BY <4>1, <4>2 DEF Status
      <4>4. Zeros(health[s], Count(s)) > 1 => Count(s) = 0
        BY DEF Zeros
      <4>5. Count(s) = 0 => run[s].got = {}
        <5>1. IsFiniteSet(run[s].got)
          <6>1. run[s].got \in SUBSET (1..published[s]) /\ published[s] \in Int
            BY DEF TypeInv, TypeOK, WithinPublished
          <6>2. IsFiniteSet(1..published[s])
            BY <6>1, FS_Interval
          <6> QED BY <6>1, <6>2, FS_Subset
        <5> QED BY <5>1, FS_EmptySet DEF Count
      <4>6. ~run[s].error
        BY <3>3 DEF RunError, Incomplete
      <4> QED BY <4>1, <4>3, <4>4, <4>5, <4>6, <2>2 DEF Announced
    <3> QED BY <3>2, <3>3
  <2>5. \A s \in Sources : s < next + 1 => s < next \/ s = next
    BY <2>2 DEF Sources
  <2>6. next = NumSources => \A s \in Sources : s < next \/ s = next
    BY WorkerAssumption DEF Sources
  <2> QED BY <2>2, <2>3, <2>4, <2>5, <2>6 DEF AnnouncedInv
<1>2. CASE PipelineFail
  <2>1. <<"pipeline", 0>> \in alerts' /\ phase' = "persist"
    BY <1>2 DEF PipelineFail
  <2> QED BY <2>1 DEF AnnouncedInv, Announced
<1>3. CASE PipelineDone
  <2>1. phase' = "ack" /\ next' = 1
    BY <1>3 DEF PipelineDone
  <2> QED BY <2>1 DEF AnnouncedInv, Sources
<1>4. CASE PersistHealth
  <2>1. phase = "persist" /\ phase' = "flush" /\ UNCHANGED <<health, alerts, run>>
    BY <1>4 DEF PersistHealth
  <2> QED BY <2>1 DEF AnnouncedInv, Announced
<1>5. CASE StartCycle \/ StartFetch \/ FinishFetch \/ PipelineCommit
  <2>1. phase' \in {"fetching", "reading", "pipeline"}
    BY <1>5 DEF StartCycle, StartFetch, FinishFetch, PipelineCommit
  <2> QED BY <2>1 DEF AnnouncedInv
<1>6. CASE FlushAlerts \/ Crash
  <2>1. phase' = "idle"
    BY <1>6 DEF FlushAlerts, Crash, ForgetCycle
  <2> QED BY <2>1 DEF AnnouncedInv
<1>7. ASSUME UNCHANGED volatile PROVE AnnouncedInv'
  BY <1>7 DEF volatile, AnnouncedInv, Announced
<1>8. ASSUME NEW s \in Sources, Publish(s) PROVE UNCHANGED volatile
  BY <1>8 DEF Publish
<1>9. CASE UNCHANGED vars
  BY <1>7, <1>9 DEF vars
<1> QED BY <1>1, <1>2, <1>3, <1>4, <1>5, <1>6, <1>7, <1>8, <1>9 DEF Next, Worker

\* When alerts go out, every failing source has one of its own or the pipeline's,
\* or fails only for having come back empty: _log_canary_metrics, run_once.
THEOREM NoSilentFailure == Spec => []FailuresAnnounced
<1>1. Init => AnnouncedInv
  BY DEF Init, AnnouncedInv
<1>2. TypeInv /\ AnnouncedInv /\ [Next]_vars => AnnouncedInv'
  BY AnnouncedNext
<1>3. AnnouncedInv => FailuresAnnounced
  BY DEF AnnouncedInv, Announced, FailuresAnnounced
<1> QED BY <1>1, <1>2, <1>3, TypeCorrect, PTL DEF Spec
=============================================================================
