-------------------------- MODULE IngestionWorker --------------------------
(***************************************************************************)
(* The ingestion worker of app/worker.py: one process that, every interval, *)
(* reads each registered source in turn, hands everything it read to the   *)
(* data pipeline, acknowledges the sources whose events are durable, and   *)
(* publishes per-source health and alerts.                                 *)
(*                                                                         *)
(* What survives a crash is the event store, the health table and the      *)
(* completion checkpoint file.  The canary history, the in-process health  *)
(* state and the alerts waiting to be sent do not.                         *)
(*                                                                         *)
(* Simplifications.  A listing is the number of its publication; an error  *)
(* message is TRUE; a timestamp is the number of the cycle it was taken    *)
(* in, 0 standing for None.  `empty_is_success` is left out: it reads      *)
(* last_fetch_was_incremental, which no source ever sets.  The rows of the *)
(* pipeline are the subject of DataPipeline, the "past" sweep that of      *)
(* EventMerge, and the key store behind the quota alert that of            *)
(* SecretsStore.  That a checkpointing source knows when its read was not  *)
(* complete is taken from fetch_events of app/ingestion/ticketmaster.py.   *)
(***************************************************************************)
EXTENDS Integers, Sequences, FiniteSets

CONSTANTS
    NumSources,     \* registered sources, numbered in list_sources() order
    Checkpointing,  \* the sources that define acknowledge_persisted()
    HistorySize,    \* canary_history_size
    CanaryAverage,  \* the historic average above which a zero is an outage
    MaxListings,    \* bound: how many listings each source publishes
    MaxCycles,      \* bound: cycles
    MaxCrashes      \* bound: crashes of the worker process

Sources == 1..NumSources

ASSUME WorkerAssumption ==
    /\ NumSources \in Nat \ {0}
    /\ Checkpointing \subseteq Sources
    /\ HistorySize \in Nat \ {0}
    /\ CanaryAverage \in Nat
    /\ MaxListings \in [Sources -> Nat]
    /\ MaxCycles \in Nat
    /\ MaxCrashes \in Nat

VARIABLES
    published,   \* upstream: how many listings each source has published
    phase,       \* where run_once is
    next,        \* the source the loop over sources has reached
    run,         \* source_runs and per_source_counts of this cycle
    batch,       \* rows handed to the pipeline and not yet processed
    rejected,    \* pipeline_summary["rejected"] > 0
    history,     \* _source_count_history
    health,      \* _source_health_state
    alerts,      \* _pending_alerts, as <<kind, source>>
    stored,      \* durable: rows of the event store
    checkpoint,  \* durable: the completion file
    dbHealth,    \* durable: the source_health table
    cycle,       \* cycles started so far, the clock of this model
    crashes

external == <<published>>
durable  == <<stored, checkpoint, dbHealth>>
volatile == <<phase, next, run, batch, rejected, history, health, alerts>>
vars     == <<external, durable, volatile, cycle, crashes>>

Cycles   == 0..MaxCycles
Phases   == {"idle", "fetching", "reading", "pipeline", "ack", "persist", "flush"}

NoRun        == [started |-> 0, got |-> {}, error |-> FALSE]
NoHealth     == [status |-> "unknown", count |-> 0, zeros |-> 0, lastRun |-> 0,
                 error |-> FALSE, lastErrorAt |-> 0, lastSuccessAt |-> 0]
NoCheckpoint == [cycle |-> 0, upto |-> 0]

Health ==
    [status : {"unknown", "healthy", "degraded", "failing"}, count : Nat,
     zeros : Nat, lastRun : Cycles, error : BOOLEAN,
     lastErrorAt : Cycles, lastSuccessAt : Cycles]

AlertKinds == {"canary", "incomplete", "pipeline"}

Init ==
    /\ published = [s \in Sources |-> 0]
    /\ phase = "idle"
    /\ next = 1
    /\ run = [s \in Sources |-> NoRun]
    /\ batch = {}
    /\ rejected = FALSE
    /\ history = [s \in Sources |-> <<>>]
    /\ health = [s \in Sources |-> NoHealth]
    /\ alerts = {}
    /\ stored = {}
    /\ checkpoint = [s \in Sources |-> NoCheckpoint]
    /\ dbHealth = [s \in Sources |-> NoHealth]
    /\ cycle = 0
    /\ crashes = 0

-----------------------------------------------------------------------------
(* The canary metrics of one source run: what _log_canary_metrics computes *)
(* from the history and the previous health of that source.                *)

SumCounts(counts) ==
    LET sum[n \in 0..Len(counts)] == IF n = 0 THEN 0 ELSE sum[n - 1] + counts[n]
    IN  sum[Len(counts)]

\* deque(maxlen=HistorySize).append(count)
Remember(counts, count) ==
    IF Len(counts) < HistorySize THEN Append(counts, count)
                                 ELSE Append(Tail(counts), count)

\* Fault: success leaves the counter alone.
Zeros_NoReset(prev, count) == IF count = 0 THEN prev.zeros + 1 ELSE prev.zeros

Zeros(prev, count) == IF count = 0 THEN prev.zeros + 1 ELSE 0

Status(zeros, error) ==
    CASE error             -> "failing"
      [] ~error /\ zeros = 0 -> "healthy"
      [] ~error /\ zeros = 1 -> "degraded"
      [] ~error /\ zeros > 1 -> "failing"

HealthAfter(prev, count, error) ==
    LET diagnosed == error \/ count = 0
        succeeded == ~error /\ count > 0
    IN  [status        |-> Status(Zeros(prev, count), error),
         count         |-> count,
         zeros         |-> Zeros(prev, count),
         lastRun       |-> cycle,
         error         |-> diagnosed,
         lastErrorAt   |-> IF diagnosed THEN cycle ELSE prev.lastErrorAt,
         lastSuccessAt |-> IF succeeded THEN cycle ELSE prev.lastSuccessAt]

CanaryAlert(s, count) ==
    IF count = 0 /\ SumCounts(history[s]) > CanaryAverage * Len(history[s])
    THEN {<<"canary", s>>} ELSE {}

Count(s) == Cardinality(run[s].got)

(* The error of a source run once the pipeline has committed.  A rejection   *)
(* anywhere holds back every checkpoint, and a checkpoint that could not be  *)
(* saved is an error of its source.                                          *)

\* Fault: rejected rows are forgotten about.
Incomplete_IgnoreRejected(s) == run[s].error
Incomplete(s) == run[s].error \/ rejected

\* Fault: the failure to save the checkpoint is swallowed.
RunError_SaveSwallowed(s, saved) == Incomplete(s)
RunError(s, saved) == Incomplete(s) \/ (s \in Checkpointing /\ ~saved)

\* Fault: only what went wrong in the fetch is announced.
IncompleteAlert_FetchOnly(s, error) == IF run[s].error THEN {<<"incomplete", s>>} ELSE {}
IncompleteAlert(s, error) == IF error THEN {<<"incomplete", s>>} ELSE {}

-----------------------------------------------------------------------------
(* The upstream feed publishes whenever it likes, in the middle of a fetch  *)
(* too.                                                                    *)
Publish(s) ==
    /\ published[s] < MaxListings[s]
    /\ published' = [published EXCEPT ![s] = @ + 1]
    /\ UNCHANGED <<durable, volatile, cycle, crashes>>

\* run_forever starts a cycle.
StartCycle ==
    /\ phase = "idle"
    /\ cycle < MaxCycles
    /\ cycle' = cycle + 1
    /\ phase' = "fetching"
    /\ UNCHANGED <<external, durable, next, run, batch, rejected, history, health, alerts,
                   crashes>>

\* fetch_events takes sync_started_at before its first request.
StartFetch ==
    /\ phase = "fetching"
    /\ next \in Sources
    /\ run' = [run EXCEPT ![next].started = published[next]]
    /\ phase' = "reading"
    /\ UNCHANGED <<external, durable, next, batch, rejected, history, health,
                   alerts, cycle, crashes>>

\* A fetch that raised or noticed that it read only part.
Failures(s) == {[got |-> got, error |-> TRUE] : got \in SUBSET (1..published[s])}

\* A fetch that read everything listed when it began, and maybe more.
Completions(s) ==
    {[got |-> (1..run[s].started) \cup extra, error |-> FALSE] :
        extra \in SUBSET ((run[s].started + 1)..published[s])}

\* A page layout changed: nothing was found and nothing raised.
SilentZero == [got |-> {}, error |-> FALSE]

\* Fault: a checkpointing source swallows the error of a page.
FetchOutcomes_PageSwallowed(s) == Failures(s) \cup Completions(s) \cup {SilentZero}

\* What a fetch returns.  A checkpointing source reports every page it could
\* not read; a scraper may also come back empty without noticing.
FetchOutcomes(s) ==
    Failures(s) \cup Completions(s)
        \cup (IF s \in Checkpointing THEN {} ELSE {SilentZero})

\* The fetch ends, by returning, partially or by raising, and the source is
\* closed.  After the last source everything read, partial reads included, goes
\* to the pipeline.
FinishFetch ==
    /\ phase = "reading"
    /\ \E out \in FetchOutcomes(next) :
         run' = [run EXCEPT ![next].got = out.got, ![next].error = out.error]
    /\ IF next = NumSources
       THEN /\ phase' = "pipeline"
            /\ batch' = UNION {{s} \X run'[s].got : s \in Sources}
       ELSE /\ phase' = "fetching"
            /\ batch' = batch
    /\ next' = next + 1
    /\ UNCHANGED <<external, durable, rejected, history, health, alerts, cycle, crashes>>

\* all_events.extend: the batch is in source order.
Before(a, b) == a[1] < b[1] \/ (a[1] = b[1] /\ a[2] < b[2])

\* process_raw_events commits the next chunk: its valid rows are durable, its
\* invalid ones are counted as rejected.
PipelineCommit ==
    /\ phase = "pipeline"
    /\ \E chunk \in SUBSET batch, bad \in SUBSET batch :
         /\ chunk # {} /\ bad \subseteq chunk
         /\ \A a \in chunk, b \in batch \ chunk : Before(a, b)
         /\ stored' = stored \cup (chunk \ bad)
         /\ batch' = batch \ chunk
         /\ rejected' = (rejected \/ bad # {})
    /\ UNCHANGED <<external, checkpoint, dbHealth, phase, next, run, history,
                   health, alerts, cycle, crashes>>

PipelineDone ==
    /\ phase = "pipeline"
    /\ batch = {}
    /\ phase' = "ack"
    /\ next' = 1
    /\ UNCHANGED <<external, durable, run, batch, rejected, history, health,
                   alerts, cycle, crashes>>

\* The pipeline raises: what earlier chunks committed stays, every source is
\* failing, and no source is acknowledged.
PipelineFail ==
    /\ phase = "pipeline"
    /\ batch' = {}
    /\ history' = [s \in Sources |-> Remember(history[s], Count(s))]
    /\ health' = [s \in Sources |-> HealthAfter(health[s], Count(s), TRUE)]
    /\ alerts' = alerts \cup (UNION {CanaryAlert(s, Count(s)) : s \in Sources})
                        \cup {<<"pipeline", 0>>}
    /\ phase' = "persist"
    /\ UNCHANGED <<external, durable, next, run, rejected, cycle, crashes>>

\* One turn of the loop after a successful pipeline: the checkpoint is saved if
\* nothing is missing, and saving it may fail.
Acknowledge ==
    /\ phase = "ack"
    /\ next \in Sources
    /\ \E saved \in BOOLEAN :
         /\ saved => next \in Checkpointing /\ ~Incomplete(next)
         /\ checkpoint' =
              IF saved
              THEN [checkpoint EXCEPT ![next] = [cycle |-> cycle, upto |-> run[next].started]]
              ELSE checkpoint
         /\ history' = [history EXCEPT ![next] = Remember(@, Count(next))]
         /\ health' = [health EXCEPT ![next] =
                         HealthAfter(@, Count(next), RunError(next, saved))]
         /\ alerts' = alerts \cup CanaryAlert(next, Count(next))
                             \cup IncompleteAlert(next, RunError(next, saved))
    /\ next' = next + 1
    /\ phase' = IF next = NumSources THEN "persist" ELSE "ack"
    /\ UNCHANGED <<external, stored, dbHealth, run, batch, rejected, cycle, crashes>>

\* _persist_source_health merges every state this process has; a database error
\* is logged and swallowed.
PersistHealth ==
    /\ phase = "persist"
    /\ \E committed \in BOOLEAN :
         dbHealth' = IF committed
                     THEN [s \in Sources |->
                             IF health[s].lastRun = 0 THEN dbHealth[s] ELSE health[s]]
                     ELSE dbHealth
    /\ phase' = "flush"
    /\ UNCHANGED <<external, stored, checkpoint, next, run, batch, rejected,
                   history, health, alerts, cycle, crashes>>

\* The locals of run_once at its end.
ForgetCycle ==
    /\ phase' = "idle"
    /\ next' = 1
    /\ run' = [s \in Sources |-> NoRun]
    /\ batch' = {}
    /\ rejected' = FALSE

\* Fault: the exception of a failed pipeline ends the scheduler.
FlushAlerts_NotCaught ==
    /\ phase = "flush"
    /\ alerts' = {}
    /\ phase' = IF <<"pipeline", 0>> \in alerts THEN "stopped" ELSE "idle"
    /\ UNCHANGED <<external, durable, next, run, batch, rejected, history, health, cycle,
                   crashes>>

\* _flush_alerts takes the list and sends what is in it, whatever sending does.
\* run_once returns, or raises into run_forever, which goes back to sleep: its
\* locals are gone.
FlushAlerts ==
    /\ phase = "flush"
    /\ alerts' = {}
    /\ ForgetCycle
    /\ UNCHANGED <<external, durable, history, health, cycle, crashes>>

\* The process dies at any point and is started again.
Crash ==
    /\ crashes < MaxCrashes
    /\ crashes' = crashes + 1
    /\ ForgetCycle
    /\ history' = [s \in Sources |-> <<>>]
    /\ health' = [s \in Sources |-> NoHealth]
    /\ alerts' = {}
    /\ UNCHANGED <<external, durable, cycle>>

Worker ==
    \/ StartCycle \/ StartFetch \/ FinishFetch
    \/ PipelineCommit \/ PipelineDone \/ PipelineFail
    \/ Acknowledge \/ PersistHealth \/ FlushAlerts

Next ==
    \/ \E s \in Sources : Publish(s)
    \/ Worker
    \/ Crash

\* The event loop runs the worker: requests time out, so a fetch ends.
Spec == Init /\ [][Next]_vars /\ WF_vars(Worker)

-----------------------------------------------------------------------------
TypeOK ==
    /\ published \in [Sources -> Nat]
    /\ phase \in Phases
    /\ next \in 1..(NumSources + 1)
    /\ run \in [Sources -> [started : Nat, got : SUBSET Nat, error : BOOLEAN]]
    /\ batch \subseteq Sources \X Nat
    /\ rejected \in BOOLEAN
    /\ history \in [Sources -> Seq(Nat)]
    /\ health \in [Sources -> Health]
    /\ alerts \subseteq AlertKinds \X (0..NumSources)
    /\ stored \subseteq Sources \X Nat
    /\ checkpoint \in [Sources -> [cycle : Cycles, upto : Nat]]
    /\ dbHealth \in [Sources -> Health]
    /\ cycle \in Cycles
    /\ crashes \in 0..MaxCrashes

\* The completion file never claims more than the event store holds: whatever
\* was published before the acknowledged fetch began is durable, through partial
\* fetches, rejected rows, failed pipelines and crashes between the two writes.
CheckpointCovered ==
    \A s \in Sources : \A r \in 1..checkpoint[s].upto : <<s, r>> \in stored

\* The two durable records of a run agree: a source the health table calls
\* healthy has its checkpoint from that run or a later one.
HealthyMeansCheckpointed ==
    \A s \in Checkpointing :
        dbHealth[s].status = "healthy" => checkpoint[s].cycle >= dbHealth[s].lastRun

\* By the time alerts go out, every source about to be reported as failing has an
\* alert of its own, or the pipeline has, or it fails only for having come back
\* empty, without an error, at least twice in a row.
FailuresAnnounced ==
    phase = "flush" =>
        \A s \in Sources :
            health[s].status = "failing" =>
                \/ <<"pipeline", 0>> \in alerts
                \/ <<"incomplete", s>> \in alerts
                \/ health[s].zeros > 1 /\ ~run[s].error /\ run[s].got = {}

\* The zero counter and the canary history, kept in two structures and updated on
\* both paths out of the pipeline, tell the same story about the recent runs.
ZerosMatchHistory ==
    \A s \in Sources :
        LET n == Len(history[s])
            z == health[s].zeros
        IN  /\ \A i \in 1..n : i > n - z => history[s][i] = 0
            /\ z < n => history[s][n - z] # 0

\* A cycle that started ends, whatever its sources and its pipeline do, and the
\* worker is ready for the next one.
CycleEnds == phase # "idle" ~> phase = "idle"

Sync == INSTANCE DurableSync
            WITH checkpoint <- [s \in Sources |-> checkpoint[s].upto]

\* The worker implements the abstract promise.
SyncSpec == Sync!Spec

\* docs/operations.md says of last_error_at and last_success_at that they "keep
\* the history either way": a success once recorded in the table stays recorded.
SuccessHistoryKept ==
    [][\A s \in Sources :
          dbHealth[s].lastSuccessAt # 0 => dbHealth'[s].lastSuccessAt # 0]_vars
=============================================================================
