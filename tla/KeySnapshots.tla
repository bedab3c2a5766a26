----------------------------- MODULE KeySnapshots -----------------------------
(***************************************************************************)
(* The usage history of an API key: POST .../usage reports calls to the    *)
(* key store and then samples the key's health into a table                *)
(* (report_key_usage of app/api/internal_secrets.py, snapshot_key_health   *)
(* of app/services/key_usage_snapshots.py); the worker samples the key it  *)
(* has used in the same way.  A sampler holds an advisory lock of the key  *)
(* until its transaction ends, and one that does not get it goes without.  *)
(*                                                                         *)
(* Simplifications.  One key: a request and the worker sample only the key *)
(* they have used.  The key store, which is the subject of SecretsStore,   *)
(* is its count and its status here, whose quota window may end at any     *)
(* time.  A sample is the status and the time.                             *)
(***************************************************************************)
EXTENDS Naturals, FiniteSets, FiniteSetsExt

CONSTANTS
    Samplers,       \* requests served at once, and the worker
    Quota,          \* quota_limit; one of 0 is never reached and not modelled
    Interval,       \* _SNAPSHOT_INTERVAL
    Retention,      \* _SNAPSHOT_RETENTION
    MaxSamples,     \* _MAX_SNAPSHOTS_PER_KEY
    MaxMinute,      \* bound: clock
    MaxReports      \* bound: calls to report

Unlocked == "unlocked"

ASSUME SnapshotsAssumption ==
    /\ Unlocked \notin Samplers
    /\ Interval \in Nat \ {0} /\ Retention \in Nat /\ Retention >= Interval
    /\ MaxSamples \in Nat \ {0}
    /\ Quota \in Nat \ {0}
    /\ {MaxMinute, MaxReports} \subseteq Nat

VARIABLES
    minute,
    reports,        \* calls reported so far
    usage,          \* usage_count of the key
    standing,       \* its status
    sampler,        \* what each thread is doing
    samplerLock,    \* who holds the advisory lock
    samples,        \* api_key_usage_snapshots, [id, status, at]
    outOfOrder      \* history: a sample was committed after a later one

snaVars == <<minute, reports, usage, standing, sampler, samplerLock, samples, outOfOrder>>

Waiting == [at |-> "waiting"]

SnapshotsInit ==
    /\ minute = 0
    /\ reports = 0
    /\ usage = 0
    /\ standing = "active"
    /\ sampler = [s \in Samplers |-> Waiting]
    /\ samplerLock = Unlocked
    /\ samples = {}
    /\ outOfOrder = FALSE

\* report_usage
ReportUsage(s) ==
    /\ sampler[s] = Waiting
    /\ reports < MaxReports
    /\ reports' = reports + 1
    /\ usage' = usage + 1
    /\ standing' = IF usage + 1 >= Quota THEN "exhausted" ELSE standing
    /\ sampler' = [sampler EXCEPT ![s] = [at |-> "reported"]]
    /\ UNCHANGED <<minute, samplerLock, samples, outOfOrder>>

\* health, and the clock
ReadHealth(s) ==
    /\ sampler[s].at = "reported"
    /\ sampler' = [sampler EXCEPT ![s] =
          [at |-> "lock", status |-> standing, now |-> minute]]
    /\ UNCHANGED <<minute, reports, usage, standing, samplerLock, samples, outOfOrder>>

\* Fault: the lock is taken by whoever asks.
TryLock_Always(s) ==
    /\ sampler[s].at = "lock"
    /\ samplerLock' = s
    /\ sampler' = [sampler EXCEPT ![s].at = "compare"]
    /\ UNCHANGED <<minute, reports, usage, standing, samples, outOfOrder>>

\* pg_try_advisory_xact_lock: a busy sampler is not waited for.
TryLock(s) ==
    /\ sampler[s].at = "lock"
    /\ IF samplerLock = Unlocked
       THEN /\ samplerLock' = s
            /\ sampler' = [sampler EXCEPT ![s].at = "compare"]
       ELSE /\ sampler' = [sampler EXCEPT ![s] = Waiting]
            /\ UNCHANGED samplerLock
    /\ UNCHANGED <<minute, reports, usage, standing, samples, outOfOrder>>

LaterSample(a, b) == a.at > b.at \/ (a.at = b.at /\ a.id > b.id)

\* The sample before one, in a set of them.
IsPrevious(p, s, S) ==
    /\ LaterSample(s, p)
    /\ ~ \E q \in S : LaterSample(s, q) /\ LaterSample(q, p)

\* The newest sample says the same and is not an interval old.
Redundant(status, now) ==
    \E p \in samples :
        /\ ~ \E q \in samples : LaterSample(q, p)
        /\ p.status = status
        /\ now < p.at + Interval

Compare(s) ==
    /\ sampler[s].at = "compare"
    /\ IF Redundant(sampler[s].status, sampler[s].now)
       THEN /\ sampler' = [sampler EXCEPT ![s] = Waiting]
            /\ samplerLock' = Unlocked
       ELSE /\ sampler' = [sampler EXCEPT ![s].at = "insert"]
            /\ UNCHANGED samplerLock
    /\ UNCHANGED <<minute, reports, usage, standing, samples, outOfOrder>>

\* The insert with its two prunings: what is too old, and all but the newest.
Keeping(S, now) ==
    LET young == {p \in S : p.at + Retention >= now}
    IN  {p \in young : Cardinality({q \in young : LaterSample(q, p)}) < MaxSamples}

InsertSample(s) ==
    LET r   == sampler[s]
        new == [id |-> Max({p.id : p \in samples} \cup {0}) + 1,
                status |-> r.status, at |-> r.now]
    IN  /\ r.at = "insert"
        /\ samples' = Keeping(samples \cup {new}, r.now)
        /\ outOfOrder' = (outOfOrder \/ \E p \in samples : p.at > r.now)
        /\ sampler' = [sampler EXCEPT ![s] = Waiting]
        /\ samplerLock' = Unlocked
        /\ UNCHANGED <<minute, reports, usage, standing>>

\* The key store or the database fails: rolled back and answered all the same.
SamplingFails(s) ==
    /\ sampler[s].at \in {"reported", "compare", "insert"}
    /\ sampler' = [sampler EXCEPT ![s] = Waiting]
    /\ samplerLock' = IF samplerLock = s THEN Unlocked ELSE samplerLock
    /\ UNCHANGED <<minute, reports, usage, standing, samples, outOfOrder>>

\* The sweep of the worker puts an exhausted key back.
KeyRecovers ==
    /\ standing = "exhausted"
    /\ usage' = 0
    /\ standing' = "active"
    /\ UNCHANGED <<minute, reports, sampler, samplerLock, samples, outOfOrder>>

MinutePasses ==
    /\ minute < MaxMinute
    /\ minute' = minute + 1
    /\ UNCHANGED <<reports, usage, standing, sampler, samplerLock, samples, outOfOrder>>

SnapshotsRest ==
    /\ minute = MaxMinute
    /\ \A s \in Samplers : sampler[s] = Waiting
    /\ UNCHANGED snaVars

SnapshotsNext ==
    \/ \E s \in Samplers :
          \/ ReportUsage(s) \/ ReadHealth(s) \/ TryLock(s) \/ Compare(s)
          \/ InsertSample(s) \/ SamplingFails(s)
    \/ KeyRecovers
    \/ MinutePasses
    \/ SnapshotsRest

SnapshotsSpec == SnapshotsInit /\ [][SnapshotsNext]_snaVars

-----------------------------------------------------------------------------
\* The history is complete where it matters and thin elsewhere: two samples that
\* follow each other differ in status or are an interval apart, although requests
\* and the worker sample at once and each compares with what it has read, unless
\* one of them was held up between its clock and the lock: snapshot_key_health.
SamplesThinned ==
    outOfOrder \/
    \A p, q \in samples :
        IsPrevious(p, q, samples) => p.status # q.status \/ p.at + Interval <= q.at
=============================================================================
