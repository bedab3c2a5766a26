---------------------------- MODULE SecretsStore ----------------------------
(***************************************************************************)
(* The rotation of provider API keys of app/services/secrets_store.py: a   *)
(* Redis inventory of keys, the clients that lease a key and report what   *)
(* they spend on it, the operator who seeds and disables keys, and the     *)
(* worker's sweep over exhausted keys.                                     *)
(*                                                                         *)
(* Redis commands and Lua scripts are atomic; the Python methods around    *)
(* them are not.  Choosing a key reads the inventory and then one hash at  *)
(* a time, seeding adds the identifier and then writes the hash, and the   *)
(* sweep resets one key at a time, so all of these interleave.  A client   *)
(* keeps the key it chose for as long as it needs it: TicketmasterSource   *)
(* chooses once and then makes every request of its crawl with that key.   *)
(*                                                                         *)
(* Simplifications.  Keys are numbered in the order of their identifiers,  *)
(* EnvKey standing for the environment credential, which is tracked but    *)
(* never part of the inventory.  All keys have the same quota.  Time is    *)
(* the age of each key's updated_at_epoch, which stops mattering at the    *)
(* quota window; a sweep and a choice take less than one unit of it.       *)
(***************************************************************************)
EXTENDS Integers, FiniteSets

CONSTANTS
    NumKeys,   \* keys an operator may seed
    Clients,   \* processes that lease keys
    Quota,     \* quota_limit; 0 is no limit
    Requests,  \* bound: provider requests made on one lease
    Window     \* the quota window, in units of time

EnvKey   == 0
Managed  == 1..NumKeys
Keys     == {EnvKey} \cup Managed
NoKey    == NumKeys + 1

ASSUME StoreAssumption ==
    /\ NumKeys \in Nat \ {0}
    /\ IsFiniteSet(Clients)
    /\ Quota \in Nat
    /\ Requests \in Nat
    /\ Window \in Nat \ {0}

VARIABLES
    ids,      \* the SET of key identifiers
    status,   \* per key hash: its status, "absent" if there is no hash
    usage,    \* per key hash: usage_count
    age,      \* per key hash: time since updated_at_epoch, up to Window
    seeding,  \* the key between the two writes of seed_key
    sweep,    \* the keys reset_exhausted_keys has yet to look at
    pc,       \* per client: where get_active_key and its caller are
    todo,     \* per client: identifiers whose hash is yet to be read
    found,    \* per client: lease_candidates, as <<usage_count, key>>
    lease,    \* per client: the key it uses
    left,     \* per client: requests it may still make on its lease
    shut      \* history: keys not active at any time since a choice began

redis   == <<ids, status, usage, age>>
client  == <<pc, todo, found, lease, left>>
vars    == <<redis, seeding, sweep, client, shut>>

Statuses == {"absent", "active", "exhausted", "disabled"}

Init ==
    /\ ids = {}
    /\ status = [k \in Keys |-> "absent"]
    /\ usage = [k \in Keys |-> 0]
    /\ age = [k \in Keys |-> 0]
    /\ seeding = NoKey
    /\ sweep = {}
    /\ pc = [c \in Clients |-> "idle"]
    /\ todo = [c \in Clients |-> {}]
    /\ found = [c \in Clients |-> {}]
    /\ lease = [c \in Clients |-> NoKey]
    /\ left = [c \in Clients |-> 0]
    /\ shut = [c \in Clients |-> {}]

-----------------------------------------------------------------------------
(* The Lua scripts. *)

\* Fault: a key is good for one call more than its quota.
OverQuota_Beyond(count) == Quota > 0 /\ count > Quota
OverQuota(count) == Quota > 0 /\ count >= Quota

\* Fault: the quota wins over a deliberate disable.
Reported_QuotaFirst(s, count, disable) ==
    IF OverQuota(count) THEN "exhausted" ELSE IF disable THEN "disabled" ELSE s

\* _REPORT_USAGE_LUA: the status after usage_count has become `count`.
Reported(s, count, disable) ==
    IF disable \/ s = "disabled" THEN "disabled"
    ELSE IF OverQuota(count) THEN "exhausted" ELSE s

Report(k, calls, disable) ==
    /\ status[k] # "absent"
    /\ usage' = [usage EXCEPT ![k] = @ + calls]
    /\ status' = [status EXCEPT ![k] = Reported(@, usage[k] + calls, disable)]
    /\ age' = [age EXCEPT ![k] = 0]

\* _SYNC_ENV_QUOTA_LUA: creates the tracking hash or refreshes its status.  It
\* leaves the timestamp alone; one that was never written reads as long ago.
SyncEnv ==
    /\ status' = [status EXCEPT ![EnvKey] =
                    IF @ = "disabled" THEN @
                    ELSE IF OverQuota(usage[EnvKey]) THEN "exhausted" ELSE "active"]
    /\ age' = [age EXCEPT ![EnvKey] = IF status[EnvKey] = "absent" THEN Window ELSE @]
    /\ UNCHANGED <<ids, usage>>

\* Fault: whatever is not active is reset, a deliberate disable among it.
Due_Disabled(k) == status[k] \notin {"absent", "active"} /\ age[k] >= Window

\* Fault: the reset is off by the whole window.
Due_Never(k) == status[k] = "exhausted" /\ age[k] > Window
Due(k) == status[k] = "exhausted" /\ age[k] >= Window

\* _RESET_EXHAUSTED_LUA.
Reset(k) ==
    /\ IF Due(k)
       THEN /\ status' = [status EXCEPT ![k] = "active"]
            /\ usage' = [usage EXCEPT ![k] = 0]
            /\ age' = [age EXCEPT ![k] = 0]
       ELSE UNCHANGED <<status, usage, age>>
    /\ UNCHANGED ids

\* sorted(): the next identifier to look at.
First(ks) == {k \in ks : \A other \in ks : k <= other}

(* The history variable follows every step. *)
Closed == {k \in Keys : status[k] # "active"}

Observe ==
    shut' = [c \in Clients |->
               IF pc'[c] = "idle" THEN {}
               ELSE (IF pc[c] = "idle" THEN Closed ELSE shut[c]) \cap Closed']

-----------------------------------------------------------------------------
(* A client chooses a key and uses it. *)

\* get_active_key reads the inventory; an empty one, and only that, falls back
\* to the environment.
List(c) ==
    /\ pc[c] = "idle"
    /\ todo' = [todo EXCEPT ![c] = ids]
    /\ pc' = [pc EXCEPT ![c] = IF ids = {} THEN "fallback" ELSE "reading"]
    /\ UNCHANGED <<redis, seeding, sweep, found, lease, left>>
    /\ Observe

\* Fault: the status of the hash is not looked at.
Leasable_AnyStatus(k) == status[k] # "absent" /\ ~OverQuota(usage[k])
Leasable(k) == status[k] = "active" /\ ~OverQuota(usage[k])

\* The hash of the next identifier is read; one that is not there yet is skipped.
Read(c) ==
    /\ pc[c] = "reading"
    /\ todo[c] # {}
    /\ \E k \in First(todo[c]) :
         /\ todo' = [todo EXCEPT ![c] = @ \ {k}]
         /\ found' = [found EXCEPT ![c] =
                        @ \cup (IF Leasable(k) THEN {<<usage[k], k>>} ELSE {})]
    /\ UNCHANGED <<redis, seeding, sweep, pc, lease, left>>
    /\ Observe

LessUsed(a, b) == a[1] < b[1] \/ (a[1] = b[1] /\ a[2] <= b[2])

\* The least used candidate, as it was when its hash was read; without one the
\* call raises.
Choose(c) ==
    /\ pc[c] = "reading"
    /\ todo[c] = {}
    /\ IF found[c] = {}
       THEN /\ pc' = [pc EXCEPT ![c] = "idle"]
            /\ UNCHANGED <<lease, left>>
       ELSE /\ \E best \in found[c] :
                 /\ \A other \in found[c] : LessUsed(best, other)
                 /\ lease' = [lease EXCEPT ![c] = best[2]]
            /\ left' = [left EXCEPT ![c] = Requests]
            /\ pc' = [pc EXCEPT ![c] = "using"]
    /\ found' = [found EXCEPT ![c] = {}]
    /\ UNCHANGED <<redis, seeding, sweep, todo>>
    /\ Observe

FallbackSync(c) ==
    /\ pc[c] = "fallback"
    /\ SyncEnv
    /\ pc' = [pc EXCEPT ![c] = "fallbackRead"]
    /\ UNCHANGED <<seeding, sweep, todo, found, lease, left>>
    /\ Observe

FallbackRead(c) ==
    /\ pc[c] = "fallbackRead"
    /\ IF Leasable(EnvKey)
       THEN /\ lease' = [lease EXCEPT ![c] = EnvKey]
            /\ left' = [left EXCEPT ![c] = Requests]
            /\ pc' = [pc EXCEPT ![c] = "using"]
       ELSE /\ pc' = [pc EXCEPT ![c] = "idle"]
            /\ UNCHANGED <<lease, left>>
    /\ UNCHANGED <<redis, seeding, sweep, todo, found>>
    /\ Observe

\* One provider request on the leased key, reported afterwards.  Nothing looks
\* at the status of the key again.
Use(c) ==
    /\ pc[c] = "using"
    /\ left[c] > 0
    /\ Report(lease[c], 1, FALSE)
    /\ left' = [left EXCEPT ![c] = @ - 1]
    /\ UNCHANGED <<ids, seeding, sweep, pc, todo, found, lease>>
    /\ Observe

\* The request was made and reporting it failed.
UseUnreported(c) ==
    /\ pc[c] = "using"
    /\ left[c] > 0
    /\ left' = [left EXCEPT ![c] = @ - 1]
    /\ UNCHANGED <<redis, seeding, sweep, pc, todo, found, lease>>
    /\ Observe

\* The crawl is over.
Release(c) ==
    /\ pc[c] = "using"
    /\ pc' = [pc EXCEPT ![c] = "idle"]
    /\ lease' = [lease EXCEPT ![c] = NoKey]
    /\ left' = [left EXCEPT ![c] = 0]
    /\ UNCHANGED <<redis, seeding, sweep, todo, found>>
    /\ Observe

Client(c) ==
    \/ List(c) \/ Read(c) \/ Choose(c) \/ FallbackSync(c) \/ FallbackRead(c)
    \/ Use(c) \/ UseUnreported(c) \/ Release(c)

-----------------------------------------------------------------------------
(* The operator and the worker. *)

SeedId(k) ==
    /\ seeding = NoKey
    /\ ids' = ids \cup {k}
    /\ seeding' = k
    /\ UNCHANGED <<status, usage, age, sweep, client>>
    /\ Observe

SeedHash ==
    /\ seeding \in Managed
    /\ status' = [status EXCEPT ![seeding] = "active"]
    /\ usage' = [usage EXCEPT ![seeding] = 0]
    /\ age' = [age EXCEPT ![seeding] = 0]
    /\ seeding' = NoKey
    /\ UNCHANGED <<ids, sweep, client>>
    /\ Observe

\* report_usage(calls=0, disable=True)
Disable(k) ==
    /\ Report(k, 0, TRUE)
    /\ UNCHANGED <<ids, seeding, sweep, client>>
    /\ Observe

\* reset_exhausted_keys, at the start of a worker cycle.
StartSweep ==
    /\ sweep = {}
    /\ sweep' = ids \cup {k \in {EnvKey} : status[k] # "absent"}
    /\ UNCHANGED <<redis, seeding, client>>
    /\ Observe

SweepKey ==
    /\ \E k \in First(sweep) :
         /\ Reset(k)
         /\ sweep' = sweep \ {k}
    /\ UNCHANGED <<seeding, client>>
    /\ Observe

Tick ==
    /\ sweep = {}
    /\ age' = [k \in Keys |-> IF age[k] < Window THEN age[k] + 1 ELSE Window]
    /\ UNCHANGED <<ids, status, usage, seeding, sweep, client>>
    /\ Observe

Next ==
    \/ \E c \in Clients : Client(c)
    \/ \E k \in Managed : SeedId(k)
    \/ \E k \in Keys : Disable(k)
    \/ SeedHash \/ StartSweep \/ SweepKey \/ Tick

\* Time passes, however often the worker sweeps; it sweeps every cycle; and a
\* lease ends with the crawl it was taken for.
Fairness ==
    /\ SF_vars(Tick)
    /\ WF_vars(StartSweep)
    /\ WF_vars(SweepKey)
    /\ \A c \in Clients : WF_vars(Release(c))

Spec == Init /\ [][Next]_vars /\ Fairness

-----------------------------------------------------------------------------
TypeOK ==
    /\ ids \subseteq Managed
    /\ status \in [Keys -> Statuses]
    /\ usage \in [Keys -> Nat]
    /\ age \in [Keys -> 0..Window]
    /\ seeding \in Managed \cup {NoKey}
    /\ sweep \subseteq Keys
    /\ pc \in [Clients -> {"idle", "reading", "fallback", "fallbackRead", "using"}]
    /\ todo \in [Clients -> SUBSET Managed]
    /\ found \in [Clients -> SUBSET (Nat \X Managed)]
    /\ lease \in [Clients -> Keys \cup {NoKey}]
    /\ left \in [Clients -> 0..Requests]
    /\ shut \in [Clients -> SUBSET Keys]

\* A key that was disabled or exhausted before a choice began, and stayed so, is
\* not what that choice hands out, however the reads of the choice interleave
\* with reports, resets and seeding.
ShutKeysNotLeased == \A c \in Clients : pc[c] = "using" => lease[c] \notin shut[c]

\* Leases are not revoked and choices work on stale counts, so a key is used past
\* its quota; but never by more than one lease's requests per client.
OverspendBounded ==
    Quota > 0 =>
        \A k \in Keys : usage[k] <= Quota - 1 + Cardinality(Clients) * Requests

\* An exhausted key does not stay exhausted: the leases that still report on it,
\* and so move its timestamp, come to an end.
ExhaustedRecovers ==
    \A k \in Keys : status[k] = "exhausted" ~> status[k] # "exhausted"

Lifecycle == INSTANCE KeyLifecycle

\* However clients, operator and sweep interleave, each key lives the life of the
\* abstract key.  In particular no report, reset or sync ends a deliberate disable:
\* that takes an operator who has begun to seed this very key.
\* _REPORT_USAGE_LUA, _RESET_EXHAUSTED_LUA, _SYNC_ENV_QUOTA_LUA, seed_key.
LifecycleSpec == Lifecycle!Spec

\* The docstring of reset_exhausted_keys: "an exhausted key is no longer leased,
\* so its timestamp stops advancing".
ExhaustedTimestampStops ==
    [][\A k \in Keys :
          status[k] = "exhausted" /\ status'[k] = "exhausted" => age'[k] >= age[k]]_vars
=============================================================================
