------------------------ MODULE SecretsStore_proofs ------------------------
(***************************************************************************)
(* Theorems about the key store, for any number of keys and clients and    *)
(* any quota: its types, that a choice does not hand out a key shut all    *)
(* along, how far a quota can be overspent, and that every key lives the   *)
(* life of KeyLifecycle.                                                   *)
(***************************************************************************)
EXTENDS SecretsStore, FiniteSetTheorems, TLAPS

-----------------------------------------------------------------------------
(* Types. *)

\* A client that uses a key has one.
UsesAKey == \A c \in Clients : pc[c] = "using" => lease[c] \in Keys

\* Candidates exist only while a choice is going on.
NoLeftovers == \A c \in Clients : pc[c] # "reading" => found[c] = {}

TypeInv == TypeOK /\ UsesAKey /\ NoLeftovers

LEMMA InitType == Init => TypeInv
<1> SUFFICES ASSUME Init PROVE TypeInv
  OBVIOUS
<1>1. 0 \in 0..Window /\ 0 \in 0..Requests
  BY StoreAssumption
<1>2. TypeOK
  BY <1>1 DEF Init, TypeOK, Statuses
<1>3. UsesAKey /\ NoLeftovers
  BY DEF Init, UsesAKey, NoLeftovers
<1> QED BY <1>2, <1>3 DEF TypeInv

\* A report leaves a hash that is one.
LEMMA ReportType ==
    ASSUME TypeOK, NEW k \in Keys, NEW calls \in Nat, NEW disable \in BOOLEAN,
           Report(k, calls, disable)
    PROVE  /\ status' \in [Keys -> Statuses]
           /\ usage' \in [Keys -> Nat]
           /\ age' \in [Keys -> 0..Window]
<1>1. Reported(status[k], usage[k] + calls, disable) \in Statuses
  BY DEF TypeOK, Reported, Statuses
<1>2. usage[k] + calls \in Nat /\ 0 \in 0..Window
  BY StoreAssumption DEF TypeOK
<1> QED BY <1>1, <1>2 DEF TypeOK, Report

\* The history variable collects keys, whatever a step does.
LEMMA ObserveType ==
    ASSUME TypeOK, Observe
    PROVE  shut' \in [Clients -> SUBSET Keys]
  BY DEF TypeOK, Observe, Closed

\* Every step preserves the types.
LEMMA NextType ==
    ASSUME TypeInv, [Next]_vars
    PROVE  TypeInv'
<1> USE DEF TypeInv
<1>1. ASSUME NEW c \in Clients, List(c) PROVE TypeInv'
  <2> USE <1>1 DEF List, redis
  <2>1. TypeOK'
    BY ObserveType DEF TypeOK
  <2>2. UsesAKey' /\ NoLeftovers'
    BY DEF UsesAKey, NoLeftovers, TypeOK
  <2> QED BY <2>1, <2>2
<1>2. ASSUME NEW c \in Clients, Read(c) PROVE TypeInv'
  <2> USE <1>2 DEF Read, redis
  <2>1. PICK k \in First(todo[c]) :
          /\ todo' = [todo EXCEPT ![c] = @ \ {k}]
          /\ found' = [found EXCEPT ![c] =
                         @ \cup (IF Leasable(k) THEN {<<usage[k], k>>} ELSE {})]
    OBVIOUS
  <2>2. k \in Managed /\ usage[k] \in Nat
    BY DEF First, TypeOK, Keys
  <2>3. /\ todo' \in [Clients -> SUBSET Managed]
        /\ found' \in [Clients -> SUBSET (Nat \X Managed)]
    BY <2>1, <2>2 DEF TypeOK
  <2>4. TypeOK'
    BY <2>3, ObserveType DEF TypeOK
  <2>5. UsesAKey' /\ NoLeftovers'
    BY <2>1 DEF UsesAKey, NoLeftovers, TypeOK
  <2> QED BY <2>4, <2>5
<1>3. ASSUME NEW c \in Clients, Choose(c) PROVE TypeInv'
  <2> USE <1>3 DEF Choose, redis
  <2>1. /\ lease' \in [Clients -> Keys \cup {NoKey}]
        /\ left' \in [Clients -> 0..Requests]
        /\ pc' \in [Clients -> {"idle", "reading", "fallback", "fallbackRead", "using"}]
        /\ pc'[c] = "using" => lease'[c] \in Keys
        /\ pc'[c] # "reading"
        /\ \A d \in Clients \ {c} : pc'[d] = pc[d] /\ lease'[d] = lease[d]
    <3>1. CASE found[c] = {}
      BY <3>1 DEF TypeOK
    <3>2. CASE found[c] # {}
      <4>1. PICK best \in found[c] : lease' = [lease EXCEPT ![c] = best[2]]
        BY <3>2
      <4>2. best[2] \in Keys
        BY DEF TypeOK, Keys
      <4>3. Requests \in 0..Requests
        BY StoreAssumption
      <4> QED BY <3>2, <4>1, <4>2, <4>3 DEF TypeOK
    <3> QED BY <3>1, <3>2
  <2>2. found' \in [Clients -> SUBSET (Nat \X Managed)]
    BY DEF TypeOK
  <2>3. TypeOK'
    BY <2>1, <2>2, ObserveType DEF TypeOK
  <2>4. UsesAKey' /\ NoLeftovers'
    BY <2>1 DEF UsesAKey, NoLeftovers, TypeOK
  <2> QED BY <2>3, <2>4
<1>4. ASSUME NEW c \in Clients, FallbackSync(c) PROVE TypeInv'
  <2> USE <1>4 DEF FallbackSync, SyncEnv
  <2>1. status' \in [Keys -> Statuses]
    BY DEF TypeOK, Statuses
  <2>2. age' \in [Keys -> 0..Window]
    <3>1. Window \in 0..Window
      BY StoreAssumption
    <3> QED BY <3>1 DEF TypeOK
  <2>3. TypeOK'
    BY <2>1, <2>2, ObserveType DEF TypeOK
  <2>4. UsesAKey' /\ NoLeftovers'
    BY DEF UsesAKey, NoLeftovers, TypeOK
  <2> QED BY <2>3, <2>4
<1>5. ASSUME NEW c \in Clients, FallbackRead(c) PROVE TypeInv'
  <2> USE <1>5 DEF FallbackRead, redis
  <2>1. EnvKey \in Keys /\ Requests \in 0..Requests
    BY StoreAssumption DEF Keys
  <2>2. TypeOK'
    BY <2>1, ObserveType DEF TypeOK
  <2>3. UsesAKey' /\ NoLeftovers'
    BY <2>1 DEF UsesAKey, NoLeftovers, TypeOK
  <2> QED BY <2>2, <2>3
<1>6. ASSUME NEW c \in Clients, Use(c) PROVE TypeInv'
  <2> USE <1>6 DEF Use
  <2>1. lease[c] \in Keys
    BY DEF UsesAKey
  <2>2. left[c] - 1 \in 0..Requests
    BY StoreAssumption DEF TypeOK
  <2>3. /\ status' \in [Keys -> Statuses]
        /\ usage' \in [Keys -> Nat]
        /\ age' \in [Keys -> 0..Window]
    BY <2>1, ReportType
  <2>4. TypeOK'
    BY <2>2, <2>3, ObserveType DEF TypeOK
  <2> QED BY <2>4 DEF UsesAKey, NoLeftovers
<1>7. ASSUME NEW c \in Clients, UseUnreported(c) PROVE TypeInv'
  <2> USE <1>7 DEF UseUnreported, redis
  <2>1. left[c] - 1 \in 0..Requests
    BY StoreAssumption DEF TypeOK
  <2>2. TypeOK'
    BY <2>1, ObserveType DEF TypeOK
  <2> QED BY <2>2 DEF UsesAKey, NoLeftovers
<1>8. ASSUME NEW c \in Clients, Release(c) PROVE TypeInv'
  <2> USE <1>8 DEF Release, redis
  <2>1. 0 \in 0..Requests
    BY StoreAssumption
  <2>2. TypeOK'
    BY <2>1, ObserveType DEF TypeOK
  <2>3. UsesAKey' /\ NoLeftovers'
    BY DEF UsesAKey, NoLeftovers, TypeOK
  <2> QED BY <2>2, <2>3
<1>9. ASSUME NEW k \in Managed, SeedId(k) PROVE TypeInv'
  BY <1>9, ObserveType DEF SeedId, client, TypeOK, UsesAKey, NoLeftovers
<1>10. ASSUME SeedHash PROVE TypeInv'
  <2>1. 0 \in 0..Window
    BY StoreAssumption
  <2>2. TypeOK'
    BY <1>10, <2>1, ObserveType DEF SeedHash, client, TypeOK, Statuses
  <2> QED BY <1>10, <2>2 DEF SeedHash, client, UsesAKey, NoLeftovers
<1>11. ASSUME NEW k \in Keys, Disable(k) PROVE TypeInv'
  <2>1. /\ status' \in [Keys -> Statuses]
        /\ usage' \in [Keys -> Nat]
        /\ age' \in [Keys -> 0..Window]
    BY <1>11, ReportType DEF Disable
  <2>2. TypeOK'
    BY <1>11, <2>1, ObserveType DEF Disable, client, TypeOK
  <2> QED BY <1>11, <2>2 DEF Disable, client, UsesAKey, NoLeftovers
<1>12. ASSUME StartSweep PROVE TypeInv'
  <2> USE <1>12 DEF StartSweep, redis, client
  <2>1. sweep' \subseteq Keys
    BY DEF TypeOK, Keys
  <2>2. TypeOK'
    BY <2>1, ObserveType DEF TypeOK
  <2> QED BY <2>2 DEF UsesAKey, NoLeftovers
<1>13. ASSUME SweepKey PROVE TypeInv'
  <2> USE <1>13 DEF SweepKey, client
  <2>1. PICK k \in First(sweep) : Reset(k) /\ sweep' = sweep \ {k}
    OBVIOUS
  <2>2. 0 \in 0..Window
    BY StoreAssumption
  <2>3. /\ ids' = ids
        /\ status' \in [Keys -> Statuses]
        /\ usage' \in [Keys -> Nat]
        /\ age' \in [Keys -> 0..Window]
    BY <2>1, <2>2 DEF Reset, TypeOK, Statuses
  <2>4. TypeOK'
    BY <2>1, <2>3, ObserveType DEF TypeOK
  <2> QED BY <2>4 DEF UsesAKey, NoLeftovers
<1>14. ASSUME Tick PROVE TypeInv'
  <2> USE <1>14 DEF Tick, client
  <2>1. age' \in [Keys -> 0..Window]
    BY StoreAssumption DEF TypeOK
  <2>2. TypeOK'
    BY <2>1, ObserveType DEF TypeOK
  <2> QED BY <2>2 DEF UsesAKey, NoLeftovers
<1>15. CASE UNCHANGED vars
  BY <1>15 DEF vars, redis, client, TypeOK, UsesAKey, NoLeftovers
<1> QED BY <1>1, <1>2, <1>3, <1>4, <1>5, <1>6, <1>7, <1>8, <1>9, <1>10, <1>11, <1>12, <1>13,
           <1>14, <1>15 DEF Next, Client

\* The store and its clients keep their types, and with them that a client using a
\* key has one and that a finished choice leaves no candidates behind.
THEOREM TypeCorrect == Spec => []TypeInv
  BY InitType, NextType, PTL DEF Spec

\* The type invariant of the runs.
THEOREM TypesHold == Spec => []TypeOK
<1>1. TypeInv => TypeOK
  BY DEF TypeInv
<1> QED BY <1>1, TypeCorrect, PTL

-----------------------------------------------------------------------------
(* What a choice hands out. *)

\* Every candidate was active when its hash was read.
FoundOpen == \A c \in Clients : \A cand \in found[c] : cand[2] \notin shut[c]

ShutInv == FoundOpen /\ ShutKeysNotLeased

LEMMA ShutInit == Init => ShutInv
  BY DEF Init, ShutInv, FoundOpen, ShutKeysNotLeased

\* The keys seen shut during a choice only become fewer.
LEMMA ShutShrinks ==
    ASSUME Observe, NEW c \in Clients
    PROVE  /\ pc'[c] = "idle" => shut'[c] = {}
           /\ pc[c] # "idle" => shut'[c] \subseteq shut[c]
           /\ \A k \in Keys : status'[k] = "active" => k \notin shut'[c]
  BY DEF Observe, Closed

\* A step that leaves a client alone leaves what is known about it.
LEMMA ShutOthers ==
    ASSUME TypeInv, ShutInv, Observe, NEW c \in Clients,
           pc'[c] = pc[c], found'[c] = found[c], lease'[c] = lease[c]
    PROVE  /\ \A cand \in found'[c] : cand[2] \notin shut'[c]
           /\ pc'[c] = "using" => lease'[c] \notin shut'[c]
<1>1. CASE pc[c] = "idle"
  BY <1>1 DEF TypeInv, NoLeftovers
<1>2. CASE pc[c] # "idle"
  BY <1>2, ShutShrinks DEF ShutInv, FoundOpen, ShutKeysNotLeased
<1> QED BY <1>1, <1>2

LEMMA ShutNext ==
    ASSUME TypeInv, ShutInv, [Next]_vars
    PROVE  ShutInv'
<1> SUFFICES ASSUME NEW c \in Clients, ~UNCHANGED vars
             PROVE  /\ \A cand \in found'[c] : cand[2] \notin shut'[c]
                    /\ pc'[c] = "using" => lease'[c] \notin shut'[c]
  BY DEF ShutInv, FoundOpen, ShutKeysNotLeased, vars, redis, client
<1>1. ASSUME NEW d \in Clients, List(d)
      PROVE  /\ \A cand \in found'[c] : cand[2] \notin shut'[c]
             /\ pc'[c] = "using" => lease'[c] \notin shut'[c]
  <2> USE <1>1 DEF List
  <2>1. CASE c = d
    BY <2>1 DEF TypeInv, TypeOK, NoLeftovers
  <2>2. CASE c # d
    BY <2>2, ShutOthers DEF TypeInv, TypeOK
  <2> QED BY <2>1, <2>2
<1>2. ASSUME NEW d \in Clients, Read(d)
      PROVE  /\ \A cand \in found'[c] : cand[2] \notin shut'[c]
             /\ pc'[c] = "using" => lease'[c] \notin shut'[c]
  <2> USE <1>2 DEF Read
  <2>1. CASE c = d
    <3>1. PICK k \in First(todo[c]) :
            found' = [found EXCEPT ![c] =
                        @ \cup (IF Leasable(k) THEN {<<usage[k], k>>} ELSE {})]
      BY <2>1
    <3>2. k \in Keys
      BY DEF First, TypeInv, TypeOK, Keys
    <3>3. Leasable(k) => k \notin shut'[c]
      BY <3>2, ShutShrinks DEF Leasable, redis
    <3>4. \A cand \in found[c] : cand[2] \notin shut'[c]
      BY <2>1, ShutShrinks DEF ShutInv, FoundOpen
    <3>5. pc'[c] # "using"
      BY <2>1
    <3> QED BY <3>1, <3>3, <3>4, <3>5 DEF TypeInv, TypeOK
  <2>2. CASE c # d
    BY <2>2, ShutOthers DEF TypeInv, TypeOK
  <2> QED BY <2>1, <2>2
<1>3. ASSUME NEW d \in Clients, Choose(d)
      PROVE  /\ \A cand \in found'[c] : cand[2] \notin shut'[c]
             /\ pc'[c] = "using" => lease'[c] \notin shut'[c]
  <2> USE <1>3 DEF Choose
  <2>1. CASE c = d /\ found[c] = {}
    BY <2>1 DEF TypeInv, TypeOK
  <2>2. CASE c = d /\ found[c] # {}
    <3>1. PICK best \in found[c] : lease' = [lease EXCEPT ![c] = best[2]]
      BY <2>2
    <3>2. lease'[c] = best[2] /\ found'[c] = {}
      BY <2>2, <3>1 DEF TypeInv, TypeOK
    <3>3. best[2] \notin shut'[c]
      BY <2>2, ShutShrinks DEF ShutInv, FoundOpen
    <3> QED BY <3>2, <3>3
  <2>3. CASE c # d
    <3>1. pc'[c] = pc[c] /\ found'[c] = found[c] /\ lease'[c] = lease[c]
      BY <2>3 DEF TypeInv, TypeOK
    <3> QED BY <3>1, ShutOthers
  <2> QED BY <2>1, <2>2, <2>3
<1>4. ASSUME NEW d \in Clients, FallbackSync(d)
      PROVE  /\ \A cand \in found'[c] : cand[2] \notin shut'[c]
             /\ pc'[c] = "using" => lease'[c] \notin shut'[c]
  <2> USE <1>4 DEF FallbackSync
  <2>1. CASE c = d
    BY <2>1 DEF TypeInv, TypeOK, NoLeftovers
  <2>2. CASE c # d
    BY <2>2, ShutOthers DEF TypeInv, TypeOK
  <2> QED BY <2>1, <2>2
<1>5. ASSUME NEW d \in Clients, FallbackRead(d)
      PROVE  /\ \A cand \in found'[c] : cand[2] \notin shut'[c]
             /\ pc'[c] = "using" => lease'[c] \notin shut'[c]
  <2> USE <1>5 DEF FallbackRead
  <2>1. CASE c = d
    <3>1. found'[c] = {}
      BY <2>1 DEF TypeInv, NoLeftovers
    <3>2. Leasable(EnvKey) => EnvKey \notin shut'[c]
      BY ShutShrinks DEF Leasable, redis, Keys
    <3> QED BY <2>1, <3>1, <3>2 DEF TypeInv, TypeOK
  <2>2. CASE c # d
    BY <2>2, ShutOthers DEF TypeInv, TypeOK
  <2> QED BY <2>1, <2>2
<1>6. ASSUME NEW d \in Clients, Use(d) \/ UseUnreported(d)
      PROVE  /\ \A cand \in found'[c] : cand[2] \notin shut'[c]
             /\ pc'[c] = "using" => lease'[c] \notin shut'[c]
  BY <1>6, ShutOthers DEF Use, UseUnreported
<1>7. ASSUME NEW d \in Clients, Release(d)
      PROVE  /\ \A cand \in found'[c] : cand[2] \notin shut'[c]
             /\ pc'[c] = "using" => lease'[c] \notin shut'[c]
  <2> USE <1>7 DEF Release
  <2>1. CASE c = d
    BY <2>1 DEF TypeInv, TypeOK, NoLeftovers
  <2>2. CASE c # d
    BY <2>2, ShutOthers DEF TypeInv, TypeOK
  <2> QED BY <2>1, <2>2
<1>8. ASSUME \/ \E k \in Managed : SeedId(k)
             \/ \E k \in Keys : Disable(k)
             \/ SeedHash \/ StartSweep \/ SweepKey \/ Tick
      PROVE  /\ \A cand \in found'[c] : cand[2] \notin shut'[c]
             /\ pc'[c] = "using" => lease'[c] \notin shut'[c]
  <2>1. Observe /\ UNCHANGED client
    BY <1>8 DEF SeedId, Disable, SeedHash, StartSweep, SweepKey, Tick
  <2> QED BY <2>1, ShutOthers DEF client
<1> QED BY <1>1, <1>2, <1>3, <1>4, <1>5, <1>6, <1>7, <1>8 DEF Next, Client

\* A choice never hands out a key that was disabled or exhausted from its beginning
\* to its end, although it reads the hashes one at a time.
THEOREM ShutNeverLeased == Spec => []ShutKeysNotLeased
<1>1. TypeInv /\ ShutInv /\ [Next]_vars => ShutInv'
  BY ShutNext
<1>2. ShutInv => ShutKeysNotLeased
  BY DEF ShutInv
<1> QED BY <1>1, <1>2, TypeCorrect, ShutInit, PTL DEF Spec

-----------------------------------------------------------------------------
(* The life of a key. *)

\* The status of a key follows from its count, except for a deliberate disable.
StatusMatchesUsage ==
    \A k \in Keys :
        /\ status[k] = "active" => ~OverQuota(usage[k])
        /\ status[k] = "exhausted" => OverQuota(usage[k])
        /\ status[k] = "absent" => usage[k] = 0

LEMMA StatusInit == Init => StatusMatchesUsage
  BY DEF Init, StatusMatchesUsage

LEMMA StatusNext ==
    ASSUME TypeInv, StatusMatchesUsage, [Next]_vars
    PROVE  StatusMatchesUsage'
<1> USE DEF TypeInv
<1>0. ~OverQuota(0)
  BY StoreAssumption DEF OverQuota
<1>1. ASSUME NEW k \in Keys, NEW calls \in Nat, NEW disable \in BOOLEAN,
             Report(k, calls, disable)
      PROVE  StatusMatchesUsage'
  <2>1. \A j \in Keys \ {k} : status'[j] = status[j] /\ usage'[j] = usage[j]
    BY <1>1 DEF Report, TypeOK
  <2>2. /\ usage'[k] = usage[k] + calls
        /\ status'[k] = Reported(status[k], usage[k] + calls, disable)
        /\ status[k] # "absent"
    BY <1>1 DEF Report, TypeOK
  <2>3. /\ status'[k] = "active" => ~OverQuota(usage'[k])
        /\ status'[k] = "exhausted" => OverQuota(usage'[k])
        /\ status'[k] # "absent"
    <3>1. CASE disable \/ status[k] = "disabled"
      BY <3>1, <2>2 DEF Reported
    <3>2. CASE ~(disable \/ status[k] = "disabled") /\ OverQuota(usage[k] + calls)
      BY <3>2, <2>2 DEF Reported
    <3>3. CASE ~(disable \/ status[k] = "disabled") /\ ~OverQuota(usage[k] + calls)
      <4>1. status[k] # "exhausted"
        BY <1>1, <3>3, StoreAssumption DEF StatusMatchesUsage, OverQuota, TypeOK
      <4> QED BY <3>3, <4>1, <2>2 DEF Reported
    <3> QED BY <3>1, <3>2, <3>3
  <2> QED BY <2>1, <2>3 DEF StatusMatchesUsage
<1>2. ASSUME NEW c \in Clients, FallbackSync(c) PROVE StatusMatchesUsage'
  <2> USE <1>2 DEF FallbackSync, SyncEnv
  <2>1. \A j \in Keys \ {EnvKey} : status'[j] = status[j]
    BY DEF TypeOK
  <2>2. /\ status'[EnvKey] = IF status[EnvKey] = "disabled" THEN "disabled"
                             ELSE IF OverQuota(usage[EnvKey]) THEN "exhausted" ELSE "active"
        /\ usage' = usage
    BY DEF TypeOK, Keys
  <2> QED BY <2>1, <2>2 DEF StatusMatchesUsage
<1>3. ASSUME SeedHash PROVE StatusMatchesUsage'
  BY <1>0, <1>3 DEF SeedHash, StatusMatchesUsage, TypeOK, Keys
<1>4. ASSUME NEW k \in Keys, Reset(k) PROVE StatusMatchesUsage'
  BY <1>0, <1>4 DEF Reset, StatusMatchesUsage, TypeOK
<1>5. ASSUME NEW c \in Clients, Use(c) PROVE StatusMatchesUsage'
  BY <1>1, <1>5 DEF Use, UsesAKey
<1>6. ASSUME NEW k \in Keys, Disable(k) PROVE StatusMatchesUsage'
  BY <1>1, <1>6 DEF Disable
<1>7. ASSUME SweepKey PROVE StatusMatchesUsage'
  BY <1>4, <1>7 DEF SweepKey, First, TypeOK
<1>8. ASSUME NEW c \in Clients,
             List(c) \/ Read(c) \/ Choose(c) \/ FallbackRead(c) \/ UseUnreported(c) \/ Release(c)
      PROVE  StatusMatchesUsage'
  BY <1>8 DEF List, Read, Choose, FallbackRead, UseUnreported, Release, redis,
              StatusMatchesUsage
<1>9. ASSUME (\E k \in Managed : SeedId(k)) \/ StartSweep \/ Tick PROVE StatusMatchesUsage'
  BY <1>9 DEF SeedId, StartSweep, Tick, redis, StatusMatchesUsage
<1>10. CASE UNCHANGED vars
  BY <1>10 DEF vars, redis, StatusMatchesUsage
<1> QED BY <1>2, <1>3, <1>5, <1>6, <1>7, <1>8, <1>9, <1>10 DEF Next, Client

LEMMA LifecycleInit == Init => Lifecycle!Init
  BY DEF Init, Lifecycle!Init

\* Each step of the store is a step of one key's life or changes no key.
LEMMA LifecycleStep ==
    ASSUME TypeInv, StatusMatchesUsage, [Next]_vars
    PROVE  [Lifecycle!Next]_(Lifecycle!vars)
<1> USE DEF TypeInv
<1>1. ASSUME NEW c \in Clients, Use(c) PROVE Lifecycle!Next
  <2> DEFINE k == lease[c]
  <2>1. k \in Keys /\ Report(k, 1, FALSE)
    BY <1>1 DEF Use, UsesAKey
  <2>2. Reported(status[k], usage[k] + 1, FALSE) =
          IF status[k] # "disabled" /\ Quota > 0 /\ usage[k] + 1 >= Quota
          THEN "exhausted" ELSE status[k]
    BY DEF Reported, OverQuota
  <2>3. Lifecycle!Spend(k)
    BY <1>1, <2>1, <2>2 DEF Use, Report, Lifecycle!Spend, Lifecycle!Set
  <2> QED BY <2>1, <2>3 DEF Lifecycle!Next
<1>2. ASSUME NEW k \in Keys, Disable(k) PROVE Lifecycle!Next
  <2>1. Report(k, 0, TRUE) /\ UNCHANGED seeding
    BY <1>2 DEF Disable
  <2>0. usage[k] \in Nat
    BY DEF TypeOK
  <2>2. usage' = [usage EXCEPT ![k] = usage[k]]
    <3>1. usage' = [usage EXCEPT ![k] = usage[k] + 0]
      BY <2>1 DEF Report
    <3>2. usage[k] + 0 = usage[k]
      BY <2>0
    <3> QED BY <3>1, <3>2
  <2>3. Lifecycle!Disable(k)
    BY <2>1, <2>2 DEF Report, Reported, Lifecycle!Disable, Lifecycle!Set
  <2> QED BY <2>3 DEF Lifecycle!Next
<1>3. ASSUME NEW c \in Clients, FallbackSync(c) PROVE Lifecycle!Next \/ UNCHANGED Lifecycle!vars
  <2> USE <1>3 DEF FallbackSync, SyncEnv
  <2>1. CASE status[EnvKey] = "absent"
    <3>1. usage[EnvKey] = 0 /\ ~OverQuota(usage[EnvKey]) /\ EnvKey \in Keys
      BY <2>1, StoreAssumption DEF StatusMatchesUsage, OverQuota, Keys
    <3>2. Lifecycle!Track(EnvKey)
      BY <2>1, <3>1 DEF Lifecycle!Track, Lifecycle!Set, TypeOK
    <3>3. EnvKey \in Keys \ Managed
      BY <3>1 DEF EnvKey, Managed
    <3> QED BY <3>2, <3>3 DEF Lifecycle!Next
  <2>2. CASE status[EnvKey] # "absent"
    <3>1. EnvKey \in Keys /\ status[EnvKey] \in {"active", "exhausted", "disabled"}
      BY <2>2 DEF TypeOK, Statuses, Keys
    <3>2. status' = status
      BY <3>1 DEF StatusMatchesUsage, TypeOK
    <3> QED BY <3>2 DEF Lifecycle!vars
  <2> QED BY <2>1, <2>2
<1>4. ASSUME SeedHash PROVE Lifecycle!Next
  BY <1>4 DEF SeedHash, Keys, Lifecycle!Next, Lifecycle!Seed, Lifecycle!Set
<1>5. ASSUME SweepKey PROVE Lifecycle!Next \/ UNCHANGED Lifecycle!vars
  <2>1. PICK k \in First(sweep) : Reset(k) /\ UNCHANGED seeding
    BY <1>5 DEF SweepKey
  <2>2. k \in Keys
    BY DEF First, TypeOK
  <2>3. CASE Due(k)
    <3>1. Lifecycle!Recover(k)
      BY <2>1, <2>3 DEF Reset, Due, Lifecycle!Recover, Lifecycle!Set
    <3> QED BY <2>2, <3>1 DEF Lifecycle!Next
  <2>4. CASE ~Due(k)
    BY <2>1, <2>4 DEF Reset, Lifecycle!vars
  <2> QED BY <2>3, <2>4
<1>6. ASSUME NEW c \in Clients,
             List(c) \/ Read(c) \/ Choose(c) \/ FallbackRead(c) \/ UseUnreported(c) \/ Release(c)
      PROVE  UNCHANGED Lifecycle!vars
  BY <1>6 DEF List, Read, Choose, FallbackRead, UseUnreported, Release, redis, Lifecycle!vars
<1>7. ASSUME StartSweep \/ Tick PROVE UNCHANGED Lifecycle!vars
  BY <1>7 DEF StartSweep, Tick, redis, Lifecycle!vars
<1>9. ASSUME NEW k \in Managed, SeedId(k) PROVE Lifecycle!Next
  BY <1>9 DEF SeedId, Lifecycle!Next, Lifecycle!Nominate
<1>8. CASE UNCHANGED vars
  BY <1>8 DEF vars, redis, Lifecycle!vars
<1> QED BY <1>1, <1>2, <1>3, <1>4, <1>5, <1>6, <1>7, <1>8, <1>9 DEF Next, Client

\* The store implements KeyLifecycle: however clients, operator and sweep interleave,
\* a key is spent, exhausted at its quota, recovered and disabled like the abstract one,
\* and a disabled one comes back by the end of a seeding of that key and no other way.
THEOREM StoreImplementsLifecycle == Spec => LifecycleSpec
<1>1. TypeInv /\ StatusMatchesUsage /\ [Next]_vars => StatusMatchesUsage'
  BY StatusNext
<1>2. TypeInv /\ StatusMatchesUsage /\ [Next]_vars => [Lifecycle!Next]_(Lifecycle!vars)
  BY LifecycleStep
<1> QED BY <1>1, <1>2, TypeCorrect, StatusInit, LifecycleInit, PTL
        DEF Spec, LifecycleSpec, Lifecycle!Spec

-----------------------------------------------------------------------------
(* How far a quota can be overspent. *)

\* The requests that may still be reported on a key: those left on its leases, and
\* those of the leases that running choices may turn it into.
Claims(k) ==
    {claim \in Clients \X (1..Requests) :
        \/ /\ pc[claim[1]] = "using"
           /\ lease[claim[1]] = k
           /\ claim[2] <= left[claim[1]]
        \/ /\ pc[claim[1]] = "reading"
           /\ \E cand \in found[claim[1]] : cand[2] = k}

Crawls == Cardinality(Clients) * Requests

Within(k) == Quota > 0 => usage[k] + Cardinality(Claims(k)) <= Quota - 1 + Crawls

SpendInv == \A k \in Keys : Within(k)

LEMMA CrawlsType == Crawls \in Nat
<1>1. Cardinality(Clients) \in Nat /\ Requests \in Nat
  BY StoreAssumption, FS_CardinalityType
<1> QED BY <1>1 DEF Crawls

\* There are never more claims than requests in a crawl of every client.
LEMMA ClaimsCount ==
    ASSUME NEW S \in SUBSET (Clients \X (1..Requests))
    PROVE  IsFiniteSet(S) /\ Cardinality(S) \in Nat /\ Cardinality(S) <= Crawls
<1>1. IsFiniteSet(1..Requests) /\ Cardinality(1..Requests) = Requests
  <2>1. Requests \in Nat
    BY StoreAssumption
  <2>2. /\ IsFiniteSet(1..Requests)
        /\ Cardinality(1..Requests) = IF 1 > Requests THEN 0 ELSE Requests - 1 + 1
    BY <2>1, FS_Interval
  <2> QED BY <2>1, <2>2
<1>2. /\ IsFiniteSet(Clients \X (1..Requests))
      /\ Cardinality(Clients \X (1..Requests)) = Crawls
  BY <1>1, StoreAssumption, FS_Product DEF Crawls
<1>3. IsFiniteSet(S) /\ Cardinality(S) <= Cardinality(Clients \X (1..Requests))
  BY <1>2, FS_Subset
<1> QED BY <1>2, <1>3, FS_CardinalityType

\* A key within its quota may be claimed by everyone.
LEMMA WithinQuota ==
    ASSUME NEW k \in Keys, usage'[k] \in Nat, Quota > 0 => usage'[k] < Quota
    PROVE  Within(k)'
<1>1. Claims(k)' \in SUBSET (Clients \X (1..Requests))
  BY DEF Claims
<1>2. Cardinality(Claims(k)') \in Nat /\ Cardinality(Claims(k)') <= Crawls
  BY <1>1, ClaimsCount
<1> QED BY <1>2, CrawlsType, StoreAssumption DEF Within

\* A key that is spent no further and claimed by no one new stays within.
LEMMA NoNewClaims ==
    ASSUME NEW k \in Keys, Within(k), usage[k] \in Nat, usage'[k] \in Nat,
           usage'[k] <= usage[k], Claims(k)' \subseteq Claims(k)
    PROVE  Within(k)'
<1>1. Claims(k) \in SUBSET (Clients \X (1..Requests))
  BY DEF Claims
<1>2. IsFiniteSet(Claims(k)) /\ Cardinality(Claims(k)) \in Nat
  BY <1>1, ClaimsCount
<1>3. /\ Cardinality(Claims(k)') \in Nat
      /\ Cardinality(Claims(k)') <= Cardinality(Claims(k))
  BY <1>2, FS_Subset, FS_CardinalityType
<1> QED BY <1>2, <1>3, CrawlsType, StoreAssumption DEF Within

LEMMA SpendInit == Init => SpendInv
<1> SUFFICES ASSUME Init, NEW k \in Keys PROVE Within(k)
  BY DEF SpendInv
<1>1. Claims(k) \in SUBSET (Clients \X (1..Requests))
  BY DEF Claims
<1>2. Cardinality(Claims(k)) \in Nat /\ Cardinality(Claims(k)) <= Crawls
  BY <1>1, ClaimsCount
<1>3. usage[k] = 0
  BY DEF Init
<1> QED BY <1>2, <1>3, CrawlsType, StoreAssumption DEF Within

LEMMA SpendNext ==
    ASSUME TypeInv, TypeInv', SpendInv, [Next]_vars
    PROVE  SpendInv'
<1> SUFFICES ASSUME NEW k \in Keys PROVE Within(k)'
  BY DEF SpendInv, Keys, Managed
<1>0. usage[k] \in Nat /\ usage'[k] \in Nat /\ Within(k)
  BY DEF TypeInv, TypeOK, SpendInv
<1>1. ASSUME NEW c \in Clients, List(c) PROVE Within(k)'
  <2>1. Claims(k)' \subseteq Claims(k) /\ usage' = usage
    BY <1>1 DEF List, redis, Claims, TypeInv, TypeOK, NoLeftovers
  <2> QED BY <2>1, <1>0, NoNewClaims
<1>2. ASSUME NEW c \in Clients, Read(c) PROVE Within(k)'
  <2>1. usage' = usage
    BY <1>2 DEF Read, redis
  <2>2. CASE Leasable(k)
    <3>1. Quota > 0 => usage'[k] < Quota
      BY <1>0, <2>1, <2>2, StoreAssumption DEF Leasable, OverQuota
    <3> QED BY <1>0, <3>1, WithinQuota
  <2>3. CASE ~Leasable(k)
    <3>1. \A d \in Clients : \A cand \in found'[d] :
             cand[2] = k => cand \in found[d]
      BY <1>2, <2>3 DEF Read, TypeInv, TypeOK
    <3>2. Claims(k)' \subseteq Claims(k)
      BY <1>2, <3>1 DEF Read, Claims
    <3> QED BY <1>0, <2>1, <3>2, NoNewClaims
  <2> QED BY <2>2, <2>3
<1>3. ASSUME NEW c \in Clients, Choose(c) PROVE Within(k)'
  <2>1. usage' = usage
    BY <1>3 DEF Choose, redis
  <2>2. ASSUME NEW claim \in Claims(k)' PROVE claim \in Claims(k)
    <3>1. CASE claim[1] # c
      BY <1>3, <2>2, <3>1 DEF Choose, Claims, TypeInv, TypeOK
    <3>2. CASE claim[1] = c /\ found[c] = {}
      BY <1>3, <2>2, <3>2 DEF Choose, Claims, TypeInv, TypeOK
    <3>3. CASE claim[1] = c /\ found[c] # {}
      <4>1. PICK best \in found[c] : lease' = [lease EXCEPT ![c] = best[2]]
        BY <1>3, <3>3 DEF Choose
      <4>2. pc[c] = "reading" /\ pc'[c] = "using" /\ lease'[c] = best[2]
        BY <1>3, <3>3, <4>1 DEF Choose, TypeInv, TypeOK
      <4> QED BY <2>2, <3>3, <4>2 DEF Claims
    <3> QED BY <3>1, <3>2, <3>3
  <2> QED BY <1>0, <2>1, <2>2, NoNewClaims
<1>4. ASSUME NEW c \in Clients, FallbackSync(c) PROVE Within(k)'
  <2>1. Claims(k)' \subseteq Claims(k) /\ usage' = usage
    BY <1>4 DEF FallbackSync, SyncEnv, Claims, TypeInv, TypeOK
  <2> QED BY <2>1, <1>0, NoNewClaims
<1>5. ASSUME NEW c \in Clients, FallbackRead(c) PROVE Within(k)'
  <2>1. usage' = usage
    BY <1>5 DEF FallbackRead, redis
  <2>2. CASE k = EnvKey /\ Leasable(EnvKey)
    <3>1. Quota > 0 => usage'[k] < Quota
      BY <1>0, <2>1, <2>2, StoreAssumption DEF Leasable, OverQuota
    <3> QED BY <1>0, <3>1, WithinQuota
  <2>3. CASE ~(k = EnvKey /\ Leasable(EnvKey))
    <3>1. Claims(k)' \subseteq Claims(k)
      BY <1>5, <2>3 DEF FallbackRead, Claims, TypeInv, TypeOK
    <3> QED BY <1>0, <2>1, <3>1, NoNewClaims
  <2> QED BY <2>2, <2>3
<1>6. ASSUME NEW c \in Clients, Use(c) PROVE Within(k)'
  <2>1. lease[c] \in Keys /\ left[c] \in 1..Requests
    BY <1>6, StoreAssumption DEF Use, TypeInv, TypeOK, UsesAKey
  <2>2. Claims(k)' \subseteq Claims(k)
    BY <1>6 DEF Use, Claims, TypeInv, TypeOK
  <2>3. CASE k # lease[c]
    <3>1. usage'[k] = usage[k]
      BY <1>6, <2>1, <2>3 DEF Use, Report, TypeInv, TypeOK
    <3> QED BY <1>0, <2>2, <3>1, NoNewClaims
  <2>4. CASE k = lease[c]
    <3> DEFINE claim == <<c, left[c]>>
    <3>1. usage'[k] = usage[k] + 1
      BY <1>6, <2>1, <2>4 DEF Use, Report, TypeInv, TypeOK
    <3>2. claim \in Claims(k)
      BY <1>6, <2>1, <2>4 DEF Use, Claims
    <3>3. claim \notin Claims(k)'
      BY <1>6, <2>1 DEF Use, Claims, TypeInv, TypeOK
    <3>4. Claims(k) \in SUBSET (Clients \X (1..Requests))
      BY DEF Claims
    <3>5. IsFiniteSet(Claims(k)) /\ Cardinality(Claims(k)) \in Nat
      BY <3>4, ClaimsCount
    <3>6. /\ IsFiniteSet(Claims(k) \ {claim})
          /\ Cardinality(Claims(k) \ {claim}) = Cardinality(Claims(k)) - 1
      BY <3>2, <3>5, FS_RemoveElement
    <3>7. Claims(k)' \subseteq Claims(k) \ {claim}
      BY <2>2, <3>3
    <3>8. /\ Cardinality(Claims(k)') \in Nat
          /\ Cardinality(Claims(k)') <= Cardinality(Claims(k)) - 1
      BY <3>6, <3>7, FS_Subset, FS_CardinalityType
    <3> QED BY <1>0, <3>1, <3>5, <3>8, CrawlsType, StoreAssumption DEF Within
  <2> QED BY <2>3, <2>4
<1>7. ASSUME NEW c \in Clients, UseUnreported(c) \/ Release(c) PROVE Within(k)'
  <2>1. Claims(k)' \subseteq Claims(k) /\ usage' = usage
    BY <1>7 DEF UseUnreported, Release, redis, Claims, TypeInv, TypeOK
  <2> QED BY <2>1, <1>0, NoNewClaims
<1>8. ASSUME NEW j \in Keys, Disable(j) PROVE Within(k)'
  <2>1. Claims(k)' \subseteq Claims(k) /\ usage'[k] <= usage[k]
    BY <1>8, <1>0 DEF Disable, Report, client, Claims, TypeInv, TypeOK
  <2> QED BY <2>1, <1>0, NoNewClaims
<1>9. ASSUME SeedHash \/ SweepKey PROVE Within(k)'
  <2>1. Claims(k)' \subseteq Claims(k)
    BY <1>9 DEF SeedHash, SweepKey, client, Claims
  <2>2. usage'[k] <= usage[k]
    <3>1. CASE SeedHash
      BY <1>0, <3>1 DEF SeedHash, TypeInv, TypeOK
    <3>2. CASE SweepKey
      BY <1>0, <3>2 DEF SweepKey, Reset, TypeInv, TypeOK
    <3> QED BY <1>9, <3>1, <3>2
  <2> QED BY <2>1, <2>2, <1>0, NoNewClaims
<1>10. ASSUME (\E j \in Managed : SeedId(j)) \/ StartSweep \/ Tick \/ UNCHANGED vars
       PROVE  Within(k)'
  <2>1. Claims(k)' \subseteq Claims(k) /\ usage' = usage
    BY <1>10 DEF SeedId, StartSweep, Tick, vars, redis, client, Claims
  <2> QED BY <2>1, <1>0, NoNewClaims
<1> QED BY <1>1, <1>2, <1>3, <1>4, <1>5, <1>6, <1>7, <1>8, <1>9, <1>10 DEF Next, Client

\* However many clients chose one key from the same count, it is used past its quota
\* by no more than one crawl of each client.
THEOREM OverspendIsBounded == Spec => []OverspendBounded
<1>1. TypeInv /\ TypeInv' /\ SpendInv /\ [Next]_vars => SpendInv'
  BY SpendNext
<1>2. TypeInv /\ SpendInv => OverspendBounded
  <2> SUFFICES ASSUME TypeInv, SpendInv, Quota > 0, NEW k \in Keys
               PROVE  usage[k] <= Quota - 1 + Crawls
    BY DEF OverspendBounded, Crawls
  <2>1. Claims(k) \in SUBSET (Clients \X (1..Requests))
    BY DEF Claims
  <2>2. Cardinality(Claims(k)) \in Nat
    BY <2>1, ClaimsCount
  <2>3. usage[k] \in Nat
    BY DEF TypeInv, TypeOK
  <2> QED BY <2>2, <2>3, CrawlsType, StoreAssumption DEF SpendInv, Within
<1> QED BY <1>1, <1>2, TypeCorrect, SpendInit, PTL DEF Spec
=============================================================================
