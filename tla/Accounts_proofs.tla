--------------------------- MODULE Accounts_proofs ----------------------------
(***************************************************************************)
(* Theorems about what belongs to an account, for any number of people,    *)
(* tokens, requests and threads and any limits: the agent tokens, the      *)
(* profile, the shared folders and the public links of itineraries.        *)
(***************************************************************************)
EXTENDS Api, TimeWindows

-----------------------------------------------------------------------------
(***************************************************************************)
(* Agent tokens: the types, the cap on live tokens, that a revoked token   *)
(* admits nothing, and that a token is let through its limit of times in   *)
(* any window.                                                             *)
(***************************************************************************)

\* Only the thread that holds the account's row is between counting and the
\* commit: the lock serialises minting.
LockHeld ==
    \A s \in Slots : call[s].pc \in {"count", "insert"} => userLock = s

\* Clocks are read before they are used.
ClocksPast == \A s \in Slots : call[s].pc # "idle" => call[s].now <= clock

\* Who has counted below the cap still may insert.
RoomLeft ==
    \A s \in Slots : call[s].pc = "insert" =>
        Cardinality({t \in Tokens : Live(t, clock)}) < Cap

\* A request to be admitted names a row.
Named == \A s \in Slots : call[s].pc \in {"hit", "window", "admit"} => call[s].tok \in Tokens

\* There is no revocation without a row.
RevokedRows == \A t \in Tokens : token[t].revoked => token[t].made

CapInv ==
    /\ TokensTypeOK
    /\ LockHeld /\ ClocksPast /\ Named
    /\ RoomLeft /\ TokenCap
    /\ RevokedRows

-----------------------------------------------------------------------------
\* Fewer tokens live later.
LEMMA LiveShrinks ==
    ASSUME TokensTypeOK, NEW now \in Nat, NEW later \in Nat, now <= later
    PROVE  /\ IsFiniteSet({t \in Tokens : Live(t, now)})
           /\ IsFiniteSet({t \in Tokens : Live(t, later)})
           /\ Cardinality({t \in Tokens : Live(t, now)}) \in Nat
           /\ Cardinality({t \in Tokens : Live(t, later)})
                <= Cardinality({t \in Tokens : Live(t, now)})
           /\ Cardinality({t \in Tokens : Live(t, later)}) \in Nat
<1> DEFINE L(n) == {t \in Tokens : Live(t, n)}
<1>1. L(later) \subseteq L(now)
  BY DEF Live, TokensTypeOK, Row
<1>2. IsFiniteSet(L(now)) /\ IsFiniteSet(L(later))
  BY TokensAssumption, FS_Subset
<1>3. Cardinality(L(now)) \in Nat /\ Cardinality(L(later)) \in Nat
  BY <1>2, FS_CardinalityType
<1>4. Cardinality(L(later)) <= Cardinality(L(now))
  BY <1>1, <1>2, FS_Subset
<1> QED BY <1>2, <1>3, <1>4

\* The rows of a step whose live tokens are among those of before.
LEMMA FewerLive ==
    ASSUME TokensTypeOK, TokensTypeOK', clock <= clock',
           \A t \in Tokens : Live(t, clock)' => Live(t, clock)
    PROVE  /\ Cardinality({t \in Tokens : Live(t, clock)'})
                <= Cardinality({t \in Tokens : Live(t, clock)})
           /\ Cardinality({t \in Tokens : Live(t, clock)'}) \in Nat
           /\ Cardinality({t \in Tokens : Live(t, clock)}) \in Nat
<1> DEFINE A == {t \in Tokens : Live(t, clock)'}
           B == {t \in Tokens : Live(t, clock)}
<1>1. A \subseteq B
  OBVIOUS
<1>2. IsFiniteSet(A) /\ IsFiniteSet(B)
  BY TokensAssumption, FS_Subset
<1>3. Cardinality(A) \in Nat /\ Cardinality(B) \in Nat
  BY <1>2, FS_CardinalityType
<1>4. Cardinality(A) <= Cardinality(B)
  BY <1>1, <1>2, FS_Subset
<1> QED BY <1>3, <1>4

\* Sequences of times stay sequences of times.
LEMMA PrunedType ==
    ASSUME NEW h \in Seq(Nat), NEW now \in Nat
    PROVE  Pruned(h, now) \in Seq(Nat)
<1>1. IsFiniteSet(1..Len(h))
  BY FS_Interval
<1>2. IsFiniteSet(Stale(h, now))
  BY <1>1, FS_Subset DEF Stale
<1>3. Cardinality(Stale(h, now)) \in Nat
  BY <1>2, FS_CardinalityType
<1> QED BY <1>3 DEF Pruned

LEMMA SweptType ==
    ASSUME TokensTypeOK, NEW now \in Nat
    PROVE  Swept(now) \in [Tokens -> Seq(Nat)]
<1>1. <<>> \in Seq(Nat)
  OBVIOUS
<1> QED BY <1>1 DEF Swept, TokensTypeOK

-----------------------------------------------------------------------------
LEMMA CapInit == TokensInit => CapInv
<1> SUFFICES ASSUME TokensInit PROVE CapInv
  OBVIOUS
<1>1. PICK held \in SUBSET Tokens, d \in Lifetimes :
         /\ IsFiniteSet(held) /\ Cardinality(held) <= Cap
         /\ token = [t \in Tokens |-> IF t \in held
                       THEN [Absent EXCEPT !.made = TRUE, !.expires = d] ELSE Absent]
         /\ registered \in IF held = {} THEN BOOLEAN ELSE {TRUE}
  BY DEF TokensInit
<1>2. TokensTypeOK
  <2>1. token \in [Tokens -> Row]
    BY <1>1, TokensAssumption DEF Row, Absent
  <2>2. registered \in BOOLEAN
    BY <1>1
  <2>3. <<>> \in Seq(Nat)
    OBVIOUS
  <2>4. Idle \in Call
    BY DEF Idle, Call
  <2>5. hits \in [Tokens -> Seq(Nat)] /\ allowed \in [Tokens -> Seq(Nat)]
    BY <2>3 DEF TokensInit
  <2>6. call \in [Slots -> Call]
    BY <2>4 DEF TokensInit
  <2>7. clock = 0 /\ lastSweep = 0 /\ requests = 0 /\ disordered = FALSE /\ userLock = Nobody
    BY DEF TokensInit
  <2>8. clock \in 0..MaxTime /\ requests \in 0..MaxRequests /\ lastSweep \in Nat
    BY <2>7, TokensAssumption
  <2>9. disordered \in BOOLEAN /\ userLock \in Slots \cup {Nobody}
    BY <2>7
  <2> QED BY <2>1, <2>2, <2>5, <2>6, <2>8, <2>9 DEF TokensTypeOK
<1>3. TokenCap
  <2> DEFINE L == {t \in Tokens : Live(t, clock)}
  <2>1. L \subseteq held
    BY <1>1 DEF Live, Absent
  <2>2. Cardinality(L) <= Cardinality(held) /\ IsFiniteSet(L)
    BY <1>1, <2>1, FS_Subset
  <2>3. Cardinality(L) \in Nat /\ Cardinality(held) \in Nat
    BY <1>1, <2>2, FS_CardinalityType
  <2> QED BY <1>1, <2>2, <2>3, TokensAssumption DEF TokenCap
<1>4. LockHeld /\ ClocksPast /\ RoomLeft /\ Named /\ RevokedRows
  BY <1>1 DEF TokensInit, Idle, Absent, LockHeld, ClocksPast, RoomLeft, Named, RevokedRows
<1> QED BY <1>2, <1>3, <1>4 DEF CapInv

\* A request that changes one field of its call keeps a call.
LEMMA CallTypes ==
    /\ Idle \in Call
    /\ \A c \in Call, d \in Nat :
          /\ [c EXCEPT !.life = d] \in Call
          /\ \A p \in {"idle", "register", "lock", "count", "insert", "hit", "window", "admit"} :
                [c EXCEPT !.pc = p] \in Call
BY DEF Idle, Call

\* The types, action by action.
LEMMA TokensTypesKept == CapInv /\ [TokensNext]_tokVars => TokensTypeOK'
<1> SUFFICES ASSUME CapInv, [TokensNext]_tokVars PROVE TokensTypeOK'
  OBVIOUS
<1> USE TokensAssumption DEF CapInv, TokensTypeOK, rows, limiter
<1>1. CASE UNCHANGED tokVars
  BY <1>1 DEF tokVars
<1>2. ASSUME NEW s \in Slots, RegisterCheck(s) PROVE TokensTypeOK'
  <2>1. [Idle EXCEPT !.pc = "register"] \in Call
    BY CallTypes
  <2> QED BY <1>2, <2>1 DEF RegisterCheck, Begin
<1>3. ASSUME NEW s \in Slots, RegisterCommit(s) PROVE TokensTypeOK'
  BY <1>3, CallTypes DEF RegisterCommit, Finish
<1>4. ASSUME NEW s \in Slots, MintStart(s) PROVE TokensTypeOK'
  <2>1. PICK d \in Lifetimes : Begin(s, [Idle EXCEPT !.pc = "lock", !.now = clock, !.life = d])
    BY <1>4 DEF MintStart
  <2>2. clock \in Nat /\ d \in Nat
    OBVIOUS
  <2>3. [Idle EXCEPT !.pc = "lock", !.now = clock, !.life = d] \in Call
    BY <2>2 DEF Idle, Call
  <2> QED BY <1>4, <2>1, <2>3 DEF MintStart, Begin
<1>5. ASSUME NEW s \in Slots, MintLock(s) \/ MintAllowed(s) PROVE TokensTypeOK'
  <2>1. [call[s] EXCEPT !.pc = "count"] \in Call /\ [call[s] EXCEPT !.pc = "insert"] \in Call
    BY CallTypes
  <2>2. call' \in [Slots -> Call]
    BY <1>5, <2>1 DEF MintLock, MintAllowed, Goto
  <2> QED BY <1>5, <2>2 DEF MintLock, MintAllowed
<1>6. ASSUME NEW s \in Slots, MintRefused(s) PROVE TokensTypeOK'
  BY <1>6, CallTypes DEF MintRefused, Finish, Release
<1>7. ASSUME NEW s \in Slots, MintCommit(s) PROVE TokensTypeOK'
  <2>1. PICK t \in Tokens :
          token' = [token EXCEPT ![t] =
                [Absent EXCEPT !.made = TRUE, !.expires = call[s].now + call[s].life]]
    BY <1>7 DEF MintCommit
  <2>2. call[s].now + call[s].life \in Nat
    BY DEF Call
  <2>3. [Absent EXCEPT !.made = TRUE, !.expires = call[s].now + call[s].life] \in Row
    BY <2>2 DEF Absent, Row
  <2>4. token' \in [Tokens -> Row]
    BY <2>1, <2>3
  <2>5. call' \in [Slots -> Call]
    BY <1>7, CallTypes DEF MintCommit, Finish
  <2> QED BY <1>7, <2>4, <2>5 DEF MintCommit, Release
<1>8. ASSUME NEW s \in Slots, Revoke(s) PROVE TokensTypeOK'
  <2>1. PICK t \in Tokens : token' = [token EXCEPT ![t].revoked = TRUE]
    BY <1>8 DEF Revoke
  <2>2. [token[t] EXCEPT !.revoked = TRUE] \in Row
    BY DEF Row
  <2>3. token' \in [Tokens -> Row]
    BY <2>1, <2>2
  <2> QED BY <1>8, <2>3 DEF Revoke
<1>9. ASSUME NEW s \in Slots, Lookup(s) PROVE TokensTypeOK'
  <2>1. PICK t \in Tokens : Begin(s, [Idle EXCEPT !.pc = "hit", !.tok = t, !.now = clock])
    BY <1>9 DEF Lookup
  <2>2. clock \in Nat
    OBVIOUS
  <2>3. [Idle EXCEPT !.pc = "hit", !.tok = t, !.now = clock] \in Call
    BY <2>2 DEF Idle, Call
  <2> QED BY <1>9, <2>1, <2>3 DEF Lookup, Begin
<1>10. ASSUME NEW s \in Slots, ReadClock(s) PROVE TokensTypeOK'
  <2>1. clock \in Nat /\ call[s] \in Call
    OBVIOUS
  <2>2. [call[s] EXCEPT !.pc = "window", !.life = clock] \in Call
    BY <2>1 DEF Call
  <2> QED BY <1>10, <2>2 DEF ReadClock
<1>11. ASSUME NEW s \in Slots, Hit(s) PROVE TokensTypeOK'
  <2> DEFINE t      == call[s].tok
             now    == call[s].life
             window == Pruned(Swept(now)[t], now)
  <2>1. now \in Nat /\ t \in Tokens
    BY <1>11 DEF Hit, Named, Call
  <2>2. Swept(now) \in [Tokens -> Seq(Nat)]
    BY <2>1, SweptType
  <2>3. window \in Seq(Nat)
    BY <2>1, <2>2, PrunedType
  <2>4. Append(window, now) \in Seq(Nat)
    BY <2>1, <2>3
  <2>5. hits' \in [Tokens -> Seq(Nat)]
    <3> HIDE DEF now, t
    <3>1. hits' = [Swept(now) EXCEPT ![t] = window]
          \/ hits' = [Swept(now) EXCEPT ![t] = Append(window, now)]
      BY <1>11 DEF Hit, now, t
    <3> HIDE DEF window
    <3> QED BY <3>1, <2>2, <2>3, <2>4
  <2>6. allowed' \in [Tokens -> Seq(Nat)] /\ disordered' \in BOOLEAN
    <3>1. Append(allowed[t], now) \in Seq(Nat)
      BY <2>1
    <3>2. allowed' = allowed \/ allowed' = [allowed EXCEPT ![t] = Append(@, now)]
      BY <1>11 DEF Hit
    <3>3. disordered' \in BOOLEAN
      BY <1>11 DEF Hit
    <3> QED BY <3>1, <3>2, <3>3
  <2>7. lastSweep' \in Nat
    BY <1>11, <2>1 DEF Hit
  <2>8. call' \in [Slots -> Call]
    <3>1. call' = [call EXCEPT ![s] = Idle] \/ call' = [call EXCEPT ![s].pc = "admit"]
      BY <1>11 DEF Hit, Goto, Finish
    <3>2. Idle \in Call /\ [call[s] EXCEPT !.pc = "admit"] \in Call
      BY CallTypes
    <3> QED BY <3>1, <3>2
  <2> QED BY <1>11, <2>5, <2>6, <2>7, <2>8 DEF Hit
<1>12. ASSUME NEW s \in Slots, Admit(s) PROVE TokensTypeOK'
  <2> DEFINE t == call[s].tok
  <2>1. t \in Tokens
    BY <1>12 DEF Admit, Named
  <2>2. \A r \in Row : [r EXCEPT !.count = @ + 1] \in Row
    BY DEF Row
  <2>3. token' \in [Tokens -> Row]
    BY <1>12, <2>1, <2>2 DEF Admit
  <2>4. call' \in [Slots -> Call]
    BY <1>12, CallTypes DEF Admit, Finish
  <2> QED BY <1>12, <2>3, <2>4 DEF Admit
<1>13. CASE Tick
  BY <1>13 DEF Tick
<1>14. CASE TokensRest
  BY <1>14 DEF TokensRest, tokVars
<1> QED BY <1>1, <1>2, <1>3, <1>4, <1>5, <1>6, <1>7, <1>8, <1>9, <1>10, <1>11, <1>12,
           <1>13, <1>14 DEF TokensNext

-----------------------------------------------------------------------------
\* The requests that have started stay with their lock, their clock and their row.
LEMMA RequestsKept ==
    CapInv /\ [TokensNext]_tokVars => LockHeld' /\ ClocksPast' /\ Named'
<1> SUFFICES ASSUME CapInv, [TokensNext]_tokVars
             PROVE  LockHeld' /\ ClocksPast' /\ Named'
  OBVIOUS
<1>0. TokensTypeOK /\ clock \in Nat /\ (\A s \in Slots : call[s].now \in Nat)
      /\ call \in [Slots -> Call]
  BY DEF CapInv, TokensTypeOK, Call
<1> USE <1>0 DEF CapInv, LockHeld, ClocksPast, Named, rows, limiter
<1>1. CASE UNCHANGED tokVars
  BY <1>1 DEF tokVars
<1>2. ASSUME NEW s \in Slots, NEW c \in Call, Begin(s, c), UNCHANGED <<clock, userLock>>,
             c.pc \notin {"count", "insert"}, c.pc # "idle" => c.now <= clock,
             c.pc \in {"hit", "window", "admit"} => c.tok \in Tokens
      PROVE  LockHeld' /\ ClocksPast' /\ Named'
  BY <1>2 DEF Begin
<1>10. ASSUME NEW s \in Slots, RegisterCheck(s)
       PROVE  LockHeld' /\ ClocksPast' /\ Named'
  <2>1. [Idle EXCEPT !.pc = "register"] \in Call
    BY CallTypes
  <2> QED BY <1>2, <1>10, <2>1 DEF RegisterCheck, Idle
<1>11. ASSUME NEW s \in Slots, MintStart(s)
       PROVE  LockHeld' /\ ClocksPast' /\ Named'
  <2>1. PICK d \in Lifetimes : Begin(s, [Idle EXCEPT !.pc = "lock", !.now = clock, !.life = d])
    BY <1>11 DEF MintStart
  <2>2. [Idle EXCEPT !.pc = "lock", !.now = clock, !.life = d] \in Call
    BY TokensAssumption DEF Idle, Call
  <2>3. UNCHANGED <<clock, userLock>>
    BY <1>11 DEF MintStart
  <2> DEFINE c == [Idle EXCEPT !.pc = "lock", !.now = clock, !.life = d]
  <2>4. c.pc = "lock" /\ c.now = clock
    BY DEF Idle
  <2> HIDE DEF c
  <2>5. Begin(s, c) /\ c \in Call
    BY <2>1, <2>2 DEF c
  <2> QED BY <1>2, <2>3, <2>4, <2>5
<1>12. ASSUME NEW s \in Slots, Lookup(s)
       PROVE  LockHeld' /\ ClocksPast' /\ Named'
  <2>1. PICK t \in Tokens : Begin(s, [Idle EXCEPT !.pc = "hit", !.tok = t, !.now = clock])
    BY <1>12 DEF Lookup
  <2>2. [Idle EXCEPT !.pc = "hit", !.tok = t, !.now = clock] \in Call
    BY DEF Idle, Call
  <2>3. UNCHANGED <<clock, userLock>>
    BY <1>12 DEF Lookup
  <2> DEFINE c == [Idle EXCEPT !.pc = "hit", !.tok = t, !.now = clock]
  <2>4. c.pc = "hit" /\ c.now = clock /\ c.tok = t
    BY DEF Idle
  <2> HIDE DEF c
  <2>5. Begin(s, c) /\ c \in Call
    BY <2>1, <2>2 DEF c
  <2> QED BY <1>2, <2>3, <2>4, <2>5
<1>13. ASSUME NEW s \in Slots, RegisterCommit(s)
       PROVE  LockHeld' /\ ClocksPast' /\ Named'
  BY <1>13 DEF RegisterCommit, Finish, Idle
<1>3. ASSUME NEW s \in Slots, MintLock(s)
      PROVE  LockHeld' /\ ClocksPast' /\ Named'
  BY <1>3, TokensAssumption DEF MintLock, Goto
<1>4. ASSUME NEW s \in Slots, MintRefused(s) \/ MintCommit(s)
      PROVE  LockHeld' /\ ClocksPast' /\ Named'
  BY <1>4 DEF MintRefused, MintCommit, Finish, Idle, Release
<1>5. ASSUME NEW s \in Slots, MintAllowed(s)
      PROVE  LockHeld' /\ ClocksPast' /\ Named'
  BY <1>5 DEF MintAllowed, Goto
<1>14. ASSUME NEW s \in Slots, ReadClock(s)
       PROVE  LockHeld' /\ ClocksPast' /\ Named'
  BY <1>14 DEF ReadClock
<1>15. ASSUME NEW s \in Slots, Revoke(s)
       PROVE  LockHeld' /\ ClocksPast' /\ Named'
  BY <1>15 DEF Revoke
<1>6. ASSUME NEW s \in Slots, Hit(s)
      PROVE  LockHeld' /\ ClocksPast' /\ Named'
  <2>1. call' = [call EXCEPT ![s] = Idle] \/ call' = [call EXCEPT ![s].pc = "admit"]
    BY <1>6 DEF Hit, Goto, Finish
  <2>2. call[s].pc = "window" /\ UNCHANGED <<clock, userLock>>
    BY <1>6 DEF Hit
  <2>3. CASE call' = [call EXCEPT ![s] = Idle]
    BY <2>2, <2>3 DEF Idle
  <2>4. CASE call' = [call EXCEPT ![s].pc = "admit"]
    BY <2>2, <2>4
  <2> QED BY <2>1, <2>3, <2>4
<1>7. ASSUME NEW s \in Slots, Admit(s)
      PROVE  LockHeld' /\ ClocksPast' /\ Named'
  BY <1>7 DEF Admit, Finish, Idle
<1>8. CASE Tick
  BY <1>8 DEF Tick
<1>9. CASE TokensRest
  BY <1>9 DEF TokensRest, tokVars
<1> QED BY <1>1, <1>3, <1>4, <1>5, <1>6, <1>7, <1>8, <1>9, <1>10, <1>11, <1>12, <1>13,
           <1>14, <1>15 DEF TokensNext

\* A commit adds one live token at most.
LEMMA OneMore ==
    ASSUME CapInv, TokensTypeOK', NEW s \in Slots, MintCommit(s)
    PROVE  TokenCap'
<1> DEFINE A == {t \in Tokens : Live(t, clock)}
           B == {t \in Tokens : Live(t, clock)'}
<1>1. PICK u \in Tokens :
         /\ ~token[u].made
         /\ token' = [token EXCEPT ![u] =
               [Absent EXCEPT !.made = TRUE, !.expires = call[s].now + call[s].life]]
  BY DEF MintCommit
<1>2. B \subseteq A \cup {u}
  BY <1>1 DEF MintCommit, Live, CapInv, TokensTypeOK
<1>3. u \notin A
  BY <1>1 DEF Live
<1>4. IsFiniteSet(A) /\ IsFiniteSet(A \cup {u})
  BY TokensAssumption, FS_Subset, FS_AddElement
<1>5. Cardinality(A \cup {u}) = Cardinality(A) + 1
  BY <1>3, <1>4, FS_AddElement
<1>6. Cardinality(B) <= Cardinality(A \cup {u}) /\ IsFiniteSet(B)
  BY <1>2, <1>4, FS_Subset
<1>7. Cardinality(A) \in Nat /\ Cardinality(B) \in Nat
  BY <1>4, <1>6, FS_CardinalityType
<1>8. Cardinality(A) < Cap
  BY DEF CapInv, RoomLeft, MintCommit
<1>9. Cardinality(B) <= Cap
  BY <1>5, <1>6, <1>7, <1>8, TokensAssumption
<1> QED BY <1>9 DEF TokenCap

\* Counting by an older clock only counts too many.
LEMMA CapKept == CapInv /\ [TokensNext]_tokVars => RoomLeft' /\ TokenCap'
<1> SUFFICES ASSUME CapInv, [TokensNext]_tokVars PROVE RoomLeft' /\ TokenCap'
  OBVIOUS
<1>0. TokensTypeOK /\ TokensTypeOK' /\ clock \in Nat /\ Cap \in Nat
  BY TokensTypesKept, TokensAssumption DEF CapInv, TokensTypeOK
<1> DEFINE live == Cardinality({t \in Tokens : Live(t, clock)})
\* Steps after which no more tokens live, and nobody new may insert.
<1>1. ASSUME clock <= clock',
             \A t \in Tokens : Live(t, clock)' => Live(t, clock),
             \A s \in Slots : call'[s].pc = "insert" => call[s].pc = "insert"
      PROVE  RoomLeft' /\ TokenCap'
  <2>1. live' <= live /\ live' \in Nat /\ live \in Nat
    BY <1>0, <1>1, FewerLive
  <2>2. live <= Cap /\ \A s \in Slots : call[s].pc = "insert" => live < Cap
    BY DEF CapInv, TokenCap, RoomLeft
  <2>3. live' <= Cap /\ \A s \in Slots : call'[s].pc = "insert" => live' < Cap
    BY <1>0, <1>1, <2>1, <2>2
  <2> QED BY <2>3 DEF TokenCap, RoomLeft
<1>2. ASSUME NEW s \in Slots, MintAllowed(s) PROVE RoomLeft' /\ TokenCap'
  <2>1. clock' = clock /\ token' = token
    BY <1>2 DEF MintAllowed, rows
  <2>2. call[s].now \in Nat /\ call[s].now <= clock
    BY <1>2 DEF CapInv, ClocksPast, MintAllowed, TokensTypeOK, Call
  <2>3. live \in Nat /\ live < Cap
    BY <1>0, <1>2, <2>2, LiveShrinks DEF MintAllowed
  <2>4. live' = live
    BY <2>1 DEF Live
  <2> QED BY <2>3, <2>4, <1>0 DEF TokenCap, RoomLeft
<1>3. ASSUME NEW s \in Slots, MintCommit(s) PROVE RoomLeft' /\ TokenCap'
  <2>1. \A r \in Slots : call'[r].pc # "insert"
    BY <1>3 DEF MintCommit, Finish, Idle, CapInv, LockHeld, TokensTypeOK
  <2> QED BY <1>0, <1>3, <2>1, OneMore DEF RoomLeft
<1>4. CASE UNCHANGED tokVars \/ TokensRest
  BY <1>1, <1>4, <1>0 DEF TokensRest, tokVars, rows, Live
<1>5. CASE Tick
  BY <1>0, <1>1, <1>5 DEF Tick, rows, Live, TokensTypeOK, Row
<1>6. ASSUME NEW s \in Slots, Revoke(s) PROVE RoomLeft' /\ TokenCap'
  <2>1. \A t \in Tokens : Live(t, clock)' => Live(t, clock)
    BY <1>0, <1>6 DEF Revoke, Live, TokensTypeOK, Row
  <2> QED BY <1>0, <1>1, <1>6, <2>1 DEF Revoke
<1>7. ASSUME NEW s \in Slots, Admit(s) PROVE RoomLeft' /\ TokenCap'
  <2>1. \A t \in Tokens : Live(t, clock)' => Live(t, clock)
    BY <1>0, <1>7 DEF Admit, Live, TokensTypeOK, Row
  <2> QED BY <1>0, <1>1, <1>7, <2>1 DEF Admit, Finish, Idle, TokensTypeOK
<1>8. ASSUME NEW s \in Slots,
             \/ RegisterCheck(s) \/ RegisterCommit(s) \/ MintStart(s) \/ MintLock(s)
             \/ MintRefused(s) \/ Lookup(s) \/ ReadClock(s) \/ Hit(s)
      PROVE  RoomLeft' /\ TokenCap'
  <2>0. call \in [Slots -> Call]
    BY <1>0 DEF TokensTypeOK
  <2>1. clock' = clock /\ token' = token
    BY <1>8 DEF RegisterCheck, RegisterCommit, MintStart, MintLock, MintRefused, Lookup,
                ReadClock, Hit, rows
  <2>2. ASSUME RegisterCheck(s) \/ MintStart(s) \/ Lookup(s)
        PROVE  \A r \in Slots : call'[r].pc = "insert" => call[r].pc = "insert"
    BY <2>0, <2>2 DEF RegisterCheck, MintStart, Lookup, Begin, Idle
  <2>3. ASSUME RegisterCommit(s) \/ MintRefused(s)
        PROVE  \A r \in Slots : call'[r].pc = "insert" => call[r].pc = "insert"
    BY <2>0, <2>3 DEF RegisterCommit, MintRefused, Finish, Idle
  <2>4. ASSUME MintLock(s) \/ ReadClock(s)
        PROVE  \A r \in Slots : call'[r].pc = "insert" => call[r].pc = "insert"
    <3>1. CASE MintLock(s)
      BY <2>0, <3>1 DEF MintLock, Goto
    <3>2. CASE ReadClock(s)
      BY <2>0, <3>2 DEF ReadClock
    <3> QED BY <2>4, <3>1, <3>2
  <2>5. ASSUME Hit(s)
        PROVE  \A r \in Slots : call'[r].pc = "insert" => call[r].pc = "insert"
    <3>1. call' = [call EXCEPT ![s] = Idle] \/ call' = [call EXCEPT ![s].pc = "admit"]
      BY <2>5 DEF Hit, Goto, Finish
    <3>2. CASE call' = [call EXCEPT ![s] = Idle]
      BY <2>0, <3>2 DEF Idle
    <3>3. CASE call' = [call EXCEPT ![s].pc = "admit"]
      BY <2>0, <3>3
    <3> QED BY <3>1, <3>2, <3>3
  <2> QED BY <1>0, <1>1, <1>8, <2>1, <2>2, <2>3, <2>4, <2>5 DEF Live
<1> QED BY <1>2, <1>3, <1>4, <1>5, <1>6, <1>7, <1>8 DEF TokensNext

LEMMA RowsKept == CapInv /\ [TokensNext]_tokVars => RevokedRows'
<1> SUFFICES ASSUME CapInv, [TokensNext]_tokVars PROVE RevokedRows'
  OBVIOUS
<1>0. token \in [Tokens -> Row]
  BY DEF CapInv, TokensTypeOK
<1> USE <1>0 DEF CapInv, RevokedRows
<1>1. ASSUME NEW s \in Slots, MintCommit(s) PROVE RevokedRows'
  BY <1>1 DEF MintCommit, Absent
<1>2. ASSUME NEW s \in Slots, Revoke(s) PROVE RevokedRows'
  BY <1>2 DEF Revoke, Row
<1>3. ASSUME NEW s \in Slots, Admit(s) PROVE RevokedRows'
  BY <1>3 DEF Admit, Row
<1>4. ASSUME token' = token PROVE RevokedRows'
  BY <1>4
<1> QED BY <1>1, <1>2, <1>3, <1>4 DEF TokensNext, RegisterCheck, RegisterCommit, MintStart,
          MintLock, MintRefused, MintAllowed, Lookup, ReadClock, Hit, Tick, TokensRest,
          rows, tokVars

-----------------------------------------------------------------------------
\* Together they are an invariant.
THEOREM CapInvariant == TokensSpec => []CapInv
<1>1. TokensInit => CapInv
  BY CapInit
<1>2. CapInv /\ [TokensNext]_tokVars => CapInv'
  BY TokensTypesKept, RequestsKept, CapKept, RowsKept DEF CapInv
<1> QED BY <1>1, <1>2, PTL DEF TokensSpec

\* The rows, windows and requests keep their types: app/api/agent_tokens.py,
\* app/core/security.py, app/core/ratelimit.py.
THEOREM TypesHold == TokensSpec => []TokensTypeOK
<1>1. CapInv => TokensTypeOK
  BY DEF CapInv
<1> QED BY <1>1, CapInvariant, PTL

\* However many mint requests run at once, an account never holds more live tokens
\* than the cap: mint_token of app/api/agent_tokens.py.
THEOREM CapHolds == TokensSpec => []TokenCap
<1>1. CapInv => TokenCap
  BY DEF CapInv
<1> QED BY <1>1, CapInvariant, PTL

\* A token revoked between its lookup and its admission admits nothing: the
\* conditional UPDATE of get_actor.
THEOREM RevocationFinal == TokensSpec => RevokedStaysOut
<1> DEFINE Out == \A t \in Tokens : token[t].revoked => token'[t].count = token[t].count
<1>1. CapInv /\ [TokensNext]_tokVars => [Out]_tokVars
  <2> SUFFICES ASSUME CapInv, TokensNext, NEW t \in Tokens, token[t].revoked
               PROVE  token'[t].count = token[t].count
    BY DEF tokVars
  <2>0. token \in [Tokens -> Row]
    BY DEF CapInv, TokensTypeOK
  <2>1. ASSUME NEW s \in Slots, MintCommit(s) \/ Revoke(s)
        PROVE  token'[t].count = token[t].count
    <3>1. CASE Revoke(s)
      BY <2>0, <3>1 DEF Revoke, Row
    <3>2. CASE MintCommit(s)
      BY <2>0, <3>2 DEF MintCommit, Row, CapInv, RevokedRows
    <3> QED BY <2>1, <3>1, <3>2
  <2>2. ASSUME NEW s \in Slots, Admit(s) PROVE token'[t].count = token[t].count
    BY <2>0, <2>2 DEF Admit, Live, Row
  <2>3. ASSUME token' = token PROVE token'[t].count = token[t].count
    BY <2>3
  <2> QED BY <2>1, <2>2, <2>3 DEF TokensNext, RegisterCheck, RegisterCommit, MintStart, MintLock,
            MintRefused, MintAllowed, Lookup, ReadClock, Hit, Tick, TokensRest, rows, tokVars
<1> QED BY <1>1, CapInvariant, PTL DEF TokensSpec, RevokedStaysOut

-----------------------------------------------------------------------------
(* The sliding window of a token. *)

\* h has the hits that count of those let through: they are in order and spaced,
\* and what has been forgotten is a window older than a sweep or the last hit.
Counted(all, h, sweep) ==
    /\ \A i, j \in 1..Len(all) : i <= j => all[i] <= all[j]
    /\ \A i, j \in 1..Len(all) : j = i + Limit => all[i] + Window <= all[j]
    /\ \E k \in 0..Len(all) :
          /\ After(all, k, h)
          /\ \A i \in 1..k : i > Len(all) - Limit =>
                all[i] + Window <= sweep \/ all[i] + Window <= all[Len(all)]

WindowInv == disordered \/ \A t \in Tokens : Counted(allowed[t], hits[t], lastSweep)

\* A later sweep has forgotten no less.
LEMMA LaterSweep ==
    ASSUME NEW all, NEW h, NEW sweep \in Nat, NEW now \in Nat, sweep <= now,
           Counted(all, h, sweep)
    PROVE  Counted(all, h, now)
<1>1. PICK k \in 0..Len(all) :
         /\ After(all, k, h)
         /\ \A i \in 1..k : i > Len(all) - Limit =>
               all[i] + Window <= sweep \/ all[i] + Window <= all[Len(all)]
  BY DEF Counted
<1>2. \A i \in 1..k : all[i] + Window \in Nat
  <2>1. k <= Len(all) /\ k \in Nat /\ all \in Seq(Nat) /\ Len(all) \in Nat
    BY <1>1, WhatIsAfter
  <2>2. \A i \in 1..k : all[i] \in Nat
    BY <2>1
  <2> QED BY <2>2, TokensAssumption
<1>3. \A i \in 1..k : i > Len(all) - Limit =>
         all[i] + Window <= now \/ all[i] + Window <= all[Len(all)]
  BY <1>1, <1>2
<1> QED BY <1>1, <1>3 DEF Counted

\* A sweep forgets a window all of whose hits are old.
LEMMA SweepForgets ==
    ASSUME NEW all, NEW h, NEW sweep, NEW now \in Nat, Counted(all, h, sweep),
           h # <<>>, Last(h) + Window <= now
    PROVE  Counted(all, <<>>, now)
<1>1. PICK k \in 0..Len(all) : After(all, k, h)
  BY DEF Counted
<1>2. PICK n, m : n = Len(all) /\ m = Len(h)
  OBVIOUS
<1>3. all \in Seq(Nat) /\ h \in Seq(Nat) /\ n \in Nat /\ m \in Nat /\ k \in Nat /\ m = n - k
      /\ \A i \in 1..m : h[i] = all[k + i]
  <2>1. all \in Seq(Nat) /\ h \in Seq(Nat) /\ n \in Nat /\ m \in Nat /\ k \in Nat /\ m = n - k
    BY <1>1, <1>2, WhatIsAfter
  <2>2. \A i \in 1..m : h[i] = all[k + i]
    BY <1>1, <1>2 DEF After
  <2> QED BY <2>1, <2>2
<1>4. m # 0
  BY <1>2, <1>3, EmptySeq
<1>5. Last(h) = all[n]
  <2>1. Last(h) = h[m]
    BY <1>2 DEF Last
  <2>2. m \in 1..m /\ k + m = n
    BY <1>3, <1>4
  <2> QED BY <1>3, <2>1, <2>2
<1>6. n \in 1..n
  BY <1>3, <1>4
<1>7. ASSUME NEW i \in 1..n PROVE all[i] + Window <= now
  <2>1. all[i] <= all[n] /\ all[i] \in Nat /\ all[n] \in Nat
    <3>1. i <= n
      BY <1>3
    <3>2. all[i] <= all[n]
      BY <1>2, <1>6, <3>1 DEF Counted
    <3> QED BY <1>2, <1>3, <1>6, <3>2
  <2> QED BY <1>5, <2>1, TokensAssumption
<1>8. After(all, n, <<>>)
  BY <1>2, <1>3 DEF After
<1>9. n \in 0..n
  BY <1>3
<1>10. \A i \in 1..n : i > n - Limit => all[i] + Window <= now \/ all[i] + Window <= all[n]
  BY <1>7
<1> QED BY <1>2, <1>8, <1>9, <1>10 DEF Counted

\* What the old hits taken off leave.
LEMMA PrunedAfter ==
    ASSUME NEW all, NEW k, NEW h, After(all, k, h), NEW now \in Nat
    PROVE  \E q \in k..Len(all) :
              /\ After(all, q, Pruned(h, now))
              /\ \A i \in (k + 1)..q : all[i] + Window <= now
<1>1. PICK old : old = {i \in 1..Len(h) : \A j \in 1..i : h[j] + Window <= now}
  OBVIOUS
<1>2. Pruned(h, now) = SubSeq(h, Cardinality(old) + 1, Len(h))
  BY <1>1 DEF Pruned, Stale
<1>3. PICK rest, w : rest = Pruned(h, now) /\ w = Window
  OBVIOUS
<1>4. rest = SubSeq(h, Cardinality(old) + 1, Len(h)) /\ w \in Nat
  BY <1>2, <1>3, TokensAssumption
<1>5. old = {i \in 1..Len(h) : \A j \in 1..i : h[j] + w <= now}
  BY <1>1, <1>3
<1>6. \E q \in k..Len(all) :
         /\ After(all, q, rest)
         /\ \A i \in (k + 1)..q : all[i] + w <= now
         /\ q < Len(all) => ~(all[q + 1] + w <= now)
  BY ZenonT(40), <1>4, <1>5, Popped
<1> QED BY <1>3, <1>6

\* A refused hit leaves a full window.
LEMMA RefusedHit ==
    ASSUME NEW all, NEW h, NEW sweep, NEW now \in Nat, Counted(all, h, sweep),
           Len(Pruned(h, now)) >= Limit
    PROVE  Counted(all, Pruned(h, now), sweep)
<1>1. PICK k \in 0..Len(all) : After(all, k, h)
  BY DEF Counted
<1>2. PICK q \in k..Len(all) : After(all, q, Pruned(h, now))
  BY <1>1, PrunedAfter
<1>3. /\ q \in Nat /\ Len(all) \in Nat /\ q <= Len(all)
      /\ Len(Pruned(h, now)) = Len(all) - q /\ Limit \in Nat
  BY <1>2, WhatIsAfter, TokensAssumption
<1>4. q \in 0..Len(all) /\ \A i \in 1..q : ~(i > Len(all) - Limit)
  BY <1>3
<1> QED BY <1>2, <1>4 DEF Counted

\* A hit that finds room comes a window after the one the limit before it.
LEMMA AllowedHit ==
    ASSUME NEW all, NEW h, NEW sweep \in Nat, NEW now \in Nat, Counted(all, h, sweep),
           Len(Pruned(h, now)) < Limit, sweep <= now,
           \A i \in 1..Len(all) : all[i] <= now
    PROVE  Counted(Append(all, now), Append(Pruned(h, now), now), sweep)
<1>1. PICK k \in 0..Len(all) :
         /\ After(all, k, h)
         /\ \A i \in 1..k : i > Len(all) - Limit =>
               all[i] + Window <= sweep \/ all[i] + Window <= all[Len(all)]
  BY DEF Counted
<1>2. PICK q \in k..Len(all) :
         /\ After(all, q, Pruned(h, now))
         /\ \A i \in (k + 1)..q : all[i] + Window <= now
  BY <1>1, PrunedAfter
<1>3. PICK n, g : n = Len(all) /\ g = Append(all, now)
  OBVIOUS
<1>4. /\ all \in Seq(Nat) /\ n \in Nat /\ q \in Nat /\ k \in Nat /\ k <= q /\ q <= n
      /\ Limit \in Nat /\ Limit >= 1 /\ Window \in Nat /\ n - q < Limit
  <2>1. Len(Pruned(h, now)) = n - q /\ all \in Seq(Nat) /\ n \in Nat
    BY <1>2, <1>3, WhatIsAfter
  <2> QED BY <1>1, <1>2, <1>3, <2>1, TokensAssumption
<1>5. Len(g) = n + 1 /\ g[n + 1] = now /\ \A i \in 1..n : g[i] = all[i]
  BY <1>3, <1>4, AppendProperties
<1>6. After(g, q, Append(Pruned(h, now), now))
  BY <1>2, <1>3, BothGrow
<1>7. \A i \in 1..n : all[i] \in Nat /\ all[i] <= now
  BY <1>3, <1>4
<1>8. ASSUME NEW i \in 1..q, i > n - Limit PROVE all[i] + Window <= now
  <2>1. CASE i <= k
    <3>1. i \in 1..k /\ i \in 1..n /\ n \in 1..n
      BY <1>4, <2>1
    <3>2. all[i] + Window <= sweep \/ all[i] + Window <= all[n]
      BY <1>1, <1>3, <1>8, <3>1
    <3>3. all[i] \in Nat /\ all[n] \in Nat /\ all[n] <= now
      BY <1>7, <3>1
    <3>4. PICK a, b : a = all[i] + Window /\ b = all[n]
      OBVIOUS
    <3>8. b \in Nat /\ b <= now
      BY <3>3, <3>4
    <3>5. a \in Nat /\ b \in Nat /\ b <= now
      <4>1. \A x \in Nat : x + Window \in Nat
        BY <1>4
      <4>2. all[i] + Window \in Nat
        BY <3>3, <4>1
      <4> QED BY <3>4, <3>8, <4>2
    <3>6. a <= sweep \/ a <= b
      BY <3>2, <3>4
    <3>7. a <= now
      BY <3>5, <3>6
    <3> QED BY <3>4, <3>7
  <2>2. CASE ~(i <= k)
    <3>1. i \in (k + 1)..q
      BY <1>4, <2>2
    <3> QED BY <1>2, <3>1
  <2> QED BY <2>1, <2>2
<1>9. ASSUME NEW i \in 1..(n + 1), NEW j \in 1..(n + 1), i <= j PROVE g[i] <= g[j]
  <2>1. CASE j = n + 1
    <3>1. CASE i = n + 1
      BY <1>5, <2>1, <3>1
    <3>2. CASE i # n + 1
      <4>1. i \in 1..n
        BY <1>4, <3>2
      <4> QED BY <1>5, <1>7, <2>1, <4>1
    <3> QED BY <3>1, <3>2
  <2>2. CASE j # n + 1
    <3>1. i \in 1..n /\ j \in 1..n
      BY <1>4, <1>9, <2>2
    <3>2. all[i] <= all[j]
      BY <1>3, <1>9, <3>1 DEF Counted
    <3> QED BY <1>5, <3>1, <3>2
  <2> QED BY <2>1, <2>2
<1>10. ASSUME NEW i \in 1..(n + 1), NEW j \in 1..(n + 1), j = i + Limit
       PROVE  g[i] + Window <= g[j]
  <2>1. CASE j = n + 1
    <3>1. i \in 1..q /\ i > n - Limit /\ i \in 1..n
      BY <1>4, <1>10, <2>1
    <3> QED BY <1>5, <1>8, <2>1, <3>1
  <2>2. CASE j # n + 1
    <3>1. i \in 1..n /\ j \in 1..n
      BY <1>4, <1>10, <2>2
    <3>2. all[i] + Window <= all[j]
      BY <1>3, <1>10, <3>1 DEF Counted
    <3> QED BY <1>5, <3>1, <3>2
  <2> QED BY <2>1, <2>2
<1>11. q \in 0..(n + 1)
  BY <1>4
<1>12. ASSUME NEW i \in 1..q, i > (n + 1) - Limit PROVE g[i] + Window <= g[n + 1]
  <2>1. i > n - Limit /\ i \in 1..n
    BY <1>4, <1>12
  <2> QED BY <1>5, <1>8, <2>1
<1>13. Counted(g, Append(Pruned(h, now), now), sweep)
  BY <1>5, <1>6, <1>9, <1>10, <1>11, <1>12 DEF Counted
<1> QED BY <1>3, <1>13

LEMMA WindowInitInv == TokensInit => WindowInv
<1> SUFFICES ASSUME TokensInit, NEW t \in Tokens
             PROVE  Counted(allowed[t], hits[t], lastSweep)
  BY DEF WindowInv
<1>1. allowed[t] = <<>> /\ hits[t] = <<>>
  BY DEF TokensInit
<1>2. PICK e : e = <<>>
  OBVIOUS
<1>3. e \in Seq(Nat) /\ Len(e) = 0 /\ 1..0 = {} /\ 0 \in 0..0 /\ 0 - 0 = 0
  BY <1>2
<1>4. After(e, 0, e)
  BY <1>3 DEF After
<1>5. Counted(e, e, lastSweep)
  BY <1>3, <1>4 DEF Counted
<1> QED BY <1>1, <1>2, <1>5

LEMMA HitWindow ==
    ASSUME CapInv, WindowInv, NEW s \in Slots, Hit(s)
    PROVE  WindowInv'
<1> SUFFICES ASSUME ~disordered', NEW u \in Tokens
             PROVE  Counted(allowed'[u], hits'[u], lastSweep')
  BY DEF WindowInv
<1>1. PICK t, now, sw, next : /\ t = call[s].tok /\ now = call[s].life
                              /\ sw = Swept(now) /\ next = lastSweep'
  OBVIOUS
<1>2. now \in Nat /\ t \in Tokens
  BY <1>1 DEF Hit, Named, Call, CapInv, TokensTypeOK
<1>3. /\ next = (IF now < lastSweep + Window THEN lastSweep ELSE now)
      /\ \/ /\ Len(Pruned(sw[t], now)) >= Limit
            /\ hits' = [sw EXCEPT ![t] = Pruned(sw[t], now)]
            /\ allowed' = allowed /\ disordered' = disordered
         \/ /\ ~(Len(Pruned(sw[t], now)) >= Limit)
            /\ hits' = [sw EXCEPT ![t] = Append(Pruned(sw[t], now), now)]
            /\ allowed' = [allowed EXCEPT ![t] = Append(allowed[t], now)]
            /\ disordered' = (\/ disordered
                              \/ now < lastSweep
                              \/ \E i \in DOMAIN allowed[t] : allowed[t][i] > now)
  BY <1>1 DEF Hit
<1>4. ~disordered
  BY <1>3
<1>5. /\ sw \in [Tokens -> Seq(Nat)] /\ allowed \in [Tokens -> Seq(Nat)]
      /\ lastSweep \in Nat /\ Window \in Nat /\ Limit \in Nat
  BY <1>1, <1>2, SweptType, TokensAssumption DEF CapInv, TokensTypeOK
<1>6. next \in Nat /\ lastSweep <= next
  BY <1>2, <1>3, <1>5
<1>7. ASSUME NEW v \in Tokens PROVE Counted(allowed[v], sw[v], next)
  <2>1. Counted(allowed[v], hits[v], lastSweep)
    BY <1>4 DEF WindowInv
  <2>2. CASE sw[v] = hits[v]
    BY <1>5, <1>6, <2>1, <2>2, LaterSweep
  <2>3. CASE sw[v] # hits[v]
    <3>1. /\ ~(now < lastSweep + Window) /\ hits[v] # <<>> /\ Last(hits[v]) + Window <= now
          /\ sw[v] = <<>>
      BY <1>1, <2>3 DEF Swept
    <3>2. next = now
      BY <1>3, <3>1
    <3>3. Counted(allowed[v], <<>>, now)
      BY <1>2, <2>1, <3>1, SweepForgets
    <3> QED BY <3>1, <3>2, <3>3
  <2> QED BY <2>2, <2>3
<1>8. CASE u # t
  <2>1. allowed'[u] = allowed[u] /\ hits'[u] = sw[u]
    BY <1>3, <1>5, <1>8
  <2> QED BY <1>1, <1>7, <2>1
<1>9. CASE u = t
  <2>1. PICK all, h, w : all = allowed[t] /\ h = sw[t] /\ w = Pruned(h, now)
    OBVIOUS
  <2>2. Counted(all, h, next)
    BY <1>2, <1>7, <2>1
  <2>3. CASE Len(w) >= Limit
    <3>1. allowed'[u] = all /\ hits'[u] = w
      BY <1>3, <1>5, <1>9, <2>1, <2>3
    <3>2. Counted(all, w, next)
      BY <1>2, <2>1, <2>2, <2>3, RefusedHit
    <3> QED BY <1>1, <3>1, <3>2
  <2>4. CASE ~(Len(w) >= Limit)
    <3>1. /\ hits' = [sw EXCEPT ![t] = Append(w, now)]
          /\ allowed' = [allowed EXCEPT ![t] = Append(all, now)]
          /\ ~(now < lastSweep) /\ ~(\E i \in DOMAIN all : all[i] > now)
      BY <1>3, <2>1, <2>4
    <3>2. allowed'[u] = Append(all, now) /\ hits'[u] = Append(w, now)
      BY <1>5, <1>9, <3>1
    <3>3. all \in Seq(Nat) /\ \A i \in 1..Len(all) : all[i] <= now
      BY <1>2, <1>5, <2>1, <3>1
    <3>4. next <= now
      BY <1>2, <1>3, <1>5, <3>1
    <3>5. Len(w) < Limit
      <4>1. h \in Seq(Nat)
        BY <1>2, <1>5, <2>1
      <4>2. w \in Seq(Nat)
        BY <1>2, <2>1, <4>1, PrunedType
      <4> QED BY <1>5, <2>4, <4>2
    <3>6. Counted(Append(all, now), Append(w, now), next)
      BY <1>2, <1>6, <2>1, <2>2, <3>3, <3>4, <3>5, AllowedHit
    <3> QED BY <1>1, <3>2, <3>6
  <2> QED BY <2>3, <2>4
<1> QED BY <1>8, <1>9

LEMMA WindowStepInv == CapInv /\ WindowInv /\ [TokensNext]_tokVars => WindowInv'
<1> SUFFICES ASSUME CapInv, WindowInv, [TokensNext]_tokVars PROVE WindowInv'
  OBVIOUS
<1>1. CASE UNCHANGED limiter
  BY <1>1 DEF limiter, WindowInv
<1>2. CASE \E s \in Slots : Hit(s)
  BY <1>2, HitWindow
<1>3. UNCHANGED limiter \/ \E s \in Slots : Hit(s)
  BY DEF TokensNext, RegisterCheck, RegisterCommit, MintStart, MintLock, MintRefused,
         MintAllowed, MintCommit, Revoke, Lookup, ReadClock, Admit, Tick, TokensRest, tokVars
<1> QED BY <1>1, <1>2, <1>3

LEMMA WindowInvBounds == CapInv /\ WindowInv => WindowBounded
<1> SUFFICES ASSUME CapInv, WindowInv, ~disordered, NEW t \in Tokens,
                    NEW i \in DOMAIN allowed[t]
             PROVE  Cardinality({j \in i..Len(allowed[t]) :
                                   allowed[t][j] < allowed[t][i] + Window}) <= Limit
  BY DEF WindowBounded
<1>1. PICK all : all = allowed[t]
  OBVIOUS
<1>2. all \in Seq(Nat)
  BY <1>1 DEF CapInv, TokensTypeOK
<1>3. i \in 1..Len(all) /\ Limit \in Nat \ {0} /\ Window \in Nat
  BY <1>1, <1>2, TokensAssumption
<1>4. /\ \A m, n \in 1..Len(all) : m <= n => all[m] <= all[n]
      /\ \A m, n \in 1..Len(all) : n = m + Limit => all[m] + Window <= all[n]
  BY <1>1 DEF WindowInv, Counted
<1>5. Cardinality({j \in i..Len(all) : all[j] < all[i] + Window}) <= Limit
  BY <1>2, <1>3, <1>4, FewInAWindow
<1> QED BY <1>1, <1>5

\* Without a thread that is held up between the clock and the lock, no window has
\* more hits than the limit: hit and _sweep of app/core/ratelimit.py.
THEOREM WindowIsBounded == TokensSpec => []WindowBounded
<1>1. TokensInit => CapInv /\ WindowInv
  BY CapInit, WindowInitInv
<1>2. CapInv /\ WindowInv /\ [TokensNext]_tokVars => (CapInv /\ WindowInv)'
  BY TokensTypesKept, RequestsKept, CapKept, RowsKept, WindowStepInv DEF CapInv
<1>3. CapInv /\ WindowInv => WindowBounded
  BY WindowInvBounds
<1> QED BY <1>1, <1>2, <1>3, PTL DEF TokensSpec

-----------------------------------------------------------------------------
(***************************************************************************)
(* The profile: what a request for one column does to the other, and that  *)
(* a saved event has left its signal.                                      *)
(***************************************************************************)

\* A request that was loaded, and the saves its copy of the row holds.
Loaded(r) == r.kind # "none"
SavedKnown(r) ==
    Loaded(r) =>
        /\ r = [kind |-> r.kind, item |-> r.item, agent |-> r.agent,
                saved |-> r.saved, preferred |-> r.preferred]
        /\ \A e \in r.saved : [kind |-> "save", of |-> e] \in signals

ProInv ==
    /\ SavedIsSignalled
    /\ request = [s \in Threads |-> request[s]]
    /\ \A s \in Threads : SavedKnown(request[s])
    /\ ColumnsIndependent

-----------------------------------------------------------------------------
\* What a commit makes of the columns, whoever else has written them.
LEMMA CommitSteps ==
    ASSUME NEW s \in Threads, NEW S, NEW P, request = [t \in Threads |-> request[t]],
           Commit(s, S, P)
    PROVE  /\ saved' = IF S = request[s].saved THEN saved ELSE S
           /\ preferred' = IF P = request[s].preferred THEN preferred ELSE P
           /\ request' = [t \in Threads |-> IF t = s THEN Quiet ELSE request[t]]
BY DEF Commit

\* The steps that finish a request, one by one.
LEMMA Answered ==
    ASSUME ProInv, NEW s \in Threads,
           Save(s) \/ Click(s) \/ Like(s) \/ SetPreferences(s) \/ Onboard(s)
    PROVE  /\ Loaded(request[s])
           /\ request' = [t \in Threads |-> IF t = s THEN Quiet ELSE request[t]]
           /\ \A e : [kind |-> "save", of |-> e] \in signals
                        => [kind |-> "save", of |-> e] \in signals'
           /\ \A e \in saved' : \/ e \in saved \/ e \in request[s].saved
                                \/ [kind |-> "save", of |-> e] \in signals'
           /\ ColumnsIndependent'
<1> DEFINE r == request[s]
<1>0. request = [t \in Threads |-> request[t]]
  BY DEF ProInv
<1>1. CASE Save(s)
  <2>1. /\ r.kind = "save"
        /\ signals' = signals \cup {[kind |-> "save", of |-> i] : i \in {r.item}}
        /\ Commit(s, r.saved \cup {r.item}, r.preferred)
        /\ savedInTurn' = savedInTurn \cup {r.item}
        /\ savedRaced' = (savedRaced \/ r.saved # saved)
        /\ preferredInTurn' = preferredInTurn /\ preferredRaced' = preferredRaced
    BY <1>1 DEF Save, Signal, TouchesSaved
  <2>2. /\ saved' = IF r.saved \cup {r.item} = r.saved THEN saved ELSE r.saved \cup {r.item}
        /\ preferred' = preferred
        /\ request' = [t \in Threads |-> IF t = s THEN Quiet ELSE request[t]]
    BY <1>0, <2>1, CommitSteps
  <2>3. [kind |-> "save", of |-> r.item] \in signals'
    BY <2>1
  <2>4. \A e \in saved' : e \in saved \/ e \in r.saved \/ e = r.item
    BY <2>2
  <2>5. ColumnsIndependent'
    <3>1. savedRaced' \/ saved' = savedInTurn'
      BY <2>1, <2>2 DEF ProInv, ColumnsIndependent
    <3> QED BY <3>1, <2>1, <2>2 DEF ProInv, ColumnsIndependent
  <2> QED BY <2>1, <2>2, <2>3, <2>4, <2>5 DEF Loaded
<1>2. CASE Click(s)
  <2>1. /\ r.kind = "click"
        /\ signals \subseteq signals'
        /\ Commit(s, r.saved, r.preferred)
        /\ UNCHANGED proHistory
    BY <1>2 DEF Click, Signal
  <2>2. saved' = saved /\ preferred' = preferred
        /\ request' = [t \in Threads |-> IF t = s THEN Quiet ELSE request[t]]
    BY <1>0, <2>1, CommitSteps
  <2> QED BY <2>1, <2>2 DEF Loaded, ProInv, ColumnsIndependent, proHistory
<1>3. CASE Like(s)
  <2>1. r.kind = "like" /\ signals \subseteq signals'
    BY <1>3 DEF Like, Signal
  <2>2. CASE r.agent
    <3>1. Commit(s, r.saved, r.preferred) /\ UNCHANGED proHistory
      BY <1>3, <2>2 DEF Like
    <3>2. saved' = saved /\ preferred' = preferred
          /\ request' = [t \in Threads |-> IF t = s THEN Quiet ELSE request[t]]
      BY <1>0, <3>1, CommitSteps
    <3> QED BY <2>1, <3>1, <3>2 DEF Loaded, ProInv, ColumnsIndependent, proHistory
  <2>3. CASE ~r.agent
    <3>1. /\ Commit(s, r.saved, r.preferred \cup {r.item})
          /\ preferredInTurn' = preferredInTurn \cup {r.item}
          /\ preferredRaced' = (preferredRaced \/ r.preferred # preferred)
          /\ savedInTurn' = savedInTurn /\ savedRaced' = savedRaced
      BY <1>3, <2>3 DEF Like, TouchesPreferred
    <3>2. /\ saved' = saved
          /\ preferred' = IF r.preferred \cup {r.item} = r.preferred THEN preferred
                          ELSE r.preferred \cup {r.item}
          /\ request' = [t \in Threads |-> IF t = s THEN Quiet ELSE request[t]]
      BY <1>0, <3>1, CommitSteps
    <3>3. preferredRaced' \/ preferred' = preferredInTurn'
      BY <3>1, <3>2 DEF ProInv, ColumnsIndependent
    <3> QED BY <2>1, <3>1, <3>2, <3>3 DEF Loaded, ProInv, ColumnsIndependent
  <2> QED BY <2>2, <2>3
<1>4. CASE SetPreferences(s)
  <2>1. /\ r.kind = "prefs"
        /\ signals' = {g \in signals : g.kind \notin {"like", "onboarding"}}
        /\ Commit(s, r.saved, r.item)
        /\ preferredInTurn' = r.item
        /\ preferredRaced' = (preferredRaced \/ r.preferred # preferred)
        /\ savedInTurn' = savedInTurn /\ savedRaced' = savedRaced
    BY <1>4 DEF SetPreferences, TouchesPreferred
  <2>2. /\ saved' = saved
        /\ preferred' = IF r.item = r.preferred THEN preferred ELSE r.item
        /\ request' = [t \in Threads |-> IF t = s THEN Quiet ELSE request[t]]
    BY <1>0, <2>1, CommitSteps
  <2>3. ASSUME NEW e, [kind |-> "save", of |-> e] \in signals
        PROVE  [kind |-> "save", of |-> e] \in signals'
    BY <2>1, <2>3
  <2> QED BY <2>1, <2>2, <2>3 DEF Loaded, ProInv, ColumnsIndependent
<1>5. CASE Onboard(s)
  <2>1. /\ r.kind = "onboarding"
        /\ signals \subseteq signals'
        /\ Commit(s, r.saved, r.preferred \cup r.item)
        /\ preferredInTurn' = preferredInTurn \cup r.item
        /\ preferredRaced' = (preferredRaced \/ r.preferred # preferred)
        /\ savedInTurn' = savedInTurn /\ savedRaced' = savedRaced
    BY <1>5 DEF Onboard, Signal, TouchesPreferred
  <2>2. /\ saved' = saved
        /\ preferred' = IF r.preferred \cup r.item = r.preferred THEN preferred
                        ELSE r.preferred \cup r.item
        /\ request' = [t \in Threads |-> IF t = s THEN Quiet ELSE request[t]]
    BY <1>0, <2>1, CommitSteps
  <2>3. preferredRaced' \/ preferred' = preferredInTurn'
    BY <2>1, <2>2 DEF ProInv, ColumnsIndependent
  <2> QED BY <2>1, <2>2, <2>3 DEF Loaded, ProInv, ColumnsIndependent
<1> QED BY <1>1, <1>2, <1>3, <1>4, <1>5

LEMMA ProfileInitInv == ProfileInit => ProInv
BY DEF ProfileInit, ProInv, SavedIsSignalled, SavedKnown, Loaded, Quiet, ColumnsIndependent

LEMMA ProfileStepInv == ProInv /\ [ProfileNext]_proVars => ProInv'
<1> SUFFICES ASSUME ProInv, [ProfileNext]_proVars PROVE ProInv'
  OBVIOUS
<1>1. ASSUME NEW s \in Threads,
             Save(s) \/ Click(s) \/ Like(s) \/ SetPreferences(s) \/ Onboard(s)
      PROVE  ProInv'
  <2>1. /\ Loaded(request[s])
        /\ request' = [t \in Threads |-> IF t = s THEN Quiet ELSE request[t]]
        /\ \A e : [kind |-> "save", of |-> e] \in signals
                     => [kind |-> "save", of |-> e] \in signals'
        /\ \A e \in saved' : \/ e \in saved \/ e \in request[s].saved
                             \/ [kind |-> "save", of |-> e] \in signals'
        /\ ColumnsIndependent'
    BY <1>1, Answered
  <2>2. SavedIsSignalled'
    BY <2>1 DEF ProInv, SavedIsSignalled, SavedKnown
  <2>3. \A t \in Threads : SavedKnown(request[t])'
    BY <2>1 DEF ProInv, SavedKnown, Loaded, Quiet
  <2> QED BY <2>1, <2>2, <2>3 DEF ProInv
<1>2. ASSUME NEW s \in Threads, Load(s) PROVE ProInv'
  <2>1. PICK a \in Asks :
          request' = [request EXCEPT ![s] =
            [kind |-> a.kind, item |-> a.item, agent |-> a.agent,
             saved |-> saved, preferred |-> preferred]]
    BY <1>2 DEF Load
  <2>2. UNCHANGED <<saved, preferred, signals, proHistory>>
    BY <1>2 DEF Load
  <2>3. \A t \in Threads : t # s => request'[t] = request[t]
    BY <2>1 DEF ProInv
  <2>4. request'[s] = [kind |-> a.kind, item |-> a.item, agent |-> a.agent,
                       saved |-> saved, preferred |-> preferred]
    BY <2>1 DEF ProInv
  <2>5. \A t \in Threads : SavedKnown(request[t])'
    BY <2>2, <2>3, <2>4 DEF ProInv, SavedKnown, Loaded, SavedIsSignalled
  <2>6. request' = [t \in Threads |-> request'[t]]
    BY <2>1 DEF ProInv
  <2> QED BY <2>2, <2>5, <2>6 DEF ProInv, SavedIsSignalled, ColumnsIndependent, proHistory
<1>3. ASSUME NEW s \in Threads, Extract(s) PROVE ProInv'
  <2>1. PICK tags \in SUBSET Vibes :
          request' = [request EXCEPT ![s].kind = "onboarding", ![s].item = tags]
    BY <1>3 DEF Extract
  <2>2. UNCHANGED <<saved, preferred, signals, proHistory>> /\ request[s].kind = "answer"
    BY <1>3 DEF Extract
  <2>3. \A t \in Threads : t # s => request'[t] = request[t]
    BY <2>1 DEF ProInv
  <2>4. request'[s] = [kind |-> "onboarding", item |-> tags, agent |-> request[s].agent,
                       saved |-> request[s].saved, preferred |-> request[s].preferred]
    <3>1. request'[s] = [request[s] EXCEPT !.kind = "onboarding", !.item = tags]
      BY <2>1 DEF ProInv
    <3>2. request[s] = [kind |-> "answer", item |-> request[s].item,
                        agent |-> request[s].agent, saved |-> request[s].saved,
                        preferred |-> request[s].preferred]
      BY <2>2 DEF ProInv, SavedKnown, Loaded
    <3> QED BY <3>1, <3>2
  <2>5. \A t \in Threads : SavedKnown(request[t])'
    BY <2>2, <2>3, <2>4 DEF ProInv, SavedKnown, Loaded
  <2>6. request' = [t \in Threads |-> request'[t]]
    BY <2>1 DEF ProInv
  <2> QED BY <2>2, <2>5, <2>6 DEF ProInv, SavedIsSignalled, ColumnsIndependent, proHistory
<1>4. CASE UNCHANGED proVars
  BY <1>4 DEF proVars, proHistory, ProInv, SavedIsSignalled, SavedKnown, ColumnsIndependent
<1> QED BY <1>1, <1>2, <1>3, <1>4 DEF ProfileNext, ProfileRest

\* The columns, the signals and what the requests hold of them: Profile.
THEOREM ProfileInvariant == ProfileSpec => []ProInv
BY ProfileInitInv, ProfileStepInv, PTL DEF ProfileSpec

\* Requests that deal with different columns never undo each other, for any
\* number of them: update_me_interests, set_preferences, set_onboarding_profile.
THEOREM ColumnsKeptApart == ProfileSpec => []ColumnsIndependent
<1>1. ProInv => ColumnsIndependent
  BY DEF ProInv
<1> QED BY <1>1, ProfileInvariant, PTL

\* Every event still saved has its signal, whatever preferences were replaced
\* while it was being saved: update_me_interests, set_preferences.
THEOREM SavesAreKnown == ProfileSpec => []SavedIsSignalled
<1>1. ProInv => SavedIsSignalled
  BY DEF ProInv
<1> QED BY <1>1, ProfileInvariant, PTL

-----------------------------------------------------------------------------
(***************************************************************************)
(* Shared folders: who may have become a member.                           *)
(***************************************************************************)

InviteType == [folder : FolderIds \cup {"none"}, active : BOOLEAN, expires : Nat, revoked : Nat]

\* An acceptance that began on a day the invite was good.
BegunInTime(i, begun) ==
    /\ i \in Invites
    /\ begun \in Nat /\ begun <= day
    /\ invite[i].folder \in FolderIds
    /\ invite[i].active \/ begun <= invite[i].revoked
    /\ invite[i].expires = 0 \/ begun < invite[i].expires

\* A request that goes on to join has begun in time.
JobSound(w) ==
    job[w].at \in {"accept", "join"} =>
        /\ job[w] = [at |-> job[w].at, invite |-> job[w].invite,
                     person |-> job[w].person, asked |-> job[w].asked]
        /\ BegunInTime(job[w].invite, job[w].asked)

MemberSound(m) == BegunInTime(m.invite, m.asked) /\ invite[m.invite].folder = m.folder

JoinInv ==
    /\ day \in Nat
    /\ invite \in [Invites -> InviteType]
    /\ \A i \in Invites : invite[i].active => invite[i].folder \in FolderIds
    /\ job = [w \in Workers |-> job[w]]
    /\ \A w \in Workers : JobSound(w)
    /\ \A m \in members : MemberSound(m)

-----------------------------------------------------------------------------
LEMMA JoinInitInv == FoldersInit => JoinInv
<1> SUFFICES ASSUME FoldersInit PROVE JoinInv
  OBVIOUS
<1>1. NoInvite \in InviteType /\ ~NoInvite.active
  BY DEF NoInvite, InviteType
<1>2. Free.at = "free"
  BY DEF Free
<1>3. /\ day = 0 /\ invite = [i \in Invites |-> NoInvite] /\ members = {}
      /\ job = [w \in Workers |-> Free]
  BY DEF FoldersInit
<1> QED BY <1>1, <1>2, <1>3 DEF JoinInv, JobSound

\* What every request but the invites' own keeps.
LEMMA Undisturbed ==
    ASSUME JoinInv, invite' = invite, day' = day
    PROVE  /\ \A w \in Workers : job'[w] = job[w] => JobSound(w)'
           /\ \A m \in members : MemberSound(m)'
BY DEF JoinInv, JobSound, MemberSound, BegunInTime

\* A request that becomes something other than an acceptance.
LEMMA OtherJob ==
    ASSUME JoinInv, invite' = invite, day' = day, members' = members,
           NEW w \in Workers, NEW j, Do(w, j), j.at \notin {"accept", "join"}
    PROVE  JoinInv'
<1>1. job' = [v \in Workers |-> IF v = w THEN j ELSE job[v]]
  BY DEF JoinInv, Do
<1>2. \A v \in Workers : v # w => JobSound(v)'
  BY <1>1, Undisturbed
<1>3. JobSound(w)'
  BY <1>1 DEF JobSound
<1>4. job' = [v \in Workers |-> job'[v]]
  BY <1>1
<1> QED BY <1>2, <1>3, <1>4, Undisturbed DEF JoinInv

LEMMA SameJobs ==
    ASSUME JoinInv, invite' = invite, day' = day, members' = members, job' = job
    PROVE  JoinInv'
BY Undisturbed DEF JoinInv

LEMMA JoinStepInv == JoinInv /\ [FoldersNext]_folVars => JoinInv'
<1> SUFFICES ASSUME JoinInv, [FoldersNext]_folVars PROVE JoinInv'
  OBVIOUS
<1>0. Free.at = "free"
  BY DEF Free
<1>1. ASSUME NEW w \in Workers, CreateFolder(w) PROVE JoinInv'
  BY <1>1, SameJobs DEF CreateFolder
<1>2. ASSUME NEW w \in Workers, AddItemCheck(w) PROVE JoinInv'
  <2>1. PICK x : Do(w, [at |-> "add", item |-> x])
    BY <1>2 DEF AddItemCheck
  <2>2. UNCHANGED <<invite, day, members>>
    BY <1>2 DEF AddItemCheck
  <2> QED BY <2>1, <2>2, OtherJob
<1>3. ASSUME NEW w \in Workers, AddItemInsert(w) PROVE JoinInv'
  BY <1>0, <1>3, OtherJob DEF AddItemInsert, Answer
<1>4. ASSUME NEW w \in Workers, CreateInvite(w) PROVE JoinInv'
  <2>1. PICK i \in Invites, f \in FolderIds, d \in Ttl :
          /\ invite[i] = NoInvite
          /\ invite' = [invite EXCEPT ![i] =
                [folder |-> f, active |-> TRUE,
                 expires |-> IF d = 0 THEN 0 ELSE day + d, revoked |-> 0]]
    BY <1>4 DEF CreateInvite
  <2>2. UNCHANGED <<day, members, job>>
    BY <1>4 DEF CreateInvite
  <2>3. day + d \in Nat /\ day \in Nat
    BY FoldersAssumption DEF JoinInv
  <2>e. PICK e \in Nat : e = IF d = 0 THEN 0 ELSE day + d
    BY <2>3
  <2>i. invite' = [invite EXCEPT ![i] =
                [folder |-> f, active |-> TRUE, expires |-> e, revoked |-> 0]]
    BY <2>1, <2>e
  <2>4. [folder |-> f, active |-> TRUE, expires |-> e, revoked |-> 0] \in InviteType
    BY DEF InviteType
  <2>5. /\ invite' \in [Invites -> InviteType]
        /\ invite'[i].folder = f
        /\ \A k \in Invites : k # i => invite'[k] = invite[k]
    BY <2>i, <2>4 DEF JoinInv
  <2>6. \A k \in Invites : invite'[k].active => invite'[k].folder \in FolderIds
    BY <2>5 DEF JoinInv
  <2>7. invite[i].folder \notin FolderIds
    BY <2>1, FoldersAssumption DEF NoInvite
  <2>8. \A k, n : BegunInTime(k, n) => BegunInTime(k, n)' /\ k # i
    BY <2>2, <2>5, <2>7 DEF BegunInTime
  <2>9. \A v \in Workers : JobSound(v)'
    <3>1. ASSUME NEW v \in Workers, job[v].at \in {"accept", "join"}
          PROVE  BegunInTime(job[v].invite, job[v].asked)'
      <4>1. BegunInTime(job[v].invite, job[v].asked)
        BY <3>1 DEF JoinInv, JobSound
      <4>2. PICK k, n : k = job[v].invite /\ n = job[v].asked
        OBVIOUS
      <4> QED BY <4>1, <4>2, <2>2, <2>8
    <3> QED BY <3>1, <2>2 DEF JoinInv, JobSound
  <2>10. \A m \in members : MemberSound(m)'
    BY <2>5, <2>8 DEF JoinInv, MemberSound, BegunInTime
  <2> QED BY <2>2, <2>5, <2>6, <2>9, <2>10 DEF JoinInv
<1>5. ASSUME NEW w \in Workers, RevokeInvite(w) PROVE JoinInv'
  <2>1. PICK i \in Invites :
          /\ invite[i].active
          /\ invite' = [invite EXCEPT ![i].active = FALSE, ![i].revoked = day]
    BY <1>5 DEF RevokeInvite
  <2>2. UNCHANGED <<day, members, job>>
    BY <1>5 DEF RevokeInvite
  <2>3. invite[i] \in InviteType /\ day \in Nat
    BY DEF JoinInv
  <2>4. [invite[i] EXCEPT !.active = FALSE, !.revoked = day] \in InviteType
    BY <2>3 DEF InviteType
  <2>5. /\ invite'[i] = [invite[i] EXCEPT !.active = FALSE, !.revoked = day]
        /\ invite' \in [Invites -> InviteType]
        /\ \A k \in Invites : k # i => invite'[k] = invite[k]
    BY <2>1, <2>4 DEF JoinInv
  <2>6. /\ invite'[i].folder = invite[i].folder /\ ~invite'[i].active
        /\ invite'[i].expires = invite[i].expires /\ invite'[i].revoked = day
    BY <2>3, <2>5 DEF InviteType
  <2>7. \A k \in Invites : invite'[k].active => invite'[k].folder \in FolderIds
    BY <2>5, <2>6 DEF JoinInv
  <2>8. \A k, n : BegunInTime(k, n) => BegunInTime(k, n)'
    BY <2>2, <2>5, <2>6 DEF BegunInTime
  <2>9. \A v \in Workers : JobSound(v)'
    <3>1. ASSUME NEW v \in Workers, job[v].at \in {"accept", "join"}
          PROVE  BegunInTime(job[v].invite, job[v].asked)'
      <4>1. BegunInTime(job[v].invite, job[v].asked)
        BY <3>1 DEF JoinInv, JobSound
      <4>2. PICK k, n : k = job[v].invite /\ n = job[v].asked
        OBVIOUS
      <4> QED BY <4>1, <4>2, <2>2, <2>8
    <3> QED BY <3>1, <2>2 DEF JoinInv, JobSound
  <2>10. \A m \in members : MemberSound(m)'
    BY <2>5, <2>6, <2>8 DEF JoinInv, MemberSound, BegunInTime
  <2> QED BY <2>2, <2>5, <2>7, <2>9, <2>10 DEF JoinInv
<1>6. ASSUME NEW w \in Workers, AcceptCheck(w) PROVE JoinInv'
  <2>1. PICK i \in Invites, p \in People :
          /\ invite[i].active
          /\ ~Expired(i)
          /\ Do(w, [at |-> "accept", invite |-> i, person |-> p, asked |-> day])
    BY <1>6 DEF AcceptCheck
  <2>2. UNCHANGED <<day, invite, members>>
    BY <1>6 DEF AcceptCheck
  <2>3. /\ job' = [v \in Workers |-> IF v = w THEN
                     [at |-> "accept", invite |-> i, person |-> p, asked |-> day] ELSE job[v]]
        /\ job' = [v \in Workers |-> job'[v]]
    BY <2>1 DEF JoinInv, Do
  <2>4. BegunInTime(i, day)
    <3>1. invite[i].expires \in Nat /\ day \in Nat /\ invite[i].folder \in FolderIds
      BY <2>1 DEF JoinInv, InviteType
    <3> QED BY <3>1, <2>1 DEF BegunInTime, Expired
  <2>5. JobSound(w)'
    BY <2>2, <2>3, <2>4 DEF JobSound, BegunInTime
  <2>6. \A v \in Workers : v # w => JobSound(v)'
    BY <2>2, <2>3, Undisturbed
  <2> QED BY <2>2, <2>3, <2>5, <2>6, Undisturbed DEF JoinInv
<1>7. ASSUME NEW w \in Workers, AcceptKnown(w) PROVE JoinInv'
  <2>1. job[w].at = "accept" /\ UNCHANGED <<day, invite, members>>
    BY <1>7 DEF AcceptKnown
  <2>2. CASE Answer(w)
    BY <1>0, <2>1, <2>2, OtherJob DEF Answer
  <2>3. CASE Do(w, [job[w] EXCEPT !.at = "join"])
    <3>1. /\ job[w] = [at |-> "accept", invite |-> job[w].invite,
                      person |-> job[w].person, asked |-> job[w].asked]
          /\ BegunInTime(job[w].invite, job[w].asked)
      BY <2>1 DEF JoinInv, JobSound
    <3>2. [job[w] EXCEPT !.at = "join"] =
             [at |-> "join", invite |-> job[w].invite,
              person |-> job[w].person, asked |-> job[w].asked]
      BY <3>1
    <3>3. job' = [v \in Workers |-> IF v = w THEN
                     [at |-> "join", invite |-> job[w].invite,
                      person |-> job[w].person, asked |-> job[w].asked] ELSE job[v]]
      BY <2>3, <3>2 DEF JoinInv, Do
    <3>4. JobSound(w)'
      BY <2>1, <3>1, <3>3 DEF JobSound, BegunInTime
    <3>5. \A v \in Workers : v # w => JobSound(v)'
      BY <2>1, <3>3, Undisturbed
    <3>6. job' = [v \in Workers |-> job'[v]]
      BY <3>3
    <3> QED BY <2>1, <3>4, <3>5, <3>6, Undisturbed DEF JoinInv
  <2> QED BY <1>7, <2>2, <2>3 DEF AcceptKnown
<1>8. ASSUME NEW w \in Workers, AcceptJoin(w) PROVE JoinInv'
  <2> DEFINE new == [folder |-> invite[job[w].invite].folder, person |-> job[w].person,
                     invite |-> job[w].invite, asked |-> job[w].asked]
  <2>1. /\ job[w].at = "join" /\ Answer(w) /\ UNCHANGED <<day, invite>>
        /\ members' = members \/ members' = members \cup {new}
    BY <1>8 DEF AcceptJoin
  <2>2. MemberSound(new)
    BY <2>1 DEF JoinInv, JobSound, MemberSound
  <2>3. PICK m : m = new
    OBVIOUS
  <2>4. MemberSound(m)'
    BY <2>1, <2>2, <2>3 DEF MemberSound, BegunInTime
  <2>5. \A x \in members' : MemberSound(x)'
    BY <2>1, <2>3, <2>4, Undisturbed
  <2>6. job' = [v \in Workers |-> IF v = w THEN Free ELSE job[v]]
    BY <2>1 DEF JoinInv, Answer, Do
  <2>7. JobSound(w)' /\ \A v \in Workers : v # w => JobSound(v)'
    BY <1>0, <2>1, <2>6, Undisturbed DEF JobSound
  <2>8. job' = [v \in Workers |-> job'[v]]
    BY <2>6
  <2> QED BY <2>1, <2>5, <2>7, <2>8 DEF JoinInv
<1>9. ASSUME NEW w \in Workers, VoteRead(w) PROVE JoinInv'
  <2>1. \/ Answer(w)
        \/ \E p, x, v, r : Do(w, [at |-> "vote", person |-> p, item |-> x, value |-> v,
                                  row |-> r])
    BY <1>9 DEF VoteRead
  <2>2. UNCHANGED <<day, invite, members>>
    BY <1>9 DEF VoteRead
  <2>3. CASE Answer(w)
    BY <1>0, <2>2, <2>3, OtherJob DEF Answer
  <2>4. CASE \E p, x, v, r : Do(w, [at |-> "vote", person |-> p, item |-> x, value |-> v,
                                    row |-> r])
    <3>1. PICK p, x, v, r : Do(w, [at |-> "vote", person |-> p, item |-> x, value |-> v,
                                   row |-> r])
      BY <2>4
    <3> QED BY <2>2, <3>1, OtherJob
  <2> QED BY <2>1, <2>3, <2>4
<1>10. ASSUME NEW w \in Workers, VoteWrite(w) PROVE JoinInv'
  BY <1>0, <1>10, OtherJob DEF VoteWrite, Answer
<1>11. CASE NextDay
  <2>1. day' = day + 1 /\ UNCHANGED <<invite, members, job>> /\ day \in Nat
    BY <1>11 DEF NextDay, JoinInv
  <2>2. \A k, n : BegunInTime(k, n) => BegunInTime(k, n)'
    BY <2>1 DEF BegunInTime
  <2>3. \A v \in Workers : JobSound(v)'
    BY <2>1 DEF JoinInv, JobSound, BegunInTime
  <2>4. \A m \in members : MemberSound(m)'
    BY <2>1, <2>2 DEF JoinInv, MemberSound
  <2> QED BY <2>1, <2>3, <2>4 DEF JoinInv
<1>12. CASE UNCHANGED folVars
  BY <1>12, SameJobs DEF folVars
<1> QED BY <1>1, <1>2, <1>3, <1>4, <1>5, <1>6, <1>7, <1>8, <1>9, <1>10, <1>11, <1>12
        DEF FoldersNext, FoldersRest

\* What invites, requests and memberships have to do with each other: Folders.
THEOREM JoinInvariant == FoldersSpec => []JoinInv
BY JoinInitInv, JoinStepInv, PTL DEF FoldersSpec

\* Nobody is a member without an invite that was good when the acceptance began,
\* for any number of requests, revocations and expiries in between:
\* accept_folder_invite, revoke_folder_invite.
THEOREM MembersJoinedInTime == FoldersSpec => []JoinedInTime
<1>1. JoinInv => JoinedInTime
  BY DEF JoinInv, MemberSound, BegunInTime, JoinedInTime
<1> QED BY <1>1, JoinInvariant, PTL

-----------------------------------------------------------------------------
(***************************************************************************)
(* Shared folders: the ballots, at most one of a person on an item.        *)
(***************************************************************************)

Values == {-1, 1}

Ballot == [person : People, item : FolderIds \X EventIds, value : Values]

OwnedItems(own) == {item \in FolderIds \X EventIds : own[item[1]] # NoOne}

\* The owner and the members of a folder.
Among(p, f, own, mem) == own[f] = p \/ \E m \in mem : m.folder = f /\ m.person = p

BallotAllowed(v, its, own, mem) == v.item \in its /\ Among(v.person, v.item[1], own, mem)

OncePerPerson(vs) ==
    \A n, k \in DOMAIN vs :
        vs[n].person = vs[k].person /\ vs[n].item = vs[k].item => n = k

\* A request that is to add an item or to write a vote.
RequestSound(j, its, own, mem) ==
    /\ j.at = "add" => \E x \in OwnedItems(own) : j.item = x
    /\ j.at = "vote" => \E p \in People, x \in its, v \in Values :
          /\ j.person = p /\ j.item = x /\ j.value = v
          /\ Among(p, x[1], own, mem)

VoteInv ==
    /\ owner \in [FolderIds -> People \cup {NoOne}]
    /\ items \in SUBSET OwnedItems(owner)
    /\ IsFiniteSet(members)
    /\ votes \in Seq(Ballot)
    /\ \A n \in DOMAIN votes : BallotAllowed(votes[n], items, owner, members)
    /\ OncePerPerson(votes)
    /\ job = [w \in Workers |-> job[w]]
    /\ \A w \in Workers : RequestSound(job[w], items, owner, members)

-----------------------------------------------------------------------------
LEMMA FreeIsSound == \A its, own, mem : RequestSound(Free, its, own, mem)
BY DEF RequestSound, Free

\* Owners stay, and items and members are only added.
LEMMA StillAllowed ==
    ASSUME VoteInv, NEW its, items \subseteq its, NEW mem, members \subseteq mem,
           NEW own \in [FolderIds -> People \cup {NoOne}],
           \A f \in FolderIds : owner[f] # NoOne => own[f] = owner[f]
    PROVE  /\ \A p \in People, f \in FolderIds :
                 Among(p, f, owner, members) => Among(p, f, own, mem)
           /\ OwnedItems(owner) \subseteq OwnedItems(own)
           /\ \A n \in DOMAIN votes : BallotAllowed(votes[n], its, own, mem)
           /\ \A w \in Workers : RequestSound(job[w], its, own, mem)
<1>1. \A p \in People, f \in FolderIds :
          Among(p, f, owner, members) => Among(p, f, own, mem)
  BY FoldersAssumption DEF Among
<1>2. OwnedItems(owner) \subseteq OwnedItems(own)
  BY DEF OwnedItems
<1>3. items \subseteq OwnedItems(owner) /\ \A x \in items : x[1] \in FolderIds
  BY DEF VoteInv, OwnedItems
<1>4. ASSUME NEW n \in DOMAIN votes PROVE BallotAllowed(votes[n], its, own, mem)
  <2>1. votes[n] \in Ballot /\ BallotAllowed(votes[n], items, owner, members)
    BY DEF VoteInv
  <2>2. votes[n].person \in People
    BY <2>1 DEF Ballot
  <2> QED BY <1>1, <1>3, <2>1, <2>2 DEF BallotAllowed
<1>5. ASSUME NEW w \in Workers PROVE RequestSound(job[w], its, own, mem)
  <2>1. RequestSound(job[w], items, owner, members)
    BY DEF VoteInv
  <2> QED BY <1>1, <1>2, <1>3, <2>1 DEF RequestSound
<1> QED BY <1>1, <1>2, <1>4, <1>5

\* A request that leaves the votes alone.
LEMMA VotesKept ==
    ASSUME VoteInv, votes' = votes,
           owner' \in [FolderIds -> People \cup {NoOne}],
           \A f \in FolderIds : owner[f] # NoOne => owner'[f] = owner[f],
           items \subseteq items', items' \subseteq OwnedItems(owner'),
           members \subseteq members', IsFiniteSet(members'),
           NEW w \in Workers, NEW j, Do(w, j) \/ job' = job,
           RequestSound(j, items', owner', members')
    PROVE  VoteInv'
<1>1. /\ \A n \in DOMAIN votes : BallotAllowed(votes[n], items', owner', members')
      /\ \A v \in Workers : RequestSound(job[v], items', owner', members')
  BY StillAllowed
<1>2. \/ job' = [v \in Workers |-> IF v = w THEN j ELSE job[v]]
      \/ job' = job
  BY DEF VoteInv, Do
<1>3. job' = [v \in Workers |-> job'[v]]
  BY <1>2 DEF VoteInv
<1>4. \A v \in Workers : RequestSound(job'[v], items', owner', members')
  BY <1>1, <1>2
<1>5. PICK its, own, mem : its = items' /\ own = owner' /\ mem = members'
  OBVIOUS
<1>6. items' \in SUBSET OwnedItems(owner')
  OBVIOUS
<1>7. votes' \in Seq(Ballot) /\ OncePerPerson(votes')
  BY DEF VoteInv
<1> QED BY <1>1, <1>3, <1>4, <1>6, <1>7 DEF VoteInv

\* A request that changes nothing that is kept.
LEMMA NothingKeptChanges ==
    ASSUME VoteInv, votes' = votes, owner' = owner, items' = items, members' = members,
           NEW w \in Workers, NEW j, Do(w, j) \/ job' = job,
           RequestSound(j, items, owner, members)
    PROVE  VoteInv'
<1>1. /\ owner' \in [FolderIds -> People \cup {NoOne}]
      /\ items' \subseteq OwnedItems(owner') /\ IsFiniteSet(members')
  BY DEF VoteInv
<1> QED BY <1>1, VotesKept

LEMMA VoteWriteInv ==
    ASSUME VoteInv, NEW w \in Workers, VoteWrite(w)
    PROVE  VoteInv'
<1>1. PICK j : j = job[w]
  OBVIOUS
<1>2. /\ j.at = "vote" /\ Answer(w)
      /\ owner' = owner /\ items' = items /\ members' = members
      /\ votes' = IF j.row # {}
                  THEN [n \in DOMAIN votes |->
                          IF n \in j.row THEN [votes[n] EXCEPT !.value = j.value] ELSE votes[n]]
                  ELSE IF VoteOf(j.person, j.item) # {} THEN votes
                  ELSE Append(votes, [person |-> j.person, item |-> j.item, value |-> j.value])
  BY <1>1 DEF VoteWrite
<1>3. PICK p \in People, x \in items, v \in Values :
         j.person = p /\ j.item = x /\ j.value = v /\ Among(p, x[1], owner, members)
  BY <1>1, <1>2 DEF VoteInv, RequestSound
<1>4. /\ votes \in Seq(Ballot) /\ OncePerPerson(votes) /\ x \in FolderIds \X EventIds
      /\ \A n \in DOMAIN votes : BallotAllowed(votes[n], items, owner, members)
  BY DEF VoteInv, OwnedItems
<1>5. PICK len \in Nat : len = Len(votes) /\ DOMAIN votes = 1..len
  BY <1>4
<1>6. \A n \in 1..len : votes[n] \in Ballot
  BY <1>4, <1>5
<1>7. /\ votes' \in Seq(Ballot) /\ OncePerPerson(votes')
      /\ \A n \in DOMAIN votes' : BallotAllowed(votes'[n], items, owner, members)
  <2>1. CASE j.row # {}
    <3>1. PICK b : b = [n \in 1..len |->
                          IF n \in j.row THEN [votes[n] EXCEPT !.value = v] ELSE votes[n]]
      OBVIOUS
    <3>2. votes' = b
      BY <1>2, <1>3, <1>5, <2>1, <3>1
    <3>3. ASSUME NEW n \in 1..len
          PROVE  b[n] \in Ballot /\ b[n].person = votes[n].person /\ b[n].item = votes[n].item
      <4>1. PICK y : y = votes[n]
        OBVIOUS
      <4>2. y \in Ballot
        BY <1>6, <4>1
      <4>3. /\ [y EXCEPT !.value = v] \in Ballot
            /\ [y EXCEPT !.value = v].person = y.person
            /\ [y EXCEPT !.value = v].item = y.item
        BY <4>2 DEF Ballot
      <4>4. b[n] = [y EXCEPT !.value = v] \/ b[n] = y
        BY <3>1, <4>1
      <4> QED BY <4>1, <4>2, <4>3, <4>4
    <3>4. b \in Seq(Ballot) /\ DOMAIN b = 1..len
      <4>1. b \in [1..len -> Ballot]
        BY <3>1, <3>3
      <4>2. \A S : \A h \in [1..len -> S] : h \in Seq(S)
        BY <1>5
      <4> QED BY <3>1, <4>1, <4>2
    <3>5. OncePerPerson(b)
      BY <1>4, <1>5, <3>3, <3>4 DEF OncePerPerson
    <3>6. \A n \in DOMAIN b : BallotAllowed(b[n], items, owner, members)
      BY <1>4, <1>5, <3>3, <3>4 DEF BallotAllowed
    <3> QED BY <3>2, <3>4, <3>5, <3>6
  <2>2. CASE j.row = {} /\ VoteOf(p, x) # {}
    <3>1. votes' = votes
      BY <1>2, <1>3, <2>2
    <3> QED BY <1>4, <3>1
  <2>3. CASE j.row = {} /\ VoteOf(p, x) = {}
    <3>1. PICK y : y = [person |-> p, item |-> x, value |-> v]
      OBVIOUS
    <3>2. votes' = Append(votes, y)
      BY <1>2, <1>3, <2>3, <3>1
    <3>3. y \in Ballot /\ y.person = p /\ y.item = x
      BY <1>3, <1>4, <3>1 DEF Ballot
    <3>4. PICK b : b = Append(votes, y)
      OBVIOUS
    <3>5. /\ b \in Seq(Ballot) /\ Len(b) = len + 1 /\ b[len + 1] = y
          /\ \A n \in 1..len : b[n] = votes[n]
      BY <1>4, <1>5, <3>3, <3>4, AppendProperties
    <3>6. DOMAIN b = 1..(len + 1) /\ \A n \in 1..(len + 1) : n \in 1..len \/ n = len + 1
      BY <1>5, <3>5
    <3>7. \A n \in 1..len : ~(votes[n].person = p /\ votes[n].item = x)
      BY <1>5, <2>3 DEF VoteOf
    <3>8. OncePerPerson(b)
      BY SMTT(30), <1>4, <1>5, <3>3, <3>5, <3>6, <3>7 DEF OncePerPerson
    <3>9. BallotAllowed(y, items, owner, members)
      BY <1>3, <3>3 DEF BallotAllowed
    <3>10. \A n \in DOMAIN b : BallotAllowed(b[n], items, owner, members)
      BY <1>4, <1>5, <3>5, <3>6, <3>9
    <3> QED BY <3>2, <3>4, <3>5, <3>8, <3>10
  <2> QED BY <2>1, <2>2, <2>3
<1>8. job' = [u \in Workers |-> IF u = w THEN Free ELSE job[u]]
  BY <1>2 DEF VoteInv, Answer, Do
<1>9. \A u \in Workers : RequestSound(job'[u], items, owner, members)
  BY <1>8, FreeIsSound DEF VoteInv
<1>10. job' = [u \in Workers |-> job'[u]]
  BY <1>8
<1> QED BY <1>2, <1>7, <1>9, <1>10 DEF VoteInv

LEMMA VoteInitInv == FoldersInit => VoteInv
<1> SUFFICES ASSUME FoldersInit PROVE VoteInv
  OBVIOUS
<1>1. /\ owner \in [FolderIds -> People \cup {NoOne}] /\ items \in SUBSET OwnedItems(owner)
      /\ members = {} /\ votes = <<>> /\ job = [w \in Workers |-> Free]
  BY DEF FoldersInit, OwnedItems
<1>2. IsFiniteSet(members)
  BY <1>1, FS_EmptySet
<1>3. votes \in Seq(Ballot) /\ DOMAIN votes = {}
  BY <1>1
<1> QED BY <1>1, <1>2, <1>3, FreeIsSound DEF VoteInv, OncePerPerson

LEMMA VoteStepInv == VoteInv /\ [FoldersNext]_folVars => VoteInv'
<1> SUFFICES ASSUME VoteInv, [FoldersNext]_folVars PROVE VoteInv'
  OBVIOUS
<1>1. /\ owner \in [FolderIds -> People \cup {NoOne}]
      /\ items \subseteq OwnedItems(owner) /\ IsFiniteSet(members)
  BY DEF VoteInv
<1>2. ASSUME NEW w \in Workers, CreateFolder(w) PROVE VoteInv'
  <2>1. PICK f \in FolderIds, p \in People :
           owner[f] = NoOne /\ owner' = [owner EXCEPT ![f] = p]
    BY <1>2 DEF CreateFolder
  <2>2. items' = items /\ members' = members /\ votes' = votes /\ job' = job
    BY <1>2 DEF CreateFolder
  <2>3. /\ owner' \in [FolderIds -> People \cup {NoOne}]
        /\ \A g \in FolderIds : owner[g] # NoOne => owner'[g] = owner[g]
    BY <1>1, <2>1
  <2>4. items' \subseteq OwnedItems(owner')
    BY <1>1, <2>2, <2>3 DEF OwnedItems
  <2> QED BY <1>1, <2>2, <2>3, <2>4, VotesKept, FreeIsSound
<1>3. ASSUME NEW w \in Workers, AddItemCheck(w) PROVE VoteInv'
  <2>1. PICK f \in FolderIds, e \in EventIds :
           owner[f] # NoOne /\ Do(w, [at |-> "add", item |-> <<f, e>>])
    BY <1>3 DEF AddItemCheck
  <2>2. owner' = owner /\ items' = items /\ members' = members /\ votes' = votes
    BY <1>3 DEF AddItemCheck
  <2>3. <<f, e>> \in OwnedItems(owner)
    BY <2>1 DEF OwnedItems
  <2>4. RequestSound([at |-> "add", item |-> <<f, e>>], items, owner, members)
    BY <2>3 DEF RequestSound
  <2> QED BY <2>1, <2>2, <2>4, NothingKeptChanges
<1>4. ASSUME NEW w \in Workers, AddItemInsert(w) PROVE VoteInv'
  <2>1. /\ job[w].at = "add" /\ items' = items \cup {job[w].item} /\ Do(w, Free)
        /\ owner' = owner /\ members' = members /\ votes' = votes
    BY <1>4 DEF AddItemInsert, Answer
  <2>2. job[w].item \in OwnedItems(owner)
    BY <2>1 DEF VoteInv, RequestSound
  <2>3. items \subseteq items' /\ items' \subseteq OwnedItems(owner')
    BY <1>1, <2>1, <2>2
  <2> QED BY <1>1, <2>1, <2>3, VotesKept, FreeIsSound
<1>5. ASSUME NEW w \in Workers, CreateInvite(w) \/ RevokeInvite(w) PROVE VoteInv'
  BY <1>5, NothingKeptChanges, FreeIsSound DEF CreateInvite, RevokeInvite
<1>6. ASSUME NEW w \in Workers, AcceptCheck(w) PROVE VoteInv'
  <2>1. PICK i, p : Do(w, [at |-> "accept", invite |-> i, person |-> p, asked |-> day])
    BY <1>6 DEF AcceptCheck
  <2>2. owner' = owner /\ items' = items /\ members' = members /\ votes' = votes
    BY <1>6 DEF AcceptCheck
  <2>3. RequestSound([at |-> "accept", invite |-> i, person |-> p, asked |-> day],
                     items, owner, members)
    BY DEF RequestSound
  <2> QED BY <2>1, <2>2, <2>3, NothingKeptChanges
<1>7. ASSUME NEW w \in Workers, AcceptKnown(w) PROVE VoteInv'
  <2>1. /\ owner' = owner /\ items' = items /\ members' = members /\ votes' = votes
        /\ Do(w, Free) \/ Do(w, [job[w] EXCEPT !.at = "join"])
    BY <1>7 DEF AcceptKnown, Answer
  <2>2. [job[w] EXCEPT !.at = "join"].at = "join" \/ [job[w] EXCEPT !.at = "join"].at = job[w].at
    OBVIOUS
  <2>3. RequestSound([job[w] EXCEPT !.at = "join"], items, owner, members)
    BY <1>7, <2>2 DEF RequestSound, AcceptKnown
  <2> QED BY <2>1, <2>3, NothingKeptChanges, FreeIsSound
<1>8. ASSUME NEW w \in Workers, AcceptJoin(w) PROVE VoteInv'
  <2>1. PICK m : members' = members \/ members' = members \cup {m}
    BY <1>8 DEF AcceptJoin
  <2>2. owner' = owner /\ items' = items /\ votes' = votes /\ Do(w, Free)
    BY <1>8 DEF AcceptJoin, Answer
  <2>3. members \subseteq members' /\ IsFiniteSet(members')
    BY <1>1, <2>1, FS_AddElement
  <2> QED BY <1>1, <2>2, <2>3, VotesKept, FreeIsSound
<1>9. ASSUME NEW w \in Workers, VoteRead(w) PROVE VoteInv'
  <2>1. PICK f \in FolderIds, x \in items, p \in People, v \in Values :
           /\ IsOwner(p, f) \/ IsMember(p, f)
           /\ x[1] = f
           /\ Do(w, Free) \/ Do(w, [at |-> "vote", person |-> p, item |-> x, value |-> v,
                                    row |-> VoteOf(p, x)])
    BY <1>9 DEF VoteRead, Answer, Values
  <2>2. owner' = owner /\ items' = items /\ members' = members /\ votes' = votes
    BY <1>9 DEF VoteRead
  <2>3. Among(p, x[1], owner, members)
    BY <2>1 DEF Among, IsOwner, IsMember
  <2>4. RequestSound([at |-> "vote", person |-> p, item |-> x, value |-> v,
                      row |-> VoteOf(p, x)], items, owner, members)
    BY <2>3 DEF RequestSound
  <2> QED BY <2>1, <2>2, <2>4, NothingKeptChanges, FreeIsSound
<1>10. ASSUME NEW w \in Workers, VoteWrite(w) PROVE VoteInv'
  BY <1>10, VoteWriteInv
<1>11. CASE NextDay \/ UNCHANGED folVars
  <2>1. /\ owner' = owner /\ items' = items /\ members' = members /\ votes' = votes
        /\ job' = job
    BY <1>11 DEF NextDay, folVars
  <2> QED BY <2>1 DEF VoteInv
<1> QED BY <1>2, <1>3, <1>4, <1>5, <1>6, <1>7, <1>8, <1>9, <1>10, <1>11
        DEF FoldersNext, FoldersRest

-----------------------------------------------------------------------------
\* There are as many votes of a value on an item as people at most.
LEMMA BallotsCounted ==
    ASSUME VoteInv, NEW item \in items, NEW val
    PROVE  /\ Cardinality(Ballots(item, val)) \in Nat
           /\ Cardinality({m \in members : m.folder = item[1]}) \in Nat
           /\ Cardinality(Ballots(item, val))
                 <= 1 + Cardinality({m \in members : m.folder = item[1]})
<1>1. PICK f : f = item[1]
  OBVIOUS
<1>2. PICK M : M = {m \in members : m.folder = f}
  OBVIOUS
<1>3. PICK P : P = {m.person : m \in M}
  OBVIOUS
<1>4. IsFiniteSet(M) /\ Cardinality(M) \in Nat
  BY <1>2, FS_Subset, FS_CardinalityType DEF VoteInv
<1>5. IsFiniteSet(P) /\ Cardinality(P) <= Cardinality(M) /\ Cardinality(P) \in Nat
  <2>1. [m \in M |-> m.person] \in Surjection(M, P)
    BY <1>3 DEF Surjection
  <2> QED BY <1>4, <2>1, FS_Surjection, FS_CardinalityType
<1>6. PICK Q : Q = P \cup {owner[f]}
  OBVIOUS
<1>7. IsFiniteSet(Q) /\ Cardinality(Q) <= Cardinality(P) + 1 /\ Cardinality(Q) \in Nat
  <2>1. PICK n \in Nat : n = Cardinality(P)
    BY <1>5
  <2>2. IsFiniteSet(Q) /\ (Cardinality(Q) = n \/ Cardinality(Q) = n + 1)
    BY <1>5, <1>6, <2>1, FS_AddElement
  <2> QED BY <2>1, <2>2
<1>8. PICK B : B = Ballots(item, val)
  OBVIOUS
<1>9. \A n \in B : n \in DOMAIN votes /\ votes[n].item = item
  BY <1>8 DEF Ballots
<1>10. ASSUME NEW n \in B PROVE votes[n].person \in Q
  <2>1. Among(votes[n].person, f, owner, members)
    BY <1>1, <1>9 DEF VoteInv, BallotAllowed
  <2> QED BY <1>2, <1>3, <1>6, <2>1 DEF Among
<1>11. ASSUME NEW n \in B, NEW k \in B, votes[n].person = votes[k].person PROVE n = k
  BY <1>9, <1>11 DEF VoteInv, OncePerPerson
<1>12. PICK g : g = [n \in B |-> votes[n].person]
  OBVIOUS
<1>13. g \in Injection(B, Q)
  BY <1>10, <1>11, <1>12 DEF Injection, IsInjective
<1>14. IsFiniteSet(B) /\ Cardinality(B) <= Cardinality(Q)
  BY <1>7, <1>13, FS_Injection
<1>15. Cardinality(B) \in Nat
  BY <1>14, FS_CardinalityType
<1> QED BY <1>1, <1>2, <1>4, <1>5, <1>7, <1>8, <1>14, <1>15

LEMMA VoteInvTells == VoteInv => OneVoteEach
<1> SUFFICES ASSUME VoteInv, NEW item \in items
             PROVE  LET people == 1 + Cardinality({m \in members : m.folder = item[1]})
                    IN  Score(item) \in (-people)..people
  BY DEF OneVoteEach
<1>1. PICK up, down, c : /\ up = Cardinality(Ballots(item, 1))
                         /\ down = Cardinality(Ballots(item, -1))
                         /\ c = Cardinality({m \in members : m.folder = item[1]})
  OBVIOUS
<1>2. up \in Nat /\ down \in Nat /\ c \in Nat /\ up <= 1 + c /\ down <= 1 + c
  BY <1>1, BallotsCounted
<1>3. up - down \in (-(1 + c))..(1 + c)
  BY <1>2
<1> QED BY <1>1, <1>3 DEF Score

\* Nobody's vote counts twice, and nobody votes in a folder of others, whatever
\* first votes, joins and changes of mind overlap: vote_on_folder_item,
\* uq_folder_item_user_vote.
THEOREM VotesCountOnce == FoldersSpec => []OneVoteEach
<1>1. FoldersInit => VoteInv
  BY VoteInitInv
<1>2. VoteInv /\ [FoldersNext]_folVars => VoteInv'
  BY VoteStepInv
<1>3. VoteInv => OneVoteEach
  BY VoteInvTells
<1> QED BY <1>1, <1>2, <1>3, PTL DEF FoldersSpec

-----------------------------------------------------------------------------
(***************************************************************************)
(* Shared itineraries: what a public link has shown it shows until it      *)
(* goes dark, and it stays dark.                                           *)
(***************************************************************************)

PlanType == [made : BOOLEAN, stops : SUBSET [event : Stops, fact : Nat],
             expires : Nat, revoked : Nat]

\* A request in progress holds what it has read: the stops to freeze, or the plan
\* it found, which is not taken away again.
DeskSound(d) ==
    /\ desk[d].at = "share" => /\ desk[d].stops # {}
                               /\ desk[d].stops \in SUBSET [event : Stops, fact : Nat]
    /\ desk[d].at = "revoke" => desk[d].plan \in Plans /\ plan[desk[d].plan].made

\* A public answer is the frozen plan, or came when it was dark already.
AnswerSound(p, a) ==
    /\ plan[p].made
    /\ a.at \in Nat /\ a.at < served
    /\ a.stops # {} => a.stops = plan[p].stops
    /\ a.stops = {} => ShareStatus(p) # "active"

PlansTypes ==
    /\ hour \in Nat \ {0}
    /\ served \in Nat
    /\ fact \in [Stops -> Nat]
    /\ plan \in [Plans -> PlanType]
    /\ desk = [d \in Desks |-> desk[d]]
    /\ told = [p \in Plans |-> told[p]]

PlansInv ==
    /\ PlansTypes
    /\ \A p \in Plans : plan[p].made => plan[p].stops # {}
    /\ \A d \in Desks : DeskSound(d)
    /\ \A p \in Plans : \A a \in told[p] : AnswerSound(p, a)
    /\ OnePlanPerLink

-----------------------------------------------------------------------------
LEMMA PlansInitInv == PlansInit => PlansInv
BY DEF PlansInit, PlansInv, PlansTypes, PlanType, Unshared, Ready, DeskSound, OnePlanPerLink

\* Whatever leaves the plans made with their stops, and lets no dark one light
\* up, keeps the answers sound.
LEMMA AnswersKept ==
    ASSUME PlansInv, told' = told, served' \in Nat, served' >= served,
           \A p \in Plans : plan[p].made =>
               /\ plan'[p].made /\ plan'[p].stops = plan[p].stops
               /\ ShareStatus(p) # "active" => ShareStatus(p)' # "active"
    PROVE  /\ (\A p \in Plans : \A a \in told[p] : AnswerSound(p, a))'
           /\ OnePlanPerLink'
<1>1. ASSUME NEW p \in Plans, NEW a \in told[p] PROVE AnswerSound(p, a)'
  <2>1. AnswerSound(p, a)
    BY DEF PlansInv
  <2>2. a.at < served'
    BY <2>1 DEF AnswerSound, PlansInv, PlansTypes
  <2> QED BY <2>1, <2>2 DEF AnswerSound
<1>2. OnePlanPerLink'
  BY DEF PlansInv, OnePlanPerLink
<1> QED BY <1>1, <1>2

LEMMA PlansStepInv == PlansInv /\ [PlansNext]_plaVars => PlansInv'
<1> SUFFICES ASSUME PlansInv, [PlansNext]_plaVars PROVE PlansInv'
  OBVIOUS
<1>0. PlansTypes
  BY DEF PlansInv
<1>1. ASSUME NEW d \in Desks, Share(d) PROVE PlansInv'
  <2>1. PICK S \in SUBSET Stops :
          /\ S # {}
          /\ desk' = [desk EXCEPT ![d] =
                [at |-> "share", stops |-> {[event |-> e, fact |-> fact[e]] : e \in S}]]
    BY <1>1 DEF Share
  <2>2. served' = served + 1 /\ UNCHANGED <<hour, fact, plan, told>>
    BY <1>1 DEF Share, Serve
  <2>s. PICK frozen : frozen = {[event |-> e, fact |-> fact[e]] : e \in S}
    OBVIOUS
  <2>r. desk' = [desk EXCEPT ![d] = [at |-> "share", stops |-> frozen]]
    BY <2>1, <2>s
  <2>3. PlansTypes'
    BY <1>0, <2>r, <2>2 DEF PlansTypes
  <2>4. frozen # {} /\ frozen \in SUBSET [event : Stops, fact : Nat]
    <3>1. \A e \in S : [event |-> e, fact |-> fact[e]] \in [event : Stops, fact : Nat]
      BY <1>0 DEF PlansTypes
    <3>2. PICK e \in S : TRUE
      BY <2>1
    <3>3. [event |-> e, fact |-> fact[e]] \in frozen
      BY <2>s, <3>2
    <3> QED BY <2>s, <3>1, <3>3
  <2>5. \A c \in Desks : DeskSound(c)'
    <3>1. /\ desk'[d].at = "share"
          /\ desk'[d].stops = frozen
      BY <1>0, <2>r DEF PlansTypes
    <3>2. \A c \in Desks : c # d => desk'[c] = desk[c]
      BY <1>0, <2>r DEF PlansTypes
    <3> QED BY <3>1, <3>2, <2>2, <2>4 DEF PlansInv, DeskSound
  <2>6. served' \in Nat /\ served' >= served
    BY <1>0, <2>2 DEF PlansTypes
  <2>7. \A p \in Plans : ShareStatus(p)' = ShareStatus(p)
    BY <2>2 DEF ShareStatus
  <2> QED BY <2>2, <2>3, <2>5, <2>6, <2>7, AnswersKept DEF PlansInv
<1>2. ASSUME NEW d \in Desks, ShareCommit(d) PROVE PlansInv'
  <2>1. PICK p \in Plans, days \in Lasting :
          /\ ~plan[p].made
          /\ plan' = [plan EXCEPT ![p] = [made |-> TRUE, stops |-> desk[d].stops,
                                          expires |-> hour + days, revoked |-> 0]]
    BY <1>2 DEF ShareCommit
  <2>2. /\ desk[d].at = "share" /\ desk' = [desk EXCEPT ![d] = Ready]
        /\ UNCHANGED <<hour, fact, served, told>>
    BY <1>2 DEF ShareCommit
  <2>3. desk[d].stops # {} /\ desk[d].stops \in SUBSET [event : Stops, fact : Nat]
    BY <2>2 DEF PlansInv, DeskSound
  <2>4. hour + days \in Nat
    BY <1>0, PlansAssumption DEF PlansTypes
  <2>5. [made |-> TRUE, stops |-> desk[d].stops, expires |-> hour + days, revoked |-> 0]
          \in PlanType
    BY <2>3, <2>4 DEF PlanType
  <2>6. PlansTypes'
    BY <1>0, <2>1, <2>2, <2>5 DEF PlansTypes
  <2>7. /\ plan'[p].made /\ plan'[p].stops = desk[d].stops
        /\ \A q \in Plans : q # p => plan'[q] = plan[q]
    BY <1>0, <2>1 DEF PlansTypes
  <2>8. \A q \in Plans : plan'[q].made => plan'[q].stops # {}
    BY <2>3, <2>7 DEF PlansInv
  <2>9. \A c \in Desks : DeskSound(c)'
    <3>1. desk'[d].at = "ready" /\ \A c \in Desks : c # d => desk'[c] = desk[c]
      BY <1>0, <2>2 DEF PlansTypes, Ready
    <3> QED BY <3>1, <2>7 DEF PlansInv, DeskSound
  <2>10. \A q \in Plans : plan[q].made => q # p
    BY <2>1
  <2>11. \A q \in Plans : plan[q].made => plan'[q] = plan[q] /\ ShareStatus(q)' = ShareStatus(q)
    BY <2>2, <2>7, <2>10 DEF ShareStatus
  <2>12. served' \in Nat /\ served' >= served
    BY <1>0, <2>2 DEF PlansTypes
  <2> QED BY <2>2, <2>6, <2>8, <2>9, <2>11, <2>12, AnswersKept DEF PlansInv
<1>3. ASSUME NEW d \in Desks, ReadShared(d) PROVE PlansInv'
  <2>1. PICK p \in Plans :
          /\ plan[p].made
          /\ told' = [told EXCEPT ![p] = @ \cup {[stops |-> PublicAnswer(p), at |-> served]}]
    BY <1>3 DEF ReadShared
  <2>2. served' = served + 1 /\ UNCHANGED <<hour, fact, plan, desk>>
    BY <1>3 DEF ReadShared, Serve
  <2>3. PlansTypes'
    BY SMTT(30), <1>0, <2>1, <2>2 DEF PlansTypes
  <2>n. PICK new : new = [stops |-> PublicAnswer(p), at |-> served]
    OBVIOUS
  <2>4. \A q \in Plans : ShareStatus(q)' = ShareStatus(q)
    BY <2>2 DEF ShareStatus
  <2>5. /\ new.at = served /\ new.stops = PublicAnswer(p)
        /\ new.stops # {} => ShareStatus(p) = "active" /\ new.stops = plan[p].stops
        /\ new.stops = {} => ShareStatus(p) # "active"
    BY <2>1, <2>n DEF PublicAnswer, Portable, PlansInv
  <2>6. /\ told'[p] = told[p] \cup {new}
        /\ \A q \in Plans : q # p => told'[q] = told[q]
    BY <1>0, <2>1, <2>n DEF PlansTypes
  <2>7. served \in Nat /\ served' \in Nat /\ served < served'
    BY <1>0, <2>2 DEF PlansTypes
  <2>8. \A q \in Plans : \A a \in told[q] : AnswerSound(q, a)'
    <3>1. ASSUME NEW q \in Plans, NEW a \in told[q] PROVE AnswerSound(q, a)'
      <4>1. AnswerSound(q, a)
        BY DEF PlansInv
      <4>2. a.at \in Nat /\ a.at < served'
        BY <4>1, <2>7 DEF AnswerSound
      <4> QED BY <4>1, <4>2, <2>2, <2>4 DEF AnswerSound
    <3> QED BY <3>1
  <2>9. AnswerSound(p, new)'
    BY <2>1, <2>2, <2>4, <2>5, <2>7 DEF AnswerSound
  <2>10. \A q \in Plans : \A a \in told'[q] : AnswerSound(q, a)'
    BY <2>6, <2>8, <2>9
  <2>11. ASSUME NEW q \in Plans, NEW a \in told'[q], NEW b \in told'[q]
         PROVE  /\ a.stops # {} /\ b.stops # {} => a.stops = b.stops
                /\ a.stops = {} /\ a.at < b.at => b.stops = {}
    <3>1. a.stops # {} /\ b.stops # {} => a.stops = b.stops
      BY <2>10 DEF AnswerSound
    <3>2. CASE a \in told[q] /\ b \in told[q]
      BY <3>1, <3>2 DEF PlansInv, OnePlanPerLink
    <3>3. CASE a \notin told[q]
      <4>1. a = new /\ a.at = served
        BY <3>3, <2>5, <2>6
      <4>2. b.at \in Nat /\ b.at <= served
        <5>1. CASE b = new
          BY <5>1, <2>5, <2>7
        <5>2. CASE b \in told[q]
          BY <5>2, <2>7 DEF PlansInv, AnswerSound
        <5> QED BY <5>1, <5>2, <2>6
      <4>3. ~(a.at < b.at)
        BY <4>1, <4>2, <2>7
      <4> QED BY <3>1, <4>3
    <3>4. CASE a \in told[q] /\ b \notin told[q]
      <4>1. b = new /\ q = p
        BY <3>4, <2>6
      <4>2. a.stops = {} => ShareStatus(p) # "active"
        BY <3>4, <4>1 DEF PlansInv, AnswerSound
      <4> QED BY <3>1, <4>1, <4>2, <2>5
    <3> QED BY <3>2, <3>3, <3>4
  <2>12. OnePlanPerLink'
    BY <2>11 DEF OnePlanPerLink
  <2>13. \A c \in Desks : DeskSound(c)'
    BY <2>2 DEF PlansInv, DeskSound
  <2> QED BY <2>2, <2>3, <2>10, <2>12, <2>13 DEF PlansInv
<1>4. ASSUME NEW d \in Desks, RevokeFind(d) PROVE PlansInv'
  <2>1. PICK p \in Plans :
          /\ plan[p].made
          /\ desk' = [desk EXCEPT ![d] = [at |-> "revoke", plan |-> p]]
    BY <1>4 DEF RevokeFind
  <2>2. served' = served + 1 /\ UNCHANGED <<hour, fact, plan, told>>
    BY <1>4 DEF RevokeFind, Serve
  <2>3. PlansTypes'
    BY <1>0, <2>1, <2>2 DEF PlansTypes
  <2>4. \A c \in Desks : DeskSound(c)'
    <3>1. /\ desk'[d].at = "revoke" /\ desk'[d].plan = p
          /\ \A c \in Desks : c # d => desk'[c] = desk[c]
      BY <1>0, <2>1 DEF PlansTypes
    <3> QED BY <3>1, <2>1, <2>2 DEF PlansInv, DeskSound
  <2>5. served' \in Nat /\ served' >= served
    BY <1>0, <2>2 DEF PlansTypes
  <2>6. \A q \in Plans : ShareStatus(q)' = ShareStatus(q)
    BY <2>2 DEF ShareStatus
  <2> QED BY <2>2, <2>3, <2>4, <2>5, <2>6, AnswersKept DEF PlansInv
<1>5. ASSUME NEW d \in Desks, RevokeWrite(d) PROVE PlansInv'
  <2> DEFINE p == desk[d].plan
  <2>1. /\ desk[d].at = "revoke"
        /\ plan' = IF plan[p].revoked = 0 THEN [plan EXCEPT ![p].revoked = hour] ELSE plan
        /\ desk' = [desk EXCEPT ![d] = Ready]
        /\ UNCHANGED <<hour, fact, served, told>>
    BY <1>5 DEF RevokeWrite
  <2>2. p \in Plans /\ plan[p].made
    BY <2>1 DEF PlansInv, DeskSound
  <2> HIDE DEF p
  <2>3. [plan[p] EXCEPT !.revoked = hour] \in PlanType
    BY <1>0, <2>2 DEF PlansTypes, PlanType
  <2>4. plan' \in [Plans -> PlanType]
    BY <1>0, <2>1, <2>2, <2>3 DEF PlansTypes
  <2>5. PlansTypes'
    BY <1>0, <2>1, <2>4 DEF PlansTypes
  <2>6. \A q \in Plans : /\ plan'[q].made = plan[q].made /\ plan'[q].stops = plan[q].stops
                         /\ plan'[q].expires = plan[q].expires
                         /\ plan[q].revoked # 0 => plan'[q].revoked # 0
    BY <1>0, <2>1, <2>2 DEF PlansTypes, PlanType
  <2>7. \A q \in Plans : ShareStatus(q) # "active" => ShareStatus(q)' # "active"
    BY <2>1, <2>6 DEF ShareStatus
  <2>8. \A c \in Desks : DeskSound(c)'
    <3>1. desk'[d].at = "ready" /\ \A c \in Desks : c # d => desk'[c] = desk[c]
      BY <1>0, <2>1 DEF PlansTypes, Ready
    <3> QED BY <3>1, <2>6 DEF PlansInv, DeskSound
  <2>9. served' \in Nat /\ served' >= served
    BY <1>0, <2>1 DEF PlansTypes
  <2> QED BY <2>1, <2>5, <2>6, <2>7, <2>8, <2>9, AnswersKept DEF PlansInv
<1>6. ASSUME NEW e \in Stops, Revise(e) PROVE PlansInv'
  <2>1. fact' = [fact EXCEPT ![e] = @ + 1] /\ UNCHANGED <<hour, plan, desk, served, told>>
    BY <1>6 DEF Revise
  <2>2. PlansTypes'
    BY <1>0, <2>1 DEF PlansTypes
  <2>3. \A q \in Plans : ShareStatus(q)' = ShareStatus(q)
    BY <2>1 DEF ShareStatus
  <2>4. \A c \in Desks : DeskSound(c)'
    BY <2>1 DEF PlansInv, DeskSound
  <2>5. served' \in Nat /\ served' >= served
    BY <1>0, <2>1 DEF PlansTypes
  <2> QED BY <2>1, <2>2, <2>3, <2>4, <2>5, AnswersKept DEF PlansInv
<1>7. CASE HourPasses
  <2>1. hour' = hour + 1 /\ UNCHANGED <<fact, plan, desk, served, told>>
    BY <1>7 DEF HourPasses
  <2>2. PlansTypes'
    BY <1>0, <2>1 DEF PlansTypes
  <2>3. \A q \in Plans : plan[q].expires <= hour => plan[q].expires <= hour + 1
    BY <1>0 DEF PlansTypes, PlanType
  <2>4. \A q \in Plans : ShareStatus(q) # "active" => ShareStatus(q)' # "active"
    BY <2>1, <2>3 DEF ShareStatus
  <2>5. \A c \in Desks : DeskSound(c)'
    BY <2>1 DEF PlansInv, DeskSound
  <2>6. served' \in Nat /\ served' >= served
    BY <1>0, <2>1 DEF PlansTypes
  <2> QED BY <2>1, <2>2, <2>4, <2>5, <2>6, AnswersKept DEF PlansInv
<1>8. CASE UNCHANGED plaVars
  BY <1>8 DEF plaVars, PlansInv, PlansTypes, DeskSound, AnswerSound, ShareStatus, OnePlanPerLink
<1> QED BY <1>1, <1>2, <1>3, <1>4, <1>5, <1>6, <1>7, <1>8 DEF PlansNext, PlansRest

\* What links, requests and answers hold, in every state: SharedPlans.
THEOREM PlansInvariant == PlansSpec => []PlansInv
BY PlansInitInv, PlansStepInv, PTL DEF PlansSpec

\* A link shows one plan until it goes dark, and then never again, for any number
\* of readers, revocations and revisions of its events:
\* share_concierge_itinerary, get_shared_itinerary, revoke_owned_itinerary.
THEOREM LinksAreConstant == PlansSpec => []OnePlanPerLink
<1>1. PlansInv => OnePlanPerLink
  BY DEF PlansInv
<1> QED BY <1>1, PlansInvariant, PTL

-----------------------------------------------------------------------------
(***************************************************************************)
(* The server as a whole.                                                  *)
(***************************************************************************)

\* Whatever the server does is, seen from each of its parts, what that part does:
\* the theorems about the parts hold of the server.
LEMMA ApiRunsItsParts ==
    ApiSpec =>
       /\ TokensSpec
       /\ ProfileSpec
       /\ FoldersSpec
       /\ PlansSpec
       /\ SearchSpec
       /\ RecommendationsSpec
       /\ ConciergeSpec
       /\ SnapshotsSpec
<1>1. ApiInit =>
        /\ TokensInit
        /\ ProfileInit
        /\ FoldersInit
        /\ PlansInit
        /\ SearchInit
        /\ RecommendationsInit
        /\ ConciergeInit
        /\ SnapshotsInit
  BY DEF ApiInit
<1>2. [ApiNext]_apiVars => [TokensNext]_tokVars
  BY DEF ApiNext, apiVars
<1>3. [ApiNext]_apiVars => [ProfileNext]_proVars
  BY DEF ApiNext, apiVars
<1>4. [ApiNext]_apiVars => [FoldersNext]_folVars
  BY DEF ApiNext, apiVars
<1>5. [ApiNext]_apiVars => [PlansNext]_plaVars
  BY DEF ApiNext, apiVars
<1>6. [ApiNext]_apiVars => [SearchNext]_seaVars
  BY DEF ApiNext, apiVars
<1>7. [ApiNext]_apiVars => [RecommendationsNext]_recVars
  BY DEF ApiNext, apiVars
<1>8. [ApiNext]_apiVars => [ConciergeNext]_conVars
  BY DEF ApiNext, apiVars
<1>9. [ApiNext]_apiVars => [SnapshotsNext]_snaVars
  BY DEF ApiNext, apiVars
<1> QED BY <1>1, <1>2, <1>3, <1>4, <1>5, <1>6, <1>7, <1>8, <1>9, PTL
         DEF ApiSpec, TokensSpec, ProfileSpec, FoldersSpec, PlansSpec,
             SearchSpec, RecommendationsSpec, ConciergeSpec, SnapshotsSpec

\* What belongs to an account is safe on the server: auth.py, agent_tokens.py,
\* discovery.py and social.py, for any number of requests at once.
THEOREM AccountsAreSafe ==
    ApiSpec =>
       /\ [](TokenCap /\ WindowBounded)
       /\ [](ColumnsIndependent /\ SavedIsSignalled)
       /\ [](JoinedInTime /\ OneVoteEach /\ OnePlanPerLink)
       /\ RevokedStaysOut
<1>1. ApiSpec => []TokenCap /\ []WindowBounded /\ RevokedStaysOut
  BY ApiRunsItsParts, CapHolds, WindowIsBounded, RevocationFinal, PTL
<1>2. ApiSpec => []SavedIsSignalled /\ []ColumnsIndependent
  BY ApiRunsItsParts, SavesAreKnown, ColumnsKeptApart, PTL
<1>3. ApiSpec => []JoinedInTime /\ []OneVoteEach /\ []OnePlanPerLink
  BY ApiRunsItsParts, MembersJoinedInTime, VotesCountOnce, LinksAreConstant, PTL
<1> QED BY <1>1, <1>2, <1>3, PTL
=============================================================================
