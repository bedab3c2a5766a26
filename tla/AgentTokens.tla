----------------------------- MODULE AgentTokens -----------------------------
(***************************************************************************)
(* The agent tokens of one account: app/api/auth.py, app/api/agent_tokens  *)
(* and the admission of a request in app/core/security.py, with the        *)
(* in-process sliding window of app/core/ratelimit.py in front of it.      *)
(*                                                                         *)
(* Requests run in the threads of one server process, each with a database *)
(* session of its own at READ COMMITTED, so a request is as many steps as  *)
(* it has statements that another request can tell apart.                  *)
(*                                                                         *)
(* Simplifications.  One account and one client address: the caps, the row *)
(* lock and the window are per account, per row and per key.  A credential *)
(* is the token it names: one that matches no row is answered 401 and      *)
(* changes nothing.  The wall clock and the monotonic clock advance        *)
(* together.  Scopes are checked after admission and change no state; they *)
(* are left out, with the answers' wording and the token's name.           *)
(***************************************************************************)
EXTENDS Naturals, Sequences, FiniteSets, SequencesExt

CONSTANTS
    Tokens,        \* ids of token rows
    Slots,         \* server threads
    Cap,           \* active tokens an account may hold (50)
    Lifetimes,     \* choices of expires_in_days
    Limit, Window, \* the agent limiter: 120 hits in 60 seconds
    MaxTime,       \* bound: clock
    MaxRequests    \* bound: requests

Nobody == "nobody"

ASSUME TokensAssumption ==
    /\ IsFiniteSet(Tokens)
    /\ Nobody \notin Slots
    /\ Cap \in Nat
    /\ Lifetimes \subseteq Nat \ {0}
    /\ Limit \in Nat \ {0}
    /\ Window \in Nat \ {0}
    /\ MaxTime \in Nat
    /\ MaxRequests \in Nat

VARIABLES
    clock,
    registered,    \* the account's row exists
    token,         \* the agent_tokens rows
    userLock,      \* who holds the account's row FOR UPDATE
    hits,          \* SlidingWindowLimiter._hits, one window per token
    lastSweep,     \* _last_sweep
    call,          \* the request each thread is serving
    requests,      \* requests so far
    allowed,       \* history: times of the hits that were let through
    disordered     \* history: a hit was let through by a clock older than that of
                   \* an earlier hit or sweep

rows  == <<registered, token, userLock>>
limiter == <<hits, lastSweep, allowed, disordered>>
tokVars == <<clock, rows, limiter, call, requests>>

NoToken == "none"
Absent == [made |-> FALSE, expires |-> 0, revoked |-> FALSE, count |-> 0]
Idle   == [pc |-> "idle", tok |-> NoToken, now |-> 0, life |-> 0]

Live(t, now) == token[t].made /\ ~token[t].revoked /\ token[t].expires > now

TokensInit ==
    /\ clock = 0
    /\ \E held \in SUBSET Tokens, d \in Lifetimes :
          /\ IsFiniteSet(held) /\ Cardinality(held) <= Cap
          /\ token = [t \in Tokens |-> IF t \in held
                        THEN [Absent EXCEPT !.made = TRUE, !.expires = d] ELSE Absent]
          /\ registered \in IF held = {} THEN BOOLEAN ELSE {TRUE}
    /\ userLock = Nobody
    /\ hits = [t \in Tokens |-> <<>>]
    /\ lastSweep = 0
    /\ call = [s \in Slots |-> Idle]
    /\ requests = 0
    /\ allowed = [t \in Tokens |-> <<>>]
    /\ disordered = FALSE

Begin(s, c) ==
    /\ call[s] = Idle
    /\ requests < MaxRequests
    /\ requests' = requests + 1
    /\ call' = [call EXCEPT ![s] = c]

Goto(s, pc) == call' = [call EXCEPT ![s].pc = pc]
Finish(s)   == call' = [call EXCEPT ![s] = Idle]

-----------------------------------------------------------------------------
(* Accounts. *)

\* register: no such email yet
RegisterCheck(s) ==
    /\ ~registered
    /\ Begin(s, [Idle EXCEPT !.pc = "register"])
    /\ UNCHANGED <<clock, rows, limiter>>

\* The commit; the unique email refuses the slower of two.
RegisterCommit(s) ==
    /\ call[s].pc = "register"
    /\ registered' = TRUE
    /\ Finish(s)
    /\ UNCHANGED <<clock, token, userLock, limiter, requests>>

-----------------------------------------------------------------------------
(* Minting. *)

Minting == {s \in Slots : call[s].pc \in {"lock", "count", "insert"}}

\* get_current_user, and the clock, which is read before the lock.
MintStart(s) ==
    /\ registered
    /\ Cardinality({t \in Tokens : ~token[t].made}) > Cardinality(Minting)  \* bound: ids
    /\ \E d \in Lifetimes :
          Begin(s, [Idle EXCEPT !.pc = "lock", !.now = clock, !.life = d])
    /\ UNCHANGED <<clock, rows, limiter>>

\* Fault: minting requests of one account are not serialised.
MintLock_None(s) ==
    /\ call[s].pc = "lock"
    /\ Goto(s, "count")
    /\ UNCHANGED <<clock, rows, limiter, requests>>

\* SELECT ... FOR UPDATE on the account's row
MintLock(s) ==
    /\ call[s].pc = "lock"
    /\ userLock = Nobody
    /\ userLock' = s
    /\ Goto(s, "count")
    /\ UNCHANGED <<clock, registered, token, limiter, requests>>

Release == userLock' = Nobody

\* 409 at the cap
MintRefused(s) ==
    /\ call[s].pc = "count"
    /\ Cardinality({t \in Tokens : Live(t, call[s].now)}) >= Cap
    /\ Finish(s)
    /\ Release
    /\ UNCHANGED <<clock, registered, token, limiter, requests>>

MintAllowed(s) ==
    /\ call[s].pc = "count"
    /\ Cardinality({t \in Tokens : Live(t, call[s].now)}) < Cap
    /\ Goto(s, "insert")
    /\ UNCHANGED <<clock, rows, limiter, requests>>

\* The commit gives the lock back.
MintCommit(s) ==
    /\ call[s].pc = "insert"
    /\ \E t \in Tokens :
          /\ ~token[t].made
          /\ token' = [token EXCEPT ![t] =
                [Absent EXCEPT !.made = TRUE, !.expires = call[s].now + call[s].life]]
    /\ Finish(s)
    /\ Release
    /\ UNCHANGED <<clock, registered, limiter, requests>>

\* The row is read FOR UPDATE and written in one transaction; a second
\* revocation changes nothing.
Revoke(s) ==
    /\ \E t \in Tokens :
          /\ token[t].made /\ ~token[t].revoked
          /\ token' = [token EXCEPT ![t].revoked = TRUE]
    /\ call[s] = Idle
    /\ requests < MaxRequests
    /\ requests' = requests + 1
    /\ UNCHANGED <<clock, registered, userLock, limiter, call>>

-----------------------------------------------------------------------------
(* Admission of a request that carries a token. *)

\* The row, its revocation and its expiry; anything else is a 401.
Lookup(s) ==
    /\ \E t \in Tokens :
          /\ Live(t, clock)
          /\ Begin(s, [Idle EXCEPT !.pc = "hit", !.tok = t, !.now = clock])
    /\ UNCHANGED <<clock, rows, limiter>>

\* hit reads the monotonic clock before it takes its lock.
ReadClock(s) ==
    /\ call[s].pc = "hit"
    /\ call' = [call EXCEPT ![s].pc = "window", ![s].life = clock]
    /\ UNCHANGED <<clock, rows, limiter, requests>>

\* Fault: a sweep forgets every key, as if windows were fixed.
Swept_All(now) ==
    IF now < lastSweep + Window THEN hits ELSE [t \in Tokens |-> <<>>]

\* _sweep: at most once in a window, forget the keys whose last hit is old.
Swept(now) ==
    IF now < lastSweep + Window THEN hits
    ELSE [t \in Tokens |-> IF hits[t] # <<>> /\ Last(hits[t]) + Window <= now
                           THEN <<>> ELSE hits[t]]

\* The old hits at the front of a window.
Stale(h, now) == {i \in 1..Len(h) : \A j \in 1..i : h[j] + Window <= now}

Pruned(h, now) == SubSeq(h, Cardinality(Stale(h, now)) + 1, Len(h))

\* hit, under its lock: a refused request leaves no mark.
Hit(s) ==
    LET t      == call[s].tok
        now    == call[s].life
        window == Pruned(Swept(now)[t], now)
    IN  /\ call[s].pc = "window"
        /\ lastSweep' = IF now < lastSweep + Window THEN lastSweep ELSE now
        /\ IF Len(window) >= Limit
           THEN /\ hits' = [Swept(now) EXCEPT ![t] = window]
                /\ Finish(s)
                /\ UNCHANGED <<allowed, disordered>>
           ELSE /\ hits' = [Swept(now) EXCEPT ![t] = Append(window, now)]
                /\ allowed' = [allowed EXCEPT ![t] = Append(@, now)]
                /\ disordered' =
                      \/ disordered
                      \/ now < lastSweep
                      \/ \E i \in DOMAIN allowed[t] : allowed[t][i] > now
                /\ Goto(s, "admit")
        /\ UNCHANGED <<clock, rows, requests>>

\* Fault: the validity of the token is not checked again.
Admit_Unchecked(s) ==
    /\ call[s].pc = "admit"
    /\ token' = [token EXCEPT ![call[s].tok].count = @ + 1]
    /\ Finish(s)
    /\ UNCHANGED <<clock, registered, userLock, limiter, requests>>

\* UPDATE ... request_count + 1 WHERE revoked_at IS NULL AND expires_at > now
Admit(s) ==
    /\ call[s].pc = "admit"
    /\ token' = IF Live(call[s].tok, call[s].now)
                THEN [token EXCEPT ![call[s].tok].count = @ + 1]
                ELSE token
    /\ Finish(s)
    /\ UNCHANGED <<clock, registered, userLock, limiter, requests>>

Tick ==
    /\ clock < MaxTime
    /\ clock' = clock + 1
    /\ UNCHANGED <<rows, limiter, call, requests>>

\* Not a deadlock: the bounds are reached and every request is answered.
TokensRest ==
    /\ clock = MaxTime
    /\ \A s \in Slots : call[s] = Idle
    /\ UNCHANGED tokVars

TokensNext ==
    \/ \E s \in Slots :
          \/ RegisterCheck(s) \/ RegisterCommit(s)
          \/ MintStart(s) \/ MintLock(s) \/ MintRefused(s) \/ MintAllowed(s)
          \/ MintCommit(s) \/ Revoke(s)
          \/ Lookup(s) \/ ReadClock(s) \/ Hit(s) \/ Admit(s)
    \/ Tick
    \/ TokensRest

TokensSpec == TokensInit /\ [][TokensNext]_tokVars

-----------------------------------------------------------------------------
Row  == [made : BOOLEAN, expires : Nat, revoked : BOOLEAN, count : Nat]
Call == [pc : {"idle", "register", "lock", "count", "insert", "hit", "window", "admit"},
         tok : Tokens \cup {NoToken}, now : Nat, life : Nat]

\* Every row, window and request is of its type.
TokensTypeOK ==
    /\ clock \in 0..MaxTime
    /\ registered \in BOOLEAN
    /\ token \in [Tokens -> Row]
    /\ userLock \in Slots \cup {Nobody}
    /\ hits \in [Tokens -> Seq(Nat)]
    /\ lastSweep \in Nat
    /\ call \in [Slots -> Call]
    /\ requests \in 0..MaxRequests
    /\ allowed \in [Tokens -> Seq(Nat)]
    /\ disordered \in BOOLEAN

\* An account never holds more live tokens than the cap, however many mint
\* requests run at once and although each counts by the clock it read before it
\* waited for the lock: mint_token.
TokenCap == Cardinality({t \in Tokens : Live(t, clock)}) <= Cap

\* A revoked token admits nothing more: a request that looked its token up before
\* the revocation is refused by the conditional UPDATE of get_actor.
RevokedStaysOut ==
    [][\A t \in Tokens : token[t].revoked => token'[t].count = token[t].count]_tokVars

\* In no window do more requests pass the limiter than its limit, sweeps included,
\* unless a thread was held up between reading the clock and taking the lock, so
\* that a request with a later clock came first: one of the same token, or one of
\* any token that swept.
WindowBounded ==
    disordered \/
    \A t \in Tokens : \A i \in DOMAIN allowed[t] :
        Cardinality({j \in i..Len(allowed[t]) : allowed[t][j] < allowed[t][i] + Window})
            <= Limit
=============================================================================
