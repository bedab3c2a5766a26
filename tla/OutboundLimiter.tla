--------------------------- MODULE OutboundLimiter ---------------------------
(***************************************************************************)
(* AsyncRateLimiter of app/ingestion/rate_limiter.py, which every request  *)
(* of a source and every lookup of the geocoder passes: at most so many    *)
(* calls in a period.  The tasks run in one event loop; the code under the *)
(* lock awaits nothing, so a turn is one step, and a task that finds no    *)
(* room sleeps until the oldest call is a period old and tries again, like *)
(* every other that has slept meanwhile.                                   *)
(***************************************************************************)
EXTENDS Naturals, Sequences, FiniteSets

CONSTANTS
    Callers,        \* tasks
    MaxCalls,       \* max_calls
    Period,         \* period_seconds
    Turns,          \* bound: acquisitions by each task
    MaxNow          \* bound: clock

ASSUME LimiterAssumption ==
    /\ MaxCalls \in Nat \ {0}
    /\ Period \in Nat \ {0}
    /\ {Turns, MaxNow} \subseteq Nat

VARIABLES
    now,            \* time.monotonic()
    calls,          \* _calls
    wakes,          \* by task: when its sleep ends
    turns,          \* by task: acquisitions still to make
    granted         \* history: the times of all calls

limVars == <<now, calls, wakes, turns, granted>>

LimiterInit ==
    /\ now = 0
    /\ calls = <<>>
    /\ wakes = [c \in Callers |-> 0]
    /\ turns = [c \in Callers |-> Turns]
    /\ granted = <<>>

\* Fault: a call is dropped one tick early.
Recent_Early ==
    LET old == {n \in 1..Len(calls) : \A m \in 1..n : calls[m] + Period <= now + 1}
    IN  SubSeq(calls, Cardinality(old) + 1, Len(calls))

\* The calls of the last period: the older ones are popped from the left.
Recent ==
    LET old == {n \in 1..Len(calls) : \A m \in 1..n : calls[m] + Period <= now}
    IN  SubSeq(calls, Cardinality(old) + 1, Len(calls))

Awake(c) == turns[c] > 0 /\ wakes[c] <= now

Acquire(c) ==
    /\ Awake(c)
    /\ Len(Recent) < MaxCalls
    /\ calls' = Append(Recent, now)
    /\ granted' = Append(granted, now)
    /\ turns' = [turns EXCEPT ![c] = @ - 1]
    /\ UNCHANGED <<now, wakes>>

\* asyncio.sleep(max(wait_for, 0))
Wait(c) ==
    /\ Awake(c)
    /\ Len(Recent) >= MaxCalls
    /\ calls' = Recent
    /\ wakes' = [wakes EXCEPT ![c] = Head(Recent) + Period]
    /\ UNCHANGED <<now, turns, granted>>

TimePasses ==
    /\ now < MaxNow
    /\ now' = now + 1
    /\ UNCHANGED <<calls, wakes, turns, granted>>

LimiterRest == now = MaxNow /\ (\A c \in Callers : ~Awake(c)) /\ UNCHANGED limVars

LimiterStep == \E c \in Callers : Acquire(c) \/ Wait(c)

LimiterNext == LimiterStep \/ TimePasses \/ LimiterRest

LimiterSpec == LimiterInit /\ [][LimiterNext]_limVars

-----------------------------------------------------------------------------
\* No period, wherever it begins, has more calls than the limit, although the
\* tasks that slept for one slot wake together; and nobody sleeps while there is
\* room: acquire.
OutboundBounded ==
    /\ \A i \in DOMAIN granted :
          Cardinality({j \in i..Len(granted) : granted[j] < granted[i] + Period})
              <= MaxCalls
    /\ \A c \in Callers : wakes[c] > now =>
          Cardinality({i \in DOMAIN granted : granted[i] + Period > now}) = MaxCalls
=============================================================================
