--------------------------- MODULE LimitedQuotes ---------------------------
(***************************************************************************)
(* The quote cache behind the live rate limiter (_GrowwLiveRateLimiter and *)
(* GrowwMarketDataProvider._request in                                     *)
(* src/backend/app/providers/groww/market_data.py).                        *)
(*                                                                         *)
(* A thread that leads a request passes acquire() before it calls the SDK. *)
(* acquire() reads the monotonic clock first and takes the lock second, so *)
(* threads enter with readings that are late and out of order, and leave   *)
(* them in a deque which is emptied from its left end only.                *)
(*                                                                         *)
(* The limiter refines the one step of QuoteCache between registering an   *)
(* Event and the provider's answer; a refusal is one of the exceptions     *)
(* that end it.  The clock ticks in units of which a second has a few; it  *)
(* is not tied to the age of a cached quote, which expires at any time.    *)
(***************************************************************************)
EXTENDS QuoteCache, Sequences

CONSTANTS
    PerSecond, PerMinute,  \* the limits
    Second, Minute,        \* their windows, in ticks
    MaxLag,                \* ticks between reading the clock and entering the lock
    MaxClock               \* bound of the model: ticks

ASSUME LimiterAssumption ==
    /\ PerSecond \in Nat \ {0} /\ PerMinute \in Nat \ {0}
    /\ Second \in Nat /\ Minute \in Nat /\ MaxLag \in Nat /\ MaxClock \in Nat
    /\ MaxLag < Second /\ Second <= Minute

VARIABLES
    clock,     \* monotonic()
    gate,      \* where a leading thread is: before, inside or past acquire()
    reading,   \* now, of a thread inside acquire()
    requests,  \* _requests: the deque of readings
    admitted   \* history: when each request was admitted

limiterVars == <<clock, gate, reading, requests, admitted>>
limitedVars == <<quoteVars, limiterVars>>

Gates == {"before", "inside", "past"}

LimitedInit ==
    /\ QuoteInit
    /\ clock = 0
    /\ gate = [t \in Threads |-> "before"]
    /\ reading = [t \in Threads |-> 0]
    /\ requests = <<>>
    /\ admitted = <<>>

-----------------------------------------------------------------------------
(* acquire *)

\* The thread's first statement, without the lock.
ReadClock(t) ==
    /\ at[t] = "requesting"
    /\ gate[t] = "before"
    /\ gate' = [gate EXCEPT ![t] = "inside"]
    /\ reading' = [reading EXCEPT ![t] = clock]
    /\ UNCHANGED <<quoteVars, clock, requests, admitted>>

\* What the loop that pops old readings from the left leaves.
Kept(now) ==
    LET old(n) == now - requests[n] >= Minute
        popped == CHOOSE n \in 0..Len(requests) :
                    (\A i \in 1..n : old(i)) /\ (n < Len(requests) => ~old(n + 1))
    IN  SubSeq(requests, popped + 1, Len(requests))

MayRequestOneMore(now, q) ==  \* a plausible mistake
    /\ Cardinality({n \in DOMAIN q : now - q[n] < Second}) <= PerSecond
    /\ Len(q) <= PerMinute
MayRequestBeyond(now, q) ==  \* a plausible mistake: a request that is a second old still counts
    /\ Cardinality({n \in DOMAIN q : now - q[n] <= Second}) < PerSecond
    /\ Len(q) < PerMinute
MayRequest(now, q) ==
    /\ Cardinality({n \in DOMAIN q : now - q[n] < Second}) < PerSecond
    /\ Len(q) < PerMinute

Admit(t) ==
    /\ gate[t] = "inside"
    /\ MayRequest(reading[t], Kept(reading[t]))
    /\ requests' = Append(Kept(reading[t]), reading[t])
    /\ admitted' = Append(admitted, clock)
    /\ gate' = [gate EXCEPT ![t] = "past"]
    /\ reading' = [reading EXCEPT ![t] = 0]
    /\ UNCHANGED <<quoteVars, clock>>

\* GrowwRateLimitError, before the SDK is called.
Refuse(t) ==
    /\ gate[t] = "inside"
    /\ ~MayRequest(reading[t], Kept(reading[t]))
    /\ requests' = Kept(reading[t])
    /\ Fail(t)
    /\ gate' = [gate EXCEPT ![t] = "before"]
    /\ reading' = [reading EXCEPT ![t] = 0]
    /\ UNCHANGED <<clock, admitted>>

\* The SDK, once admitted: an answer, or any other exception.
LimitedAsk(t) ==
    /\ gate[t] = "past"
    /\ Ask(t)
    /\ gate' = [gate EXCEPT ![t] = "before"]
    /\ UNCHANGED <<clock, reading, requests, admitted>>

\* Time passes; no thread stays longer than MaxLag between its clock and the lock.
Tick ==
    /\ clock < MaxClock
    /\ \A t \in Threads : gate[t] = "inside" => clock < reading[t] + MaxLag
    /\ clock' = clock + 1
    /\ UNCHANGED <<quoteVars, gate, reading, requests, admitted>>

-----------------------------------------------------------------------------

Acquire(t) == ReadClock(t) \/ Admit(t) \/ Refuse(t)

LimitedNext ==
    \/ \E t \in Threads : Acquire(t) \/ LimitedAsk(t)
    \/ Tick
    \/ /\ \/ \E t \in Threads, k \in Keys : Call(t, k)
          \/ \E t \in Threads : Look(t) \/ WaitExpires(t) \/ Conclude(t)
          \/ \E k \in Keys : Expire(k)
       /\ UNCHANGED limiterVars

\* As in QuoteCache: threads are scheduled and the SDK returns or raises.
LimitedFairness ==
    \A t \in Threads :
        WF_limitedVars(Acquire(t) \/ LimitedAsk(t)
                         \/ ((Look(t) \/ Conclude(t)) /\ UNCHANGED limiterVars))

LimitedSafetySpec == LimitedInit /\ [][LimitedNext]_limitedVars
LimitedSpec == LimitedSafetySpec /\ LimitedFairness

-----------------------------------------------------------------------------
(* Properties. *)

LimitedTypeOK ==
    /\ QuoteTypeOK
    /\ clock \in 0..MaxClock
    /\ gate \in [Threads -> Gates]
    /\ \A t \in Threads : gate[t] # "before" => at[t] = "requesting"
    /\ reading \in [Threads -> 0..MaxClock]
    /\ requests \in Seq(0..MaxClock)
    /\ admitted \in Seq(0..MaxClock)

AdmittedFrom(from, to) == Cardinality({n \in DOMAIN admitted : admitted[n] \in from..to})

\* The provider's limits hold although readings are late and out of order: at no
\* time are more requests admitted than allowed, in any window that is shorter than
\* the limit's by the time a thread may take from its clock to the lock
\* (docs/market-live-runbook-v1.md:53).
LimitsHold ==
    \A from \in 0..clock :
        /\ AdmittedFrom(from, from + Second - MaxLag - 1) <= PerSecond
        /\ AdmittedFrom(from, from + Minute - MaxLag - 1) <= PerMinute

\* Nobody is refused for old requests: one that is refused finds a limit's worth of
\* requests in the limit's window, extended by the lag, even if the deque holds an
\* old reading behind a newer one.
RefusedAtLimit ==
    [][\A t \in Threads : gate[t] = "inside" /\ gate'[t] = "before" =>
          \/ AdmittedFrom(clock - Second - MaxLag + 1, clock) >= PerSecond
          \/ AdmittedFrom(clock - Minute - MaxLag + 1, clock) >= PerMinute]_limitedVars
=============================================================================
