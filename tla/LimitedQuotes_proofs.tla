----------------------- MODULE LimitedQuotes_proofs -----------------------
(***************************************************************************)
(* The quote cache behind the rate limiter is the quote cache: acquire()   *)
(* is a stutter of it, a refusal one of its failures, so everything proved *)
(* of the cache holds behind the limiter, for any limits and any lag.      *)
(***************************************************************************)
EXTENDS LimitedQuotes, QuoteCache_proofs, FiniteSetTheorems, SequenceTheorems, WellFoundedInduction

\* What a step of the limited cache is, seen from the cache alone.
LEMMA LimitedStepIsQuoteStep ==
  ASSUME [LimitedNext]_limitedVars
  PROVE  [QuoteNext]_quoteVars
<1>1. ASSUME NEW t \in Threads, ReadClock(t) \/ Admit(t)
      PROVE  UNCHANGED quoteVars
  BY <1>1 DEF ReadClock, Admit
<1>2. ASSUME NEW t \in Threads, Refuse(t)
      PROVE  QuoteNext
  BY <1>2 DEF Refuse, QuoteNext, Ask
<1>3. ASSUME NEW t \in Threads, LimitedAsk(t)
      PROVE  QuoteNext
  BY <1>3 DEF LimitedAsk, QuoteNext
<1>4. CASE Tick
  BY <1>4 DEF Tick
<1>5. CASE \/ \E t \in Threads, k \in Keys : Call(t, k)
           \/ \E t \in Threads : Look(t) \/ WaitExpires(t) \/ Conclude(t)
           \/ \E k \in Keys : Expire(k)
  BY <1>5 DEF QuoteNext
<1>6. CASE UNCHANGED limitedVars
  BY <1>6 DEF limitedVars
<1> QED BY <1>1, <1>2, <1>3, <1>4, <1>5, <1>6 DEF LimitedNext, Acquire

\* GrowwMarketDataProvider._request with the limiter implements the request that
\* get_quote was modelled with: an answer or an exception, after some time.
THEOREM LimitedQuotesImplementQuotes == LimitedSafetySpec => QuoteSafetySpec
<1>1. LimitedInit => QuoteInit
  BY DEF LimitedInit
<1> QED BY <1>1, LimitedStepIsQuoteStep, PTL DEF LimitedSafetySpec, QuoteSafetySpec

\* Requests stay coalesced when the leader is refused.
THEOREM CoalescedBehindTheLimiter == LimitedSafetySpec => []SingleFlight
  BY LimitedQuotesImplementQuotes, RequestsAreCoalesced

\* Whoever waits for a leader that is held in acquire() is still owed its Event.
THEOREM OwedBehindTheLimiter == LimitedSafetySpec => []WaitersAreOwed
  BY LimitedQuotesImplementQuotes, NoWaiterIsForgotten

\* A refusal never hands out a quote that was too old.
THEOREM CurrentBehindTheLimiter == LimitedSafetySpec => []NoOutdatedQuote
  BY LimitedQuotesImplementQuotes, ResultsAreCurrent

\* Nor does it set a stored quote back.
THEOREM AdvanceBehindTheLimiter == LimitedSafetySpec => QuotesAdvance
  BY LimitedQuotesImplementQuotes, StoredQuotesAdvance

-----------------------------------------------------------------------------
(* The deque. *)

\* Readings are late by no more than MaxLag when they are used.
ReadingsAreLate ==
    \A t \in Threads : gate[t] = "inside" => reading[t] <= clock /\ clock <= reading[t] + MaxLag

\* Requests are remembered as they were admitted, in time.
AdmittedInOrder ==
    /\ \A n \in 1..Len(admitted) : admitted[n] <= clock
    /\ \A m, n \in 1..Len(admitted) : m <= n => admitted[m] <= admitted[n]

\* A deque q holds the readings of the last requests admitted, and all that it
\* does not hold any more are a minute old, but for the lag.
Remembers(q) ==
    LET forgotten == Len(admitted) - Len(q) IN
    /\ q \in Seq(0..MaxClock)
    /\ Len(q) <= Len(admitted)
    /\ \A n \in 1..Len(q) : /\ q[n] <= admitted[n + forgotten]
                            /\ admitted[n + forgotten] <= q[n] + MaxLag
    /\ \A n \in 1..forgotten : admitted[n] + Minute <= clock + MaxLag

LimiterInv ==
    /\ LimitedTypeOK
    /\ ReadingsAreLate
    /\ AdmittedInOrder
    /\ Remembers(requests)
    /\ LimitsHold

\* What the loop leaves is what follows the old readings at the left end.
LEMMA KeptIsTheRest ==
  ASSUME LimitedTypeOK, NEW now \in Nat
  PROVE  \E p \in 0..Len(requests) :
            /\ Kept(now) = SubSeq(requests, p + 1, Len(requests))
            /\ \A n \in 1..p : now - requests[n] >= Minute
            /\ p < Len(requests) => now - requests[p + 1] < Minute
<1> DEFINE old(n) == now - requests[n] >= Minute
           Stops == {n \in 0..Len(requests) : n < Len(requests) => ~old(n + 1)}
           fits(n) == (\A i \in 1..n : old(i)) /\ (n < Len(requests) => ~old(n + 1))
           popped == CHOOSE n \in 0..Len(requests) : fits(n)
<1>1. Len(requests) \in Nat /\ \A n \in 1..Len(requests) : requests[n] \in Nat
  BY LimiterAssumption DEF LimitedTypeOK
<1>2. Len(requests) \in Stops /\ Stops \subseteq Nat
  BY <1>1
<1>3. PICK p \in Stops : \A n \in Stops : ~(n < p)
  <2>1. \E x \in Stops : \A y \in Stops : <<y, x>> \notin OpToRel(<, Nat)
    BY <1>2, WFMin, NatLessThanWellFounded
  <2> QED BY <2>1, <1>2 DEF OpToRel
<1>4. \A i \in 1..p : old(i)
  <2> SUFFICES ASSUME NEW i \in 1..p PROVE old(i)
    OBVIOUS
  <2>1. i - 1 \in 0..Len(requests) /\ i - 1 < p /\ (i - 1) + 1 = i
    BY <1>1, <1>2
  <2>2. i - 1 \notin Stops
    BY <1>3, <2>1
  <2> QED BY <2>1, <2>2
<1>5. \E n \in 0..Len(requests) : fits(n)
  BY <1>3, <1>4
<1>6. popped \in 0..Len(requests) /\ fits(popped)
  BY <1>5
<1>7. Kept(now) = SubSeq(requests, popped + 1, Len(requests))
  BY DEF Kept
<1>8. popped < Len(requests) => requests[popped + 1] \in Nat
  BY <1>1, <1>6
<1> HIDE DEF popped
<1>9. /\ \A n \in 1..popped : now - requests[n] >= Minute
      /\ popped < Len(requests) => now - requests[popped + 1] < Minute
  BY <1>6, <1>8, LimiterAssumption
<1> QED BY <1>6, <1>7, <1>9

\* A thread inside acquire() finds the deque as it should be after the loop: it still
\* holds all that the limits are about, and its first reading is not old.
LEMMA KeptRemembers ==
  ASSUME LimiterInv, NEW t \in Threads, gate[t] = "inside"
  PROVE  /\ Remembers(Kept(reading[t]))
         /\ Kept(reading[t]) # <<>> => reading[t] - Kept(reading[t])[1] < Minute
<1> DEFINE now == reading[t]
           q == Kept(now)
           forgotten == Len(admitted) - Len(q)
<1>1. now \in Nat /\ clock \in Nat /\ now <= clock
  BY LimiterAssumption DEF LimiterInv, LimitedTypeOK, ReadingsAreLate
<1>2. PICK p \in 0..Len(requests) :
            /\ q = SubSeq(requests, p + 1, Len(requests))
            /\ \A n \in 1..p : now - requests[n] >= Minute
            /\ p < Len(requests) => now - requests[p + 1] < Minute
  BY <1>1, KeptIsTheRest DEF LimiterInv
<1>3. /\ requests \in Seq(0..MaxClock) /\ Len(requests) \in Nat
      /\ admitted \in Seq(0..MaxClock) /\ Len(admitted) \in Nat
      /\ Len(requests) <= Len(admitted)
      /\ MaxClock \in Nat /\ Minute \in Nat /\ MaxLag \in Nat
  BY LimiterAssumption DEF LimiterInv, LimitedTypeOK, Remembers
<1>4. /\ q \in Seq(0..MaxClock)
      /\ Len(q) = Len(requests) - p
      /\ \A n \in 1..Len(q) : q[n] = requests[p + n]
  <2> DEFINE from == p + 1
             to == Len(requests)
  <2>1. /\ from \in Int /\ to \in Int
        /\ \A i \in from..to : requests[i] \in 0..MaxClock
    BY <1>3
  <2> HIDE DEF q, from, to
  <2>2. /\ SubSeq(requests, from, to) \in Seq(0..MaxClock)
        /\ Len(SubSeq(requests, from, to)) = IF from <= to THEN to - from + 1 ELSE 0
        /\ \A i \in 1..(to - from + 1) : SubSeq(requests, from, to)[i] = requests[from + i - 1]
    BY <2>1, SubSeqProperties
  <2> USE DEF from, to
  <2>3. /\ (IF p + 1 <= Len(requests) THEN Len(requests) - (p + 1) + 1 ELSE 0) = Len(requests) - p
        /\ Len(requests) - (p + 1) + 1 = Len(requests) - p
        /\ \A i \in 1..(Len(requests) - p) : (p + 1) + i - 1 = p + i
    BY <1>3
  <2> QED BY <1>2, <2>2, <2>3
<1> DEFINE before == Len(admitted) - Len(requests)
<1>5. /\ \A n \in 1..Len(requests) : /\ requests[n] <= admitted[n + before]
                                     /\ admitted[n + before] <= requests[n] + MaxLag
      /\ \A n \in 1..before : admitted[n] + Minute <= clock + MaxLag
  BY DEF LimiterInv, Remembers
<1> HIDE DEF q
<1>6. forgotten = before + p /\ before \in Nat
  BY <1>3, <1>4
<1>7. ASSUME NEW n \in 1..Len(q)
      PROVE  q[n] <= admitted[n + forgotten] /\ admitted[n + forgotten] <= q[n] + MaxLag
  <2>1. p + n \in 1..Len(requests) /\ (p + n) + before = n + forgotten
    BY <1>3, <1>4, <1>6
  <2> QED BY <2>1, <1>4, <1>5
<1>8. ASSUME NEW n \in 1..forgotten
      PROVE  admitted[n] + Minute <= clock + MaxLag
  <2>1. CASE n \in 1..before
    BY <2>1, <1>5
  <2>2. CASE n \notin 1..before
    <3>0. n \in 1..Len(admitted) /\ n \in Nat
      BY <1>3, <1>4, <1>6
    <3>1. PICK r \in 1..p : r + before = n /\ r \in 1..Len(requests)
      <4>1. n - before \in 1..p /\ n - before \in 1..Len(requests) /\ (n - before) + before = n
        BY <2>2, <1>3, <1>6
      <4> QED BY <4>1
    <3>2. now - requests[r] >= Minute /\ admitted[n] <= requests[r] + MaxLag
      BY <3>1, <1>2, <1>5
    <3>3. requests[r] \in Nat
      <4>1. \A i \in 1..Len(requests) : requests[i] \in 0..MaxClock
        BY <1>3
      <4> QED BY <4>1, <3>1, <1>3
    <3>4. admitted[n] \in Nat
      <4>1. \A i \in 1..Len(admitted) : admitted[i] \in 0..MaxClock
        BY <1>3
      <4> QED BY <4>1, <3>0, <1>3
    <3>5. clock \in Nat /\ now \in Nat /\ now <= clock /\ MaxLag \in Nat /\ Minute \in Nat
      BY <1>1, <1>3
    <3> HIDE DEF now
    <3> QED BY <3>2, <3>3, <3>4, <3>5
  <2> QED BY <2>1, <2>2
<1>9. q # <<>> => now - q[1] < Minute
  <2> HAVE q # <<>>
  <2>1. 1 \in 1..Len(q) /\ p < Len(requests) /\ p + 1 = p + 1
    BY <1>3, <1>4
  <2> QED BY <2>1, <1>2, <1>4, <1>3
<1>10. Len(q) \in Nat /\ Len(q) <= Len(admitted)
  BY <1>3, <1>4
<1>11. Remembers(q)
  BY <1>4, <1>7, <1>8, <1>10 DEF Remembers
<1> QED BY <1>9, <1>11 DEF q

-----------------------------------------------------------------------------
(* Counting. *)

LEMMA CountShifted ==
  ASSUME NEW A, A \subseteq Int, NEW B, IsFiniteSet(B), NEW d \in Int,
         \A n \in A : n + d \in B
  PROVE  Cardinality(A) <= Cardinality(B)
<1> DEFINE f == [n \in A |-> n + d]
<1>1. f \in [A -> B]
  OBVIOUS
<1>2. \A m, n \in A : f[m] = f[n] => m = n
  OBVIOUS
<1> HIDE DEF f
<1>3. f \in Injection(A, B)
  BY <1>1, <1>2 DEF Injection, IsInjective
<1> QED BY <1>3, FS_Injection

\* The requests admitted in a window are positions in the history.
LEMMA WindowIsFinite ==
  ASSUME admitted \in Seq(0..MaxClock), NEW from \in Int, NEW to \in Int
  PROVE  LET S == {n \in DOMAIN admitted : admitted[n] \in from..to} IN
            IsFiniteSet(S) /\ Cardinality(S) \in Nat /\ S \subseteq 1..Len(admitted)
<1> DEFINE S == {n \in DOMAIN admitted : admitted[n] \in from..to}
<1>1. DOMAIN admitted = 1..Len(admitted) /\ Len(admitted) \in Nat
  OBVIOUS
<1>2. S \in SUBSET (1..Len(admitted)) /\ IsFiniteSet(1..Len(admitted))
  BY <1>1, FS_Interval
<1> HIDE DEF S
<1>3. IsFiniteSet(S) /\ Cardinality(S) \in Nat
  BY <1>2, FS_Subset, FS_CardinalityType
<1> QED BY <1>2, <1>3 DEF S

-----------------------------------------------------------------------------
(* RefusedAtLimit. *)

LEMMA RefusalIsDue ==
  ASSUME LimiterInv, NEW t \in Threads, Refuse(t)
  PROVE  \/ AdmittedFrom(clock - Second - MaxLag + 1, clock) >= PerSecond
         \/ AdmittedFrom(clock - Minute - MaxLag + 1, clock) >= PerMinute
<1> DEFINE now == reading[t]
           q == Kept(now)
           d == Len(admitted) - Len(q)
           Recent == {n \in DOMAIN q : now - q[n] < Second}
<1>1. /\ now \in Nat /\ clock \in Nat /\ now <= clock /\ clock <= now + MaxLag
      /\ PerSecond \in Nat /\ PerMinute \in Nat \ {0} /\ MaxLag \in Nat /\ Second \in Nat /\ Minute \in Nat
  BY LimiterAssumption DEF LimiterInv, LimitedTypeOK, ReadingsAreLate, Refuse
<1>2. /\ Remembers(q)
      /\ q # <<>> => now - q[1] < Minute
  BY KeptRemembers DEF Refuse
<1>3. Cardinality(Recent) >= PerSecond \/ Len(q) >= PerMinute
  <2> DEFINE c == Cardinality(Recent)
             l == Len(q)
  <2>1. DOMAIN q = 1..l /\ l \in Nat
    BY <1>2 DEF Remembers
  <2>2. c \in Nat
    <3>1. Recent \in SUBSET (1..l) /\ IsFiniteSet(1..l)
      BY <2>1, FS_Interval
    <3> HIDE DEF Recent
    <3> QED BY <3>1, FS_Subset, FS_CardinalityType
  <2>3. ~(c < PerSecond /\ l < PerMinute)
    BY DEF Refuse, MayRequest
  <2> HIDE DEF c, l
  <2> QED BY <2>1, <2>2, <2>3, <1>1 DEF c, l
<1> HIDE DEF q
<1>4. /\ Len(q) \in Nat /\ Len(admitted) \in Nat /\ Len(q) <= Len(admitted) /\ d \in Nat
      /\ DOMAIN q = 1..Len(q) /\ \A n \in 1..Len(q) : q[n] \in Nat
      /\ DOMAIN admitted = 1..Len(admitted) /\ \A n \in 1..Len(admitted) : admitted[n] \in Nat
      /\ admitted \in Seq(0..MaxClock)
  <2>1. q \in Seq(0..MaxClock) /\ admitted \in Seq(0..MaxClock) /\ Len(q) <= Len(admitted)
    BY <1>2 DEF LimiterInv, LimitedTypeOK, Remembers
  <2>2. /\ Len(q) \in Nat /\ Len(admitted) \in Nat
        /\ DOMAIN q = 1..Len(q) /\ \A n \in 1..Len(q) : q[n] \in 0..MaxClock
        /\ DOMAIN admitted = 1..Len(admitted)
        /\ \A n \in 1..Len(admitted) : admitted[n] \in 0..MaxClock
    BY <2>1, LenProperties
  <2> QED BY <2>1, <2>2, LimiterAssumption
<1>5. \A n \in 1..Len(q) : n + d \in 1..Len(admitted) /\ n + d \in Nat
  BY <1>4
<1>6. \A n \in 1..Len(admitted) : admitted[n] <= clock
  BY DEF LimiterInv, AdmittedInOrder
<1> DEFINE Within(w) == {n \in DOMAIN admitted : admitted[n] \in (clock - w - MaxLag + 1)..clock}
<1>7. \A w \in Nat : IsFiniteSet(Within(w))
  <2> SUFFICES ASSUME NEW w \in Nat PROVE IsFiniteSet(Within(w))
    OBVIOUS
  <2>1. clock - w - MaxLag + 1 \in Int /\ clock \in Int
    BY <1>1
  <2> QED BY <2>1, <1>4, WindowIsFinite
<1>8. CASE Cardinality(Recent) >= PerSecond
  <2>1. ASSUME NEW n \in Recent PROVE n + d \in Within(Second)
    <3>1. n \in 1..Len(q) /\ now - q[n] < Second /\ q[n] \in Nat /\ q[n] <= admitted[n + d]
      BY <1>2, <1>4 DEF Remembers
    <3>2. n + d \in 1..Len(admitted) /\ admitted[n + d] \in Nat /\ admitted[n + d] <= clock
      BY <3>1, <1>4, <1>5, <1>6
    <3> QED BY <3>1, <3>2, <1>1, <1>4
  <2>2. Recent \subseteq Int /\ d \in Int
    BY <1>4
  <2> HIDE DEF Recent, Within, d
  <2>3. Cardinality(Recent) <= Cardinality(Within(Second))
    BY <2>1, <2>2, <1>1, <1>7, CountShifted
  <2>4. Cardinality(Recent) \in Nat /\ Cardinality(Within(Second)) \in Nat
    <3>1. IsFiniteSet(1..Len(q)) /\ IsFiniteSet(Within(Second))
      BY <1>1, <1>4, <1>7, FS_Interval
    <3>2. Recent \in SUBSET (1..Len(q))
      BY <1>4 DEF Recent
    <3> QED BY <3>1, <3>2, FS_Subset, FS_CardinalityType
  <2>5. Cardinality(Within(Second)) >= PerSecond
    BY <1>1, <1>8, <2>3, <2>4
  <2> QED BY <2>5 DEF Within, AdmittedFrom
<1>9. CASE Len(q) >= PerMinute
  <2>1. q # <<>> /\ 1 \in 1..Len(q)
    BY <1>1, <1>2, <1>4, <1>9
  <2>2. now - q[1] < Minute /\ q[1] \in Nat /\ q[1] <= admitted[1 + d]
    BY <1>2, <1>4, <2>1 DEF Remembers
  <2>3. ASSUME NEW n \in 1..Len(q) PROVE n + d \in Within(Minute)
    <3>1. /\ n + d \in 1..Len(admitted) /\ admitted[n + d] \in Nat /\ admitted[n + d] <= clock
          /\ 1 + d \in 1..Len(admitted) /\ admitted[1 + d] \in Nat
          /\ 1 + d <= n + d
      BY <2>1, <1>4, <1>5, <1>6
    <3>2. admitted[1 + d] <= admitted[n + d]
      BY <3>1 DEF LimiterInv, AdmittedInOrder
    <3>3. q[1] <= admitted[n + d]
      BY <2>2, <3>1, <3>2
    <3>4. now < q[1] + Minute /\ clock <= now + MaxLag
      BY <2>2, <1>1
    <3> HIDE DEF now, d
    <3>5. admitted[n + d] \in (clock - Minute - MaxLag + 1)..clock
      BY <2>2, <3>1, <3>3, <3>4, <1>1
    <3> QED BY <3>1, <3>5, <1>4
  <2>4. 1..Len(q) \subseteq Int /\ d \in Int
    BY <1>4
  <2> HIDE DEF Within, d
  <2>5. Cardinality(1..Len(q)) <= Cardinality(Within(Minute))
    BY <2>3, <2>4, <1>1, <1>7, CountShifted
  <2>6. Cardinality(1..Len(q)) = Len(q) /\ Cardinality(Within(Minute)) \in Nat
    <3>1. IsFiniteSet(Within(Minute))
      BY <1>1, <1>7
    <3>2. ASSUME NEW l \in Nat PROVE Cardinality(1..l) = l
      <4>1. 1 \in Int /\ l \in Int
        OBVIOUS
      <4>2. Cardinality(1..l) = IF 1 > l THEN 0 ELSE l - 1 + 1
        BY <4>1, FS_Interval
      <4> QED BY <4>2
    <3> QED BY <3>1, <3>2, <1>4, FS_CardinalityType
  <2>7. Cardinality(Within(Minute)) >= PerMinute
    BY <1>1, <1>4, <1>9, <2>5, <2>6
  <2> QED BY <2>7 DEF Within, AdmittedFrom
<1> QED BY <1>3, <1>8, <1>9

-----------------------------------------------------------------------------
(* LimiterInv is inductive. *)

LEMMA LimiterInvInit == LimitedInit => LimiterInv
<1> SUFFICES ASSUME LimitedInit PROVE LimiterInv
  OBVIOUS
<1> USE LimiterAssumption DEF LimitedInit
<1>1. LimitedTypeOK
  BY QuoteInvInit DEF QuoteInv, LimitedTypeOK, Gates
<1>2. ReadingsAreLate /\ AdmittedInOrder /\ Remembers(requests)
  BY DEF ReadingsAreLate, AdmittedInOrder, Remembers
<1>3. LimitsHold
  <2>1. ASSUME NEW from, NEW to PROVE AdmittedFrom(from, to) = 0
    <3>1. {n \in DOMAIN admitted : admitted[n] \in from..to} = {}
      OBVIOUS
    <3> QED BY <3>1, FS_EmptySet DEF AdmittedFrom
  <2> QED BY <2>1 DEF LimitsHold
<1> QED BY <1>1, <1>2, <1>3 DEF LimiterInv

\* A thread is at the limiter only while it leads and before it asks the provider.
LEMMA LimitedTypesKept ==
  ASSUME LimiterInv, QuoteTypeOK', [LimitedNext]_limitedVars
  PROVE  LimitedTypeOK'
<1> USE LimiterAssumption DEF LimiterInv, LimitedTypeOK, Gates
<1>1. ASSUME NEW t \in Threads, ReadClock(t) PROVE LimitedTypeOK'
  BY <1>1 DEF ReadClock, quoteVars, threadVars
<1>2. ASSUME NEW t \in Threads, Admit(t) PROVE LimitedTypeOK'
  <2>1. Kept(reading[t]) \in Seq(0..MaxClock) /\ reading[t] \in 0..MaxClock
    BY <1>2, KeptRemembers DEF Admit, Remembers
  <2>2. requests' \in Seq(0..MaxClock) /\ admitted' \in Seq(0..MaxClock)
    BY <1>2, <2>1, AppendProperties DEF Admit
  <2> QED BY <1>2, <2>2 DEF Admit, quoteVars, threadVars
<1>3. ASSUME NEW t \in Threads, Refuse(t) PROVE LimitedTypeOK'
  <2>1. Kept(reading[t]) \in Seq(0..MaxClock)
    BY <1>3, KeptRemembers DEF Refuse, Remembers
  <2> QED BY <1>3, <2>1 DEF Refuse, Fail, QuoteTypeOK
<1>4. ASSUME NEW t \in Threads, LimitedAsk(t) PROVE LimitedTypeOK'
  BY <1>4 DEF LimitedAsk, Ask, Answer, Fail, QuoteTypeOK
<1>5. CASE Tick
  BY <1>5 DEF Tick, quoteVars, threadVars
<1>6. ASSUME UNCHANGED limiterVars,
             \A t \in Threads : at[t] = "requesting" => at'[t] = "requesting"
      PROVE  LimitedTypeOK'
  BY <1>6 DEF limiterVars
<1>7. ASSUME NEW t \in Threads, NEW k \in Keys, Call(t, k), UNCHANGED limiterVars
      PROVE  LimitedTypeOK'
  BY <1>6, <1>7 DEF Call, QuoteTypeOK
<1>8. ASSUME NEW t \in Threads, Look(t) \/ WaitExpires(t) \/ Conclude(t), UNCHANGED limiterVars
      PROVE  LimitedTypeOK'
  BY <1>6, <1>8 DEF Look, Hit, Join, Lead, WaitExpires, Conclude, Store, NoteDate, NoteStatus,
       Finish, Released, Waiters, QuoteTypeOK
<1>9. ASSUME NEW k \in Keys, Expire(k), UNCHANGED limiterVars
      PROVE  LimitedTypeOK'
  BY <1>6, <1>9 DEF Expire, threadVars
<1>10. CASE UNCHANGED limitedVars
  BY <1>6, <1>10 DEF limitedVars, quoteVars, threadVars
<1> QED BY <1>1, <1>2, <1>3, <1>4, <1>5, <1>7, <1>8, <1>9, <1>10 DEF LimitedNext, Acquire

LEMMA ReadingsStayLate ==
  ASSUME LimiterInv, [LimitedNext]_limitedVars
  PROVE  ReadingsAreLate'
<1> USE LimiterAssumption DEF LimiterInv, LimitedTypeOK, ReadingsAreLate
<1>1. ASSUME NEW t \in Threads, ReadClock(t) PROVE ReadingsAreLate'
  BY <1>1 DEF ReadClock
<1>2. ASSUME NEW t \in Threads, Admit(t) \/ Refuse(t) \/ LimitedAsk(t) PROVE ReadingsAreLate'
  BY <1>2 DEF Admit, Refuse, LimitedAsk
<1>3. CASE Tick
  BY <1>3 DEF Tick
<1>4. CASE UNCHANGED limiterVars
  BY <1>4 DEF limiterVars
<1> QED BY <1>1, <1>2, <1>3, <1>4 DEF LimitedNext, Acquire, limitedVars

\* The limits depend on the clock, the deque and the history alone.
LEMMA LimitsUndisturbed ==
  ASSUME LimiterInv, UNCHANGED <<clock, requests, admitted>>
  PROVE  AdmittedInOrder' /\ Remembers(requests)' /\ LimitsHold'
BY DEF LimiterInv, AdmittedInOrder, Remembers, LimitsHold, AdmittedFrom

\* A refusal may empty the deque and admits nothing.
LEMMA RefuseKeeps ==
  ASSUME LimiterInv, NEW t \in Threads, Refuse(t)
  PROVE  AdmittedInOrder' /\ Remembers(requests)' /\ LimitsHold'
<1>1. Remembers(Kept(reading[t]))
  BY KeptRemembers DEF Refuse
<1>2. Remembers(requests)'
  BY <1>1 DEF Refuse, Remembers
<1> QED BY <1>2 DEF Refuse, LimiterInv, AdmittedInOrder, LimitsHold, AdmittedFrom

LEMMA TickKeeps ==
  ASSUME LimiterInv, Tick
  PROVE  AdmittedInOrder' /\ Remembers(requests)' /\ LimitsHold'
<1>1. /\ clock \in Nat /\ clock' = clock + 1 /\ UNCHANGED <<requests, admitted>>
      /\ admitted \in Seq(0..MaxClock) /\ Len(admitted) \in Nat /\ Len(requests) \in Nat
      /\ Minute \in Nat /\ MaxLag \in Nat /\ Second \in Nat /\ PerSecond \in Nat /\ PerMinute \in Nat
  BY LimiterAssumption DEF Tick, LimiterInv, LimitedTypeOK
<1>2. \A n \in 1..Len(admitted) : admitted[n] \in Nat /\ admitted[n] <= clock
  BY <1>1, LimiterAssumption DEF LimiterInv, AdmittedInOrder
<1>3. AdmittedInOrder'
  BY <1>1, <1>2 DEF LimiterInv, AdmittedInOrder
<1>4. Remembers(requests)'
  <2>1. Len(requests) <= Len(admitted)
    BY DEF LimiterInv, Remembers
  <2>2. \A n \in 1..(Len(admitted) - Len(requests)) :
           admitted[n] \in Nat /\ admitted[n] + Minute <= clock + MaxLag
    BY <1>1, <1>2, <2>1 DEF LimiterInv, Remembers
  <2>3. \A n \in 1..(Len(admitted) - Len(requests)) : admitted[n] + Minute <= (clock + 1) + MaxLag
    BY <1>1, <2>2
  <2> QED BY <1>1, <2>3 DEF LimiterInv, Remembers
<1>5. LimitsHold'
  <2>1. ASSUME NEW to PROVE AdmittedFrom(clock + 1, to) = 0
    <3>1. {n \in DOMAIN admitted : admitted[n] \in (clock + 1)..to} = {}
      BY <1>1, <1>2
    <3> QED BY <3>1, FS_EmptySet DEF AdmittedFrom
  <2>2. \A from \in 0..clock' : from \in 0..clock \/ from = clock + 1
    BY <1>1
  <2>3. \A from, to : AdmittedFrom(from, to)' = AdmittedFrom(from, to)
    BY <1>1 DEF AdmittedFrom
  <2>4. 0 <= PerSecond /\ 0 <= PerMinute
    BY <1>1
  <2>5. /\ AdmittedFrom(clock + 1, (clock + 1) + Second - MaxLag - 1) = 0
        /\ AdmittedFrom(clock + 1, (clock + 1) + Minute - MaxLag - 1) = 0
    BY <2>1
  <2> QED BY <2>2, <2>3, <2>4, <2>5 DEF LimitsHold, LimiterInv
<1> QED BY <1>3, <1>4, <1>5

\* An admitted request is appended to both, so the deque still holds the last ones.
LEMMA AdmitRemembers ==
  ASSUME LimiterInv, NEW t \in Threads, Admit(t)
  PROVE  AdmittedInOrder' /\ Remembers(requests)'
<1> DEFINE now == reading[t]
           q == Kept(now)
           d == Len(admitted) - Len(q)
<1>1. /\ requests' = Append(q, now) /\ admitted' = Append(admitted, clock) /\ clock' = clock
      /\ now \in 0..MaxClock /\ clock \in 0..MaxClock /\ now <= clock /\ clock <= now + MaxLag
      /\ admitted \in Seq(0..MaxClock) /\ MaxClock \in Nat /\ MaxLag \in Nat /\ Minute \in Nat
  BY LimiterAssumption DEF Admit, LimiterInv, LimitedTypeOK, ReadingsAreLate
<1>2. Remembers(q)
  BY KeptRemembers DEF Admit
<1> HIDE DEF q, now
<1>3. /\ q \in Seq(0..MaxClock) /\ Len(q) \in Nat /\ Len(admitted) \in Nat /\ Len(q) <= Len(admitted)
  BY <1>1, <1>2 DEF Remembers
<1>4. /\ Append(q, now) \in Seq(0..MaxClock)
      /\ Len(Append(q, now)) = Len(q) + 1
      /\ \A n \in 1..Len(q) : Append(q, now)[n] = q[n]
      /\ Append(q, now)[Len(q) + 1] = now
  BY <1>1, <1>3, AppendProperties
<1>5. /\ Len(Append(admitted, clock)) = Len(admitted) + 1
      /\ \A n \in 1..Len(admitted) : Append(admitted, clock)[n] = admitted[n]
      /\ Append(admitted, clock)[Len(admitted) + 1] = clock
  BY <1>1, AppendProperties
<1>6. AdmittedInOrder'
  <2>1. /\ \A n \in 1..Len(admitted) : admitted[n] <= clock
        /\ \A m, n \in 1..Len(admitted) : m <= n => admitted[m] <= admitted[n]
    BY DEF LimiterInv, AdmittedInOrder
  <2>2. \A n \in 1..(Len(admitted) + 1) : n \in 1..Len(admitted) \/ n = Len(admitted) + 1
    BY <1>3
  <2>3. \A m, n \in 1..(Len(admitted) + 1) :
           m <= n => n = Len(admitted) + 1 \/ (m \in 1..Len(admitted) /\ n \in 1..Len(admitted))
    BY <1>3
  <2>4. clock <= clock
    BY <1>1
  <2> QED BY <1>1, <1>5, <2>1, <2>2, <2>3, <2>4 DEF AdmittedInOrder
<1>7. Len(admitted') - Len(requests') = d
  BY <1>1, <1>3, <1>4, <1>5
<1>8. ASSUME NEW n \in 1..(Len(q) + 1)
      PROVE  requests'[n] <= admitted'[n + d] /\ admitted'[n + d] <= requests'[n] + MaxLag
  <2>1. CASE n \in 1..Len(q)
    <3>1. n + d \in 1..Len(admitted)
      BY <2>1, <1>3
    <3>2. q[n] <= admitted[n + d] /\ admitted[n + d] <= q[n] + MaxLag
      BY <2>1, <1>2 DEF Remembers
    <3> HIDE DEF d
    <3> QED BY <2>1, <3>1, <3>2, <1>1, <1>4, <1>5
  <2>2. CASE n = Len(q) + 1
    <3>1. n + d = Len(admitted) + 1
      BY <2>2, <1>3
    <3> HIDE DEF d
    <3> QED BY <2>2, <3>1, <1>1, <1>4, <1>5
  <2> QED BY <2>1, <2>2, <1>3
<1>9. ASSUME NEW n \in 1..d
      PROVE  admitted'[n] + Minute <= clock' + MaxLag
  <2>1. n \in 1..Len(admitted)
    BY <1>3
  <2>2. admitted[n] + Minute <= clock + MaxLag
    BY <1>2 DEF Remembers
  <2> QED BY <2>1, <2>2, <1>1, <1>5
<1>10. Len(requests') <= Len(admitted') /\ requests' \in Seq(0..MaxClock)
  BY <1>1, <1>3, <1>4, <1>5
<1>11. Remembers(requests)'
  <2>1. Len(requests') = Len(q) + 1
    BY <1>1, <1>4
  <2> HIDE DEF d
  <2> QED BY <2>1, <1>7, <1>8, <1>9, <1>10 DEF Remembers
<1> QED BY <1>6, <1>11

\* One more request in a window that reaches the present.
LEMMA WindowGrows ==
  ASSUME LimiterInv, NEW t \in Threads, Admit(t), NEW from \in Int, NEW to \in Int
  PROVE  /\ AdmittedFrom(from, to) \in Nat
         /\ AdmittedFrom(from, to)' \in Nat
         /\ AdmittedFrom(from, to)' <= AdmittedFrom(from, to) + 1
         /\ to < clock => AdmittedFrom(from, to)' = AdmittedFrom(from, to)
<1> DEFINE S == {n \in DOMAIN admitted : admitted[n] \in from..to}
           T == {n \in DOMAIN admitted' : admitted'[n] \in from..to}
<1>1. /\ admitted \in Seq(0..MaxClock) /\ Len(admitted) \in Nat
      /\ clock \in 0..MaxClock /\ MaxClock \in Nat
      /\ admitted' = Append(admitted, clock)
  BY LimiterAssumption DEF Admit, LimiterInv, LimitedTypeOK
<1>2. /\ DOMAIN admitted = 1..Len(admitted)
      /\ DOMAIN admitted' = 1..(Len(admitted) + 1)
      /\ \A n \in 1..Len(admitted) : admitted'[n] = admitted[n]
      /\ admitted'[Len(admitted) + 1] = clock
  BY <1>1, AppendProperties
<1>3. IsFiniteSet(S) /\ Cardinality(S) \in Nat /\ S \subseteq 1..Len(admitted)
  BY <1>1, WindowIsFinite
<1>4. CASE clock \in from..to
  <2>1. T = S \union {Len(admitted) + 1}
    BY <1>4, <1>1, <1>2
  <2>2. Len(admitted) + 1 \notin S
    BY <1>1, <1>3
  <2> HIDE DEF S, T
  <2>3. Cardinality(T) = Cardinality(S) + 1
    BY <2>1, <2>2, <1>3, FS_AddElement
  <2>4. ~(to < clock)
    BY <1>4, <1>1
  <2> QED BY <2>3, <2>4, <1>3 DEF S, T, AdmittedFrom
<1>5. CASE clock \notin from..to
  <2>1. T = S
    BY <1>5, <1>1, <1>2
  <2>2. Cardinality(S) <= Cardinality(S) + 1
    BY <1>3
  <2> HIDE DEF S, T
  <2> QED BY <2>1, <2>2, <1>3 DEF S, T, AdmittedFrom
<1> QED BY <1>4, <1>5

\* No more requests in a window than Kept still holds, and Kept holds less than the
\* limits.
LEMMA RoomInWindow ==
  ASSUME LimiterInv, NEW t \in Threads, Admit(t), NEW from \in 0..clock
  PROVE  /\ clock <= from + Second - MaxLag - 1
              => AdmittedFrom(from, from + Second - MaxLag - 1) < PerSecond
         /\ clock <= from + Minute - MaxLag - 1
              => AdmittedFrom(from, from + Minute - MaxLag - 1) < PerMinute
<1> DEFINE now == reading[t]
           q == Kept(now)
           d == Len(admitted) - Len(q)
           Recent == {n \in DOMAIN q : now - q[n] < Second}
           Within(w) == {n \in DOMAIN admitted : admitted[n] \in from..(from + w - MaxLag - 1)}
<1>1. /\ now \in Nat /\ clock \in Nat /\ now <= clock /\ clock <= now + MaxLag
      /\ PerSecond \in Nat /\ PerMinute \in Nat \ {0} /\ MaxLag \in Nat /\ Second \in Nat /\ Minute \in Nat
      /\ Second <= Minute /\ MaxClock \in Nat /\ from \in Nat /\ from <= clock
  BY LimiterAssumption DEF LimiterInv, LimitedTypeOK, ReadingsAreLate, Admit
<1>2. Remembers(q)
  BY KeptRemembers DEF Admit
<1>3. Cardinality(Recent) < PerSecond /\ Len(q) < PerMinute
  BY DEF Admit, MayRequest
<1> HIDE DEF q
<1>4. /\ Len(q) \in Nat /\ Len(admitted) \in Nat /\ Len(q) <= Len(admitted) /\ d \in Nat
      /\ DOMAIN q = 1..Len(q) /\ \A n \in 1..Len(q) : q[n] \in Nat
      /\ DOMAIN admitted = 1..Len(admitted) /\ \A n \in 1..Len(admitted) : admitted[n] \in Nat
      /\ admitted \in Seq(0..MaxClock)
  <2>1. q \in Seq(0..MaxClock) /\ admitted \in Seq(0..MaxClock) /\ Len(q) <= Len(admitted)
    BY <1>2 DEF LimiterInv, LimitedTypeOK, Remembers
  <2>2. /\ Len(q) \in Nat /\ Len(admitted) \in Nat
        /\ DOMAIN q = 1..Len(q) /\ \A n \in 1..Len(q) : q[n] \in 0..MaxClock
        /\ DOMAIN admitted = 1..Len(admitted)
        /\ \A n \in 1..Len(admitted) : admitted[n] \in 0..MaxClock
    BY <2>1, LenProperties
  <2> QED BY <2>1, <2>2, <1>1
<1>5. ASSUME NEW w \in Nat, w <= Minute, clock <= from + w - MaxLag - 1, NEW n \in Within(w)
      PROVE  /\ n \in Int /\ n - d \in 1..Len(q)
             /\ now - q[n - d] < w
  <2>1. n \in 1..Len(admitted) /\ admitted[n] \in Nat /\ admitted[n] >= from
    BY <1>1, <1>4
  <2>2. ~(admitted[n] + Minute <= clock + MaxLag)
    BY <2>1, <1>1, <1>5
  <2>3. n \notin 1..d
    BY <2>2, <1>2 DEF Remembers
  <2>4. PICK r \in 1..Len(q) : r = n - d /\ r + d = n
    <3>1. n - d \in 1..Len(q) /\ (n - d) + d = n
      BY <2>1, <2>3, <1>4
    <3> QED BY <3>1
  <2>5. admitted[n] <= q[r] + MaxLag /\ q[r] \in Nat
    BY <2>4, <1>2, <1>4 DEF Remembers
  <2> HIDE DEF now, d
  <2>6. now - q[r] < w
    BY <2>1, <2>5, <1>1, <1>5
  <2> QED BY <2>1, <2>4, <2>6
<1>6. \A w \in Nat : IsFiniteSet(Within(w)) /\ Cardinality(Within(w)) \in Nat /\ Within(w) \subseteq Int
  <2> SUFFICES ASSUME NEW w \in Nat
               PROVE  IsFiniteSet(Within(w)) /\ Cardinality(Within(w)) \in Nat /\ Within(w) \subseteq Int
    OBVIOUS
  <2>1. from \in Int /\ from + w - MaxLag - 1 \in Int
    BY <1>1
  <2>2. IsFiniteSet(Within(w)) /\ Cardinality(Within(w)) \in Nat /\ Within(w) \subseteq 1..Len(admitted)
    BY <2>1, <1>4, WindowIsFinite
  <2> QED BY <2>2, <1>4
<1>7. ASSUME NEW l \in Nat PROVE Cardinality(1..l) = l /\ IsFiniteSet(1..l)
  <2>1. 1 \in Int /\ l \in Int
    OBVIOUS
  <2>2. Cardinality(1..l) = (IF 1 > l THEN 0 ELSE l - 1 + 1) /\ IsFiniteSet(1..l)
    BY <2>1, FS_Interval
  <2> QED BY <2>2
<1>8. 0 - d \in Int /\ \A n \in Int : n + (0 - d) = n - d
  BY <1>4
<1>9. ASSUME clock <= from + Second - MaxLag - 1
      PROVE  Cardinality(Within(Second)) < PerSecond
  <2>1. \A n \in Within(Second) : n + (0 - d) \in Recent
    BY <1>1, <1>4, <1>5, <1>6, <1>8, <1>9
  <2>2. Recent \in SUBSET (1..Len(q)) /\ IsFiniteSet(1..Len(q))
    BY <1>4, <1>7
  <2> HIDE DEF Recent, Within, d
  <2>3. IsFiniteSet(Recent) /\ Cardinality(Recent) \in Nat
    BY <2>2, FS_Subset, FS_CardinalityType
  <2>4. Cardinality(Within(Second)) <= Cardinality(Recent)
    BY <2>1, <2>3, <1>1, <1>6, <1>8, CountShifted
  <2> QED BY <2>3, <2>4, <1>1, <1>3, <1>6
<1>10. ASSUME clock <= from + Minute - MaxLag - 1
       PROVE  Cardinality(Within(Minute)) < PerMinute
  <2>1. \A n \in Within(Minute) : n + (0 - d) \in 1..Len(q)
    <3>1. Minute \in Nat /\ Minute <= Minute
      BY <1>1
    <3> HIDE DEF Within, d
    <3>2. \A n \in Within(Minute) : n \in Int /\ n - d \in 1..Len(q)
      BY <3>1, <1>5, <1>10
    <3> QED BY <3>2, <1>8
  <2>2. IsFiniteSet(1..Len(q)) /\ Cardinality(1..Len(q)) = Len(q)
    BY <1>4, <1>7
  <2> HIDE DEF Within, d
  <2>3. Cardinality(Within(Minute)) <= Cardinality(1..Len(q))
    BY <2>1, <2>2, <1>1, <1>6, <1>8, CountShifted
  <2> QED BY <2>2, <2>3, <1>1, <1>3, <1>4, <1>6
<1> QED BY <1>9, <1>10 DEF AdmittedFrom

LEMMA AdmitKeepsLimits ==
  ASSUME LimiterInv, NEW t \in Threads, Admit(t)
  PROVE  LimitsHold'
<1>1. /\ clock' = clock /\ clock \in Nat /\ PerSecond \in Nat /\ PerMinute \in Nat
      /\ MaxLag \in Nat /\ Second \in Nat /\ Minute \in Nat
  BY LimiterAssumption DEF Admit, LimiterInv, LimitedTypeOK
<1>2. ASSUME NEW from \in 0..clock, NEW w \in Nat, NEW limit \in Nat,
             AdmittedFrom(from, from + w - MaxLag - 1) <= limit,
             clock <= from + w - MaxLag - 1 => AdmittedFrom(from, from + w - MaxLag - 1) < limit
      PROVE  AdmittedFrom(from, from + w - MaxLag - 1)' <= limit
  <2> DEFINE to == from + w - MaxLag - 1
  <2>1. from \in Int /\ to \in Int
    BY <1>1
  <2>2. /\ AdmittedFrom(from, to) \in Nat
        /\ AdmittedFrom(from, to)' \in Nat
        /\ AdmittedFrom(from, to)' <= AdmittedFrom(from, to) + 1
        /\ to < clock => AdmittedFrom(from, to)' = AdmittedFrom(from, to)
    BY <2>1, WindowGrows
  <2> QED BY <1>1, <1>2, <2>1, <2>2
<1>3. ASSUME NEW from \in 0..clock
      PROVE  /\ AdmittedFrom(from, from + Second - MaxLag - 1)' <= PerSecond
             /\ AdmittedFrom(from, from + Minute - MaxLag - 1)' <= PerMinute
  <2>1. /\ AdmittedFrom(from, from + Second - MaxLag - 1) <= PerSecond
        /\ AdmittedFrom(from, from + Minute - MaxLag - 1) <= PerMinute
    BY DEF LimiterInv, LimitsHold
  <2>2. /\ clock <= from + Second - MaxLag - 1
              => AdmittedFrom(from, from + Second - MaxLag - 1) < PerSecond
        /\ clock <= from + Minute - MaxLag - 1
              => AdmittedFrom(from, from + Minute - MaxLag - 1) < PerMinute
    BY RoomInWindow
  <2> QED BY <1>1, <1>2, <2>1, <2>2
<1> QED BY <1>1, <1>3 DEF LimitsHold

\* A step that is none of Admit, Refuse and Tick leaves the limits alone.
LEMMA LimiterInvKept ==
  ASSUME LimiterInv, QuoteTypeOK', [LimitedNext]_limitedVars
  PROVE  LimiterInv'
<1> DEFINE Rest == AdmittedInOrder /\ Remembers(requests) /\ LimitsHold
<1>1. ASSUME NEW t \in Threads, Admit(t) PROVE Rest'
  BY <1>1, AdmitRemembers, AdmitKeepsLimits
<1>2. ASSUME NEW t \in Threads, Refuse(t) PROVE Rest'
  BY <1>2, RefuseKeeps
<1>3. ASSUME Tick PROVE Rest'
  BY <1>3, TickKeeps
<1>4. ASSUME UNCHANGED <<clock, requests, admitted>> PROVE Rest'
  BY <1>4, LimitsUndisturbed
<1>5. ASSUME NEW t \in Threads, ReadClock(t) \/ LimitedAsk(t) PROVE Rest'
  BY <1>4, <1>5 DEF ReadClock, LimitedAsk
<1>6. ASSUME UNCHANGED limiterVars PROVE Rest'
  BY <1>4, <1>6 DEF limiterVars
<1> HIDE DEF Rest
<1>7. Rest'
  BY <1>1, <1>2, <1>3, <1>5, <1>6 DEF LimitedNext, Acquire, limitedVars
<1>8. LimitedTypeOK' /\ ReadingsAreLate'
  BY LimitedTypesKept, ReadingsStayLate
<1> QED BY <1>7, <1>8 DEF Rest, LimiterInv

\* The inductive invariant of the limiter, and with it the types and the limits: for
\* any number of threads, any limits and windows, and any lag shorter than a second.
THEOREM LimiterInvariant == LimitedSafetySpec => []LimiterInv
<1>1. QuoteInv' => QuoteTypeOK'
  BY DEF QuoteInv
<1>2. LimiterInv /\ QuoteInv' /\ [LimitedNext]_limitedVars => LimiterInv'
  BY <1>1, LimiterInvKept
<1> QED BY <1>2, LimiterInvInit, LimitedQuotesImplementQuotes, QuoteInvariant, PTL
       DEF LimitedSafetySpec

\* Only a leading thread is in acquire(), and the deque holds readings.
THEOREM LimitedTypeCorrect == LimitedSafetySpec => []LimitedTypeOK
  BY LimiterInvariant, PTL DEF LimiterInv

\* The provider's limits hold in every window that is shorter by the lag.
THEOREM LimitsAlwaysHold == LimitedSafetySpec => []LimitsHold
  BY LimiterInvariant, PTL DEF LimiterInv

\* Nobody is refused on account of requests older than the window and the lag.
THEOREM RefusalsAreDue == LimitedSafetySpec => RefusedAtLimit
<1>1. LimiterInv /\ [LimitedNext]_limitedVars
        => [\A t \in Threads : gate[t] = "inside" /\ gate'[t] = "before" =>
              \/ AdmittedFrom(clock - Second - MaxLag + 1, clock) >= PerSecond
              \/ AdmittedFrom(clock - Minute - MaxLag + 1, clock) >= PerMinute]_limitedVars
  <2> SUFFICES ASSUME LimiterInv, LimitedNext, NEW t \in Threads,
                      gate[t] = "inside", gate'[t] = "before"
               PROVE  Refuse(t)
    BY RefusalIsDue
  <2> USE DEF LimiterInv, LimitedTypeOK
  <2>1. ASSUME NEW u \in Threads, ReadClock(u) \/ Admit(u) \/ LimitedAsk(u) PROVE FALSE
    BY <2>1 DEF ReadClock, Admit, LimitedAsk
  <2>2. ASSUME NEW u \in Threads, Refuse(u) PROVE Refuse(t)
    BY <2>2 DEF Refuse
  <2>3. ~Tick /\ ~UNCHANGED limiterVars
    BY DEF Tick, limiterVars
  <2> QED BY <2>1, <2>2, <2>3 DEF LimitedNext, Acquire
<1> QED BY <1>1, LimiterInvariant, PTL DEF LimitedSafetySpec, RefusedAtLimit
=============================================================================
