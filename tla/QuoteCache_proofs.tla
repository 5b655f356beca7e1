------------------------- MODULE QuoteCache_proofs -------------------------
(***************************************************************************)
(* The quote cache coalesces requests, wakes those who wait and never      *)
(* hands out or stores a quote older than one it had: for any number of    *)
(* threads, instruments and calls.                                         *)
(*                                                                         *)
(* The inductive invariant says what a thread in each part of get_quote    *)
(* may rely on: a leader is the one registered, what it stores is newer    *)
(* than what is stored, and a caller's outdated quote is behind the cache. *)
(***************************************************************************)
EXTENDS QuoteCache, TLAPS

\* Before the provider answered, a thread carries nothing.
NothingYet ==
    \A t \in Threads : at[t] \in {"looking", "waiting", "requesting"} => got[t] = 0

\* The provider's answers are stored in the order they were given.
StoredInOrder ==
    /\ \A k \in Keys : cache[k] <= answered
    /\ \A t \in Threads : at[t] = "storing" => cache[key[t]] < got[t] /\ got[t] <= answered

\* What was outdated when a call began is no newer than the cache, and older
\* than the cache once the cache is fresh.
OutdatedIsBehind ==
    \A t \in Threads : at[t] # "idle" =>
        /\ outdated[t] <= cache[key[t]]
        /\ fresh[key[t]] => outdated[t] < cache[key[t]]

\* A quote that is about to be returned, or was, is not outdated.
CarriedIsNew ==
    \A t \in Threads :
        at[t] \in {"dating", "noting", "finishing", "idle"} /\ got[t] # 0 => got[t] > outdated[t]

QuoteInv ==
    /\ QuoteTypeOK
    /\ SingleFlight
    /\ WaitersAreOwed
    /\ NothingYet
    /\ StoredInOrder
    /\ OutdatedIsBehind
    /\ CarriedIsNew

LEMMA QuoteInvInit == QuoteInit => QuoteInv
  BY QuoteAssumption DEF QuoteInit, QuoteInv, QuoteTypeOK, SingleFlight, WaitersAreOwed, NothingYet,
     StoredInOrder, OutdatedIsBehind, CarriedIsNew, Leaders, Leading, Points

LEMMA CallKeeps ==
  ASSUME QuoteInv, NEW t \in Threads, NEW k \in Keys, Call(t, k)
  PROVE  QuoteInv'
<1> USE QuoteAssumption DEF Call, tableVars, threadVars, statusVars, QuoteInv
<1>1. QuoteTypeOK'
  BY DEF QuoteTypeOK, Points, Leading
<1>2. SingleFlight' /\ WaitersAreOwed'
  BY DEF QuoteTypeOK, SingleFlight, WaitersAreOwed, Leaders, Leading
<1>3. NothingYet'
  BY DEF QuoteTypeOK, NothingYet
<1>4. StoredInOrder'
  BY DEF QuoteTypeOK, StoredInOrder
<1>5. OutdatedIsBehind'
  BY DEF QuoteTypeOK, OutdatedIsBehind
<1>6. CarriedIsNew'
  BY DEF QuoteTypeOK, CarriedIsNew
<1> QED BY <1>1, <1>2, <1>3, <1>4, <1>5, <1>6

LEMMA HitKeeps ==
  ASSUME QuoteInv, NEW t \in Threads, Hit(t)
  PROVE  QuoteInv'
<1> USE QuoteAssumption DEF Hit, Usable, tableVars, threadVars, statusVars, QuoteInv
<1>1. QuoteTypeOK'
  BY DEF QuoteTypeOK, Points, Leading
<1>2. SingleFlight' /\ WaitersAreOwed'
  BY DEF QuoteTypeOK, SingleFlight, WaitersAreOwed, Leaders, Leading
<1>3. NothingYet'
  BY DEF QuoteTypeOK, NothingYet
<1>4. StoredInOrder'
  BY DEF QuoteTypeOK, StoredInOrder
<1>5. OutdatedIsBehind'
  BY DEF QuoteTypeOK, OutdatedIsBehind
<1>6. CarriedIsNew'
  BY DEF QuoteTypeOK, CarriedIsNew, OutdatedIsBehind
<1> QED BY <1>1, <1>2, <1>3, <1>4, <1>5, <1>6

LEMMA JoinKeeps ==
  ASSUME QuoteInv, NEW t \in Threads, Join(t)
  PROVE  QuoteInv'
<1> USE QuoteAssumption DEF Join, Usable, MayLead, tableVars, threadVars, statusVars, QuoteInv
<1>1. QuoteTypeOK'
  BY DEF QuoteTypeOK, Points, Leading
<1>2. SingleFlight' /\ WaitersAreOwed'
  BY DEF QuoteTypeOK, SingleFlight, WaitersAreOwed, Leaders, Leading
<1>3. NothingYet'
  BY DEF QuoteTypeOK, NothingYet
<1>4. StoredInOrder'
  BY DEF QuoteTypeOK, StoredInOrder
<1>5. OutdatedIsBehind'
  BY DEF QuoteTypeOK, OutdatedIsBehind
<1>6. CarriedIsNew'
  BY DEF QuoteTypeOK, CarriedIsNew
<1> QED BY <1>1, <1>2, <1>3, <1>4, <1>5, <1>6

LEMMA LeadKeeps ==
  ASSUME QuoteInv, NEW t \in Threads, Lead(t)
  PROVE  QuoteInv'
<1> USE QuoteAssumption DEF Lead, Usable, MayLead, tableVars, threadVars, statusVars, QuoteInv
<1>1. QuoteTypeOK'
  BY DEF QuoteTypeOK, Points, Leading
<1>2. SingleFlight' /\ WaitersAreOwed'
  BY DEF QuoteTypeOK, SingleFlight, WaitersAreOwed, Leaders, Leading
<1>3. NothingYet'
  BY DEF QuoteTypeOK, NothingYet
<1>4. StoredInOrder'
  BY DEF QuoteTypeOK, StoredInOrder
<1>5. OutdatedIsBehind'
  BY DEF QuoteTypeOK, OutdatedIsBehind
<1>6. CarriedIsNew'
  BY DEF QuoteTypeOK, CarriedIsNew
<1> QED BY <1>1, <1>2, <1>3, <1>4, <1>5, <1>6

LEMMA WaitExpiresKeeps ==
  ASSUME QuoteInv, NEW t \in Threads, WaitExpires(t)
  PROVE  QuoteInv'
<1> USE QuoteAssumption DEF WaitExpires, tableVars, threadVars, statusVars, QuoteInv
<1>1. QuoteTypeOK'
  BY DEF QuoteTypeOK, Points, Leading
<1>2. SingleFlight' /\ WaitersAreOwed'
  BY DEF QuoteTypeOK, SingleFlight, WaitersAreOwed, Leaders, Leading
<1>3. NothingYet'
  BY DEF QuoteTypeOK, NothingYet
<1>4. StoredInOrder'
  BY DEF QuoteTypeOK, StoredInOrder
<1>5. OutdatedIsBehind'
  BY DEF QuoteTypeOK, OutdatedIsBehind
<1>6. CarriedIsNew'
  BY DEF QuoteTypeOK, CarriedIsNew, NothingYet
<1> QED BY <1>1, <1>2, <1>3, <1>4, <1>5, <1>6

LEMMA AnswerKeeps ==
  ASSUME QuoteInv, NEW t \in Threads, Answer(t)
  PROVE  QuoteInv'
<1> USE QuoteAssumption DEF Answer, tableVars, threadVars, statusVars, QuoteInv
<1>1. QuoteTypeOK'
  BY DEF QuoteTypeOK, Points, Leading
<1>2. SingleFlight' /\ WaitersAreOwed'
  BY DEF QuoteTypeOK, SingleFlight, WaitersAreOwed, Leaders, Leading
<1>3. NothingYet'
  BY DEF QuoteTypeOK, NothingYet
<1>4. StoredInOrder'
  BY DEF QuoteTypeOK, StoredInOrder
<1>5. OutdatedIsBehind'
  BY DEF QuoteTypeOK, OutdatedIsBehind
<1>6. CarriedIsNew'
  BY DEF QuoteTypeOK, CarriedIsNew
<1> QED BY <1>1, <1>2, <1>3, <1>4, <1>5, <1>6

LEMMA FailKeeps ==
  ASSUME QuoteInv, NEW t \in Threads, Fail(t)
  PROVE  QuoteInv'
<1> USE QuoteAssumption DEF Fail, AfterFailure, tableVars, threadVars, statusVars, QuoteInv
<1>1. QuoteTypeOK'
  BY DEF QuoteTypeOK, Points, Leading
<1>2. SingleFlight' /\ WaitersAreOwed'
  BY DEF QuoteTypeOK, SingleFlight, WaitersAreOwed, Leaders, Leading
<1>3. NothingYet'
  BY DEF QuoteTypeOK, NothingYet
<1>4. StoredInOrder'
  BY DEF QuoteTypeOK, StoredInOrder
<1>5. OutdatedIsBehind'
  BY DEF QuoteTypeOK, OutdatedIsBehind
<1>6. CarriedIsNew'
  BY DEF QuoteTypeOK, CarriedIsNew, NothingYet
<1> QED BY <1>1, <1>2, <1>3, <1>4, <1>5, <1>6

LEMMA StoreKeeps ==
  ASSUME QuoteInv, NEW t \in Threads, Store(t)
  PROVE  QuoteInv'
<1> USE QuoteAssumption DEF Store, Stored, tableVars, threadVars, statusVars, QuoteInv
<1>0. \A u \in Threads : at[u] \in Leading /\ key[u] = key[t] => u = t
  BY DEF QuoteTypeOK, SingleFlight, Leaders, Leading
<1>1. QuoteTypeOK'
  BY DEF QuoteTypeOK, Points, Leading, StoredInOrder
<1>2. SingleFlight' /\ WaitersAreOwed'
  BY DEF QuoteTypeOK, SingleFlight, WaitersAreOwed, Leaders, Leading
<1>3. NothingYet'
  BY DEF QuoteTypeOK, NothingYet
<1>4. StoredInOrder'
  BY <1>0 DEF QuoteTypeOK, StoredInOrder, Leading
<1>5. OutdatedIsBehind'
  BY DEF QuoteTypeOK, OutdatedIsBehind, StoredInOrder
<1>6. CarriedIsNew'
  BY DEF QuoteTypeOK, CarriedIsNew, OutdatedIsBehind, StoredInOrder
<1> QED BY <1>1, <1>2, <1>3, <1>4, <1>5, <1>6

LEMMA NoteDateKeeps ==
  ASSUME QuoteInv, NEW t \in Threads, NoteDate(t)
  PROVE  QuoteInv'
<1> USE QuoteAssumption DEF NoteDate, tableVars, threadVars, statusVars, QuoteInv
<1>1. QuoteTypeOK'
  BY DEF QuoteTypeOK, Points, Leading
<1>2. SingleFlight' /\ WaitersAreOwed'
  BY DEF QuoteTypeOK, SingleFlight, WaitersAreOwed, Leaders, Leading
<1>3. NothingYet'
  BY DEF QuoteTypeOK, NothingYet
<1>4. StoredInOrder'
  BY DEF QuoteTypeOK, StoredInOrder
<1>5. OutdatedIsBehind'
  BY DEF QuoteTypeOK, OutdatedIsBehind
<1>6. CarriedIsNew'
  BY DEF QuoteTypeOK, CarriedIsNew
<1> QED BY <1>1, <1>2, <1>3, <1>4, <1>5, <1>6

LEMMA NoteStatusKeeps ==
  ASSUME QuoteInv, NEW t \in Threads, NoteStatus(t)
  PROVE  QuoteInv'
<1> USE QuoteAssumption DEF NoteStatus, tableVars, threadVars, statusVars, QuoteInv
<1>1. QuoteTypeOK'
  BY DEF QuoteTypeOK, Points, Leading
<1>2. SingleFlight' /\ WaitersAreOwed'
  BY DEF QuoteTypeOK, SingleFlight, WaitersAreOwed, Leaders, Leading
<1>3. NothingYet'
  BY DEF QuoteTypeOK, NothingYet
<1>4. StoredInOrder'
  BY DEF QuoteTypeOK, StoredInOrder
<1>5. OutdatedIsBehind'
  BY DEF QuoteTypeOK, OutdatedIsBehind
<1>6. CarriedIsNew'
  BY DEF QuoteTypeOK, CarriedIsNew
<1> QED BY <1>1, <1>2, <1>3, <1>4, <1>5, <1>6

LEMMA FinishKeeps ==
  ASSUME QuoteInv, NEW t \in Threads, Finish(t)
  PROVE  QuoteInv'
<1> USE QuoteAssumption DEF Finish, Released, Waiters, tableVars, threadVars, statusVars, QuoteInv
<1>1. QuoteTypeOK'
  BY DEF QuoteTypeOK, Points, Leading
<1>2. SingleFlight' /\ WaitersAreOwed'
  BY DEF QuoteTypeOK, SingleFlight, WaitersAreOwed, Leaders, Leading
<1>3. NothingYet'
  BY DEF QuoteTypeOK, NothingYet
<1>4. StoredInOrder'
  BY DEF QuoteTypeOK, StoredInOrder
<1>5. OutdatedIsBehind'
  BY DEF QuoteTypeOK, OutdatedIsBehind
<1>6. CarriedIsNew'
  BY DEF QuoteTypeOK, CarriedIsNew
<1> QED BY <1>1, <1>2, <1>3, <1>4, <1>5, <1>6

LEMMA ExpireKeeps ==
  ASSUME QuoteInv, NEW k \in Keys, Expire(k)
  PROVE  QuoteInv'
<1> USE QuoteAssumption DEF Expire, tableVars, threadVars, statusVars, QuoteInv
<1>1. QuoteTypeOK'
  BY DEF QuoteTypeOK, Points, Leading
<1>2. SingleFlight' /\ WaitersAreOwed'
  BY DEF QuoteTypeOK, SingleFlight, WaitersAreOwed, Leaders, Leading
<1>3. NothingYet'
  BY DEF QuoteTypeOK, NothingYet
<1>4. StoredInOrder'
  BY DEF QuoteTypeOK, StoredInOrder
<1>5. OutdatedIsBehind'
  BY DEF QuoteTypeOK, OutdatedIsBehind
<1>6. CarriedIsNew'
  BY DEF QuoteTypeOK, CarriedIsNew
<1> QED BY <1>1, <1>2, <1>3, <1>4, <1>5, <1>6

LEMMA QuoteInvStep == QuoteInv /\ [QuoteNext]_quoteVars => QuoteInv'
<1> SUFFICES ASSUME QuoteInv, [QuoteNext]_quoteVars
             PROVE  QuoteInv'
  OBVIOUS
<1>1. ASSUME NEW t \in Threads, Look(t) PROVE QuoteInv'
  BY <1>1, HitKeeps, JoinKeeps, LeadKeeps DEF Look
<1>2. ASSUME NEW t \in Threads, Ask(t) PROVE QuoteInv'
  BY <1>2, AnswerKeeps, FailKeeps DEF Ask
<1>3. ASSUME NEW t \in Threads, Conclude(t) PROVE QuoteInv'
  BY <1>3, StoreKeeps, NoteDateKeeps, NoteStatusKeeps, FinishKeeps DEF Conclude
<1>4. CASE UNCHANGED quoteVars
  BY <1>4 DEF quoteVars, tableVars, threadVars, statusVars, QuoteInv, QuoteTypeOK,
     SingleFlight, WaitersAreOwed, Leaders, NothingYet, StoredInOrder, OutdatedIsBehind,
     CarriedIsNew
<1> QED BY <1>1, <1>2, <1>3, <1>4, CallKeeps, WaitExpiresKeeps, ExpireKeeps DEF QuoteNext

LEMMA QuoteInvariant == QuoteSafetySpec => []QuoteInv
  BY QuoteInvInit, QuoteInvStep, PTL DEF QuoteSafetySpec

-----------------------------------------------------------------------------

\* The tables hold what they should and an entry in use always has a quote.
THEOREM QuoteTypeCorrect == QuoteSafetySpec => []QuoteTypeOK
  BY QuoteInvariant, PTL DEF QuoteInv

\* At most one thread asks the provider about an instrument: the one registered.
THEOREM RequestsAreCoalesced == QuoteSafetySpec => []SingleFlight
  BY QuoteInvariant, PTL DEF QuoteInv

\* A thread that waits always has a leader that will set its Event.
THEOREM NoWaiterIsForgotten == QuoteSafetySpec => []WaitersAreOwed
  BY QuoteInvariant, PTL DEF QuoteInv

\* No call returns a quote that was too old when the call began.
THEOREM ResultsAreCurrent == QuoteSafetySpec => []NoOutdatedQuote
<1>1. QuoteInv => NoOutdatedQuote
  BY DEF QuoteInv, CarriedIsNew, NoOutdatedQuote
<1> QED BY <1>1, QuoteInvariant, PTL

\* The quote stored for an instrument is only ever replaced by a later answer.
THEOREM StoredQuotesAdvance == QuoteSafetySpec => QuotesAdvance
<1>1. QuoteInv /\ [QuoteNext]_quoteVars => [\A k \in Keys : cache'[k] >= cache[k]]_quoteVars
  <2> SUFFICES ASSUME QuoteInv, QuoteNext
               PROVE  \A k \in Keys : cache'[k] >= cache[k]
    OBVIOUS
  <2> USE DEF QuoteInv, QuoteTypeOK
  <2>1. ASSUME NEW t \in Threads, Store(t) PROVE \A k \in Keys : cache'[k] >= cache[k]
    BY <2>1 DEF Store, Stored, StoredInOrder
  <2>2. ASSUME UNCHANGED cache PROVE \A k \in Keys : cache'[k] >= cache[k]
    BY <2>2
  <2> QED BY <2>1, <2>2 DEF QuoteNext, Look, Ask, Conclude, Call, Hit, Join, Lead, WaitExpires,
        Answer, Fail, NoteDate, NoteStatus, Finish, Expire, tableVars
<1> QED BY <1>1, QuoteInvariant, PTL DEF QuoteSafetySpec, QuotesAdvance
=============================================================================
