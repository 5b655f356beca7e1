----------------------------- MODULE QuoteCache -----------------------------
(***************************************************************************)
(* GrowwMarketDataProvider.get_quote                                       *)
(* (src/backend/app/providers/groww/market_data.py): the two-second quote  *)
(* cache in front of the provider's REST interface.                        *)
(*                                                                         *)
(* The REST endpoints are synchronous, so every request is a worker thread *)
(* and threads interleave between any two acquisitions of _quote_lock.     *)
(* The first thread to miss the cache for an instrument leads: it leaves   *)
(* an Event in _quote_inflight, asks the provider, stores the quote and    *)
(* sets the Event.  The others wait for the Event and look again.          *)
(*                                                                         *)
(* A quote is abstracted to the number of the provider's answer, its age   *)
(* to whether QUOTE_TTL_SECONDS have passed.  An Event is abstracted to    *)
(* the thread that made it: only threads that look while it is in          *)
(* _quote_inflight wait for it, and set() frees all of them for good.      *)
(* The threads start with the instrument resolved and the provider         *)
(* configured: what get_quote does before that reads no shared state.      *)
(***************************************************************************)
EXTENDS Naturals, FiniteSets

CONSTANTS
    Threads,       \* worker threads of the API
    Keys,          \* instrument_id: the cache keys
    Nobody,        \* no thread
    WaitMayExpire, \* whether a leader may take longer than wait(timeout=30)
    MaxCalls       \* bound of the model: calls of get_quote

ASSUME QuoteAssumption ==
    /\ Nobody \notin Threads
    /\ WaitMayExpire \in BOOLEAN
    /\ MaxCalls \in Nat

VARIABLES
    cache,      \* _quote_cache: the last answer stored for a key, 0 for none
    fresh,      \* whether that answer is younger than QUOTE_TTL_SECONDS
    inflight,   \* _quote_inflight: the thread whose Event is registered
    at,         \* where each thread is in get_quote
    key,        \* the key it asks for
    got,        \* the answer it carries or has returned, 0 for an exception
    started,    \* how many calls began
    answered,   \* how many answers the provider gave (external)
    lastMessage,    \* _last_message_at, as the answer it comes from
    lastStatus,     \* _last_session_status, as the answer it comes from
    outdated    \* history: the newest answer for its key that was already
                \* too old when the thread's call began

tableVars == <<cache, fresh, inflight>>
threadVars == <<at, key, got>>
statusVars == <<lastMessage, lastStatus>>
quoteVars == <<tableVars, threadVars, started, answered, statusVars, outdated>>

\* From registering the Event to removing it a thread is leading.
Leading == {"requesting", "storing", "dating", "noting", "finishing"}
Points == {"idle", "looking", "waiting"} \union Leading

Leaders(k) == {t \in Threads : at[t] \in Leading /\ key[t] = k}
Waiters(k) == {t \in Threads : at[t] = "waiting" /\ key[t] = k}

-----------------------------------------------------------------------------

QuoteInit ==
    /\ cache = [k \in Keys |-> 0]
    /\ fresh = [k \in Keys |-> FALSE]
    /\ inflight = [k \in Keys |-> Nobody]
    /\ at = [t \in Threads |-> "idle"]
    /\ \E k \in Keys : key = [t \in Threads |-> k]
    /\ got = [t \in Threads |-> 0]
    /\ started = 0
    /\ answered = 0
    /\ lastMessage = 0
    /\ lastStatus = 0
    /\ outdated = [t \in Threads |-> 0]

Call(t, k) ==
    /\ at[t] = "idle"
    /\ started < MaxCalls
    /\ started' = started + 1
    /\ at' = [at EXCEPT ![t] = "looking"]
    /\ key' = [key EXCEPT ![t] = k]
    /\ got' = [got EXCEPT ![t] = 0]
    /\ outdated' = [outdated EXCEPT ![t] = IF fresh[k] THEN 0 ELSE cache[k]]
    /\ UNCHANGED <<tableVars, answered, statusVars>>

\* The first lock section: a fresh answer is returned ...
UsableAtAnyAge(k) == cache[k] # 0  \* a plausible mistake
Usable(k) == fresh[k]

Hit(t) ==
    /\ at[t] = "looking"
    /\ Usable(key[t])
    /\ at' = [at EXCEPT ![t] = "idle"]
    /\ got' = [got EXCEPT ![t] = cache[key[t]]]
    /\ UNCHANGED <<tableVars, key, started, answered, statusVars, outdated>>

\* ... an answer on its way is waited for ...
MayLeadWhenExpired(t) == inflight[key[t]] = Nobody \/ cache[key[t]] # 0  \* a plausible mistake
MayLead(t) == inflight[key[t]] = Nobody

Join(t) ==
    /\ at[t] = "looking"
    /\ ~Usable(key[t])
    /\ ~MayLead(t)
    /\ at' = [at EXCEPT ![t] = "waiting"]
    /\ UNCHANGED <<tableVars, key, got, started, answered, statusVars, outdated>>

\* ... or the thread registers its own Event and leaves the section to ask.
Lead(t) ==
    /\ at[t] = "looking"
    /\ ~Usable(key[t])
    /\ MayLead(t)
    /\ inflight' = [inflight EXCEPT ![key[t]] = t]
    /\ at' = [at EXCEPT ![t] = "requesting"]
    /\ UNCHANGED <<cache, fresh, key, got, started, answered, statusVars, outdated>>

\* pending.wait(timeout=30) returned False: the call raises.
WaitExpires(t) ==
    /\ WaitMayExpire
    /\ at[t] = "waiting"
    /\ at' = [at EXCEPT ![t] = "idle"]
    /\ UNCHANGED <<tableVars, key, got, started, answered, statusVars, outdated>>

\* _request and _normalize_quote return.
Answer(t) ==
    /\ at[t] = "requesting"
    /\ answered' = answered + 1
    /\ got' = [got EXCEPT ![t] = answered + 1]
    /\ at' = [at EXCEPT ![t] = "storing"]
    /\ UNCHANGED <<tableVars, key, started, statusVars, outdated>>

\* ... or one of them raises: rate limit, authentication, provider or payload.
AfterFailureNoFinally == "idle"  \* a plausible mistake: the clean-up is not in a finally block
AfterFailure == "finishing"

Fail(t) ==
    /\ at[t] = "requesting"
    /\ at' = [at EXCEPT ![t] = AfterFailure]
    /\ UNCHANGED <<tableVars, key, got, started, answered, statusVars, outdated>>

\* The second lock section.
StoredAgain(t) == cache[key[t]]  \* a plausible mistake: only the time of the entry is renewed
Stored(t) == got[t]

Store(t) ==
    /\ at[t] = "storing"
    /\ cache' = [cache EXCEPT ![key[t]] = Stored(t)]
    /\ fresh' = [fresh EXCEPT ![key[t]] = TRUE]
    /\ at' = [at EXCEPT ![t] = "dating"]
    /\ UNCHANGED <<inflight, key, got, started, answered, statusVars, outdated>>

\* Two assignments outside the lock, by the leaders of several keys at a time.
NoteDate(t) ==
    /\ at[t] = "dating"
    /\ lastMessage' = got[t]
    /\ at' = [at EXCEPT ![t] = "noting"]
    /\ UNCHANGED <<tableVars, key, got, started, answered, lastStatus, outdated>>

NoteStatus(t) ==
    /\ at[t] = "noting"
    /\ lastStatus' = got[t]
    /\ at' = [at EXCEPT ![t] = "finishing"]
    /\ UNCHANGED <<tableVars, key, got, started, answered, lastMessage, outdated>>

\* The finally block: the Event of the key is removed and set.
ReleasedNobody(k) == {}  \* a plausible mistake: the Event is removed and never set
Released(k) == {t \in Waiters(k) : inflight[k] # Nobody}

Finish(t) ==
    /\ at[t] = "finishing"
    /\ inflight' = [inflight EXCEPT ![key[t]] = Nobody]
    /\ at' = [u \in Threads |->
                 IF u = t THEN "idle" ELSE IF u \in Released(key[t]) THEN "looking" ELSE at[u]]
    /\ UNCHANGED <<cache, fresh, key, got, started, answered, statusVars, outdated>>

\* Two seconds pass since the answer was stored.
Expire(k) ==
    /\ fresh[k]
    /\ fresh' = [fresh EXCEPT ![k] = FALSE]
    /\ UNCHANGED <<cache, inflight, threadVars, started, answered, statusVars, outdated>>

-----------------------------------------------------------------------------

Look(t) == Hit(t) \/ Join(t) \/ Lead(t)
Ask(t) == Answer(t) \/ Fail(t)
Conclude(t) == Store(t) \/ NoteDate(t) \/ NoteStatus(t) \/ Finish(t)

QuoteNext ==
    \/ \E t \in Threads, k \in Keys : Call(t, k)
    \/ \E t \in Threads : Look(t) \/ WaitExpires(t) \/ Ask(t) \/ Conclude(t)
    \/ \E k \in Keys : Expire(k)

\* Threads are scheduled and the SDK returns or raises; nothing is assumed of the
\* waits' timeouts, of the age of an answer or of new calls.
QuoteFairness == \A t \in Threads : WF_quoteVars(Look(t) \/ Ask(t) \/ Conclude(t))

QuoteSafetySpec == QuoteInit /\ [][QuoteNext]_quoteVars
QuoteSpec == QuoteSafetySpec /\ QuoteFairness

-----------------------------------------------------------------------------
(* Properties. *)

\* Types, and an entry of the cache that is in use holds a quote.
QuoteTypeOK ==
    /\ cache \in [Keys -> Nat]
    /\ fresh \in [Keys -> BOOLEAN]
    /\ \A k \in Keys : fresh[k] => cache[k] # 0
    /\ inflight \in [Keys -> Threads \union {Nobody}]
    /\ at \in [Threads -> Points]
    /\ key \in [Threads -> Keys]
    /\ got \in [Threads -> Nat]
    /\ started \in 0..MaxCalls
    /\ answered \in Nat
    /\ lastMessage \in Nat
    /\ lastStatus \in Nat
    /\ outdated \in [Threads -> Nat]

\* Requests for one instrument are coalesced: the only thread between asking the
\* provider and its finally block is the one whose Event is registered, whatever
\* fails, expires or times out in between (market_data.py:170-182, 198-202).
SingleFlight ==
    \A k \in Keys : Leaders(k) = {inflight[k]} \ {Nobody}

\* Nobody waits for an Event that no thread will set: the thread a waiter joined
\* is still on its way to the finally block.
WaitersAreOwed ==
    \A t \in Threads : at[t] = "waiting" => Leaders(key[t]) # {}

\* A quote older than QUOTE_TTL_SECONDS when a call began is never its result,
\* although the caller looked, waited and looked again in between.
NoOutdatedQuote ==
    \A t \in Threads : at[t] = "idle" /\ got[t] # 0 => got[t] > outdated[t]

\* The stored quote of an instrument never goes back to an earlier answer.
QuotesAdvance == [][\A k \in Keys : cache'[k] >= cache[k]]_quoteVars

\* Every wait ends without the help of the 30 second timeout: who joined a request looks
\* again as soon as it ends, however it ends.  (The whole call need not end: if the
\* answer expires first and others keep leading, get_quote loops and waits again.)
WaitsEnd == \A t \in Threads : at[t] = "waiting" ~> at[t] # "waiting"
=============================================================================
