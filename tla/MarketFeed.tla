----------------------------- MODULE MarketFeed -----------------------------
(***************************************************************************)
(* GrowwFeedManager (src/backend/app/providers/groww/feed.py): the one     *)
(* provider connection shared by every browser, with a reference count per *)
(* subscribed name.                                                        *)
(*                                                                         *)
(* The manager lives on the event loop, so a coroutine is atomic between   *)
(* two awaits.  What it awaits are SDK calls sent to worker threads with   *)
(* asyncio.to_thread: building the connection and the four subscribe and   *)
(* unsubscribe calls.  Calls in flight run in any order, and a cancelled   *)
(* coroutine leaves its call behind in the thread.                         *)
(*                                                                         *)
(* A coroutine inside the manager is a caller with a program counter       *)
(* calls[k].at; `feed' numbers the SDK connection objects (0: None).  What *)
(* the SDK makes of a call is left out.  Names are resolved by the         *)
(* instrument cache: several names may stand for one instrument.           *)
(***************************************************************************)
EXTENDS Naturals, Sequences, MarketNames

CONSTANTS
    Callers,                   \* coroutines that may be inside the manager
    NoCaller,                  \* the owner of a call whose coroutine was cancelled
    Channels,                  \* the SDK's stream kinds, in the order of the calls:
                               \* <<"ltp", "depth">>, or the one it has (hasattr)
    SdkMayRaise,               \* whether the SDK's subscription calls may fail
    MaxProviderSubscriptions,  \* MAX_PROVIDER_SUBSCRIPTIONS, 1000 in the code
    MaxReconnectAttempts,      \* max_reconnect_attempts, 5 in the code
    MaxFeeds,                  \* bound of the model: connections ever built
    MaxReconnects,             \* bound of the model: calls of reconnect()
    MaxAbandoned               \* bound of the model: abandoned calls in threads

ASSUME FeedAssumption ==
    /\ IsFiniteSet(Callers) /\ NoCaller \notin Callers
    /\ Channels \in Seq(STRING) /\ Channels # <<>>
    /\ SdkMayRaise \in BOOLEAN
    /\ MaxProviderSubscriptions \in Nat
    /\ MaxReconnectAttempts \in Nat \ {0}
    /\ MaxFeeds \in Nat
    /\ MaxReconnects \in Nat
    /\ MaxAbandoned \in Nat

VARIABLES
    configured,   \* auth_service.is_configured, fixed by the settings
    feedState,    \* state
    feed,         \* _feed: the current connection, 0 for None
    feeds,        \* how many connections were built
    references,   \* _references, 0 for a name that has no entry
    calls,        \* where each caller is inside the manager
    threads,      \* SDK calls handed to a worker thread and not yet run
    reconnecting  \* reconnect(): where it is, its attempt, how often called

connectionVars == <<configured, feedState, feed, feeds>>
feedVars == <<connectionVars, references, calls, threads, reconnecting>>

FeedStates ==
    {"NOT_CONFIGURED", "DISCONNECTED", "CONNECTING", "CONNECTED",
     "RECONNECTING", "FAILED"}

Streams == {Channels[n] : n \in 1..Len(Channels)}

\* Where a caller is: outside, in connect(), in the n-th SDK call of a subscription
\* or of its end, or back at its own code: with an answer or a ValueError, or with
\* any other exception.
Points == {"idle", "connecting", "subscribe", "unsubscribe", "done", "raised"}
Idle == [at |-> "idle", ids |-> {}, rows |-> {}, n |-> 0]
Done == [Idle EXCEPT !.at = "done"]
Raised == [Idle EXCEPT !.at = "raised"]
Connecting(S) == [Idle EXCEPT !.at = "connecting", !.ids = S]
Calling(op, rows, n) == [at |-> op, ids |-> {}, rows |-> rows, n |-> n]

SdkCall(k, op, f, rows, n) ==
    [owner |-> k, op |-> op, feed |-> f, rows |-> rows, channel |-> Channels[n]]

-----------------------------------------------------------------------------
(* Helper formulae. *)

\* The entries of _references.
Subscribed == {s \in Symbols : references[s] > 0}

\* A plausible mistake: only the entries that exist already are counted.
OverProviderCapBeforeNew(new) ==
    Cardinality(Subscribed) > MaxProviderSubscriptions

\* The check of the provider's cap: the entries plus the new ones.
OverProviderCap(new) ==
    Cardinality(Subscribed) + Cardinality(new) > MaxProviderSubscriptions

WithReference(S) ==
    [s \in Symbols |-> references[s] + (IF s \in S THEN 1 ELSE 0)]

\* A plausible mistake: an entry is decremented but the last one never popped.
WithoutReferenceKeepingLast(S) ==
    [s \in Symbols |->
        IF s \in S /\ references[s] > 1 THEN references[s] - 1 ELSE references[s]]

\* unsubscribe(): a count of 1 or less is popped, a larger one decremented.
WithoutReference(S) ==
    [s \in Symbols |->
        IF s \notin S THEN references[s]
        ELSE IF references[s] <= 1 THEN 0 ELSE references[s] - 1]

HasThread(k) == \E t \in threads : t.owner = k

-----------------------------------------------------------------------------

FeedInit ==
    /\ configured \in BOOLEAN
    /\ feedState = IF configured THEN "DISCONNECTED" ELSE "NOT_CONFIGURED"
    /\ feed = 0
    /\ feeds = 0
    /\ references = [s \in Symbols |-> 0]
    /\ calls = [k \in Callers |-> Idle]
    /\ threads = {}
    /\ reconnecting = [at |-> "idle", attempt |-> 0, count |-> 0]

-----------------------------------------------------------------------------
(* subscribe() and unsubscribe(). *)

\* The rest of subscribe() after its first await, or all of it when the feed
\* exists: resolve, test the cap, count, and ask the provider for the new ones.
\* st and f are the state and the connection at that moment.
TakeReferences(k, S, st, f) ==
    LET resolved == Resolved(S)
        new == resolved \ Subscribed
        rows == ProviderRows(new)
    IN  IF OverProviderCap(new)
        THEN /\ calls' = [calls EXCEPT ![k] = Done]
             /\ UNCHANGED <<references, threads>>
        ELSE /\ references' = WithReference(resolved)
             /\ IF st # "CONNECTED" \/ new = {}
                THEN /\ calls' = [calls EXCEPT ![k] = Done]
                     /\ UNCHANGED threads
                ELSE /\ calls' = [calls EXCEPT ![k] = Calling("subscribe", rows, 1)]
                     /\ threads' = threads \union {SdkCall(k, "subscribe", f, rows, 1)}

\* subscribe(), up to its first await; connect() runs first when there is no feed.
FeedSubscribe(k, S) ==
    /\ calls[k].at = "idle"
    /\ IF feed # 0
       THEN TakeReferences(k, S, feedState, feed) /\ UNCHANGED feedState
       ELSE IF configured
       THEN /\ feedState' = "CONNECTING"
            /\ calls' = [calls EXCEPT ![k] = Connecting(S)]
            /\ UNCHANGED <<references, threads>>
       ELSE /\ feedState' = "NOT_CONFIGURED"
            /\ TakeReferences(k, S, feedState', feed)
    /\ UNCHANGED <<configured, feed, feeds, reconnecting>>

\* connect() resumes: get_client and the SDK constructor returned.
ConnectSucceeds(k) ==
    /\ calls[k].at = "connecting"
    /\ feeds < MaxFeeds
    /\ feeds' = feeds + 1
    /\ feed' = feeds + 1
    /\ feedState' = "CONNECTED"
    /\ TakeReferences(k, calls[k].ids, "CONNECTED", feed')
    /\ UNCHANGED <<configured, reconnecting>>

\* ... or one of them raised: FAILED, and subscribe() goes on all the same.
ConnectFails(k) ==
    /\ calls[k].at = "connecting"
    /\ feedState' = "FAILED"
    /\ TakeReferences(k, calls[k].ids, "FAILED", feed)
    /\ UNCHANGED <<configured, feed, feeds, reconnecting>>

\* Resume after an SDK call: the next one goes to the connection that is current
\* now, whatever the one before it went to.
NextCall(k) ==
    LET call == calls[k] IN
    /\ call.at \in {"subscribe", "unsubscribe"}
    /\ ~HasThread(k)
    /\ call.n < Len(Channels)
    /\ calls' = [calls EXCEPT ![k].n = @ + 1]
    /\ threads' = threads \union {SdkCall(k, call.at, feed, call.rows, call.n + 1)}
    /\ UNCHANGED <<connectionVars, references, reconnecting>>

CallsCompleteLate(n) == n > Len(Channels)  \* a plausible mistake
CallsComplete(n) == n = Len(Channels)

LastCall(k) ==
    /\ calls[k].at \in {"subscribe", "unsubscribe"}
    /\ ~HasThread(k)
    /\ CallsComplete(calls[k].n)
    /\ calls' = [calls EXCEPT ![k] = Done]
    /\ UNCHANGED <<connectionVars, references, threads, reconnecting>>

\* unsubscribe(), up to its first await.  left is what remains of the calls in
\* flight: all of them, except when the coroutine of k was just cancelled.
FeedUnsubscribe(k, S, left) ==
    LET removed == {s \in S : references[s] <= 1}
        rows == ProviderRows(removed)
    IN  /\ references' = WithoutReference(S)
        /\ IF feed = 0 \/ rows = {}
           THEN /\ calls' = [calls EXCEPT ![k] = Done]
                /\ threads' = left
           ELSE /\ calls' = [calls EXCEPT ![k] = Calling("unsubscribe", rows, 1)]
                /\ threads' = left \union {SdkCall(k, "unsubscribe", feed, rows, 1)}
        /\ UNCHANGED <<connectionVars, reconnecting>>

\* The calls in flight once the coroutine of k is cancelled: its own call was
\* either still queued and is withdrawn, or it runs on with nobody waiting.
AfterCancel(k) ==
    {{t \in threads : t.owner # k}} \union
    IF Cardinality({t \in threads : t.owner = NoCaller}) >= MaxAbandoned THEN {}
    ELSE {{IF t.owner = k THEN [t EXCEPT !.owner = NoCaller] ELSE t : t \in threads}}

-----------------------------------------------------------------------------
(* Worker threads (external: the SDK). *)

SdkRuns(t) ==
    /\ threads' = threads \ {t}
    /\ UNCHANGED <<connectionVars, references, calls, reconnecting>>

\* The exception reaches whoever waits for the call; a ValueError is an answer to
\* those who subscribe, and to them only.
SdkRaises(t) ==
    /\ SdkMayRaise
    /\ threads' = threads \ {t}
    /\ IF t.owner = NoCaller THEN UNCHANGED calls
       ELSE \E end \in IF t.op = "subscribe" THEN {Done, Raised} ELSE {Raised} :
               calls' = [calls EXCEPT ![t.owner] = end]
    /\ UNCHANGED <<connectionVars, references, reconnecting>>

-----------------------------------------------------------------------------
(* reconnect(): bounded attempts with a growing delay between them. *)

\* A plausible mistake: one attempt more than configured.
LastAttemptLate == reconnecting.attempt = MaxReconnectAttempts
LastAttempt == reconnecting.attempt + 1 = MaxReconnectAttempts

SameAttempt(n) == n  \* a plausible mistake
NextAttempt(n) == n + 1

\* The transitions up to the first await: DISCONNECTED, RECONNECTING, CONNECTING.
ReconnectBegins ==
    /\ configured
    /\ reconnecting.at = "idle"
    /\ reconnecting.count < MaxReconnects
    /\ reconnecting' = [at |-> "connecting", attempt |-> 0, count |-> reconnecting.count + 1]
    /\ feedState' = "CONNECTING"
    /\ UNCHANGED <<configured, feed, feeds, references, calls, threads>>

\* The new connection replaces the current one; nothing is asked of it.
ReconnectSucceeds ==
    /\ reconnecting.at = "connecting"
    /\ feeds < MaxFeeds
    /\ feeds' = feeds + 1
    /\ feed' = feeds + 1
    /\ feedState' = "CONNECTED"
    /\ reconnecting' = [reconnecting EXCEPT !.at = "idle"]
    /\ UNCHANGED <<configured, references, calls, threads>>

ReconnectAttemptFails ==
    /\ reconnecting.at = "connecting"
    /\ feedState' = "FAILED"
    /\ reconnecting' = IF LastAttempt
                       THEN [reconnecting EXCEPT !.at = "idle"]
                       ELSE [reconnecting EXCEPT !.at = "sleeping", !.attempt = NextAttempt(@)]
    /\ UNCHANGED <<configured, feed, feeds, references, calls, threads>>

ReconnectRetries ==
    /\ reconnecting.at = "sleeping"
    /\ reconnecting' = [reconnecting EXCEPT !.at = "connecting"]
    /\ feedState' = "CONNECTING"
    /\ UNCHANGED <<configured, feed, feeds, references, calls, threads>>

Reconnect ==
    \/ ReconnectBegins
    \/ ReconnectSucceeds
    \/ ReconnectAttemptFails
    \/ ReconnectRetries

-----------------------------------------------------------------------------

FeedTypeOK ==
    /\ configured \in BOOLEAN
    /\ feedState \in FeedStates
    /\ feeds \in 0..MaxFeeds
    /\ feed \in 0..feeds
    /\ references \in [Symbols -> Nat]
    /\ calls \in [Callers -> [at : Points, ids : SUBSET Symbols,
                             rows : SUBSET Instruments, n : 0..Len(Channels)]]
    /\ threads \subseteq
          [owner : Callers \union {NoCaller}, op : {"subscribe", "unsubscribe"},
           channel : Streams, feed : 1..feeds, rows : SUBSET Instruments]
    /\ reconnecting \in
          [at : {"idle", "connecting", "sleeping"},
           attempt : 0..MaxReconnectAttempts - 1, count : 0..MaxReconnects]

\* The provider is never asked for more names than it allows, although the test
\* and the count are separated from the request's start by a connection attempt
\* during which other browsers may subscribe (feed.py:81-92, limit of line 28).
ProviderLimit == Cardinality(Subscribed) <= MaxProviderSubscriptions
=============================================================================
