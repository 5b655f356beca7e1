----------------------------- MODULE StreamHub -----------------------------
(***************************************************************************)
(* The browser fan-out of the market workspace: MarketStreamHub            *)
(* (src/backend/app/market_api/live.py) and the sender half of the         *)
(* /api/market/stream route.  Every method of the hub runs on the event    *)
(* loop without an await, so each is one atomic action; the only other     *)
(* process is the sender coroutine of each connection, which takes one     *)
(* message from the bounded queue and may be suspended for as long as the  *)
(* browser is slow to read it.                                             *)
(*                                                                         *)
(* A tick is abstracted to its publication number and the instrument it    *)
(* is about.  An instrument is known under several names (its symbol and   *)
(* its "EXCHANGE:SEGMENT:SYMBOL" identifier): browsers subscribe to names. *)
(***************************************************************************)
EXTENDS Naturals, Sequences, MarketNames

CONSTANTS
    Clients,                 \* connection identifiers (uuid4 in the route)
    MaxClientSubscriptions,  \* MAX_CLIENT_SUBSCRIPTIONS, 25 in the code
    MaxQueue,                \* MAX_QUEUE_SIZE, 100 in the code
    MaxTicks                 \* bound of the model: ticks ever published

ASSUME HubAssumption ==
    /\ IsFiniteSet(Clients)
    /\ MaxClientSubscriptions \in Nat
    /\ MaxQueue \in Nat \ {0}
    /\ MaxTicks \in Nat

VARIABLES
    clients,        \* the keys of _clients
    subscriptions,  \* _subscriptions, {} for a client that has no entry
    hubReferences,  \* _references, 0 for a symbol that has no entry
    queues,         \* the asyncio.Queue of each client
    sending,        \* the message its sender has taken and not yet sent, 0: none
    published,      \* history: how many ticks were published
    lastMatched,    \* history: the newest tick published for each client
    delivered       \* history: the newest tick each browser has received

subscriptionVars == <<clients, subscriptions, hubReferences>>
deliveryVars == <<queues, sending, published, lastMatched, delivered>>
hubVars == <<subscriptionVars, deliveryVars>>

-----------------------------------------------------------------------------
(* Helper formulae. *)

\* The clients that hold an interest in symbol s.
Holders(s) == {c \in Clients : s \in subscriptions[c]}

\* A plausible mistake: a full queue refuses the newest tick instead.
PutDroppingNewest(q, t) ==
    IF Len(q) >= MaxQueue THEN q ELSE Append(q, t)

\* A plausible mistake: a full queue is overtaken by the newest tick.
PutNewestFirst(q, t) ==
    IF Len(q) >= MaxQueue THEN <<t>> \o Tail(q) ELSE Append(q, t)

\* asyncio.Queue(maxsize) after the hub made room: the oldest entry goes.
Enqueue(q, t) ==
    IF Len(q) >= MaxQueue THEN Append(Tail(q), t) ELSE Append(q, t)

\* The queue entries a client still has to receive, oldest first.
Outstanding(c) ==
    IF sending[c] = 0 THEN queues[c] ELSE <<sending[c]>> \o queues[c]

-----------------------------------------------------------------------------
(* Subscription state. *)

HubInit ==
    /\ clients = {}
    /\ subscriptions = [c \in Clients |-> {}]
    /\ hubReferences = [s \in Symbols |-> 0]
    /\ queues = [c \in Clients |-> <<>>]
    /\ sending = [c \in Clients |-> 0]
    /\ published = 0
    /\ lastMatched = [c \in Clients |-> 0]
    /\ delivered = [c \in Clients |-> 0]

Register(c) ==
    /\ c \notin clients
    /\ clients' = clients \union {c}
    /\ subscriptions' = [subscriptions EXCEPT ![c] = {}]
    /\ queues' = [queues EXCEPT ![c] = <<>>]
    /\ sending' = [sending EXCEPT ![c] = 0]
    /\ lastMatched' = [lastMatched EXCEPT ![c] = 0]
    /\ delivered' = [delivered EXCEPT ![c] = 0]
    /\ UNCHANGED <<hubReferences, published>>

\* The reference counts after one more holder of every symbol in S.
CountUp(S) ==
    [s \in Symbols |-> hubReferences[s] + (IF s \in S THEN 1 ELSE 0)]

\* A plausible mistake: the last holder leaves the entry behind.
CountDownKeepingLast(S) ==
    [s \in Symbols |->
        IF s \in S /\ hubReferences[s] > 1
        THEN hubReferences[s] - 1
        ELSE hubReferences[s]]

\* ... and after one holder less; an entry that reaches 0 is popped.
CountDown(S) ==
    [s \in Symbols |->
        IF s \in S /\ hubReferences[s] > 0
        THEN hubReferences[s] - 1
        ELSE hubReferences[s]]

\* What subscribe() adds: the requested names the client does not hold yet.
Added(c, S) == S \ subscriptions[c]

\* A plausible mistake: the cap is tested on the request alone.
RequestWithinCap(c, S) == Cardinality(S) <= MaxClientSubscriptions

WithinClientCap(c, S) ==
    Cardinality(subscriptions[c] \union S) <= MaxClientSubscriptions

HubSubscribe(c, S) ==
    /\ c \in clients
    /\ WithinClientCap(c, S)
    /\ subscriptions' = [subscriptions EXCEPT ![c] = @ \union S]
    /\ hubReferences' = CountUp(Added(c, S))
    /\ UNCHANGED clients

HubUnsubscribe(c, S) ==
    /\ c \in clients
    /\ subscriptions' = [subscriptions EXCEPT ![c] = @ \ S]
    /\ hubReferences' = CountDown(S \intersect subscriptions[c])
    /\ UNCHANGED clients

HubUnregister(c) ==
    /\ c \in clients
    /\ clients' = clients \ {c}
    /\ hubReferences' = CountDown(subscriptions[c])
    /\ subscriptions' = [subscriptions EXCEPT ![c] = {}]
    /\ queues' = [queues EXCEPT ![c] = <<>>]
    /\ sending' = [sending EXCEPT ![c] = 0]
    /\ UNCHANGED <<published, lastMatched, delivered>>

-----------------------------------------------------------------------------
(* Delivery. *)

Matches(c, i) == c \in clients /\ NamesOf[i] \intersect subscriptions[c] # {}

\* publish_observation: one copy for each client that holds a name of i.
Publish(i) ==
    /\ published < MaxTicks
    /\ LET t == published + 1 IN
        /\ published' = t
        /\ queues' = [c \in Clients |->
                         IF Matches(c, i) THEN Enqueue(queues[c], t) ELSE queues[c]]
        /\ lastMatched' = [c \in Clients |->
                         IF Matches(c, i) THEN t ELSE lastMatched[c]]
    /\ UNCHANGED <<subscriptionVars, sending, delivered>>

\* _stream_send: await queue.get() ...
TakeNext(c) ==
    /\ c \in clients
    /\ sending[c] = 0
    /\ queues[c] # <<>>
    /\ sending' = [sending EXCEPT ![c] = Head(queues[c])]
    /\ queues' = [queues EXCEPT ![c] = Tail(@)]
    /\ UNCHANGED <<subscriptionVars, published, lastMatched, delivered>>

\* ... then await websocket.send_json(...), as slow as the browser is.
Sent(c) ==
    /\ c \in clients
    /\ sending[c] # 0
    /\ delivered' = [delivered EXCEPT ![c] = sending[c]]
    /\ sending' = [sending EXCEPT ![c] = 0]
    /\ UNCHANGED <<subscriptionVars, queues, published, lastMatched>>

-----------------------------------------------------------------------------

Subscribe(c, S) == HubSubscribe(c, S) /\ UNCHANGED deliveryVars
Unsubscribe(c, S) == HubUnsubscribe(c, S) /\ UNCHANGED deliveryVars

HubNext ==
    \/ \E c \in Clients :
        \/ Register(c)
        \/ HubUnregister(c)
        \/ TakeNext(c)
        \/ Sent(c)
    \/ \E c \in Clients, S \in SUBSET Symbols : Subscribe(c, S)
    \/ \E c \in Clients, S \in SUBSET Symbols : Unsubscribe(c, S)
    \/ \E i \in Instruments : Publish(i)

\* The sender coroutine runs whenever its queue is not empty, and a connected
\* browser eventually reads: a socket that never drains is closed by the server.
SenderFairness ==
    \A c \in Clients : WF_hubVars(TakeNext(c)) /\ WF_hubVars(Sent(c))

HubSafetySpec == HubInit /\ [][HubNext]_hubVars
HubSpec == HubSafetySpec /\ SenderFairness

-----------------------------------------------------------------------------
(* Properties. *)

\* Types and bounds: no client exceeds its cap, no queue its size.
HubTypeOK ==
    /\ clients \in SUBSET Clients
    /\ subscriptions \in [Clients -> SUBSET Symbols]
    /\ hubReferences \in [Symbols -> Nat]
    /\ queues \in [Clients -> Seq(1..MaxTicks)]
    /\ sending \in [Clients -> 0..MaxTicks]
    /\ published \in 0..MaxTicks
    /\ lastMatched \in [Clients -> 0..MaxTicks]
    /\ delivered \in [Clients -> 0..MaxTicks]
    /\ \A c \in Clients : Len(queues[c]) <= MaxQueue
    /\ \A c \in Clients : Cardinality(subscriptions[c]) <= MaxClientSubscriptions

\* The reference count of every symbol is the number of connected browsers that
\* hold it, whatever mix of overlapping subscriptions, repeats, unsubscriptions
\* of names not held and disconnections led there.  It is what
\* provider_subscriptions() reports as the provider's work list.
InterestCounted ==
    \A s \in Symbols : hubReferences[s] = Cardinality(Holders(s))

\* A browser that falls behind loses the oldest ticks and never the newest:
\* after every outstanding message it will have seen the last one published
\* for it (publish_observation drops with get_nowait before put_nowait).
NewestKept ==
    \A c \in clients :
        IF Outstanding(c) = <<>>
        THEN delivered[c] = lastMatched[c]
        ELSE Outstanding(c)[Len(Outstanding(c))] = lastMatched[c]

\* A browser never receives an observation older than one it already shows,
\* although a full queue drops from the front while the sender holds a message.
DeliveredInOrder ==
    [][\A c \in clients \intersect clients' :
          delivered'[c] # delivered[c] => delivered'[c] > delivered[c]]_hubVars

\* The last price a connected browser is subscribed to eventually reaches it,
\* or a newer one does.
NewestReachesBrowser ==
    \A c \in Clients : \A t \in 1..MaxTicks :
        (c \in clients /\ lastMatched[c] = t)
            ~> (c \notin clients \/ delivered[c] >= t)
=============================================================================
