---------------------------- MODULE MarketStream ----------------------------
(***************************************************************************)
(* The /api/market/stream WebSocket route (market_stream and               *)
(* _stream_receive in src/backend/app/api/routes/market.py) composed with  *)
(* the hub's subscription tables and the feed manager: what keeps the      *)
(* browsers' interest and the provider's subscriptions together.           *)
(*                                                                         *)
(* Each connection is one receiver coroutine, which handles one message at *)
(* a time, and a main coroutine that cancels the receiver when the socket  *)
(* breaks, removes the client from the hub and gives its names back to the *)
(* feed.  Ticks and queues play no part here: see StreamHub.               *)
(***************************************************************************)
EXTENDS StreamHub, MarketFeed

\* The feed's callers are the handlers of the connections.  In the application the
\* session manager calls the same feed (see MarketSession); it is left out here.
ASSUME StreamAssumption == Callers = Clients

streamVars == <<hubVars, feedVars>>

StreamInit == HubInit /\ FeedInit

-----------------------------------------------------------------------------
(* The route's handlers. *)

Open(c) ==
    /\ calls[c].at = "idle"
    /\ Register(c)
    /\ UNCHANGED feedVars

\* {"action": "subscribe"}: the hub first, then the feed for what was added.
\* A request beyond the client's cap is answered with an error and changes nothing.
ReceiveSubscribe(c, S) ==
    /\ calls[c].at = "idle"
    /\ HubSubscribe(c, S)
    /\ IF Added(c, S) = {} THEN UNCHANGED feedVars ELSE FeedSubscribe(c, Added(c, S))
    /\ UNCHANGED deliveryVars

ReceiveUnsubscribe(c, S) ==
    LET removed == S \intersect subscriptions[c] IN
    /\ calls[c].at = "idle"
    /\ HubUnsubscribe(c, S)
    /\ IF removed = {} THEN UNCHANGED feedVars ELSE FeedUnsubscribe(c, removed, threads)
    /\ UNCHANGED deliveryVars

\* The feed's coroutine returned, or subscribing raised a ValueError: an answer is
\* sent and the receiver waits for the next message.
Reply(c) ==
    /\ c \in clients
    /\ calls[c].at = "done"
    /\ calls' = [calls EXCEPT ![c] = Idle]
    /\ UNCHANGED <<hubVars, connectionVars, references, threads, reconnecting>>

\* The socket breaks or a send fails, at whatever await the receiver stands, and it
\* is cancelled; or it has ended itself, with an exception: the main coroutine cleans
\* up.
Disconnect(c) ==
    /\ HubUnregister(c)
    /\ \E left \in AfterCancel(c) :
          IF subscriptions[c] = {}
          THEN /\ threads' = left
               /\ calls' = [calls EXCEPT ![c] = Idle]
               /\ UNCHANGED <<connectionVars, references, reconnecting>>
          ELSE FeedUnsubscribe(c, subscriptions[c], left)

\* The main coroutine ends, whether the clean-up call returned or raised.
Closed(c) ==
    /\ c \notin clients
    /\ calls[c].at \in {"done", "raised"}
    /\ calls' = [calls EXCEPT ![c] = Idle]
    /\ UNCHANGED <<hubVars, connectionVars, references, threads, reconnecting>>

-----------------------------------------------------------------------------

FeedStep ==
    /\ \/ \E c \in Clients : ConnectSucceeds(c) \/ ConnectFails(c) \/ NextCall(c) \/ LastCall(c)
       \/ \E t \in threads : SdkRuns(t)
       \/ \E t \in threads : SdkRaises(t)
       \/ Reconnect
    /\ UNCHANGED hubVars

StreamNext ==
    \/ \E c \in Clients : Open(c) \/ Reply(c) \/ Disconnect(c) \/ Closed(c)
    \/ \E c \in Clients, S \in (SUBSET Symbols) \ {{}} :
          ReceiveSubscribe(c, S) \/ ReceiveUnsubscribe(c, S)
    \/ FeedStep

\* The event loop resumes every coroutine whose await is over, and every call
\* given to a thread ends; a receiver that ended is noticed.  Nothing obliges a browser
\* to send or to leave.
StreamFairness ==
    /\ \A c \in Clients :
          /\ WF_streamVars((ConnectSucceeds(c) \/ ConnectFails(c)) /\ UNCHANGED hubVars)
          /\ WF_streamVars((NextCall(c) \/ LastCall(c)) /\ UNCHANGED hubVars)
          /\ WF_streamVars((\E t \in threads : t.owner = c /\ (SdkRuns(t) \/ SdkRaises(t)))
                             /\ UNCHANGED hubVars)
          /\ WF_streamVars(Reply(c))
          /\ WF_streamVars(calls[c].at = "raised" /\ Disconnect(c))
          /\ WF_streamVars(Closed(c))
    /\ WF_streamVars((ReconnectSucceeds \/ ReconnectAttemptFails) /\ UNCHANGED hubVars)
    /\ WF_streamVars(ReconnectRetries /\ UNCHANGED hubVars)

StreamSafetySpec == StreamInit /\ [][StreamNext]_streamVars
StreamSpec == StreamSafetySpec /\ StreamFairness

-----------------------------------------------------------------------------
(* Properties. *)

StreamTypeOK == HubTypeOK /\ FeedTypeOK

\* The callers that have told the hub about s and not yet the feed.
Announced(s) == {c \in Clients : calls[c].at = "connecting" /\ s \in calls[c].ids}

\* The feed never counts a reference that no connected browser stands behind:
\* however connections fail, messages overlap and sockets break at any await, a
\* name nobody watches has no entry and cannot occupy the provider's cap.
NoPhantomReference ==
    \A s \in Symbols : references[s] + Cardinality(Announced(s)) <= Cardinality(Holders(s))

\* Every message a browser sends is answered, or its connection is cleaned up, and
\* every clean-up ends, however often the provider connection or an SDK call fails.
HandlersFinish ==
    \A c \in Clients : calls[c].at # "idle" ~> calls[c].at = "idle"

\* reconnect() gives up after its attempts: it always returns.
ReconnectReturns == reconnecting.at # "idle" ~> reconnecting.at = "idle"
=============================================================================
