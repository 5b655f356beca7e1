------------------------ MODULE MarketStream_proofs ------------------------
(***************************************************************************)
(* The route, the hub and the feed together, for any number of browsers,   *)
(* names, connections and reconnects.                                      *)
(*                                                                         *)
(* Every step of the composition is a step of the hub or leaves it alone,  *)
(* so what is proved of StreamHub holds here (StreamImplementsHub).  The   *)
(* provider's cap is inductive with the types.  That no reference outlives *)
(* its browsers needs to know that a caller inside connect() still holds   *)
(* every name it is going to count (AnnouncedIsHeld): a socket that breaks *)
(* there takes its name out of the hub and its caller out of connect() in  *)
(* one step.                                                               *)
(***************************************************************************)
EXTENDS MarketStream, StreamHub_proofs

CallRecords ==
    [at : Points, ids : SUBSET Symbols, rows : SUBSET Instruments, n : 0..Len(Channels)]

\* SDK calls to one of the first m connections.
ThreadRecords(m) ==
    [owner : Callers \union {NoCaller}, op : {"subscribe", "unsubscribe"},
     channel : Streams, feed : 1..m, rows : SUBSET Instruments]

\* Who waits for an SDK call found a connection.
CallsHaveFeed ==
    \A k \in Callers : calls[k].at \in {"subscribe", "unsubscribe"} => feed # 0

FeedInv == FeedTypeOK /\ CallsHaveFeed /\ ProviderLimit

\* Who is inside connect() holds the names it will count.
AnnouncedIsHeld ==
    \A c \in Clients : calls[c].at = "connecting" => calls[c].ids \subseteq subscriptions[c]

StreamInv == HubInv /\ FeedInv /\ AnnouncedIsHeld /\ NoPhantomReference

-----------------------------------------------------------------------------
(* The hub inside the composition. *)

LEMMA StreamStepIsHubStep == [StreamNext]_streamVars => [HubNext]_hubVars
<1> SUFFICES ASSUME StreamNext PROVE HubNext \/ UNCHANGED hubVars
  BY DEF streamVars
<1>1. ASSUME NEW c \in Clients, Open(c) PROVE HubNext
  BY <1>1 DEF Open, HubNext
<1>2. ASSUME NEW c \in Clients, Disconnect(c) PROVE HubNext
  BY <1>2 DEF Disconnect, HubNext
<1>3. ASSUME NEW c \in Clients, NEW S \in SUBSET Symbols, ReceiveSubscribe(c, S) PROVE HubNext
  BY <1>3 DEF ReceiveSubscribe, Subscribe, HubNext
<1>4. ASSUME NEW c \in Clients, NEW S \in SUBSET Symbols, ReceiveUnsubscribe(c, S) PROVE HubNext
  BY <1>4 DEF ReceiveUnsubscribe, Unsubscribe, HubNext
<1>5. ASSUME NEW c \in Clients, Reply(c) \/ Closed(c) PROVE UNCHANGED hubVars
  BY <1>5 DEF Reply, Closed
<1>6. CASE FeedStep
  BY <1>6 DEF FeedStep
<1> QED BY <1>1, <1>2, <1>3, <1>4, <1>5, <1>6 DEF StreamNext

\* The composition implements the hub's specification: whatever the feed does, no
\* handler changes the hub in a way the hub alone could not.
THEOREM StreamImplementsHub == StreamSafetySpec => HubSafetySpec
<1>1. StreamInit => HubInit
  BY DEF StreamInit
<1> QED BY <1>1, StreamStepIsHubStep, PTL DEF StreamSafetySpec, HubSafetySpec

-----------------------------------------------------------------------------
(* Facts about the feed's operators. *)

LEMMA DisjointUnion ==
  ASSUME NEW A, NEW B, IsFiniteSet(A), IsFiniteSet(B), A \intersect B = {}
  PROVE  Cardinality(A \union B) = Cardinality(A) + Cardinality(B)
<1>1. Cardinality(A) \in Nat /\ Cardinality(B) \in Nat
  BY FS_CardinalityType
<1>2. Cardinality(A \intersect B) = 0
  BY FS_EmptySet
<1>3. Cardinality(A \union B) = Cardinality(A) + Cardinality(B) - Cardinality(A \intersect B)
  BY FS_Union
<1> QED BY <1>1, <1>2, <1>3

LEMMA ChannelFacts ==
  /\ Len(Channels) \in Nat \ {0}
  /\ \A n \in 1..Len(Channels) : Channels[n] \in Streams
<1>1. Channels \in Seq(STRING) /\ Channels # <<>>
  BY FeedAssumption
<1> QED BY <1>1, EmptySeq DEF Streams

LEMMA RecordFacts ==
  /\ Idle \in CallRecords /\ Done \in CallRecords /\ Raised \in CallRecords
  /\ Idle.at = "idle" /\ Done.at = "done" /\ Raised.at = "raised"
  /\ \A S \in SUBSET Symbols : Connecting(S) \in CallRecords
        /\ Connecting(S).at = "connecting" /\ Connecting(S).ids = S
  /\ \A op \in {"subscribe", "unsubscribe"}, rows \in SUBSET Instruments :
        Calling(op, rows, 1) \in CallRecords /\ Calling(op, rows, 1).at = op
<1>1. 0 \in 0..Len(Channels) /\ 1 \in 0..Len(Channels)
  BY ChannelFacts
<1>2. Idle \in CallRecords /\ Idle.at = "idle"
  BY <1>1 DEF Idle, CallRecords, Points
<1>3. Done \in CallRecords /\ Done.at = "done"
  BY <1>1 DEF Done, Idle, CallRecords, Points
<1>6. Raised \in CallRecords /\ Raised.at = "raised"
  BY <1>1 DEF Raised, Idle, CallRecords, Points
<1>4. \A S \in SUBSET Symbols : Connecting(S) \in CallRecords
        /\ Connecting(S).at = "connecting" /\ Connecting(S).ids = S
  BY <1>1 DEF Connecting, Idle, CallRecords, Points
<1>5. \A op \in {"subscribe", "unsubscribe"}, rows \in SUBSET Instruments :
        Calling(op, rows, 1) \in CallRecords /\ Calling(op, rows, 1).at = op
  BY <1>1 DEF Calling, CallRecords, Points
<1> QED BY <1>2, <1>3, <1>4, <1>5, <1>6

LEMMA ThreadFacts ==
  ASSUME NEW k \in Callers, NEW op \in {"subscribe", "unsubscribe"}, NEW m \in Nat,
         NEW f \in 1..m, NEW rows \in SUBSET Instruments, NEW n \in 1..Len(Channels)
  PROVE  SdkCall(k, op, f, rows, n) \in ThreadRecords(m)
BY ChannelFacts DEF SdkCall, ThreadRecords

LEMMA TypesUnfold ==
  ASSUME FeedTypeOK
  PROVE  /\ feeds \in 0..MaxFeeds /\ feeds \in Nat /\ feed \in 0..feeds
         /\ calls \in [Callers -> CallRecords]
         /\ threads \subseteq ThreadRecords(feeds)
BY FeedAssumption DEF FeedTypeOK, CallRecords, ThreadRecords

LEMMA SubscribedIsFinite == IsFiniteSet(Subscribed) /\ Cardinality(Subscribed) \in Nat
<1>1. Subscribed \in SUBSET Symbols
  BY DEF Subscribed
<1> QED BY <1>1, FiniteNames, FS_CardinalityType

\* subscribe() from its first await on: types and cap are kept, at most one reference
\* per name is taken, and the caller goes on to the provider or to its end.
LEMMA Taken ==
  ASSUME FeedInv, NEW k \in Callers, NEW S \in SUBSET Symbols, NEW st, NEW f,
         TakeReferences(k, S, st, f), feeds' \in Nat, feeds <= feeds',
         st = "CONNECTED" => f \in 1..feeds'
  PROVE  /\ references' \in [Symbols -> Nat]
         /\ \A s \in Symbols : references'[s] <= references[s] + (IF s \in S THEN 1 ELSE 0)
         /\ threads' \subseteq ThreadRecords(feeds')
         /\ ProviderLimit'
         /\ \E x \in CallRecords :
               /\ calls' = [calls EXCEPT ![k] = x]
               /\ x.at \in {"done", "subscribe"}
               /\ x.at = "subscribe" => st = "CONNECTED"
<1> DEFINE resolved == Resolved(S)
           new == resolved \ Subscribed
           rows == ProviderRows(new)
<1>1. resolved \in SUBSET S /\ rows \in SUBSET Instruments
  BY DEF Resolved, ProviderRows
<1>2. references \in [Symbols -> Nat] /\ threads \subseteq ThreadRecords(feeds')
  BY TypesUnfold DEF FeedInv, FeedTypeOK, ThreadRecords
<1>3. \/ /\ calls' = [calls EXCEPT ![k] = Done]
         /\ UNCHANGED <<references, threads>>
      \/ /\ ~OverProviderCap(new)
         /\ references' = WithReference(resolved)
         /\ calls' = [calls EXCEPT ![k] = Done]
         /\ UNCHANGED threads
      \/ /\ ~OverProviderCap(new)
         /\ references' = WithReference(resolved)
         /\ st = "CONNECTED"
         /\ calls' = [calls EXCEPT ![k] = Calling("subscribe", rows, 1)]
         /\ threads' = threads \union {SdkCall(k, "subscribe", f, rows, 1)}
  BY DEF TakeReferences
<1>4. st = "CONNECTED" => SdkCall(k, "subscribe", f, rows, 1) \in ThreadRecords(feeds')
  <2>1. 1 \in 1..Len(Channels)
    BY ChannelFacts
  <2> HIDE DEF rows
  <2> QED BY <1>1, <2>1, ThreadFacts
<1>5. /\ Done \in CallRecords /\ Done.at = "done"
      /\ Calling("subscribe", rows, 1) \in CallRecords
      /\ Calling("subscribe", rows, 1).at = "subscribe"
  BY <1>1, RecordFacts
<1>6. ASSUME ~OverProviderCap(new), references' = WithReference(resolved) PROVE ProviderLimit'
  <2>1. Subscribed' = Subscribed \union new
    BY <1>1, <1>2, <1>6 DEF Subscribed, WithReference
  <2>2. IsFiniteSet(new) /\ Cardinality(new) \in Nat
    BY <1>1, FiniteNames, FS_CardinalityType
  <2>3. Subscribed \intersect new = {}
    OBVIOUS
  <2>4. Cardinality(Subscribed \union new) = Cardinality(Subscribed) + Cardinality(new)
    BY <2>2, <2>3, SubscribedIsFinite, DisjointUnion
  <2> QED BY <1>6, <2>1, <2>2, <2>4, SubscribedIsFinite, FeedAssumption
        DEF OverProviderCap, ProviderLimit
<1>7. ASSUME UNCHANGED references PROVE ProviderLimit'
  BY <1>7 DEF FeedInv, ProviderLimit, Subscribed
<1>8. WithReference(resolved) \in [Symbols -> Nat]
      /\ \A s \in Symbols :
            WithReference(resolved)[s] <= references[s] + (IF s \in S THEN 1 ELSE 0)
  <2> HIDE DEF resolved
  <2> QED BY <1>1, <1>2 DEF WithReference
<1> HIDE DEF resolved, new, rows
<1>9. CASE calls' = [calls EXCEPT ![k] = Done] /\ UNCHANGED <<references, threads>>
  <2>1. ProviderLimit'
    BY <1>7, <1>9
  <2>2. \A s \in Symbols : references'[s] <= references[s] + (IF s \in S THEN 1 ELSE 0)
    BY <1>2, <1>9
  <2>3. references' \in [Symbols -> Nat] /\ threads' \subseteq ThreadRecords(feeds')
    BY <1>2, <1>9
  <2> QED BY <1>5, <1>9, <2>1, <2>2, <2>3
<1>10. CASE /\ ~OverProviderCap(new) /\ references' = WithReference(resolved)
            /\ calls' = [calls EXCEPT ![k] = Done] /\ UNCHANGED threads
  BY <1>2, <1>5, <1>6, <1>8, <1>10
<1>11. CASE /\ ~OverProviderCap(new) /\ references' = WithReference(resolved)
            /\ st = "CONNECTED"
            /\ calls' = [calls EXCEPT ![k] = Calling("subscribe", rows, 1)]
            /\ threads' = threads \union {SdkCall(k, "subscribe", f, rows, 1)}
  <2>1. threads' \subseteq ThreadRecords(feeds')
    BY <1>2, <1>4, <1>11
  <2> QED BY <1>5, <1>6, <1>8, <1>11, <2>1
<1> QED BY <1>3, <1>9, <1>10, <1>11

\* unsubscribe() up to its first await: types and cap are kept, every name given back
\* loses a reference if it has one, and the caller goes on to the provider or to its end.
LEMMA Given ==
  ASSUME FeedInv, NEW k \in Callers, NEW S \in SUBSET Symbols, NEW left,
         left \subseteq ThreadRecords(feeds), FeedUnsubscribe(k, S, left)
  PROVE  /\ references' \in [Symbols -> Nat]
         /\ \A s \in Symbols : s \notin S => references'[s] = references[s]
         /\ \A s \in S : references'[s] = 0 \/ references'[s] = references[s] - 1
         /\ threads' \subseteq ThreadRecords(feeds')
         /\ ProviderLimit'
         /\ \E x \in CallRecords :
               /\ calls' = [calls EXCEPT ![k] = x]
               /\ x.at \in {"done", "unsubscribe"}
               /\ x.at = "unsubscribe" => feed # 0
<1> DEFINE rows == ProviderRows({s \in S : references[s] <= 1})
<1>1. rows \in SUBSET Instruments
  BY DEF ProviderRows
<1>2. references \in [Symbols -> Nat] /\ feeds' = feeds /\ feed' = feed
  BY DEF FeedInv, FeedTypeOK, FeedUnsubscribe, connectionVars
<1>3. references' = WithoutReference(S)
  BY DEF FeedUnsubscribe
<1>4. \/ calls' = [calls EXCEPT ![k] = Done] /\ threads' = left
      \/ /\ feed # 0
         /\ calls' = [calls EXCEPT ![k] = Calling("unsubscribe", rows, 1)]
         /\ threads' = left \union {SdkCall(k, "unsubscribe", feed, rows, 1)}
  BY DEF FeedUnsubscribe
<1> HIDE DEF rows
<1>5. feed # 0 => SdkCall(k, "unsubscribe", feed, rows, 1) \in ThreadRecords(feeds)
  <2>1. 1 \in 1..Len(Channels)
    BY ChannelFacts
  <2>2. feeds \in Nat /\ (feed # 0 => feed \in 1..feeds)
    BY TypesUnfold DEF FeedInv
  <2> QED BY <1>1, <2>1, <2>2, ThreadFacts
<1>6. /\ Done \in CallRecords /\ Done.at = "done"
      /\ Calling("unsubscribe", rows, 1) \in CallRecords
      /\ Calling("unsubscribe", rows, 1).at = "unsubscribe"
  BY <1>1, RecordFacts
<1>7. /\ references' \in [Symbols -> Nat]
      /\ \A s \in Symbols : s \notin S => references'[s] = references[s]
      /\ \A s \in S : references'[s] = 0 \/ references'[s] = references[s] - 1
  BY <1>2, <1>3 DEF WithoutReference
<1>8. ProviderLimit'
  <2>1. Subscribed' \subseteq Subscribed
    BY <1>2, <1>3 DEF Subscribed, WithoutReference
  <2>2. IsFiniteSet(Subscribed') /\ Cardinality(Subscribed') <= Cardinality(Subscribed)
    BY <2>1, SubscribedIsFinite, FS_Subset
  <2>3. Cardinality(Subscribed') \in Nat /\ Cardinality(Subscribed) \in Nat
    BY <2>2, SubscribedIsFinite, FS_CardinalityType
  <2> QED BY <2>2, <2>3, FeedAssumption DEF FeedInv, ProviderLimit
<1>9. threads' \subseteq ThreadRecords(feeds')
  BY <1>2, <1>4, <1>5
<1> QED BY <1>4, <1>6, <1>7, <1>8, <1>9

\* A cancelled caller's call is withdrawn or has no owner any more.
LEMMA CancelledThreads ==
  ASSUME FeedTypeOK, NEW k \in Callers, NEW left \in AfterCancel(k)
  PROVE  left \subseteq ThreadRecords(feeds)
<1>1. threads \subseteq ThreadRecords(feeds)
  BY TypesUnfold
<1>2. \A t \in threads : [t EXCEPT !.owner = NoCaller] \in ThreadRecords(feeds)
  BY <1>1 DEF ThreadRecords
<1>3. \/ left = {t \in threads : t.owner # k}
      \/ left = {IF t.owner = k THEN [t EXCEPT !.owner = NoCaller] ELSE t : t \in threads}
  BY DEF AfterCancel
<1> QED BY <1>1, <1>2, <1>3

-----------------------------------------------------------------------------
(* What the feed's steps keep. *)

\* One caller moves on; whoever then waits for an SDK call has a connection.
LEMMA OneCaller ==
  ASSUME FeedInv, NEW k \in Callers, NEW x \in CallRecords,
         calls' = [calls EXCEPT ![k] = x], feed # 0 => feed' # 0,
         x.at \in {"subscribe", "unsubscribe"} => feed' # 0
  PROVE  /\ calls' \in [Callers -> CallRecords]
         /\ CallsHaveFeed'
         /\ calls'[k] = x
         /\ \A j \in Callers : j # k => calls'[j] = calls[j]
BY TypesUnfold DEF FeedInv, CallsHaveFeed

LEMMA FeedSubscribeKept ==
  ASSUME FeedInv, NEW k \in Callers, NEW S \in SUBSET Symbols, FeedSubscribe(k, S)
  PROVE  /\ FeedInv'
         /\ \A j \in Callers : j # k => calls'[j] = calls[j]
         /\ \/ /\ calls'[k].at = "connecting" /\ calls'[k].ids = S
               /\ references' = references
            \/ /\ calls'[k].at # "connecting"
               /\ \A s \in Symbols :
                     references'[s] <= references[s] + (IF s \in S THEN 1 ELSE 0)
<1>1. /\ UNCHANGED <<configured, feed, feeds, reconnecting>>
      /\ feeds' \in Nat /\ feeds <= feeds' /\ feed \in 0..feeds'
  BY TypesUnfold DEF FeedSubscribe, FeedInv
<1>2. CASE feed # 0 \/ ~configured
  <2>1. PICK st \in {feedState, "NOT_CONFIGURED"} :
           /\ TakeReferences(k, S, st, feed) /\ feedState' = st
           /\ st = "CONNECTED" => feed # 0
    BY <1>2 DEF FeedSubscribe
  <2>2. st = "CONNECTED" => feed \in 1..feeds'
    BY <1>1, <2>1
  <2>3. /\ references' \in [Symbols -> Nat]
        /\ \A s \in Symbols : references'[s] <= references[s] + (IF s \in S THEN 1 ELSE 0)
        /\ threads' \subseteq ThreadRecords(feeds')
        /\ ProviderLimit'
    BY <1>1, <2>1, <2>2, Taken
  <2>4. PICK x \in CallRecords :
           /\ calls' = [calls EXCEPT ![k] = x]
           /\ x.at \in {"done", "subscribe"}
           /\ x.at = "subscribe" => st = "CONNECTED"
    BY <1>1, <2>1, <2>2, Taken
  <2>5. /\ calls' \in [Callers -> CallRecords] /\ CallsHaveFeed' /\ calls'[k] = x
        /\ \A j \in Callers : j # k => calls'[j] = calls[j]
    BY <1>1, <2>1, <2>4, OneCaller
  <2>6. feedState' \in FeedStates
    BY <2>1 DEF FeedInv, FeedTypeOK, FeedStates
  <2>7. FeedTypeOK'
    BY <1>1, <2>3, <2>5, <2>6 DEF FeedInv, FeedTypeOK, CallRecords, ThreadRecords
  <2> QED BY <2>3, <2>4, <2>5, <2>7 DEF FeedInv
<1>3. CASE feed = 0 /\ configured
  <2>1. /\ feedState' = "CONNECTING" /\ calls' = [calls EXCEPT ![k] = Connecting(S)]
        /\ UNCHANGED <<references, threads>>
    BY <1>3 DEF FeedSubscribe
  <2>2. /\ Connecting(S) \in CallRecords
        /\ Connecting(S).at = "connecting" /\ Connecting(S).ids = S
    BY RecordFacts
  <2>3. /\ calls' \in [Callers -> CallRecords] /\ CallsHaveFeed' /\ calls'[k] = Connecting(S)
        /\ \A j \in Callers : j # k => calls'[j] = calls[j]
    BY <1>1, <2>1, <2>2, OneCaller
  <2>4. FeedTypeOK'
    BY <1>1, <2>1, <2>3 DEF FeedInv, FeedTypeOK, CallRecords, FeedStates
  <2>5. ProviderLimit'
    BY <2>1 DEF FeedInv, ProviderLimit, Subscribed
  <2> QED BY <2>1, <2>2, <2>3, <2>4, <2>5 DEF FeedInv
<1> QED BY <1>2, <1>3 DEF FeedInv, FeedTypeOK

LEMMA ConnectKept ==
  ASSUME FeedInv, NEW k \in Callers, ConnectSucceeds(k) \/ ConnectFails(k)
  PROVE  /\ FeedInv'
         /\ calls[k].at = "connecting"
         /\ \A j \in Callers : j # k => calls'[j] = calls[j]
         /\ calls'[k].at # "connecting"
         /\ \A s \in Symbols :
               references'[s] <= references[s] + (IF s \in calls[k].ids THEN 1 ELSE 0)
<1> DEFINE S == calls[k].ids
<1>1. S \in SUBSET Symbols
  BY TypesUnfold DEF FeedInv, CallRecords
<1> HIDE DEF S
<1>2. PICK st \in {"CONNECTED", "FAILED"}, f \in Nat :
         /\ TakeReferences(k, S, st, f) /\ feedState' = st /\ feed' = f
         /\ st = "CONNECTED" => f \in 1..feeds'
         /\ feeds' \in 0..MaxFeeds /\ feeds <= feeds' /\ feed' \in 0..feeds'
         /\ feed # 0 => feed' # 0
         /\ UNCHANGED <<configured, reconnecting>>
  <2>1. feeds \in 0..MaxFeeds /\ feeds \in Nat /\ feed \in 0..feeds /\ MaxFeeds \in Nat
    BY TypesUnfold, FeedAssumption DEF FeedInv
  <2>2. CASE ConnectSucceeds(k)
    <3>1. /\ TakeReferences(k, S, "CONNECTED", feeds + 1) /\ feedState' = "CONNECTED"
          /\ feed' = feeds + 1 /\ feeds' = feeds + 1 /\ feeds < MaxFeeds
          /\ UNCHANGED <<configured, reconnecting>>
      BY <2>2 DEF ConnectSucceeds, S
    <3> QED BY <2>1, <3>1
  <2>3. CASE ConnectFails(k)
    <3>1. /\ TakeReferences(k, S, "FAILED", feed) /\ feedState' = "FAILED"
          /\ feed' = feed /\ feeds' = feeds
          /\ UNCHANGED <<configured, reconnecting>>
      BY <2>3 DEF ConnectFails, S
    <3> QED BY <2>1, <3>1
  <2> QED BY <2>2, <2>3
<1>3. feeds' \in Nat
  BY <1>2
<1>4. /\ references' \in [Symbols -> Nat]
      /\ \A s \in Symbols : references'[s] <= references[s] + (IF s \in S THEN 1 ELSE 0)
      /\ threads' \subseteq ThreadRecords(feeds')
      /\ ProviderLimit'
  BY <1>1, <1>2, <1>3, Taken
<1>5. PICK x \in CallRecords :
         /\ calls' = [calls EXCEPT ![k] = x]
         /\ x.at \in {"done", "subscribe"}
         /\ x.at = "subscribe" => st = "CONNECTED"
  BY <1>1, <1>2, <1>3, Taken
<1>6. /\ calls' \in [Callers -> CallRecords] /\ CallsHaveFeed' /\ calls'[k] = x
      /\ \A j \in Callers : j # k => calls'[j] = calls[j]
  <2>1. x.at \in {"subscribe", "unsubscribe"} => feed' # 0
    BY <1>2, <1>5
  <2> QED BY <1>2, <1>5, <2>1, OneCaller
<1>7. FeedTypeOK'
  BY <1>2, <1>4, <1>6 DEF FeedInv, FeedTypeOK, CallRecords, ThreadRecords, FeedStates
<1>8. calls[k].at = "connecting"
  BY DEF ConnectSucceeds, ConnectFails
<1> QED BY <1>4, <1>5, <1>6, <1>7, <1>8 DEF FeedInv, S

LEMMA FeedUnsubscribeKept ==
  ASSUME FeedInv, NEW k \in Callers, NEW S \in SUBSET Symbols, NEW left,
         left \subseteq ThreadRecords(feeds), FeedUnsubscribe(k, S, left)
  PROVE  /\ FeedInv'
         /\ \A j \in Callers : j # k => calls'[j] = calls[j]
         /\ calls'[k].at # "connecting"
         /\ \A s \in Symbols : s \notin S => references'[s] = references[s]
         /\ \A s \in S : references'[s] = 0 \/ references'[s] = references[s] - 1
<1>1. UNCHANGED <<configured, feedState, feed, feeds, reconnecting>>
  BY DEF FeedUnsubscribe, connectionVars
<1>2. /\ references' \in [Symbols -> Nat]
      /\ \A s \in Symbols : s \notin S => references'[s] = references[s]
      /\ \A s \in S : references'[s] = 0 \/ references'[s] = references[s] - 1
      /\ threads' \subseteq ThreadRecords(feeds')
      /\ ProviderLimit'
  BY Given
<1>3. PICK x \in CallRecords :
         /\ calls' = [calls EXCEPT ![k] = x]
         /\ x.at \in {"done", "unsubscribe"}
         /\ x.at = "unsubscribe" => feed # 0
  BY Given
<1>4. /\ calls' \in [Callers -> CallRecords] /\ CallsHaveFeed' /\ calls'[k] = x
      /\ \A j \in Callers : j # k => calls'[j] = calls[j]
  BY <1>1, <1>3, OneCaller
<1>5. FeedTypeOK'
  BY <1>1, <1>2, <1>4 DEF FeedInv, FeedTypeOK, CallRecords, ThreadRecords
<1> QED BY <1>2, <1>3, <1>4, <1>5 DEF FeedInv

\* The rest neither counts nor announces: callers resume and return, threads run,
\* reconnect() goes on.
NothingAnnounced ==
    /\ references' = references
    /\ \A j \in Callers : calls'[j].at = "connecting" => calls'[j] = calls[j]

LEMMA CallerReturnsKept ==
  ASSUME FeedInv, NEW k \in Callers, NEW left, left \subseteq ThreadRecords(feeds),
         threads' = left, \E x \in {Idle, Done, Raised} : calls' = [calls EXCEPT ![k] = x],
         UNCHANGED <<connectionVars, references, reconnecting>>
  PROVE  FeedInv' /\ NothingAnnounced
<1>1. UNCHANGED <<configured, feedState, feed, feeds, reconnecting, references>>
  BY DEF connectionVars
<1>2. PICK x \in {Idle, Done, Raised} : calls' = [calls EXCEPT ![k] = x]
  OBVIOUS
<1>3. x \in CallRecords /\ x.at \in {"idle", "done", "raised"}
  BY RecordFacts
<1>4. /\ calls' \in [Callers -> CallRecords] /\ CallsHaveFeed' /\ calls'[k] = x
      /\ \A j \in Callers : j # k => calls'[j] = calls[j]
  BY <1>1, <1>2, <1>3, OneCaller
<1>5. FeedTypeOK'
  BY <1>1, <1>4 DEF FeedInv, FeedTypeOK, CallRecords, ThreadRecords
<1>6. ProviderLimit'
  BY <1>1 DEF FeedInv, ProviderLimit, Subscribed
<1> QED BY <1>1, <1>3, <1>4, <1>5, <1>6 DEF FeedInv, NothingAnnounced

LEMMA NextCallKept ==
  ASSUME FeedInv, NEW k \in Callers, NextCall(k)
  PROVE  FeedInv' /\ NothingAnnounced
<1> DEFINE op == calls[k].at
           rows == calls[k].rows
           n == calls[k].n + 1
<1>1. calls \in [Callers -> CallRecords] /\ feeds \in Nat /\ feed \in 0..feeds
      /\ threads \subseteq ThreadRecords(feeds)
  BY TypesUnfold DEF FeedInv
<1>2. /\ op \in {"subscribe", "unsubscribe"} /\ calls[k].n < Len(Channels)
      /\ calls' = [calls EXCEPT ![k].n = n]
      /\ threads' = threads \union {SdkCall(k, op, feed, rows, n)}
      /\ UNCHANGED <<configured, feedState, feed, feeds, reconnecting, references>>
  BY <1>1 DEF NextCall, connectionVars
<1>3. n \in 1..Len(Channels) /\ rows \in SUBSET Instruments
  BY <1>1, <1>2, ChannelFacts DEF CallRecords
<1>4. feed \in 1..feeds
  BY <1>1, <1>2 DEF FeedInv, CallsHaveFeed
<1> HIDE DEF op, rows, n
<1>5. threads' \subseteq ThreadRecords(feeds')
  <2>1. SdkCall(k, op, feed, rows, n) \in ThreadRecords(feeds)
    BY <1>1, <1>2, <1>3, <1>4, ThreadFacts
  <2> QED BY <1>1, <1>2, <2>1
<1>6. DEFINE x == [calls[k] EXCEPT !.n = n]
<1>7. x \in CallRecords /\ x.at = op
  BY <1>1, <1>3 DEF CallRecords, op
<1>8. calls' = [calls EXCEPT ![k] = x]
  BY <1>1, <1>2
<1> HIDE DEF x
<1>9. /\ calls' \in [Callers -> CallRecords] /\ CallsHaveFeed' /\ calls'[k] = x
      /\ \A j \in Callers : j # k => calls'[j] = calls[j]
  <2>1. feed' = feed /\ feed # 0
    BY <1>1, <1>2, <1>4
  <2> QED BY <1>7, <1>8, <2>1, OneCaller
<1>10. FeedTypeOK'
  BY <1>2, <1>5, <1>9 DEF FeedInv, FeedTypeOK, CallRecords, ThreadRecords
<1>11. ProviderLimit'
  BY <1>2 DEF FeedInv, ProviderLimit, Subscribed
<1> QED BY <1>2, <1>7, <1>9, <1>10, <1>11 DEF FeedInv, NothingAnnounced

LEMMA SdkKept ==
  ASSUME FeedInv, NEW t \in threads, SdkRuns(t) \/ SdkRaises(t)
  PROVE  FeedInv' /\ NothingAnnounced
<1>1. threads \subseteq ThreadRecords(feeds) /\ t \in ThreadRecords(feeds)
  BY TypesUnfold DEF FeedInv
<1>2. threads' = threads \ {t} /\ threads' \subseteq ThreadRecords(feeds)
  BY <1>1 DEF SdkRuns, SdkRaises
<1>3. ASSUME SdkRuns(t) PROVE FeedInv' /\ NothingAnnounced
  <2>1. UNCHANGED <<configured, feedState, feed, feeds, reconnecting, references, calls>>
    BY <1>3 DEF SdkRuns, connectionVars
  <2>2. FeedTypeOK'
    BY <1>2, <2>1 DEF FeedInv, FeedTypeOK, ThreadRecords
  <2>3. CallsHaveFeed' /\ ProviderLimit'
    BY <2>1 DEF FeedInv, CallsHaveFeed, ProviderLimit, Subscribed
  <2> QED BY <2>1, <2>2, <2>3 DEF FeedInv, NothingAnnounced
<1>4. ASSUME SdkRaises(t) PROVE FeedInv' /\ NothingAnnounced
  <2>1. UNCHANGED <<configured, feedState, feed, feeds, reconnecting, references>>
    BY <1>4 DEF SdkRaises, connectionVars
  <2>2. CASE t.owner = NoCaller
    <3>1. calls' = calls
      BY <1>4, <2>2 DEF SdkRaises
    <3>2. FeedTypeOK'
      BY <1>2, <2>1, <3>1 DEF FeedInv, FeedTypeOK, ThreadRecords
    <3>3. CallsHaveFeed' /\ ProviderLimit'
      BY <2>1, <3>1 DEF FeedInv, CallsHaveFeed, ProviderLimit, Subscribed
    <3> QED BY <2>1, <3>1, <3>2, <3>3 DEF FeedInv, NothingAnnounced
  <2>3. CASE t.owner # NoCaller
    <3>1. t.owner \in Callers
      BY <1>1, <2>3 DEF ThreadRecords
    <3>2. \E x \in {Idle, Done, Raised} : calls' = [calls EXCEPT ![t.owner] = x]
      BY <1>4, <2>3 DEF SdkRaises
    <3> QED BY <1>2, <2>1, <3>1, <3>2, CallerReturnsKept DEF connectionVars
  <2> QED BY <2>2, <2>3
<1> QED BY <1>3, <1>4

LEMMA ReconnectKept ==
  ASSUME FeedInv, Reconnect
  PROVE  FeedInv' /\ NothingAnnounced
<1>1. UNCHANGED <<configured, references, calls, threads>>
  BY DEF Reconnect, ReconnectBegins, ReconnectSucceeds, ReconnectAttemptFails, ReconnectRetries
<1>2. /\ feeds' \in 0..MaxFeeds /\ feeds <= feeds' /\ feed' \in 0..feeds'
      /\ feed # 0 => feed' # 0
  BY TypesUnfold, FeedAssumption
     DEF FeedInv, Reconnect, ReconnectBegins, ReconnectSucceeds, ReconnectAttemptFails,
         ReconnectRetries
<1>3. feedState' \in FeedStates
  BY DEF FeedStates, Reconnect, ReconnectBegins, ReconnectSucceeds, ReconnectAttemptFails,
         ReconnectRetries
<1>4. reconnecting' \in [at : {"idle", "connecting", "sleeping"},
                         attempt : 0..MaxReconnectAttempts - 1, count : 0..MaxReconnects]
  <2>1. reconnecting \in [at : {"idle", "connecting", "sleeping"},
                          attempt : 0..MaxReconnectAttempts - 1, count : 0..MaxReconnects]
    BY DEF FeedInv, FeedTypeOK
  <2>2. MaxReconnectAttempts \in Nat \ {0} /\ MaxReconnects \in Nat
    BY FeedAssumption
  <2>3. CASE ReconnectBegins
    BY <2>1, <2>2, <2>3 DEF ReconnectBegins
  <2>4. CASE ReconnectSucceeds
    BY <2>1, <2>2, <2>4 DEF ReconnectSucceeds
  <2>5. CASE ReconnectAttemptFails
    <3>1. CASE LastAttempt
      BY <2>1, <2>5, <3>1 DEF ReconnectAttemptFails
    <3>2. CASE ~LastAttempt
      <4>1. reconnecting' = [reconnecting EXCEPT !.at = "sleeping",
                                                 !.attempt = reconnecting.attempt + 1]
        BY <2>5, <3>2 DEF ReconnectAttemptFails, NextAttempt
      <4>2. reconnecting' = [at |-> "sleeping", attempt |-> reconnecting.attempt + 1,
                             count |-> reconnecting.count]
        BY <2>1, <4>1
      <4>3. reconnecting.attempt + 1 \in 0..MaxReconnectAttempts - 1
        BY <2>1, <2>2, <3>2 DEF LastAttempt
      <4> QED BY <2>1, <4>2, <4>3
    <3> QED BY <3>1, <3>2
  <2>6. CASE ReconnectRetries
    BY <2>1, <2>2, <2>6 DEF ReconnectRetries
  <2> QED BY <2>3, <2>4, <2>5, <2>6 DEF Reconnect
<1>5. threads' \subseteq ThreadRecords(feeds')
  <2>1. threads \subseteq ThreadRecords(feeds) /\ feeds \in Nat /\ feeds' \in Nat
    BY <1>2, TypesUnfold, FeedAssumption DEF FeedInv
  <2> QED BY <1>1, <1>2, <2>1 DEF ThreadRecords
<1>6. FeedTypeOK'
  BY <1>1, <1>2, <1>3, <1>4, <1>5 DEF FeedInv, FeedTypeOK, ThreadRecords
<1>7. CallsHaveFeed' /\ ProviderLimit'
  BY <1>1, <1>2 DEF FeedInv, CallsHaveFeed, ProviderLimit, Subscribed
<1> QED BY <1>1, <1>6, <1>7 DEF FeedInv, NothingAnnounced

-----------------------------------------------------------------------------
(* References and holders.  H and K are the holders of a name before and      *)
(* after a step, A and B those inside connect(), r and q the references.      *)

LEMMA Smaller ==
  ASSUME NEW A, NEW B, IsFiniteSet(B), A \subseteq B
  PROVE  /\ IsFiniteSet(A) /\ Cardinality(A) \in Nat /\ Cardinality(B) \in Nat
         /\ Cardinality(A) <= Cardinality(B)
BY FS_Subset, FS_CardinalityType

\* Nothing counted, nobody left.
LEMMA CountedAsBefore ==
  ASSUME NEW A, NEW B, NEW H, NEW K, NEW r \in Nat, NEW q \in Nat,
         IsFiniteSet(A), IsFiniteSet(K), r + Cardinality(A) <= Cardinality(H),
         q <= r, B \subseteq A, H \subseteq K
  PROVE  q + Cardinality(B) <= Cardinality(K)
BY Smaller

\* A new holder is counted, or will be when its connect() returns.
LEMMA CountedOneMore ==
  ASSUME NEW A, NEW B, NEW H, NEW K, NEW r \in Nat, NEW q \in Nat, NEW k,
         IsFiniteSet(A), IsFiniteSet(H), r + Cardinality(A) <= Cardinality(H),
         k \notin H, K = H \union {k},
         \/ q <= r + 1 /\ B \subseteq A
         \/ q <= r /\ B \subseteq A \union {k}
  PROVE  q + Cardinality(B) <= Cardinality(K)
<1>1. Cardinality(K) = Cardinality(H) + 1 /\ Cardinality(H) \in Nat
  BY FS_AddElement, FS_CardinalityType
<1>2. CASE q <= r + 1 /\ B \subseteq A
  BY <1>1, <1>2, Smaller
<1>3. CASE q <= r /\ B \subseteq A \union {k}
  <2>1. /\ IsFiniteSet(A \union {k}) /\ Cardinality(A) \in Nat
        /\ Cardinality(A \union {k}) <= Cardinality(A) + 1
    <3>1. /\ IsFiniteSet(A \union {k})
          /\ Cardinality(A \union {k}) = IF k \in A THEN Cardinality(A) ELSE Cardinality(A) + 1
      BY FS_AddElement
    <3>2. Cardinality(A) \in Nat
      BY FS_CardinalityType
    <3> QED BY <3>1, <3>2
  <2>2. /\ Cardinality(B) <= Cardinality(A \union {k})
        /\ Cardinality(B) \in Nat /\ Cardinality(A \union {k}) \in Nat
    BY <1>3, <2>1, Smaller
  <2> QED BY <1>1, <1>3, <2>1, <2>2
<1> QED BY <1>2, <1>3

\* A caller leaves connect() and is counted.
LEMMA CountedAfterConnect ==
  ASSUME NEW A, NEW B, NEW H, NEW r \in Nat, NEW q \in Nat, NEW k \in A,
         IsFiniteSet(A), IsFiniteSet(H), r + Cardinality(A) <= Cardinality(H),
         q <= r + 1, B \subseteq A \ {k}
  PROVE  q + Cardinality(B) <= Cardinality(H)
<1>1. /\ IsFiniteSet(A \ {k}) /\ Cardinality(A \ {k}) = Cardinality(A) - 1
      /\ Cardinality(A) \in Nat /\ Cardinality(H) \in Nat
  BY FS_RemoveElement, FS_CardinalityType
<1>2. /\ Cardinality(B) <= Cardinality(A \ {k})
      /\ Cardinality(B) \in Nat /\ Cardinality(A \ {k}) \in Nat
  BY <1>1, Smaller
<1> QED BY <1>1, <1>2

\* A holder leaves and gives its reference back, or there was none.
LEMMA CountedOneLess ==
  ASSUME NEW A, NEW B, NEW H, NEW K, NEW r \in Nat, NEW q \in Nat, NEW k \in H,
         IsFiniteSet(A), IsFiniteSet(H), r + Cardinality(A) <= Cardinality(H),
         q = 0 \/ q = r - 1, B \subseteq A, B \subseteq K, K = H \ {k}
  PROVE  q + Cardinality(B) <= Cardinality(K)
<1>1. /\ IsFiniteSet(K) /\ Cardinality(K) = Cardinality(H) - 1
      /\ Cardinality(H) \in Nat
  BY FS_RemoveElement, FS_CardinalityType
<1>2. /\ Cardinality(B) <= Cardinality(K) /\ Cardinality(K) \in Nat
  BY <1>1, Smaller
<1>3. /\ Cardinality(B) <= Cardinality(A)
      /\ Cardinality(A) \in Nat /\ Cardinality(B) \in Nat
  BY Smaller
<1> QED BY <1>1, <1>2, <1>3

LEMMA AnnouncedFinite ==
  \A s \in Symbols : IsFiniteSet(Announced(s)) /\ IsFiniteSet(Holders(s))
<1>1. \A s \in Symbols : Announced(s) \subseteq Clients /\ Holders(s) \subseteq Clients
  BY DEF Announced, Holders
<1> QED BY <1>1, HubAssumption, FS_Subset

-----------------------------------------------------------------------------
(* The invariant. *)

LEMMA StreamInvInit == StreamInit => StreamInv
<1> SUFFICES ASSUME StreamInit PROVE StreamInv
  OBVIOUS
<1>1. HubInv
  BY HubInvInit DEF StreamInit
<1>2. calls = [k \in Callers |-> Idle] /\ references = [s \in Symbols |-> 0]
  BY DEF StreamInit, FeedInit
<1>3. \A k \in Callers : calls[k] \in CallRecords /\ calls[k].at = "idle"
  BY <1>2, RecordFacts
<1>4. FeedTypeOK
  <2>1. calls \in [Callers -> CallRecords]
    BY <1>2, RecordFacts
  <2> QED BY <2>1, FeedAssumption DEF StreamInit, FeedInit, FeedTypeOK, FeedStates, CallRecords
<1>5. CallsHaveFeed /\ AnnouncedIsHeld
  BY <1>3, StreamAssumption DEF CallsHaveFeed, AnnouncedIsHeld
<1>6. ProviderLimit
  <2>1. Subscribed = {}
    BY <1>2 DEF Subscribed
  <2> QED BY <2>1, FS_EmptySet, FeedAssumption DEF ProviderLimit
<1>7. NoPhantomReference
  <2> SUFFICES ASSUME NEW s \in Symbols
               PROVE  references[s] + Cardinality(Announced(s)) <= Cardinality(Holders(s))
    BY DEF NoPhantomReference
  <2>1. Announced(s) = {}
    BY <1>3, StreamAssumption DEF Announced
  <2>2. Cardinality(Holders(s)) \in Nat
    BY AnnouncedFinite, FS_CardinalityType
  <2> QED BY <1>2, <2>1, <2>2, FS_EmptySet
<1> QED BY <1>1, <1>4, <1>5, <1>6, <1>7 DEF StreamInv, FeedInv

LEMMA ReferencesAreNat ==
  FeedInv => \A s \in Symbols : references[s] \in Nat
BY DEF FeedInv, FeedTypeOK

\* A step that announces and counts nothing, while nobody lets a name go.
LEMMA QuietKeeps ==
  ASSUME StreamInv, FeedInv', NothingAnnounced,
         \A c \in Clients : subscriptions[c] \subseteq subscriptions'[c]
  PROVE  AnnouncedIsHeld' /\ NoPhantomReference'
<1>1. AnnouncedIsHeld'
  BY StreamAssumption DEF StreamInv, AnnouncedIsHeld, NothingAnnounced
<1>2. NoPhantomReference'
  <2> SUFFICES ASSUME NEW s \in Symbols
               PROVE  references'[s] + Cardinality(Announced(s)')
                        <= Cardinality(Holders(s)')
    BY DEF NoPhantomReference
  <2>1. Announced(s)' \subseteq Announced(s) /\ Holders(s) \subseteq Holders(s)'
    BY StreamAssumption DEF Announced, Holders, NothingAnnounced
  <2>2. IsFiniteSet(Announced(s)) /\ IsFiniteSet(Holders(s)')
    <3>1. Holders(s)' \subseteq Clients
      BY DEF Holders
    <3> QED BY <3>1, AnnouncedFinite, HubAssumption, FS_Subset
  <2>3. references[s] \in Nat /\ references'[s] = references[s]
    BY ReferencesAreNat DEF StreamInv, NothingAnnounced
  <2>4. references[s] + Cardinality(Announced(s)) <= Cardinality(Holders(s))
    BY DEF StreamInv, NoPhantomReference
  <2> HIDE DEF Announced, Holders
  <2>5. references[s] <= references[s]
    BY <2>3
  <2> QED BY <2>1, <2>2, <2>3, <2>4, <2>5, CountedAsBefore
<1> QED BY <1>1, <1>2

LEMMA SubscribeStep ==
  ASSUME StreamInv, NEW c \in Clients, NEW S \in SUBSET Symbols, ReceiveSubscribe(c, S)
  PROVE  FeedInv' /\ AnnouncedIsHeld' /\ NoPhantomReference'
<1> DEFINE added == Added(c, S)
<1>1. subscriptions \in [Clients -> SUBSET Symbols]
  BY DEF StreamInv, HubInv, HubTypes
<1>2. subscriptions' = [subscriptions EXCEPT ![c] = @ \union S]
  BY DEF ReceiveSubscribe, HubSubscribe
<1>3. added \in SUBSET Symbols /\ added \intersect subscriptions[c] = {}
  BY DEF Added
<1>4. /\ subscriptions'[c] = subscriptions[c] \union added
      /\ \A d \in Clients : d # c => subscriptions'[d] = subscriptions[d]
  BY <1>1, <1>2 DEF Added
<1>5. CASE added = {}
  <2>1. UNCHANGED feedVars
    BY <1>5 DEF ReceiveSubscribe
  <2>2. FeedInv' /\ NothingAnnounced
    BY <2>1 DEF StreamInv, FeedInv, FeedTypeOK, CallsHaveFeed, ProviderLimit, Subscribed,
                feedVars, connectionVars, NothingAnnounced
  <2>3. \A d \in Clients : subscriptions[d] \subseteq subscriptions'[d]
    BY <1>4
  <2> QED BY <2>2, <2>3, QuietKeeps
<1>6. CASE added # {}
  <2>1. FeedSubscribe(c, added) /\ calls[c].at = "idle"
    BY <1>6 DEF ReceiveSubscribe, FeedSubscribe
  <2> HIDE DEF added
  <2>2. /\ FeedInv'
        /\ \A j \in Clients : j # c => calls'[j] = calls[j]
        /\ \/ /\ calls'[c].at = "connecting" /\ calls'[c].ids = added
              /\ references' = references
           \/ /\ calls'[c].at # "connecting"
              /\ \A s \in Symbols :
                    references'[s] <= references[s] + (IF s \in added THEN 1 ELSE 0)
    BY <1>3, <2>1, StreamAssumption, FeedSubscribeKept DEF StreamInv
  <2>3. AnnouncedIsHeld'
    BY <1>4, <2>2 DEF StreamInv, AnnouncedIsHeld
  <2>4. ASSUME NEW s \in Symbols
        PROVE  references'[s] + Cardinality(Announced(s)') <= Cardinality(Holders(s)')
    <3>1. /\ references[s] \in Nat /\ references'[s] \in Nat
          /\ references[s] + Cardinality(Announced(s)) <= Cardinality(Holders(s))
      BY <2>2 DEF StreamInv, FeedInv, FeedTypeOK, NoPhantomReference
    <3>2. IsFiniteSet(Announced(s)) /\ IsFiniteSet(Holders(s))
      BY AnnouncedFinite
    <3>3. CASE s \notin added
      <4>1. Announced(s)' \subseteq Announced(s) /\ Holders(s)' = Holders(s)
        BY <1>4, <2>2, <3>3 DEF Announced, Holders
      <4>2. references'[s] <= references[s]
        BY <2>2, <3>1, <3>3
      <4> HIDE DEF Announced, Holders
      <4> QED BY <3>1, <3>2, <4>1, <4>2, CountedAsBefore
    <3>4. CASE s \in added
      <4>1. c \notin Holders(s) /\ Holders(s)' = Holders(s) \union {c}
        BY <1>3, <1>4, <3>4 DEF Holders
      <4>2. \/ references'[s] <= references[s] + 1 /\ Announced(s)' \subseteq Announced(s)
            \/ references'[s] <= references[s] /\ Announced(s)' \subseteq Announced(s) \union {c}
        BY <2>2, <3>1, <3>4 DEF Announced
      <4> HIDE DEF Announced, Holders
      <4> QED BY <3>1, <3>2, <4>1, <4>2, CountedOneMore
    <3> QED BY <3>3, <3>4
  <2> QED BY <2>2, <2>3, <2>4 DEF NoPhantomReference
<1> QED BY <1>5, <1>6

LEMMA ConnectStep ==
  ASSUME StreamInv, NEW c \in Clients, ConnectSucceeds(c) \/ ConnectFails(c),
         subscriptions' = subscriptions
  PROVE  FeedInv' /\ AnnouncedIsHeld' /\ NoPhantomReference'
<1>1. /\ FeedInv'
      /\ calls[c].at = "connecting"
      /\ \A j \in Clients : j # c => calls'[j] = calls[j]
      /\ calls'[c].at # "connecting"
      /\ \A s \in Symbols :
            references'[s] <= references[s] + (IF s \in calls[c].ids THEN 1 ELSE 0)
  BY StreamAssumption, ConnectKept DEF StreamInv
<1>2. AnnouncedIsHeld'
  BY <1>1 DEF StreamInv, AnnouncedIsHeld
<1>3. ASSUME NEW s \in Symbols
      PROVE  references'[s] + Cardinality(Announced(s)') <= Cardinality(Holders(s)')
  <2>1. /\ references[s] \in Nat /\ references'[s] \in Nat
        /\ references[s] + Cardinality(Announced(s)) <= Cardinality(Holders(s))
    BY <1>1 DEF StreamInv, FeedInv, FeedTypeOK, NoPhantomReference
  <2>2. IsFiniteSet(Announced(s)) /\ IsFiniteSet(Holders(s))
    BY AnnouncedFinite
  <2>3. Announced(s)' \subseteq Announced(s) \ {c} /\ Holders(s)' = Holders(s)
    BY <1>1 DEF Announced, Holders
  <2>4. CASE s \in calls[c].ids
    <3>1. c \in Announced(s) /\ references'[s] <= references[s] + 1
      BY <1>1, <2>4 DEF Announced
    <3> HIDE DEF Announced, Holders
    <3> QED BY <2>1, <2>2, <2>3, <3>1, CountedAfterConnect
  <2>5. CASE s \notin calls[c].ids
    <3>1. references'[s] <= references[s]
      BY <1>1, <2>1, <2>5
    <3> HIDE DEF Announced, Holders
    <3> QED BY <2>1, <2>2, <2>3, <3>1, CountedAsBefore
  <2> QED BY <2>4, <2>5
<1> QED BY <1>1, <1>2, <1>3 DEF NoPhantomReference

\* Names given back by a message, or by a socket that broke at whatever await.
LEMMA GiveBackStep ==
  ASSUME StreamInv, NEW c \in Clients, NEW R \in SUBSET Symbols, NEW left,
         R \subseteq subscriptions[c],
         subscriptions' = [subscriptions EXCEPT ![c] = @ \ R],
         left \subseteq ThreadRecords(feeds), FeedUnsubscribe(c, R, left)
  PROVE  FeedInv' /\ AnnouncedIsHeld' /\ NoPhantomReference'
<1>1. subscriptions \in [Clients -> SUBSET Symbols]
  BY DEF StreamInv, HubInv, HubTypes
<1>2. /\ subscriptions'[c] = subscriptions[c] \ R
      /\ \A d \in Clients : d # c => subscriptions'[d] = subscriptions[d]
  BY <1>1
<1>3. /\ FeedInv'
      /\ \A j \in Clients : j # c => calls'[j] = calls[j]
      /\ calls'[c].at # "connecting"
      /\ \A s \in Symbols : s \notin R => references'[s] = references[s]
      /\ \A s \in R : references'[s] = 0 \/ references'[s] = references[s] - 1
  BY StreamAssumption, FeedUnsubscribeKept DEF StreamInv
<1>4. AnnouncedIsHeld'
  BY <1>2, <1>3 DEF StreamInv, AnnouncedIsHeld
<1>5. ASSUME NEW s \in Symbols
      PROVE  references'[s] + Cardinality(Announced(s)') <= Cardinality(Holders(s)')
  <2>1. /\ references[s] \in Nat /\ references'[s] \in Nat
        /\ references[s] + Cardinality(Announced(s)) <= Cardinality(Holders(s))
    BY <1>3 DEF StreamInv, FeedInv, FeedTypeOK, NoPhantomReference
  <2>2. IsFiniteSet(Announced(s)) /\ IsFiniteSet(Holders(s))
    BY AnnouncedFinite
  <2>3. Announced(s)' \subseteq Announced(s) /\ Announced(s)' \subseteq Holders(s)'
    BY <1>3, <1>4 DEF Announced, Holders, AnnouncedIsHeld
  <2>4. CASE s \notin R
    <3>1. Holders(s)' = Holders(s) /\ references'[s] <= references[s]
      BY <1>2, <1>3, <2>1, <2>4 DEF Holders
    <3> HIDE DEF Announced, Holders
    <3> QED BY <2>1, <2>2, <2>3, <3>1, CountedAsBefore
  <2>5. CASE s \in R
    <3>1. c \in Holders(s) /\ Holders(s)' = Holders(s) \ {c}
      BY <1>2, <2>5 DEF Holders
    <3>2. references'[s] = 0 \/ references'[s] = references[s] - 1
      BY <1>3, <2>5
    <3> HIDE DEF Announced, Holders
    <3> QED BY <2>1, <2>2, <2>3, <3>1, <3>2, CountedOneLess
  <2> QED BY <2>4, <2>5
<1> QED BY <1>3, <1>4, <1>5 DEF NoPhantomReference

LEMMA DisconnectStep ==
  ASSUME StreamInv, NEW c \in Clients, Disconnect(c)
  PROVE  FeedInv' /\ AnnouncedIsHeld' /\ NoPhantomReference'
<1>1. subscriptions \in [Clients -> SUBSET Symbols]
  BY DEF StreamInv, HubInv, HubTypes
<1>2. subscriptions' = [subscriptions EXCEPT ![c] = {}]
  BY DEF Disconnect, HubUnregister
<1>3. PICK left \in AfterCancel(c) :
         \/ /\ subscriptions[c] = {}
            /\ threads' = left
            /\ calls' = [calls EXCEPT ![c] = Idle]
            /\ UNCHANGED <<connectionVars, references, reconnecting>>
         \/ FeedUnsubscribe(c, subscriptions[c], left)
  BY DEF Disconnect
<1>4. left \subseteq ThreadRecords(feeds)
  BY StreamAssumption, CancelledThreads DEF StreamInv, FeedInv
<1>5. CASE /\ subscriptions[c] = {} /\ threads' = left
           /\ calls' = [calls EXCEPT ![c] = Idle]
           /\ UNCHANGED <<connectionVars, references, reconnecting>>
  <2>1. FeedInv' /\ NothingAnnounced
    BY <1>4, <1>5, StreamAssumption, CallerReturnsKept DEF StreamInv
  <2>2. \A d \in Clients : subscriptions[d] \subseteq subscriptions'[d]
    BY <1>1, <1>2, <1>5
  <2> QED BY <2>1, <2>2, QuietKeeps
<1>6. CASE FeedUnsubscribe(c, subscriptions[c], left)
  <2>1. subscriptions' = [subscriptions EXCEPT ![c] = @ \ subscriptions[c]]
    BY <1>1, <1>2
  <2>2. subscriptions[c] \in SUBSET Symbols
    BY <1>1
  <2> QED BY <1>4, <1>6, <2>1, <2>2, GiveBackStep
<1> QED BY <1>3, <1>5, <1>6

LEMMA UnsubscribeStep ==
  ASSUME StreamInv, NEW c \in Clients, NEW S \in SUBSET Symbols, ReceiveUnsubscribe(c, S)
  PROVE  FeedInv' /\ AnnouncedIsHeld' /\ NoPhantomReference'
<1> DEFINE removed == S \intersect subscriptions[c]
<1>1. subscriptions \in [Clients -> SUBSET Symbols]
  BY DEF StreamInv, HubInv, HubTypes
<1>2. subscriptions' = [subscriptions EXCEPT ![c] = @ \ removed]
  <2>1. subscriptions' = [subscriptions EXCEPT ![c] = @ \ S]
    BY DEF ReceiveUnsubscribe, HubUnsubscribe
  <2>2. subscriptions[c] \ S = subscriptions[c] \ removed
    OBVIOUS
  <2> QED BY <1>1, <2>1, <2>2
<1>3. removed \in SUBSET Symbols /\ removed \subseteq subscriptions[c]
  OBVIOUS
<1>4. IF removed = {} THEN UNCHANGED feedVars ELSE FeedUnsubscribe(c, removed, threads)
  BY DEF ReceiveUnsubscribe
<1> HIDE DEF removed
<1>5. CASE removed = {}
  <2>1. FeedInv' /\ NothingAnnounced
    BY <1>4, <1>5 DEF StreamInv, FeedInv, FeedTypeOK, CallsHaveFeed, ProviderLimit, Subscribed,
                feedVars, connectionVars, NothingAnnounced
  <2>2. \A d \in Clients : subscriptions[d] \subseteq subscriptions'[d]
    BY <1>1, <1>2, <1>5
  <2> QED BY <2>1, <2>2, QuietKeeps
<1>6. CASE removed # {}
  <2>1. threads \subseteq ThreadRecords(feeds)
    BY TypesUnfold DEF StreamInv, FeedInv
  <2> QED BY <1>2, <1>3, <1>4, <1>6, <2>1, GiveBackStep
<1> QED BY <1>5, <1>6

LEMMA OpenStep ==
  ASSUME StreamInv, NEW c \in Clients, Open(c)
  PROVE  FeedInv' /\ AnnouncedIsHeld' /\ NoPhantomReference'
<1>1. subscriptions' = subscriptions
  BY DEF Open, Register, StreamInv, HubInv, HubTypes, GoneIsEmpty
<1>2. UNCHANGED feedVars
  BY DEF Open
<1>3. FeedInv' /\ NothingAnnounced
  BY <1>2 DEF StreamInv, FeedInv, FeedTypeOK, CallsHaveFeed, ProviderLimit, Subscribed,
              feedVars, connectionVars, NothingAnnounced
<1> QED BY <1>1, <1>3, QuietKeeps

LEMMA ReturnStep ==
  ASSUME StreamInv, NEW c \in Clients, Reply(c) \/ Closed(c)
  PROVE  FeedInv' /\ AnnouncedIsHeld' /\ NoPhantomReference'
<1>1. threads \subseteq ThreadRecords(feeds)
  BY TypesUnfold DEF StreamInv, FeedInv
<1>2. /\ threads' = threads
      /\ calls' = [calls EXCEPT ![c] = Idle]
      /\ UNCHANGED <<connectionVars, references, reconnecting>>
      /\ subscriptions' = subscriptions
  BY DEF Reply, Closed, hubVars, subscriptionVars
<1>3. FeedInv' /\ NothingAnnounced
  BY <1>1, <1>2, StreamAssumption, CallerReturnsKept DEF StreamInv
<1> QED BY <1>2, <1>3, QuietKeeps

LEMMA FeedOnlyStep ==
  ASSUME StreamInv, FeedStep
  PROVE  FeedInv' /\ AnnouncedIsHeld' /\ NoPhantomReference'
<1>1. subscriptions' = subscriptions
  BY DEF FeedStep, hubVars, subscriptionVars
<1>2. ASSUME NEW c \in Clients, ConnectSucceeds(c) \/ ConnectFails(c)
      PROVE  FeedInv' /\ AnnouncedIsHeld' /\ NoPhantomReference'
  BY <1>1, <1>2, ConnectStep
<1>3. ASSUME NEW c \in Clients, NextCall(c) PROVE FeedInv' /\ NothingAnnounced
  BY <1>3, StreamAssumption, NextCallKept DEF StreamInv
<1>4. ASSUME NEW c \in Clients, LastCall(c) PROVE FeedInv' /\ NothingAnnounced
  <2>1. threads \subseteq ThreadRecords(feeds)
    BY TypesUnfold DEF StreamInv, FeedInv
  <2>2. /\ threads' = threads
        /\ calls' = [calls EXCEPT ![c] = Done]
        /\ UNCHANGED <<connectionVars, references, reconnecting>>
    BY <1>4 DEF LastCall
  <2> QED BY <2>1, <2>2, StreamAssumption, CallerReturnsKept DEF StreamInv
<1>5. ASSUME NEW t \in threads, SdkRuns(t) \/ SdkRaises(t) PROVE FeedInv' /\ NothingAnnounced
  BY <1>5, SdkKept DEF StreamInv
<1>6. ASSUME Reconnect PROVE FeedInv' /\ NothingAnnounced
  BY <1>6, ReconnectKept DEF StreamInv
<1>7. ASSUME FeedInv', NothingAnnounced PROVE AnnouncedIsHeld' /\ NoPhantomReference'
  BY <1>1, <1>7, QuietKeeps
<1> QED BY <1>2, <1>3, <1>4, <1>5, <1>6, <1>7 DEF FeedStep

LEMMA StreamInvStep == StreamInv /\ [StreamNext]_streamVars => StreamInv'
<1> SUFFICES ASSUME StreamInv, [StreamNext]_streamVars PROVE StreamInv'
  OBVIOUS
<1>1. HubInv'
  BY StreamStepIsHubStep, HubInvStep DEF StreamInv
<1>2. CASE StreamNext
  <2>1. FeedInv' /\ AnnouncedIsHeld' /\ NoPhantomReference'
    BY <1>2, OpenStep, ReturnStep, DisconnectStep, SubscribeStep, UnsubscribeStep, FeedOnlyStep
       DEF StreamNext
  <2> QED BY <1>1, <2>1 DEF StreamInv
<1>3. CASE UNCHANGED streamVars
  <2>1. UNCHANGED <<feedVars, subscriptions>>
    BY <1>3 DEF streamVars, hubVars, subscriptionVars
  <2>2. FeedInv' /\ NothingAnnounced
    BY <2>1 DEF StreamInv, FeedInv, FeedTypeOK, CallsHaveFeed, ProviderLimit, Subscribed,
                feedVars, connectionVars, NothingAnnounced
  <2> QED BY <1>1, <2>1, <2>2, QuietKeeps DEF StreamInv
<1> QED BY <1>2, <1>3

LEMMA StreamInvariant == StreamSafetySpec => []StreamInv
BY StreamInvInit, StreamInvStep, PTL DEF StreamSafetySpec

-----------------------------------------------------------------------------
(* Theorems. *)

\* The hub's and the feed's variables keep their types and bounds: no browser
\* exceeds its cap, and every SDK call in flight goes to a connection that exists.
THEOREM StreamTypeCorrect == StreamSafetySpec => []StreamTypeOK
<1>1. StreamInv => StreamTypeOK
  BY HubAssumption DEF StreamInv, HubInv, HubTypes, WithinBounds, HubTypeOK, FeedInv, StreamTypeOK
<1> QED BY <1>1, StreamInvariant, PTL

\* However many browsers subscribe while a connection is being built, the provider
\* is never asked for more names than MAX_PROVIDER_SUBSCRIPTIONS (feed.py:81-92).
THEOREM ProviderLimitHolds == StreamSafetySpec => []ProviderLimit
<1>1. StreamInv => ProviderLimit
  BY DEF StreamInv, FeedInv
<1> QED BY <1>1, StreamInvariant, PTL

\* At every moment, whichever await a socket breaks at and whatever the SDK raises,
\* each reference of the feed has a connected browser behind it.
THEOREM NoReferenceIsPhantom == StreamSafetySpec => []NoPhantomReference
<1>1. StreamInv => NoPhantomReference
  BY DEF StreamInv
<1> QED BY <1>1, StreamInvariant, PTL
=============================================================================
