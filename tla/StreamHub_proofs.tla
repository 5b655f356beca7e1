-------------------------- MODULE StreamHub_proofs --------------------------
(***************************************************************************)
(* The stream hub counts interest exactly, and what a browser receives is  *)
(* in order and ends with the newest tick: for any number of browsers,     *)
(* names and ticks and any queue size.                                     *)
(*                                                                         *)
(* InterestCounted needs no strengthening but that a client that is not    *)
(* connected holds nothing.  DeliveredInOrder and NewestKept need what a   *)
(* queue looks like: ascending, newer than all that was sent, and ending   *)
(* with the newest tick published for its client.                          *)
(***************************************************************************)
EXTENDS StreamHub, FiniteSetTheorems, SequenceTheorems, TLAPS

\* A client that is not connected holds no name, has no queue and no message.
GoneIsEmpty ==
    \A c \in Clients : c \notin clients => subscriptions[c] = {} /\ queues[c] = <<>> /\ sending[c] = 0

\* The types of the variables, without the bounds of HubTypeOK.
HubTypes ==
    /\ clients \in SUBSET Clients
    /\ subscriptions \in [Clients -> SUBSET Symbols]
    /\ hubReferences \in [Symbols -> Nat]
    /\ queues \in [Clients -> Seq(1..MaxTicks)]
    /\ sending \in [Clients -> 0..MaxTicks]
    /\ published \in 0..MaxTicks
    /\ lastMatched \in [Clients -> 0..MaxTicks]
    /\ delivered \in [Clients -> 0..MaxTicks]

\* A queue ascends ...
Ascending ==
    \A c \in Clients : \A m, n \in 1..Len(queues[c]) : m < n => queues[c][m] < queues[c][n]

\* ... from beyond what was taken and sent to at most the last tick published.
BeyondSent ==
    /\ \A c \in Clients : \A n \in 1..Len(queues[c]) :
          /\ sending[c] < queues[c][n] /\ delivered[c] < queues[c][n]
          /\ queues[c][n] <= published
    /\ \A c \in Clients : sending[c] # 0 => delivered[c] < sending[c]
    /\ \A c \in Clients : sending[c] <= published /\ delivered[c] <= published

\* The last outstanding message is the newest tick published for its client.
EndsWithNewest ==
    \A c \in clients :
        lastMatched[c] = IF queues[c] # <<>> THEN queues[c][Len(queues[c])]
                         ELSE IF sending[c] # 0 THEN sending[c] ELSE delivered[c]

\* The bounds of HubTypeOK.
WithinBounds ==
    /\ \A c \in Clients : Len(queues[c]) <= MaxQueue
    /\ \A c \in Clients : Cardinality(subscriptions[c]) <= MaxClientSubscriptions

HubInv ==
    /\ HubTypes
    /\ WithinBounds
    /\ GoneIsEmpty
    /\ InterestCounted
    /\ Ascending
    /\ BeyondSent
    /\ EndsWithNewest

-----------------------------------------------------------------------------
(* Facts about the hub's operators. *)

LEMMA FiniteNames ==
  ASSUME NEW S \in SUBSET Symbols
  PROVE  IsFiniteSet(S)
BY NamesAssumption, FS_Subset

LEMMA FiniteHolders ==
  ASSUME NEW s \in Symbols
  PROVE  IsFiniteSet(Holders(s)) /\ Cardinality(Holders(s)) \in Nat
BY HubAssumption, FS_Subset, FS_CardinalityType DEF Holders

\* Enqueue keeps a queue within its bound and puts the new tick last; the ticks
\* before it are those of the queue, without the first one if it was full.
LEMMA EnqueueQueue ==
  ASSUME NEW q \in Seq(1..MaxTicks), NEW t \in 1..MaxTicks, Len(q) <= MaxQueue
  PROVE  /\ Enqueue(q, t) \in Seq(1..MaxTicks)
         /\ Len(Enqueue(q, t)) \in 1..MaxQueue
         /\ Enqueue(q, t) # <<>>
         /\ Enqueue(q, t)[Len(Enqueue(q, t))] = t
         /\ \A n \in 1..(Len(Enqueue(q, t)) - 1) :
               Enqueue(q, t)[n] = IF Len(q) >= MaxQueue THEN q[n + 1] ELSE q[n]
         /\ Len(Enqueue(q, t)) = IF Len(q) >= MaxQueue THEN Len(q) ELSE Len(q) + 1
<1>1. CASE Len(q) >= MaxQueue
  <2>1. q # <<>> /\ Len(q) \in Nat
    BY <1>1, HubAssumption
  <2>2. /\ Tail(q) \in Seq(1..MaxTicks) /\ Len(Tail(q)) = Len(q) - 1
        /\ \A n \in 1..Len(Tail(q)) : Tail(q)[n] = q[n + 1]
    BY <2>1, HeadTailProperties
  <2> DEFINE rest == Tail(q)
  <2>3. /\ Append(rest, t) \in Seq(1..MaxTicks) /\ Append(rest, t) # <<>>
        /\ Len(Append(rest, t)) = Len(rest) + 1
        /\ Append(rest, t)[Len(rest) + 1] = t
        /\ \A n \in 1..Len(rest) : Append(rest, t)[n] = rest[n]
    <3>1. rest \in Seq(1..MaxTicks)
      BY <2>2
    <3> HIDE DEF rest
    <3> QED BY <3>1, AppendProperties
  <2>4. Enqueue(q, t) = Append(rest, t)
    BY <1>1 DEF Enqueue
  <2> QED BY <1>1, <2>1, <2>2, <2>3, <2>4, HubAssumption
<1>2. CASE ~(Len(q) >= MaxQueue)
  <2>1. Len(q) \in Nat /\ Enqueue(q, t) = Append(q, t)
    BY <1>2 DEF Enqueue
  <2>2. /\ Append(q, t) \in Seq(1..MaxTicks) /\ Append(q, t) # <<>>
        /\ Len(Append(q, t)) = Len(q) + 1
        /\ Append(q, t)[Len(q) + 1] = t
        /\ \A n \in 1..Len(q) : Append(q, t)[n] = q[n]
    BY AppendProperties
  <2> QED BY <1>2, <2>1, <2>2, HubAssumption
<1> QED BY <1>1, <1>2

\* One holder more: the count of every name that c adds grows by one.
LEMMA SubscribeCounts ==
  ASSUME HubTypes, InterestCounted, NEW c \in Clients, NEW S \in SUBSET Symbols,
         HubSubscribe(c, S)
  PROVE  InterestCounted'
<1> SUFFICES ASSUME NEW s \in Symbols
             PROVE  hubReferences'[s] = Cardinality(Holders(s)')
  BY DEF InterestCounted
<1>1. Holders(s)' = IF s \in Added(c, S) THEN Holders(s) \union {c} ELSE Holders(s)
  BY DEF HubSubscribe, Holders, Added, HubTypes
<1>2. s \in Added(c, S) => c \notin Holders(s)
  BY DEF Added, Holders
<1>3. hubReferences'[s] = hubReferences[s] + (IF s \in Added(c, S) THEN 1 ELSE 0)
  BY DEF HubSubscribe, CountUp
<1>4. Cardinality(Holders(s) \union {c}) =
        IF c \in Holders(s) THEN Cardinality(Holders(s)) ELSE Cardinality(Holders(s)) + 1
  BY FiniteHolders, FS_AddElement
<1> QED BY <1>1, <1>2, <1>3, <1>4, FiniteHolders DEF InterestCounted

\* One holder less: the count of every name that c held and gives up falls by one.
LEMMA UnsubscribeCounts ==
  ASSUME HubTypes, InterestCounted, NEW c \in Clients, NEW S,
         hubReferences' = CountDown(S \intersect subscriptions[c]),
         subscriptions' = [subscriptions EXCEPT ![c] = @ \ S]
  PROVE  InterestCounted'
<1> SUFFICES ASSUME NEW s \in Symbols
             PROVE  hubReferences'[s] = Cardinality(Holders(s)')
  BY DEF InterestCounted
<1>1. Holders(s)' = IF s \in S THEN Holders(s) \ {c} ELSE Holders(s)
  BY DEF Holders, HubTypes
<1>2. Cardinality(Holders(s) \ {c}) =
        IF c \in Holders(s) THEN Cardinality(Holders(s)) - 1 ELSE Cardinality(Holders(s))
  BY FiniteHolders, FS_RemoveElement
<1>3. c \in Holders(s) => hubReferences[s] > 0
  BY FiniteHolders, FS_EmptySet DEF InterestCounted
<1>4. hubReferences[s] = Cardinality(Holders(s)) /\ hubReferences[s] \in Nat
  BY DEF InterestCounted, HubTypes
<1>5. s \in subscriptions[c] <=> c \in Holders(s)
  BY DEF Holders
<1>6. hubReferences'[s] = IF s \in S /\ c \in Holders(s) THEN hubReferences[s] - 1
                          ELSE hubReferences[s]
  BY <1>3, <1>4, <1>5 DEF CountDown
<1> QED BY <1>1, <1>2, <1>4, <1>6

-----------------------------------------------------------------------------
(* The inductive invariant, one lemma per action. *)

LEMMA HubInvInit == HubInit => HubInv
<1> SUFFICES ASSUME HubInit PROVE HubInv
  OBVIOUS
<1>1. HubTypes /\ GoneIsEmpty
  BY HubAssumption DEF HubInit, HubTypes, GoneIsEmpty
<1>2. \A c \in Clients : Len(queues[c]) = 0
  BY DEF HubInit
<1>3. WithinBounds
  BY <1>2, HubAssumption, FS_EmptySet DEF HubInit, WithinBounds
<1>4. InterestCounted
  <2>1. \A s \in Symbols : Holders(s) = {}
    BY DEF HubInit, Holders
  <2> QED BY <2>1, FS_EmptySet DEF HubInit, InterestCounted
<1>5. Ascending /\ BeyondSent /\ EndsWithNewest
  BY <1>2 DEF HubInit, Ascending, BeyondSent, EndsWithNewest
<1> QED BY <1>1, <1>3, <1>4, <1>5 DEF HubInv

LEMMA RegisterKeeps ==
  ASSUME HubInv, NEW c \in Clients, Register(c)
  PROVE  HubInv'
<1> USE DEF Register, HubInv
<1>1. HubTypes' /\ GoneIsEmpty'
  BY HubAssumption DEF HubTypes, GoneIsEmpty
<1>2. subscriptions' = subscriptions
  BY DEF HubTypes, GoneIsEmpty
<1>3. queues'[c] = <<>> /\ Len(queues'[c]) = 0 /\ \A d \in Clients : d # c => queues'[d] = queues[d]
  BY DEF HubTypes
<1>4. WithinBounds'
  <2>1. \A d \in Clients : Len(queues'[d]) <= MaxQueue
    BY <1>3, HubAssumption DEF WithinBounds
  <2>2. \A d \in Clients : Cardinality(subscriptions'[d]) <= MaxClientSubscriptions
    BY <1>2 DEF WithinBounds
  <2> QED BY <2>1, <2>2 DEF WithinBounds
<1>5. InterestCounted'
  BY <1>2 DEF InterestCounted, Holders
<1>6. Ascending'
  BY <1>3 DEF HubTypes, Ascending
<1>7. BeyondSent'
  BY <1>3 DEF HubTypes, BeyondSent
<1>8. EndsWithNewest'
  BY <1>3 DEF HubTypes, EndsWithNewest
<1> QED BY <1>1, <1>4, <1>5, <1>6, <1>7, <1>8

LEMMA UnregisterKeeps ==
  ASSUME HubInv, NEW c \in Clients, HubUnregister(c)
  PROVE  HubInv'
<1> USE DEF HubUnregister, HubInv
<1>1. HubTypes'
  BY HubAssumption DEF HubTypes, CountDown
<1>2. GoneIsEmpty'
  BY DEF HubTypes, GoneIsEmpty
<1>3. queues'[c] = <<>> /\ Len(queues'[c]) = 0 /\ \A d \in Clients : d # c => queues'[d] = queues[d]
  BY DEF HubTypes
<1>4. WithinBounds'
  <2>1. subscriptions'[c] = {} /\ Cardinality({}) = 0
    BY FS_EmptySet DEF HubTypes
  <2>2. \A d \in Clients : d # c => subscriptions'[d] = subscriptions[d]
    BY DEF HubTypes
  <2>3. \A d \in Clients : Cardinality(subscriptions'[d]) <= MaxClientSubscriptions
    BY <2>1, <2>2, HubAssumption DEF WithinBounds
  <2>4. \A d \in Clients : Len(queues'[d]) <= MaxQueue
    BY <1>3, HubAssumption DEF WithinBounds
  <2> QED BY <2>3, <2>4 DEF WithinBounds
<1>5. InterestCounted'
  <2>1. hubReferences' = CountDown(subscriptions[c] \intersect subscriptions[c])
    BY DEF HubTypes
  <2>2. subscriptions' = [subscriptions EXCEPT ![c] = @ \ subscriptions[c]]
    BY DEF HubTypes
  <2> QED BY <2>1, <2>2, UnsubscribeCounts
<1>6. Ascending'
  BY <1>3 DEF HubTypes, Ascending
<1>7. BeyondSent'
  BY <1>3 DEF HubTypes, BeyondSent
<1>8. EndsWithNewest'
  BY <1>3 DEF HubTypes, EndsWithNewest
<1> QED BY <1>1, <1>2, <1>4, <1>5, <1>6, <1>7, <1>8

LEMMA SubscribeKeeps ==
  ASSUME HubInv, NEW c \in Clients, NEW S \in SUBSET Symbols, Subscribe(c, S)
  PROVE  HubInv'
<1> USE DEF Subscribe, HubSubscribe, deliveryVars, HubInv
<1>1. HubTypes' /\ GoneIsEmpty'
  BY DEF HubTypes, GoneIsEmpty, CountUp
<1>2. WithinBounds'
  BY DEF HubTypes, WithinBounds, WithinClientCap
<1>3. InterestCounted'
  BY SubscribeCounts
<1>4. Ascending' /\ BeyondSent' /\ EndsWithNewest'
  BY DEF Ascending, BeyondSent, EndsWithNewest
<1> QED BY <1>1, <1>2, <1>3, <1>4

LEMMA UnsubscribeKeeps ==
  ASSUME HubInv, NEW c \in Clients, NEW S \in SUBSET Symbols, Unsubscribe(c, S)
  PROVE  HubInv'
<1> USE DEF Unsubscribe, HubUnsubscribe, deliveryVars, HubInv
<1>1. HubTypes' /\ GoneIsEmpty'
  BY DEF HubTypes, GoneIsEmpty, CountDown
<1>2. WithinBounds'
  <2>1. Cardinality(subscriptions[c] \ S) <= Cardinality(subscriptions[c])
        /\ Cardinality(subscriptions[c] \ S) \in Nat /\ Cardinality(subscriptions[c]) \in Nat
    BY FiniteNames, FS_Subset, FS_CardinalityType DEF HubTypes
  <2> QED BY <2>1, HubAssumption DEF HubTypes, WithinBounds
<1>3. InterestCounted'
  BY UnsubscribeCounts
<1>4. Ascending' /\ BeyondSent' /\ EndsWithNewest'
  BY DEF Ascending, BeyondSent, EndsWithNewest
<1> QED BY <1>1, <1>2, <1>3, <1>4

LEMMA TakeNextKeeps ==
  ASSUME HubInv, NEW c \in Clients, TakeNext(c)
  PROVE  HubInv'
<1> USE DEF TakeNext, subscriptionVars, HubInv
<1> DEFINE q == queues[c]
<1>1. /\ q \in Seq(1..MaxTicks) /\ Len(q) \in Nat \ {0}
      /\ Head(q) = q[1] /\ Head(q) \in 1..MaxTicks
      /\ Tail(q) \in Seq(1..MaxTicks) /\ Len(Tail(q)) = Len(q) - 1
      /\ \A n \in 1..Len(Tail(q)) : Tail(q)[n] = q[n + 1]
  <2>1. q \in Seq(1..MaxTicks) /\ q # <<>>
    BY DEF HubTypes
  <2> HIDE DEF q
  <2>2. Len(q) \in Nat \ {0}
    BY <2>1, EmptySeq
  <2>3. q[1] \in 1..MaxTicks
    <3>1. 1 \in 1..Len(q)
      BY <2>2
    <3> QED BY <2>1, <3>1, ElementOfSeq
  <2> QED BY <2>1, <2>2, <2>3, HeadTailProperties
<1>2. queues'[c] = Tail(q) /\ \A d \in Clients : d # c => queues'[d] = queues[d]
  BY DEF HubTypes
<1>3. sending'[c] = q[1] /\ \A d \in Clients : d # c => sending'[d] = sending[d]
  BY <1>1 DEF HubTypes
<1>4. Tail(q) = <<>> <=> Len(q) = 1
  <2> DEFINE rest == Tail(q)
  <2>1. rest \in Seq(1..MaxTicks) /\ Len(rest) = Len(q) - 1
    BY <1>1
  <2>2. rest = <<>> <=> Len(rest) = 0
    <3> HIDE DEF rest
    <3> QED BY <2>1, EmptySeq
  <2> QED BY <1>1, <2>1, <2>2
<1> HIDE DEF q
<1>5. HubTypes'
  <2>1. q \in Seq(1..MaxTicks) /\ queues' = [queues EXCEPT ![c] = Tail(q)]
    BY <1>1 DEF q
  <2>2. sending' = [sending EXCEPT ![c] = Head(q)]
    BY DEF q
  <2> QED BY <1>1, <2>1, <2>2 DEF HubTypes
<1>6. WithinBounds'
  <2>1. \A d \in Clients : Len(queues'[d]) <= MaxQueue
    BY <1>1, <1>2, HubAssumption DEF WithinBounds, q
  <2> QED BY <2>1 DEF WithinBounds
<1>7. GoneIsEmpty'
  BY <1>2, <1>3 DEF GoneIsEmpty
<1>8. InterestCounted'
  BY DEF InterestCounted, Holders
<1>9. Ascending'
  <2>1. \A m, n \in 1..Len(Tail(q)) : m < n => Tail(q)[m] < Tail(q)[n]
    BY <1>1 DEF Ascending, q
  <2> QED BY <1>2, <2>1 DEF Ascending
<1>10. BeyondSent'
  <2>1. \A n \in 1..Len(Tail(q)) :
           q[1] < Tail(q)[n] /\ delivered[c] < Tail(q)[n] /\ Tail(q)[n] <= published
    BY <1>1 DEF Ascending, BeyondSent, q
  <2>2. q[1] <= published /\ delivered[c] < q[1]
    BY <1>1 DEF BeyondSent, q
  <2>3. \A d \in Clients : \A n \in 1..Len(queues'[d]) :
          sending'[d] < queues'[d][n] /\ delivered[d] < queues'[d][n] /\ queues'[d][n] <= published
    BY <1>2, <1>3, <2>1 DEF BeyondSent
  <2>4. \A d \in Clients : sending'[d] # 0 => delivered[d] < sending'[d]
    BY <1>3, <2>2 DEF BeyondSent
  <2>5. \A d \in Clients : sending'[d] <= published /\ delivered[d] <= published
    BY <1>3, <2>2 DEF BeyondSent
  <2> QED BY <2>3, <2>4, <2>5 DEF BeyondSent
<1>11. EndsWithNewest'
  <2>1. lastMatched[c] = q[Len(q)]
    BY DEF EndsWithNewest, q
  <2>2. Len(Tail(q)) # 0 => Tail(q)[Len(Tail(q))] = q[Len(q)]
    BY <1>1
  <2>3. q[1] # 0
    BY <1>1
  <2>4. lastMatched[c] = IF Tail(q) # <<>> THEN Tail(q)[Len(Tail(q))] ELSE q[1]
    BY <1>1, <1>4, <2>1, <2>2
  <2> QED BY <1>2, <1>3, <2>3, <2>4 DEF EndsWithNewest
<1> QED BY <1>5, <1>6, <1>7, <1>8, <1>9, <1>10, <1>11

LEMMA SentKeeps ==
  ASSUME HubInv, NEW c \in Clients, Sent(c)
  PROVE  HubInv'
<1> USE DEF Sent, subscriptionVars, HubInv
<1>1. /\ sending'[c] = 0 /\ delivered'[c] = sending[c]
      /\ \A d \in Clients : d # c => sending'[d] = sending[d] /\ delivered'[d] = delivered[d]
  BY DEF HubTypes
<1>2. HubTypes'
  <2>1. 0 \in 0..MaxTicks /\ sending[c] \in 0..MaxTicks
    BY HubAssumption DEF HubTypes
  <2> QED BY <2>1 DEF HubTypes
<1>3. GoneIsEmpty'
  BY <1>1 DEF GoneIsEmpty
<1>4. WithinBounds' /\ InterestCounted' /\ Ascending'
  BY DEF WithinBounds, InterestCounted, Holders, Ascending
<1>5. BeyondSent'
  <2>1. \A n \in 1..Len(queues[c]) : queues[c][n] > 0
    <3>1. queues[c] \in Seq(1..MaxTicks)
      BY DEF HubTypes
    <3>2. \A n \in 1..Len(queues[c]) : queues[c][n] \in 1..MaxTicks
      BY <3>1, ElementOfSeq
    <3> QED BY <3>2, HubAssumption
  <2>2. \A d \in Clients : \A n \in 1..Len(queues[d]) :
          sending'[d] < queues[d][n] /\ delivered'[d] < queues[d][n] /\ queues[d][n] <= published
    BY <1>1, <2>1 DEF BeyondSent
  <2>3. \A d \in Clients : sending'[d] # 0 => delivered'[d] < sending'[d]
    BY <1>1 DEF BeyondSent
  <2>4. \A d \in Clients : sending'[d] <= published /\ delivered'[d] <= published
    BY <1>1 DEF BeyondSent, HubTypes
  <2> QED BY <2>2, <2>3, <2>4 DEF BeyondSent
<1>6. EndsWithNewest'
  BY <1>1 DEF HubTypes, EndsWithNewest
<1> QED BY <1>2, <1>3, <1>4, <1>5, <1>6

LEMMA PublishKeeps ==
  ASSUME HubInv, NEW i \in Instruments, Publish(i)
  PROVE  HubInv'
<1> USE DEF Publish, subscriptionVars, HubInv
<1> DEFINE t == published + 1
           E(c) == Enqueue(queues[c], t)
<1>1. t \in 1..MaxTicks /\ published' = t
  BY HubAssumption DEF HubTypes
<1>2. \A c \in Clients :
        /\ queues[c] \in Seq(1..MaxTicks) /\ Len(queues[c]) \in Nat /\ Len(queues[c]) <= MaxQueue
        /\ \A n \in 1..Len(queues[c]) : queues[c][n] \in 1..MaxTicks
  <2> SUFFICES ASSUME NEW c \in Clients
               PROVE  /\ queues[c] \in Seq(1..MaxTicks)
                      /\ Len(queues[c]) \in Nat /\ Len(queues[c]) <= MaxQueue
                      /\ \A n \in 1..Len(queues[c]) : queues[c][n] \in 1..MaxTicks
    OBVIOUS
  <2>1. queues[c] \in Seq(1..MaxTicks)
    BY DEF HubTypes
  <2>2. Len(queues[c]) \in Nat /\ Len(queues[c]) <= MaxQueue
    BY <2>1 DEF WithinBounds
  <2>3. \A n \in 1..Len(queues[c]) : queues[c][n] \in 1..MaxTicks
    BY <2>1, ElementOfSeq
  <2> QED BY <2>1, <2>2, <2>3
<1>3. \A c \in Clients :
        /\ E(c) \in Seq(1..MaxTicks) /\ Len(E(c)) \in 1..MaxQueue /\ E(c) # <<>>
        /\ E(c)[Len(E(c))] = t
        /\ \A n \in 1..(Len(E(c)) - 1) :
              E(c)[n] = IF Len(queues[c]) >= MaxQueue THEN queues[c][n + 1] ELSE queues[c][n]
        /\ Len(E(c)) = IF Len(queues[c]) >= MaxQueue THEN Len(queues[c]) ELSE Len(queues[c]) + 1
  <2> HIDE DEF t
  <2> QED BY <1>1, <1>2, EnqueueQueue
<1>4. \A c \in Clients : queues'[c] = IF Matches(c, i) THEN E(c) ELSE queues[c]
  OBVIOUS
<1>5. \A c \in Clients : lastMatched'[c] = IF Matches(c, i) THEN t ELSE lastMatched[c]
  OBVIOUS
<1> HIDE DEF t, E
<1>6. HubTypes'
  <2>1. queues' \in [Clients -> Seq(1..MaxTicks)]
    BY <1>2, <1>3 DEF t, E
  <2>2. lastMatched' \in [Clients -> 0..MaxTicks]
    BY <1>1 DEF HubTypes, t
  <2> QED BY <1>1, <2>1, <2>2 DEF HubTypes
<1>7. WithinBounds'
  BY <1>2, <1>3, <1>4, HubAssumption DEF WithinBounds
<1>8. GoneIsEmpty'
  BY <1>4 DEF GoneIsEmpty, Matches
<1>9. InterestCounted'
  BY DEF InterestCounted, Holders
<1>10. ASSUME NEW c \in Clients, NEW n \in 1..Len(E(c)), n # Len(E(c))
       PROVE  LET k == IF Len(queues[c]) >= MaxQueue THEN n + 1 ELSE n
              IN  k \in 1..Len(queues[c]) /\ E(c)[n] = queues[c][k]
  <2>1. Len(E(c)) \in Nat /\ n \in 1..(Len(E(c)) - 1)
    BY <1>3, <1>10, HubAssumption
  <2>2. E(c)[n] = IF Len(queues[c]) >= MaxQueue THEN queues[c][n + 1] ELSE queues[c][n]
    BY <1>3, <2>1
  <2>3. Len(queues[c]) \in Nat
    BY <1>2
  <2>4. Len(E(c)) = IF Len(queues[c]) >= MaxQueue THEN Len(queues[c]) ELSE Len(queues[c]) + 1
    BY <1>3
  <2> QED BY <2>1, <2>2, <2>3, <2>4
<1>11. \A c \in Clients : \A j \in 1..Len(queues[c]) :
          /\ sending[c] < queues[c][j] /\ delivered[c] < queues[c][j]
          /\ queues[c][j] < t /\ queues[c][j] \in Nat
  BY <1>2 DEF BeyondSent, HubTypes, t
<1>12. Ascending'
  <2>1. ASSUME NEW c \in Clients, NEW m \in 1..Len(E(c)), NEW n \in 1..Len(E(c)), m < n
        PROVE  E(c)[m] < E(c)[n]
    <3>1. Len(E(c)) \in Nat /\ m # Len(E(c)) /\ E(c)[Len(E(c))] = t
      BY <1>3, <2>1, HubAssumption
    <3> DEFINE at(l) == IF Len(queues[c]) >= MaxQueue THEN l + 1 ELSE l
    <3>2. at(m) \in 1..Len(queues[c]) /\ E(c)[m] = queues[c][at(m)]
      BY <1>10, <3>1
    <3>3. CASE n = Len(E(c))
      BY <1>11, <3>1, <3>2, <3>3
    <3>4. CASE n # Len(E(c))
      <4>1. at(n) \in 1..Len(queues[c]) /\ E(c)[n] = queues[c][at(n)]
        BY <1>10, <3>4
      <4>2. at(m) < at(n)
        BY <2>1
      <4> HIDE DEF at
      <4> QED BY <3>2, <4>1, <4>2 DEF Ascending
    <3> QED BY <3>3, <3>4
  <2> QED BY <1>4, <2>1 DEF Ascending
<1>14. \A c \in Clients : \A n \in 1..Len(E(c)) :
         sending[c] < E(c)[n] /\ delivered[c] < E(c)[n] /\ E(c)[n] <= t
  <2> SUFFICES ASSUME NEW c \in Clients, NEW n \in 1..Len(E(c))
               PROVE  sending[c] < E(c)[n] /\ delivered[c] < E(c)[n] /\ E(c)[n] <= t
    OBVIOUS
  <2>1. sending[c] < t /\ delivered[c] < t
    BY DEF BeyondSent, HubTypes, t
  <2>2. CASE n = Len(E(c))
    <3>1. E(c)[n] = t
      BY <1>3, <2>2
    <3> QED BY <1>1, <2>1, <3>1
  <2>3. CASE n # Len(E(c))
    <3>1. PICK k \in 1..Len(queues[c]) : E(c)[n] = queues[c][k]
      BY <1>10, <2>3
    <3> QED BY <1>1, <1>11, <3>1
  <2> QED BY <2>2, <2>3
<1>13. BeyondSent'
  <2>1. \A c \in Clients : \A n \in 1..Len(queues[c]) : queues[c][n] <= t
    BY <1>2 DEF BeyondSent, HubTypes, t
  <2>2. \A c \in Clients : sending[c] <= t /\ delivered[c] <= t
    BY DEF BeyondSent, HubTypes, t
  <2> QED BY <1>1, <1>4, <1>14, <2>1, <2>2 DEF BeyondSent
<1>15. EndsWithNewest'
  <2> SUFFICES ASSUME NEW c \in clients
               PROVE  lastMatched'[c] = IF queues'[c] # <<>> THEN queues'[c][Len(queues'[c])]
                                        ELSE IF sending[c] # 0 THEN sending[c] ELSE delivered[c]
    BY DEF EndsWithNewest
  <2>1. c \in Clients
    BY DEF HubTypes
  <2>2. CASE Matches(c, i)
    BY <1>3, <1>4, <1>5, <2>1, <2>2
  <2>3. CASE ~Matches(c, i)
    BY <1>4, <1>5, <2>1, <2>3 DEF EndsWithNewest
  <2> QED BY <2>2, <2>3
<1> QED BY <1>6, <1>7, <1>8, <1>9, <1>12, <1>13, <1>15

LEMMA HubInvStep == HubInv /\ [HubNext]_hubVars => HubInv'
<1> SUFFICES ASSUME HubInv, [HubNext]_hubVars
             PROVE  HubInv'
  OBVIOUS
<1>1. CASE UNCHANGED hubVars
  BY <1>1 DEF hubVars, subscriptionVars, deliveryVars, HubInv, HubTypes, WithinBounds,
     GoneIsEmpty, InterestCounted, Holders, Ascending, BeyondSent, EndsWithNewest
<1> QED
  BY <1>1, RegisterKeeps, UnregisterKeeps, SubscribeKeeps, UnsubscribeKeeps, TakeNextKeeps,
     SentKeeps, PublishKeeps DEF HubNext

LEMMA HubInvariant == HubSafetySpec => []HubInv
  BY HubInvInit, HubInvStep, PTL DEF HubSafetySpec

-----------------------------------------------------------------------------

\* Every variable has its type, no queue and no client exceeds its limit.
THEOREM HubTypeCorrect == HubSafetySpec => []HubTypeOK
<1>1. HubInv => HubTypeOK
  BY DEF HubInv, HubTypes, WithinBounds, HubTypeOK
<1> QED BY <1>1, HubInvariant, PTL

\* The reference count of a name is the number of browsers that hold it.
THEOREM InterestIsCounted == HubSafetySpec => []InterestCounted
  BY HubInvariant, PTL DEF HubInv

\* A browser that falls behind loses old ticks, never the newest one.
THEOREM NewestIsKept == HubSafetySpec => []NewestKept
<1>1. HubInv => NewestKept
  <2> SUFFICES ASSUME HubInv, NEW c \in clients
               PROVE  IF Outstanding(c) = <<>> THEN delivered[c] = lastMatched[c]
                      ELSE Outstanding(c)[Len(Outstanding(c))] = lastMatched[c]
    BY DEF NewestKept
  <2>1. c \in Clients /\ queues[c] \in Seq(1..MaxTicks) /\ sending[c] \in 0..MaxTicks
    BY DEF HubInv, HubTypes
  <2>2. CASE sending[c] = 0
    BY <2>1, <2>2 DEF Outstanding, HubInv, EndsWithNewest
  <2>3. CASE sending[c] # 0
    <3>1. <<sending[c]>> \in Seq(1..MaxTicks) /\ Len(<<sending[c]>>) = 1
      BY <2>1, <2>3
    <3>2. /\ Len(Outstanding(c)) = 1 + Len(queues[c]) /\ Len(queues[c]) \in Nat
          /\ \A n \in 1..(1 + Len(queues[c])) :
                Outstanding(c)[n] = IF n <= 1 THEN sending[c] ELSE queues[c][n - 1]
      BY <2>1, <2>3, <3>1, ConcatProperties DEF Outstanding
    <3>3. Outstanding(c) # <<>>
      BY <2>3, <3>2, EmptySeq
    <3>4. queues[c] = <<>> <=> Len(queues[c]) = 0
      BY <2>1, EmptySeq
    <3> QED BY <2>1, <2>3, <3>2, <3>3, <3>4 DEF HubInv, EndsWithNewest
  <2> QED BY <2>2, <2>3
<1> QED BY <1>1, HubInvariant, PTL

\* What a browser is sent is always newer than what it was sent before.
THEOREM DeliveryIsInOrder == HubSafetySpec => DeliveredInOrder
<1>1. HubInv /\ [HubNext]_hubVars =>
        [\A c \in clients \intersect clients' :
            delivered'[c] # delivered[c] => delivered'[c] > delivered[c]]_hubVars
  <2> SUFFICES ASSUME HubInv, HubNext, NEW c \in clients \intersect clients',
                      delivered'[c] # delivered[c]
               PROVE  delivered'[c] > delivered[c]
    OBVIOUS
  <2>1. c \in Clients /\ delivered \in [Clients -> 0..MaxTicks]
    BY DEF HubInv, HubTypes
  <2>2. ASSUME NEW d \in Clients, Sent(d) PROVE delivered'[c] > delivered[c]
    BY <2>1, <2>2 DEF Sent, HubInv, HubTypes, BeyondSent
  <2>3. ASSUME NEW d \in Clients, Register(d) PROVE delivered'[c] > delivered[c]
    BY <2>1, <2>3 DEF Register
  <2>4. CASE UNCHANGED delivered
    BY <2>4
  <2> QED BY <2>2, <2>3, <2>4 DEF HubNext, HubUnregister, TakeNext, Subscribe, Unsubscribe,
        Publish, deliveryVars
<1> QED BY <1>1, HubInvariant, PTL DEF HubSafetySpec, DeliveredInOrder
=============================================================================
