----------------------- MODULE PortfolioLedger_proofs -----------------------
(***************************************************************************)
(* What the ledger's files promise across crashes: for any accounts,       *)
(* transactions, instants and number of crashes.                           *)
(*                                                                         *)
(* The inductive invariant adds to the types that a lot is never stored    *)
(* without its holding, and that what is counted is finite.  These proofs  *)
(* only use the form of the rows made from the FIFO replay;                *)
(* LedgerReplay_proofs proves what it computes.                            *)
(***************************************************************************)
EXTENDS PortfolioLedger, FiniteSetTheorems, TLAPS

\* append_holdings_snapshot writes the lots after all their holdings.
LotsHaveHoldings ==
    \A row \in lots : \E h \in holdings : row.of = HoldingId(h) /\ row.asOf = h.asOf

CountsAreFinite ==
    /\ IsFiniteSet(events)
    /\ \A h \in holdings : IsFiniteSet(HoldingsLike(h))

LedgerInv ==
    /\ LedgerTypeOK
    /\ LotsHaveHoldings
    /\ EventsVouch
    /\ CountsAreFinite
    /\ GapsAreAnswered

-----------------------------------------------------------------------------
(* The rows of a snapshot. *)

LEMMA HoldingRow ==
  ASSUME NEW T, NEW t, NEW day, NEW h \in HoldingsAt(T, t, day)
  PROVE  h.asOf = t
<1>1. PICK l \in OpenLots(Replay(T, day)) : h = HoldingOf(l.position, OpenLots(Replay(T, day)), t)
  BY DEF HoldingsAt
<1> QED BY <1>1 DEF HoldingOf

\* One holding per position.
LEMMA HoldingOfPosition ==
  ASSUME NEW T, NEW t, NEW day, NEW h \in HoldingsAt(T, t, day), NEW g \in HoldingsAt(T, t, day),
         h.position = g.position
  PROVE  h = g
<1> DEFINE open == OpenLots(Replay(T, day))
<1>1. PICK l \in open : h = HoldingOf(l.position, open, t)
  BY DEF HoldingsAt
<1>2. PICK m \in open : g = HoldingOf(m.position, open, t)
  BY DEF HoldingsAt
<1>3. h.position = l.position /\ g.position = m.position
  BY <1>1, <1>2 DEF HoldingOf
<1> QED BY <1>1, <1>2, <1>3

LEMMA HoldingsUnique ==
  ASSUME NEW T, NEW t, NEW day, NEW h \in HoldingsAt(T, t, day), NEW g \in HoldingsAt(T, t, day),
         HoldingId(h) = HoldingId(g)
  PROVE  h = g
<1>1. h.position = g.position
  BY DEF HoldingId
<1> QED BY <1>1, HoldingOfPosition

LEMMA LotRow ==
  ASSUME NEW T, NEW t, NEW day, NEW row \in LotsAt(T, t, day)
  PROVE  /\ row.asOf = t
         /\ row.remaining > 0
         /\ \E h \in HoldingsAt(T, t, day) : row.of = HoldingId(h)
<1> DEFINE open == OpenLots(Replay(T, day))
<1>1. PICK l \in open : row = [buy |-> l.buy, asOf |-> t, remaining |-> l.remaining,
                               cost |-> LotCost(l),
                               of |-> HoldingId(HoldingOf(l.position, open, t))]
  BY DEF LotsAt
<1>2. HoldingOf(l.position, open, t) \in HoldingsAt(T, t, day)
  BY <1>1 DEF HoldingsAt
<1>3. l.remaining > 0
  BY DEF OpenLots
<1>4. row.asOf = t /\ row.remaining = l.remaining
        /\ row.of = HoldingId(HoldingOf(l.position, open, t))
  BY <1>1
<1> QED BY <1>2, <1>3, <1>4

\* An identifier holds the instant of its row.
LEMMA IdHoldsInstant ==
  ASSUME NEW h, NEW g, HoldingId(h) = HoldingId(g)
  PROVE  h.asOf = g.asOf
BY DEF HoldingId

-----------------------------------------------------------------------------
(* The inductive invariant. *)

LEMMA LedgerInvInit == LedgerInit => LedgerInv
<1> SUFFICES ASSUME LedgerInit PROVE LedgerInv
  OBVIOUS
<1>1. CountsAreFinite
  BY FS_EmptySet DEF LedgerInit, CountsAreFinite
<1> QED
  BY <1>1, LedgerAssumption
     DEF LedgerInit, LedgerInv, LedgerTypeOK, LotsHaveHoldings, EventsVouch, GapsAreAnswered,
         PortfolioStatuses, Times, AllEvents, Linkables

\* A step that a crash ends writes no event.
LEMMA CrashCounts ==
  ASSUME LedgerInv, Crash
  PROVE  /\ crashes' \in Nat
         /\ crashes' # 0
         /\ events' = events
         /\ refused' = refused
BY DEF LedgerInv, LedgerTypeOK, Crash

\* What the last call of an operation does, if it comes to it.
LEMMA EventIsAnswered ==
  ASSUME LedgerInv, NEW e \in AllEvents, RecordEvent(e) \/ Crash
  PROVE  /\ events' \subseteq AllEvents /\ refused' \subseteq AllEvents
         /\ crashes' \in Nat
         /\ events \subseteq events' /\ refused \subseteq refused'
         /\ events' \subseteq events \union {e}
         /\ IsFiniteSet(events')
         /\ crashes' = 0 => crashes = 0 /\ e \in events' \union refused'
<1>1. IsFiniteSet(events) /\ crashes \in Nat /\ events \subseteq AllEvents /\ refused \subseteq AllEvents
  BY DEF LedgerInv, CountsAreFinite, LedgerTypeOK
<1>2. IsFiniteSet(events \union {e})
  BY <1>1, FS_AddElement
<1>3. CASE RecordEvent(e)
  BY <1>1, <1>2, <1>3 DEF RecordEvent
<1>4. CASE Crash
  BY <1>1, <1>4, CrashCounts
<1> QED BY <1>3, <1>4

\* An operation other than a rebuild leaves the counts of holdings and rebuilds.
LEMMA OtherEvent ==
  ASSUME LedgerInv, NEW e \in AllEvents, RecordEvent(e) \/ Crash,
         e[1] # "HOLDING_REBUILT", holdings' = holdings
  PROVE  /\ CountsAreFinite'
         /\ crashes' = 0 => \A h \in holdings' : HoldingAnswered(h)'
<1>0. /\ events \subseteq events' /\ refused \subseteq refused'
      /\ events' \subseteq events \union {e}
      /\ IsFiniteSet(events')
      /\ crashes' = 0 => crashes = 0
  BY EventIsAnswered
<1>1. ASSUME NEW h \in holdings' PROVE HoldingsLike(h)' = HoldingsLike(h)
  BY DEF HoldingsLike
<1>2. ASSUME NEW t PROVE RebuildsOf(t)' = RebuildsOf(t)
  BY <1>0 DEF RebuildsOf
<1>3. CountsAreFinite'
  BY <1>0, <1>1 DEF LedgerInv, CountsAreFinite
<1>4. ASSUME crashes' = 0, NEW h \in holdings'
      PROVE  HoldingAnswered(h)'
  <2>1. HoldingAnswered(h)
    BY <1>0, <1>4 DEF LedgerInv, GapsAreAnswered
  <2>2. Cardinality(HoldingsLike(h)') = Cardinality(HoldingsLike(h))
    BY <1>1
  <2>3. Cardinality(RebuildsOf(h.asOf)') = Cardinality(RebuildsOf(h.asOf))
    BY <1>2
  <2> QED BY <1>0, <2>1, <2>2, <2>3 DEF HoldingAnswered
<1> QED BY <1>3, <1>4

LEMMA LinkKeeps ==
  ASSUME LedgerInv, NEW x \in Linkables, NEW t \in Times, Link(x, t)
  PROVE  LedgerInv'
<1> USE DEF LedgerInv, bookVars
<1> DEFINE e == <<"LINKED", x>>
<1>0. /\ registered' = registered \union {x}
      /\ UNCHANGED <<securities, transactions, holdings, lots>>
      /\ portfolio \in [status : PortfolioStatuses, linked : SUBSET Linkables, updated : Times]
  BY DEF Link, LedgerTypeOK
<1>1. RecordEvent(e) \/ Crash
  BY DEF Link
<1>2. /\ VersionLinking(x, t) \in [status : PortfolioStatuses, linked : SUBSET Linkables, updated : Times]
      /\ VersionLinking(x, t).linked = portfolio.linked \union {x}
  BY <1>0 DEF VersionLinking
<1>3. portfolio' = VersionLinking(x, t) \/ (Crash /\ portfolio' = portfolio)
  BY DEF Link
<1>4. e \in AllEvents /\ e[1] # "HOLDING_REBUILT"
  BY DEF AllEvents
<1> HIDE DEF e
<1>5. /\ events' \subseteq AllEvents /\ refused' \subseteq AllEvents /\ crashes' \in Nat
      /\ events \subseteq events' /\ refused \subseteq refused' /\ events' \subseteq events \union {e}
      /\ crashes' = 0 => crashes = 0 /\ e \in events' \union refused'
  BY <1>1, <1>4, EventIsAnswered
<1>6. CountsAreFinite' /\ (crashes' = 0 => \A h \in holdings' : HoldingAnswered(h)')
  BY <1>0, <1>1, <1>4, OtherEvent
<1>7. LedgerTypeOK'
  BY <1>0, <1>2, <1>3, <1>5 DEF LedgerTypeOK
<1>8. LotsHaveHoldings'
  BY <1>0 DEF LotsHaveHoldings
<1>9. EventsVouch'
  BY <1>0, <1>2, <1>3, <1>5, CrashCounts DEF EventsVouch, e
<1>10. GapsAreAnswered'
  BY <1>0, <1>2, <1>3, <1>5, <1>6, CrashCounts DEF GapsAreAnswered, Answered, e
<1> QED BY <1>6, <1>7, <1>8, <1>9, <1>10

LEMMA ChangeStatusKeeps ==
  ASSUME LedgerInv, NEW s \in PortfolioStatuses, NEW t \in Times, ChangeStatus(s, t)
  PROVE  LedgerInv'
<1> USE DEF LedgerInv, bookVars
<1> DEFINE e == <<"STATUS_CHANGED", t>>
<1>0. /\ UNCHANGED <<registered, securities, transactions, holdings, lots>>
      /\ portfolio \in [status : PortfolioStatuses, linked : SUBSET Linkables, updated : Times]
      /\ portfolio' = [status |-> s, linked |-> portfolio.linked, updated |-> t]
  BY DEF ChangeStatus, LedgerTypeOK
<1>1. RecordEvent(e) \/ Crash
  BY DEF ChangeStatus
<1>2. /\ portfolio' \in [status : PortfolioStatuses, linked : SUBSET Linkables, updated : Times]
      /\ portfolio'.linked = portfolio.linked
  BY <1>0
<1>4. e \in AllEvents /\ e[1] # "HOLDING_REBUILT"
  BY DEF AllEvents
<1> HIDE DEF e
<1>5. /\ events' \subseteq AllEvents /\ refused' \subseteq AllEvents /\ crashes' \in Nat
      /\ events \subseteq events' /\ refused \subseteq refused' /\ events' \subseteq events \union {e}
      /\ crashes' = 0 => crashes = 0 /\ e \in events' \union refused'
  BY <1>1, <1>4, EventIsAnswered
<1>6. CountsAreFinite' /\ (crashes' = 0 => \A h \in holdings' : HoldingAnswered(h)')
  BY <1>0, <1>1, <1>4, OtherEvent
<1>7. LedgerTypeOK'
  BY <1>0, <1>2, <1>5 DEF LedgerTypeOK
<1>8. LotsHaveHoldings'
  BY <1>0 DEF LotsHaveHoldings
<1>9. EventsVouch'
  BY <1>0, <1>2, <1>5 DEF EventsVouch, e
<1>10. GapsAreAnswered'
  BY <1>0, <1>2, <1>5, <1>6 DEF GapsAreAnswered, Answered
<1> QED BY <1>6, <1>7, <1>8, <1>9, <1>10

LEMMA RegisterSecurityKeeps ==
  ASSUME LedgerInv, NEW s \in Securities, RegisterSecurity(s)
  PROVE  LedgerInv'
<1> USE DEF LedgerInv, bookVars
<1> DEFINE e == <<"SECURITY_REGISTERED", s>>
<1>0. /\ UNCHANGED <<portfolio, registered, transactions, holdings, lots>>
      /\ securities' = securities \union {s}
  BY DEF RegisterSecurity
<1>1. RecordEvent(e) \/ Crash
  BY DEF RegisterSecurity
<1>4. e \in AllEvents /\ e[1] # "HOLDING_REBUILT"
  BY DEF AllEvents
<1> HIDE DEF e
<1>5. /\ events' \subseteq AllEvents /\ refused' \subseteq AllEvents /\ crashes' \in Nat
      /\ events \subseteq events' /\ refused \subseteq refused' /\ events' \subseteq events \union {e}
      /\ crashes' = 0 => crashes = 0 /\ e \in events' \union refused'
  BY <1>1, <1>4, EventIsAnswered
<1>6. CountsAreFinite' /\ (crashes' = 0 => \A h \in holdings' : HoldingAnswered(h)')
  BY <1>0, <1>1, <1>4, OtherEvent
<1>7. LedgerTypeOK'
  BY <1>0, <1>5 DEF LedgerTypeOK
<1>8. LotsHaveHoldings'
  BY <1>0 DEF LotsHaveHoldings
<1>9. EventsVouch'
  BY <1>0, <1>5 DEF EventsVouch, e
<1>10. GapsAreAnswered'
  BY <1>0, <1>5, <1>6 DEF GapsAreAnswered, Answered, e
<1> QED BY <1>6, <1>7, <1>8, <1>9, <1>10

LEMMA RecordTransactionKeeps ==
  ASSUME LedgerInv, NEW x \in Tickets, RecordTransaction(x)
  PROVE  LedgerInv'
<1> USE DEF LedgerInv, bookVars
<1> DEFINE e == <<"TRANSACTION_RECORDED", x.id>>
<1>0. /\ UNCHANGED <<portfolio, registered, securities, holdings, lots>>
      /\ transactions' = transactions \union {x}
      /\ \A y \in transactions : y.id # x.id
      /\ x.account \in registered
  BY DEF RecordTransaction, IsUnused, IsRecordable
<1>1. RecordEvent(e) \/ Crash
  BY DEF RecordTransaction
<1>4. e \in AllEvents /\ e[1] # "HOLDING_REBUILT"
  BY DEF AllEvents
<1> HIDE DEF e
<1>5. /\ events' \subseteq AllEvents /\ refused' \subseteq AllEvents /\ crashes' \in Nat
      /\ events \subseteq events' /\ refused \subseteq refused' /\ events' \subseteq events \union {e}
      /\ crashes' = 0 => crashes = 0 /\ e \in events' \union refused'
  BY <1>1, <1>4, EventIsAnswered
<1>6. CountsAreFinite' /\ (crashes' = 0 => \A h \in holdings' : HoldingAnswered(h)')
  BY <1>0, <1>1, <1>4, OtherEvent
<1>7. LedgerTypeOK'
  BY <1>0, <1>5 DEF LedgerTypeOK
<1>8. LotsHaveHoldings'
  BY <1>0 DEF LotsHaveHoldings
<1>9. EventsVouch'
  BY <1>0, <1>5 DEF EventsVouch, e
<1>10. GapsAreAnswered'
  BY <1>0, <1>5, <1>6 DEF GapsAreAnswered, Answered, e
<1> QED BY <1>6, <1>7, <1>8, <1>9, <1>10

\* A rebuild that ends adds one event of its instant, or an error, and at most one
\* holding of each position.
LEMMA RebuildAnswered ==
  ASSUME LedgerInv, NEW t \in Times, NEW reason \in Reasons, NEW hh,
         \A h, g \in hh : h.position = g.position => h = g,
         \A h \in hh : h.asOf = t,
         holdings' = holdings \union hh,
         RecordEvent(<<"HOLDING_REBUILT", <<t, reason>>>>) \/ Crash
  PROVE  /\ \A h \in holdings' : IsFiniteSet(HoldingsLike(h)')
         /\ crashes' = 0 => \A h \in holdings' : HoldingAnswered(h)'
<1> DEFINE e == <<"HOLDING_REBUILT", <<t, reason>>>>
<1>0. e \in AllEvents /\ e[1] = "HOLDING_REBUILT" /\ e[2][1] = t
  BY DEF AllEvents
<1>1. RecordEvent(e) \/ Crash
  OBVIOUS
<1> HIDE DEF e
<1>2. /\ events \subseteq events' /\ refused \subseteq refused'
      /\ events' \subseteq events \union {e}
      /\ IsFiniteSet(events')
      /\ crashes' = 0 => crashes = 0 /\ e \in events' \union refused'
  BY <1>0, <1>1, EventIsAnswered
<1>3. IsFiniteSet(events) /\ \A h \in holdings : IsFiniteSet(HoldingsLike(h))
  BY DEF LedgerInv, CountsAreFinite
<1>4. ASSUME NEW h
      PROVE  /\ IsFiniteSet(HoldingsLike(h))
             /\ Cardinality(HoldingsLike(h)) \in Nat
             /\ crashes = 0 => HoldingAnswered(h)
  <2>0. \A u : IsFiniteSet(RebuildsOf(u)) /\ Cardinality(RebuildsOf(u)) \in Nat
    <3> SUFFICES ASSUME NEW u PROVE IsFiniteSet(RebuildsOf(u)) /\ Cardinality(RebuildsOf(u)) \in Nat
      OBVIOUS
    <3>1. RebuildsOf(u) \subseteq events
      BY DEF RebuildsOf
    <3> QED BY <1>3, <3>1, FS_Subset, FS_CardinalityType
  <2>1. CASE HoldingsLike(h) = {}
    <3>1. IsFiniteSet(HoldingsLike(h)) /\ Cardinality(HoldingsLike(h)) = 0
      BY <2>1, FS_EmptySet
    <3> QED BY <2>0, <3>1 DEF HoldingAnswered
  <2>2. CASE HoldingsLike(h) # {}
    <3>1. PICK g \in holdings : g.position = h.position /\ g.asOf = h.asOf
      BY <2>2 DEF HoldingsLike
    <3>2. HoldingsLike(g) = HoldingsLike(h)
      BY <3>1 DEF HoldingsLike
    <3>3. IsFiniteSet(HoldingsLike(h))
      BY <1>3, <3>2
    <3>4. crashes = 0 => HoldingAnswered(g)
      BY DEF LedgerInv, GapsAreAnswered
    <3>5. HoldingAnswered(g) => HoldingAnswered(h)
      BY <3>1, <3>2 DEF HoldingAnswered
    <3> QED BY <3>3, <3>4, <3>5, FS_CardinalityType
  <2> QED BY <2>1, <2>2
<1>5. ASSUME NEW h \in holdings'
      PROVE  /\ IsFiniteSet(HoldingsLike(h)')
             /\ Cardinality(HoldingsLike(h)') \in Nat
             /\ Cardinality(HoldingsLike(h)')
                  <= Cardinality(HoldingsLike(h)) + (IF h.asOf = t THEN 1 ELSE 0)
  <2> DEFINE mine == {g \in hh : g.position = h.position /\ g.asOf = h.asOf}
             H == HoldingsLike(h)
  <2>1. HoldingsLike(h)' = H \union mine
    BY DEF HoldingsLike
  <2>2. IsFiniteSet(H) /\ Cardinality(H) \in Nat
    BY <1>4
  <2>3. CASE mine = {}
    <3>1. HoldingsLike(h)' = H
      BY <2>1, <2>3
    <3> HIDE DEF H, mine
    <3>2. IsFiniteSet(HoldingsLike(h)')
      BY <2>2, <3>1
    <3>3. Cardinality(HoldingsLike(h)') = Cardinality(H)
      BY <3>1
    <3> QED BY <2>2, <3>2, <3>3 DEF H
  <2>4. CASE mine # {}
    <3>1. PICK g \in mine : TRUE
      BY <2>4
    <3>2. mine = {g} /\ h.asOf = t
      BY <3>1
    <3> HIDE DEF H, mine
    <3>3. /\ IsFiniteSet(H \union {g})
          /\ Cardinality(H \union {g}) = Cardinality(H) \/ Cardinality(H \union {g}) = Cardinality(H) + 1
      BY <2>2, FS_AddElement
    <3>4. HoldingsLike(h)' = H \union {g}
      BY <2>1, <3>2
    <3>5. Cardinality(HoldingsLike(h)') = Cardinality(H \union {g})
      BY <3>4
    <3>6. IsFiniteSet(HoldingsLike(h)')
      BY <3>3, <3>4
    <3> QED BY <2>2, <3>2, <3>3, <3>5, <3>6 DEF H
  <2> QED BY <2>3, <2>4
<1>6. ASSUME crashes' = 0, NEW h \in holdings'
      PROVE  HoldingAnswered(h)'
  <2>0. crashes = 0 /\ HoldingAnswered(h)
    BY <1>2, <1>4, <1>6
  <2>1. CASE e \in refused' /\ h.asOf = t
    BY <2>1 DEF HoldingAnswered, e
  <2>2. CASE h.asOf # t
    <3>1. RebuildsOf(h.asOf)' = RebuildsOf(h.asOf)
      BY <1>0, <1>2, <2>2 DEF RebuildsOf
    <3>2. Cardinality(RebuildsOf(h.asOf)') = Cardinality(RebuildsOf(h.asOf))
      BY <3>1
    <3>3. Cardinality(HoldingsLike(h)') <= Cardinality(HoldingsLike(h))
      BY <1>4, <1>5, <2>2
    <3>4. /\ Cardinality(RebuildsOf(h.asOf)) \in Nat
      <4>1. RebuildsOf(h.asOf) \subseteq events
        BY DEF RebuildsOf
      <4> QED BY <1>3, <4>1, FS_Subset, FS_CardinalityType
    <3> QED BY <1>2, <1>4, <1>5, <2>0, <3>2, <3>3, <3>4 DEF HoldingAnswered
  <2>3. CASE e \notin refused' /\ h.asOf = t
    <3>0. ~Crash
      BY <1>6, CrashCounts
    <3>1. e \notin events /\ events' = events \union {e} /\ refused' = refused
      BY <1>1, <2>3, <3>0 DEF RecordEvent
    <3> DEFINE R == RebuildsOf(t)
    <3>2. RebuildsOf(t)' = R \union {e} /\ e \notin R /\ R \subseteq events
      BY <1>0, <3>1 DEF RebuildsOf
    <3> HIDE DEF R
    <3>3. IsFiniteSet(R) /\ Cardinality(R) \in Nat
      BY <1>3, <3>2, FS_Subset, FS_CardinalityType
    <3>4. Cardinality(R \union {e}) = Cardinality(R) + 1
      BY <3>2, <3>3, FS_AddElement
    <3>5. Cardinality(RebuildsOf(t)') = Cardinality(R) + 1
      BY <3>2, <3>4
    <3>6. Cardinality(HoldingsLike(h)') <= Cardinality(HoldingsLike(h)) + 1
      BY <1>5, <2>3
    <3>7. Cardinality(HoldingsLike(h)) \in Nat /\ Cardinality(HoldingsLike(h)') \in Nat
      BY <1>4, <1>5
    <3>8. CASE \E other \in Reasons : <<"HOLDING_REBUILT", <<h.asOf, other>>>> \in refused
      <4>1. \E other \in Reasons : <<"HOLDING_REBUILT", <<h.asOf, other>>>> \in refused'
        BY <3>1, <3>8
      <4> QED BY <4>1 DEF HoldingAnswered
    <3>9. CASE Cardinality(HoldingsLike(h)) <= Cardinality(R)
      <4>1. Cardinality(HoldingsLike(h)') <= Cardinality(R) + 1
        BY <3>3, <3>6, <3>7, <3>9
      <4>2. Cardinality(HoldingsLike(h)') <= Cardinality(RebuildsOf(h.asOf)')
        BY <2>3, <3>5, <4>1
      <4> QED BY <4>2 DEF HoldingAnswered
    <3>10. \/ \E other \in Reasons : <<"HOLDING_REBUILT", <<h.asOf, other>>>> \in refused
           \/ Cardinality(HoldingsLike(h)) <= Cardinality(RebuildsOf(t))
      BY <2>0, <2>3 DEF HoldingAnswered
    <3> QED BY <3>8, <3>9, <3>10 DEF R
  <2> QED BY <2>1, <2>2, <2>3
<1> QED BY <1>5, <1>6

LEMMA RebuildKeeps ==
  ASSUME LedgerInv, NEW t \in Times, NEW day, NEW reason \in Reasons,
         RebuildHoldings(t, day, reason)
  PROVE  LedgerInv'
<1> USE DEF LedgerInv
<1> DEFINE hs == HoldingsAt(transactions, t, day)
           ls == LotsAt(transactions, t, day)
           e == <<"HOLDING_REBUILT", <<t, reason>>>>
<1>0. /\ UNCHANGED <<portfolio, registered, securities, transactions>>
      /\ {HoldingId(h) : h \in hs} \intersect {HoldingId(h) : h \in holdings} = {}
  BY DEF RebuildHoldings, IsNewSnapshot
<1>1. PICK hh \in SUBSET hs, ll \in SUBSET ls :
        /\ holdings' = holdings \union hh
        /\ lots' = lots \union ll
        /\ ll # {} => hh = hs
        /\ RecordEvent(e) \/ Crash
  <2>1. \/ /\ holdings' = holdings \union hs
           /\ lots' = lots \union ls
           /\ RecordEvent(e) \/ Crash
        \/ /\ \E some \in SUBSET ls : lots' = lots \union some
           /\ holdings' = holdings \union hs
           /\ Crash
        \/ /\ \E some \in SUBSET hs : holdings' = holdings \union some
           /\ lots' = lots
           /\ Crash
    BY DEF RebuildHoldings
  <2> HIDE DEF hs, ls, e
  <2>2. ls \in SUBSET ls /\ hs \in SUBSET hs /\ {} \in SUBSET ls /\ lots = lots \union {}
    OBVIOUS
  <2> QED BY <2>1, <2>2
<1>2. \A h, g \in hs : h.position = g.position => h = g
  BY HoldingOfPosition
<1>4. e \in AllEvents
  BY DEF AllEvents
<1>5. \A h \in hs : h.asOf = t
  BY HoldingRow
<1>6. \A row \in ls : row.asOf = t /\ row.remaining > 0 /\ \E h \in hs : row.of = HoldingId(h)
  BY LotRow
<1>7. \A h, g \in hs : HoldingId(h) = HoldingId(g) => h = g
  BY HoldingsUnique
<1> HIDE DEF hs, ls
<1>12. /\ \A h \in holdings' : IsFiniteSet(HoldingsLike(h)')
       /\ crashes' = 0 => \A h \in holdings' : HoldingAnswered(h)'
  <2>1. /\ \A h, g \in hh : h.position = g.position => h = g
        /\ \A h \in hh : h.asOf = t
        /\ holdings' = holdings \union hh
        /\ RecordEvent(e) \/ Crash
    BY <1>1, <1>2, <1>5
  <2> QED BY <2>1, RebuildAnswered
<1> HIDE DEF e
<1>3. /\ events' \subseteq AllEvents /\ refused' \subseteq AllEvents /\ crashes' \in Nat
      /\ events \subseteq events' /\ refused \subseteq refused' /\ events' \subseteq events \union {e}
      /\ IsFiniteSet(events')
      /\ crashes' = 0 => crashes = 0
  BY <1>1, <1>4, EventIsAnswered
<1>8. LedgerTypeOK'
  <2>1. \A h \in holdings' : h.asOf \in Times
    BY <1>1, <1>5 DEF LedgerTypeOK
  <2>2. \A h, g \in holdings' : HoldingId(h) = HoldingId(g) => h = g
    BY <1>0, <1>1, <1>7 DEF LedgerTypeOK
  <2>3. \A row \in lots' : row.asOf \in Times /\ row.remaining > 0
    BY <1>1, <1>6 DEF LedgerTypeOK
  <2> QED BY <1>0, <1>3, <2>1, <2>2, <2>3 DEF LedgerTypeOK
<1>9. LotsHaveHoldings'
  <2> SUFFICES ASSUME NEW row \in lots'
               PROVE  \E h \in holdings' : row.of = HoldingId(h) /\ row.asOf = h.asOf
    BY DEF LotsHaveHoldings
  <2>1. CASE row \in lots
    BY <1>1, <2>1 DEF LotsHaveHoldings
  <2>2. CASE row \in ll
    <3>1. ll # {} /\ row \in ls
      BY <2>2
    <3>2. PICK h \in hs : row.of = HoldingId(h)
      BY <1>6, <3>1
    <3>3. h \in holdings' /\ row.asOf = h.asOf
      BY <1>1, <1>5, <1>6, <3>1, <3>2
    <3> QED BY <3>2, <3>3
  <2> QED BY <1>1, <2>1, <2>2
<1>10. EventsVouch'
  BY <1>0, <1>3 DEF EventsVouch, e
<1>11. GapsAreAnswered'
  BY <1>0, <1>3, <1>12 DEF GapsAreAnswered, Answered
<1>13. CountsAreFinite'
  BY <1>3, <1>12 DEF CountsAreFinite
<1> QED BY <1>8, <1>9, <1>10, <1>11, <1>13

LEMMA LedgerInvNext == LedgerInv /\ [LedgerNext]_ledgerVars => LedgerInv'
<1> SUFFICES ASSUME LedgerInv, [LedgerNext]_ledgerVars
             PROVE  LedgerInv'
  OBVIOUS
<1>1. CASE UNCHANGED ledgerVars
  <2>1. UNCHANGED <<portfolio, registered, securities, transactions, holdings, lots, events, refused, crashes>>
    BY <1>1 DEF ledgerVars, bookVars
  <2>2. \A h : HoldingsLike(h)' = HoldingsLike(h)
    BY <2>1 DEF HoldingsLike
  <2>3. \A t : RebuildsOf(t)' = RebuildsOf(t)
    BY <2>1 DEF RebuildsOf
  <2>4. \A h : HoldingAnswered(h)' <=> HoldingAnswered(h)
    BY <2>1, <2>2, <2>3 DEF HoldingAnswered
  <2> QED
    BY <2>1, <2>2, <2>4
       DEF LedgerInv, LedgerTypeOK, LotsHaveHoldings, EventsVouch, CountsAreFinite,
           GapsAreAnswered, Answered
<1>2. CASE LedgerNext
  BY <1>2, LinkKeeps, ChangeStatusKeeps, RegisterSecurityKeeps, RecordTransactionKeeps, RebuildKeeps
     DEF LedgerNext
<1> QED BY <1>1, <1>2

\* The invariant holds in every behaviour of the ledger.
THEOREM LedgerInvariant == LedgerSpec => []LedgerInv
BY LedgerInvInit, LedgerInvNext, PTL DEF LedgerSpec

-----------------------------------------------------------------------------
(* The theorems. *)

\* Types, unique identifiers of transactions and holdings.
THEOREM LedgerTypes == LedgerSpec => []LedgerTypeOK
<1>1. LedgerInv => LedgerTypeOK
  BY DEF LedgerInv
<1> QED BY <1>1, LedgerInvariant, PTL

\* What an event speaks of is stored and stays, wherever processes died.
THEOREM EventsVouchAlways == LedgerSpec => []EventsVouch
<1>1. LedgerInv => EventsVouch
  BY DEF LedgerInv
<1> QED BY <1>1, LedgerInvariant, PTL

\* Without a crash the portfolio's references agree with what is registered, and no
\* row lacks its event unless its caller got an error.
THEOREM GapsAreAnsweredAlways == LedgerSpec => []GapsAreAnswered
<1>1. LedgerInv => GapsAreAnswered
  BY DEF LedgerInv
<1> QED BY <1>1, LedgerInvariant, PTL

\* No lot is stored without its holding: what a torn snapshot lacks is lots.
THEOREM LotsHaveHoldingsAlways == LedgerSpec => []LotsHaveHoldings
<1>1. LedgerInv => LotsHaveHoldings
  BY DEF LedgerInv
<1> QED BY <1>1, LedgerInvariant, PTL

\* The rows of the replay, later than all others, are the ones shown.
LEMMA NewestIsShown ==
  ASSUME LedgerInv, NEW t \in Times, NEW day,
         \A h \in holdings : h.asOf < t, HoldingsAt(transactions, t, day) # {},
         holdings' = holdings \union HoldingsAt(transactions, t, day),
         lots' = lots \union LotsAt(transactions, t, day)
  PROVE  /\ Latest(holdings') = HoldingsAt(transactions, t, day)
         /\ LotsShown(holdings', lots') = LotsAt(transactions, t, day)
<1> DEFINE hs == HoldingsAt(transactions, t, day)
           ls == LotsAt(transactions, t, day)
<1>0. t \in Int /\ \A h \in holdings : h.asOf \in Int
  BY DEF LedgerInv, LedgerTypeOK, Times
<1>1. \A h \in hs : h.asOf = t
  BY HoldingRow
<1>2. \A row \in ls : \E h \in hs : row.of = HoldingId(h)
  BY LotRow
<1>3. \A row \in lots : \E h \in holdings : row.of = HoldingId(h)
  BY DEF LedgerInv, LotsHaveHoldings
<1>4. \A h \in holdings, g \in hs : HoldingId(h) # HoldingId(g)
  BY <1>0, <1>1, IdHoldsInstant
<1> HIDE DEF hs, ls
<1>5. hs # {} /\ holdings' = holdings \union hs /\ lots' = lots \union ls
  BY DEF hs, ls
<1>6. Latest(holdings') = hs
  BY <1>0, <1>1, <1>5 DEF Latest
<1>7. LotsShown(holdings', lots') = ls
  BY <1>2, <1>3, <1>4, <1>5, <1>6 DEF LotsShown
<1> QED BY <1>6, <1>7 DEF hs, ls

\* A completed rebuild, later than every stored snapshot and with a position to
\* show, is what get_holdings and get_lots return.
THEOREM LaterRebuildShowsAlways == LedgerSpec => LaterRebuildShows
<1> DEFINE Shows ==
      \A t \in Times :
          /\ \E reason \in Reasons : <<"HOLDING_REBUILT", <<t, reason>>>> \in events' \ events
          /\ \A h \in holdings : h.asOf < t
          => \E day \in Dates(t) :
               \/ HoldingsAt(transactions, t, day) = {}
               \/ /\ Latest(holdings') = HoldingsAt(transactions, t, day)
                  /\ LotsShown(holdings', lots') = LotsAt(transactions, t, day)
<1>1. LedgerInv /\ [LedgerNext]_ledgerVars => [Shows]_ledgerVars
  <2> SUFFICES ASSUME LedgerInv, LedgerNext,
                      NEW t \in Times, NEW reason \in Reasons,
                      <<"HOLDING_REBUILT", <<t, reason>>>> \in events' \ events,
                      \A h \in holdings : h.asOf < t
               PROVE  \E day \in Dates(t) :
                         \/ HoldingsAt(transactions, t, day) = {}
                         \/ /\ Latest(holdings') = HoldingsAt(transactions, t, day)
                            /\ LotsShown(holdings', lots') = LotsAt(transactions, t, day)
    OBVIOUS
  <2>1. PICK u \in Times, r \in Reasons : \E day \in Dates(u) : RebuildHoldings(u, day, r)
    <3>0. ASSUME NEW e, e[1] # "HOLDING_REBUILT", RecordEvent(e) \/ Crash PROVE FALSE
      BY <3>0 DEF RecordEvent, Crash
    <3>1. ASSUME NEW x \in Linkables, NEW v \in Times, Link(x, v) PROVE FALSE
      BY <3>0, <3>1 DEF Link
    <3>2. ASSUME NEW s \in PortfolioStatuses, NEW v \in Times, ChangeStatus(s, v) PROVE FALSE
      BY <3>0, <3>2 DEF ChangeStatus
    <3>3. ASSUME NEW s \in Securities, RegisterSecurity(s) PROVE FALSE
      BY <3>0, <3>3 DEF RegisterSecurity
    <3>4. ASSUME NEW x \in Tickets, RecordTransaction(x) PROVE FALSE
      BY <3>0, <3>4 DEF RecordTransaction
    <3> QED BY <3>1, <3>2, <3>3, <3>4 DEF LedgerNext
  <2>2. PICK day \in Dates(u) : RebuildHoldings(u, day, r)
    BY <2>1
  <2>3. /\ events' = events \union {<<"HOLDING_REBUILT", <<u, r>>>>}
        /\ holdings' = holdings \union HoldingsAt(transactions, u, day)
        /\ lots' = lots \union LotsAt(transactions, u, day)
    BY <2>2 DEF RebuildHoldings, RecordEvent, Crash
  <2>4. u = t
    BY <2>3
  <2> QED BY <2>2, <2>3, <2>4, NewestIsShown
<1> QED BY <1>1, LedgerInvariant, PTL DEF LedgerSpec, LaterRebuildShows
=============================================================================
