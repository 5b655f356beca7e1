-------------------------- MODULE PortfolioLedger --------------------------
(***************************************************************************)
(* Portfolio OS (src/backend/app/portfolio_os): PortfolioOSService over    *)
(* the append-only JSONL repository, and FIFOAccountingEngine, for one     *)
(* portfolio that was created.                                             *)
(*                                                                         *)
(* An operation checks, appends one or more rows to files of their own and *)
(* then appends an event to another one.  Nothing spans two files: a       *)
(* process that dies leaves the rows it had appended, and the next one     *)
(* loads them (_load) as they are.  One process writes at a time.          *)
(*                                                                         *)
(* Holdings are derived: rebuild_holdings replays the transactions up to   *)
(* the date of as_of into FIFO lots and stores one row per open position   *)
(* and lot.  That date is read in the time zone of the caller, who may be  *)
(* a day ahead of or behind another one; rows and identifiers hold as_of   *)
(* in UTC.  Rows are never changed; get_holdings shows those with the      *)
(* latest as_of.                                                           *)
(*                                                                         *)
(* There is one currency, and prices exist for every security.  Amounts    *)
(* are integers: of a BUY or a SELL its all-in price per unit, fees and    *)
(* taxes included, of any other transaction its net amount.  An identifier *)
(* that the code hashes from fields is the tuple of these fields.          *)
(***************************************************************************)
EXTENDS Integers, FiniteSets, SequencesExt

CONSTANTS
    Accounts,       \* accounts to register
    References,     \* benchmarks and goals to link
    Securities,     \* securities to register
    NoSecurity,     \* of a transaction without one
    Tickets,        \* the transactions clients may record
    Reasons,        \* reasons given for a rebuild, each with its event_timestamp
    InstantsPerDay, \* timestamps per calendar day
    MaxTime,        \* bound of the model: timestamps
    MaxHoldings,    \* bound of the model: a rebuild starts with fewer stored holdings
    MaxMishaps      \* bound of the model: processes that die and events refused

ASSUME LedgerAssumption ==
    /\ InstantsPerDay \in Nat \ {0}
    /\ MaxTime \in Nat /\ MaxHoldings \in Nat
    /\ MaxMishaps \in Nat
    /\ \A x \in Tickets :
          /\ x.account \in Accounts
          /\ x.security \in Securities \union (IF x.type \in {"BUY", "SELL"} THEN {} ELSE {NoSecurity})

\* A portfolio has finitely many accounts.  A transaction has dates, an identifier and
\* amounts; what is bought or sold is a number of units (validate_transaction).
ASSUME TicketAssumption ==
    /\ IsFiniteSet(Accounts)
    /\ \A x \in Tickets :
          /\ x.id \in Int /\ x.trade \in Int /\ x.settles \in Int /\ x.amount \in Int
          /\ x.type \in {"BUY", "SELL"} => x.quantity \in Nat

VARIABLES
    portfolio,     \* the last row of portfolios.jsonl
    registered,    \* accounts.jsonl, benchmarks.jsonl and goals.jsonl
    securities,    \* securities.jsonl
    transactions,  \* transactions.jsonl
    holdings,      \* holdings.jsonl
    lots,          \* lots.jsonl
    events,        \* events.jsonl
    refused,       \* history: events that were refused, with an error to the caller
    crashes

bookVars == <<transactions, holdings, lots>>
ledgerVars == <<portfolio, registered, securities, bookVars, events, refused, crashes>>

Times == 0..MaxTime
Linkables == Accounts \union References
PortfolioStatuses == {"ACTIVE", "ARCHIVED"}  \* ACTIVE stands for all but ARCHIVED

\* as_of.date(), for callers less than a day away from UTC.
Dates(t) ==
    {(t + offset) \div InstantsPerDay : offset \in (1 - InstantsPerDay)..(InstantsPerDay - 1)}
Days == -1..(MaxTime \div InstantsPerDay + 1)

-----------------------------------------------------------------------------
(* Accounting: the cash ledger and the FIFO replay. *)

IsTrade(x) == x.type \in {"BUY", "SELL"}

\* PortfolioTransaction.validate_transaction
Net(x) ==
    CASE x.type = "BUY"  -> -(x.quantity * x.amount)
      [] x.type = "SELL" -> x.quantity * x.amount
      [] OTHER           -> x.amount

\* calculate_cash_ledger: the balance of an account at the end of a day.
Cash(T, a, day) == MapThenSumSet(Net, {x \in T : x.account = a /\ x.trade <= day})

\* The order of the replay: trade date, settlement date, transaction id.
BeforeBySettlement(x, y) ==  \* a plausible mistake
    \/ x.settles < y.settles
    \/ x.settles = y.settles /\ x.id < y.id
Before(x, y) ==
    \/ x.trade < y.trade
    \/ x.trade = y.trade /\ x.settles < y.settles
    \/ x.trade = y.trade /\ x.settles = y.settles /\ x.id < y.id

Eligible(T, day) == {x \in T : IsTrade(x) /\ x.trade <= day}

\* SetToSortSeq, without trying every sequence.
Ordered(S) ==
    [n \in 1..Cardinality(S) |-> CHOOSE x \in S : Cardinality({y \in S : Before(y, x)}) = n - 1]

PositionOf(x) == <<x.account, x.security>>

\* A BUY opens a lot at the end.
Bought(book, x) ==
    [book EXCEPT !.lots = Append(@, [buy |-> x.id, position |-> PositionOf(x),
                                     quantity |-> x.quantity, remaining |-> x.quantity,
                                     unit |-> x.amount, sources |-> {x.id}])]

\* What a SELL that has sale.left units to go takes from a lot.
TakeFrom(sale, lot, x) ==
    IF lot.position # PositionOf(x) \/ sale.left = 0
    THEN [sale EXCEPT !.lots = Append(@, lot)]
    ELSE LET taken == IF lot.remaining < sale.left THEN lot.remaining ELSE sale.left
         IN  [left |-> sale.left - taken,
              cost |-> sale.cost + taken * lot.unit,
              lots |-> Append(sale.lots, [lot EXCEPT !.remaining = @ - taken,
                                                     !.sources = @ \union {x.id}])]

SaleLifo(book, x) ==  \* a plausible mistake: the newest lots first
    LET sale == FoldRight(LAMBDA lot, s : TakeFrom(s, lot, x), book.lots,
                          [left |-> x.quantity, cost |-> 0, lots |-> <<>>])
    IN  [sale EXCEPT !.lots = Reverse(@)]
Sale(book, x) ==
    FoldLeft(LAMBDA s, lot : TakeFrom(s, lot, x),
             [left |-> x.quantity, cost |-> 0, lots |-> <<>>], book.lots)

RealizedWithoutCost(x, sale) == Net(x)  \* a plausible mistake
Realized(x, sale) == Net(x) - sale.cost

\* A SELL of more than is available raises InsufficientPosition.
Sold(book, x) ==
    LET sale == Sale(book, x)
    IN  IF sale.left > 0 THEN [book EXCEPT !.ok = FALSE]
        ELSE [book EXCEPT !.lots = sale.lots, !.realized = @ + Realized(x, sale)]

NoBook == [ok |-> TRUE, lots |-> <<>>, realized |-> 0]

\* FIFOAccountingEngine.rebuild, up to the rows it returns.
Replay(T, day) ==
    FoldLeft(LAMBDA book, x : IF ~book.ok THEN book
                              ELSE IF x.type = "BUY" THEN Bought(book, x) ELSE Sold(book, x),
             NoBook, Ordered(Eligible(T, day)))

OpenLots(book) == {lot \in ToSet(book.lots) : lot.remaining > 0}

-----------------------------------------------------------------------------
(* The rows of a snapshot. *)

Quantity(ls) == MapThenSumSet(LAMBDA lot : lot.remaining, ls)
CostBasis(ls) == MapThenSumSet(LAMBDA lot : lot.remaining * lot.unit, ls)

HoldingOf(p, open, t) ==
    LET mine == {lot \in open : lot.position = p}
    IN  [position |-> p, asOf |-> t, sources |-> UNION {lot.sources : lot \in mine},
         quantity |-> Quantity(mine), cost |-> CostBasis(mine)]

HoldingId(h) == <<h.position, h.asOf, h.sources>>

\* One row per open position ...
HoldingsAt(T, t, day) ==
    LET open == OpenLots(Replay(T, day))
    IN  {HoldingOf(lot.position, open, t) : lot \in open}

\* ... and one per open lot.
LotCostAsBought(lot) == lot.quantity * lot.unit  \* a plausible mistake
LotCost(lot) == lot.remaining * lot.unit

LotsAt(T, t, day) ==
    LET open == OpenLots(Replay(T, day))
    IN  {[buy |-> lot.buy, asOf |-> t, remaining |-> lot.remaining, cost |-> LotCost(lot),
          of |-> HoldingId(HoldingOf(lot.position, open, t))] : lot \in open}

LotId(row) == <<row.buy, row.asOf, row.remaining>>

\* append_holdings_snapshot refuses a snapshot with a row it has.
IsNewSnapshot(hs, ls) ==
    /\ {HoldingId(h) : h \in hs} \intersect {HoldingId(h) : h \in holdings} = {}
    /\ {LotId(row) : row \in ls} \intersect {LotId(row) : row \in lots} = {}

\* get_holdings and get_lots
EverythingOf(hs) == hs  \* a plausible mistake: all snapshots
Latest(hs) == {h \in hs : \A g \in hs : g.asOf <= h.asOf}

LotsShown(hs, ls) == {row \in ls : row.of \in {HoldingId(h) : h \in Latest(hs)}}

-----------------------------------------------------------------------------
(* The service's operations. *)

LedgerInit ==
    /\ portfolio = [status |-> "ACTIVE", linked |-> {}, updated |-> 0]
    /\ registered = {}
    /\ securities = {}
    /\ transactions = {}
    /\ holdings = {}
    /\ lots = {}
    /\ events = {}
    /\ refused = {}
    /\ crashes = 0

MayGoWrong == crashes + Cardinality(refused) < MaxMishaps

\* The process dies before it appends its next row.
Crash ==
    /\ MayGoWrong
    /\ crashes' = crashes + 1
    /\ UNCHANGED <<events, refused>>

\* _record_event: the end of every operation.  An event that is there already is
\* refused, and so is one with a blank actor or reason or, where the operation has
\* not looked at it before, a timestamp without a time zone: the caller gets an
\* error, and the operation's rows stay.
RecordEventOnce(e) ==  \* a plausible mistake: an event that is there already will do
    /\ \/ events' = events \union {e} /\ UNCHANGED refused
       \/ /\ e \notin events /\ MayGoWrong
          /\ refused' = refused \union {e} /\ UNCHANGED events
    /\ UNCHANGED crashes
RecordEvent(e) ==
    /\ \/ /\ e \notin events
          /\ events' = events \union {e}
          /\ UNCHANGED refused
       \/ /\ e \in events \/ MayGoWrong
          /\ refused' = refused \union {e}
          /\ UNCHANGED events
    /\ UNCHANGED crashes

\* register_account, link_benchmark, add_goal: the row, the portfolio's new
\* version with the reference, the event.
VersionLinkingOnly(x, t) ==  \* a plausible mistake
    [status |-> portfolio.status, linked |-> {x}, updated |-> t]
VersionLinking(x, t) ==
    [status |-> portfolio.status, linked |-> portfolio.linked \union {x}, updated |-> t]

Link(x, t) ==
    /\ t > portfolio.updated
    /\ x \notin registered
    /\ registered' = registered \union {x}
    /\ \/ portfolio' = VersionLinking(x, t) /\ (RecordEvent(<<"LINKED", x>>) \/ Crash)
       \/ Crash /\ UNCHANGED portfolio
    /\ UNCHANGED <<securities, bookVars>>

ChangeStatus(s, t) ==
    /\ portfolio.status # "ARCHIVED"
    /\ t > portfolio.updated
    /\ portfolio' = [status |-> s, linked |-> portfolio.linked, updated |-> t]
    /\ RecordEvent(<<"STATUS_CHANGED", t>>) \/ Crash
    /\ UNCHANGED <<registered, securities, bookVars>>

RegisterSecurity(s) ==
    /\ s \notin securities
    /\ securities' = securities \union {s}
    /\ RecordEvent(<<"SECURITY_REGISTERED", s>>) \/ Crash
    /\ UNCHANGED <<portfolio, registered, bookVars>>

\* record_transaction: the account and the security exist; what is sold may not.
IsRecordableAnywhere(x) == x.security \in securities \union {NoSecurity}  \* a plausible mistake
IsRecordable(x) ==
    /\ x.account \in registered
    /\ x.security \in securities \union {NoSecurity}

IsUnusedRow(x) == x \notin transactions  \* a plausible mistake
IsUnused(x) == \A y \in transactions : y.id # x.id

RecordTransaction(x) ==
    /\ IsRecordable(x)
    /\ IsUnused(x)
    /\ transactions' = transactions \union {x}
    /\ RecordEvent(<<"TRANSACTION_RECORDED", x.id>>) \/ Crash
    /\ UNCHANGED <<portfolio, registered, securities, holdings, lots>>

\* rebuild_holdings: the holdings first, then the lots, each in the order of its
\* hashed identifiers, which may be any; the event last.
RebuildHoldings(t, day, reason) ==
    LET hs == HoldingsAt(transactions, t, day)
        ls == LotsAt(transactions, t, day)
    IN  /\ Cardinality(holdings) < MaxHoldings
        /\ Replay(transactions, day).ok
        /\ IsNewSnapshot(hs, ls)
        /\ \/ /\ holdings' = holdings \union hs
              /\ lots' = lots \union ls
              /\ RecordEvent(<<"HOLDING_REBUILT", <<t, reason>>>>) \/ Crash
           \/ /\ \E some \in SUBSET ls : lots' = lots \union some
              /\ holdings' = holdings \union hs
              /\ Crash
           \/ /\ \E some \in SUBSET hs : holdings' = holdings \union some
              /\ UNCHANGED lots
              /\ Crash
        /\ UNCHANGED <<portfolio, registered, securities, transactions>>

-----------------------------------------------------------------------------

LedgerNext ==
    \/ \E x \in Linkables, t \in Times : Link(x, t)
    \/ \E s \in PortfolioStatuses, t \in Times : ChangeStatus(s, t)
    \/ \E s \in Securities : RegisterSecurity(s)
    \/ \E x \in Tickets : RecordTransaction(x)
    \/ \E t \in Times, reason \in Reasons : \E day \in Dates(t) : RebuildHoldings(t, day, reason)

LedgerSpec == LedgerInit /\ [][LedgerNext]_ledgerVars

-----------------------------------------------------------------------------
(* Properties. *)

AllEvents ==
    ({"LINKED"} \X Linkables) \union ({"STATUS_CHANGED"} \X Times)
        \union ({"SECURITY_REGISTERED"} \X Securities)
        \union ({"TRANSACTION_RECORDED"} \X {x.id : x \in Tickets})
        \union ({"HOLDING_REBUILT"} \X (Times \X Reasons))

\* Types; identifiers of transactions and of holdings are unique.
LedgerTypeOK ==
    /\ portfolio \in [status : PortfolioStatuses, linked : SUBSET Linkables, updated : Times]
    /\ registered \subseteq Linkables
    /\ securities \subseteq Securities
    /\ transactions \subseteq Tickets
    /\ \A x, y \in transactions : x.id = y.id => x = y
    /\ \A h \in holdings : h.asOf \in Times
    /\ \A h, g \in holdings : HoldingId(h) = HoldingId(g) => h = g
    /\ \A row \in lots : row.asOf \in Times /\ row.remaining > 0
    /\ events \subseteq AllEvents /\ refused \subseteq AllEvents
    /\ crashes \in Nat

\* The cash ledger and the FIFO engine read the transactions independently and
\* agree: on every day that can be replayed, the cash of all accounts is what
\* other transactions moved, plus the realized profit, less what the open lots cost.
BooksBalance ==
    \A day \in Days :
        LET book == Replay(transactions, day)
            other == {x \in transactions : ~IsTrade(x) /\ x.trade <= day}
        IN  book.ok =>
              MapThenSumSet(LAMBDA a : Cash(transactions, a, day), Accounts)
                  = MapThenSumSet(Net, other) + book.realized - CostBasis(OpenLots(book))

\* First in, first out, said without a replay: a history can be replayed if and
\* only if no sale, with those before it, exceeds the purchases before it; then a
\* purchase keeps what all sales of its position leave of it after the purchases
\* before it are used up (docs/portfolio-os-accounting-v1.md:13).
LotsAreFifo ==
    \A day \in Days :
        LET T == Eligible(transactions, day)
            book == Replay(transactions, day)
            UpTo(x, type) == {y \in T : y.type = type /\ PositionOf(y) = PositionOf(x)
                                          /\ (y = x \/ Before(y, x))}
            Of(x, type) == {y \in T : y.type = type /\ PositionOf(y) = PositionOf(x)}
            Units(S) == MapThenSumSet(LAMBDA y : y.quantity, S)
            kept(b) == LET n == Units(UpTo(b, "BUY")) - Units(Of(b, "SELL"))
                       IN  IF n < 0 THEN 0 ELSE IF n > b.quantity THEN b.quantity ELSE n
        IN  /\ book.ok <=> \A s \in T : s.type = "SELL" =>
                               Units(UpTo(s, "SELL")) <= Units(UpTo(s, "BUY"))
            /\ book.ok => {<<lot.buy, lot.remaining>> : lot \in ToSet(book.lots)}
                            = {<<b.id, kept(b)>> : b \in {x \in T : x.type = "BUY"}}

\* A snapshot of an earlier day is never lost to what happened later: if the history
\* can be replayed to a day it can be to the one before, and no lot grows
\* as days pass, although settlement may reorder the transactions.
ReplayIsMonotone ==
    \A day \in Days :
        LET book == Replay(transactions, day)
            later == Replay(transactions, day + 1)
        IN  later.ok =>
              /\ book.ok
              /\ \A l \in ToSet(book.lots) : \E m \in ToSet(later.lots) :
                    m.buy = l.buy /\ m.remaining <= l.remaining

\* In every snapshot ever stored, a second one of the same instant included, the
\* lots of a holding add up to it, as reconcile() demands, unless a process died.
SnapshotsReconcile ==
    crashes = 0 => \A h \in holdings :
        LET mine == {row \in lots : row.of = HoldingId(h)}
        IN  /\ h.quantity = MapThenSumSet(LAMBDA row : row.remaining, mine)
            /\ h.cost = MapThenSumSet(LAMBDA row : row.cost, mine)

\* A rebuild that ends, later than every stored snapshot and with a position to
\* show, is what get_holdings and get_lots show, whatever rows a rebuild that died
\* left behind.  (An empty rebuild leaves the snapshot before it on show, and one of
\* the same instant is shown with the rows of the other.)
LaterRebuildShows ==
    [][\A t \in Times :
          /\ \E reason \in Reasons : <<"HOLDING_REBUILT", <<t, reason>>>> \in events' \ events
          /\ \A h \in holdings : h.asOf < t
          => \E day \in Dates(t) :
               \/ HoldingsAt(transactions, t, day) = {}
               \/ /\ Latest(holdings') = HoldingsAt(transactions, t, day)
                  /\ LotsShown(holdings', lots') = LotsAt(transactions, t, day)]_ledgerVars

\* An event is the last thing an operation writes: whatever was lost in a crash,
\* what an event speaks of is stored and stays in force.
EventsVouch ==
    /\ \A x \in Linkables : <<"LINKED", x>> \in events => x \in registered \intersect portfolio.linked
    /\ \A s \in Securities : <<"SECURITY_REGISTERED", s>> \in events => s \in securities
    /\ \A x \in Tickets : <<"TRANSACTION_RECORDED", x.id>> \in events =>
          \E y \in transactions : y.id = x.id

\* The event e was stored, or its caller was told that it was not.
Answered(e) == e \in events \union refused

RebuildsOf(t) == {e \in events : e[1] = "HOLDING_REBUILT" /\ e[2][1] = t}

HoldingsLike(h) == {g \in holdings : g.position = h.position /\ g.asOf = h.asOf}

HoldingAnswered(h) ==
    \/ \E reason \in Reasons : <<"HOLDING_REBUILT", <<h.asOf, reason>>>> \in refused
    \/ Cardinality(HoldingsLike(h)) <= Cardinality(RebuildsOf(h.asOf))

\* Only a crash leaves, without an error to the caller, a row without its event;
\* only a crash leaves a reference outside the portfolio that registered it, or a
\* transaction of an account the portfolio does not list.  For rebuilds: one stores
\* at most one holding per position, so that a position has at an instant no more
\* holdings than the instant has events, unless a rebuild of it ended in an error.
GapsAreAnswered ==
    crashes = 0 =>
        /\ registered = portfolio.linked
        /\ \A x \in registered : Answered(<<"LINKED", x>>)
        /\ \A s \in securities : Answered(<<"SECURITY_REGISTERED", s>>)
        /\ \A x \in transactions :
              Answered(<<"TRANSACTION_RECORDED", x.id>>) /\ x.account \in portfolio.linked
        /\ \A h \in holdings : HoldingAnswered(h)
=============================================================================
