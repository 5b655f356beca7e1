------------------------- MODULE MCPortfolioLedger -------------------------
(***************************************************************************)
(* Four transactions of two accounts and one security over two days, in    *)
(* which dates, settlement and identifiers disagree about the order.  Two  *)
(* of them are recorded in one of two forms.  The first instant is of the  *)
(* first day or the one before, the second one of the first or the second. *)
(***************************************************************************)
EXTENDS PortfolioLedger

CONSTANTS broker, pension, share, monthly

Ticket(id, account, security, type, quantity, amount, trade, settles) ==
    [id |-> id, account |-> account, security |-> security, type |-> type,
     quantity |-> quantity, amount |-> amount, trade |-> trade, settles |-> settles]

\* The broker's second purchase settles before the first one although its id is
\* larger, or follows a sale that settles after it.  The sale empties one lot, spans
\* two or finds too little.
MCTickets ==
    {Ticket(1, broker, share, "BUY", 2, 3, 0, 1),
     Ticket(2, broker, share, "BUY", 1, 5, 0, 0), Ticket(2, broker, share, "BUY", 2, 5, 1, 1),
     Ticket(3, broker, share, "SELL", 2, 4, 0, 2),
     Ticket(4, pension, share, "BUY", 1, 7, 0, 1),
     Ticket(4, broker, NoSecurity, "DEPOSIT", 0, 9, 0, 0)}

\* The broker's account was linked before.
MCInit ==
    /\ portfolio = [status |-> "ACTIVE", linked |-> {broker}, updated |-> 0]
    /\ registered = {broker}
    /\ events = {<<"LINKED", broker>>}
    /\ securities = {} /\ transactions = {} /\ holdings = {} /\ lots = {}
    /\ refused = {} /\ crashes = 0
MCSpec == MCInit /\ [][LedgerNext]_ledgerVars
=============================================================================
