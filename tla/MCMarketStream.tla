--------------------------- MODULE MCMarketStream ---------------------------
(* Two browsers, one listed instrument with two names, ltp and depth calls. *)
EXTENDS MarketStream, TLC

CONSTANTS c1, c2, reliance, relianceId, relianceShare

MCClients == {c1, c2}
MCSymbols == {reliance, relianceId}
MCInstruments == {relianceShare}
MCNamesOf == relianceShare :> {reliance, relianceId}
MCTwoChannels == <<"ltp", "depth">>
=============================================================================
