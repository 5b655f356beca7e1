---------------------------- MODULE MCStreamHub ----------------------------
(* Two browsers; one instrument known under two names and one under one.    *)
EXTENDS StreamHub, TLC

CONSTANTS c1, c2, nifty, reliance, relianceId, niftyIndex, relianceShare

MCClients == {c1, c2}
MCSymbols == {nifty, reliance, relianceId}
MCInstruments == {niftyIndex, relianceShare}
MCNamesOf == (niftyIndex :> {nifty}) @@ (relianceShare :> {reliance, relianceId})
=============================================================================
