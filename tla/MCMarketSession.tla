-------------------------- MODULE MCMarketSession --------------------------
(* Clients of the start and stop endpoints, one recording worker thread.    *)
EXTENDS MarketSession, TLC

CONSTANTS operator, observer, worker

MCOneCaller == {operator}
MCTwoCallers == {operator, observer}
MCSymmetry == Permutations(MCTwoCallers)
MCRecorders == {worker}
MCNoRecorders == {}
=============================================================================
