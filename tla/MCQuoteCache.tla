---------------------------- MODULE MCQuoteCache ----------------------------
(* Two worker threads and two instruments behind the live rate limiter.     *)
EXTENDS LimitedQuotes, TLC

CONSTANTS w1, w2, reliance, tcs

MCThreads == {w1, w2}
MCKeys == {reliance, tcs}

\* The other endpoints pass the same limiter: they may have made two requests before,
\* the second of which came late into the lock, behind the reading of the first.
MCInit ==
    /\ QuoteInit
    /\ gate = [t \in Threads |-> "before"]
    /\ reading = [t \in Threads |-> 0]
    /\ \/ clock = 0 /\ requests = <<>> /\ admitted = <<>>
       \/ clock = 1 /\ requests = <<1, 0>> /\ admitted = <<1, 1>>

MCSpec == MCInit /\ [][LimitedNext]_limitedVars /\ LimitedFairness
=============================================================================
