---------------------------- MODULE MarketNames ----------------------------
(***************************************************************************)
(* What the streaming components agree on: browsers and the session        *)
(* manager ask for names, the provider streams instruments, and the        *)
(* instrument cache (GrowwInstrumentCache.find) maps the first to the      *)
(* second.  One instrument has several names (its symbol, its identifier), *)
(* and a name may be listed nowhere.                                       *)
(***************************************************************************)
EXTENDS FiniteSets

CONSTANTS
    Symbols,      \* names, after strip().upper()
    Instruments,  \* what the provider streams
    NamesOf       \* [Instruments -> SUBSET Symbols]

ASSUME NamesAssumption ==
    /\ IsFiniteSet(Symbols)
    /\ NamesOf \in [Instruments -> SUBSET Symbols]

\* instrument_cache.find: the names that stand for a listed instrument ...
Resolved(S) == {s \in S : \E i \in Instruments : s \in NamesOf[i]}

\* ... and _provider_rows: the instruments a set of names stands for.
ProviderRows(S) == {i \in Instruments : NamesOf[i] \intersect S # {}}
=============================================================================
