---------------------------- MODULE MCGovernance ----------------------------
(***************************************************************************)
(* Constants for checking Governance.                                      *)
(***************************************************************************)
EXTENDS Governance, TLC

CONSTANTS s1, s2, a1, a2, v1, v2, o1, alice, bob

MCSubjects == {s1, s2}
MCActors == {alice, bob}

Symmetric == Permutations(MCSubjects) \union Permutations(MCActors)
=============================================================================
