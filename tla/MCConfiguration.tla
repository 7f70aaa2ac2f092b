-------------------------- MODULE MCConfiguration --------------------------
(***************************************************************************)
(* Configuration for TLC: see Configuration.cfg.                           *)
(***************************************************************************)
EXTENDS Configuration, TLC

CONSTANTS n1, n2, r1, h1

MCNames == {n1, n2}
MCHosts == {h1}
Symmetry == Permutations(MCNames)
MCRuleNames == {r1}
MCPatched == {n1, n2, r1, h1, Blank}
=============================================================================
