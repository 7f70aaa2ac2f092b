---------------------------- MODULE MCAlertEngine ----------------------------
(* Instances of AlertEngine for TLC. *)
EXTENDS AlertEngine, TLC

\* Alert ids only tell rows apart.
AlertSymmetry == Permutations(AlertIds)

\* A rule for all channels, or for one of them.
AllOrOne == {{}, {CHOOSE ch \in Channels : TRUE}}
OnlyAll == {{}}
=============================================================================
