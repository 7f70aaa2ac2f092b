---------------------------- MODULE MCCheckRunner ----------------------------
(* Instances of CheckRunner for TLC. *)
EXTENDS CheckRunner, TLC

\* Jobs are interchangeable: their ids only keep equal requests apart.
JobSymmetry == Permutations(JobIds)
=============================================================================
