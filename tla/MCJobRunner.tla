---------------------------- MODULE MCJobRunner ----------------------------
(* Two jobs, alike until they are submitted.                                 *)
EXTENDS JobRunner, TLC

CONSTANTS j1, j2

Alike == Permutations({j1, j2})
=============================================================================
