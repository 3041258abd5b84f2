---------------------------- MODULE MCCompletion ----------------------------
(* Completion for two interchangeable requests. *)
EXTENDS Completion, TLC

Symmetry == Permutations(Requests)
=============================================================================
