------------------------- MODULE MCSessionLifecycle -------------------------
(* SessionLifecycle on small sets of operation identifiers. *)
EXTENDS SessionLifecycle, TLC

\* Operation identifiers are UUIDs: interchangeable within a kind; so are passes.
Symmetry == Permutations(OpenOps) \cup Permutations(CloseOps)
              \cup Permutations(WithdrawOps) \cup Permutations(Passes)
=============================================================================
