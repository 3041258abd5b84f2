-------------------------- MODULE MCWalletRecovery --------------------------
(* WalletRecovery on small sets of operation identifiers. *)
EXTENDS WalletRecovery, TLC

Symmetry == Permutations(OpenOps) \cup Permutations(CloseOps)
              \cup Permutations(WithdrawOps) \cup Permutations(Passes)
=============================================================================
