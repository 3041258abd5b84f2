---------------------------- MODULE MCNodeRestart ----------------------------
(* NodeRestart on a few restarts and ratings. *)
EXTENDS NodeRestart
=============================================================================
