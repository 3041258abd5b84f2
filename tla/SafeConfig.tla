----------------------------- MODULE SafeConfig -----------------------------
(***************************************************************************)
(* What restarts promise about the rating of the node, however many steps, *)
(* files and processes an application of a rating takes: there is one      *)
(* rating that a start-up would use; it is replaced in a single step, and  *)
(* only by a rating the node has been ready with; and the gateway records  *)
(* as applied only that rating.                                            *)
(***************************************************************************)
CONSTANTS Ratings, DefaultRating, None

VARIABLES
    boot,       \* the rating a start-up would use
    proven,     \* ratings the node has been ready with
    applied     \* the rating the gateway shows as applied

Init == boot = DefaultRating /\ proven = {DefaultRating} /\ applied = None

Prove(r) == proven' = proven \cup {r} /\ UNCHANGED <<boot, applied>>

Adopt(r) == r \in proven /\ boot' = r /\ UNCHANGED <<proven, applied>>

Record == applied' = boot /\ UNCHANGED <<boot, proven>>

Next == Record \/ \E r \in Ratings : Prove(r) \/ Adopt(r)

Spec == Init /\ [][Next]_<<boot, proven, applied>>
=============================================================================
