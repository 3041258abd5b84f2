---------------------------- MODULE SessionLedger ----------------------------
(***************************************************************************)
(* What the session lifecycle promises about MOR, without rows, journals,  *)
(* retries or crashes: stake is committed for one session at a time and    *)
(* only while there is room next to the sessions on the books that are not *)
(* over, it is held or was never spent, and a session leaves the books     *)
(* only when nothing of it is, or can still come to be, in escrow.         *)
(***************************************************************************)
EXTENDS Naturals, FiniteSets

CONSTANTS
    Sessions,
    Capacity        \* policy.max_sessions

VARIABLES
    money,      \* session -> where its stake is
    books       \* sessions the gateway accounts for

Init == money = [s \in Sessions |-> "wallet"] /\ books = {}

Move(s, from, to) == money[s] = from /\ money' = [money EXCEPT ![s] = to]

Settled == {"unspent", "returned"}

\* Sessions on the books of which something is, or can still come, in escrow.
Carried == {s \in books : money[s] \notin Settled}

\* An opening is posted.
Commit(s) ==
    /\ \A t \in Sessions : money[t] # "committed"
    /\ Cardinality(Carried) < Capacity
    /\ Move(s, "wallet", "committed")
    /\ books' = books \cup {s}

Settle(s) ==
    /\ Move(s, "committed", "escrow") \/ Move(s, "committed", "unspent")
    /\ UNCHANGED books

Return(s) == Move(s, "escrow", "returned") /\ UNCHANGED books

Forget(s) ==
    /\ s \in books
    /\ money[s] \in Settled
    /\ books' = books \ {s}
    /\ UNCHANGED money

\* A coroutine that ends late may put a session back that is over, also between
\* the check of the pool limit and the POST.
Relist(s) ==
    /\ money[s] \in Settled
    /\ books' = books \cup {s}
    /\ UNCHANGED money

Next == \E s \in Sessions : Commit(s) \/ Settle(s) \/ Return(s) \/ Forget(s) \/ Relist(s)

Spec == Init /\ [][Next]_<<money, books>>
=============================================================================
