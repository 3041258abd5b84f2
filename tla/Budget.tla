------------------------------- MODULE Budget -------------------------------
(***************************************************************************)
(* gateway/sessions.py: the preflight of _open against the wallet.  Rows,  *)
(* balance, estimate and stakes are read one after the other, with awaits  *)
(* between them, while sessions end on chain and reconcile, which does not *)
(* take the lock, moves their rows out of the books.  The node computes    *)
(* the stake anew, refuses one above the limit it was given, and the       *)
(* transaction is mined under a later supply.                              *)
(*                                                                         *)
(* All of the wallet's sessions have rows: _open's confirm read does not   *)
(* fail (see FundedTracked), and nobody else uses the wallet.  The policy  *)
(* does not change: a change during the preflight ends it.                 *)
(***************************************************************************)
EXTENDS Stake, Integers, FiniteSetsExt

CONSTANTS
    Sessions,       \* openings, each with its row
    Prices,         \* PricePerSecond of bids
    Supplies,       \* token supplies the node may read
    Emission,       \* the network's emissions budget
    Duration,       \* ModelPolicy.duration_seconds
    MaxPrice, MaxSession, MaxTotal, MinLiquid,  \* Budget of the policy
    Wallets,        \* MOR the wallet may hold at the start
    None

ASSUME BudgetAssumption ==
    /\ IsFiniteSet(Sessions)
    /\ Prices \cup Supplies \cup Wallets \subseteq Nat
    /\ {Emission, Duration, MaxPrice, MaxSession, MaxTotal, MinLiquid} \subseteq Nat
    /\ Duration >= Minimum
    /\ \A w \in Wallets : w >= MinLiquid

VARIABLES
    rows,       \* session -> state and stake_wei of its row
    opening,    \* who holds Sessions.lock: the locals of _open
    tx,         \* the node's work on an open, or None
    escrow,     \* session -> MOR in it, on chain
    hold, available, liquid,    \* MOR on chain
    supply      \* token supply on chain

vars == <<rows, opening, tx, escrow, hold, available, liquid, supply>>
chain == <<tx, escrow, hold, available, liquid, supply>>

NotOpening == [at |-> "idle", row |-> None, price |-> 0, booked |-> 0, mor |-> 0, estimate |-> 0]

\* A request the node has accepted, then the transaction it has sent for it, with
\* the supply it was computed from
Txs == [st : {"asked", "sent"}, row : Sessions, price : Nat, stake : Nat, supply : Nat]

BudgetTypeOK ==
    /\ rows \in [Sessions -> [st : {"none", "opening", "open_unknown", "open", "gone"}, stake : Nat]]
    /\ opening \in [at : {"idle", "balances", "estimate", "stakes", "posted"}, row : Sessions \cup {None},
                    price : Nat, booked : Nat, mor : Nat, estimate : Nat]
    /\ tx \in Txs \cup {None}
    /\ escrow \in [Sessions -> Nat]
    /\ {hold, available, liquid, supply} \subseteq Nat

Init ==
    /\ rows = [s \in Sessions |-> [st |-> "none", stake |-> 0]]
    /\ opening = NotOpening
    /\ tx = None
    /\ escrow = [s \in Sessions |-> 0]
    /\ hold = 0 /\ available = 0 /\ liquid \in Wallets
    /\ supply \in Supplies

-----------------------------------------------------------------------------
(* _open, under Sessions.lock. *)

InDoubt == {s \in Sessions : rows[s].st \in {"opening", "open_unknown"}}

\* The sum of f[s] over S: every unit of MOR is an element of its own.
Units(f, S) == UNION {{s} \X (1..f[s]) : s \in S}
Total(f, S) == Cardinality(Units(f, S))

\* Store.sessions() holds the rows that are not gone.
Booked == Total([s \in Sessions |-> rows[s].stake], {s \in Sessions : rows[s].st # "gone"})

\* candidates: the best rated bid of a permitted provider outside its cooldown
Eligible(price) == 0 < price /\ price <= MaxPrice

\* The rows are read, a bid is chosen.
ReadRows(s, price) ==
    /\ opening.at = "idle"
    /\ rows[s].st = "none"
    /\ InDoubt = {}
    /\ Eligible(price)
    /\ opening' = [opening EXCEPT !.at = "balances", !.row = s, !.price = price, !.booked = Booked]
    /\ UNCHANGED <<rows, chain>>

ReadBalances ==
    /\ opening.at = "balances"
    /\ opening' = [opening EXCEPT !.at = "estimate", !.mor = liquid]
    /\ UNCHANGED <<rows, chain>>

\* Node.estimate: the formula of the node; "budget_unavailable" at zero
ReadEstimate ==
    /\ opening.at = "estimate"
    /\ Emission > 0
    /\ opening' = [opening EXCEPT !.at = "stakes",
                     !.estimate = GatewaySessionStake(opening.price, Duration, supply, Emission)]
    /\ UNCHANGED <<rows, chain>>

\* Mutant of Allocated: what can be withdrawn is left out.
AllocatedUnlessAvailable == opening.booked + hold

Allocated == opening.booked + hold + available

\* Mutant of Limit: the liquid balance may be spent.
LimitWithoutReserve == Min({MaxSession, MaxTotal - Allocated, opening.mor})

\* Any of the three may be negative.
Limit == Min({MaxSession, MaxTotal - Allocated, opening.mor - MinLiquid})

\* Mutant of Affordable: the estimate is only held against the session's limit.
AffordableForSession == 0 < opening.estimate /\ opening.estimate <= MaxSession

\* Not wallet_budget
Affordable == 0 < opening.estimate /\ opening.estimate <= Limit

\* The stakes are read and the durable row is put, with the whole limit reserved.
ReadStakes ==
    /\ opening.at = "stakes"
    /\ Affordable
    /\ rows' = [rows EXCEPT ![opening.row] = [st |-> "opening", stake |-> Limit]]
    /\ opening' = [opening EXCEPT !.at = "posted"]
    /\ tx' = [st |-> "asked", row |-> opening.row, price |-> opening.price,
              stake |-> Limit, supply |-> 0]
    /\ UNCHANGED <<escrow, hold, available, liquid, supply>>

\* A read fails, the policy has changed, or wallet_budget
Refused ==
    /\ opening.at \in {"balances", "estimate", "stakes"}
    /\ opening' = NotOpening
    /\ UNCHANGED <<rows, chain>>

-----------------------------------------------------------------------------
(* The node and the answer. *)

CheckGatewayStake(stake) == 0 < tx.stake /\ stake <= tx.stake

\* The node reads the supply itself, also after the gateway has given up.
NodeSends ==
    LET stake == GatewaySessionStake(tx.price, Duration, supply, Emission) IN
    /\ tx # None /\ tx.st = "asked"
    /\ Accepts(tx.price, Duration, supply, Emission)
    /\ CheckGatewayStake(stake)
    /\ tx' = [tx EXCEPT !.st = "sent", !.stake = stake, !.supply = supply]
    /\ UNCHANGED <<rows, opening, escrow, hold, available, liquid, supply>>

\* The transaction is mined.
Mined ==
    /\ tx # None /\ tx.st = "sent"
    /\ tx.stake <= liquid
    /\ liquid' = liquid - tx.stake
    /\ escrow' = [escrow EXCEPT ![tx.row] = tx.stake]
    /\ tx' = None
    /\ UNCHANGED <<rows, opening, hold, available, supply>>

\* The node refuses, the builder fails or the transaction reverts.
NodeFails ==
    /\ tx # None
    /\ tx' = None
    /\ UNCHANGED <<rows, opening, escrow, hold, available, liquid, supply>>

\* What a row is about once no transaction of its is on its way
Settled(s) == [st |-> IF escrow[s] > 0 THEN "open" ELSE "gone", stake |-> escrow[s]]

\* The node answers and the session is read, or it has refused or failed.
Answered(s) ==
    /\ opening.at = "posted" /\ opening.row = s
    /\ tx = None
    /\ rows' = [rows EXCEPT ![s] = Settled(s)]
    /\ opening' = NotOpening
    /\ UNCHANGED chain

\* The POST times out or is cancelled; the node goes on.
Lost(s) ==
    /\ opening.at = "posted" /\ opening.row = s
    /\ rows' = [rows EXCEPT ![s].st = "open_unknown"]
    /\ opening' = NotOpening
    /\ UNCHANGED chain

-----------------------------------------------------------------------------
(* reconcile and the chain: nobody here takes the lock, except Withdraw. *)

\* The reservation gives way to the stake of the session, or ends with it.
Reconcile(s) ==
    /\ rows[s].st \in {"open_unknown", "open"}
    /\ tx = None
    /\ rows' = [rows EXCEPT ![s] = Settled(s)]
    /\ UNCHANGED <<opening, chain>>

\* A session is closed: its stake is returned, or put on hold first.
Close(s) ==
    /\ escrow[s] > 0
    /\ escrow' = [escrow EXCEPT ![s] = 0]
    /\ \E part \in {0, escrow[s]} : hold' = hold + part /\ liquid' = liquid + escrow[s] - part
    /\ UNCHANGED <<rows, opening, tx, available, supply>>

HoldEnds ==
    /\ hold > 0
    /\ hold' = 0 /\ available' = available + hold
    /\ UNCHANGED <<rows, opening, tx, escrow, liquid, supply>>

\* treasury: under the lock, with nothing in doubt
Withdraw ==
    /\ opening.at = "idle" /\ InDoubt = {}
    /\ available > 0
    /\ available' = 0 /\ liquid' = liquid + available
    /\ UNCHANGED <<rows, opening, tx, escrow, hold, supply>>

Drift ==
    /\ supply' \in Supplies
    /\ UNCHANGED <<rows, opening, tx, escrow, hold, available, liquid>>

Next ==
    \/ \E s \in Sessions :
         \/ \E price \in Prices : ReadRows(s, price)
         \/ Answered(s) \/ Lost(s) \/ Reconcile(s) \/ Close(s)
    \/ ReadBalances \/ ReadEstimate \/ ReadStakes \/ Refused
    \/ NodeSends \/ Mined \/ NodeFails \/ HoldEnds \/ Withdraw \/ Drift

Spec == Init /\ [][Next]_vars

-----------------------------------------------------------------------------
(* Correctness. *)

Pending == IF tx = None THEN 0 ELSE tx.stake   \* as much as the node may send
Locked == Total(escrow, Sessions) + hold + available

(* "The total stake admission ceiling includes tracked live/pending         *)
(* reservations and authoritative contract-held/withdrawable MOR"           *)
(* (docs/RECOVERY-AND-AUDIT-FIXES.md): whatever ends on chain or leaves the *)
(* books while _open reads, the MOR in sessions, on hold, withdrawable and  *)
(* under way never exceeds max_total_stake_wei.                             *)
StakeWithinBudget == Locked + Pending <= MaxTotal

(* An opening leaves min_liquid_mor_wei in the wallet, although the balance *)
(* is read before the estimate and the stakes.                              *)
LiquidKept == liquid - Pending >= MinLiquid

(* The promise of GatewaySessionStake: if the supply drifted by no more     *)
(* than a basis point between the node's read and the block, the contract   *)
(* grants the duration that was asked for.                                  *)
DurationMet ==
    [][ \A s \in Sessions :
          escrow'[s] > escrow[s] /\ Drifted(tx.supply, supply)
            => Granted(tx.price, escrow'[s], supply, Emission) >= Duration ]_vars
=============================================================================
