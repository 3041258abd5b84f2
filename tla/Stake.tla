------------------------------- MODULE Stake -------------------------------
(***************************************************************************)
(* The arithmetic of a session's price: what gateway and node compute, and *)
(* what the contract makes of it.  All amounts are unbounded integers in   *)
(* Python (int), Go (big.Int) and here.                                    *)
(***************************************************************************)
EXTENDS Naturals

CONSTANTS
    Basis,      \* 10000: one part of it is the headroom
    Minimum     \* 300: the contract's least duration in seconds

ASSUME StakeAssumption == Basis \in Nat \ {0} /\ Minimum \in Nat \ {0}

\* The inputs GatewaySessionStake does not refuse
Accepts(price, duration, supply, budget) ==
    /\ price > 0 /\ supply > 0 /\ budget > 0
    /\ duration >= Minimum

\* Mutant of GatewaySessionStake: the headroom is lost.
StakeWithoutHeadroom(price, duration, supply, budget) ==
    (supply * price * duration + budget - 1) \div budget

\* Rounded up: (numerator + denominator - 1) / denominator
GatewaySessionStake(price, duration, supply, budget) ==
    (supply * price * duration * (Basis + 1) + (budget * Basis - 1)) \div (budget * Basis)

\* The contract: the stake's share of the day's budget, and the seconds it pays
Stipend(stake, supply, budget) == (stake * budget) \div supply
Granted(price, stake, supply, budget) == Stipend(stake, supply, budget) \div price

\* "One basis point of bounded headroom covers ordinary supply drift"
Drifted(supply, later) == later > 0 /\ later * Basis <= supply * (Basis + 1)
=============================================================================
