---------------------------- MODULE BudgetProofs ----------------------------
(***************************************************************************)
(* The theorems of Stake and Budget.  The stake of gateway_stake.go buys   *)
(* the duration it was computed for, for all amounts: what                 *)
(* gateway_stake_test.go samples, for every input.  The stake budget and   *)
(* the liquid reserve of the policy hold for every wallet, every budget    *)
(* and every number of sessions, although _open reads rows, balance,       *)
(* estimate and stakes one after the other.                                *)
(***************************************************************************)
EXTENDS Budget, TLAPS, FiniteSetTheorems

-----------------------------------------------------------------------------
(* What a stake buys. *)

USE StakeAssumption

\* Division by a positive number: the quotient, between two multiples
LEMMA Quotient ==
    ASSUME NEW n \in Nat, NEW d \in Nat, d > 0
    PROVE  /\ n \div d \in Nat
           /\ d * (n \div d) <= n
           /\ n < d * (n \div d) + d
BY SMT

\* Multiplication keeps the order, and a positive factor may be cancelled.
LEMMA Monotone ==
    ASSUME NEW a \in Nat, NEW b \in Nat, NEW c \in Nat, a <= b
    PROVE  a * c <= b * c
BY SMT

LEMMA Cancel ==
    ASSUME NEW a \in Nat, NEW b \in Nat, NEW c \in Nat, c > 0, a * c <= b * c
    PROVE  a <= b
BY SMT

\* A dividend of at least q divisors has a quotient of at least q.
LEMMA AtLeast ==
    ASSUME NEW n \in Nat, NEW d \in Nat, NEW q \in Nat, d > 0, q * d <= n
    PROVE  q <= n \div d
<1> DEFINE k == n \div d
<1>1. k \in Nat /\ n < d * k + d
  BY Quotient
<1> HIDE DEF k
<1>2. q * d < (k + 1) * d
  BY <1>1, SMT
<1>3. ASSUME k + 1 <= q PROVE FALSE
  <2>1. (k + 1) * d <= q * d
    BY <1>1, <1>3, Monotone
  <2> QED BY <1>1, <1>2, <2>1, SMT
<1>4. q <= k
  BY <1>1, <1>3, SMT
<1> QED BY <1>4 DEF k

\* Rounding up: the quotient times the divisor is no less than the dividend.
LEMMA RoundedUp ==
    ASSUME NEW n \in Nat, NEW d \in Nat, d > 0
    PROVE  /\ (n + (d - 1)) \div d \in Nat
           /\ n <= d * ((n + (d - 1)) \div d)
<1>1. n + (d - 1) \in Nat
  OBVIOUS
<1> DEFINE m == n + (d - 1)
           k == m \div d
<1>2. m \in Nat
  BY <1>1
<1> HIDE DEF m
<1>3. k \in Nat /\ m < d * k + d
  BY <1>2, Quotient
<1> HIDE DEF k
<1>4. n <= d * k
  <2>1. d * k \in Nat
    BY <1>3
  <2> QED BY <1>3, <2>1 DEF m
<1> QED BY <1>3, <1>4 DEF k, m

LEMMA StakeIsNat ==
    ASSUME NEW price \in Nat, NEW duration \in Nat, NEW total \in Nat, NEW budget \in Nat,
           Accepts(price, duration, total, budget)
    PROVE  GatewaySessionStake(price, duration, total, budget) \in Nat
<1>1. total * price * duration * (Basis + 1) \in Nat /\ budget * Basis \in Nat /\ budget * Basis > 0
  BY SMT DEF Accepts
<1> QED BY <1>1, RoundedUp DEF GatewaySessionStake

\* GatewaySessionStake: whatever the price, the duration, the supply and the
\* budget, if the supply has grown by at most one part in Basis when the contract
\* rounds stipend and duration down, the duration is granted.
THEOREM StakeBuysDuration ==
    ASSUME NEW price \in Nat, NEW duration \in Nat, NEW total \in Nat, NEW budget \in Nat,
           NEW later \in Nat, Accepts(price, duration, total, budget), Drifted(total, later)
    PROVE  Granted(price, GatewaySessionStake(price, duration, total, budget), later, budget)
             >= duration
<1> DEFINE work == price * duration
           n == total * price * duration * (Basis + 1)
           d == budget * Basis
           stake == GatewaySessionStake(price, duration, total, budget)
<1>1. /\ price > 0 /\ budget > 0 /\ later > 0
      /\ later * Basis <= total * (Basis + 1)
  BY DEF Accepts, Drifted
<1>2. work \in Nat /\ n \in Nat /\ d \in Nat /\ d > 0
  BY <1>1, SMT
<1>3. n = (total * (Basis + 1)) * work
  BY SMT
<1>4. stake \in Nat /\ n <= d * stake
  BY <1>2, RoundedUp DEF GatewaySessionStake
<1> HIDE DEF work, n, stake
<1>5. (later * Basis) * work <= (total * (Basis + 1)) * work
  BY <1>1, <1>2, Monotone
<1>6. (later * work) * Basis <= (stake * budget) * Basis
  <2>1. (later * work) * Basis = (later * Basis) * work
    BY <1>2, SMT
  <2>2. d * stake = (stake * budget) * Basis
    BY <1>4, SMT
  <2>3. later * work \in Nat /\ stake * budget \in Nat /\ (later * work) * Basis \in Nat
    BY <1>2, <1>4
  <2> QED BY <1>2, <1>3, <1>4, <1>5, <2>1, <2>2, <2>3
<1>7. later * work <= stake * budget
  BY <1>2, <1>4, <1>6, Cancel
<1>8. work <= Stipend(stake, later, budget)
  <2>1. work * later <= stake * budget
    BY <1>2, <1>7, SMT
  <2> QED BY <1>1, <1>2, <1>4, <2>1, AtLeast DEF Stipend
<1>9. Stipend(stake, later, budget) \in Nat
  BY <1>1, <1>4, Quotient DEF Stipend
<1>10. duration <= Stipend(stake, later, budget) \div price
  <2>1. duration * price <= Stipend(stake, later, budget)
    BY <1>8, SMT DEF work
  <2> QED BY <1>1, <1>9, <2>1, AtLeast
<1>11. Stipend(stake, later, budget) \div price \in Nat
  BY <1>1, <1>9, Quotient
<1> QED BY <1>4, <1>10, <1>11 DEF Granted, stake

-----------------------------------------------------------------------------

\* What DurationMet needs of a state: the types it is about, and that the stake of
\* a transaction was computed from the price and the supply noted with it.
OfferInv ==
    /\ supply \in Nat
    /\ escrow \in [Sessions -> Nat]
    /\ opening = [at |-> opening.at, row |-> opening.row, price |-> opening.price,
                  booked |-> opening.booked, mor |-> opening.mor, estimate |-> opening.estimate]
    /\ opening.price \in Nat
    /\ tx # None =>
         /\ tx = [st |-> tx.st, row |-> tx.row, price |-> tx.price,
                  stake |-> tx.stake, supply |-> tx.supply]
         /\ tx.price \in Nat
         /\ tx.st = "sent" =>
              /\ tx.supply \in Nat
              /\ Accepts(tx.price, Duration, tx.supply, Emission)
              /\ tx.stake = GatewaySessionStake(tx.price, Duration, tx.supply, Emission)

LEMMA ConstantTypes ==
    /\ Prices \subseteq Nat /\ Supplies \subseteq Nat
    /\ Emission \in Nat /\ Duration \in Nat
BY BudgetAssumption

LEMMA InitOffer == Init => OfferInv
BY ConstantTypes DEF Init, OfferInv, NotOpening

LEMMA NextOffer == OfferInv /\ [Next]_vars => OfferInv'
<1> SUFFICES ASSUME OfferInv, [Next]_vars PROVE OfferInv'
  OBVIOUS
<1> USE DEF OfferInv
<1>1. ASSUME NEW s \in Sessions, NEW price \in Prices, ReadRows(s, price) PROVE OfferInv'
  BY <1>1, ConstantTypes DEF ReadRows, chain
<1>2. CASE ReadBalances
  BY <1>2 DEF ReadBalances, chain
<1>3. CASE ReadEstimate
  BY <1>3 DEF ReadEstimate, chain
<1>4. CASE ReadStakes
  BY <1>4 DEF ReadStakes
<1>5. CASE Refused
  BY <1>5 DEF Refused, chain, NotOpening
<1>6. CASE NodeSends
  BY <1>6 DEF NodeSends
<1>7. CASE Mined
  <2>1. tx.stake \in Nat
    BY <1>7, ConstantTypes, StakeIsNat DEF Mined
  <2>2. escrow' \in [Sessions -> Nat]
    BY <1>7, <2>1 DEF Mined
  <2> QED BY <1>7, <2>2 DEF Mined
<1>8. CASE NodeFails
  BY <1>8 DEF NodeFails
<1>9. ASSUME NEW s \in Sessions, Answered(s) \/ Lost(s) \/ Reconcile(s) PROVE OfferInv'
  BY <1>9 DEF Answered, Lost, Reconcile, chain, NotOpening
<1>10. ASSUME NEW s \in Sessions, Close(s) PROVE OfferInv'
  BY <1>10 DEF Close
<1>11. CASE HoldEnds \/ Withdraw
  BY <1>11 DEF HoldEnds, Withdraw
<1>12. CASE Drift
  BY <1>12, ConstantTypes DEF Drift
<1>13. CASE UNCHANGED vars
  BY <1>13 DEF vars
<1> QED BY <1>1, <1>2, <1>3, <1>4, <1>5, <1>6, <1>7, <1>8, <1>9, <1>10, <1>11, <1>12, <1>13
        DEF Next

\* _open, the node and the contract: every session that is opened gets the duration
\* of its model, if the supply drifted by no more than the headroom while the
\* transaction was on its way.
THEOREM DurationIsMet == Spec => DurationMet
<1> DEFINE Met == \A s \in Sessions :
                    escrow'[s] > escrow[s] /\ Drifted(tx.supply, supply)
                      => Granted(tx.price, escrow'[s], supply, Emission) >= Duration
<1>1. OfferInv /\ [Next]_vars => [Met]_vars
  <2> SUFFICES ASSUME OfferInv, Next,
                      NEW s \in Sessions, escrow'[s] > escrow[s], Drifted(tx.supply, supply)
               PROVE  Granted(tx.price, escrow'[s], supply, Emission) >= Duration
    OBVIOUS
  <2>1. escrow \in [Sessions -> Nat] /\ escrow[s] \in Nat
    BY DEF OfferInv
  <2>2. ASSUME NEW c \in Sessions, Close(c) PROVE FALSE
    BY <2>1, <2>2 DEF Close
  <2>3. escrow' # escrow
    BY <2>1
  <2>4. Mined
    BY <2>2, <2>3 DEF Next, ReadRows, ReadBalances, ReadEstimate, ReadStakes, Refused, NodeSends,
                      NodeFails, Answered, Lost, Reconcile, HoldEnds, Withdraw, Drift, chain
  <2>5. s = tx.row /\ escrow'[s] = tx.stake
    BY <2>1, <2>4 DEF Mined
  <2> QED BY <2>4, <2>5, ConstantTypes, StakeBuysDuration DEF OfferInv, Mined
<1> QED BY <1>1, InitOffer, NextOffer, PTL DEF Spec, DurationMet

HIDE StakeAssumption

-----------------------------------------------------------------------------
(* The inductive invariant of the budget. *)

Preflight == {"balances", "estimate", "stakes"}

\* The books never hold less than the chain: a row carries at least what is in
\* escrow for it, and one that is not in the books carries nothing.
RowsCover ==
    \A s \in Sessions : /\ escrow[s] <= rows[s].stake
                        /\ rows[s].st \in {"none", "gone"} => escrow[s] = 0

\* What the node is working on is in doubt in the books, and reserved there.
TxReserved ==
    tx # None => /\ rows[tx.row].st \in {"opening", "open_unknown"}
                 /\ tx.stake <= rows[tx.row].stake

\* What _open read before its last await: nothing is on its way meanwhile, so
\* escrow only shrinks and the wallet only fills.
ReadsHold ==
    /\ opening.at \in Preflight =>
         /\ opening.row \in Sessions /\ rows[opening.row].st = "none"
         /\ tx = None
         /\ Total(escrow, Sessions) <= opening.booked
    /\ opening.at \in {"estimate", "stakes"} => opening.mor <= liquid

BudgetInv ==
    BudgetTypeOK /\ RowsCover /\ TxReserved /\ ReadsHold /\ StakeWithinBudget /\ LiquidKept

-----------------------------------------------------------------------------
(* Sums. *)

LEMMA UnitsAre ==
    ASSUME NEW f, NEW S
    PROVE  \A u : u \in Units(f, S) <=> \E s \in S : \E i \in 1..f[s] : u = <<s, i>>
BY DEF Units

\* A finite sum is a number.
LEMMA TotalType ==
    ASSUME NEW S, IsFiniteSet(S), NEW f, \A s \in S : f[s] \in Nat
    PROVE  IsFiniteSet(Units(f, S)) /\ Total(f, S) \in Nat
<1> DEFINE U == {{s} \X (1..f[s]) : s \in S}
           g == [s \in S |-> {s} \X (1..f[s])]
<1>1. g \in Surjection(S, U)
  BY DEF Surjection
<1>2. IsFiniteSet(U)
  <2> HIDE DEF U, g
  <2> QED
    BY <1>1, FS_Surjection
<1>3. \A s \in S : IsFiniteSet({s} \X (1..f[s]))
  <2> SUFFICES ASSUME NEW s \in S PROVE IsFiniteSet({s} \X (1..f[s]))
    OBVIOUS
  <2>1. IsFiniteSet({s})
    BY FS_Singleton
  <2>2. IsFiniteSet(1..f[s])
    <3>1. 1 \in Int /\ f[s] \in Int
      OBVIOUS
    <3> QED
      BY <3>1, FS_Interval
  <2> QED
    BY <2>1, <2>2, FS_Product
<1>4. IsFiniteSet(UNION U)
  BY <1>2, <1>3, FS_UNION
<1> QED
  BY <1>4, FS_CardinalityType DEF Units, Total

\* A sum of less over fewer is less.
LEMMA TotalLess ==
    ASSUME NEW S, IsFiniteSet(S), NEW T, IsFiniteSet(T), NEW f, NEW g,
           \A s \in S : f[s] \in Nat, \A s \in T : g[s] \in Nat,
           \A s \in S : f[s] > 0 => s \in T /\ f[s] <= g[s]
    PROVE  Total(f, S) <= Total(g, T)
<1>1. IsFiniteSet(Units(g, T))
  BY TotalType
<1>2. \A u \in Units(f, S) : u \in Units(g, T)
  <2> SUFFICES ASSUME NEW s \in S, NEW i \in 1..f[s] PROVE <<s, i>> \in Units(g, T)
    BY UnitsAre
  <2>1. s \in T /\ i \in 1..g[s]
    OBVIOUS
  <2> QED
    BY <2>1, UnitsAre
<1> QED
  BY <1>1, <1>2, FS_Subset DEF Total

\* One summand taken out.
LEMMA TotalSplit ==
    ASSUME NEW S, IsFiniteSet(S), NEW f, \A s \in S : f[s] \in Nat, NEW s \in S
    PROVE  Total(f, S) = Total(f, S \ {s}) + f[s]
<1> DEFINE A == Units(f, S \ {s})
           B == {s} \X (1..f[s])
<1>0. IsFiniteSet(S \ {s})
  BY FS_RemoveElement
<1>1. IsFiniteSet(A) /\ Cardinality(A) \in Nat
  BY <1>0, TotalType, FS_CardinalityType
<1>2. IsFiniteSet(B) /\ Cardinality(B) = f[s]
  <2>1. IsFiniteSet({s}) /\ Cardinality({s}) = 1
    BY FS_Singleton
  <2>2. IsFiniteSet(1..f[s]) /\ Cardinality(1..f[s]) = f[s]
    BY FS_Interval
  <2>3. IsFiniteSet(B) /\ Cardinality(B) = Cardinality({s}) * Cardinality(1..f[s])
    BY <2>1, <2>2, FS_Product
  <2> QED
    BY <2>1, <2>2, <2>3
<1>3. Units(f, S) = A \cup B
  <2>1. \A u : u \in B <=> \E i \in 1..f[s] : u = <<s, i>>
    OBVIOUS
  <2>2. \A u : u \in A <=> \E t \in S \ {s} : \E i \in 1..f[t] : u = <<t, i>>
    BY UnitsAre
  <2> HIDE DEF A, B
  <2>3. \A u : u \in Units(f, S) <=> u \in A \cup B
    BY <2>1, <2>2, UnitsAre
  <2> QED
    BY <2>3
<1>4. A \cap B = {}
  BY UnitsAre
<1> HIDE DEF A, B
<1>5. Cardinality(A \cup B) = Cardinality(A) + Cardinality(B) - Cardinality({})
  BY <1>1, <1>2, <1>4, FS_Union
<1>6. Cardinality({}) = 0
  BY FS_EmptySet
<1>7. Cardinality(A \cup B) = Cardinality(A) + f[s]
  BY <1>1, <1>2, <1>5, <1>6
<1> QED
  BY <1>3, <1>7 DEF Total, A

\* One summand changed.
LEMMA TotalSet ==
    ASSUME NEW S, IsFiniteSet(S), NEW f \in [S -> Nat], NEW g \in [S -> Nat], NEW s \in S,
           \A t \in S \ {s} : g[t] = f[t]
    PROVE  Total(g, S) = Total(f, S) - f[s] + g[s]
<1>1. IsFiniteSet(S \ {s})
  BY FS_RemoveElement
<1>2. Total(g, S \ {s}) = Total(f, S \ {s})
  <2>1. \A u : u \in Units(g, S \ {s}) <=> u \in Units(f, S \ {s})
    BY UnitsAre
  <2>2. Units(g, S \ {s}) = Units(f, S \ {s})
    BY <2>1
  <2> QED
    BY <2>2 DEF Total
<1>3. Total(f, S) = Total(f, S \ {s}) + f[s]
  BY TotalSplit
<1>4. Total(g, S) = Total(g, S \ {s}) + g[s]
  BY TotalSplit
<1>5. Total(f, S \ {s}) \in Nat
  BY <1>1, TotalType
<1> QED
  BY <1>2, <1>3, <1>4, <1>5

-----------------------------------------------------------------------------
(* What the reads of _open mean. *)

LEMMA Policy ==
    /\ IsFiniteSet(Sessions) /\ Emission \in Nat /\ Duration \in Nat
    /\ MaxSession \in Nat /\ MaxTotal \in Nat /\ MinLiquid \in Nat
    /\ Prices \subseteq Nat /\ Supplies \subseteq Nat /\ Wallets \subseteq Nat
    /\ \A w \in Wallets : w >= MinLiquid
BY BudgetAssumption

\* Min on three numbers.
LEMMA LeastOfThree ==
    ASSUME NEW a \in Int, NEW b \in Int, NEW c \in Int
    PROVE  /\ Min({a, b, c}) \in {a, b, c}
           /\ Min({a, b, c}) <= a /\ Min({a, b, c}) <= b /\ Min({a, b, c}) <= c
<1>1. \E x \in {a, b, c} : \A y \in {a, b, c} : x <= y
  <2>1. CASE a <= b /\ a <= c
    BY <2>1
  <2>2. CASE b <= a /\ b <= c
    BY <2>2
  <2>3. CASE c <= a /\ c <= b
    BY <2>3
  <2> QED
    BY <2>1, <2>2, <2>3
<1>2. /\ Min({a, b, c}) \in {a, b, c}
      /\ \A y \in {a, b, c} : Min({a, b, c}) <= y
  BY <1>1 DEF Min
<1> QED
  BY <1>2

LEMMA EstimateIsNat ==
    ASSUME NEW price \in Nat, NEW duration \in Nat, NEW total \in Nat, NEW budget \in Nat,
           budget > 0
    PROVE  GatewaySessionStake(price, duration, total, budget) \in Nat
<1>1. total * price * duration * (Basis + 1) \in Nat /\ budget * Basis \in Nat /\ budget * Basis > 0
  BY StakeAssumption, SMT
<1> QED
  BY <1>1, RoundedUp DEF GatewaySessionStake

LEMMA Fields ==
    ASSUME BudgetTypeOK
    PROVE  /\ opening.price \in Nat /\ opening.booked \in Nat /\ opening.mor \in Nat
           /\ opening.estimate \in Nat
           /\ hold \in Nat /\ available \in Nat /\ liquid \in Nat /\ supply \in Nat
           /\ rows \in [Sessions -> [st : {"none", "opening", "open_unknown", "open", "gone"},
                                     stake : Nat]]
           /\ \A s \in Sessions : rows[s].stake \in Nat /\ escrow[s] \in Nat
           /\ escrow \in [Sessions -> Nat]
           /\ tx # None => /\ tx \in Txs /\ tx.row \in Sessions /\ tx.price \in Nat
                           /\ tx.stake \in Nat
           /\ Pending \in Nat
BY DEF BudgetTypeOK, Txs, Pending

\* What an opening that can be afforded may cost.
LEMMA LimitIs ==
    ASSUME BudgetTypeOK, Affordable
    PROVE  /\ Limit \in Nat
           /\ opening.booked + hold + available + Limit <= MaxTotal
           /\ Limit + MinLiquid <= opening.mor
<1>1. /\ MaxSession \in Int /\ MaxTotal - Allocated \in Int /\ opening.mor - MinLiquid \in Int
      /\ Allocated = opening.booked + hold + available /\ Allocated \in Nat
      /\ opening.mor \in Nat /\ opening.estimate \in Nat /\ MaxTotal \in Nat /\ MinLiquid \in Nat
  BY Policy, Fields DEF Allocated
<1>2. /\ Limit \in {MaxSession, MaxTotal - Allocated, opening.mor - MinLiquid}
      /\ Limit <= MaxTotal - Allocated /\ Limit <= opening.mor - MinLiquid
  BY <1>1, LeastOfThree DEF Limit
<1>3. 0 < opening.estimate /\ opening.estimate <= Limit
  BY DEF Affordable
<1> QED
  BY <1>1, <1>2, <1>3

LEMMA EscrowTotal ==
    ASSUME BudgetTypeOK
    PROVE  Total(escrow, Sessions) \in Nat
BY Policy, Fields, TotalType

\* What the rows are read as covers what is in escrow.
LEMMA BookedCovers ==
    ASSUME BudgetTypeOK, RowsCover
    PROVE  Booked \in Nat /\ Total(escrow, Sessions) <= Booked
<1> DEFINE T == {s \in Sessions : rows[s].st # "gone"}
           g == [s \in Sessions |-> rows[s].stake]
<1>1. IsFiniteSet(T) /\ IsFiniteSet(Sessions)
  BY Policy, FS_Subset
<1>2. \A s \in T : g[s] \in Nat
  BY Fields
<1>3. \A s \in Sessions : escrow[s] \in Nat /\ (escrow[s] > 0 => s \in T /\ escrow[s] <= g[s])
  BY Fields DEF RowsCover
<1>4. Booked = Total(g, T)
  BY DEF Booked
<1> HIDE DEF T, g
<1> QED
  BY <1>1, <1>2, <1>3, <1>4, TotalLess, TotalType

-----------------------------------------------------------------------------
(* The steps of _open. *)

LEMMA InitBudget == Init => BudgetInv
<1> SUFFICES ASSUME Init PROVE BudgetInv
  OBVIOUS
<1>1. BudgetTypeOK
  BY Policy DEF Init, BudgetTypeOK, NotOpening
<1>2. Total(escrow, Sessions) = 0
  <2>1. Units(escrow, Sessions) = {}
    BY DEF Init, Units
  <2> QED
    BY <2>1, FS_EmptySet DEF Total
<1>3. RowsCover /\ TxReserved /\ ReadsHold
  BY DEF Init, RowsCover, TxReserved, ReadsHold, Preflight, NotOpening
<1>4. StakeWithinBudget /\ LiquidKept
  BY <1>2, Policy DEF Init, StakeWithinBudget, LiquidKept, Locked, Pending
<1> QED
  BY <1>1, <1>3, <1>4 DEF BudgetInv

\* The reads of the preflight change nothing but what _open knows.
LEMMA ReadsBudget ==
    ASSUME BudgetInv,
           \/ \E s \in Sessions : \E price \in Prices : ReadRows(s, price)
           \/ ReadBalances \/ ReadEstimate \/ Refused
    PROVE  BudgetInv'
<1>0. BudgetTypeOK /\ RowsCover /\ TxReserved /\ ReadsHold /\ StakeWithinBudget /\ LiquidKept
  BY DEF BudgetInv
<1>u. UNCHANGED <<rows, tx, escrow, hold, available, liquid, supply>>
  BY DEF ReadRows, ReadBalances, ReadEstimate, Refused, chain
<1>k. RowsCover' /\ TxReserved' /\ StakeWithinBudget' /\ LiquidKept'
  BY <1>0, <1>u DEF RowsCover, TxReserved, StakeWithinBudget, LiquidKept, Locked, Pending
<1>1. ASSUME NEW s \in Sessions, NEW price \in Prices, ReadRows(s, price)
      PROVE  BudgetTypeOK' /\ ReadsHold'
  <2>1. Booked \in Nat /\ Total(escrow, Sessions) <= Booked
    BY <1>0, BookedCovers
  <2>2. price \in Nat
    BY Policy
  <2>3. tx = None
    BY <1>0, <1>1, Fields DEF ReadRows, InDoubt, TxReserved
  <2>4. opening' = [opening EXCEPT !.at = "balances", !.row = s, !.price = price, !.booked = Booked]
    BY <1>1 DEF ReadRows
  <2>5. /\ opening'.at = "balances" /\ opening'.row = s /\ opening'.booked = Booked
        /\ BudgetTypeOK'
    BY <1>0, <1>u, <2>1, <2>2, <2>4 DEF BudgetTypeOK
  <2> QED
    BY <1>1, <1>u, <2>1, <2>3, <2>5 DEF ReadRows, ReadsHold
<1>2. CASE ReadBalances
  <2>1. opening' = [opening EXCEPT !.at = "estimate", !.mor = liquid] /\ opening.at = "balances"
    BY <1>2 DEF ReadBalances
  <2>2. /\ opening'.at = "estimate" /\ opening'.row = opening.row
        /\ opening'.booked = opening.booked /\ opening'.mor = liquid
        /\ BudgetTypeOK'
    BY <1>0, <1>u, <2>1 DEF BudgetTypeOK
  <2>3. ReadsHold'
    BY <1>0, <1>u, <2>1, <2>2, Fields DEF ReadsHold, Preflight
  <2> QED
    BY <1>k, <2>2, <2>3 DEF BudgetInv
<1>3. CASE ReadEstimate
  <2> DEFINE stake == GatewaySessionStake(opening.price, Duration, supply, Emission)
  <2>1. stake \in Nat
    BY <1>0, <1>3, Fields, Policy, EstimateIsNat DEF ReadEstimate
  <2> HIDE DEF stake
  <2>2. opening' = [opening EXCEPT !.at = "stakes", !.estimate = stake] /\ opening.at = "estimate"
    BY <1>3 DEF ReadEstimate, stake
  <2>3. /\ opening'.at = "stakes" /\ opening'.row = opening.row
        /\ opening'.booked = opening.booked /\ opening'.mor = opening.mor
        /\ BudgetTypeOK'
    BY <1>0, <1>u, <2>1, <2>2 DEF BudgetTypeOK
  <2>4. ReadsHold'
    BY <1>0, <1>u, <2>2, <2>3 DEF ReadsHold, Preflight
  <2> QED
    BY <1>k, <2>3, <2>4 DEF BudgetInv
<1>4. CASE Refused
  <2>1. BudgetTypeOK'
    BY <1>0, <1>4, <1>u DEF BudgetTypeOK, Refused, NotOpening
  <2>2. ReadsHold'
    BY <1>4 DEF Refused, NotOpening, ReadsHold, Preflight
  <2> QED
    BY <1>k, <2>1, <2>2 DEF BudgetInv
<1> QED
  BY <1>k, <1>1, <1>2, <1>3, <1>4 DEF BudgetInv

\* The limit keeps the promise because the stale reads erred on the safe side.
LEMMA ReadStakesBudget ==
    ASSUME BudgetInv, ReadStakes
    PROVE  BudgetInv'
<1>0. BudgetTypeOK /\ RowsCover /\ TxReserved /\ ReadsHold /\ StakeWithinBudget /\ LiquidKept
  BY DEF BudgetInv
<1>1. /\ opening.at = "stakes" /\ Affordable
      /\ opening' = [opening EXCEPT !.at = "posted"]
      /\ rows' = [rows EXCEPT ![opening.row] = [st |-> "opening", stake |-> Limit]]
      /\ tx' = [st |-> "asked", row |-> opening.row, price |-> opening.price,
                stake |-> Limit, supply |-> 0]
      /\ UNCHANGED <<escrow, hold, available, liquid, supply>>
  BY DEF ReadStakes
<1>2. /\ opening.row \in Sessions /\ rows[opening.row].st = "none" /\ escrow[opening.row] = 0
      /\ tx = None /\ Total(escrow, Sessions) <= opening.booked /\ opening.mor <= liquid
  BY <1>0, <1>1 DEF ReadsHold, RowsCover, Preflight
<1>3. /\ Limit \in Nat
      /\ opening.booked + hold + available + Limit <= MaxTotal
      /\ Limit + MinLiquid <= opening.mor
  BY <1>0, <1>1, LimitIs
<1> DEFINE lim == Limit
<1>4. /\ rows' = [rows EXCEPT ![opening.row] = [st |-> "opening", stake |-> lim]]
      /\ tx' = [st |-> "asked", row |-> opening.row, price |-> opening.price,
                stake |-> lim, supply |-> 0]
      /\ lim \in Nat /\ opening.booked + hold + available + lim <= MaxTotal
      /\ lim + MinLiquid <= opening.mor
  BY <1>1, <1>3
<1> HIDE DEF lim
<1>5. tx' \in Txs
  BY <1>0, <1>2, <1>4, Fields DEF Txs
<1>6. opening'.at = "posted"
  BY <1>0, <1>1 DEF BudgetTypeOK
<1>7. BudgetTypeOK'
  <2>1. rows' \in [Sessions -> [st : {"none", "opening", "open_unknown", "open", "gone"}, stake : Nat]]
    BY <1>0, <1>4, Fields
  <2> QED
    BY <1>0, <1>1, <1>5, <2>1 DEF BudgetTypeOK
<1>8. RowsCover'
  BY <1>0, <1>1, <1>2, <1>4, Fields DEF RowsCover
<1>9. TxReserved' /\ ReadsHold'
  BY <1>0, <1>2, <1>4, <1>6, Fields DEF TxReserved, ReadsHold, Preflight
<1>10. tx'.stake = lim /\ (Pending' = lim \/ Pending' = 0)
  BY <1>4 DEF Pending
<1>11. StakeWithinBudget'
  BY <1>0, <1>1, <1>2, <1>4, <1>10, Fields, EscrowTotal, Policy DEF StakeWithinBudget, Locked
<1>12. LiquidKept'
  BY <1>0, <1>1, <1>2, <1>4, <1>10, Fields, Policy DEF LiquidKept
<1> QED
  BY <1>7, <1>8, <1>9, <1>11, <1>12 DEF BudgetInv

\* A row is settled, or its opening falls into doubt.
LEMMA AnswersBudget ==
    ASSUME BudgetInv, NEW s \in Sessions, Answered(s) \/ Lost(s) \/ Reconcile(s)
    PROVE  BudgetInv'
<1>0. BudgetTypeOK /\ RowsCover /\ TxReserved /\ ReadsHold /\ StakeWithinBudget /\ LiquidKept
  BY DEF BudgetInv
<1>u. UNCHANGED <<tx, escrow, hold, available, liquid, supply>>
  BY DEF Answered, Lost, Reconcile, chain
<1>k. StakeWithinBudget' /\ LiquidKept'
  BY <1>0, <1>u DEF StakeWithinBudget, LiquidKept, Locked, Pending
<1>1. \E row : /\ rows' = [rows EXCEPT ![s] = row]
               /\ row \in [st : {"open_unknown", "open", "gone"}, stake : Nat]
               /\ escrow[s] <= row.stake
               /\ row.st = "gone" => escrow[s] = 0
               /\ tx # None => row.st = "open_unknown" /\ row.stake = rows[s].stake
  <2>1. CASE Answered(s) \/ Reconcile(s)
    <3>1. rows' = [rows EXCEPT ![s] = Settled(s)] /\ tx = None
      BY <2>1 DEF Answered, Reconcile
    <3>2. /\ Settled(s) \in [st : {"open_unknown", "open", "gone"}, stake : Nat]
          /\ Settled(s).stake = escrow[s] /\ (Settled(s).st = "gone" => escrow[s] = 0)
      BY <1>0, Fields DEF Settled
    <3> DEFINE row == Settled(s)
    <3>3. /\ rows' = [rows EXCEPT ![s] = row] /\ tx = None
          /\ row \in [st : {"open_unknown", "open", "gone"}, stake : Nat]
          /\ escrow[s] <= row.stake /\ (row.st = "gone" => escrow[s] = 0)
      BY <1>0, <3>1, <3>2, Fields
    <3> HIDE DEF row
    <3> QED
      BY <3>3
  <2>2. CASE Lost(s)
    <3> DEFINE row == [rows[s] EXCEPT !.st = "open_unknown"]
    <3>1. rows' = [rows EXCEPT ![s] = row]
      BY <2>2 DEF Lost
    <3>2. /\ row \in [st : {"open_unknown", "open", "gone"}, stake : Nat]
          /\ row.st = "open_unknown" /\ row.stake = rows[s].stake
      BY <1>0, Fields
    <3> HIDE DEF row
    <3> QED
      BY <1>0, <3>1, <3>2 DEF RowsCover
  <2> QED
    BY <2>1, <2>2
<1>2. PICK row : /\ rows' = [rows EXCEPT ![s] = row]
                 /\ row \in [st : {"open_unknown", "open", "gone"}, stake : Nat]
                 /\ escrow[s] <= row.stake
                 /\ row.st = "gone" => escrow[s] = 0
                 /\ tx # None => row.st = "open_unknown" /\ row.stake = rows[s].stake
  BY <1>1
<1>3. /\ rows' \in [Sessions -> [st : {"none", "opening", "open_unknown", "open", "gone"}, stake : Nat]]
      /\ row.st \in {"open_unknown", "open", "gone"}
      /\ \A t \in Sessions : rows'[t] = IF t = s THEN row ELSE rows[t]
  BY <1>0, <1>2, Fields
<1>4. opening' = NotOpening \/ (opening' = opening /\ rows[s].st # "none")
  BY DEF Answered, Lost, Reconcile
<1>5. BudgetTypeOK'
  BY <1>0, <1>3, <1>4, <1>u DEF BudgetTypeOK, NotOpening
<1>6. RowsCover'
  BY <1>0, <1>2, <1>3, <1>u DEF RowsCover
<1>7. TxReserved'
  BY <1>0, <1>2, <1>3, <1>u, Fields DEF TxReserved
<1>8. ReadsHold'
  BY <1>0, <1>3, <1>4, <1>u DEF ReadsHold, NotOpening, Preflight
<1> QED
  BY <1>k, <1>5, <1>6, <1>7, <1>8 DEF BudgetInv

-----------------------------------------------------------------------------
(* The steps of the node and of the chain. *)

LEMMA NodeBudget ==
    ASSUME BudgetInv, NodeSends \/ NodeFails
    PROVE  BudgetInv'
<1>0. BudgetTypeOK /\ RowsCover /\ TxReserved /\ ReadsHold /\ StakeWithinBudget /\ LiquidKept
  BY DEF BudgetInv
<1>u. tx # None /\ UNCHANGED <<rows, opening, escrow, hold, available, liquid, supply>>
  BY DEF NodeSends, NodeFails
<1>1. /\ tx' # None => /\ tx' \in Txs /\ tx'.row = tx.row /\ tx'.stake <= tx.stake
                       /\ tx'.stake \in Nat
      /\ tx' \in Txs \cup {None}
  <2>1. CASE NodeSends
    <3> DEFINE stake == GatewaySessionStake(tx.price, Duration, supply, Emission)
    <3>1. /\ tx' = [tx EXCEPT !.st = "sent", !.stake = stake, !.supply = supply]
          /\ stake <= tx.stake /\ Accepts(tx.price, Duration, supply, Emission)
      BY <2>1 DEF NodeSends, CheckGatewayStake
    <3>2. stake \in Nat
      BY <1>0, <1>u, <3>1, Fields, Policy, StakeIsNat
    <3> HIDE DEF stake
    <3>3. tx \in Txs /\ supply \in Nat
      BY <1>0, <1>u, Fields
    <3>4. tx' \in Txs /\ tx'.row = tx.row /\ tx'.stake = stake
      BY <3>1, <3>2, <3>3 DEF Txs
    <3> QED
      BY <3>1, <3>2, <3>4
  <2>2. CASE NodeFails
    BY <2>2 DEF NodeFails
  <2> QED
    BY <2>1, <2>2
<1>2. BudgetTypeOK'
  BY <1>0, <1>1, <1>u DEF BudgetTypeOK
<1>3. RowsCover' /\ ReadsHold'
  BY <1>0, <1>u DEF RowsCover, ReadsHold
<1>4. TxReserved'
  BY <1>0, <1>1, <1>u, Fields DEF TxReserved
<1>5. Pending' \in Nat /\ Pending' <= Pending /\ Pending \in Nat
  BY <1>0, <1>1, <1>u, Fields DEF Pending
<1>6. StakeWithinBudget' /\ LiquidKept'
  BY <1>0, <1>5, <1>u, Fields, EscrowTotal, Policy DEF StakeWithinBudget, LiquidKept, Locked
<1> QED
  BY <1>2, <1>3, <1>4, <1>6 DEF BudgetInv

\* A transaction that is mined turns a reservation into escrow.
LEMMA MinedBudget ==
    ASSUME BudgetInv, Mined
    PROVE  BudgetInv'
<1>0. BudgetTypeOK /\ RowsCover /\ TxReserved /\ ReadsHold /\ StakeWithinBudget /\ LiquidKept
  BY DEF BudgetInv
<1>1. /\ tx # None /\ tx.stake <= liquid /\ liquid' = liquid - tx.stake
      /\ escrow' = [escrow EXCEPT ![tx.row] = tx.stake] /\ tx' = None
      /\ UNCHANGED <<rows, opening, hold, available, supply>>
  BY DEF Mined
<1>2. tx.row \in Sessions /\ tx.stake \in Nat /\ Pending = tx.stake /\ Pending' = 0
  BY <1>0, <1>1, Fields DEF Pending
<1>3. BudgetTypeOK'
  <2>1. escrow' \in [Sessions -> Nat] /\ liquid' \in Nat
    BY <1>0, <1>1, <1>2, Fields
  <2> QED
    BY <1>0, <1>1, <2>1 DEF BudgetTypeOK
<1>4. RowsCover'
  BY <1>0, <1>1, <1>2, Fields DEF RowsCover, TxReserved
<1>5. TxReserved' /\ ReadsHold'
  BY <1>0, <1>1 DEF TxReserved, ReadsHold, Preflight
<1>6. Total(escrow', Sessions) = Total(escrow, Sessions) - escrow[tx.row] + tx.stake
  <2>1. escrow \in [Sessions -> Nat] /\ IsFiniteSet(Sessions)
    BY <1>0, Fields, Policy
  <2>2. /\ escrow' \in [Sessions -> Nat] /\ escrow'[tx.row] = tx.stake
        /\ \A t \in Sessions \ {tx.row} : escrow'[t] = escrow[t]
    BY <1>1, <1>2, <2>1
  <2>3. Total(escrow', Sessions) = Total(escrow, Sessions) - escrow[tx.row] + escrow'[tx.row]
    BY <1>2, <2>1, <2>2, TotalSet
  <2> QED
    BY <2>2, <2>3
<1>7. Total(escrow', Sessions) <= Total(escrow, Sessions) + tx.stake
  BY <1>0, <1>2, <1>6, Fields, EscrowTotal
<1>8. Total(escrow', Sessions) \in Nat
  BY <1>3, Policy, TotalType DEF BudgetTypeOK
<1>9. StakeWithinBudget' /\ LiquidKept'
  BY <1>0, <1>1, <1>2, <1>7, <1>8, Fields, EscrowTotal, Policy
     DEF StakeWithinBudget, LiquidKept, Locked
<1> QED
  BY <1>3, <1>4, <1>5, <1>9 DEF BudgetInv

LEMMA CloseBudget ==
    ASSUME BudgetInv, NEW s \in Sessions, Close(s)
    PROVE  BudgetInv'
<1>0. BudgetTypeOK /\ RowsCover /\ TxReserved /\ ReadsHold /\ StakeWithinBudget /\ LiquidKept
  BY DEF BudgetInv
<1>1. PICK part \in {0, escrow[s]} : hold' = hold + part /\ liquid' = liquid + escrow[s] - part
  BY DEF Close
<1>2. /\ escrow' = [escrow EXCEPT ![s] = 0]
      /\ UNCHANGED <<rows, opening, tx, available, supply>>
  BY DEF Close
<1>3. escrow[s] \in Nat /\ part \in Nat /\ part <= escrow[s]
  BY <1>0, Fields
<1>4. escrow' \in [Sessions -> Nat] /\ hold' \in Nat /\ liquid' \in Nat /\ liquid' >= liquid
  BY <1>0, <1>1, <1>2, <1>3, Fields
<1>5. BudgetTypeOK'
  BY <1>0, <1>2, <1>4 DEF BudgetTypeOK
<1>6. RowsCover' /\ TxReserved'
  BY <1>0, <1>2, Fields DEF RowsCover, TxReserved
<1>7. /\ Total(escrow', Sessions) = Total(escrow, Sessions) - escrow[s]
      /\ Total(escrow', Sessions) \in Nat
  <2>1. /\ escrow \in [Sessions -> Nat] /\ IsFiniteSet(Sessions)
        /\ escrow'[s] = 0 /\ \A t \in Sessions \ {s} : escrow'[t] = escrow[t]
    BY <1>0, <1>2, Fields, Policy
  <2>2. Total(escrow', Sessions) = Total(escrow, Sessions) - escrow[s] + escrow'[s]
    BY <1>4, <2>1, TotalSet
  <2>3. Total(escrow', Sessions) \in Nat
    BY <1>4, <2>1, TotalType
  <2> QED
    BY <1>0, <1>3, <2>1, <2>2, <2>3, EscrowTotal
<1>8. ReadsHold'
  BY <1>0, <1>2, <1>3, <1>4, <1>7, Fields, EscrowTotal DEF ReadsHold
<1>9. StakeWithinBudget' /\ LiquidKept'
  BY <1>0, <1>1, <1>2, <1>3, <1>4, <1>7, Fields, EscrowTotal, Policy
     DEF StakeWithinBudget, LiquidKept, Locked, Pending
<1> QED
  BY <1>5, <1>6, <1>8, <1>9 DEF BudgetInv

LEMMA NoMoreLocked ==
    ASSUME NEW e \in Nat, NEW p \in Nat, NEW h \in Nat, NEW a \in Nat,
           NEW h2 \in Nat, NEW a2 \in Nat, NEW m \in Nat,
           e + h + a + p <= m, h2 + a2 <= h + a
    PROVE  e + h2 + a2 + p <= m
OBVIOUS

LEMMA NoLessLiquid ==
    ASSUME NEW p \in Nat, NEW l \in Nat, NEW l2 \in Nat, NEW m \in Nat,
           l - p >= m, l2 >= l
    PROVE  l2 - p >= m
OBVIOUS

LEMMA ChainBudget ==
    ASSUME BudgetInv, HoldEnds \/ Withdraw \/ Drift \/ UNCHANGED vars
    PROVE  BudgetInv'
<1>0. BudgetTypeOK /\ RowsCover /\ TxReserved /\ ReadsHold /\ StakeWithinBudget /\ LiquidKept
  BY DEF BudgetInv
<1>u. UNCHANGED <<rows, opening, tx, escrow>>
  BY DEF HoldEnds, Withdraw, Drift, vars
<1>1. /\ hold' \in Nat /\ available' \in Nat /\ liquid' \in Nat /\ liquid' >= liquid
      /\ hold' + available' <= hold + available /\ supply' \in Nat
  <2>0. /\ hold \in Nat /\ available \in Nat /\ liquid \in Nat /\ supply \in Nat
        /\ Supplies \subseteq Nat
    BY <1>0, Fields, Policy
  <2>1. CASE HoldEnds
    BY <2>0, <2>1 DEF HoldEnds
  <2>2. CASE Withdraw
    BY <2>0, <2>2 DEF Withdraw
  <2>3. CASE Drift
    BY <2>0, <2>3 DEF Drift
  <2>4. CASE UNCHANGED vars
    BY <2>0, <2>4 DEF vars
  <2> QED
    BY <2>1, <2>2, <2>3, <2>4
<1>2. BudgetTypeOK'
  BY <1>0, <1>1, <1>u DEF BudgetTypeOK
<1>3. RowsCover' /\ TxReserved'
  BY <1>0, <1>u DEF RowsCover, TxReserved
<1>4. ReadsHold'
  BY <1>0, <1>1, <1>u, Fields DEF ReadsHold
<1>5. StakeWithinBudget' /\ LiquidKept'
  <2>1. /\ Total(escrow, Sessions) \in Nat /\ Pending \in Nat /\ MaxTotal \in Nat
        /\ MinLiquid \in Nat /\ hold \in Nat /\ available \in Nat /\ liquid \in Nat
    BY <1>0, Fields, EscrowTotal, Policy
  <2>2. Total(escrow', Sessions) = Total(escrow, Sessions) /\ Pending' = Pending
    BY <1>u DEF Pending
  <2>a. Total(escrow, Sessions) + hold + available + Pending <= MaxTotal
    BY <1>0 DEF StakeWithinBudget, Locked
  <2>b. liquid - Pending >= MinLiquid
    BY <1>0 DEF LiquidKept
  <2>3. StakeWithinBudget'
    <3>1. Total(escrow', Sessions) + hold' + available' + Pending' <= MaxTotal
      BY <1>1, <2>1, <2>2, <2>a, NoMoreLocked
    <3> QED
      BY <3>1 DEF StakeWithinBudget, Locked
  <2>4. LiquidKept'
    <3>1. liquid' - Pending' >= MinLiquid
      BY <1>1, <2>1, <2>2, <2>b, NoLessLiquid
    <3> QED
      BY <3>1 DEF LiquidKept
  <2> QED
    BY <2>3, <2>4
<1> QED
  BY <1>2, <1>3, <1>4, <1>5 DEF BudgetInv

-----------------------------------------------------------------------------

LEMMA BudgetInductive == Spec => []BudgetInv
<1>1. BudgetInv /\ [Next]_vars => BudgetInv'
  BY ReadsBudget, ReadStakesBudget, AnswersBudget, NodeBudget, MinedBudget, CloseBudget,
     ChainBudget DEF Next
<1> QED
  BY <1>1, InitBudget, PTL DEF Spec

\* Every amount stays a natural number: the limit that _open puts into its row and
\* posts, the least of three differences, is never negative, and neither is a
\* balance on chain.
THEOREM AmountsAreNatural == Spec => []BudgetTypeOK
BY BudgetInductive, PTL DEF BudgetInv

\* Whatever closes, is settled or leaves the books while _open reads, and whatever
\* supply the node computes the stake from, the MOR in sessions, on hold,
\* withdrawable and under way stays within max_total_stake_wei.
THEOREM BudgetIsKept == Spec => []StakeWithinBudget
BY BudgetInductive, PTL DEF BudgetInv

\* No opening takes the wallet below min_liquid_mor_wei, although the balance is
\* read first and the transaction is mined last.
THEOREM ReserveIsKept == Spec => []LiquidKept
BY BudgetInductive, PTL DEF BudgetInv
=============================================================================
