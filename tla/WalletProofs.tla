----------------------------- MODULE WalletProofs -----------------------------
(***************************************************************************)
(* The safety of SessionLifecycle survives sweep_wallet and bind: its      *)
(* theorems again, for the composed WalletSpec.                            *)
(*                                                                         *)
(* Neither takes Sessions.lock and both put copies read before an await,   *)
(* so a leased or a draining row may lose its chain id to a late           *)
(* mark_error.  IInv holds nonetheless: what it says of a row holds of     *)
(* those copies too, and only says what stays true.                        *)
(***************************************************************************)
EXTENDS WalletRecovery, LedgerProofs

\* bind works on a session that exists; what it and the sweep hold are copies.
BindingFits ==
    binding.at # "idle" =>
       /\ binding.id \in OpenOps /\ ops[binding.id].tx = "mined"
       /\ binding.by = "sweep" => CopyFits(binding.id, binding.old)
       /\ binding.at = "truth" => CopyFits(binding.id, binding.row) /\ binding.row.sid = binding.id

BindingInv == binding \in BindingRecord /\ BindingFits

\* The inductive invariant of the composition.
WalletInv == TypeInv /\ IInv /\ BindingInv

-----------------------------------------------------------------------------
(* The steps of the sessions. *)

LEMMA NotBindingFits ==
    ASSUME binding' = NotBinding
    PROVE  BindingInv'
BY Defaults DEF BindingInv, BindingFits, NotBinding, BindingRecord

\* The copies of bind stay good while the operations move forward.
LEMMA BindingStays ==
    ASSUME TypeInv, IInv, BindingInv, OpsGrow, UNCHANGED binding
    PROVE  BindingInv'
<1>1. binding.old \in Row /\ binding.row \in Row
  BY DEF BindingInv, BindingRecord
<1>2. \A r : \A row \in Row : RowFits(ops, r, row) => RowFits(ops', r, row)
  BY FitsStable DEF IInv, RowInv
<1>3. binding.at # "idle" => ops'[binding.id].tx = "mined"
  BY DEF BindingInv, BindingFits, OpsGrow, OpGrow, Ops
<1> QED
  BY <1>1, <1>2, <1>3 DEF BindingInv, BindingFits, CopyFits

LEMMA SessionKeepsWalletInv ==
    ASSUME WalletInv, Next, UNCHANGED binding \/ binding' = NotBinding
    PROVE  WalletInv'
<1>1. OpsGrow
  BY OpsStep DEF WalletInv, IInv, RowInv
<1>2. TypeInv' /\ IInv'
  BY NextTypeInv, NextIInv DEF WalletInv
<1>3. BindingInv'
  BY <1>1, BindingStays, NotBindingFits DEF WalletInv
<1> QED
  BY <1>2, <1>3 DEF WalletInv

-----------------------------------------------------------------------------
(* The steps of the sweep and of bind. *)

\* Where they write: the row of a session that exists, which is never "opening",
\* or a row that is not the row of an opening.
WalletPut(r, row) ==
    /\ Put(r, row) /\ r \in RowIds /\ row \in Row
    /\ RowFits(ops, r, row) /\ row.st # "absent"
    /\ Exists(ops, r)
    /\ UNCHANGED <<ops, wd, lock, lease, closing, recon, crashes>>

LEMMA WalletWrites ==
    ASSUME WalletInv, WalletStep
    PROVE  /\ BindingInv'
           /\ UNCHANGED vars \/ \E r, row : WalletPut(r, row)
<1>0. /\ binding.old \in Row /\ binding.row \in Row /\ binding \in BindingRecord
      /\ rows \in [RowIds -> Row] /\ \A o \in OpenOps : o \in RowIds /\ RowFits(ops, o, rows[o])
  BY DEF WalletInv, BindingInv, BindingRecord, TypeInv, TypeOK, IInv, RowInv, RowsSafe, RowsFit,
         RowIds
<1>1. CASE BindRead
  <2>1. /\ binding.at = "identity" /\ binding.id \in OpenOps /\ ops[binding.id].tx = "mined"
        /\ rows[binding.id].st = "open_unknown" /\ UNCHANGED vars
    BY <1>1 DEF BindRead, WalletInv, BindingInv, BindingFits
  <2> DEFINE row == [rows[binding.id] EXCEPT !.sid = binding.id]
  <2>2. rows[binding.id] \in Row /\ RowFits(ops, binding.id, rows[binding.id])
    BY <1>0, <2>1
  <2>3. /\ row \in Row /\ row.st = "open_unknown" /\ row.sid = binding.id
        /\ row.tx = rows[binding.id].tx
    BY <2>1, <2>2 DEF Row
  <2> HIDE DEF row
  <2>4. CopyFits(binding.id, row)
    BY <2>1, <2>2, <2>3 DEF CopyFits, RowFits, Over, IdentifiedStates
  <2>5. binding' = [binding EXCEPT !.at = "truth", !.row = row]
    BY <1>1 DEF BindRead, row
  <2>6. /\ binding' \in BindingRecord /\ binding'.id = binding.id /\ binding'.by = binding.by
        /\ binding'.old = binding.old /\ binding'.row = row
    BY <1>0, <2>3, <2>5 DEF BindingRecord
  <2>7. binding.by = "sweep" => CopyFits(binding.id, binding.old)
    BY <2>1 DEF WalletInv, BindingInv, BindingFits
  <2> QED
    BY <2>1, <2>3, <2>4, <2>6, <2>7 DEF vars, BindingInv, BindingFits, CopyFits
<1>2. CASE BindApply
  <2>1. /\ binding.at = "truth" /\ binding.id \in OpenOps /\ ops[binding.id].tx = "mined"
        /\ CopyFits(binding.id, binding.row) /\ binding.row.sid = binding.id
        /\ binding' = NotBinding
    BY <1>2 DEF BindApply, WalletInv, BindingInv, BindingFits
  <2>2. PICK st \in {"open", "closed"} : /\ st = "closed" => ClosedOnChain(binding.id)
                                         /\ Put(binding.id, [binding.row EXCEPT !.st = st])
    BY <1>2 DEF BindApply
  <2>3. st \in RowStates
    BY DEF RowStates
  <2> DEFINE row == [binding.row EXCEPT !.st = st]
  <2>4. row \in Row /\ row.st = st /\ row.sid = binding.row.sid /\ row.tx = binding.row.tx
    BY <1>0, <2>3, RowSetSt
  <2> HIDE DEF row
  <2>5. Exists(ops, binding.id)
    BY <2>1 DEF Exists
  <2>6. row.st = "closed" => ClosedIn(ops, binding.row.sid)
    BY <2>1, <2>2, <2>4 DEF ClosedIn, ClosedOnChain
  <2>7. RowFits(ops, binding.id, row)
    BY <2>1, <2>4, <2>5, <2>6, FitsSt DEF CopyFits, Over
  <2>8. WalletPut(binding.id, row)
    BY <1>0, <1>2, <2>1, <2>2, <2>4, <2>5, <2>7 DEF WalletPut, BindApply, row
  <2> QED
    BY <2>1, <2>8, NotBindingFits
<1>3. CASE BindFailed
  <2>1. /\ binding.at # "idle" /\ binding.id \in OpenOps /\ ops[binding.id].tx = "mined"
        /\ binding' = NotBinding
    BY <1>3 DEF BindFailed, WalletInv, BindingInv, BindingFits
  <2>2. CASE binding.by = "sweep"
    <3>1. CopyFits(binding.id, binding.old) /\ Put(binding.id, binding.old)
      BY <1>3, <2>1, <2>2 DEF BindFailed, WalletInv, BindingInv, BindingFits
    <3>2. WalletPut(binding.id, binding.old)
      BY <1>0, <1>3, <2>1, <3>1 DEF WalletPut, BindFailed, CopyFits, Over, Exists
    <3> QED
      BY <2>1, <3>2, NotBindingFits
  <2>3. CASE binding.by # "sweep"
    BY <1>3, <2>1, <2>3, NotBindingFits DEF BindFailed, vars
  <2> QED
    BY <2>2, <2>3
<1>4. ASSUME NEW o \in OpenOps, SweepDiscover(o)
      PROVE  BindingInv' /\ \E r, row : WalletPut(r, row)
  <2> DEFINE row == [NoRow EXCEPT !.st = "orphaned", !.sid = o]
  <2>1. /\ ops[o].tx = "mined" /\ Put(WalletRow(o), row) /\ UNCHANGED binding
        /\ UNCHANGED <<ops, wd, lock, lease, closing, recon, crashes>>
    BY <1>4 DEF SweepDiscover
  <2>2. row \in Row /\ row.st = "orphaned" /\ row.sid = o
    BY DEF NoRow, Row, RowStates
  <2>3. WalletRow(o) \in RowIds /\ WalletRow(o) \notin OpenOps
    BY RowIdsAssumption DEF RowIds
  <2> HIDE DEF row
  <2>4. RowFits(ops, WalletRow(o), row) /\ Exists(ops, WalletRow(o))
    BY <2>1, <2>2, <2>3 DEF RowFits, Exists
  <2>5. WalletPut(WalletRow(o), row)
    BY <2>1, <2>2, <2>3, <2>4 DEF WalletPut
  <2>6. BindingInv'
    BY <2>1 DEF WalletInv, BindingInv, BindingFits, CopyFits
  <2> QED
    BY <2>5, <2>6
<1>5. ASSUME NEW o \in OpenOps, NEW by \in {"operator", "sweep"}, BindBegin(o, by)
      PROVE  BindingInv' /\ UNCHANGED vars
  <2> DEFINE old == IF by = "sweep" THEN rows[o] ELSE NoRow
  <2>1. /\ ops[o].tx = "mined" /\ UNCHANGED vars
        /\ by = "sweep" => rows[o].st = "open_unknown"
        /\ binding' = [NotBinding EXCEPT !.at = "identity", !.by = by, !.id = o, !.old = old]
    BY <1>5 DEF BindBegin, NotBinding
  <2>2. old \in Row
    BY <1>0, Defaults
  <2>3. by = "sweep" => CopyFits(o, old)
    BY <1>0, <2>1 DEF CopyFits, Over
  <2> HIDE DEF old
  <2>4. /\ binding'.at = "identity" /\ binding'.by = by /\ binding'.id = o /\ binding'.old = old
        /\ binding' \in BindingRecord
    BY <2>1, <2>2, Defaults DEF NotBinding, BindingRecord
  <2> QED
    BY <2>1, <2>3, <2>4 DEF vars, BindingInv, BindingFits, CopyFits
<1> QED
  BY <1>1, <1>2, <1>3, <1>4, <1>5 DEF WalletStep

LEMMA WalletPutInv ==
    ASSUME TypeInv, IInv, NEW r, NEW row, WalletPut(r, row)
    PROVE  TypeInv' /\ IInv'
<1>1. TypeInv'
  <2>1. /\ lease \in [RowIds -> LeaseRecord] /\ closing \subseteq RowIds
        /\ recon \in [Passes -> ReconRecord]
        /\ \A p \in Passes : recon[p].at # "idle" => recon[p].id \in RowIds
    BY DEF TypeInv, TypeOK, Shape
  <2> QED
    BY <2>1, PutAsideType DEF WalletPut
<1>2. lock.at = "open_post" /\ lock.id = r => ops[r].tx = "mined"
  BY DEF WalletPut, Exists, TypeInv, Shape
<1>3. RowsSafe'
  BY <1>2, PutAside DEF WalletPut, IInv
<1>4. JournalTruthful' /\ PreflightClear' /\ WithdrawPending' /\ WithdrawalTruthful'
  BY DEF WalletPut, IInv, RowInv, JournalTruthful, PreflightClear, WithdrawPending,
         WithdrawalTruthful, Unsettled
<1> QED
  BY <1>1, <1>3, <1>4 DEF IInv, RowInv

LEMMA WalletStepInv ==
    ASSUME WalletInv, WalletStep
    PROVE  WalletInv'
<1>1. BindingInv'
  BY WalletWrites
<1>2. CASE UNCHANGED vars
  BY <1>1, <1>2, NextTypeInv, StutterIInv DEF WalletInv
<1>3. CASE \E r, row : WalletPut(r, row)
  BY <1>1, <1>3, WalletPutInv DEF WalletInv
<1> QED
  BY <1>2, <1>3, WalletWrites

-----------------------------------------------------------------------------
(* The invariant of the composition. *)

\* A step of the composition is a step of the sessions, or of the sweep or bind.
LEMMA WalletNextCases ==
    ASSUME WalletNext
    PROVE  \/ Next /\ (UNCHANGED binding \/ binding' = NotBinding)
           \/ WalletStep
BY DEF WalletNext, SessionStep, Next

LEMMA InitWalletInv == WalletInit => WalletInv
<1> SUFFICES ASSUME WalletInit PROVE WalletInv
  OBVIOUS
<1>1. TypeInv /\ IInv
  BY InitTypeInv, InitIInv DEF WalletInit
<1>2. BindingInv
  BY Defaults DEF WalletInit, BindingInv, BindingFits, NotBinding, BindingRecord
<1> QED
  BY <1>1, <1>2 DEF WalletInv

LEMMA StutterWalletInv ==
    ASSUME WalletInv, UNCHANGED wvars
    PROVE  WalletInv'
<1>1. TypeInv' /\ IInv'
  BY NextTypeInv, StutterIInv DEF WalletInv, wvars
<1>2. BindingInv'
  BY DEF WalletInv, wvars, vars, BindingInv, BindingFits, CopyFits
<1> QED
  BY <1>1, <1>2 DEF WalletInv

LEMMA WalletInductive == WalletSpec => []WalletInv
<1>1. WalletInv /\ [WalletNext]_wvars => WalletInv'
  BY WalletNextCases, SessionKeepsWalletInv, WalletStepInv, StutterWalletInv
<1> QED
  BY <1>1, InitWalletInv, PTL DEF WalletSpec

\* Every variable keeps its type, bind's copies included: no late put of the
\* sweep or of bind leaves the store with a row that is none.
THEOREM WalletTypeCorrect == WalletSpec => []WalletTypeOK
<1>1. WalletInv => WalletTypeOK
  BY DEF WalletInv, WalletTypeOK, TypeInv, BindingInv
<1> QED
  BY <1>1, WalletInductive, PTL

\* The copies that bind() and the sweep's mark_error put without looking at the
\* stored row never record a session as closed that still holds escrow.
THEOREM WalletClosedIsClosed == WalletSpec => []ClosedMeansClosed
<1>1. WalletInv => ClosedMeansClosed
  BY ClosedRows DEF WalletInv
<1> QED
  BY <1>1, WalletInductive, PTL

\* What a withdraw operation records is its outcome on chain, also while the sweep
\* and bind change the rows that the wallet has to be clear of.
THEOREM WalletWithdrawalOutcome == WalletSpec => []WithdrawalTruthful
<1>1. WalletInv => WithdrawalTruthful
  BY DEF WalletInv, IInv
<1> QED
  BY <1>1, WalletInductive, PTL

\* With the sweep and bind running next to everything else, no session that
\* holds escrow or may come to hold it leaves Store.sessions(), as long as a read
\* that follows an accepted POST does not fail.
THEOREM WalletFundedIsTracked ==
    ASSUME "confirm_open" \notin Faults
    PROVE  WalletSpec => []FundedTracked
<1>1. WalletInv => FundedTracked
  BY FundedInStore DEF WalletInv
<1> QED
  BY <1>1, WalletInductive, PTL

\* What the sweep and bind do to the operations and to the chain: nothing.
LEMMA WalletStepOps ==
    ASSUME WalletInv, WalletStep
    PROVE  UNCHANGED <<ops, wd, lock, lease, closing, recon, crashes>>
BY WalletWrites DEF vars, WalletPut

\* A row that bind or the sweep moves away from an uncertain opening never lets
\* another wallet mutation be posted while that opening may still reach the
\* chain, whatever the faults.
THEOREM WalletNeverBlind == WalletSpec => NoBlindReplacement
<1>1. WalletInv /\ [WalletNext]_wvars => [PostsClear]_vars
  <2> SUFFICES ASSUME WalletInv, [WalletNext]_wvars PROVE PostsClear \/ UNCHANGED vars
    OBVIOUS
  <2>1. CASE Next
    BY <2>1, NextPostsClear DEF WalletInv
  <2>2. CASE WalletStep
    BY <2>2, WalletStepOps DEF PostsClear
  <2> QED
    BY <2>1, <2>2, WalletNextCases DEF wvars
<1> QED
  BY <1>1, WalletInductive, PTL DEF WalletSpec, NoBlindReplacement, PostsClear

\* A row that was drained while reconcile() awaited the node is not handed out
\* again by its answer, whichever copies bind and the sweep have put in between,
\* as long as receipts can be read.
THEOREM WalletNeverRevived ==
    ASSUME "receipt" \notin Faults
    PROVE  WalletSpec => ReconcileNeverRevives
<1>1. WalletInv /\ [WalletNext]_wvars => [DrainedStays]_vars
  <2> SUFFICES ASSUME WalletInv, [WalletNext]_wvars PROVE DrainedStays \/ UNCHANGED vars
    OBVIOUS
  <2>1. CASE Next
    BY <2>1, NextDrainedStays DEF WalletInv
  <2>2. CASE WalletStep
    BY <2>2, WalletStepOps DEF DrainedStays, Idle
  <2> QED
    BY <2>1, <2>2, WalletNextCases DEF wvars
<1> QED
  BY <1>1, WalletInductive, PTL DEF WalletSpec, ReconcileNeverRevives, DrainedStays

\* The pool limit holds on chain with the sweep and bind running: no row they
\* write makes room for a session too many.
THEOREM WalletPoolIsBounded ==
    ASSUME "confirm_open" \notin Faults, IsFiniteSet(RowIds)
    PROVE  WalletSpec => []PoolBound
<1>1. WalletInv /\ PoolInv /\ [WalletNext]_wvars => PoolInv'
  <2> SUFFICES ASSUME WalletInv, PoolInv, [WalletNext]_wvars PROVE PoolInv'
    OBVIOUS
  <2>1. CASE Next
    BY <2>1, NextPoolInv DEF WalletInv
  <2>2. CASE WalletStep \/ UNCHANGED wvars
    BY <2>2, WalletStepOps, StutterPoolInv DEF wvars, vars
  <2> QED
    BY <2>1, <2>2, WalletNextCases
<1>2. PoolInv => PoolBound
  BY DEF PoolInv, PoolBound, Funded
<1>3. WalletInit => PoolInv
  BY InitPoolInv DEF WalletInit
<1> QED
  BY <1>1, <1>2, <1>3, WalletInductive, PTL DEF WalletSpec

-----------------------------------------------------------------------------
(* The refinement of the ledger. *)

\* The sweep and bind leave the stakes alone, and write no row of an opening that
\* was not posted.
LEMMA WalletPutBooks ==
    ASSUME WalletInv, NEW r, NEW row, WalletPut(r, row)
    PROVE  OneRow /\ \A o \in OpenOps : StaysAbsent(o) /\ Money(o)' = Money(o)
<1>1. OneRow
  BY PutOneRow DEF WalletPut, WalletInv, TypeInv, TypeOK
<1>2. \A o \in OpenOps : Money(o)' = Money(o)
  BY DEF WalletPut, Money, LiveOnChain, ClosedOnChain, Unsettled
<1>3. \A o \in OpenOps : rows[o].st = "absent" => ops[o].tx # "mined"
  BY DEF WalletInv, IInv, RowInv, RowsSafe, RowsFit, RowIds, JournalTruthful, TruthfulOp, Ops
<1>4. \A o \in OpenOps : StaysAbsent(o)
  BY <1>3 DEF WalletPut, Put, Exists, StaysAbsent, WalletInv, TypeInv, TypeOK, RowIds
<1> QED
  BY <1>1, <1>2, <1>4

LEMMA WalletLedgerInv ==
    ASSUME WalletInv, LedgerInv, NEW r, NEW row, WalletPut(r, row),
           "confirm_open" \notin Faults, IsFiniteSet(RowIds)
    PROVE  LedgerInv'
<1>1. RowInv
  BY DEF WalletInv, IInv
<1>2. Carried' \subseteq Carried
  BY <1>1, WalletPutBooks, CarriedShrinks
<1>3. RoomInPreflight'
  BY <1>2, RoomStays DEF WalletPut, LedgerInv, RoomInPreflight
<1>4. OneCommitted' /\ ClosedExisted'
  BY DEF WalletPut, LedgerInv, OneCommitted, ClosedExisted, ClosedOnChain
<1> QED
  BY <1>3, <1>4 DEF LedgerInv

\* sweep_wallet and bind keep the books of SessionLedger too: a copy put late
\* takes no session off the books that holds escrow, and puts back only one whose
\* stake has been returned.
THEOREM WalletLedgerIsKept ==
    ASSUME "confirm_open" \notin Faults, IsFiniteSet(RowIds)
    PROVE  WalletSpec => KeepsLedger
<1>1. WalletInv /\ LedgerInv /\ [WalletNext]_wvars => LedgerInv'
  <2> SUFFICES ASSUME WalletInv, LedgerInv, [WalletNext]_wvars PROVE LedgerInv'
    OBVIOUS
  <2>1. CASE Next
    BY <2>1, NextLedgerInv DEF WalletInv
  <2>2. CASE UNCHANGED vars
    BY <2>2, StutterLedgerInv
  <2>3. CASE \E r, row : WalletPut(r, row)
    BY <2>3, WalletLedgerInv
  <2> QED
    BY <2>1, <2>2, <2>3, WalletNextCases, WalletWrites DEF wvars
<1>2. WalletInv /\ LedgerInv /\ [WalletNext]_wvars => [Ledger!Next]_<<Stakes, Books>>
  <2> SUFFICES ASSUME WalletInv, LedgerInv, [WalletNext]_wvars
               PROVE  Ledger!Next \/ (Stakes' = Stakes /\ Books' = Books)
    OBVIOUS
  <2>0. RowInv
    BY DEF WalletInv, IInv
  <2>1. CASE UNCHANGED vars
    BY <2>1, LedgerStutter DEF vars
  <2>2. CASE Next
    <3>1. RowInv'
      BY <2>2, NextIInv DEF WalletInv, IInv
    <3> QED
      BY <2>2, <3>1, LedgerStep DEF WalletInv, LedgerIInv
  <2>3. ASSUME NEW r, NEW row, WalletPut(r, row)
        PROVE  Ledger!Next \/ (Stakes' = Stakes /\ Books' = Books)
    <3>1. RowInv'
      BY <2>3, WalletPutInv DEF WalletInv, IInv
    <3> QED
      BY <2>0, <2>3, <3>1, WalletPutBooks, KeepsBooks
  <2> QED
    BY <2>1, <2>2, <2>3, WalletNextCases, WalletWrites DEF wvars
<1>3. WalletInit => Ledger!Init /\ LedgerInv
  BY LedgerInit, InitLedgerInv DEF WalletInit
<1> QED
  BY <1>1, <1>2, <1>3, WalletInductive, PTL
     DEF WalletSpec, KeepsLedger, Ledger!Spec, Stakes, Books
=============================================================================
