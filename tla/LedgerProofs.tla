----------------------------- MODULE LedgerProofs -----------------------------
(***************************************************************************)
(* SessionLifecycle implements SessionLedger, for every finite set of      *)
(* openings, every pool size and every fault but a failing read after an   *)
(* accepted open.                                                          *)
(***************************************************************************)
EXTENDS SessionSafetyProofs

-----------------------------------------------------------------------------
(* What the refinement needs beyond IInv. *)

\* At most one opening may still reach the chain.
OneCommitted == \A o, p \in OpenOps : MayLand(ops[o]) /\ MayLand(ops[p]) => o = p

\* Only a session that exists was closed.
ClosedExisted == \A o \in OpenOps : ClosedOnChain(o) => ops[o].tx = "mined"

\* A stake that is in the wallet for good.
Settled == {"unspent", "returned"}

\* Rows of openings that are tracked and whose stake is not settled.
Carried == {o \in OpenOps : o \in Tracked /\ Money(o) \notin Settled}

\* The check of the pool limit, made before the preflight reads, still holds of
\* the sessions that are not over when the POST is made.  It need not hold of
\* Tracked: a request that leased a row before it closed, or a pass that could not
\* read a receipt, may put it back.
RoomInPreflight == lock.at = "open_preflight" => Cardinality(Carried) < MaxSessions

LedgerInv == OneCommitted /\ ClosedExisted /\ RoomInPreflight

-----------------------------------------------------------------------------
(* The rows. *)

\* Who writes a row that is not tracked: the POST that creates it, or a holder of
\* a copy of the row of an opening that was posted.
LEMMA RowsStep ==
    ASSUME TypeInv, RowInv, Next
    PROVE  \/ UNCHANGED rows
           \/ GatewayCrash
           \/ \E r, row : /\ Put(r, row)
                          /\ \/ r \in OpenOps /\ OpenSubmit(r)
                             \/ rows[r].st \notin Over
                             \/ Exists(ops, r)
                             \/ r \in OpenOps => ops[r].phase # "new"
                             \/ row.st = rows[r].st
<1>1. CASE NativeStep \/ WithdrawStep
  BY <1>1 DEF NativeStep, WithdrawStep, WithdrawBegin, WithdrawSkipped, WithdrawAccepted,
       WithdrawRejected, WithdrawLost, WithdrawReconcile, WithdrawSubmit
<1>l. /\ lock.at = "open_post" => rows[lock.id].st \notin Over \/ Exists(ops, lock.id)
      /\ lock.at \in {"open_confirm", "close_read", "close_post", "close_confirm"}
           => Exists(ops, lock.id)
  <2>1. lock.at = "open_post" => rows[lock.id].st \notin Over \/ Exists(ops, lock.id)
    BY DEF RowInv, RowsSafe, LockFits, Over, Exists
  <2>2. ASSUME lock.at \in {"open_confirm", "close_read", "close_post", "close_confirm"}
        PROVE  Exists(ops, lock.id)
    <3>1. RowFits(ops, lock.id, lock.row) /\ lock.row.sid # None
      BY <2>2 DEF RowInv, RowsSafe, LockFits, CopyFits
    <3> QED
      BY <3>1, FitsExists
  <2> QED
    BY <2>1, <2>2
<1>2. CASE OpenStep
  <2>1. CASE OpenBegin \/ OpenRefused
    BY <2>1 DEF OpenBegin, OpenRefused
  <2>2. CASE OpenAccepted \/ OpenRejected \/ OpenLost
    BY <1>l, <2>2 DEF OpenAccepted, OpenRejected, OpenLost
  <2>3. CASE OpenConfirmed \/ OpenUnverified \/ OpenConfirmFailed
    BY <1>l, <2>3 DEF OpenConfirmed, OpenUnverified, OpenConfirmFailed
  <2>4. CASE \E o \in OpenOps : OpenSubmit(o)
    BY <2>4 DEF OpenSubmit
  <2> QED
    BY <1>2, <2>1, <2>2, <2>3, <2>4 DEF OpenStep
<1>3. CASE CloseStep
  <2>1. CASE CloseAborted \/ CloseFoundClosed \/ CloseAccepted \/ CloseRejected \/ CloseLost
             \/ CloseConfirmed \/ CloseUnverified \/ CloseConfirmFailed
    BY <1>l, <2>1 DEF CloseAborted, CloseFoundClosed, CloseAccepted, CloseRejected, CloseLost,
         CloseConfirmed, CloseUnverified, CloseConfirmFailed
  <2>2. CASE \E c \in CloseOps : CloseSubmit(c)
    BY <1>l, <2>2 DEF CloseSubmit
  <2>3. ASSUME NEW r \in RowIds, CloseRequest(r) PROVE UNCHANGED rows \/ \E row :
           Put(r, row) /\ rows[r].st \notin Over
    BY <2>3 DEF CloseRequest, Over
  <2>4. ASSUME NEW r \in RowIds, CloseReturn(r) PROVE UNCHANGED rows \/ \E row :
           Put(r, row) /\ Exists(ops, r)
    BY <2>4 DEF CloseReturn, RowInv, RowsSafe, LeasesFit
  <2>5. ASSUME NEW r \in RowIds, CloseBegin(r) PROVE UNCHANGED rows
    BY <2>5 DEF CloseBegin
  <2> QED
    BY <1>3, <2>1, <2>2, <2>3, <2>4, <2>5 DEF CloseStep
<1>4. CASE LeaseStep
  <2>1. PICK r \in RowIds :
           \/ LeaseBegin(r) \/ LeaseChecked(r) \/ LeaseFailed(r) \/ LeaseDropped(r)
           \/ LeaseEnd(r) \/ Invalidate(r) \/ Drain(r) \/ ScheduleClose(r)
    BY <1>4 DEF LeaseStep
  <2>2. CASE LeaseBegin(r) \/ LeaseDropped(r) \/ LeaseEnd(r)
    BY <2>2 DEF LeaseBegin, LeaseDropped, LeaseEnd
  <2>3. CASE LeaseChecked(r) \/ LeaseFailed(r) \/ Invalidate(r)
    <3>1. Exists(ops, r)
      BY <2>3 DEF LeaseChecked, LeaseFailed, Invalidate, RowInv, RowsSafe, LeasesFit, Active
    <3> QED
      BY <2>3, <3>1 DEF LeaseChecked, LeaseFailed, Invalidate
  <2>4. CASE Drain(r) \/ ScheduleClose(r)
    BY <2>4 DEF Drain, ScheduleClose, Over
  <2> QED
    BY <2>1, <2>2, <2>3, <2>4
<1>5. CASE ReconStep
  <2> PICK p \in Passes : ReconPass(p)
    BY <1>5 DEF ReconStep
  <2>0. recon[p].row \in Row /\ recon[p].row.st \in RowStates
    BY RowFields DEF TypeInv, TypeOK, ReconRecord
  <2>1. CASE \/ ReconSkip(p)
             \/ \E r \in RowIds : ReconJournal(p, r) \/ ReconTruth(p, r) \/ ReconReceipt(p, r)
    BY <2>1 DEF ReconSkip, ReconJournal, ReconTruth, ReconReceipt
  <2>2. CASE ReconOpenJournal(p) \/ ReconCloseJournal(p)
    BY <2>2 DEF ReconOpenJournal, ReconCloseJournal, SnapshotHolds, Over
  <2>3. CASE ReconFoundClosed(p) \/ ReconFoundLive(p)
    <3>1. RowFits(ops, recon[p].id, recon[p].row) /\ recon[p].row.sid # None
      BY <2>3 DEF ReconFoundClosed, ReconFoundLive, RowInv, RowsSafe, ReconFits, CopyFits
    <3>2. Exists(ops, recon[p].id)
      BY <3>1, FitsExists
    <3> QED
      BY <2>3, <3>2 DEF ReconFoundClosed, ReconFoundLive
  <2>4. CASE ReconOpenReverted(p) \/ ReconReceiptFailed(p)
    <3>1. /\ \E row : Put(recon[p].id, row)
          /\ RowFits(ops, recon[p].id, recon[p].row) /\ recon[p].row.st = "open_unknown"
      BY <2>4 DEF ReconOpenReverted, ReconReceiptFailed, RowInv, RowsSafe, ReconFits, CopyFits
    <3>2. recon[p].id \in OpenOps => ops[recon[p].id].phase # "new"
      BY <3>1 DEF RowFits
    <3> QED
      BY <3>1, <3>2
  <2> QED
    BY <2>1, <2>2, <2>3, <2>4 DEF ReconPass
<1> QED
  BY <1>1, <1>2, <1>3, <1>4, <1>5 DEF Next

\* A row appears only by the POST of its opening.
StaysAbsent(o) == rows[o].st = "absent" => rows'[o].st = "absent"

LEMMA RowsAppear ==
    ASSUME TypeInv, RowInv, Next, NEW o \in OpenOps, ~OpenSubmit(o)
    PROVE  StaysAbsent(o)
<1> SUFFICES ASSUME rows[o].st = "absent" PROVE rows'[o].st = "absent"
  BY DEF StaysAbsent
<1>p. ops[o].phase = "new" /\ ops[o].tx # "mined"
  BY DEF RowInv, RowsSafe, RowsFit, RowIds, JournalTruthful, TruthfulOp, Ops
<1>0. o \in RowIds /\ rows \in [RowIds -> Row] /\ rows[o] \in Row
  BY DEF RowIds, TypeInv, TypeOK
<1>1. CASE GatewayCrash
  <2>1. rows'[o] = Recovered(rows[o])
    BY <1>0, <1>1 DEF GatewayCrash
  <2> QED
    BY <1>0, <2>1 DEF Recovered, Row
<1>2. ASSUME NEW r, NEW row, Put(r, row),
             \/ r \in OpenOps /\ OpenSubmit(r)
             \/ rows[r].st \notin Over
             \/ Exists(ops, r)
             \/ r \in OpenOps => ops[r].phase # "new"
             \/ row.st = rows[r].st
      PROVE  rows'[o].st = "absent"
  <2>1. CASE r = o
    <3>1. rows'[o] = row
      BY <1>0, <1>2, <2>1 DEF Put
    <3> QED
      BY <1>2, <1>p, <2>1, <3>1 DEF Exists, Over
  <2>2. CASE r # o
    BY <1>0, <1>2, <2>2 DEF Put
  <2> QED
    BY <2>1, <2>2
<1>3. CASE UNCHANGED rows
  BY <1>3
<1> QED
  BY <1>1, <1>2, <1>3, RowsStep

\* Apart from a crash, which keeps every row tracked that was, a step writes at
\* most one row.
OneRow ==
    \/ \A r \in RowIds : rows'[r].st \in Over <=> rows[r].st \in Over
    \/ \E r \in RowIds : \A q \in RowIds \ {r} : rows'[q] = rows[q]

LEMMA PutOneRow ==
    ASSUME rows \in [RowIds -> Row], NEW r, NEW row, Put(r, row)
    PROVE  OneRow
<1>1. CASE r \in RowIds
  BY <1>1 DEF Put, OneRow
<1>2. CASE r \notin RowIds
  <2>1. rows' = rows
    BY <1>2 DEF Put
  <2> QED
    BY <2>1 DEF OneRow
<1> QED
  BY <1>1, <1>2

LEMMA OneRowAtATime ==
    ASSUME TypeInv, RowInv, Next
    PROVE  OneRow
<1>0. rows \in [RowIds -> Row]
  BY DEF TypeInv, TypeOK
<1>1. CASE GatewayCrash
  <2> SUFFICES ASSUME NEW r \in RowIds PROVE rows'[r].st \in Over <=> rows[r].st \in Over
    BY DEF OneRow
  <2>1. rows'[r] = Recovered(rows[r]) /\ rows[r] \in Row
    BY <1>0, <1>1 DEF GatewayCrash
  <2> QED
    BY <2>1 DEF Recovered, Row, Over
<1>2. CASE UNCHANGED rows
  BY <1>2 DEF OneRow
<1> QED
  BY <1>0, <1>1, <1>2, RowsStep, PutOneRow

-----------------------------------------------------------------------------
(* The stakes. *)

\* Money as a function of the record of the opening and of whether its session
\* was closed.
MoneyIn(op, closed) ==
    IF op.phase = "new" THEN "wallet"
    ELSE IF MayLand(op) THEN "committed"
    ELSE IF op.tx # "mined" THEN "unspent"
    ELSE IF closed THEN "returned" ELSE "escrow"

LEMMA MoneyIs ==
    ASSUME JournalTruthful, NEW o \in OpenOps
    PROVE  Money(o) = MoneyIn(ops[o], ClosedOnChain(o))
<1>1. TruthfulOp(o, ops[o])
  BY DEF JournalTruthful, Ops
<1> QED
  BY <1>1 DEF Money, MoneyIn, TruthfulOp, LiveOnChain, Unsettled, MayLand

LEMMA MoneyIsAfter ==
    ASSUME JournalTruthful', NEW o \in OpenOps
    PROVE  Money(o)' = MoneyIn(ops'[o], ClosedOnChain(o)')
<1>1. TruthfulOp(o, ops'[o])
  BY DEF JournalTruthful, Ops
<1> QED
  BY <1>1 DEF Money, MoneyIn, TruthfulOp, LiveOnChain, Unsettled, MayLand

\* A session that was closed stays closed.
LEMMA ClosedStays ==
    ASSUME TypeInv, RowInv, Next, NEW o, ClosedOnChain(o)
    PROVE  ClosedOnChain(o)'
<1>1. PICK c \in CloseOps : ops[c].target = o /\ ops[c].tx = "mined"
  BY DEF ClosedOnChain
<1>2. c \in Ops /\ TruthfulOp(c, ops[c]) /\ OpGrow(ops[c], ops'[c])
  BY OpsStep DEF Ops, RowInv, JournalTruthful, OpsGrow
<1>3. ops'[c].target = o /\ ops'[c].tx = "mined"
  BY <1>1, <1>2 DEF TruthfulOp, OpGrow
<1> QED
  BY <1>3 DEF ClosedOnChain

\* A POST changes no transaction, and the record of no other operation.
LEMMA PostOnly ==
    ASSUME TypeInv, NEW x \in Ops, NEW t, ops' = Post(x, t)
    PROVE  /\ \A y \in Ops : ops'[y].tx = ops[y].tx
           /\ \A y \in Ops \ {x} : ops'[y] = ops[y]
           /\ ops'[x].phase = "posted"
BY DEF Post, TypeInv, TypeOK, OpRecord

\* The steps of the gateway mine nothing, and each posts at most one operation.
LEMMA GatewayMinesNothing ==
    ASSUME TypeInv, OpenStep \/ CloseStep \/ WithdrawStep \/ LeaseStep \/ ReconStep \/ GatewayCrash
    PROVE  /\ \A y \in Ops : ops'[y].tx = ops[y].tx
           /\ \A o \in OpenOps : ~OpenSubmit(o) => ops'[o] = ops[o]
<1>1. CASE UNCHANGED ops
  BY <1>1
<1>2. ASSUME NEW o \in OpenOps, OpenSubmit(o)
      PROVE  /\ \A y \in Ops : ops'[y].tx = ops[y].tx
             /\ \A p \in OpenOps : ~OpenSubmit(p) => ops'[p] = ops[p]
  BY <1>2, PostOnly DEF OpenSubmit, Ops
<1>3. ASSUME NEW c \in CloseOps, CloseSubmit(c)
      PROVE  /\ \A y \in Ops : ops'[y].tx = ops[y].tx
             /\ \A p \in OpenOps : ops'[p] = ops[p]
  BY <1>3, PostOnly, OpsAssumption DEF CloseSubmit, Ops
<1>4. ASSUME NEW w \in WithdrawOps, WithdrawSubmit(w)
      PROVE  /\ \A y \in Ops : ops'[y].tx = ops[y].tx
             /\ \A p \in OpenOps : ops'[p] = ops[p]
  BY <1>4, PostOnly, OpsAssumption DEF WithdrawSubmit, Ops
<1> QED
  BY <1>1, <1>2, <1>3, <1>4, GatewayPosts

\* A transaction is mined only by MineOk.
LEMMA MinedBy ==
    ASSUME TypeInv, RowInv, Next, NEW x \in Ops, ops[x].tx # "mined", ops'[x].tx = "mined"
    PROVE  MineOk(x)
<1>0. ops \in [Ops -> OpRecord] /\ \A y \in Ops : TruthfulOp(y, ops[y])
  BY DEF TypeInv, TypeOK, RowInv, JournalTruthful
<1>1. CASE NodeCrash
  BY <1>0, <1>1 DEF NodeCrash, OpRecord
<1>2. ASSUME NEW y \in Ops, NodeStep(y) PROVE MineOk(x)
  <2>1. y = x
    BY <1>0, <1>2, NativeGrow
  <2>2. ~NodeBegin(x) /\ ~NodeAttempt(x) /\ ~NodeBuildFailure(x) /\ ~NodeRecord(x)
    BY <1>0 DEF NodeBegin, NodeAttempt, NodeBuildFailure, NodeRecord, OpRecord
  <2>3. ~NodeSend(x) /\ ~NodeSession(x) /\ ~NodeFinish(x) /\ ~MineReverted(x)
    BY <1>0 DEF NodeSend, NodeSession, NodeFinish, MineReverted, OpRecord
  <2> QED
    BY <1>2, <2>1, <2>2, <2>3 DEF NodeStep
<1>3. CASE OpenStep \/ CloseStep \/ WithdrawStep \/ LeaseStep \/ ReconStep \/ GatewayCrash
  BY <1>3, GatewayMinesNothing
<1> QED
  BY <1>1, <1>2, <1>3 DEF Next, NativeStep

\* A session is closed only by the block that holds a close of it, and only while
\* it is live.
LEMMA ClosedBy ==
    ASSUME TypeInv, RowInv, Next, NEW o \in OpenOps, ~ClosedOnChain(o), ClosedOnChain(o)'
    PROVE  \E c \in CloseOps : /\ MineOk(c) /\ ops[c].target = o /\ LiveOnChain(o)
                               /\ ops[c].tx # "mined" /\ ops'[c].tx = "mined"
<1>1. PICK c \in CloseOps : ops'[c].target = o /\ ops'[c].tx = "mined"
  BY DEF ClosedOnChain
<1>2. c \in Ops /\ TruthfulOp(c, ops[c]) /\ OpGrow(ops[c], ops'[c])
  BY OpsStep DEF Ops, RowInv, JournalTruthful, OpsGrow
<1>3. ops[c].target = o
  BY <1>1, <1>2 DEF TruthfulOp, OpGrow
<1>4. ops[c].tx # "mined"
  BY <1>3 DEF ClosedOnChain
<1>5. MineOk(c)
  BY <1>1, <1>2, <1>4, MinedBy
<1> QED
  BY <1>1, <1>3, <1>4, <1>5 DEF MineOk

-----------------------------------------------------------------------------
(* Where the stake of a session is that is not tracked. *)

\* Nothing of it is, or can still come to be, in escrow.  f stands for ops.
LEMMA OverMoney ==
    ASSUME NEW f, NEW o \in OpenOps, NEW row, "confirm_open" \notin Faults,
           \A x \in Ops : TruthfulOp(x, f[x]), RowFits(f, o, row), row.st \in {"closed", "failed"}
    PROVE  MoneyIn(f[o], ClosedIn(f, o)) \in Settled
<1>1. CASE row.st = "failed"
  <2>1. f[o].phase # "new" /\ ~MayLand(f[o]) /\ f[o].tx # "mined"
    BY <1>1 DEF RowFits, WrittenOff
  <2> QED
    BY <2>1 DEF MoneyIn, Settled
<1>2. CASE row.st = "closed"
  <2>1. ClosedIn(f, row.sid) /\ row.sid \in {o, None} /\ f[o].tx = "mined" /\ f[o].phase # "new"
    BY <1>2 DEF RowFits, IdentifiedStates, Exists
  <2>2. ~ClosedIn(f, None)
    BY DEF ClosedIn, TruthfulOp, Ops
  <2> QED
    BY <2>1, <2>2 DEF MoneyIn, MayLand, Settled
<1> QED
  BY <1>1, <1>2

LEMMA OverMoneyNow ==
    ASSUME RowInv, "confirm_open" \notin Faults, NEW o \in OpenOps,
           rows[o].st \in {"closed", "failed"}
    PROVE  Money(o) \in Settled
<1>1. /\ RowFits(ops, o, rows[o])
      /\ \A x \in Ops : TruthfulOp(x, ops[x])
  BY DEF RowInv, RowsSafe, RowsFit, RowIds, JournalTruthful
<1>2. ClosedIn(ops, o) <=> ClosedOnChain(o)
  BY DEF ClosedIn, ClosedOnChain
<1> QED
  <2>1. MoneyIn(ops[o], ClosedIn(ops, o)) \in Settled
    BY <1>1, OverMoney
  <2>2. Money(o) = MoneyIn(ops[o], ClosedOnChain(o))
    BY MoneyIs DEF RowInv
  <2> QED
    BY <1>2, <2>1, <2>2 DEF MoneyIn

LEMMA OverMoneyAfter ==
    ASSUME RowInv', "confirm_open" \notin Faults, NEW o \in OpenOps,
           rows'[o].st \in {"closed", "failed"}
    PROVE  Money(o)' \in Settled
<1>1. /\ RowFits(ops', o, rows'[o])
      /\ \A x \in Ops : TruthfulOp(x, ops'[x])
  BY DEF RowInv, RowsSafe, RowsFit, RowIds, JournalTruthful
<1>2. ClosedIn(ops', o) <=> ClosedOnChain(o)'
  BY DEF ClosedIn, ClosedOnChain
<1> QED
  <2>1. MoneyIn(ops'[o], ClosedIn(ops', o)) \in Settled
    BY <1>1, OverMoney
  <2>2. Money(o)' = MoneyIn(ops'[o], ClosedOnChain(o)')
    BY MoneyIsAfter DEF RowInv
  <2> QED
    BY <1>2, <2>1, <2>2 DEF MoneyIn

\* Which sessions are carried only shrinks while none is opened.
LEMMA CarriedShrinks ==
    ASSUME RowInv, "confirm_open" \notin Faults,
           \A o \in OpenOps : StaysAbsent(o) /\ (Money(o) \in Settled => Money(o)' \in Settled)
    PROVE  Carried' \subseteq Carried
<1> SUFFICES ASSUME NEW o \in OpenOps, o \in Tracked', Money(o)' \notin Settled
             PROVE  o \in Tracked /\ Money(o) \notin Settled
  BY DEF Carried
<1>1. o \in RowIds /\ rows'[o].st \notin Over
  BY DEF RowIds, Tracked, Over
<1>2. rows[o].st \notin Over
  BY <1>1, OverMoneyNow DEF StaysAbsent, Over
<1> QED
  BY <1>1, <1>2 DEF Tracked, Over

LEMMA RoomStays ==
    ASSUME IsFiniteSet(RowIds), Carried' \subseteq Carried, Cardinality(Carried) < MaxSessions
    PROVE  Cardinality(Carried') < MaxSessions
<1>1. IsFiniteSet(Carried) /\ Cardinality(Carried) \in Nat
  <2>1. Carried \subseteq RowIds
    BY DEF Carried, RowIds
  <2> QED
    BY <2>1, FS_Subset, FS_CardinalityType
<1>2. IsFiniteSet(Carried') /\ Cardinality(Carried') <= Cardinality(Carried)
  BY <1>1, FS_Subset
<1>3. Cardinality(Carried') \in Nat
  BY <1>2, FS_CardinalityType
<1> QED
  BY <1>1, <1>2, <1>3, BoundsAssumption

-----------------------------------------------------------------------------
(* LedgerInv is inductive. *)

LEMMA NextOneCommitted ==
    ASSUME TypeInv, IInv, OneCommitted, Next
    PROVE  OneCommitted'
<1> SUFFICES ASSUME NEW o \in OpenOps, NEW p \in OpenOps, MayLand(ops'[o]), MayLand(ops'[p])
             PROVE  o = p
  BY DEF OneCommitted
<1>1. \A q \in OpenOps : MayLand(ops'[q]) => MayLand(ops[q]) \/ OpenSubmit(q)
  <2> SUFFICES ASSUME NEW q \in OpenOps, MayLand(ops'[q]), ~MayLand(ops[q]) PROVE OpenSubmit(q)
    OBVIOUS
  <2>1. q \in Ops /\ OpGrow(ops[q], ops'[q])
    BY OpsStep DEF Ops, IInv, RowInv, OpsGrow
  <2>2. ops[q].phase = "new" /\ ops'[q].phase # "new"
    BY <2>1 DEF OpGrow
  <2> QED
    BY <2>1, <2>2, PostedBy, OpsAssumption DEF IInv, RowInv
<1>2. \A q \in OpenOps : OpenSubmit(q) => \A r \in OpenOps : ~MayLand(ops[r])
  BY DEF OpenSubmit, IInv, PreflightClear
<1> QED
  BY <1>1, <1>2, SubmitOne DEF OneCommitted

LEMMA NextClosedExisted ==
    ASSUME TypeInv, RowInv, ClosedExisted, Next
    PROVE  ClosedExisted'
<1> SUFFICES ASSUME NEW o \in OpenOps, ClosedOnChain(o)' PROVE ops'[o].tx = "mined"
  BY DEF ClosedExisted
<1>1. o \in Ops /\ OpGrow(ops[o], ops'[o])
  BY OpsStep DEF Ops, RowInv, OpsGrow
<1>2. ops[o].tx = "mined"
  BY ClosedBy DEF ClosedExisted, LiveOnChain
<1> QED
  BY <1>1, <1>2 DEF OpGrow

\* A settled stake is never spent again.
LEMMA SettledStays ==
    ASSUME TypeInv, RowInv, RowInv', Next, NEW o \in OpenOps, Money(o) \in Settled
    PROVE  Money(o)' \in Settled
<1>1. o \in Ops /\ OpGrow(ops[o], ops'[o]) /\ TruthfulOp(o, ops'[o])
  BY OpsStep DEF Ops, RowInv, JournalTruthful, OpsGrow
<1>2. ops[o].phase # "new" /\ ~MayLand(ops[o]) /\ (ops[o].tx = "mined" => ClosedOnChain(o))
  BY MoneyIs DEF RowInv, MoneyIn, Settled
<1>3. ops'[o].phase # "new" /\ ~MayLand(ops'[o])
  BY <1>1, <1>2 DEF OpGrow
<1>4. ops'[o].tx = "mined" => ClosedOnChain(o)'
  BY <1>1, <1>2, ClosedStays DEF OpGrow, MayLand
<1>5. Money(o)' = MoneyIn(ops'[o], ClosedOnChain(o)')
  BY MoneyIsAfter DEF RowInv
<1> QED
  BY <1>3, <1>4, <1>5 DEF MoneyIn, Settled

\* There is still room when the preflight reads are done.
LEMMA NextRoom ==
    ASSUME TypeInv, IInv, RoomInPreflight, Next, RowInv',
           "confirm_open" \notin Faults, IsFiniteSet(RowIds)
    PROVE  RoomInPreflight'
<1> SUFFICES ASSUME lock'.at = "open_preflight" PROVE Cardinality(Carried') < MaxSessions
  BY DEF RoomInPreflight
<1>0. RowInv
  BY DEF IInv
<1>1. /\ IsFiniteSet(Tracked) /\ Cardinality(Tracked) \in Nat
      /\ IsFiniteSet(Carried) /\ Cardinality(Carried) \in Nat
      /\ Carried \subseteq Tracked
  <2>1. Tracked \subseteq RowIds /\ Carried \subseteq Tracked
    BY DEF Tracked, Carried
  <2> QED
    BY <2>1, FS_Subset, FS_CardinalityType
<1>2. Cardinality(Carried) < MaxSessions
  <2>1. CASE OpenBegin
    <3>1. Cardinality(Tracked) < MaxSessions
      BY <2>1 DEF OpenBegin
    <3>2. Cardinality(Carried) <= Cardinality(Tracked)
      BY <1>1, FS_Subset
    <3> QED
      BY <1>1, <3>1, <3>2, BoundsAssumption
  <2>2. CASE UNCHANGED lock
    BY <2>2 DEF RoomInPreflight
  <2> QED
    BY <2>1, <2>2, EnterPreflight
<1>3. \A o \in OpenOps : ~OpenSubmit(o)
  <2> SUFFICES ASSUME NEW o \in OpenOps, OpenSubmit(o) PROVE FALSE
    OBVIOUS
  <2>1. PICK row : lock' = [at |-> "open_post", id |-> o, op |-> o, row |-> row]
    BY DEF OpenSubmit
  <2> QED
    BY <2>1
<1>4. Carried' \subseteq Carried
  BY <1>0, <1>3, RowsAppear, SettledStays, CarriedShrinks
<1> QED
  BY <1>2, <1>4, RoomStays

LEMMA InitLedgerInv == Init => LedgerInv
<1> SUFFICES ASSUME Init PROVE LedgerInv
  OBVIOUS
<1>1. \A x \in Ops : ops[x].phase = "new" /\ ops[x].tx = "none"
  BY DEF Init, InitOps, NewOp
<1>2. RoomInPreflight
  BY DEF Init, Free, RoomInPreflight
<1> QED
  BY <1>1, <1>2 DEF LedgerInv, OneCommitted, MayLand, ClosedExisted, ClosedOnChain, Ops

LEMMA NextLedgerInv ==
    ASSUME TypeInv, IInv, LedgerInv, Next, "confirm_open" \notin Faults, IsFiniteSet(RowIds)
    PROVE  LedgerInv'
<1>1. IInv' /\ RowInv' /\ RowInv
  BY NextIInv DEF IInv
<1> QED
  BY <1>1, NextOneCommitted, NextClosedExisted, NextRoom DEF LedgerInv

LEMMA StutterLedgerInv ==
    ASSUME LedgerInv, UNCHANGED vars
    PROVE  LedgerInv'
<1>1. \A o : Money(o)' = Money(o) /\ (ClosedOnChain(o)' <=> ClosedOnChain(o))
  BY DEF vars, Money, LiveOnChain, ClosedOnChain, Unsettled
<1>2. Carried' = Carried
  BY <1>1 DEF vars, Carried, Tracked
<1> QED
  BY <1>1, <1>2 DEF vars, LedgerInv, OneCommitted, ClosedExisted, RoomInPreflight

\* Everything the refinement uses.
LedgerIInv == TypeInv /\ IInv /\ LedgerInv

LEMMA LedgerInductive ==
    ASSUME "confirm_open" \notin Faults, IsFiniteSet(RowIds)
    PROVE  Spec => []LedgerIInv
<1>1. TypeInv /\ IInv /\ LedgerInv /\ [Next]_vars => LedgerInv'
  BY NextLedgerInv, StutterLedgerInv
<1> QED
  BY <1>1, InitLedgerInv, Inductive, PTL DEF Spec, LedgerIInv

-----------------------------------------------------------------------------
(* The refinement: every step is a step of the ledger or a stutter. *)

\* What a step of the node or of the chain does to the stake of one opening.
LEMMA NativeMoney ==
    ASSUME TypeInv, RowInv, LedgerInv, Next, NativeStep, JournalTruthful', NEW o \in OpenOps,
           Money(o)' # Money(o)
    PROVE  \/ Money(o) = "committed" /\ Money(o)' \in {"escrow", "unspent"}
           \/ Money(o) = "escrow" /\ Money(o)' = "returned"
<1>1. o \in Ops /\ OpGrow(ops[o], ops'[o]) /\ TruthfulOp(o, ops[o]) /\ TruthfulOp(o, ops'[o])
  BY OpsStep DEF Ops, RowInv, JournalTruthful, OpsGrow
<1>2. ops[o].phase = "new" <=> ops'[o].phase = "new"
  <2>0. ops \in [Ops -> OpRecord] /\ \A x \in Ops : TruthfulOp(x, ops[x])
    BY DEF TypeInv, TypeOK, RowInv, JournalTruthful
  <2>1. CASE NodeCrash
    BY <1>1, <2>0, <2>1 DEF NodeCrash, OpRecord
  <2>2. CASE \E x \in Ops : NodeStep(x)
    BY <1>1, <2>0, <2>2, NativeGrow
  <2> QED
    BY <2>1, <2>2 DEF NativeStep
<1>3. /\ ClosedOnChain(o) => ClosedOnChain(o)' /\ ops[o].tx = "mined"
      /\ ClosedOnChain(o)' => ops[o].tx = "mined"
  BY ClosedStays, ClosedBy DEF LedgerInv, ClosedExisted, LiveOnChain
<1>4. /\ Money(o) = MoneyIn(ops[o], ClosedOnChain(o))
      /\ Money(o)' = MoneyIn(ops'[o], ClosedOnChain(o)')
  BY MoneyIs, MoneyIsAfter DEF RowInv
<1>5. MayLand(ops'[o]) => MayLand(ops[o])
  BY <1>1, <1>2 DEF OpGrow
<1>6. CASE ops[o].phase = "new"
  BY <1>2, <1>4, <1>6 DEF MoneyIn
<1>7. CASE ops[o].phase # "new" /\ MayLand(ops[o])
  BY <1>1, <1>2, <1>3, <1>4, <1>7 DEF MoneyIn, MayLand
<1>8. CASE ops[o].phase # "new" /\ ~MayLand(ops[o])
  BY <1>1, <1>2, <1>3, <1>4, <1>5, <1>8 DEF MoneyIn, OpGrow, MayLand
<1> QED
  BY <1>6, <1>7, <1>8

\* A block moves the stake of one session; a crash of the node decides the one
\* opening that was under way.
LEMMA OneStakeMoves ==
    ASSUME TypeInv, RowInv, LedgerInv, Next, NativeStep, JournalTruthful',
           NEW o \in OpenOps, NEW p \in OpenOps, Money(o)' # Money(o), Money(p)' # Money(p)
    PROVE  o = p
<1>0. /\ ops \in [Ops -> OpRecord] /\ \A x \in Ops : TruthfulOp(x, ops[x])
      /\ o \in Ops /\ p \in Ops
  BY DEF TypeInv, TypeOK, RowInv, JournalTruthful, Ops
<1>m. \A q \in OpenOps : Money(q)' # Money(q) =>
         ops'[q] # ops[q] \/ (~ClosedOnChain(q) /\ ClosedOnChain(q)')
  <2> SUFFICES ASSUME NEW q \in OpenOps, ops'[q] = ops[q], ClosedOnChain(q)' => ClosedOnChain(q)
               PROVE  Money(q)' = Money(q)
    OBVIOUS
  <2>1. ClosedOnChain(q)' <=> ClosedOnChain(q)
    BY ClosedStays
  <2> QED
    BY <2>1, MoneyIs, MoneyIsAfter DEF RowInv, MoneyIn
<1>1. CASE NodeCrash
  <2>1. \A x \in Ops : ops'[x].tx = ops[x].tx
    BY <1>0, <1>1 DEF NodeCrash, OpRecord
  <2>2. \A q \in OpenOps : ~ClosedOnChain(q) => ~ClosedOnChain(q)'
    BY <2>1, ClosedBy DEF Ops
  <2>3. \A q \in OpenOps : Money(q)' # Money(q) => MayLand(ops[q])
    <3> SUFFICES ASSUME NEW q \in OpenOps, Money(q)' # Money(q), ~MayLand(ops[q]) PROVE FALSE
      OBVIOUS
    <3>1. Money(q) = "committed" \/ (Money(q) = "escrow" /\ Money(q)' = "returned")
      BY NativeMoney
    <3>2. /\ Money(q) = MoneyIn(ops[q], ClosedOnChain(q))
          /\ Money(q)' = MoneyIn(ops'[q], ClosedOnChain(q)')
      BY MoneyIs, MoneyIsAfter DEF RowInv
    <3> QED
      BY <2>2, <3>1, <3>2 DEF MoneyIn
  <2> QED
    BY <2>3 DEF LedgerInv, OneCommitted
<1>2. ASSUME NEW x \in Ops, NodeStep(x) PROVE o = p
  <2>1. \A y \in Ops \ {x} : ops'[y] = ops[y]
    BY <1>0, <1>2, NativeGrow
  <2>2. \A q \in OpenOps : ~ClosedOnChain(q) /\ ClosedOnChain(q)' =>
           x \in CloseOps /\ ops[x].target = q
    <3> SUFFICES ASSUME NEW q \in OpenOps, ~ClosedOnChain(q), ClosedOnChain(q)'
                 PROVE  x \in CloseOps /\ ops[x].target = q
      OBVIOUS
    <3>1. PICK c \in CloseOps : ops[c].target = q /\ ops[c].tx # "mined" /\ ops'[c].tx = "mined"
      BY ClosedBy
    <3>2. c = x
      BY <2>1, <3>1 DEF Ops
    <3> QED
      BY <3>1, <3>2
  <2>3. \A q \in OpenOps : Money(q)' # Money(q) =>
           x = q \/ (x \in CloseOps /\ ops[x].target = q)
    BY <1>m, <2>1, <2>2 DEF Ops
  <2> QED
    BY <2>3, OpsAssumption
<1> QED
  BY <1>1, <1>2 DEF NativeStep

\* Where a step of the gateway moves a stake, it posts an opening.
LEMMA GatewayMoney ==
    ASSUME TypeInv, RowInv, Next, JournalTruthful', NEW o \in OpenOps, ~OpenSubmit(o),
           OpenStep \/ CloseStep \/ WithdrawStep \/ LeaseStep \/ ReconStep \/ GatewayCrash
    PROVE  Money(o)' = Money(o)
<1>1. ops'[o] = ops[o] /\ \A y \in Ops : ops'[y].tx = ops[y].tx
  BY GatewayMinesNothing
<1>2. ClosedOnChain(o)' <=> ClosedOnChain(o)
  BY <1>1, ClosedStays, ClosedBy DEF Ops
<1> QED
  BY <1>1, <1>2, MoneyIs, MoneyIsAfter DEF RowInv, MoneyIn

\* A row leaves the books, or comes back, when its stake never left the wallet or
\* was returned.
LEMMA BooksMove ==
    ASSUME RowInv, RowInv', "confirm_open" \notin Faults, NEW o \in OpenOps, StaysAbsent(o),
           Money(o)' = Money(o), ~(o \in Tracked <=> o \in Tracked')
    PROVE  Money(o) \in Settled
<1>0. /\ o \in RowIds /\ RowFits(ops, o, rows[o])
      /\ rows'[o].st = "absent" => ops'[o].phase = "new"
  BY DEF RowIds, RowInv, RowsSafe, RowsFit
<1>t. /\ o \in Tracked <=> rows[o].st \notin Over
      /\ o \in Tracked' <=> rows'[o].st \notin Over
  BY <1>0 DEF Tracked, Over
<1>m. /\ Money(o) = MoneyIn(ops[o], ClosedOnChain(o))
      /\ Money(o)' = MoneyIn(ops'[o], ClosedOnChain(o)')
  BY MoneyIs, MoneyIsAfter DEF RowInv
<1>1. ASSUME o \in Tracked, o \notin Tracked' PROVE Money(o) \in Settled
  <2>1. ops[o].phase # "new"
    BY <1>0, <1>1, <1>t DEF RowFits, Over
  <2>2. ops'[o].phase # "new"
    BY <1>m, <2>1 DEF MoneyIn
  <2> QED
    BY <1>0, <1>1, <1>t, <2>2, OverMoneyAfter DEF Over
<1>2. ASSUME o \notin Tracked, o \in Tracked' PROVE Money(o) \in Settled
  BY <1>2, <1>t, OverMoneyNow DEF StaysAbsent, Over
<1> QED
  BY <1>1, <1>2

\* The state of the ledger.
Stakes == [o \in OpenOps |-> Money(o)]
Books == Tracked \cap OpenOps

\* Moving the stake of one opening is one assignment to the ledger's function.
LEMMA StakesMove ==
    ASSUME NEW o \in OpenOps, \A p \in OpenOps \ {o} : Money(p)' = Money(p)
    PROVE  Stakes' = [Stakes EXCEPT ![o] = Money(o)']
BY DEF Stakes

\* The POST of an opening commits its stake.
LEMMA SubmitCommits ==
    ASSUME LedgerIInv, Next, RowInv', NEW o \in OpenOps, OpenSubmit(o)
    PROVE  Ledger!Commit(o)
<1>0. TypeInv /\ IInv /\ RowInv /\ LedgerInv /\ o \in Ops /\ o \in RowIds
  BY DEF LedgerIInv, IInv, Ops, RowIds
<1>1. \A p \in OpenOps : Money(p) # "committed"
  <2> SUFFICES ASSUME NEW p \in OpenOps PROVE Money(p) # "committed"
    OBVIOUS
  <2>1. ~MayLand(ops[p])
    BY <1>0 DEF OpenSubmit, IInv, PreflightClear
  <2> QED
    BY <1>0, <2>1, MoneyIs DEF RowInv, MoneyIn
<1>2. Money(o) = "wallet"
  BY <1>0, MoneyIs DEF RowInv, MoneyIn, OpenSubmit
<1>3. OpenStep
  BY DEF OpenStep
<1>4. Money(o)' = "committed"
  <2>1. ops'[o].phase = "posted" /\ ops'[o].tx = ops[o].tx
    BY <1>0, PostOnly DEF OpenSubmit
  <2>2. ops[o].tx = "none"
    BY <1>0 DEF OpenSubmit, RowInv, JournalTruthful, TruthfulOp
  <2> QED
    BY <2>1, <2>2, MoneyIsAfter DEF RowInv, MoneyIn, MayLand
<1>5. \A p \in OpenOps \ {o} : Money(p)' = Money(p)
  BY <1>0, <1>3, SubmitOne, GatewayMoney DEF RowInv
<1>6. Books' = Books \cup {o}
  <2>1. rows' = [rows EXCEPT ![o] = [NoRow EXCEPT !.st = "opening"]] /\ rows \in [RowIds -> Row]
    BY <1>0 DEF OpenSubmit, Put, TypeInv, TypeOK
  <2>2. rows'[o].st = "opening" /\ \A r \in RowIds \ {o} : rows'[r] = rows[r]
    BY <1>0, <2>1 DEF NoRow
  <2> QED
    BY <1>0, <2>2 DEF Books, Tracked
<1>7. Cardinality({p \in Books : Stakes[p] \notin Settled}) < MaxSessions
  <2>1. {p \in Books : Stakes[p] \notin Settled} = Carried
    BY DEF Books, Stakes, Carried
  <2> QED
    BY <1>0, <2>1 DEF LedgerInv, RoomInPreflight, OpenSubmit
<1>8. Stakes' = [Stakes EXCEPT ![o] = "committed"] /\ Stakes[o] = "wallet"
  BY <1>2, <1>4, <1>5, StakesMove DEF Stakes
<1>9. \A S : Ledger!Cardinality(S) = Cardinality(S)
  BY DEF Ledger!Cardinality, Cardinality
<1> QED
  BY <1>1, <1>6, <1>7, <1>8, <1>9 DEF Ledger!Commit, Ledger!Move, Ledger!Carried,
     Ledger!Settled, Settled, Stakes, Books

\* A step of the node or of the chain settles or returns one stake, or none.
LEMMA NativeSettles ==
    ASSUME LedgerIInv, Next, RowInv', NativeStep
    PROVE  Ledger!Next \/ (Stakes' = Stakes /\ Books' = Books)
<1>0. TypeInv /\ RowInv /\ LedgerInv /\ JournalTruthful'
  BY DEF LedgerIInv, IInv, RowInv
<1>1. Books' = Books
  BY DEF NativeStep, Books, Tracked
<1>2. CASE \A p \in OpenOps : Money(p)' = Money(p)
  BY <1>1, <1>2 DEF Stakes
<1>3. ASSUME NEW o \in OpenOps, Money(o)' # Money(o) PROVE Ledger!Next
  <2>1. \A p \in OpenOps \ {o} : Money(p)' = Money(p)
    BY <1>0, <1>3, OneStakeMoves
  <2>2. Stakes' = [Stakes EXCEPT ![o] = Money(o)'] /\ Stakes[o] = Money(o)
    BY <2>1, StakesMove DEF Stakes
  <2>3. \/ Money(o) = "committed" /\ Money(o)' \in {"escrow", "unspent"}
        \/ Money(o) = "escrow" /\ Money(o)' = "returned"
    BY <1>0, <1>3, NativeMoney
  <2>4. CASE Money(o) = "committed" /\ Money(o)' \in {"escrow", "unspent"}
    <3>1. Ledger!Settle(o)
      BY <1>1, <2>2, <2>4 DEF Ledger!Settle, Ledger!Move, Stakes, Books
    <3> QED
      BY <3>1 DEF Ledger!Next
  <2>5. CASE Money(o) = "escrow" /\ Money(o)' = "returned"
    <3>1. Ledger!Return(o)
      BY <1>1, <2>2, <2>5 DEF Ledger!Return, Ledger!Move, Stakes, Books
    <3> QED
      BY <3>1 DEF Ledger!Next
  <2> QED
    BY <2>3, <2>4, <2>5
<1> QED
  BY <1>2, <1>3

\* A step that leaves the stakes alone and writes one row takes one session off
\* the books, or puts one back that is over.
LEMMA KeepsBooks ==
    ASSUME RowInv, RowInv', "confirm_open" \notin Faults, OneRow,
           \A o \in OpenOps : StaysAbsent(o) /\ Money(o)' = Money(o)
    PROVE  Ledger!Next \/ (Stakes' = Stakes /\ Books' = Books)
<1>2. Stakes' = Stakes
  BY DEF Stakes
<1>3. \A o \in OpenOps : /\ o \in Tracked <=> rows[o].st \notin Over
                         /\ o \in Tracked' <=> rows'[o].st \notin Over
  BY DEF Tracked, Over, RowIds
<1>4. CASE \A r \in RowIds : rows'[r].st \in Over <=> rows[r].st \in Over
  <2>1. Books' = Books
    BY <1>3, <1>4 DEF Books, RowIds
  <2> QED
    BY <1>2, <2>1
<1>5. ASSUME NEW o \in RowIds, \A q \in RowIds \ {o} : rows'[q] = rows[q]
      PROVE  Ledger!Next \/ (Stakes' = Stakes /\ Books' = Books)
  <2>1. \A q \in OpenOps \ {o} : q \in Tracked <=> q \in Tracked'
    BY <1>3, <1>5 DEF RowIds
  <2>2. CASE o \notin OpenOps \/ (o \in Tracked <=> o \in Tracked')
    <3>1. Books' = Books
      BY <2>1, <2>2 DEF Books
    <3> QED
      BY <1>2, <3>1
  <2>3. CASE o \in OpenOps /\ o \in Tracked /\ o \notin Tracked'
    <3>1. Books' = Books \ {o} /\ o \in Books
      BY <2>1, <2>3 DEF Books
    <3>2. Stakes[o] \in Settled
      BY <2>3, BooksMove DEF Stakes
    <3>3. Ledger!Forget(o)
      BY <1>2, <3>1, <3>2 DEF Ledger!Forget, Ledger!Settled, Settled, Stakes, Books
    <3> QED
      BY <2>3, <3>3 DEF Ledger!Next
  <2>4. CASE o \in OpenOps /\ o \notin Tracked /\ o \in Tracked'
    <3>1. Books' = Books \cup {o}
      BY <2>1, <2>4 DEF Books
    <3>2. Stakes[o] \in Settled
      BY <2>4, BooksMove DEF Stakes
    <3>3. Ledger!Relist(o)
      BY <1>2, <3>1, <3>2 DEF Ledger!Relist, Ledger!Settled, Settled, Stakes, Books
    <3> QED
      BY <2>4, <3>3 DEF Ledger!Next
  <2> QED
    BY <2>2, <2>3, <2>4
<1> QED
  BY <1>4, <1>5 DEF OneRow

LEMMA LedgerStep ==
    ASSUME LedgerIInv, Next, RowInv', "confirm_open" \notin Faults
    PROVE  Ledger!Next \/ (Stakes' = Stakes /\ Books' = Books)
<1>0. TypeInv /\ RowInv /\ JournalTruthful'
  BY DEF LedgerIInv, IInv, RowInv
<1>1. CASE \E o \in OpenOps : OpenSubmit(o)
  BY <1>1, SubmitCommits DEF Ledger!Next
<1>2. CASE NativeStep
  BY <1>2, NativeSettles
<1>3. CASE ~NativeStep /\ \A o \in OpenOps : ~OpenSubmit(o)
  <2>1. OpenStep \/ CloseStep \/ WithdrawStep \/ LeaseStep \/ ReconStep \/ GatewayCrash
    BY <1>3 DEF Next
  <2>2. \A o \in OpenOps : StaysAbsent(o) /\ Money(o)' = Money(o)
    BY <1>0, <1>3, <2>1, GatewayMoney, RowsAppear
  <2> QED
    BY <1>0, <2>2, OneRowAtATime, KeepsBooks
<1> QED
  BY <1>1, <1>2, <1>3

LEMMA LedgerStutter ==
    ASSUME UNCHANGED <<ops, rows>>
    PROVE  Stakes' = Stakes /\ Books' = Books
<1>1. \A o \in OpenOps : Money(o)' = Money(o)
  BY DEF Money, LiveOnChain, ClosedOnChain, Unsettled
<1> QED
  BY <1>1 DEF Stakes, Books, Tracked

LEMMA LedgerInit == Init => Ledger!Init
<1> SUFFICES ASSUME Init PROVE Ledger!Init
  OBVIOUS
<1>1. JournalTruthful /\ \A o \in OpenOps : ops[o].phase = "new"
  BY InitRowInv DEF RowInv, Init, InitOps, NewOp, Ops
<1>2. \A o \in OpenOps : Money(o) = "wallet"
  BY <1>1, MoneyIs DEF MoneyIn
<1>3. Tracked = {}
  BY DEF Init, NoRow, Tracked
<1> QED
  BY <1>2, <1>3 DEF Ledger!Init

\* Rows, native journal and chain together keep the books of SessionLedger, for
\* every finite set of openings, every pool size and every interleaving with
\* requests, closes, reconcile and crashes, as long as the GET that follows an
\* accepted open does not fail: stake is committed one opening at a time and
\* within the pool, and no session is forgotten that holds escrow or may come to.
THEOREM LedgerIsKept ==
    ASSUME "confirm_open" \notin Faults, IsFiniteSet(RowIds)
    PROVE  Spec => KeepsLedger
<1>1. LedgerIInv /\ [Next]_vars => [Ledger!Next]_<<Stakes, Books>>
  <2> SUFFICES ASSUME LedgerIInv, [Next]_vars
               PROVE  Ledger!Next \/ (Stakes' = Stakes /\ Books' = Books)
    OBVIOUS
  <2>1. CASE UNCHANGED vars
    BY <2>1, LedgerStutter DEF vars
  <2>2. CASE Next
    <3>1. RowInv'
      BY <2>2, NextIInv DEF LedgerIInv, IInv
    <3> QED
      BY <2>2, <3>1, LedgerStep
  <2> QED
    BY <2>1, <2>2
<1> QED
  BY <1>1, LedgerInit, LedgerInductive, PTL DEF Spec, KeepsLedger, Ledger!Spec, Stakes, Books
=============================================================================
