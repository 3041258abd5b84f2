------------------------ MODULE SessionSafetyProofs ------------------------
(***************************************************************************)
(* The safety theorems of SessionLifecycle, for every set of operation     *)
(* identifiers, every bound and every set of faults a theorem does not     *)
(* exclude.                                                                *)
(*                                                                         *)
(* The invariant says of a row only what stays true while operations move  *)
(* forward, and says the same of the copies that coroutines keep across an *)
(* await: no copy that is put back late can break it.                      *)
(***************************************************************************)
EXTENDS SessionLifecycleProofs, FiniteSetTheorems

-----------------------------------------------------------------------------
(* The inductive invariant. *)

\* The journal is truthful: an operation whose stage is "not_submitted" sent
\* nothing, a recorded session ID or a successful withdrawal was mined, and a
\* close that was mined was the close of a session.
TruthfulOp(x, op) ==
    /\ op.phase \in {"new", "posted"}
         => op.stage = "not_submitted" /\ op.sid = None /\ op.status # 200
    /\ op.stage = "not_submitted" => op.tx = "none"
    /\ op.sid # None => op.sid = x /\ op.tx = "mined"
    /\ x \in WithdrawOps /\ op.status = 200 => op.tx = "mined"
    /\ x \in CloseOps /\ op.tx = "mined" => op.target # None

JournalTruthful == \A x \in Ops : TruthfulOp(x, ops[x])

\* The operation may still put a new transaction into a block.
MayLand(op) ==
    op.tx = "pending" \/ (op.tx = "none" /\ op.phase \in {"posted", "running"})

\* States of a row whose session exists.
IdentifiedStates ==
    {"open", "quarantined", "orphaned", "draining", "closing", "close_pending", "closed"}

ClosedIn(f, o) == \E c \in CloseOps : f[c].target = o /\ f[c].tx = "mined"

\* r is not the row of an opening, or the session it opened exists.
Exists(f, r) == r \in OpenOps => f[r].tx = "mined"

\* Nothing was or will be funded under r, unless a read failed after an accepted
\* POST.
WrittenOff(f, r) ==
    r \in OpenOps => ~MayLand(f[r]) /\ (f[r].tx = "mined" => "confirm_open" \in Faults)

\* What holds of a stored row r, and of every copy of it; f stands for ops.
RowFits(f, r, row) ==
    /\ row.st = "absent" => row.sid = None
    /\ row.sid # None => f[row.sid].tx = "mined"
    /\ row.st = "closed" => ClosedIn(f, row.sid)
    /\ row.st = "failed" => WrittenOff(f, r)
    /\ row.st \in IdentifiedStates => Exists(f, r)
    /\ r \in OpenOps => row.sid \in {r, None} /\ row.tx \in {r, None}
    /\ r \in OpenOps /\ row.st # "absent" => f[r].phase # "new"
    /\ r \notin OpenOps => row.st \notin {"opening", "open_unknown"}

\* The states of rows that are not in Store.sessions().
Over == {"absent", "closed", "failed"}

\* A coroutine copies only a row that it finds tracked.
CopyFits(r, row) == RowFits(ops, r, row) /\ row.st \notin Over

RowsFit ==
    \A r \in RowIds : /\ RowFits(ops, r, rows[r])
                      /\ r \in OpenOps /\ rows[r].st = "absent" => ops[r].phase = "new"

\* Requests work on sessions that exist.
LeasesFit ==
    \A r \in RowIds : /\ Active(r) => Exists(ops, r)
                      /\ lease[r].at = "checking" => CopyFits(r, lease[r].row)

\* What the holder of the lock knows about its row after its last await.
LockFits ==
    /\ lock.at \in {"open_post", "open_confirm", "close_read", "close_post", "close_confirm"}
         => CopyFits(lock.id, lock.row)
    /\ lock.at \in {"open_confirm", "close_read", "close_post", "close_confirm"}
         => lock.row.sid # None
    /\ lock.at = "open_post" => rows[lock.id].st = "opening" \/ ops[lock.id].tx = "mined"

\* What a pass of reconcile knows about its row after its last await.
ReconFits ==
    \A p \in Passes : recon[p].at # "idle" =>
       /\ CopyFits(recon[p].id, recon[p].row)
       /\ recon[p].at = "truth" => recon[p].row.sid # None
       /\ recon[p].at = "journal" => recon[p].row.st \in {"open_unknown", "close_pending"}
       /\ recon[p].at = "receipt" =>
             /\ recon[p].row.st = "open_unknown" /\ recon[p].row.tx # None
             /\ lock.at = "open_post" /\ lock.id = recon[p].id => ops[lock.id].tx = "mined"

RowsSafe == RowsFit /\ LeasesFit /\ LockFits /\ ReconFits

RowInv == JournalTruthful /\ RowsSafe

\* The preflight reads are made with nothing pending.
PreflightClear ==
    lock.at = "open_preflight" => \A x \in OpenOps \cup WithdrawOps : ~MayLand(ops[x])

\* A withdrawal that may still reach the chain is pending in the store, and one
\* never posted has no record.
WithdrawPending ==
    \A w \in WithdrawOps :
       /\ Unsettled(w) => wd[w].st \in {"submitting", "uncertain"}
       /\ wd[w].st = "absent" => ops[w].phase = "new"
       /\ wd[w].tx \in {w, None}

IInv == RowInv /\ PreflightClear /\ WithdrawPending /\ WithdrawalTruthful
-----------------------------------------------------------------------------
(* What a step may do to the operations. *)

\* p is the record of an operation before a step, q after it.
OpGrow(p, q) ==
    /\ p.tx \in {"mined", "reverted"} => q.tx = p.tx
    /\ q.tx = "mined" => p.tx \in {"mined", "pending"}
    /\ p.phase # "new" => q.phase # "new" /\ q.target = p.target
    /\ MayLand(q) => MayLand(p) \/ (p.phase = "new" /\ q.phase = "posted")

LEMMA UnsettledIsMayLand == \A x : Unsettled(x) <=> MayLand(ops[x])
BY DEF Unsettled, MayLand

\* The steps of one native operation.
LEMMA NativeGrow ==
    ASSUME NEW x \in Ops, ops \in [Ops -> OpRecord], TruthfulOp(x, ops[x]), NodeStep(x)
    PROVE  /\ OpGrow(ops[x], ops'[x])
           /\ TruthfulOp(x, ops'[x])
           /\ ops[x].phase # "new" /\ ops'[x].phase # "new"
           /\ \A y \in Ops \ {x} : ops'[y] = ops[y]
<1>1. CASE NodeBegin(x)
  BY <1>1 DEF NodeBegin, OpGrow, MayLand, TruthfulOp, OpRecord
<1>2. CASE NodeAttempt(x)
  BY <1>2 DEF NodeAttempt, OpGrow, MayLand, TruthfulOp, OpRecord
<1>3. CASE NodeBuildFailure(x)
  BY <1>3 DEF NodeBuildFailure, OpGrow, MayLand, TruthfulOp, OpRecord
<1>4. CASE NodeRecord(x)
  BY <1>4 DEF NodeRecord, OpGrow, MayLand, TruthfulOp, OpRecord
<1>5. CASE NodeSend(x)
  BY <1>5 DEF NodeSend, OpGrow, MayLand, TruthfulOp, OpRecord
<1>6. CASE x \in OpenOps /\ NodeSession(x)
  BY <1>6 DEF NodeSession, OpGrow, MayLand, TruthfulOp, OpRecord
<1>7. CASE NodeFinish(x)
  BY <1>7 DEF NodeFinish, MaySucceed, OpGrow, MayLand, TruthfulOp, OpRecord
<1>8. CASE MineOk(x)
  BY <1>8 DEF MineOk, OpGrow, MayLand, TruthfulOp, OpRecord
<1>9. CASE MineReverted(x)
  BY <1>9 DEF MineReverted, OpGrow, MayLand, TruthfulOp, OpRecord
<1> QED
  BY <1>1, <1>2, <1>3, <1>4, <1>5, <1>6, <1>7, <1>8, <1>9 DEF NodeStep

\* A POST starts a new operation.
LEMMA PostGrow ==
    ASSUME NEW x \in Ops, NEW o, ops \in [Ops -> OpRecord], TruthfulOp(x, ops[x]),
           ops[x].phase = "new", ops' = Post(x, o)
    PROVE  /\ OpGrow(ops[x], ops'[x])
           /\ TruthfulOp(x, ops'[x])
           /\ \A y \in Ops \ {x} : ops'[y] = ops[y]
BY DEF Post, OpGrow, MayLand, TruthfulOp, OpRecord

OpsGrow == \A x \in Ops : OpGrow(ops[x], ops'[x])

\* Where a step of the gateway posts, and what.
LEMMA GatewayPosts ==
    ASSUME TypeInv, OpenStep \/ CloseStep \/ WithdrawStep \/ LeaseStep \/ ReconStep \/ GatewayCrash
    PROVE  \/ UNCHANGED ops
           \/ \E o \in OpenOps : OpenSubmit(o)
           \/ \E c \in CloseOps : CloseSubmit(c)
           \/ \E w \in WithdrawOps : WithdrawSubmit(w)
<1>1. CASE OpenStep
  BY <1>1 DEF OpenStep, OpenBegin, OpenRefused, OpenAccepted, OpenRejected, OpenLost,
       OpenConfirmed, OpenUnverified, OpenConfirmFailed
<1>2. CASE CloseStep
  BY <1>2 DEF CloseStep, CloseAborted, CloseFoundClosed, CloseAccepted, CloseRejected, CloseLost,
       CloseConfirmed, CloseUnverified, CloseConfirmFailed, CloseRequest, CloseReturn, CloseBegin
<1>3. CASE WithdrawStep
  BY <1>3 DEF WithdrawStep, WithdrawBegin, WithdrawSkipped, WithdrawAccepted, WithdrawRejected,
       WithdrawLost, WithdrawReconcile
<1>4. CASE LeaseStep
  BY <1>4 DEF LeaseStep, LeaseBegin, LeaseChecked, LeaseFailed, LeaseDropped, LeaseEnd,
       Invalidate, Drain, ScheduleClose
<1>5. CASE ReconStep
  BY <1>5 DEF ReconStep, ReconPass, ReconSkip, ReconOpenJournal, ReconCloseJournal,
       ReconFoundClosed, ReconFoundLive, ReconOpenReverted, ReconReceiptFailed, ReconJournal,
       ReconTruth, ReconReceipt
<1>6. CASE GatewayCrash
  BY <1>6 DEF GatewayCrash
<1> QED
  BY <1>1, <1>2, <1>3, <1>4, <1>5, <1>6

\* Operations only move forward, and the journal stays truthful.
LEMMA OpsStep ==
    ASSUME TypeInv, JournalTruthful, Next
    PROVE  OpsGrow /\ JournalTruthful'
<1>0. ops \in [Ops -> OpRecord] /\ \A x \in Ops : TruthfulOp(x, ops[x])
  BY DEF TypeInv, TypeOK, JournalTruthful
<1>r. \A x \in Ops : OpGrow(ops[x], ops[x])
  BY DEF OpGrow
<1>1. CASE UNCHANGED ops
  BY <1>0, <1>1, <1>r DEF OpsGrow, JournalTruthful
<1>2. CASE NodeCrash
  <2> SUFFICES ASSUME NEW x \in Ops PROVE OpGrow(ops[x], ops'[x]) /\ TruthfulOp(x, ops'[x])
    BY DEF OpsGrow, JournalTruthful
  <2>1. CASE ops[x].phase = "running"
    <3>1. ops'[x] = [ops[x] EXCEPT !.phase = "dead"] /\ ops[x] \in OpRecord
      BY <1>0, <1>2, <2>1 DEF NodeCrash
    <3> QED
      BY <1>0, <2>1, <3>1 DEF OpGrow, MayLand, TruthfulOp, OpRecord
  <2>2. CASE ops[x].phase # "running"
    BY <1>0, <1>2, <1>r, <2>2 DEF NodeCrash
  <2> QED
    BY <2>1, <2>2
<1>3. ASSUME NEW x \in Ops, NodeStep(x) PROVE OpsGrow /\ JournalTruthful'
  BY <1>0, <1>3, <1>r, NativeGrow DEF OpsGrow, JournalTruthful
<1>4. ASSUME NEW x \in Ops, NEW o, ops[x].phase = "new", ops' = Post(x, o)
      PROVE  OpsGrow /\ JournalTruthful'
  BY <1>0, <1>4, <1>r, PostGrow DEF OpsGrow, JournalTruthful
<1>5. CASE NativeStep
  BY <1>2, <1>3, <1>5 DEF NativeStep
<1>6. CASE OpenStep \/ CloseStep \/ WithdrawStep \/ LeaseStep \/ ReconStep \/ GatewayCrash
  <2>1. CASE \E o \in OpenOps : OpenSubmit(o)
    BY <1>4, <2>1 DEF OpenSubmit, Ops
  <2>2. CASE \E c \in CloseOps : CloseSubmit(c)
    BY <1>4, <2>2 DEF CloseSubmit, Ops
  <2>3. CASE \E w \in WithdrawOps : WithdrawSubmit(w)
    BY <1>4, <2>3 DEF WithdrawSubmit, Ops
  <2> QED
    BY <1>1, <1>6, <2>1, <2>2, <2>3, GatewayPosts
<1> QED
  BY <1>5, <1>6 DEF Next


\* An operation leaves "new" only by the step that posts it.
LEMMA PostedBy ==
    ASSUME TypeInv, JournalTruthful, Next, NEW y \in Ops, ops[y].phase = "new", ops'[y].phase # "new"
    PROVE  \/ y \in OpenOps /\ OpenSubmit(y)
           \/ y \in CloseOps /\ CloseSubmit(y)
           \/ y \in WithdrawOps /\ WithdrawSubmit(y)
<1>0. ops \in [Ops -> OpRecord] /\ \A x \in Ops : TruthfulOp(x, ops[x])
  BY DEF TypeInv, TypeOK, JournalTruthful
<1>1. CASE NativeStep
  <2>1. CASE NodeCrash
    BY <1>0, <2>1 DEF NodeCrash
  <2>2. CASE \E x \in Ops : NodeStep(x)
    BY <1>0, <2>2, NativeGrow
  <2> QED
    BY <1>1, <2>1, <2>2 DEF NativeStep
<1>2. CASE OpenStep \/ CloseStep \/ WithdrawStep \/ LeaseStep \/ ReconStep \/ GatewayCrash
  <2>1. ASSUME NEW x \in Ops, NEW o, ops' = Post(x, o) PROVE x = y
    BY <1>0, <2>1 DEF Post
  <2>2. ASSUME NEW o \in OpenOps, OpenSubmit(o) PROVE o = y
    BY <2>1, <2>2 DEF OpenSubmit, Ops
  <2>3. ASSUME NEW c \in CloseOps, CloseSubmit(c) PROVE c = y
    BY <2>1, <2>3 DEF CloseSubmit, Ops
  <2>4. ASSUME NEW w \in WithdrawOps, WithdrawSubmit(w) PROVE w = y
    BY <2>1, <2>4 DEF WithdrawSubmit, Ops
  <2> QED
    BY <1>2, <2>2, <2>3, <2>4, GatewayPosts
<1> QED
  BY <1>1, <1>2 DEF Next

WithdrawInv == WithdrawPending /\ WithdrawalTruthful

\* A session that was closed stays closed.
LEMMA ClosedInStays ==
    ASSUME JournalTruthful, OpsGrow, NEW o, ClosedIn(ops, o)
    PROVE  ClosedIn(ops', o)
<1>1. PICK c \in CloseOps : ops[c].target = o /\ ops[c].tx = "mined"
  BY DEF ClosedIn
<1>2. c \in Ops /\ TruthfulOp(c, ops[c]) /\ OpGrow(ops[c], ops'[c])
  BY DEF Ops, JournalTruthful, OpsGrow
<1>3. ops'[c].target = o /\ ops'[c].tx = "mined"
  BY <1>1, <1>2 DEF TruthfulOp, OpGrow
<1> QED
  BY <1>3 DEF ClosedIn

\* What fits stays fitting while operations move forward: this is why a copy
\* taken before an await may be put back after it.
LEMMA FitsStable ==
    ASSUME JournalTruthful, OpsGrow, NEW r, NEW row \in Row, RowFits(ops, r, row)
    PROVE  RowFits(ops', r, row)
<1>1. row.sid \in OpenOps \cup {None}
  BY RowFields
<1>2. row.sid # None => ops'[row.sid].tx = "mined"
  BY <1>1 DEF RowFits, OpsGrow, OpGrow, Ops
<1>3. row.st = "closed" => ClosedIn(ops', row.sid)
  BY ClosedInStays DEF RowFits
<1>4. r \in OpenOps => r \in Ops /\ OpGrow(ops[r], ops'[r])
  BY DEF OpsGrow, Ops
<1>5. Exists(ops, r) => Exists(ops', r)
  BY <1>4 DEF Exists, OpGrow
<1>6. r \in OpenOps /\ row.st # "absent" => ops'[r].phase # "new"
  BY <1>4 DEF RowFits, OpGrow
<1>7. row.st = "failed" => WrittenOff(ops', r)
  BY <1>4 DEF RowFits, WrittenOff, OpGrow, MayLand
<1> QED
  BY <1>2, <1>3, <1>5, <1>6, <1>7 DEF RowFits

LEMMA ExistsStable ==
    ASSUME OpsGrow, NEW r, Exists(ops, r)
    PROVE  Exists(ops', r)
BY DEF OpsGrow, OpGrow, Exists, Ops

-----------------------------------------------------------------------------
(* What a step may do to the rows and to the copies of them. *)

LEMMA RowSetSt ==
    ASSUME NEW row \in Row, NEW st \in RowStates
    PROVE  /\ [row EXCEPT !.st = st] \in Row
           /\ [row EXCEPT !.st = st].st = st
           /\ [row EXCEPT !.st = st].sid = row.sid
           /\ [row EXCEPT !.st = st].tx = row.tx
BY DEF Row

\* A row with a chain id, or in a state that says so, is about a session.
LEMMA FitsExists ==
    ASSUME NEW f, NEW r, NEW row, RowFits(f, r, row),
           row.sid # None \/ row.st \in IdentifiedStates
    PROVE  Exists(f, r)
BY DEF RowFits, Exists

\* Rewriting the state of a row that fits gives a row that fits.
LEMMA FitsSt ==
    ASSUME NEW f, NEW r, NEW row, NEW new, RowFits(f, r, row), row.st # "absent",
           new.sid = row.sid, new.tx = row.tx, new.st # "absent",
           new.st = "closed" => ClosedIn(f, row.sid),
           new.st = "failed" => WrittenOff(f, r),
           new.st \in IdentifiedStates => Exists(f, r),
           new.st \in {"opening", "open_unknown"} => row.st \in {"opening", "open_unknown"}
    PROVE  RowFits(f, r, new)
BY DEF RowFits

\* Steps that write no row and take no copy.
LEMMA RowsAlone ==
    ASSUME TypeInv, RowInv, OpsGrow, UNCHANGED <<rows, lease, recon>>,
           \A o \in OpenOps : ops[o].phase = "new" => ops'[o].phase = "new",
           \/ UNCHANGED lock
           \/ lock'.at \in {"free", "open_preflight", "withdraw_scan", "withdraw_post"}
    PROVE  RowsSafe'
<1>1. \A r \in RowIds : rows[r] \in Row /\ lease[r].row \in Row
  BY DEF TypeInv, TypeOK, LeaseRecord
<1>2. lock.row \in Row /\ \A p \in Passes : recon[p].row \in Row
  BY LockFields DEF TypeInv, TypeOK, ReconRecord
<1>3. \A r : \A row \in Row : RowFits(ops, r, row) => RowFits(ops', r, row)
  BY FitsStable DEF RowInv
<1>4. \A r : Exists(ops, r) => Exists(ops', r)
  BY ExistsStable
<1>5. RowsFit'
  BY <1>1, <1>3 DEF RowInv, RowsSafe, RowsFit
<1>6. LeasesFit'
  BY <1>1, <1>3, <1>4 DEF RowInv, RowsSafe, LeasesFit, CopyFits, Active
<1>m. lock.at = "open_post" /\ ops[lock.id].tx = "mined" => ops'[lock.id].tx = "mined"
  BY DEF TypeInv, Shape, OpsGrow, OpGrow, Ops
<1>7. ReconFits'
  BY <1>2, <1>3, <1>m DEF RowInv, RowsSafe, ReconFits, CopyFits
<1>8. LockFits'
  BY <1>2, <1>3, <1>m DEF RowInv, RowsSafe, LockFits, CopyFits
<1> QED
  BY <1>5, <1>6, <1>7, <1>8 DEF RowsSafe

\* A row is put and the lock released.
LEMMA PutRelease ==
    ASSUME TypeInv, RowInv, NEW r \in RowIds, NEW row \in Row, Put(r, row),
           RowFits(ops, r, row), row.st # "absent",
           Release, UNCHANGED <<ops, lease, recon>>
    PROVE  RowsSafe'
<1>1. \A q \in RowIds : rows'[q] = IF q = r THEN row ELSE rows[q]
  BY DEF Put, TypeInv, TypeOK
<1>2. RowsFit'
  BY <1>1 DEF RowInv, RowsSafe, RowsFit
<1>3. LeasesFit' /\ ReconFits'
  BY DEF RowInv, RowsSafe, LeasesFit, Active, ReconFits, CopyFits, Release, Free
<1>4. LockFits'
  BY DEF LockFits, Release, Free
<1> QED
  BY <1>2, <1>3, <1>4 DEF RowsSafe

\* A row is put by a coroutine that does not hold the lock.
LEMMA PutAside ==
    ASSUME TypeInv, RowInv, NEW r \in RowIds, NEW row \in Row, Put(r, row),
           RowFits(ops, r, row), row.st # "absent",
           lock.at = "open_post" /\ lock.id = r => row.st = "opening" \/ ops[r].tx = "mined",
           \A p \in Passes : recon'[p] = Idle \/ recon'[p] = recon[p],
           \A q \in RowIds : lease'[q].at # "free" => lease[q].at # "free",
           \A q \in RowIds : lease'[q].at = "checking" => lease'[q] = lease[q],
           UNCHANGED <<ops, lock>>
    PROVE  RowsSafe'
<1>1. \A q \in RowIds : rows'[q] = IF q = r THEN row ELSE rows[q]
  BY DEF Put, TypeInv, TypeOK
<1>2. RowsFit'
  BY <1>1 DEF RowInv, RowsSafe, RowsFit
<1>3. LeasesFit'
  BY DEF RowInv, RowsSafe, LeasesFit, Active, CopyFits
<1>4. ReconFits'
  BY DEF RowInv, RowsSafe, ReconFits, CopyFits, Idle
<1>5. lock.at = "open_post" => lock.id \in RowIds
  BY DEF TypeInv, Shape, RowIds
<1>6. LockFits'
  BY <1>1, <1>5 DEF RowInv, RowsSafe, LockFits, CopyFits
<1> QED
  BY <1>2, <1>3, <1>4, <1>6 DEF RowsSafe

\* The holder of the lock puts a row, keeps it as its copy and goes on.
LEMMA PutCopy ==
    ASSUME TypeInv, RowInv, OpsGrow, NEW r \in RowIds, NEW row \in Row, Put(r, row),
           RowFits(ops', r, row), row.st \notin Over,
           lock'.at \in {"open_post", "open_confirm", "close_post", "close_confirm"},
           lock'.id = r, lock'.row = row,
           lock'.at = "open_post" =>
              r \in OpenOps /\ row.st = "opening" /\ ops[r].phase = "new",
           lock'.at # "open_post" => row.sid # None,
           \A o \in OpenOps : ops[o].phase = "new" => ops'[o].phase = "new" \/ o = r,
           UNCHANGED <<lease, recon>>
    PROVE  RowsSafe'
<1>0. \A q \in RowIds : rows'[q] = IF q = r THEN row ELSE rows[q]
  BY DEF Put, TypeInv, TypeOK
<1>1. \A q \in RowIds : rows[q] \in Row /\ lease[q].row \in Row
  BY DEF TypeInv, TypeOK, LeaseRecord
<1>2. \A p \in Passes : recon[p].row \in Row
  BY DEF TypeInv, TypeOK, ReconRecord
<1>3. \A q : \A copy \in Row : RowFits(ops, q, copy) => RowFits(ops', q, copy)
  BY FitsStable DEF RowInv
<1>4. \A q : Exists(ops, q) => Exists(ops', q)
  BY ExistsStable
<1>5. RowsFit'
  BY <1>0, <1>1, <1>3 DEF RowInv, RowsSafe, RowsFit, Over
<1>6. LeasesFit'
  BY <1>1, <1>3, <1>4 DEF RowInv, RowsSafe, LeasesFit, CopyFits, Active
<1>7. LockFits'
  BY <1>0 DEF LockFits, CopyFits
<1>8. \A p \in Passes : recon[p].at = "receipt" =>
         recon[p].row.st # "absent" /\ RowFits(ops, recon[p].id, recon[p].row)
  BY DEF RowInv, RowsSafe, ReconFits, CopyFits
<1>9. \A p \in Passes : recon[p].at = "receipt" /\ lock'.at = "open_post" => recon[p].id # r
  BY <1>8 DEF RowFits
<1>10. ReconFits'
  BY <1>2, <1>3, <1>9 DEF RowInv, RowsSafe, ReconFits, CopyFits
<1> QED
  BY <1>5, <1>6, <1>7, <1>10 DEF RowsSafe

\* The steps of _open.
LEMMA OpenRows ==
    ASSUME TypeInv, RowInv, OpsGrow, OpenStep
    PROVE  RowsSafe'
<1>0. /\ lock.row \in Row /\ rows \in [RowIds -> Row] /\ lock.row.st \in RowStates
      /\ lock.at \in {"open_post", "open_confirm"} =>
           lock.id \in OpenOps /\ lock.id \in RowIds /\ lock.op = lock.id
  BY LockFields, RowFields DEF TypeInv, TypeOK, Shape, RowIds
<1>c. /\ lock.at \in {"open_post", "open_confirm"} =>
           RowFits(ops, lock.id, lock.row) /\ lock.row.st \notin Over
      /\ lock.at = "open_confirm" => lock.row.sid # None
  BY DEF RowInv, RowsSafe, LockFits, CopyFits
<1>h. lock.at = "open_post" => /\ TruthfulOp(lock.id, ops[lock.id])
                               /\ ops[lock.id].hash \in {lock.id, None}
                               /\ ops[lock.id].sid \in OpenOps \cup {None}
  BY <1>0 DEF RowInv, JournalTruthful, TypeInv, TypeOK, Shape, Ops, OpRecord
<1>1. CASE OpenBegin
  BY <1>1, RowsAlone DEF OpenBegin, Free
<1>2. CASE OpenRefused
  BY <1>2, RowsAlone DEF OpenRefused, Release, Free
<1>3. CASE OpenAccepted
  <2> DEFINE row == [lock.row EXCEPT !.sid = ops[lock.op].sid, !.tx = ops[lock.op].hash]
  <2>1. /\ lock.at = "open_post" /\ ops[lock.op].sid # None /\ Put(lock.id, row)
        /\ lock' = [lock EXCEPT !.at = "open_confirm", !.row = row]
        /\ UNCHANGED <<ops, lease, recon>>
    BY <1>3 DEF OpenAccepted
  <2>2. [lock.row EXCEPT !.sid = ops[lock.op].sid] \in Row
    BY <1>0, <1>h, <2>1, RowFields
  <2>3. row \in Row
    BY <1>0, <1>h, <2>1, <2>2, RowFields
  <2>4. row.sid = ops[lock.op].sid /\ row.tx = ops[lock.op].hash /\ row.st = lock.row.st
    BY <1>0, <2>1 DEF Row
  <2>5. lock'.at = "open_confirm" /\ lock'.id = lock.id /\ lock'.row = row
    BY <2>1 DEF TypeInv, TypeOK, LockRecord
  <2> HIDE DEF row
  <2>6. row.sid = lock.id /\ ops[row.sid].tx = "mined" /\ row.tx \in {lock.id, None}
    BY <1>0, <1>h, <2>1, <2>4 DEF TruthfulOp
  <2>7. RowFits(ops, lock.id, row) /\ row.st \notin Over
    BY <1>0, <1>c, <2>1, <2>4, <2>6 DEF RowFits, Exists, Over
  <2>8. RowFits(ops', lock.id, row)
    BY <2>1, <2>7
  <2>9. row.sid # None
    BY <2>1, <2>4
  <2> QED
    BY <1>0, <2>1, <2>3, <2>5, <2>7, <2>8, <2>9, PutCopy
<1>4. CASE OpenRejected
  <2> DEFINE st == IF NeverSubmitted(lock.op) THEN "failed" ELSE "open_unknown"
             row == [lock.row EXCEPT !.st = st, !.tx = ops[lock.op].hash]
  <2>1. Put(lock.id, row) /\ lock.at = "open_post" /\ Release /\ UNCHANGED <<ops, lease, recon>>
    BY <1>4 DEF OpenRejected
  <2>2. st \in {"failed", "open_unknown"} /\ (st = "failed" => NeverSubmitted(lock.id))
    BY <1>0, <2>1
  <2>3. st = "failed" => WrittenOff(ops, lock.id)
    BY <1>h, <2>1, <2>2 DEF NeverSubmitted, WrittenOff, TruthfulOp, MayLand
  <2> HIDE DEF st
  <2>4. [lock.row EXCEPT !.st = st] \in Row
    BY <1>0, <2>2, Values, RowFields
  <2>5. row \in Row
    BY <1>0, <1>h, <2>1, <2>4, RowFields
  <2>6. row.sid = lock.row.sid /\ row.tx = ops[lock.op].hash /\ row.st = st
    BY <1>0 DEF Row
  <2> HIDE DEF row
  <2>7. RowFits(ops, lock.id, row)
    BY <1>0, <1>c, <1>h, <2>1, <2>2, <2>3, <2>6 DEF RowFits, IdentifiedStates, Over
  <2> QED
    BY <1>0, <2>1, <2>2, <2>5, <2>6, <2>7, PutRelease
<1>5. CASE OpenLost \/ OpenConfirmed \/ OpenUnverified \/ OpenConfirmFailed
  <2>1. PICK st \in {"open", "closed", "draining", "open_unknown", "failed"} :
           /\ Put(lock.id, [lock.row EXCEPT !.st = st])
           /\ st = "closed" => ClosedOnChain(lock.row.sid)
           /\ st = "failed" => "confirm_open" \in Faults
           /\ st # "open_unknown" => lock.at = "open_confirm"
    BY <1>5 DEF OpenLost, OpenConfirmed, OpenUnverified, OpenConfirmFailed
  <2> DEFINE row == [lock.row EXCEPT !.st = st]
  <2>2. /\ lock.at \in {"open_post", "open_confirm"} /\ Put(lock.id, row) /\ Release
        /\ UNCHANGED <<ops, lease, recon>>
    BY <1>5, <2>1 DEF OpenLost, OpenConfirmed, OpenUnverified, OpenConfirmFailed
  <2>3. row \in Row /\ row.sid = lock.row.sid /\ row.tx = lock.row.tx /\ row.st = st
    BY <1>0, Values, RowSetSt
  <2>4. lock.at = "open_confirm" => Exists(ops, lock.id)
    BY <1>c, FitsExists
  <2>5. st = "failed" => WrittenOff(ops, lock.id)
    BY <1>0, <2>1, <2>4 DEF Exists, WrittenOff, MayLand
  <2>6. st = "closed" => ClosedIn(ops, lock.row.sid)
    BY <2>1 DEF ClosedOnChain, ClosedIn
  <2> HIDE DEF row
  <2>7. RowFits(ops, lock.id, row)
    BY <1>0, <1>c, <2>1, <2>2, <2>3, <2>4, <2>5, <2>6 DEF RowFits, IdentifiedStates, Over
  <2> QED
    BY <1>0, <2>2, <2>3, <2>7, PutRelease
<1>6. ASSUME NEW o \in OpenOps, OpenSubmit(o) PROVE RowsSafe'
  <2> DEFINE row == [NoRow EXCEPT !.st = "opening"]
  <2>1. /\ ops[o].phase = "new" /\ Put(o, row) /\ ops' = Post(o, None)
        /\ lock' = [at |-> "open_post", id |-> o, op |-> o, row |-> row]
        /\ UNCHANGED <<lease, recon>>
    BY <1>6 DEF OpenSubmit
  <2>2. row \in Row /\ row.st = "opening" /\ row.sid = None /\ row.tx = None
    BY Defaults, Values, RowSetSt DEF NoRow
  <2>3. o \in RowIds /\ o \in Ops
    BY DEF RowIds, Ops
  <2>4. lock'.at = "open_post" /\ lock'.id = o /\ lock'.row = row
    BY <2>1
  <2> HIDE DEF row
  <2>5. ops'[o].phase = "posted" /\ \A q \in OpenOps \ {o} : ops'[q] = ops[q]
    BY <2>1, <2>3 DEF Post, TypeInv, TypeOK, OpRecord, Ops
  <2>6. RowFits(ops', o, row)
    BY <2>2, <2>5 DEF RowFits, IdentifiedStates
  <2> QED
    BY <2>1, <2>2, <2>3, <2>4, <2>5, <2>6, PutCopy DEF Over
<1> QED
  BY <1>1, <1>2, <1>3, <1>4, <1>5, <1>6 DEF OpenStep

\* The steps of close and _close.
LEMMA CloseRows ==
    ASSUME TypeInv, RowInv, OpsGrow, CloseStep
    PROVE  RowsSafe'
<1>0. /\ lock.row \in Row /\ rows \in [RowIds -> Row] /\ lock.row.st \in RowStates
      /\ lock.at = "close_post" => lock.op \in CloseOps /\ ops[lock.op].hash \in CloseOps \cup {None}
  BY LockFields, RowFields DEF TypeInv, TypeOK, Shape, Ops
<1>p. lock.at \in {"close_read", "close_post", "close_confirm"} =>
         /\ lock.id \in RowIds /\ RowFits(ops, lock.id, lock.row)
         /\ lock.row.sid # None /\ lock.row.st \notin Over /\ Exists(ops, lock.id)
  BY FitsExists DEF RowInv, RowsSafe, LockFits, CopyFits, TypeInv, Shape
<1>q. ASSUME lock.at \in {"close_read", "close_post", "close_confirm"},
             NEW row \in Row, Put(lock.id, row), row.sid = lock.row.sid, row.tx = lock.row.tx,
             row.st \in {"draining", "close_pending", "closed", lock.row.st},
             row.st = "closed" => ClosedIn(ops, lock.row.sid),
             Release, UNCHANGED <<ops, lease, recon>>
      PROVE  RowsSafe'
  <2>1. RowFits(ops, lock.id, row) /\ row.st # "absent"
    BY <1>p, <1>q DEF RowFits, Over
  <2> QED
    BY <1>p, <1>q, <2>1, PutRelease
<1>1. CASE CloseAborted
  BY <1>0, <1>1, <1>p, <1>q DEF CloseAborted, Over
<1>2. CASE CloseFoundClosed \/ (CloseConfirmed /\ rows' # rows)
  <2>1. /\ [lock.row EXCEPT !.st = "closed"] \in Row
        /\ [lock.row EXCEPT !.st = "closed"].st = "closed"
        /\ [lock.row EXCEPT !.st = "closed"].sid = lock.row.sid
        /\ [lock.row EXCEPT !.st = "closed"].tx = lock.row.tx
    BY <1>0, Values, RowSetSt
  <2> QED
    BY <1>2, <1>q, <2>1 DEF CloseFoundClosed, CloseConfirmed, ClosedOnChain, ClosedIn
<1>3. CASE CloseAccepted
  <2> DEFINE row == [lock.row EXCEPT !.st = "close_pending", !.ctx = lock.op]
  <2>1. /\ lock.at = "close_post" /\ Put(lock.id, row)
        /\ lock' = [lock EXCEPT !.at = "close_confirm", !.row = row]
        /\ UNCHANGED <<ops, lease, recon>>
    BY <1>3 DEF CloseAccepted
  <2>2. [lock.row EXCEPT !.st = "close_pending"] \in Row
    BY <1>0, Values, RowFields
  <2>3. row \in Row
    BY <1>0, <2>1, <2>2, RowFields
  <2>4. row.sid = lock.row.sid /\ row.tx = lock.row.tx /\ row.st = "close_pending"
    BY <1>0 DEF Row
  <2>5. lock'.at = "close_confirm" /\ lock'.id = lock.id /\ lock'.row = row
    BY <2>1 DEF TypeInv, TypeOK, LockRecord
  <2> HIDE DEF row
  <2>6. RowFits(ops, lock.id, row)
    BY <1>p, <2>1, <2>4 DEF RowFits, Over
  <2> QED
    BY <1>p, <2>1, <2>3, <2>4, <2>5, <2>6, PutCopy DEF Over
<1>4. CASE CloseRejected
  <2>1. PICK st \in {"draining", "close_pending"} :
           Put(lock.id, [lock.row EXCEPT !.st = st, !.ctxs = ops[lock.op].hash])
    BY <1>4 DEF CloseRejected
  <2> DEFINE row == [lock.row EXCEPT !.st = st, !.ctxs = ops[lock.op].hash]
  <2>2. lock.at = "close_post" /\ Release /\ UNCHANGED <<ops, lease, recon>>
    BY <1>4 DEF CloseRejected
  <2>3. [lock.row EXCEPT !.st = st] \in Row
    BY <1>0, Values, RowFields
  <2>4. row \in Row
    BY <1>0, <2>2, <2>3, RowFields
  <2>5. row.sid = lock.row.sid /\ row.tx = lock.row.tx /\ row.st = st
    BY <1>0 DEF Row
  <2> QED
    BY <1>q, <2>1, <2>2, <2>4, <2>5
<1>5. CASE CloseLost \/ CloseConfirmFailed
  <2>1. PICK st \in {"draining", "close_pending"}, kept \in {None, lock.row.ctxs} :
           Put(lock.id, [lock.row EXCEPT !.st = st, !.ctxs = kept])
    BY <1>5 DEF CloseLost, CloseConfirmFailed
  <2> DEFINE row == [lock.row EXCEPT !.st = st, !.ctxs = kept]
  <2>2. /\ lock.at \in {"close_post", "close_confirm"}
        /\ Release /\ UNCHANGED <<ops, lease, recon>>
    BY <1>5 DEF CloseLost, CloseConfirmFailed
  <2>3. [lock.row EXCEPT !.st = st] \in Row /\ kept \in CloseOps \cup {None}
    BY <1>0, Values, RowFields DEF Row
  <2>4. row \in Row
    BY <2>3, RowFields
  <2>5. row.sid = lock.row.sid /\ row.tx = lock.row.tx /\ row.st = st
    BY <1>0 DEF Row
  <2> QED
    BY <1>q, <2>1, <2>2, <2>4, <2>5
<1>6. CASE CloseConfirmed /\ rows' = rows
  BY <1>6, RowsAlone DEF CloseConfirmed, Release, Free
<1>7. CASE CloseUnverified
  <2> DEFINE row == [lock.row EXCEPT !.ctxs = None]
  <2>1. row \in Row
    BY <1>0, RowFields
  <2>2. row.sid = lock.row.sid /\ row.tx = lock.row.tx /\ row.st = lock.row.st
    BY <1>0 DEF Row
  <2>3. lock.at = "close_confirm" /\ Put(lock.id, row) /\ Release
        /\ UNCHANGED <<ops, lease, recon>>
    BY <1>7 DEF CloseUnverified
  <2> QED
    BY <1>p, <1>q, <2>1, <2>2, <2>3 DEF Over
<1>8. ASSUME NEW r \in RowIds, CloseRequest(r) \/ CloseReturn(r) PROVE RowsSafe'
  <2>1. UNCHANGED <<ops, lock, lease, recon>>
    BY <1>8 DEF CloseRequest, CloseReturn
  <2>2. CASE UNCHANGED rows
    BY <2>1, <2>2, RowsAlone
  <2>3. CASE Put(r, [rows[r] EXCEPT !.st = "draining"]) /\ ~UNCHANGED rows
    <3> DEFINE row == [rows[r] EXCEPT !.st = "draining"]
    <3>1. row \in Row /\ row.st = "draining" /\ row.sid = rows[r].sid /\ row.tx = rows[r].tx
      BY <1>0, Values, RowSetSt
    <3>2. RowFits(ops, r, rows[r]) /\ (Active(r) => Exists(ops, r))
          /\ (r \in OpenOps /\ rows[r].st = "absent" => ops[r].phase = "new")
      BY DEF RowInv, RowsSafe, RowsFit, LeasesFit
    <3>3. Exists(ops, r)
      BY <1>8, <2>3, <3>2, FitsExists DEF CloseRequest, CloseReturn, IdentifiedStates
    <3>4. r \in OpenOps => ops[r].phase # "new"
      BY <3>3 DEF Exists, RowInv, JournalTruthful, TruthfulOp, Ops
    <3> HIDE DEF row
    <3>5. RowFits(ops, r, row)
      BY <3>1, <3>2, <3>3, <3>4 DEF RowFits
    <3>6. lock.at = "open_post" /\ lock.id = r => ops[r].tx = "mined"
      BY <3>3 DEF Exists, TypeInv, Shape
    <3> QED
      BY <2>1, <2>3, <3>1, <3>5, <3>6, PutAside DEF row
  <2> QED
    BY <1>8, <2>2, <2>3 DEF CloseRequest, CloseReturn
<1>9. ASSUME NEW r \in RowIds, CloseBegin(r) PROVE RowsSafe'
  <2>1. /\ lock' = [at |-> "close_read", id |-> r, op |-> None, row |-> rows[r]]
        /\ rows[r].sid # None /\ rows[r].st \notin {"closed", "failed"}
        /\ UNCHANGED <<ops, rows, lease, recon>>
    BY <1>9 DEF CloseBegin
  <2>2. RowsFit' /\ LeasesFit' /\ ReconFits'
    BY <2>1 DEF RowInv, RowsSafe, RowsFit, LeasesFit, Active, ReconFits, CopyFits
  <2>3. RowFits(ops, r, rows[r])
    BY DEF RowInv, RowsSafe, RowsFit
  <2>4. rows[r].st \notin Over
    BY <2>1, <2>3 DEF RowFits, Over
  <2>5. LockFits'
    BY <2>1, <2>3, <2>4 DEF LockFits, CopyFits
  <2> QED
    BY <2>2, <2>5 DEF RowsSafe
<1>10. ASSUME NEW c \in CloseOps, CloseSubmit(c) PROVE RowsSafe'
  <2> DEFINE row == [lock.row EXCEPT !.st = "closing", !.cop = c]
  <2>1. /\ lock.at = "close_read" /\ Put(lock.id, row)
        /\ lock' = [lock EXCEPT !.at = "close_post", !.op = c, !.row = row]
        /\ ops' = Post(c, lock.row.sid) /\ UNCHANGED <<lease, recon>>
    BY <1>10 DEF CloseSubmit
  <2>2. [lock.row EXCEPT !.st = "closing"] \in Row
    BY <1>0, Values, RowFields
  <2>3. row \in Row
    BY <2>2, RowFields
  <2>4. row.sid = lock.row.sid /\ row.tx = lock.row.tx /\ row.st = "closing"
    BY <1>0 DEF Row
  <2>5. lock'.at = "close_post" /\ lock'.id = lock.id /\ lock'.row = row
    BY <2>1 DEF TypeInv, TypeOK, LockRecord
  <2> HIDE DEF row
  <2>6. RowFits(ops, lock.id, row)
    BY <1>p, <2>1, <2>4 DEF RowFits, Over
  <2>7. RowFits(ops', lock.id, row)
    BY <2>3, <2>6, FitsStable DEF RowInv
  <2>8. \A o \in OpenOps : ops'[o] = ops[o]
    BY <2>1, OpsAssumption DEF Post, TypeInv, TypeOK, Ops
  <2> QED
    BY <1>p, <2>1, <2>3, <2>4, <2>5, <2>7, <2>8, PutCopy DEF Over
<1> QED
  BY <1>1, <1>2, <1>3, <1>4, <1>5, <1>6, <1>7, <1>8, <1>9, <1>10 DEF CloseStep

\* treasury writes no session row.
LEMMA WithdrawRows ==
    ASSUME TypeInv, RowInv, OpsGrow, WithdrawStep
    PROVE  RowsSafe'
<1>1. UNCHANGED <<rows, lease, recon>>
  BY DEF WithdrawStep, WithdrawBegin, WithdrawSkipped, WithdrawAccepted, WithdrawRejected,
       WithdrawLost, WithdrawReconcile, WithdrawSubmit
<1>2. \/ UNCHANGED lock
      \/ lock'.at \in {"free", "withdraw_scan", "withdraw_post"}
  <2>1. CASE WithdrawBegin
    BY <2>1 DEF WithdrawBegin, Free
  <2>2. CASE WithdrawSkipped \/ WithdrawAccepted \/ WithdrawRejected \/ WithdrawLost
    BY <2>2 DEF WithdrawSkipped, WithdrawAccepted, WithdrawRejected, WithdrawLost, Release, Free
  <2>3. ASSUME NEW w \in WithdrawOps, NEW journal \in JournalAnswers,
             WithdrawReconcile(w, journal)
        PROVE  UNCHANGED lock \/ lock'.at = "free"
    <3>1. UNCHANGED lock \/ lock' = Free
      BY <2>3 DEF WithdrawReconcile, Release
    <3> QED
      BY <3>1 DEF Free
  <2>4. ASSUME NEW w \in WithdrawOps, WithdrawSubmit(w) PROVE lock'.at = "withdraw_post"
    BY <2>4 DEF WithdrawSubmit, Free
  <2> QED
    BY <2>1, <2>2, <2>3, <2>4 DEF WithdrawStep
<1>3. \A o \in OpenOps : ops'[o] = ops[o]
  <2>1. CASE UNCHANGED ops
    BY <2>1
  <2>2. ASSUME NEW w \in WithdrawOps, WithdrawSubmit(w) PROVE \A o \in OpenOps : ops'[o] = ops[o]
    BY <2>2, OpsAssumption DEF WithdrawSubmit, Post, TypeInv, TypeOK, Ops
  <2> QED
    BY <2>1, <2>2 DEF WithdrawStep, WithdrawBegin, WithdrawSkipped, WithdrawAccepted,
         WithdrawRejected, WithdrawLost, WithdrawReconcile
<1> QED
  BY <1>1, <1>2, <1>3, RowsAlone

\* The writers outside the lock.
LEMMA LeaseRows ==
    ASSUME TypeInv, RowInv, OpsGrow, LeaseStep
    PROVE  RowsSafe'
<1>1. PICK r \in RowIds :
         \/ LeaseBegin(r) \/ LeaseChecked(r) \/ LeaseFailed(r) \/ LeaseDropped(r)
         \/ LeaseEnd(r) \/ Invalidate(r) \/ Drain(r) \/ ScheduleClose(r)
  BY DEF LeaseStep
<1>2. /\ rows[r] \in Row /\ lease[r].row \in Row
      /\ lease \in [RowIds -> LeaseRecord] /\ rows \in [RowIds -> Row]
  BY DEF TypeInv, TypeOK, LeaseRecord
<1>3. /\ RowFits(ops, r, rows[r])
      /\ lease[r].at # "free" => Exists(ops, r)
      /\ lease[r].at = "checking" => CopyFits(r, lease[r].row)
  BY DEF RowInv, RowsSafe, RowsFit, LeasesFit, Active
<1>4. rows[r].st \in {"open", "draining", "orphaned"} => Exists(ops, r)
  BY <1>3, FitsExists DEF IdentifiedStates
<1>e. Exists(ops, r) => /\ r \in OpenOps => ops[r].phase # "new"
                        /\ lock.at = "open_post" /\ lock.id = r => ops[r].tx = "mined"
  BY DEF Exists, RowInv, JournalTruthful, TruthfulOp, Ops, TypeInv, Shape
<1>5. ASSUME NEW copy \in Row, NEW st \in {"closed", "draining", "quarantined"},
             RowFits(ops, r, copy), Exists(ops, r), st = "closed" => ClosedOnChain(copy.sid),
             Put(r, [copy EXCEPT !.st = st]),
             lease' = lease \/ lease' = [lease EXCEPT ![r] = NoLease],
             UNCHANGED <<ops, lock, recon>>
      PROVE  RowsSafe'
  <2> DEFINE row == [copy EXCEPT !.st = st]
  <2>1. row \in Row /\ row.st = st /\ row.sid = copy.sid /\ row.tx = copy.tx
    BY Values, RowSetSt
  <2>2. Put(r, row) /\ (st = "closed" => ClosedIn(ops, copy.sid))
    BY <1>5 DEF ClosedOnChain, ClosedIn
  <2> HIDE DEF row
  <2>3. RowFits(ops, r, row)
    BY <1>5, <1>e, <2>1, <2>2 DEF RowFits
  <2>4. /\ \A q \in RowIds : lease'[q].at # "free" => lease[q].at # "free"
        /\ \A q \in RowIds : lease'[q].at = "checking" => lease'[q] = lease[q]
    BY <1>2, <1>5 DEF NoLease
  <2> QED
    BY <1>5, <1>e, <2>1, <2>2, <2>3, <2>4, PutAside
<1>6. ASSUME UNCHANGED <<ops, rows, lock, recon>>,
             NEW l, lease' = [lease EXCEPT ![r] = l],
             l.at # "free" => Exists(ops, r),
             l.at = "checking" => CopyFits(r, l.row)
      PROVE  RowsSafe'
  <2>1. \A q \in RowIds : lease'[q] = IF q = r THEN l ELSE lease[q]
    BY <1>2, <1>6
  <2>2. LeasesFit'
    BY <1>6, <2>1 DEF RowInv, RowsSafe, LeasesFit, Active, CopyFits
  <2> QED
    BY <1>6, <2>2 DEF RowInv, RowsSafe, RowsFit, LockFits, ReconFits, CopyFits
<1>7. CASE LeaseBegin(r)
  <2>1. CopyFits(r, rows[r]) /\ Exists(ops, r)
    BY <1>3, <1>4, <1>7 DEF LeaseBegin, CopyFits, Over
  <2> QED
    BY <1>6, <1>7, <2>1 DEF LeaseBegin
<1>8. CASE LeaseChecked(r)
  <2>1. PICK verdict \in {"leased", "closed", "draining", "dropped"} :
          /\ verdict = "closed" => ClosedOnChain(rows[r].sid)
          /\ IF verdict \in {"closed", "draining"}
             THEN Put(r, [rows[r] EXCEPT !.st = verdict])
             ELSE UNCHANGED rows
          /\ lease' = [lease EXCEPT ![r] =
                         IF verdict = "leased" THEN [at |-> "leased", row |-> NoRow]
                                               ELSE NoLease]
    BY <1>8 DEF LeaseChecked
  <2>2. lease[r].at = "checking" /\ UNCHANGED <<ops, lock, recon>>
    BY <1>8 DEF LeaseChecked
  <2>3. CASE verdict \in {"closed", "draining"}
    BY <1>2, <1>3, <1>5, <2>1, <2>2, <2>3
  <2>4. CASE verdict = "leased"
    <3> DEFINE l == [at |-> "leased", row |-> NoRow]
    <3>1. lease' = [lease EXCEPT ![r] = l] /\ l.at = "leased"
      BY <2>1, <2>4
    <3> HIDE DEF l
    <3> QED
      BY <1>3, <1>6, <2>1, <2>2, <2>4, <3>1
  <2>5. CASE verdict = "dropped"
    <3>1. lease' = [lease EXCEPT ![r] = NoLease] /\ UNCHANGED rows
      BY <2>1, <2>5
    <3>2. NoLease.at = "free"
      BY DEF NoLease
    <3> QED
      BY <1>6, <2>2, <3>1, <3>2
  <2> QED
    BY <2>3, <2>4, <2>5
<1>9. CASE LeaseFailed(r)
  BY <1>2, <1>3, <1>5, <1>9 DEF LeaseFailed, CopyFits
<1>10. CASE LeaseDropped(r) \/ LeaseEnd(r)
  <2>1. UNCHANGED <<ops, rows, lock, recon>> /\ lease' = [lease EXCEPT ![r] = NoLease]
    BY <1>10 DEF LeaseDropped, LeaseEnd
  <2>2. NoLease.at = "free"
    BY DEF NoLease
  <2> QED
    BY <1>6, <2>1, <2>2
<1>11. CASE Invalidate(r) \/ Drain(r) \/ ScheduleClose(r)
  <2>1. /\ Exists(ops, r) /\ UNCHANGED <<ops, lock, lease, recon>>
        /\ Put(r, [rows[r] EXCEPT !.st = "draining"])
    BY <1>3, <1>4, <1>11 DEF Invalidate, Drain, ScheduleClose
  <2> QED
    BY <1>2, <1>3, <1>5, <2>1
<1> QED
  BY <1>1, <1>7, <1>8, <1>9, <1>10, <1>11

\* The steps of reconcile.
LEMMA ReconRows ==
    ASSUME TypeInv, RowInv, OpsGrow, ReconStep
    PROVE  RowsSafe'
<1> PICK p \in Passes : ReconPass(p)
  BY DEF ReconStep
<1>0. /\ recon[p].row \in Row /\ rows \in [RowIds -> Row] /\ recon[p].row.st \in RowStates
      /\ recon[p].row.sid \in OpenOps \cup {None}
      /\ recon[p].at # "idle" => recon[p].id \in RowIds
  BY RowFields DEF TypeInv, TypeOK, Shape, ReconRecord
<1>g. recon[p].at # "idle" => RowFits(ops, recon[p].id, recon[p].row) /\ recon[p].row.st \notin Over
  BY DEF RowInv, RowsSafe, ReconFits, CopyFits
<1>p. lock.at = "open_post" => rows[lock.id].st = "opening" \/ ops[lock.id].tx = "mined"
  BY DEF RowInv, RowsSafe, LockFits
<1>1. ASSUME NEW row \in Row, recon[p].at # "idle", Put(recon[p].id, row),
             RowFits(ops, recon[p].id, row), row.st # "absent",
             lock.at = "open_post" /\ lock.id = recon[p].id =>
                row.st = "opening" \/ ops[recon[p].id].tx = "mined",
             Resume(p, Idle), UNCHANGED <<ops, lock, lease>>
      PROVE  RowsSafe'
  <2>1. \A q \in Passes : recon'[q] = Idle \/ recon'[q] = recon[q]
    BY <1>1 DEF Resume, TypeInv, TypeOK
  <2> QED
    BY <1>0, <1>1, <2>1, PutAside
<1>2. ASSUME NEW r \in RowIds, NEW at \in {"journal", "truth", "receipt"},
             Resume(p, [at |-> at, id |-> r, row |-> rows[r]]), rows[r].st \notin Over,
             at = "truth" => rows[r].sid # None,
             at = "journal" => rows[r].st \in {"open_unknown", "close_pending"},
             at = "receipt" => rows[r].st = "open_unknown" /\ rows[r].tx # None,
             UNCHANGED <<ops, rows, lock, lease>>
      PROVE  RowsSafe'
  <2>1. RowFits(ops, r, rows[r])
    BY DEF RowInv, RowsSafe, RowsFit
  <2>2. ReconFits'
    BY <1>2, <1>p, <2>1 DEF ReconFits, CopyFits, Resume, RowInv, RowsSafe, TypeInv, TypeOK
  <2> QED
    BY <1>2, <2>2 DEF RowInv, RowsSafe, RowsFit, LeasesFit, Active, LockFits, CopyFits
<1>3. CASE ReconSkip(p)
  <2>1. ReconFits'
    BY <1>3 DEF ReconSkip, Resume, Idle, ReconFits, CopyFits, RowInv, RowsSafe, TypeInv, TypeOK
  <2> QED
    BY <1>3, <2>1 DEF ReconSkip, RowInv, RowsSafe, RowsFit, LeasesFit, Active, LockFits, CopyFits
<1>4. CASE ReconOpenJournal(p)
  <2>1. /\ recon[p].at = "journal" /\ recon[p].row.st = "open_unknown"
        /\ rows[recon[p].id] = recon[p].row /\ recon[p].id \in OpenOps /\ recon[p].id \in Ops
        /\ Resume(p, Idle) /\ UNCHANGED <<ops, lock, lease>>
    BY <1>4 DEF ReconOpenJournal, SnapshotHolds, Ops
  <2>2. /\ ops[recon[p].id].hash \in {recon[p].id, None}
        /\ ops[recon[p].id].sid \in {recon[p].id, None}
        /\ TruthfulOp(recon[p].id, ops[recon[p].id])
    BY <2>1 DEF TypeInv, Shape, RowInv, JournalTruthful, TruthfulOp
  <2> DEFINE tx == ops[recon[p].id].hash
             sid == IF ops[recon[p].id].sid # None THEN ops[recon[p].id].sid ELSE recon[p].row.sid
             st == IF ops[recon[p].id].sid = None /\ NeverSubmitted(recon[p].id)
                   THEN "failed" ELSE recon[p].row.st
             row == [recon[p].row EXCEPT !.tx = tx, !.sid = sid, !.st = st]
  <2>3. Put(recon[p].id, row)
    BY <1>4 DEF ReconOpenJournal
  <2>4. /\ tx \in OpenOps \cup {None} /\ tx \in {recon[p].id, None}
        /\ sid \in OpenOps \cup {None} /\ sid \in {recon[p].id, None}
        /\ sid # None => ops[sid].tx = "mined"
        /\ st \in {"failed", "open_unknown"} /\ st \in RowStates
    BY <1>0, <1>g, <2>1, <2>2, Values DEF RowFits, TruthfulOp
  <2>5. st = "failed" => WrittenOff(ops, recon[p].id)
    BY <2>1, <2>2 DEF NeverSubmitted, WrittenOff, TruthfulOp, MayLand
  <2> HIDE DEF tx, sid, st
  <2>6. [recon[p].row EXCEPT !.tx = tx] \in Row
    BY <1>0, <2>4, RowFields
  <2>7. [recon[p].row EXCEPT !.tx = tx, !.sid = sid] \in Row
    BY <2>4, <2>6, RowFields
  <2>8. row \in Row
    BY <2>4, <2>7, RowFields
  <2>9. row.tx = tx /\ row.sid = sid /\ row.st = st
    BY <1>0 DEF Row
  <2> HIDE DEF row
  <2>10. RowFits(ops, recon[p].id, row)
    BY <1>g, <2>1, <2>4, <2>5, <2>9 DEF RowFits, IdentifiedStates
  <2> QED
    BY <1>1, <1>p, <2>1, <2>3, <2>4, <2>8, <2>9, <2>10
<1>5. CASE ReconCloseJournal(p)
  <2>1. /\ recon[p].at = "journal" /\ recon[p].row.st = "close_pending" /\ recon[p].row.cop # None
        /\ rows[recon[p].id] = recon[p].row
        /\ Resume(p, Idle) /\ UNCHANGED <<ops, lock, lease>>
    BY <1>5 DEF ReconCloseJournal, SnapshotHolds
  <2>2. recon[p].row.cop \in CloseOps /\ ops[recon[p].row.cop].hash \in CloseOps \cup {None}
    BY <1>0, <2>1, RowFields DEF TypeInv, Shape, Ops
  <2> DEFINE ctxs == ops[recon[p].row.cop].hash
             st == IF NeverSubmitted(recon[p].row.cop) THEN "draining" ELSE recon[p].row.st
             row == [recon[p].row EXCEPT !.ctxs = ctxs, !.st = st]
  <2>3. Put(recon[p].id, row)
    BY <1>5 DEF ReconCloseJournal
  <2>4. st \in {"draining", "close_pending"} /\ st \in RowStates
    BY <2>1, Values
  <2> HIDE DEF st
  <2>5. [recon[p].row EXCEPT !.ctxs = ctxs] \in Row
    BY <1>0, <2>2, RowFields
  <2>6. row \in Row
    BY <2>4, <2>5, RowFields
  <2>7. row.tx = recon[p].row.tx /\ row.sid = recon[p].row.sid /\ row.st = st
    BY <1>0 DEF Row
  <2> HIDE DEF row
  <2>8. RowFits(ops, recon[p].id, row)
    BY <1>g, <2>1, <2>4, <2>7 DEF RowFits, IdentifiedStates
  <2> QED
    BY <1>1, <1>p, <2>1, <2>3, <2>4, <2>6, <2>7, <2>8
<1>6. CASE ReconFoundClosed(p)
  <2> DEFINE row == [recon[p].row EXCEPT !.st = "closed"]
  <2>1. /\ recon[p].at = "truth" /\ Put(recon[p].id, row) /\ ClosedIn(ops, recon[p].row.sid)
        /\ Resume(p, Idle) /\ UNCHANGED <<ops, lock, lease>>
    BY <1>6 DEF ReconFoundClosed, ClosedOnChain, ClosedIn
  <2>2. row \in Row /\ row.st = "closed" /\ row.sid = recon[p].row.sid /\ row.tx = recon[p].row.tx
    BY <1>0, Values, RowSetSt
  <2>3. recon[p].row.sid # None
    BY <2>1 DEF RowInv, RowsSafe, ReconFits
  <2>4. Exists(ops, recon[p].id)
    BY <1>g, <2>1, <2>3, FitsExists
  <2>5. lock.at = "open_post" /\ lock.id = recon[p].id => ops[recon[p].id].tx = "mined"
    BY <2>4 DEF Exists, TypeInv, Shape
  <2> HIDE DEF row
  <2>6. RowFits(ops, recon[p].id, row)
    BY <1>g, <2>1, <2>2, <2>4, FitsSt DEF Over
  <2> QED
    BY <1>1, <2>1, <2>2, <2>5, <2>6
<1>7. CASE ReconFoundLive(p)
  <2> DEFINE st == IF recon[p].row.st \in {"open_unknown", "quarantined"} THEN "open"
                   ELSE IF recon[p].row.st = "close_pending" /\ CloseReverted(recon[p].row)
                   THEN "draining" ELSE recon[p].row.st
             row == [recon[p].row EXCEPT !.st = st]
  <2>1. /\ recon[p].at = "truth" /\ Resume(p, Idle) /\ UNCHANGED <<ops, lock, lease>>
    BY <1>7 DEF ReconFoundLive
  <2>2. Put(recon[p].id, row)
    BY <1>7 DEF ReconFoundLive
  <2>3. st \in RowStates /\ (st \in {"open", "draining"} \/ st = recon[p].row.st)
    BY <1>0, Values
  <2> HIDE DEF st
  <2>4. row \in Row /\ row.st = st /\ row.sid = recon[p].row.sid /\ row.tx = recon[p].row.tx
    BY <1>0, <2>3, RowSetSt
  <2>5. recon[p].row.sid # None
    BY <2>1 DEF RowInv, RowsSafe, ReconFits
  <2>6. Exists(ops, recon[p].id)
    BY <1>g, <2>1, <2>5, FitsExists
  <2>7. lock.at = "open_post" /\ lock.id = recon[p].id => ops[recon[p].id].tx = "mined"
    BY <2>6 DEF Exists, TypeInv, Shape
  <2> HIDE DEF row
  <2>8. RowFits(ops, recon[p].id, row) /\ row.st # "absent"
    BY <1>g, <2>1, <2>3, <2>4, <2>6 DEF RowFits, Over
  <2> QED
    BY <1>1, <2>1, <2>2, <2>4, <2>7, <2>8
<1>8. CASE ReconOpenReverted(p)
  <2> DEFINE row == [recon[p].row EXCEPT !.st = "failed"]
  <2>1. /\ recon[p].at = "receipt" /\ Put(recon[p].id, row) /\ ops[recon[p].row.tx].tx = "reverted"
        /\ Resume(p, Idle) /\ UNCHANGED <<ops, lock, lease>>
    BY <1>8 DEF ReconOpenReverted
  <2>2. row \in Row /\ row.st = "failed" /\ row.sid = recon[p].row.sid /\ row.tx = recon[p].row.tx
    BY <1>0, Values, RowSetSt
  <2>3. /\ recon[p].row.st = "open_unknown" /\ recon[p].row.tx # None
        /\ lock.at = "open_post" /\ lock.id = recon[p].id => ops[recon[p].id].tx = "mined"
    BY <2>1 DEF RowInv, RowsSafe, ReconFits
  <2>4. WrittenOff(ops, recon[p].id)
    BY <1>g, <2>1, <2>3 DEF RowFits, WrittenOff, MayLand
  <2> HIDE DEF row
  <2>5. RowFits(ops, recon[p].id, row)
    BY <1>g, <2>1, <2>2, <2>3, <2>4, FitsSt DEF IdentifiedStates
  <2> QED
    BY <1>1, <2>1, <2>2, <2>3, <2>5
<1>9. CASE ReconReceiptFailed(p)
  <2>1. /\ recon[p].at = "receipt" /\ Put(recon[p].id, recon[p].row)
        /\ Resume(p, Idle) /\ UNCHANGED <<ops, lock, lease>>
    BY <1>9 DEF ReconReceiptFailed
  <2>2. lock.at = "open_post" /\ lock.id = recon[p].id => ops[recon[p].id].tx = "mined"
    BY <2>1 DEF RowInv, RowsSafe, ReconFits
  <2> QED
    BY <1>0, <1>1, <1>g, <2>1, <2>2 DEF Over
<1>10. ASSUME NEW r \in RowIds, ReconJournal(p, r) \/ ReconTruth(p, r) \/ ReconReceipt(p, r)
      PROVE  RowsSafe'
  BY <1>2, <1>10 DEF ReconJournal, ReconTruth, ReconReceipt, Tracked, Over
<1> QED
  BY <1>3, <1>4, <1>5, <1>6, <1>7, <1>8, <1>9, <1>10 DEF ReconPass

\* A crash drops every copy; recover() only rewrites states.
LEMMA CrashRows ==
    ASSUME TypeInv, RowInv, GatewayCrash
    PROVE  RowsSafe'
<1>1. /\ UNCHANGED ops /\ lock'.at = "free" /\ \A p \in Passes : recon'[p].at = "idle"
      /\ \A r \in RowIds : rows'[r] = Recovered(rows[r]) /\ lease'[r].at = "free"
  BY DEF GatewayCrash, Free, Idle, NoLease
<1>2. ASSUME NEW r \in RowIds
      PROVE  RowFits(ops, r, rows'[r]) /\ (rows'[r].st = "absent" => rows[r].st = "absent")
  <2> DEFINE st == IF rows[r].st = "opening" THEN "open_unknown"
                   ELSE IF rows[r].st = "closing" THEN "close_pending" ELSE rows[r].st
             row == [rows[r] EXCEPT !.st = st]
  <2>1. rows[r] \in Row /\ RowFits(ops, r, rows[r])
    BY DEF TypeInv, TypeOK, RowInv, RowsSafe, RowsFit
  <2>2. rows'[r] = row
    BY <1>1 DEF Recovered
  <2>3. st \in RowStates
    BY <2>1, Values, RowFields
  <2>4. row.st = st /\ row.sid = rows[r].sid /\ row.tx = rows[r].tx
    BY <2>1, <2>3, RowSetSt
  <2>5. RowFits(ops, r, row)
    BY <2>1, <2>4 DEF RowFits, IdentifiedStates
  <2> QED
    BY <2>2, <2>4, <2>5
<1> QED
  BY <1>1, <1>2 DEF RowInv, RowsSafe, RowsFit, LeasesFit, Active, LockFits, ReconFits

LEMMA InitRowInv == Init => RowInv
<1> SUFFICES ASSUME Init PROVE RowInv
  OBVIOUS
<1>1. JournalTruthful
  BY DEF Init, InitOps, NewOp, JournalTruthful, TruthfulOp
<1>2. RowsFit
  BY DEF Init, InitOps, NewOp, NoRow, RowsFit, RowFits, IdentifiedStates, Ops
<1>3. LeasesFit /\ LockFits /\ ReconFits
  BY DEF Init, NoRow, NoLease, Free, Idle, LeasesFit, Active, LockFits, ReconFits
<1> QED
  BY <1>1, <1>2, <1>3 DEF RowInv, RowsSafe

LEMMA NextRowInv ==
    ASSUME TypeInv, RowInv, Next
    PROVE  RowInv'
<1>1. OpsGrow /\ JournalTruthful'
  BY OpsStep DEF RowInv
<1>2. CASE NativeStep
  <2>1. UNCHANGED <<rows, lock, lease, recon>>
    BY <1>2 DEF NativeStep
  <2>2. \A o \in OpenOps : ~OpenSubmit(o)
    <3> SUFFICES ASSUME NEW o \in OpenOps, OpenSubmit(o) PROVE FALSE
      OBVIOUS
    <3>1. PICK row : lock' = [at |-> "open_post", id |-> o, op |-> o, row |-> row]
      BY DEF OpenSubmit
    <3> QED
      BY <2>1, <3>1 DEF OpenSubmit
  <2>3. \A o \in OpenOps : ops[o].phase = "new" => ops'[o].phase = "new"
    BY <2>2, PostedBy, OpsAssumption DEF RowInv, Ops
  <2>4. RowsSafe'
    BY <1>1, <2>1, <2>3, RowsAlone
  <2> QED
    BY <1>1, <2>4 DEF RowInv
<1>3. CASE OpenStep \/ CloseStep \/ WithdrawStep \/ LeaseStep \/ ReconStep \/ GatewayCrash
  BY <1>1, <1>3, OpenRows, CloseRows, WithdrawRows, LeaseRows, ReconRows, CrashRows DEF RowInv
<1> QED
  BY <1>2, <1>3 DEF Next

-----------------------------------------------------------------------------
(* Withdrawals in doubt are pending in the store. *)

\* What the record of one withdrawal says.
WdOk(w, op, rec) ==
    /\ MayLand(op) => rec.st \in {"submitting", "uncertain"}
    /\ rec.st = "absent" => op.phase = "new"
    /\ rec.tx \in {w, None}
    /\ rec.st = "succeeded" => op.tx = "mined"
    /\ rec.st = "failed" => op.tx # "mined" /\ ~MayLand(op)

LEMMA WithdrawInvIs == WithdrawInv <=> \A w \in WithdrawOps : WdOk(w, ops[w], wd[w])
BY DEF WithdrawInv, WithdrawPending, WithdrawalTruthful, WdOk, Unsettled, MayLand

LEMMA NextWithdrawInv ==
    ASSUME TypeInv, JournalTruthful, WithdrawInv, Next
    PROVE  WithdrawInv'
<1>0. /\ wd \in [WithdrawOps -> [st : WdStates, tx : WithdrawOps \cup {None}]]
      /\ ops \in [Ops -> OpRecord]
  BY DEF TypeInv, TypeOK
<1>i. \A w \in WithdrawOps : w \in Ops /\ WdOk(w, ops[w], wd[w]) /\ OpGrow(ops[w], ops'[w])
                              /\ TruthfulOp(w, ops[w]) /\ ops[w].hash \in {w, None}
  BY WithdrawInvIs, OpsStep DEF JournalTruthful, OpsGrow, Ops, TypeInv, Shape
<1> SUFFICES ASSUME NEW w \in WithdrawOps PROVE WdOk(w, ops'[w], wd'[w])
  BY DEF WithdrawInv, WithdrawPending, WithdrawalTruthful, WdOk, Unsettled, MayLand
<1>1. CASE WithdrawSubmit(w)
  <2>1. wd'[w] = [wd[w] EXCEPT !.st = "submitting"]
    BY <1>0, <1>1 DEF WithdrawSubmit
  <2> QED
    BY <1>0, <1>i, <2>1 DEF WdOk
<1>2. CASE ~WithdrawSubmit(w)
  <2>1. ops[w].phase = "new" => ops'[w].phase = "new"
    BY <1>2, <1>i, OpsAssumption, PostedBy
  <2>2. CASE wd'[w] = wd[w]
    BY <1>i, <2>1, <2>2 DEF WdOk, OpGrow, MayLand
  <2>3. ASSUME NEW st, NEW tx, UNCHANGED ops, wd'[w] = [st |-> st, tx |-> tx],
               st \in {"uncertain", "submitting", "succeeded", "failed"}, tx \in {w, None},
               st = "succeeded" => ops[w].tx = "mined",
               st = "failed" => ops[w].tx # "mined" /\ ~MayLand(ops[w])
        PROVE  WdOk(w, ops'[w], wd'[w])
    BY <2>3 DEF WdOk, MayLand
  <2>4. NeverSubmitted(w) => ops[w].tx # "mined" /\ ~MayLand(ops[w])
    BY <1>i DEF NeverSubmitted, TruthfulOp, MayLand
  <2>5. CASE WithdrawStep
    <3>1. CASE WithdrawBegin \/ WithdrawSkipped
      BY <2>2, <3>1 DEF WithdrawBegin, WithdrawSkipped
    <3>2. CASE (WithdrawAccepted \/ WithdrawRejected \/ WithdrawLost) /\ lock.op # w
      BY <1>0, <2>2, <3>2 DEF WithdrawAccepted, WithdrawRejected, WithdrawLost
    <3>3. CASE WithdrawAccepted /\ lock.op = w
      <4>1. wd'[w] = [st |-> "succeeded", tx |-> w] /\ UNCHANGED ops /\ ops[w].status = 200
        BY <1>0, <3>3 DEF WithdrawAccepted
      <4>2. ops[w].tx = "mined"
        BY <1>i, <4>1 DEF TruthfulOp
      <4> QED
        BY <2>3, <4>1, <4>2
    <3>4. CASE WithdrawRejected /\ lock.op = w
      <4>1. PICK st : /\ wd'[w] = [st |-> st, tx |-> ops[w].hash]
                      /\ st = IF NeverSubmitted(w) THEN "failed" ELSE "uncertain"
        BY <1>0, <3>4 DEF WithdrawRejected
      <4>2. UNCHANGED ops
        BY <3>4 DEF WithdrawRejected
      <4> QED
        BY <1>i, <2>3, <2>4, <4>1, <4>2
    <3>5. CASE WithdrawLost /\ lock.op = w
      <4>1. wd'[w] = [st |-> "uncertain", tx |-> None] /\ UNCHANGED ops
        BY <1>0, <3>5 DEF WithdrawLost
      <4> QED
        BY <2>3, <4>1
    <3>6. ASSUME NEW v \in WithdrawOps, NEW journal \in JournalAnswers,
             WithdrawReconcile(v, journal)
          PROVE  WdOk(w, ops'[w], wd'[w])
      <4>1. CASE v # w
        BY <1>0, <2>2, <3>6, <4>1 DEF WithdrawReconcile
      <4>2. CASE v = w
        <5> DEFINE hash    == IF journal = "read" THEN ops[w].hash ELSE wd[w].tx
                   verdict == IF journal = "read" /\ JournalVerdict(w) # "none"
                              THEN JournalVerdict(w) ELSE ReceiptVerdict(hash)
                   st      == IF verdict = "none" THEN wd[w].st ELSE verdict
        <5>2. hash \in {w, None}
          BY <1>i DEF WdOk
        <5>3. JournalVerdict(w) = "succeeded" => ops[w].tx = "mined"
          BY <1>i DEF JournalVerdict, TruthfulOp
        <5>4. JournalVerdict(w) = "failed" => NeverSubmitted(w)
          BY DEF JournalVerdict
        <5>5. /\ ReceiptVerdict(hash) = "succeeded" => ops[w].tx = "mined"
              /\ ReceiptVerdict(hash) = "failed" => ops[w].tx = "reverted"
          BY <5>2 DEF ReceiptVerdict
        <5>6. verdict \in {"none", "succeeded", "failed"}
          BY DEF JournalVerdict, ReceiptVerdict
        <5>7. /\ verdict = "succeeded" => ops[w].tx = "mined"
              /\ verdict = "failed" => ops[w].tx # "mined" /\ ~MayLand(ops[w])
          BY <2>4, <5>3, <5>4, <5>5 DEF MayLand
        <5>8. wd'[w] = [st |-> st, tx |-> hash]
          BY <1>0, <3>6, <4>2 DEF WithdrawReconcile
        <5>9. UNCHANGED ops /\ wd[w].st \in {"uncertain", "submitting"}
          BY <3>6, <4>2 DEF WithdrawReconcile
        <5>10. /\ st \in {"uncertain", "submitting", "succeeded", "failed"}
               /\ st = "succeeded" => ops[w].tx = "mined"
               /\ st = "failed" => ops[w].tx # "mined" /\ ~MayLand(ops[w])
          BY <5>6, <5>7, <5>9
        <5> HIDE DEF st, hash
        <5> QED
          BY <2>3, <5>2, <5>8, <5>9, <5>10
      <4> QED
        BY <4>1, <4>2
    <3>7. ASSUME NEW v \in WithdrawOps, WithdrawSubmit(v)
          PROVE  WdOk(w, ops'[w], wd'[w])
      BY <1>0, <1>2, <2>2, <3>7 DEF WithdrawSubmit
    <3> QED
      BY <2>5, <3>1, <3>2, <3>3, <3>4, <3>5, <3>6, <3>7 DEF WithdrawStep
  <2>6. CASE GatewayCrash
    <3>1. /\ UNCHANGED ops
          /\ wd'[w] = [wd[w] EXCEPT !.st = IF @ = "submitting" THEN "uncertain" ELSE @]
      BY <2>6 DEF GatewayCrash
    <3>2. wd'[w].tx = wd[w].tx /\ (wd'[w].st = wd[w].st \/
             (wd[w].st = "submitting" /\ wd'[w].st = "uncertain"))
      BY <1>0, <3>1
    <3> QED
      BY <1>i, <3>1, <3>2 DEF WdOk
  <2>7. CASE NativeStep \/ OpenStep \/ CloseStep \/ LeaseStep \/ ReconStep
    <3>1. UNCHANGED wd
      <4>1. CASE NativeStep
        BY <4>1 DEF NativeStep
      <4>2. CASE OpenStep
        BY <4>2 DEF OpenStep, OpenBegin, OpenRefused, OpenAccepted, OpenRejected, OpenLost,
             OpenConfirmed, OpenUnverified, OpenConfirmFailed, OpenSubmit
      <4>3. CASE CloseStep
        BY <4>3 DEF CloseStep, CloseAborted, CloseFoundClosed, CloseAccepted, CloseRejected,
             CloseLost, CloseConfirmed, CloseUnverified, CloseConfirmFailed, CloseRequest,
             CloseReturn, CloseBegin, CloseSubmit
      <4>4. CASE LeaseStep
        BY <4>4 DEF LeaseStep, LeaseBegin, LeaseChecked, LeaseFailed, LeaseDropped, LeaseEnd,
             Invalidate, Drain, ScheduleClose
      <4>5. CASE ReconStep
        BY <4>5 DEF ReconStep, ReconPass, ReconSkip, ReconOpenJournal, ReconCloseJournal,
             ReconFoundClosed, ReconFoundLive, ReconOpenReverted, ReconReceiptFailed,
             ReconJournal, ReconTruth, ReconReceipt
      <4> QED
        BY <2>7, <4>1, <4>2, <4>3, <4>4, <4>5
    <3> QED
      BY <2>2, <3>1
  <2> QED
    BY <2>5, <2>6, <2>7 DEF Next
<1> QED
  BY <1>1, <1>2

-----------------------------------------------------------------------------
(* Openings in doubt are pending in the store. *)

\* An opening that may still reach the chain has a pending row.
LEMMA OpeningPending ==
    ASSUME TypeInv, RowInv, NEW o \in OpenOps, MayLand(ops[o])
    PROVE  o \in RowIds /\ o # None /\ rows[o].st \in {"opening", "open_unknown"}
<1>1. /\ o \in RowIds /\ o \in Ops /\ o # None
      /\ RowFits(ops, o, rows[o]) /\ TruthfulOp(o, ops[o])
      /\ rows[o].st = "absent" => ops[o].phase = "new"
  BY OpsAssumption DEF RowIds, Ops, RowInv, RowsSafe, RowsFit, JournalTruthful
<1>2. rows[o].st \in RowStates
  BY <1>1, RowFields DEF TypeInv, TypeOK
<1>3. rows[o].st # "absent"
  BY <1>1 DEF MayLand, TruthfulOp
<1>4. rows[o].st \notin IdentifiedStates
  BY <1>1 DEF RowFits, Exists, MayLand
<1>5. rows[o].st # "failed"
  BY <1>1 DEF RowFits, WrittenOff
<1> QED
  BY <1>1, <1>2, <1>3, <1>4, <1>5 DEF RowStates, IdentifiedStates


\* preflight is entered only by OpenBegin.
LEMMA EnterPreflight ==
    ASSUME TypeInv, Next, lock'.at = "open_preflight"
    PROVE  OpenBegin \/ UNCHANGED lock
<1>0. lock \in LockRecord
  BY DEF TypeInv, TypeOK
<1>f. Free.at # "open_preflight"
  BY DEF Free
<1>1. CASE NativeStep
  BY <1>1 DEF NativeStep
<1>2. CASE OpenStep
  <2>1. CASE OpenRefused \/ OpenRejected \/ OpenLost \/ OpenConfirmed \/ OpenUnverified
             \/ OpenConfirmFailed
    BY <1>f, <2>1 DEF OpenRefused, OpenRejected, OpenLost, OpenConfirmed, OpenUnverified,
         OpenConfirmFailed, Release
  <2>2. CASE OpenAccepted
    <3>1. PICK row : lock' = [lock EXCEPT !.at = "open_confirm", !.row = row]
      BY <2>2 DEF OpenAccepted
    <3> QED
      BY <1>0, <3>1 DEF LockRecord
  <2>3. ASSUME NEW o \in OpenOps, OpenSubmit(o) PROVE FALSE
    <3>1. PICK row : lock' = [at |-> "open_post", id |-> o, op |-> o, row |-> row]
      BY <2>3 DEF OpenSubmit
    <3> QED
      BY <3>1
  <2> QED
    BY <1>2, <2>1, <2>2, <2>3 DEF OpenStep
<1>3. CASE CloseStep
  <2>1. CASE CloseAborted \/ CloseFoundClosed \/ CloseRejected \/ CloseLost \/ CloseConfirmed
             \/ CloseUnverified \/ CloseConfirmFailed
    BY <1>f, <2>1 DEF CloseAborted, CloseFoundClosed, CloseRejected, CloseLost, CloseConfirmed,
         CloseUnverified, CloseConfirmFailed, Release
  <2>2. CASE CloseAccepted
    <3>1. PICK row : lock' = [lock EXCEPT !.at = "close_confirm", !.row = row]
      BY <2>2 DEF CloseAccepted
    <3> QED
      BY <1>0, <3>1 DEF LockRecord
  <2>3. ASSUME NEW r \in RowIds, CloseRequest(r) \/ CloseReturn(r) \/ CloseBegin(r)
        PROVE  UNCHANGED lock
    BY <2>3 DEF CloseRequest, CloseReturn, CloseBegin
  <2>4. ASSUME NEW c \in CloseOps, CloseSubmit(c) PROVE FALSE
    <3>1. PICK row : lock' = [lock EXCEPT !.at = "close_post", !.op = c, !.row = row]
      BY <2>4 DEF CloseSubmit
    <3> QED
      BY <1>0, <3>1 DEF LockRecord
  <2> QED
    BY <1>3, <2>1, <2>2, <2>3, <2>4 DEF CloseStep
<1>4. CASE WithdrawStep
  <2>1. CASE WithdrawBegin
    BY <2>1 DEF WithdrawBegin, Free
  <2>2. CASE WithdrawSkipped \/ WithdrawAccepted \/ WithdrawRejected \/ WithdrawLost
    BY <1>f, <2>2 DEF WithdrawSkipped, WithdrawAccepted, WithdrawRejected, WithdrawLost, Release
  <2>3. ASSUME NEW w \in WithdrawOps, NEW journal \in JournalAnswers,
             WithdrawReconcile(w, journal)
        PROVE  UNCHANGED lock
    BY <1>f, <2>3 DEF WithdrawReconcile, Release
  <2>4. ASSUME NEW w \in WithdrawOps, WithdrawSubmit(w) PROVE FALSE
    BY <2>4 DEF WithdrawSubmit, Free
  <2> QED
    BY <1>4, <2>1, <2>2, <2>3, <2>4 DEF WithdrawStep
<1>5. CASE LeaseStep \/ ReconStep
  BY <1>5 DEF LeaseStep, LeaseBegin, LeaseChecked, LeaseFailed, LeaseDropped, LeaseEnd,
       Invalidate, Drain, ScheduleClose, ReconStep, ReconPass, ReconSkip, ReconOpenJournal,
       ReconCloseJournal, ReconFoundClosed, ReconFoundLive, ReconOpenReverted,
       ReconReceiptFailed, ReconJournal, ReconTruth, ReconReceipt
<1>6. CASE GatewayCrash
  BY <1>6, <1>f DEF GatewayCrash
<1> QED
  BY <1>1, <1>2, <1>3, <1>4, <1>5, <1>6 DEF Next

LEMMA NextPreflightClear ==
    ASSUME TypeInv, IInv, Next
    PROVE  PreflightClear'
<1> SUFFICES ASSUME lock'.at = "open_preflight", NEW x \in OpenOps \cup WithdrawOps
             PROVE  ~MayLand(ops'[x])
  BY DEF PreflightClear
<1>0. x \in Ops /\ RowInv /\ OpGrow(ops[x], ops'[x])
  BY OpsStep DEF Ops, IInv, RowInv, OpsGrow
<1>1. CASE OpenBegin
  <2>1. ClearWallet(None) /\ UNCHANGED ops
    BY <1>1 DEF OpenBegin
  <2>2. CASE x \in OpenOps
    BY <1>0, <2>1, <2>2, OpeningPending DEF ClearWallet, PendingStates
  <2>3. CASE x \in WithdrawOps
    BY <2>1, <2>3, UnsettledIsMayLand DEF ClearWallet, IInv, WithdrawPending
  <2> QED
    BY <2>2, <2>3
<1>2. CASE UNCHANGED lock
  <2>1. ~MayLand(ops[x])
    BY <1>2 DEF IInv, PreflightClear
  <2>2. ~OpenSubmit(x) /\ ~CloseSubmit(x) /\ ~WithdrawSubmit(x)
    <3>1. ASSUME OpenSubmit(x) PROVE FALSE
      <4>1. PICK row : lock' = [at |-> "open_post", id |-> x, op |-> x, row |-> row]
        BY <3>1 DEF OpenSubmit
      <4> QED
        BY <4>1
    <3> QED
      BY <1>2, <3>1 DEF CloseSubmit, WithdrawSubmit
  <2> QED
    BY <1>0, <2>1, <2>2, PostedBy DEF OpGrow, RowInv
<1> QED
  BY <1>1, <1>2, EnterPreflight

LEMMA InitIInv == Init => IInv
<1> SUFFICES ASSUME Init PROVE IInv
  OBVIOUS
<1>1. \A x \in Ops : ops[x].phase = "new" /\ ~Unsettled(x)
  BY DEF Init, InitOps, NewOp, Unsettled
<1>2. PreflightClear /\ WithdrawPending /\ WithdrawalTruthful
  BY <1>1 DEF Init, Free, PreflightClear, WithdrawPending, WithdrawalTruthful, Ops
<1> QED
  BY <1>2, InitRowInv DEF IInv

LEMMA NextIInv ==
    ASSUME TypeInv, IInv, Next
    PROVE  IInv'
<1>1. RowInv'
  BY NextRowInv DEF IInv
<1>2. WithdrawInv'
  BY NextWithdrawInv DEF IInv, WithdrawInv, RowInv
<1>3. PreflightClear'
  BY NextPreflightClear
<1> QED
  BY <1>1, <1>2, <1>3 DEF IInv, WithdrawInv

LEMMA StutterIInv ==
    ASSUME IInv, UNCHANGED vars
    PROVE  IInv'
<1>1. RowInv'
  BY DEF vars, IInv, RowInv, JournalTruthful, RowsSafe, RowsFit, LeasesFit, Active, LockFits,
       ReconFits, CopyFits
<1>2. PreflightClear' /\ WithdrawPending' /\ WithdrawalTruthful'
  BY DEF vars, IInv, PreflightClear, WithdrawPending, WithdrawalTruthful, Unsettled
<1> QED
  BY <1>1, <1>2 DEF IInv

\* The inductive invariant holds in every reachable state.
THEOREM Inductive == Spec => [](TypeInv /\ IInv)
<1>1. Init => TypeInv /\ IInv
  BY InitTypeInv, InitIInv
<1>2. TypeInv /\ IInv /\ [Next]_vars => (TypeInv /\ IInv)'
  BY NextTypeInv, NextIInv, StutterIInv
<1> QED
  BY <1>1, <1>2, PTL DEF Spec

-----------------------------------------------------------------------------
(* What the invariant says of a state and of a step. *)

LEMMA ClosedRows ==
    ASSUME IInv
    PROVE  ClosedMeansClosed
BY DEF IInv, RowInv, RowsSafe, RowsFit, RowFits, ClosedMeansClosed, ClosedOnChain, ClosedIn

\* A row recorded as closed is closed on chain, whatever crashes, is lost, is
\* reverted or is read late: no copy of a row that outlives an await can end
\* the tracking of a session that still holds escrow.
THEOREM ClosedIsClosed == Spec => []ClosedMeansClosed
<1>1. TypeInv /\ IInv => ClosedMeansClosed
  BY ClosedRows
<1> QED
  BY <1>1, Inductive, PTL

\* treasury records success only for a mined withdrawal, and gives the wallet
\* back as "failed" only when the withdrawal can no longer be mined, whatever
\* the faults.
THEOREM WithdrawalOutcome == Spec => []WithdrawalTruthful
BY Inductive, PTL DEF IInv

\* What a step may post, and when.
PostsClear ==
    \A y \in Ops : ops[y].phase = "new" /\ ops'[y].phase = "posted"
       => \A x \in OpenOps \cup WithdrawOps : ~Unsettled(x)

LEMMA NextPostsClear ==
    ASSUME TypeInv, IInv, Next
    PROVE  PostsClear
<1> SUFFICES ASSUME NEW y \in Ops, ops[y].phase = "new", ops'[y].phase = "posted",
                    NEW x \in OpenOps \cup WithdrawOps
             PROVE  ~MayLand(ops[x])
  BY UnsettledIsMayLand DEF PostsClear
<1>0. RowInv /\ (x \in WithdrawOps /\ MayLand(ops[x]) => wd[x].st \in {"submitting", "uncertain"})
  BY UnsettledIsMayLand DEF IInv, WithdrawPending
<1>1. CASE y \in OpenOps /\ OpenSubmit(y)
  BY <1>1 DEF OpenSubmit, IInv, PreflightClear
<1>2. CASE y \in CloseOps /\ CloseSubmit(y)
  <2>1. ClearWallet(lock.id) /\ lock.at = "close_read"
    BY <1>2 DEF CloseSubmit
  <2>2. lock.id \in RowIds /\ RowFits(ops, lock.id, lock.row) /\ lock.row.sid # None
    BY <1>0, <2>1 DEF TypeInv, Shape, RowInv, RowsSafe, LockFits, CopyFits
  <2>3. CASE x \in OpenOps /\ x = lock.id
    <3>1. ops[x].tx = "mined"
      BY <2>2, <2>3, FitsExists DEF Exists
    <3> QED
      BY <3>1 DEF MayLand
  <2>4. CASE x \in OpenOps /\ x # lock.id
    BY <1>0, <2>1, <2>4, OpeningPending DEF ClearWallet, PendingStates
  <2>5. CASE x \in WithdrawOps
    BY <1>0, <2>1, <2>5 DEF ClearWallet
  <2> QED
    BY <2>3, <2>4, <2>5
<1>3. CASE y \in WithdrawOps /\ WithdrawSubmit(y)
  <2>1. CASE x \in OpenOps
    BY <1>0, <1>3, <2>1, OpeningPending DEF WithdrawSubmit, PendingStates
  <2>2. CASE x \in WithdrawOps
    BY <1>0, <1>3, <2>2 DEF WithdrawSubmit
  <2> QED
    BY <2>1, <2>2
<1> QED
  BY <1>0, <1>1, <1>2, <1>3, PostedBy DEF RowInv

\* No wallet mutation is posted while an earlier opening or withdrawal may
\* still reach the chain, whatever the faults.
THEOREM NeverBlind == Spec => NoBlindReplacement
<1>1. TypeInv /\ IInv /\ [Next]_vars => [PostsClear]_vars
  BY NextPostsClear
<1> QED
  BY <1>1, Inductive, PTL DEF Spec, NoBlindReplacement, PostsClear

\* Without a failed read after an accepted POST, "failed" is proof that nothing
\* is or will be funded, and so every other end of tracking is too.
LEMMA FundedInStore ==
    ASSUME TypeInv, IInv, "confirm_open" \notin Faults
    PROVE  FundedTracked
<1> SUFFICES ASSUME NEW o \in OpenOps, LiveOnChain(o) \/ Unsettled(o)
             PROVE  o \in RowIds /\ rows[o].st \notin {"absent", "closed", "failed"}
  BY DEF FundedTracked, Tracked
<1>1. /\ o \in RowIds /\ o \in Ops /\ TruthfulOp(o, ops[o]) /\ RowFits(ops, o, rows[o])
      /\ rows[o].st = "absent" => ops[o].phase = "new"
  BY DEF RowIds, Ops, IInv, RowInv, RowsSafe, RowsFit, JournalTruthful
<1>2. ops[o].tx = "mined" \/ MayLand(ops[o])
  BY UnsettledIsMayLand DEF LiveOnChain
<1>3. rows[o].st # "failed"
  BY <1>1, <1>2 DEF RowFits, WrittenOff
<1>4. rows[o].st # "absent"
  BY <1>1, <1>2 DEF TruthfulOp, MayLand
<1>5. rows[o].st # "closed"
  <2> SUFFICES ASSUME rows[o].st = "closed" PROVE FALSE
    OBVIOUS
  <2>1. /\ ClosedIn(ops, rows[o].sid) /\ rows[o].sid \in {o, None}
        /\ ops[o].tx = "mined"
    BY <1>1 DEF RowFits, Exists, IdentifiedStates
  <2>2. ~ClosedIn(ops, None)
    BY DEF ClosedIn, IInv, RowInv, JournalTruthful, TruthfulOp, Ops
  <2> QED
    BY <2>1, <2>2 DEF LiveOnChain, ClosedOnChain, ClosedIn, Unsettled
<1> QED
  BY <1>1, <1>3, <1>4, <1>5

\* As long as a read that follows an accepted POST does not fail, every session
\* that holds escrow, and every opening that may still create one, stays in
\* Store.sessions(): crashes, lost answers, reverts and races lose nothing.
THEOREM FundedIsTracked ==
    ASSUME "confirm_open" \notin Faults
    PROVE  Spec => []FundedTracked
<1>1. TypeInv /\ IInv => FundedTracked
  BY FundedInStore
<1> QED
  BY <1>1, Inductive, PTL

-----------------------------------------------------------------------------
(* The pool limit. *)

Funded == {o \in OpenOps : LiveOnChain(o) \/ Unsettled(o)}

\* The check of _open is made before its preflight reads; it still holds when
\* the POST is made, because only a POST can add to the funded sessions.
PoolInv ==
    /\ Cardinality(Funded) <= MaxSessions
    /\ lock.at = "open_preflight" => Cardinality(Funded) < MaxSessions

LEMMA FundedGrows ==
    ASSUME TypeInv, JournalTruthful, Next
    PROVE  \A o \in Funded' : o \in Funded \/ OpenSubmit(o)
<1> SUFFICES ASSUME NEW o \in OpenOps, LiveOnChain(o)' \/ MayLand(ops'[o]), ~OpenSubmit(o)
             PROVE  LiveOnChain(o) \/ MayLand(ops[o])
  BY DEF Funded, Unsettled, MayLand
<1>0. OpsGrow
  BY OpsStep
<1>1. o \in Ops /\ OpGrow(ops[o], ops'[o])
  BY <1>0 DEF Ops, OpsGrow
<1>2. ops[o].phase = "new" => ops'[o].phase = "new"
  BY <1>1, OpsAssumption, PostedBy
<1>3. MayLand(ops'[o]) => MayLand(ops[o])
  BY <1>1, <1>2 DEF OpGrow
<1>4. ClosedOnChain(o) => ClosedOnChain(o)'
  BY <1>0, ClosedInStays DEF ClosedIn, ClosedOnChain
<1>5. LiveOnChain(o)' => LiveOnChain(o) \/ MayLand(ops[o])
  BY <1>1, <1>4 DEF LiveOnChain, OpGrow, MayLand
<1> QED
  BY <1>3, <1>5

LEMMA FundedFinite ==
    ASSUME IsFiniteSet(RowIds)
    PROVE  /\ IsFiniteSet(Funded) /\ Cardinality(Funded) \in Nat
           /\ IsFiniteSet(Funded') /\ Cardinality(Funded') \in Nat
<1>1. Funded \subseteq RowIds /\ Funded' \subseteq RowIds
  BY DEF Funded, RowIds
<1> QED
  BY <1>1, FS_Subset, FS_CardinalityType

\* One step posts one opening.
LEMMA SubmitOne ==
    ASSUME NEW o \in OpenOps, OpenSubmit(o), NEW p \in OpenOps, OpenSubmit(p)
    PROVE  o = p
<1>1. \E row : lock' = [at |-> "open_post", id |-> o, op |-> o, row |-> row]
  BY DEF OpenSubmit
<1>2. \E row : lock' = [at |-> "open_post", id |-> p, op |-> p, row |-> row]
  BY DEF OpenSubmit
<1>3. lock'.id = o
  BY <1>1
<1>4. lock'.id = p
  BY <1>2
<1> QED
  BY <1>3, <1>4

LEMMA InitPoolInv ==
    ASSUME Init
    PROVE  PoolInv
<1>1. Funded = {}
  BY DEF Init, InitOps, NewOp, Funded, LiveOnChain, Unsettled, Ops
<1> QED
  BY <1>1, FS_EmptySet, BoundsAssumption DEF Init, Free, PoolInv

LEMMA NextPoolInv ==
    ASSUME TypeInv, IInv, PoolInv, Next, "confirm_open" \notin Faults, IsFiniteSet(RowIds)
    PROVE  PoolInv'
<1>0. IsFiniteSet(Funded) /\ Cardinality(Funded) \in Nat
  BY FundedFinite
<1>0n. IsFiniteSet(Funded') /\ Cardinality(Funded') \in Nat
  BY FundedFinite
<1>g. \A o \in Funded' : o \in Funded \/ (o \in OpenOps /\ OpenSubmit(o))
  BY FundedGrows DEF IInv, RowInv, Funded
<1>1. CASE \E o \in OpenOps : OpenSubmit(o)
  <2>1. PICK o \in OpenOps : OpenSubmit(o)
    BY <1>1
  <2>2. Funded' \subseteq Funded \cup {o}
    BY <1>g, <2>1, SubmitOne
  <2>3. Cardinality(Funded) < MaxSessions
    BY <2>1 DEF OpenSubmit, PoolInv
  <2>4. /\ IsFiniteSet(Funded \cup {o})
        /\ Cardinality(Funded \cup {o}) =
              IF o \in Funded THEN Cardinality(Funded) ELSE Cardinality(Funded) + 1
    BY <1>0, FS_AddElement
  <2>5. /\ IsFiniteSet(Funded \cup {o})
        /\ Cardinality(Funded \cup {o}) <= Cardinality(Funded) + 1
        /\ Cardinality(Funded \cup {o}) \in Nat
    BY <1>0, <2>4
  <2>6. Cardinality(Funded') <= Cardinality(Funded \cup {o})
    BY <2>2, <2>5, FS_Subset
  <2>7. lock'.at # "open_preflight"
    <3>1. PICK row : lock' = [at |-> "open_post", id |-> o, op |-> o, row |-> row]
      BY <2>1 DEF OpenSubmit
    <3> QED
      BY <3>1
  <2> QED
    BY <1>0, <1>0n, <2>3, <2>5, <2>6, <2>7, BoundsAssumption DEF PoolInv
<1>2. CASE ~\E o \in OpenOps : OpenSubmit(o)
  <2>1. Funded' \subseteq Funded
    BY <1>2, <1>g
  <2>2. Cardinality(Funded') <= Cardinality(Funded)
    BY <1>0, <2>1, FS_Subset
  <2>3. lock'.at = "open_preflight" => Cardinality(Funded) < MaxSessions
    <3>1. CASE UNCHANGED lock
      BY <3>1 DEF PoolInv
    <3>2. CASE OpenBegin
      <4>1. Cardinality(Tracked) < MaxSessions
        BY <3>2 DEF OpenBegin
      <4>2. Funded \subseteq Tracked
        BY FundedInStore DEF FundedTracked, Funded
      <4>3. IsFiniteSet(Tracked) /\ Cardinality(Tracked) \in Nat
        <5>1. Tracked \subseteq RowIds
          BY DEF Tracked
        <5> QED
          BY <5>1, FS_Subset, FS_CardinalityType
      <4>4. Cardinality(Funded) <= Cardinality(Tracked)
        BY <4>2, <4>3, FS_Subset
      <4> QED
        BY <1>0, <4>1, <4>3, <4>4, BoundsAssumption
    <3> QED
      BY <3>1, <3>2, EnterPreflight
  <2> QED
    BY <1>0, <1>0n, <2>2, <2>3, BoundsAssumption DEF PoolInv
<1> QED
  BY <1>1, <1>2

LEMMA StutterPoolInv ==
    ASSUME PoolInv, UNCHANGED <<ops, lock>>
    PROVE  PoolInv'
BY DEF PoolInv, Funded, LiveOnChain, ClosedOnChain, Unsettled

\* No more than max_sessions sessions hold escrow or may still come to hold it,
\* for every pool size, as long as a read after an accepted POST does not fail.
THEOREM PoolIsBounded ==
    ASSUME "confirm_open" \notin Faults, IsFiniteSet(RowIds)
    PROVE  Spec => []PoolBound
<1>1. TypeInv /\ IInv /\ PoolInv /\ [Next]_vars => PoolInv'
  BY NextPoolInv, StutterPoolInv DEF vars
<1>2. PoolInv => PoolBound
  BY DEF PoolInv, PoolBound, Funded
<1>3. Init => PoolInv
  BY InitPoolInv
<1> QED
  BY <1>1, <1>2, <1>3, Inductive, PTL DEF Spec

-----------------------------------------------------------------------------
(* reconcile() and rows drained behind its back. *)

\* What the end of a visit of reconcile() does to a row drained meanwhile.
DrainedStays ==
    \A p \in Passes :
       recon[p].at # "idle" /\ recon'[p] = Idle /\ rows[recon[p].id].st = "draining"
         => rows'[recon[p].id].st \in {"draining", "closed"}

LEMMA NextDrainedStays ==
    ASSUME TypeInv, IInv, Next, "receipt" \notin Faults
    PROVE  DrainedStays
<1> SUFFICES ASSUME NEW p \in Passes, recon[p].at # "idle", recon'[p] = Idle,
                    rows[recon[p].id].st = "draining"
             PROVE  rows'[recon[p].id].st \in {"draining", "closed"}
  BY DEF DrainedStays
<1>0. recon[p].row \in Row /\ recon[p].id \in RowIds /\ rows \in [RowIds -> Row]
  BY DEF TypeInv, TypeOK, Shape, ReconRecord
<1>1. CASE ReconStep
  <2>0. ReconPass(p)
    <3>1. PICK q \in Passes : ReconPass(q)
      BY <1>1 DEF ReconStep
    <3>2. \E record : Resume(q, record)
      BY <3>1 DEF ReconPass, ReconSkip, ReconOpenJournal, ReconCloseJournal, ReconFoundClosed,
           ReconFoundLive, ReconOpenReverted, ReconReceiptFailed, ReconJournal, ReconTruth,
           ReconReceipt
    <3>3. q = p
      BY <3>2 DEF Resume, Idle, TypeInv, TypeOK
    <3> QED
      BY <3>1, <3>3
  <2>1. CASE ReconSkip(p)
    BY <2>1 DEF ReconSkip
  <2>2. CASE ReconOpenJournal(p) \/ ReconCloseJournal(p)
    <3>1. recon[p].row.st \in {"open_unknown", "close_pending"} /\ rows[recon[p].id] = recon[p].row
      BY <2>2 DEF ReconOpenJournal, ReconCloseJournal, SnapshotHolds
    <3> QED
      BY <3>1
  <2>3. CASE ReconFoundClosed(p)
    <3>1. rows'[recon[p].id] = [recon[p].row EXCEPT !.st = "closed"]
      BY <1>0, <2>3 DEF ReconFoundClosed, Put
    <3> QED
      BY <1>0, <3>1 DEF Row
  <2>4. CASE ReconFoundLive(p)
    <3>1. recon[p].row.st = "draining"
      BY <2>4 DEF ReconFoundLive, SnapshotHolds
    <3>2. PICK st : Put(recon[p].id, [recon[p].row EXCEPT !.st = st])
                     /\ st = IF recon[p].row.st \in {"open_unknown", "quarantined"} THEN "open"
                             ELSE IF recon[p].row.st = "close_pending"
                                     /\ CloseReverted(recon[p].row)
                             THEN "draining" ELSE recon[p].row.st
      BY <2>4 DEF ReconFoundLive
    <3>3. rows'[recon[p].id] = [recon[p].row EXCEPT !.st = st] /\ st = "draining"
      BY <1>0, <3>1, <3>2 DEF Put
    <3> QED
      BY <1>0, <3>3 DEF Row
  <2>5. CASE ReconOpenReverted(p)
    <3>1. recon[p].at = "receipt" /\ ops[recon[p].row.tx].tx = "reverted"
      BY <2>5 DEF ReconOpenReverted
    <3>2. /\ RowFits(ops, recon[p].id, recon[p].row)
          /\ recon[p].row.st = "open_unknown" /\ recon[p].row.tx # None
      BY <3>1 DEF IInv, RowInv, RowsSafe, ReconFits, CopyFits
    <3>3. recon[p].id \in OpenOps /\ recon[p].row.tx = recon[p].id
      BY <3>2 DEF RowFits
    <3>4. ops[recon[p].id].tx = "mined"
      BY <1>0, <3>3 DEF IInv, RowInv, RowsSafe, RowsFit, RowFits, Exists, IdentifiedStates
    <3> QED
      BY <3>1, <3>3, <3>4
  <2>6. CASE ReconReceiptFailed(p)
    BY <2>6 DEF ReconReceiptFailed
  <2>7. ASSUME NEW r \in RowIds, ReconJournal(p, r) \/ ReconTruth(p, r) \/ ReconReceipt(p, r)
        PROVE  FALSE
    BY <2>7 DEF ReconJournal, ReconTruth, ReconReceipt
  <2> QED
    BY <2>0, <2>1, <2>2, <2>3, <2>4, <2>5, <2>6, <2>7 DEF ReconPass
<1>2. CASE GatewayCrash
  <2>1. rows'[recon[p].id] = Recovered(rows[recon[p].id])
    BY <1>0, <1>2 DEF GatewayCrash
  <2> QED
    BY <1>0, <2>1 DEF Recovered, Row
<1>3. CASE NativeStep \/ OpenStep \/ CloseStep \/ WithdrawStep \/ LeaseStep
  <2>0. recon' # recon
    BY DEF Idle
  <2>1. CASE NativeStep
    BY <2>0, <2>1 DEF NativeStep
  <2>2. CASE OpenStep
    BY <2>0, <2>2 DEF OpenStep, OpenBegin, OpenRefused, OpenAccepted, OpenRejected, OpenLost,
         OpenConfirmed, OpenUnverified, OpenConfirmFailed, OpenSubmit
  <2>3. CASE CloseStep
    BY <2>0, <2>3 DEF CloseStep, CloseAborted, CloseFoundClosed, CloseAccepted, CloseRejected,
         CloseLost, CloseConfirmed, CloseUnverified, CloseConfirmFailed, CloseRequest,
         CloseReturn, CloseBegin, CloseSubmit
  <2>4. CASE WithdrawStep
    BY <2>0, <2>4 DEF WithdrawStep, WithdrawBegin, WithdrawSkipped, WithdrawAccepted,
         WithdrawRejected, WithdrawLost, WithdrawReconcile, WithdrawSubmit
  <2>5. CASE LeaseStep
    BY <2>0, <2>5 DEF LeaseStep, LeaseBegin, LeaseChecked, LeaseFailed, LeaseDropped, LeaseEnd,
         Invalidate, Drain, ScheduleClose
  <2> QED
    BY <1>3, <2>1, <2>2, <2>3, <2>4, <2>5
<1> QED
  BY <1>1, <1>2, <1>3 DEF Next

\* The answer to a question reconcile() asked before an await never hands out
\* again a row that was drained meanwhile, however many passes are suspended and
\* whatever else fails, as long as receipts can be read: a failing read makes
\* mark_error store a copy that was not compared.
THEOREM NeverRevived ==
    ASSUME "receipt" \notin Faults
    PROVE  Spec => ReconcileNeverRevives
<1>1. TypeInv /\ IInv /\ [Next]_vars => [DrainedStays]_vars
  BY NextDrainedStays
<1> QED
  BY <1>1, Inductive, PTL DEF Spec, ReconcileNeverRevives, DrainedStays
=============================================================================
