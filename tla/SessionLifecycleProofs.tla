----------------------- MODULE SessionLifecycleProofs -----------------------
(***************************************************************************)
(* Type correctness of SessionLifecycle, for every set of operation        *)
(* identifiers, every bound and every set of faults.                       *)
(***************************************************************************)
EXTENDS SessionLifecycle, TLAPS

\* The holder of the lock works on a row and an operation of its own kind, and
\* an operation journals no hash but its own.
Shape ==
    /\ lock.at \in {"open_post", "open_confirm"}
         => lock.id \in OpenOps /\ lock.op = lock.id
    /\ lock.at \in {"close_read", "close_post", "close_confirm"} => lock.id \in RowIds
    /\ lock.at \in {"close_post", "close_confirm"} => lock.op \in CloseOps
    /\ lock.at = "withdraw_post" => lock.op \in WithdrawOps
    /\ \A p \in Passes : recon[p].at # "idle" => recon[p].id \in RowIds
    /\ \A x \in Ops : ops[x].hash \in {x, None}

\* The inductive strengthening of TypeOK.
TypeInv == TypeOK /\ Shape

\* The members of the enumerated types that the actions write.
LEMMA Values ==
    /\ {"posted", "running", "ended", "dead"} \subseteq Phases
    /\ {"not_submitted", "submitting"} \subseteq Stages
    /\ {200, 500} \subseteq Statuses
    /\ {"pending", "mined", "reverted"} \subseteq TxStates
    /\ {"opening", "open_unknown", "open", "quarantined", "draining", "closing",
        "close_pending", "closed", "failed"} \subseteq RowStates
    /\ {"submitting", "uncertain", "succeeded", "failed"} \subseteq WdStates
    /\ LockPlaces = {"free", "open_preflight", "open_post", "open_confirm",
          "close_read", "close_post", "close_confirm", "withdraw_scan", "withdraw_post"}
BY DEF Phases, Stages, Statuses, TxStates, RowStates, WdStates, LockPlaces

\* What a well-typed record holds, and what assigning one of its fields keeps.
LEMMA OpFields ==
    ASSUME NEW op \in OpRecord
    PROVE  /\ \A v \in Phases : [op EXCEPT !.phase = v] \in OpRecord
           /\ \A v \in Stages : [op EXCEPT !.stage = v] \in OpRecord
           /\ \A v \in Ops \cup {None} : [op EXCEPT !.hash = v] \in OpRecord
           /\ \A v \in OpenOps \cup {None} : [op EXCEPT !.sid = v] \in OpRecord
           /\ \A v \in Statuses : [op EXCEPT !.status = v] \in OpRecord
           /\ \A v \in TxStates : [op EXCEPT !.tx = v] \in OpRecord
           /\ \A v \in OpenOps \cup {None} : [op EXCEPT !.target = v] \in OpRecord
BY DEF OpRecord

LEMMA RowFields ==
    ASSUME NEW row \in Row
    PROVE  /\ row.st \in RowStates
           /\ row.sid \in OpenOps \cup {None}
           /\ row.tx \in OpenOps \cup {None}
           /\ row.cop \in CloseOps \cup {None}
           /\ \A v \in RowStates : [row EXCEPT !.st = v] \in Row
           /\ \A v \in OpenOps \cup {None} : [row EXCEPT !.sid = v] \in Row
           /\ \A v \in OpenOps \cup {None} : [row EXCEPT !.tx = v] \in Row
           /\ \A v \in CloseOps \cup {None} : [row EXCEPT !.cop = v] \in Row
           /\ \A v \in CloseOps \cup {None} : [row EXCEPT !.ctx = v] \in Row
           /\ \A v \in CloseOps \cup {None} : [row EXCEPT !.ctxs = v] \in Row
BY DEF Row

LEMMA LockFields ==
    ASSUME NEW l \in LockRecord
    PROVE  /\ l.id \in RowIds \cup {None}
           /\ l.op \in Ops \cup {None}
           /\ l.row \in Row
           /\ \A v \in LockPlaces : [l EXCEPT !.at = v] \in LockRecord
           /\ \A v \in Ops \cup {None} : [l EXCEPT !.op = v] \in LockRecord
           /\ \A v \in Row : [l EXCEPT !.row = v] \in LockRecord
BY DEF LockRecord

LEMMA Defaults ==
    /\ NewOp \in OpRecord /\ NoRow \in Row /\ Free \in LockRecord
    /\ NoLease \in LeaseRecord /\ Idle \in ReconRecord
<1>1. NoRow \in Row
  BY DEF NoRow, Row, RowStates
<1>2. NewOp \in OpRecord
  BY DEF NewOp, OpRecord, Phases, Stages, Statuses, TxStates
<1>3. Free \in LockRecord /\ NoLease \in LeaseRecord /\ Idle \in ReconRecord
  BY <1>1 DEF Free, LockRecord, LockPlaces, NoLease, LeaseRecord, Idle, ReconRecord
<1> QED
  BY <1>1, <1>2, <1>3

LEMMA InitTypeInv == Init => TypeInv
<1> SUFFICES ASSUME Init PROVE TypeInv
  OBVIOUS
<1>1. wd \in [WithdrawOps -> [st : WdStates, tx : WithdrawOps \cup {None}]]
  BY DEF Init, WdStates
<1>2. crashes \in 0..MaxCrashes
  BY BoundsAssumption DEF Init
<1>3. Shape
  BY DEF Init, InitOps, NewOp, Shape, Free, Idle
<1> QED
  BY <1>1, <1>2, <1>3, Defaults DEF Init, InitOps, TypeInv, TypeOK

\* Every native step keeps the operation records well formed and never touches
\* the gateway.
LEMMA NativeType ==
    ASSUME TypeInv, NativeStep
    PROVE  TypeInv'
<1>0. ops \in [Ops -> OpRecord] /\ \A x \in Ops : ops[x].hash \in {x, None}
  BY DEF TypeInv, TypeOK, Shape
<1>1. ops' \in [Ops -> OpRecord] /\ \A x \in Ops : ops'[x].hash \in {x, None}
  <2>1. CASE NodeCrash
    <3>1. \A x \in Ops : ops'[x] \in OpRecord
      BY <1>0, <2>1, Values, OpFields DEF NodeCrash
    <3> QED
      BY <1>0, <2>1, <3>1 DEF NodeCrash, OpRecord
  <2>2. CASE \E x \in Ops : NodeStep(x)
    <3>1. PICK x \in Ops : NodeStep(x)
      BY <2>2
    <3>2. ops[x] \in OpRecord
      BY <1>0
    <3>3. ops' \in [Ops -> OpRecord]
      <4>1. CASE NodeBegin(x)
        BY <1>0, <3>2, <4>1, Values, OpFields DEF NodeBegin
      <4>2. CASE NodeAttempt(x)
        BY <1>0, <3>2, <4>2, Values, OpFields DEF NodeAttempt
      <4>3. CASE NodeBuildFailure(x)
        BY <1>0, <3>2, <4>3, Values, OpFields DEF NodeBuildFailure
      <4>4. CASE NodeRecord(x)
        BY <1>0, <3>2, <4>4, Values, OpFields DEF NodeRecord, OpRecord
      <4>5. CASE NodeSend(x)
        BY <1>0, <3>2, <4>5, Values, OpFields DEF NodeSend
      <4>6. CASE x \in OpenOps /\ NodeSession(x)
        BY <1>0, <3>2, <4>6, Values, OpFields DEF NodeSession
      <4>7. CASE NodeFinish(x)
        <5>1. PICK s \in {200, 500} :
                 ops' = [ops EXCEPT ![x].phase = "ended", ![x].status = s]
          BY <4>7 DEF NodeFinish
        <5>2. [ops[x] EXCEPT !.phase = "ended"] \in OpRecord
          BY <3>2, Values, OpFields
        <5>3. s \in Statuses
          BY Values
        <5>4. [ops[x] EXCEPT !.phase = "ended", !.status = s] \in OpRecord
          BY <5>2, <5>3, OpFields
        <5> QED
          BY <1>0, <5>1, <5>4
      <4>8. CASE MineOk(x)
        BY <1>0, <3>2, <4>8, Values, OpFields DEF MineOk
      <4>9. CASE MineReverted(x)
        BY <1>0, <3>2, <4>9, Values, OpFields DEF MineReverted
      <4> QED
        BY <3>1, <4>1, <4>2, <4>3, <4>4, <4>5, <4>6, <4>7, <4>8, <4>9 DEF NodeStep
    <3>4. \A y \in Ops : ops'[y].hash \in {ops[y].hash, y}
      BY <1>0, <3>1, <3>3 DEF NodeStep, NodeBegin, NodeAttempt, NodeBuildFailure, NodeRecord,
           NodeSend, NodeSession, NodeFinish, MineOk, MineReverted, OpRecord
    <3> QED
      BY <1>0, <3>3, <3>4
  <2> QED
    BY <2>1, <2>2 DEF NativeStep
<1> QED
  BY <1>1 DEF NativeStep, TypeInv, TypeOK, Shape

\* The three shapes most gateway steps have: a row is put and the lock is
\* released; a row is put outside the lock; the lock moves on with a new copy.
LEMMA PutReleaseType ==
    ASSUME TypeInv, NEW r \in RowIds, NEW row \in Row, Put(r, row), Release,
           UNCHANGED <<ops, wd, lease, closing, recon, crashes>>
    PROVE  TypeInv'
BY Defaults DEF TypeInv, TypeOK, Shape, Put, Release, Free

LEMMA PutCopyType ==
    ASSUME TypeInv, NEW r \in RowIds, NEW row \in Row, Put(r, row), lock' \in LockRecord,
           NEW at \in {"open_confirm", "close_confirm"}, lock'.at = at,
           at = "open_confirm" => lock.at = "open_post",
           at = "close_confirm" => lock.at = "close_post",
           lock'.id = lock.id, lock'.op = lock.op,
           UNCHANGED <<ops, wd, lease, closing, recon, crashes>>
    PROVE  TypeInv'
BY DEF TypeInv, TypeOK, Shape, Put

LEMMA PutAsideType ==
    ASSUME TypeInv, NEW r \in RowIds, NEW row \in Row, Put(r, row) \/ UNCHANGED rows,
           lease' \in [RowIds -> LeaseRecord], closing' \subseteq RowIds,
           recon' \in [Passes -> ReconRecord],
           \A p \in Passes : recon'[p].at # "idle" => recon'[p].id \in RowIds,
           UNCHANGED <<ops, wd, lock, crashes>>
    PROVE  TypeInv'
BY DEF TypeInv, TypeOK, Shape, Put

\* The record of a posted operation.
LEMMA PostType ==
    ASSUME TypeInv, NEW x \in Ops, NEW o \in OpenOps \cup {None}, ops' = Post(x, o)
    PROVE  ops' \in [Ops -> OpRecord] /\ \A y \in Ops : ops'[y].hash \in {y, None}
<1>1. ops[x] \in OpRecord
  BY DEF TypeInv, TypeOK
<1>2. [ops[x] EXCEPT !.phase = "posted"] \in OpRecord
  BY <1>1, Values, OpFields
<1>3. [ops[x] EXCEPT !.phase = "posted", !.target = o] \in OpRecord
  BY <1>2, OpFields
<1>4. ops' \in [Ops -> OpRecord]
  BY <1>3 DEF TypeInv, TypeOK, Post
<1> QED
  BY <1>4 DEF TypeInv, TypeOK, Shape, Post, OpRecord

\* The steps of _open.
LEMMA OpenType ==
    ASSUME TypeInv, OpenStep
    PROVE  TypeInv'
<1>0. lock \in LockRecord /\ lock.row \in Row
  BY LockFields DEF TypeInv, TypeOK
<1>p. lock.at \in {"open_post", "open_confirm"} =>
         /\ lock.id \in RowIds /\ lock.op \in OpenOps /\ lock.op \in Ops
         /\ ops[lock.op].sid \in OpenOps \cup {None}
         /\ ops[lock.op].hash \in OpenOps \cup {None}
  BY DEF TypeInv, TypeOK, Shape, OpRecord, Ops, RowIds
<1>1. CASE OpenBegin
  <2>1. lock' \in LockRecord
    BY <1>1, Defaults, Values, LockFields DEF OpenBegin
  <2> QED
    BY <1>1, <2>1 DEF OpenBegin, TypeInv, TypeOK, Shape, Free
<1>2. CASE OpenRefused
  BY <1>2, Defaults DEF OpenRefused, TypeInv, TypeOK, Shape, Release, Free
<1>3. CASE OpenAccepted
  <2> DEFINE row == [lock.row EXCEPT !.sid = ops[lock.op].sid, !.tx = ops[lock.op].hash]
  <2>0. lock.at = "open_post"
    BY <1>3 DEF OpenAccepted
  <2>1. [lock.row EXCEPT !.sid = ops[lock.op].sid] \in Row
    BY <1>0, <1>p, <2>0, RowFields
  <2>2. row \in Row
    BY <1>p, <2>0, <2>1, RowFields
  <2>3. [lock EXCEPT !.at = "open_confirm"] \in LockRecord
    BY <1>0, Values, LockFields
  <2>4. Put(lock.id, row) /\ lock' = [lock EXCEPT !.at = "open_confirm", !.row = row]
    BY <1>3 DEF OpenAccepted
  <2> HIDE DEF row
  <2>5. lock' \in LockRecord
    BY <2>2, <2>3, <2>4, LockFields
  <2>6. lock'.at = "open_confirm" /\ lock'.id = lock.id /\ lock'.op = lock.op
    BY <1>0, <2>4 DEF LockRecord
  <2> QED
    BY <1>p, <1>3, <2>0, <2>2, <2>4, <2>5, <2>6, PutCopyType DEF OpenAccepted
<1>4. CASE OpenRejected
  <2>1. lock.at = "open_post"
    BY <1>4 DEF OpenRejected
  <2>2. PICK st \in {"failed", "open_unknown"} :
           Put(lock.id, [lock.row EXCEPT !.st = st, !.tx = ops[lock.op].hash])
    BY <1>4 DEF OpenRejected
  <2>3. [lock.row EXCEPT !.st = st] \in Row
    BY <1>0, Values, RowFields
  <2>4. [lock.row EXCEPT !.st = st, !.tx = ops[lock.op].hash] \in Row
    BY <1>p, <2>1, <2>3, RowFields
  <2> QED
    BY <1>p, <1>4, <2>1, <2>2, <2>4, PutReleaseType DEF OpenRejected
<1>5. CASE OpenLost
  BY <1>0, <1>p, <1>5, Values, RowFields, PutReleaseType DEF OpenLost
<1>6. CASE OpenConfirmed
  <2>1. PICK st \in {"open", "closed", "draining"} : Put(lock.id, [lock.row EXCEPT !.st = st])
    BY <1>6 DEF OpenConfirmed
  <2>2. [lock.row EXCEPT !.st = st] \in Row
    BY <1>0, Values, RowFields
  <2> QED
    BY <1>p, <1>6, <2>1, <2>2, PutReleaseType DEF OpenConfirmed
<1>7. CASE OpenUnverified
  BY <1>0, <1>p, <1>7, Values, RowFields, PutReleaseType DEF OpenUnverified
<1>8. CASE OpenConfirmFailed
  BY <1>0, <1>p, <1>8, Values, RowFields, PutReleaseType DEF OpenConfirmFailed
<1>9. ASSUME NEW o \in OpenOps, OpenSubmit(o) PROVE TypeInv'
  <2> DEFINE row == [NoRow EXCEPT !.st = "opening"]
  <2>1. row \in Row
    BY Defaults, Values, RowFields
  <2>2. o \in Ops /\ o \in RowIds
    BY DEF Ops, RowIds
  <2>3. ops' \in [Ops -> OpRecord] /\ \A y \in Ops : ops'[y].hash \in {y, None}
    BY <1>9, <2>2, PostType DEF OpenSubmit
  <2>4. /\ lock' = [at |-> "open_post", id |-> o, op |-> o, row |-> row]
        /\ Put(o, row)
    BY <1>9 DEF OpenSubmit
  <2> HIDE DEF row
  <2>5. lock' \in LockRecord
    BY <2>1, <2>2, <2>4, Values DEF LockRecord
  <2> QED
    BY <1>9, <2>1, <2>2, <2>3, <2>4, <2>5 DEF OpenSubmit, TypeInv, TypeOK, Shape, Put
<1> QED
  BY <1>1, <1>2, <1>3, <1>4, <1>5, <1>6, <1>7, <1>8, <1>9 DEF OpenStep

\* The steps of close and _close.
LEMMA CloseType ==
    ASSUME TypeInv, CloseStep
    PROVE  TypeInv'
<1>0. lock \in LockRecord /\ lock.row \in Row /\ rows \in [RowIds -> Row]
  BY LockFields DEF TypeInv, TypeOK
<1>p. /\ lock.at \in {"close_read", "close_post", "close_confirm"} => lock.id \in RowIds
      /\ lock.at = "close_post" => /\ lock.op \in CloseOps
                                   /\ ops[lock.op].hash \in CloseOps \cup {None}
  BY DEF TypeInv, TypeOK, Shape, Ops
<1>1. CASE CloseAborted
  BY <1>0, <1>p, <1>1, PutReleaseType DEF CloseAborted
<1>2. CASE CloseFoundClosed
  BY <1>0, <1>p, <1>2, Values, RowFields, PutReleaseType DEF CloseFoundClosed
<1>3. CASE CloseAccepted
  <2> DEFINE row == [lock.row EXCEPT !.st = "close_pending", !.ctx = lock.op]
  <2>0. lock.at = "close_post"
    BY <1>3 DEF CloseAccepted
  <2>1. [lock.row EXCEPT !.st = "close_pending"] \in Row
    BY <1>0, Values, RowFields
  <2>2. row \in Row
    BY <1>p, <2>0, <2>1, RowFields
  <2>3. [lock EXCEPT !.at = "close_confirm"] \in LockRecord
    BY <1>0, Values, LockFields
  <2>4. Put(lock.id, row) /\ lock' = [lock EXCEPT !.at = "close_confirm", !.row = row]
    BY <1>3 DEF CloseAccepted
  <2> HIDE DEF row
  <2>5. lock' \in LockRecord
    BY <2>2, <2>3, <2>4, LockFields
  <2>6. lock'.at = "close_confirm" /\ lock'.id = lock.id /\ lock'.op = lock.op
    BY <1>0, <2>4 DEF LockRecord
  <2> QED
    BY <1>p, <1>3, <2>0, <2>2, <2>4, <2>5, <2>6, PutCopyType DEF CloseAccepted
<1>4. CASE CloseRejected
  <2>1. lock.at = "close_post"
    BY <1>4 DEF CloseRejected
  <2>2. PICK st \in {"draining", "close_pending"} :
           Put(lock.id, [lock.row EXCEPT !.st = st, !.ctxs = ops[lock.op].hash])
    BY <1>4 DEF CloseRejected
  <2>3. [lock.row EXCEPT !.st = st] \in Row
    BY <1>0, Values, RowFields
  <2>4. [lock.row EXCEPT !.st = st, !.ctxs = ops[lock.op].hash] \in Row
    BY <1>p, <2>1, <2>3, RowFields
  <2> QED
    BY <1>p, <1>4, <2>1, <2>2, <2>4, PutReleaseType DEF CloseRejected
<1>5. CASE CloseLost
  <2>1. [lock.row EXCEPT !.st = "close_pending"] \in Row
    BY <1>0, Values, RowFields
  <2>2. lock.row.ctxs \in CloseOps \cup {None}
    BY <1>0 DEF Row
  <2>3. PICK kept \in {None, lock.row.ctxs} :
           Put(lock.id, [lock.row EXCEPT !.st = "close_pending", !.ctxs = kept])
    BY <1>5 DEF CloseLost
  <2>4. [lock.row EXCEPT !.st = "close_pending", !.ctxs = kept] \in Row
    BY <2>1, <2>2, RowFields
  <2> QED
    BY <1>p, <1>5, <2>3, <2>4, PutReleaseType DEF CloseLost
<1>6. CASE CloseConfirmed
  <2>1. CASE Put(lock.id, [lock.row EXCEPT !.st = "closed"])
    BY <1>0, <1>p, <1>6, <2>1, Values, RowFields, PutReleaseType DEF CloseConfirmed
  <2>2. CASE UNCHANGED rows
    BY <1>6, <2>2, Defaults DEF CloseConfirmed, TypeInv, TypeOK, Shape, Release, Free
  <2> QED
    BY <1>6, <2>1, <2>2 DEF CloseConfirmed
<1>7. CASE CloseUnverified
  BY <1>0, <1>p, <1>7, RowFields, PutReleaseType DEF CloseUnverified
<1>8. CASE CloseConfirmFailed
  <2>1. [lock.row EXCEPT !.st = "draining"] \in Row
    BY <1>0, Values, RowFields
  <2>2. [lock.row EXCEPT !.st = "draining", !.ctxs = None] \in Row
    BY <2>1, RowFields
  <2> QED
    BY <1>p, <1>8, <2>2, PutReleaseType DEF CloseConfirmFailed
<1>9. ASSUME NEW r \in RowIds, CloseRequest(r) \/ CloseReturn(r) PROVE TypeInv'
  <2>1. [rows[r] EXCEPT !.st = "draining"] \in Row
    BY <1>0, Values, RowFields
  <2>2. /\ Put(r, [rows[r] EXCEPT !.st = "draining"]) \/ UNCHANGED rows
        /\ closing' \subseteq RowIds
        /\ UNCHANGED <<ops, wd, lock, lease, recon, crashes>>
    BY <1>9 DEF CloseRequest, CloseReturn, TypeInv, TypeOK
  <2>3. /\ lease' \in [RowIds -> LeaseRecord] /\ recon' \in [Passes -> ReconRecord]
        /\ \A p \in Passes : recon'[p].at # "idle" => recon'[p].id \in RowIds
    BY <2>2 DEF TypeInv, TypeOK, Shape
  <2> QED
    BY <2>1, <2>2, <2>3, PutAsideType
<1>10. ASSUME NEW r \in RowIds, CloseBegin(r) PROVE TypeInv'
  <2>1. lock' = [at |-> "close_read", id |-> r, op |-> None, row |-> rows[r]]
    BY <1>10 DEF CloseBegin
  <2>2. lock' \in LockRecord
    BY <1>0, <2>1, Values DEF LockRecord
  <2> QED
    BY <1>10, <2>1, <2>2 DEF CloseBegin, TypeInv, TypeOK, Shape
<1>11. ASSUME NEW c \in CloseOps, CloseSubmit(c) PROVE TypeInv'
  <2> DEFINE row == [lock.row EXCEPT !.st = "closing", !.cop = c]
  <2>0. lock.at = "close_read" /\ c \in Ops
    BY <1>11 DEF CloseSubmit, Ops
  <2>1. [lock.row EXCEPT !.st = "closing"] \in Row
    BY <1>0, Values, RowFields
  <2>2. row \in Row
    BY <2>1, RowFields
  <2>3. ops' \in [Ops -> OpRecord] /\ \A y \in Ops : ops'[y].hash \in {y, None}
    BY <1>0, <1>11, <2>0, RowFields, PostType DEF CloseSubmit
  <2>4. /\ lock' = [lock EXCEPT !.at = "close_post", !.op = c, !.row = row]
        /\ Put(lock.id, row)
    BY <1>11 DEF CloseSubmit
  <2> HIDE DEF row
  <2>5. [lock EXCEPT !.at = "close_post"] \in LockRecord
    BY <1>0, Values, LockFields
  <2>6. [lock EXCEPT !.at = "close_post", !.op = c] \in LockRecord
    BY <2>0, <2>5, LockFields
  <2>7. lock' \in LockRecord
    BY <2>2, <2>4, <2>6, LockFields
  <2>8. lock'.at = "close_post" /\ lock'.id = lock.id /\ lock'.op = c
    BY <1>0, <2>4 DEF LockRecord
  <2> QED
    BY <1>p, <1>11, <2>0, <2>2, <2>3, <2>4, <2>7, <2>8
       DEF CloseSubmit, TypeInv, TypeOK, Shape, Put
<1> QED
  BY <1>1, <1>2, <1>3, <1>4, <1>5, <1>6, <1>7, <1>8, <1>9, <1>10, <1>11 DEF CloseStep

\* The steps of treasury.
LEMMA WithdrawType ==
    ASSUME TypeInv, WithdrawStep
    PROVE  TypeInv'
<1> DEFINE WdRecord == [st : WdStates, tx : WithdrawOps \cup {None}]
<1>0. wd \in [WithdrawOps -> WdRecord]
  BY DEF TypeInv, TypeOK
<1>h. \A w \in WithdrawOps : w \in Ops /\ ops[w].hash \in WithdrawOps \cup {None}
  BY DEF TypeInv, TypeOK, Shape, Ops
<1>1. ASSUME wd' \in [WithdrawOps -> WdRecord], Release \/ UNCHANGED lock,
             UNCHANGED <<ops, rows, lease, closing, recon, crashes>>
      PROVE  TypeInv'
  BY <1>1, Defaults DEF TypeInv, TypeOK, Shape, Release, Free
<1>2. CASE WithdrawBegin
  <2>1. lock' \in LockRecord
    BY <1>2, Defaults, Values, LockFields DEF WithdrawBegin
  <2> QED
    BY <1>2, <2>1 DEF WithdrawBegin, TypeInv, TypeOK, Shape, Free
<1>3. CASE WithdrawSkipped
  BY <1>0, <1>1, <1>3 DEF WithdrawSkipped
<1>4. CASE WithdrawAccepted \/ WithdrawRejected \/ WithdrawLost
  <2>1. lock.op \in WithdrawOps /\ ops[lock.op].hash \in WithdrawOps \cup {None}
    BY <1>4, <1>h DEF WithdrawAccepted, WithdrawRejected, WithdrawLost, TypeInv, Shape
  <2>2. CASE WithdrawAccepted
    BY <1>0, <1>1, <2>1, <2>2, Values DEF WithdrawAccepted
  <2>3. CASE WithdrawRejected
    <3>1. PICK st \in {"failed", "uncertain"} :
             wd' = [wd EXCEPT ![lock.op] = [st |-> st, tx |-> ops[lock.op].hash]]
      BY <2>3 DEF WithdrawRejected
    <3> QED
      BY <1>0, <1>1, <2>1, <2>3, <3>1, Values DEF WithdrawRejected
  <2>4. CASE WithdrawLost
    BY <1>0, <1>1, <2>1, <2>4, Values DEF WithdrawLost
  <2> QED
    BY <1>4, <2>2, <2>3, <2>4
<1>5. ASSUME NEW w \in WithdrawOps, NEW journal \in JournalAnswers,
             WithdrawReconcile(w, journal)
      PROVE  TypeInv'
  <2> DEFINE hash    == IF journal = "read" THEN ops[w].hash ELSE wd[w].tx
             verdict == IF journal = "read" /\ JournalVerdict(w) # "none"
                        THEN JournalVerdict(w) ELSE ReceiptVerdict(hash)
             st      == IF verdict = "none" THEN wd[w].st ELSE verdict
  <2>2. hash \in WithdrawOps \cup {None}
    BY <1>0, <1>h
  <2>3. verdict \in {"none", "succeeded", "failed"}
    BY DEF JournalVerdict, ReceiptVerdict
  <2>4. st \in WdStates
    BY <1>0, <2>3, Values
  <2>5. wd' = [wd EXCEPT ![w] = [st |-> st, tx |-> hash]]
    BY <1>5 DEF WithdrawReconcile
  <2> HIDE DEF st, hash
  <2>6. wd' \in [WithdrawOps -> WdRecord]
    BY <1>0, <2>2, <2>4, <2>5
  <2> QED
    BY <1>1, <1>5, <2>6 DEF WithdrawReconcile
<1>6. ASSUME NEW w \in WithdrawOps, WithdrawSubmit(w) PROVE TypeInv'
  <2>1. wd' \in [WithdrawOps -> WdRecord]
    BY <1>0, <1>6, Values DEF WithdrawSubmit
  <2>2. ops' \in [Ops -> OpRecord] /\ \A y \in Ops : ops'[y].hash \in {y, None}
    BY <1>6, <1>h, PostType DEF WithdrawSubmit
  <2>3. [Free EXCEPT !.at = "withdraw_post"] \in LockRecord
    BY Defaults, Values, LockFields
  <2>4. lock' \in LockRecord
    BY <1>6, <1>h, <2>3, LockFields DEF WithdrawSubmit
  <2> QED
    BY <1>6, <2>1, <2>2, <2>4 DEF WithdrawSubmit, TypeInv, TypeOK, Shape, Free
<1> QED
  BY <1>2, <1>3, <1>4, <1>5, <1>6 DEF WithdrawStep

\* The writers outside the lock.
LEMMA LeaseType ==
    ASSUME TypeInv, LeaseStep
    PROVE  TypeInv'
<1>1. PICK r \in RowIds :
         \/ LeaseBegin(r) \/ LeaseChecked(r) \/ LeaseFailed(r) \/ LeaseDropped(r)
         \/ LeaseEnd(r) \/ Invalidate(r) \/ Drain(r) \/ ScheduleClose(r)
  BY DEF LeaseStep
<1>2. rows[r] \in Row /\ lease[r].row \in Row
  BY DEF TypeInv, TypeOK, LeaseRecord
<1>3. \A st \in {"closed", "draining", "quarantined"} :
         [rows[r] EXCEPT !.st = st] \in Row /\ [lease[r].row EXCEPT !.st = st] \in Row
  BY <1>2, Values, RowFields
<1>4. \E row \in Row : Put(r, row) \/ UNCHANGED rows
  BY <1>1, <1>2, <1>3 DEF LeaseBegin, LeaseChecked, LeaseFailed, LeaseDropped, LeaseEnd,
       Invalidate, Drain, ScheduleClose
<1>5. lease' \in [RowIds -> LeaseRecord]
  <2>1. [at |-> "checking", row |-> rows[r]] \in LeaseRecord
    BY <1>2 DEF LeaseRecord
  <2>2. [at |-> "leased", row |-> NoRow] \in LeaseRecord /\ NoLease \in LeaseRecord
    BY Defaults DEF LeaseRecord
  <2> QED
    BY <1>1, <2>1, <2>2 DEF LeaseBegin, LeaseChecked, LeaseFailed, LeaseDropped, LeaseEnd,
         Invalidate, Drain, ScheduleClose, TypeInv, TypeOK
<1>6. /\ closing' \subseteq RowIds
      /\ UNCHANGED <<ops, wd, lock, recon, crashes>>
  BY <1>1 DEF LeaseBegin, LeaseChecked, LeaseFailed, LeaseDropped, LeaseEnd,
       Invalidate, Drain, ScheduleClose, Schedule, TypeInv, TypeOK
<1>7. /\ recon' \in [Passes -> ReconRecord]
      /\ \A p \in Passes : recon'[p].at # "idle" => recon'[p].id \in RowIds
  BY <1>6 DEF TypeInv, TypeOK, Shape
<1> QED
  BY <1>4, <1>5, <1>6, <1>7, PutAsideType

\* The steps of reconcile.
LEMMA ReconType ==
    ASSUME TypeInv, ReconStep
    PROVE  TypeInv'
<1> PICK p \in Passes : ReconPass(p)
  BY DEF ReconStep
<1>0. recon[p].row \in Row /\ rows \in [RowIds -> Row] /\ lease \in [RowIds -> LeaseRecord]
  BY DEF TypeInv, TypeOK, ReconRecord
<1>1. ASSUME NEW r \in RowIds, NEW row \in Row, Put(r, row) \/ UNCHANGED rows, Resume(p, Idle),
             UNCHANGED <<ops, wd, lock, lease, closing, crashes>>
      PROVE  TypeInv'
  <2>1. Idle \in ReconRecord /\ Idle.at = "idle"
    BY Defaults DEF Idle
  <2>2. closing' \subseteq RowIds /\ lease' \in [RowIds -> LeaseRecord]
    BY <1>1 DEF TypeInv, TypeOK
  <2>3. /\ recon' \in [Passes -> ReconRecord]
        /\ \A q \in Passes : recon'[q].at # "idle" => recon'[q].id \in RowIds
    BY <1>1, <2>1 DEF Resume, TypeInv, TypeOK, Shape
  <2> QED
    BY <1>1, <2>2, <2>3, PutAsideType
<1>2. CASE ReconSkip(p)
  <2>1. recon[p].id \in RowIds
    BY <1>2 DEF ReconSkip, TypeInv, Shape
  <2> QED
    BY <1>0, <1>1, <1>2, <2>1 DEF ReconSkip
<1>3. CASE ReconOpenJournal(p)
  <2>1. recon[p].id \in RowIds /\ recon[p].id \in OpenOps /\ recon[p].id \in Ops
    BY <1>3 DEF ReconOpenJournal, RowIds, Ops
  <2>2. /\ ops[recon[p].id].hash \in OpenOps \cup {None}
        /\ ops[recon[p].id].sid \in OpenOps \cup {None}
    BY <2>1 DEF TypeInv, TypeOK, Shape, OpRecord
  <2>3. PICK sid \in OpenOps \cup {None}, st \in RowStates :
           Put(recon[p].id,
               [recon[p].row EXCEPT !.tx = ops[recon[p].id].hash, !.sid = sid, !.st = st])
    <3> DEFINE tx == ops[recon[p].id].hash
               sid == IF ops[recon[p].id].sid # None THEN ops[recon[p].id].sid ELSE recon[p].row.sid
               st == IF ops[recon[p].id].sid = None /\ NeverSubmitted(recon[p].id)
                     THEN "failed" ELSE recon[p].row.st
    <3>1. sid \in OpenOps \cup {None} /\ st \in RowStates
      BY <1>0, <2>2, Values, RowFields
    <3>2. Put(recon[p].id, [recon[p].row EXCEPT !.tx = tx, !.sid = sid, !.st = st])
      BY <1>3 DEF ReconOpenJournal
    <3> QED
      BY <3>1, <3>2
  <2>4. [recon[p].row EXCEPT !.tx = ops[recon[p].id].hash] \in Row
    BY <1>0, <2>2, RowFields
  <2>5. [recon[p].row EXCEPT !.tx = ops[recon[p].id].hash, !.sid = sid] \in Row
    BY <2>4, RowFields
  <2>6. [recon[p].row EXCEPT !.tx = ops[recon[p].id].hash, !.sid = sid, !.st = st] \in Row
    BY <2>5, RowFields
  <2> QED
    BY <1>1, <1>3, <2>1, <2>3, <2>6 DEF ReconOpenJournal
<1>4. CASE ReconCloseJournal(p)
  <2>1. recon[p].id \in RowIds /\ recon[p].row.cop \in CloseOps
    BY <1>0, <1>4, RowFields DEF ReconCloseJournal, TypeInv, Shape
  <2>2. ops[recon[p].row.cop].hash \in CloseOps \cup {None}
    BY <2>1 DEF TypeInv, Shape, Ops
  <2>3. PICK st \in RowStates :
           Put(recon[p].id, [recon[p].row EXCEPT !.ctxs = ops[recon[p].row.cop].hash, !.st = st])
    <3> DEFINE st == IF NeverSubmitted(recon[p].row.cop) THEN "draining" ELSE recon[p].row.st
    <3>1. st \in RowStates
      BY <1>0, Values, RowFields
    <3>2. Put(recon[p].id, [recon[p].row EXCEPT !.ctxs = ops[recon[p].row.cop].hash, !.st = st])
      BY <1>4 DEF ReconCloseJournal
    <3> QED
      BY <3>1, <3>2
  <2>4. [recon[p].row EXCEPT !.ctxs = ops[recon[p].row.cop].hash] \in Row
    BY <1>0, <2>2, RowFields
  <2>5. [recon[p].row EXCEPT !.ctxs = ops[recon[p].row.cop].hash, !.st = st] \in Row
    BY <2>4, RowFields
  <2> QED
    BY <1>1, <1>4, <2>1, <2>3, <2>5 DEF ReconCloseJournal
<1>5. CASE ReconFoundClosed(p) \/ ReconFoundLive(p) \/ ReconOpenReverted(p)
  <2>1. recon[p].id \in RowIds
    BY <1>5 DEF ReconFoundClosed, ReconFoundLive, ReconOpenReverted, TypeInv, Shape
  <2>2. PICK st \in RowStates : Put(recon[p].id, [recon[p].row EXCEPT !.st = st])
    BY <1>0, <1>5, Values, RowFields DEF ReconFoundClosed, ReconFoundLive, ReconOpenReverted
  <2>3. [recon[p].row EXCEPT !.st = st] \in Row
    BY <1>0, RowFields
  <2> QED
    BY <1>1, <1>5, <2>1, <2>2, <2>3 DEF ReconFoundClosed, ReconFoundLive, ReconOpenReverted
<1>6. CASE ReconReceiptFailed(p)
  BY <1>0, <1>1, <1>6 DEF ReconReceiptFailed, TypeInv, Shape
<1>7. ASSUME NEW r \in RowIds, ReconJournal(p, r) \/ ReconTruth(p, r) \/ ReconReceipt(p, r)
      PROVE  TypeInv'
  <2>1. PICK at \in {"journal", "truth", "receipt"} :
           Resume(p, [at |-> at, id |-> r, row |-> rows[r]])
    BY <1>7 DEF ReconJournal, ReconTruth, ReconReceipt
  <2>2. [at |-> at, id |-> r, row |-> rows[r]] \in ReconRecord
    BY <1>0 DEF ReconRecord
  <2>3. /\ recon' \in [Passes -> ReconRecord]
        /\ \A q \in Passes : recon'[q].at # "idle" => recon'[q].id \in RowIds
    BY <2>1, <2>2 DEF Resume, TypeInv, TypeOK, Shape
  <2>4. closing' \subseteq RowIds /\ lease' \in [RowIds -> LeaseRecord]
    BY <1>7 DEF ReconJournal, ReconTruth, ReconReceipt, TypeInv, TypeOK
  <2> QED
    BY <1>0, <1>7, <2>3, <2>4, PutAsideType DEF ReconJournal, ReconTruth, ReconReceipt
<1> QED
  BY <1>2, <1>3, <1>4, <1>5, <1>6, <1>7 DEF ReconPass

\* A crash and the recovery that follows it.
LEMMA CrashType ==
    ASSUME TypeInv, GatewayCrash
    PROVE  TypeInv'
<1>1. \A r \in RowIds : Recovered(rows[r]) \in Row
  <2> SUFFICES ASSUME NEW r \in RowIds PROVE Recovered(rows[r]) \in Row
    OBVIOUS
  <2>1. rows[r] \in Row
    BY DEF TypeInv, TypeOK
  <2>2. PICK st \in RowStates : Recovered(rows[r]) = [rows[r] EXCEPT !.st = st]
    BY <2>1, Values, RowFields DEF Recovered
  <2> QED
    BY <2>1, <2>2, RowFields
<1>2. wd' \in [WithdrawOps -> [st : WdStates, tx : WithdrawOps \cup {None}]]
  BY Values DEF GatewayCrash, TypeInv, TypeOK
<1>3. crashes' \in 0..MaxCrashes
  BY BoundsAssumption DEF GatewayCrash, TypeInv, TypeOK
<1>4. lock' = Free /\ recon' = [p \in Passes |-> Idle] /\ Free.at = "free" /\ Idle.at = "idle"
  BY DEF GatewayCrash, Free, Idle
<1> QED
  BY <1>1, <1>2, <1>3, <1>4, Defaults DEF GatewayCrash, TypeInv, TypeOK, Shape

LEMMA NextTypeInv == TypeInv /\ [Next]_vars => TypeInv'
<1> SUFFICES ASSUME TypeInv, [Next]_vars PROVE TypeInv'
  OBVIOUS
<1>1. CASE UNCHANGED vars
  BY <1>1 DEF vars, TypeInv, TypeOK, Shape
<1> QED
  BY <1>1, NativeType, OpenType, CloseType, WithdrawType, LeaseType, ReconType, CrashType
     DEF Next

\* Every state variable keeps its type, whatever the faults: in particular a
\* row never refers to an operation of the wrong kind, and every coroutine
\* that resumes after an await finds a row and an operation to work on.
THEOREM TypeCorrect == Spec => []TypeOK
<1>1. Spec => []TypeInv
  BY InitTypeInv, NextTypeInv, PTL DEF Spec
<1> QED
  BY <1>1, PTL DEF TypeInv
=============================================================================
