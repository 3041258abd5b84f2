-------------------------- MODULE SessionLifecycle --------------------------
(***************************************************************************)
(* gateway/sessions.py: the durable session rows and everything that       *)
(* writes them, against the consumer node and the chain of NativeNode.     *)
(*                                                                         *)
(* The gateway is one asyncio process: code between two awaits is atomic,  *)
(* and what a coroutine read before an await may be stale after it.  So an *)
(* operation is split exactly at its awaits, and each coroutine keeps the  *)
(* copy of the row it read:                                                *)
(*   lock   the holder of Sessions.lock (_open, _close or treasury);       *)
(*   lease  per row, the request that has it in Sessions.active;           *)
(*   recon  per reconcile() pass, of tick() and of _restart().             *)
(* rows and wd are the SQLite store and survive a crash.  Backoff          *)
(* (retry_at) and every other use of time is a nondeterministic choice of  *)
(* when a step happens.                                                    *)
(***************************************************************************)
EXTENDS NativeNode, FiniteSets

CONSTANTS
    Passes,         \* calls of reconcile() that may be suspended at once
    MaxSessions,    \* policy.max_sessions
    MaxRequests,    \* bound on requests that hold or check a lease at once
    MaxCrashes      \* bound on gateway crashes explored

ASSUME BoundsAssumption ==
    MaxSessions \in Nat /\ MaxRequests \in Nat /\ MaxCrashes \in Nat

\* "wallet-" + sid: the row of a session discovered by the wallet scan
WalletRow(o) == <<"wallet", o>>

\* Operation ids are UUIDs, so no opening has the id of a wallet row.
ASSUME RowIdsAssumption == \A o \in OpenOps : WalletRow(o) \notin OpenOps

RowIds == OpenOps \cup {WalletRow(o) : o \in OpenOps}

VARIABLES
    rows,       \* store kind "session": row id -> row
    wd,         \* store kind "operation", the withdraw operations
    lock,       \* holder of Sessions.lock: place in its coroutine and its copy
    lease,      \* row id -> request that has the row in Sessions.active
    closing,    \* rows with a close() coroutine waiting for the lock
    recon,      \* pass of reconcile() -> place in its loops and its copy
    crashes     \* gateway crashes so far

vars == <<ops, rows, wd, lock, lease, closing, recon, crashes>>

RowStates == { "absent", "opening", "open_unknown", "open", "quarantined",
               "orphaned", "draining", "closing", "close_pending",
               "closed", "failed" }

Row == [ st   : RowStates,
         sid  : OpenOps \cup {None},     \* chain_id
         tx   : OpenOps \cup {None},     \* operation whose open hash transactions holds
         cop  : CloseOps \cup {None},    \* close_operation_id
         ctx  : CloseOps \cup {None},    \* operation whose hash close_tx is
         ctxs : CloseOps \cup {None} ]   \* operation whose hashes close_transactions holds

NoRow == [ st |-> "absent", sid |-> None, tx |-> None,
           cop |-> None, ctx |-> None, ctxs |-> None ]

\* Store.sessions(): the rows the gateway still looks at
Tracked == {r \in RowIds : rows[r].st \notin {"absent", "closed", "failed"}}

WdStates == {"absent", "submitting", "uncertain", "succeeded", "failed"}

LockPlaces == { "free", "open_preflight", "open_post", "open_confirm",
                "close_read", "close_post", "close_confirm",
                "withdraw_scan", "withdraw_post" }

LockRecord == [ at : LockPlaces, id : RowIds \cup {None},
                op : Ops \cup {None}, row : Row ]

Free == [at |-> "free", id |-> None, op |-> None, row |-> NoRow]

LeaseRecord == [at : {"free", "checking", "leased"}, row : Row]

NoLease == [at |-> "free", row |-> NoRow]

ReconRecord == [ at : {"idle", "journal", "truth", "receipt"},
                 id : RowIds \cup {None}, row : Row ]

Idle == [at |-> "idle", id |-> None, row |-> NoRow]

TypeOK ==
    /\ ops \in [Ops -> OpRecord]
    /\ rows \in [RowIds -> Row]
    /\ wd \in [WithdrawOps -> [st : WdStates, tx : WithdrawOps \cup {None}]]
    /\ lock \in LockRecord
    /\ lease \in [RowIds -> LeaseRecord]
    /\ closing \subseteq RowIds
    /\ recon \in [Passes -> ReconRecord]
    /\ crashes \in 0..MaxCrashes

Init ==
    /\ InitOps
    /\ rows = [r \in RowIds |-> NoRow]
    /\ wd = [w \in WithdrawOps |-> [st |-> "absent", tx |-> None]]
    /\ lock = Free
    /\ lease = [r \in RowIds |-> NoLease]
    /\ closing = {}
    /\ recon = [p \in Passes |-> Idle]
    /\ crashes = 0

-----------------------------------------------------------------------------
(* Helpers. *)

Active(r) == lease[r].at # "free"

\* store.put("session", r, row)
Put(r, row) == rows' = [rows EXCEPT ![r] = row]

PendingStates == {"opening", "open_unknown", "closing", "close_pending"}

\* Mutant of ClearWallet: withdrawals in doubt are not looked at.
ClearWalletRowsOnly(excluding) ==
    \A r \in RowIds : r # excluding => rows[r].st \notin PendingStates

\* require_clear_wallet(excluding)
ClearWallet(excluding) ==
    /\ \A r \in RowIds : r # excluding => rows[r].st \notin PendingStates
    /\ \A w \in WithdrawOps : wd[w].st \notin {"uncertain", "submitting"}

Release == lock' = Free

\* schedule_close(r) by a caller that does not hold the lease.  It refuses a row
\* in backoff, already scheduled, or during maintenance.
Schedule(r) == closing' = closing \/ closing' = closing \cup {r}

-----------------------------------------------------------------------------
(* _open, under Sessions.lock. *)

\* Mutant of OpenBegin: the pool limit is off by one.
OpenBeginOffByOne ==
    /\ lock.at = "free"
    /\ \A r \in RowIds : rows[r].st \notin {"opening", "open_unknown"}
    /\ Cardinality(Tracked) <= MaxSessions
    /\ ClearWallet(None)
    /\ lock' = [Free EXCEPT !.at = "open_preflight"]
    /\ UNCHANGED <<ops, rows, wd, lease, closing, recon, crashes>>

\* Checks up to require_clear_wallet; the preflight reads follow.
OpenBegin ==
    /\ lock.at = "free"
    /\ \A r \in RowIds : rows[r].st \notin {"opening", "open_unknown"}
    /\ Cardinality(Tracked) < MaxSessions
    /\ ClearWallet(None)
    /\ lock' = [Free EXCEPT !.at = "open_preflight"]
    /\ UNCHANGED <<ops, rows, wd, lease, closing, recon, crashes>>

\* No candidate, budget exceeded, policy changed: nothing was written.
OpenRefused ==
    /\ lock.at = "open_preflight"
    /\ Release
    /\ UNCHANGED <<ops, rows, wd, lease, closing, recon, crashes>>

\* The row is durable before the POST.
OpenSubmit(o) ==
    /\ lock.at = "open_preflight"
    /\ rows[o].st = "absent"
    /\ ops[o].phase = "new"
    /\ LET row == [NoRow EXCEPT !.st = "opening"]
       IN  /\ Put(o, row)
           /\ lock' = [at |-> "open_post", id |-> o, op |-> o, row |-> row]
    /\ ops' = Post(o, None)
    /\ UNCHANGED <<wd, lease, closing, recon, crashes>>

\* A response with a session ID: chain_id is persisted, then truth is read.
OpenAccepted ==
    /\ lock.at = "open_post"
    /\ ops[lock.op].phase = "ended"
    /\ ops[lock.op].sid # None
    /\ LET row == [lock.row EXCEPT !.sid = ops[lock.op].sid, !.tx = ops[lock.op].hash]
       IN  /\ Put(lock.id, row)
           /\ lock' = [lock EXCEPT !.at = "open_confirm", !.row = row]
    /\ UNCHANGED <<ops, wd, lease, closing, recon, crashes>>

\* Mutant of OpenRejected: no recorded hash is taken for "not submitted".
OpenRejectedByHash ==
    /\ lock.at = "open_post"
    /\ ops[lock.op].phase = "ended"
    /\ ops[lock.op].sid = None
    /\ Put(lock.id, [lock.row EXCEPT
                       !.st = IF ops[lock.op].hash = None THEN "failed" ELSE "open_unknown",
                       !.tx = ops[lock.op].hash])
    /\ Release
    /\ UNCHANGED <<ops, wd, lease, closing, recon, crashes>>

\* An error response: its journal stage decides the outcome.
OpenRejected ==
    /\ lock.at = "open_post"
    /\ ops[lock.op].phase = "ended"
    /\ ops[lock.op].sid = None
    /\ Put(lock.id, [lock.row EXCEPT
                       !.st = IF NeverSubmitted(lock.op) THEN "failed" ELSE "open_unknown",
                       !.tx = ops[lock.op].hash])
    /\ Release
    /\ UNCHANGED <<ops, wd, lease, closing, recon, crashes>>

\* Mutant of OpenLost: a timeout is taken for a failure.
OpenLostIsFailed ==
    /\ lock.at = "open_post"
    /\ Put(lock.id, [lock.row EXCEPT !.st = "failed"])
    /\ Release
    /\ UNCHANGED <<ops, wd, lease, closing, recon, crashes>>

\* Timeout, lost connection, unusable body or cancellation: outcome "unknown".
OpenLost ==
    /\ lock.at = "open_post"
    /\ Put(lock.id, [lock.row EXCEPT !.st = "open_unknown"])
    /\ Release
    /\ UNCHANGED <<ops, wd, lease, closing, recon, crashes>>

\* Truth agrees: the row is handed out, or drained if the policy changed.  A
\* read may see ClosedAt late, never early.
OpenConfirmed ==
    /\ lock.at = "open_confirm"
    /\ \E st \in {"open", "closed", "draining"} :
         /\ st = "closed" => ClosedOnChain(lock.row.sid)
         /\ Put(lock.id, [lock.row EXCEPT !.st = st])
    /\ Release
    /\ UNCHANGED <<ops, wd, lease, closing, recon, crashes>>

\* _validate_truth failed: GatewayError with the default outcome "unknown".
OpenUnverified ==
    /\ lock.at = "open_confirm"
    /\ Put(lock.id, [lock.row EXCEPT !.st = "open_unknown"])
    /\ Release
    /\ UNCHANGED <<ops, wd, lease, closing, recon, crashes>>

\* The GET itself failed: Node.request raises outcome "not_submitted" for a GET.
OpenConfirmFailed ==
    /\ "confirm_open" \in Faults
    /\ lock.at = "open_confirm"
    /\ Put(lock.id, [lock.row EXCEPT !.st = "failed"])
    /\ Release
    /\ UNCHANGED <<ops, wd, lease, closing, recon, crashes>>

-----------------------------------------------------------------------------
(* close and _close. *)

\* close() up to the lock: the intent is durable before any network read.
CloseRequest(r) ==
    /\ rows[r].st # "absent"
    /\ IF rows[r].st \in {"open", "quarantined", "orphaned"}
       THEN Put(r, [rows[r] EXCEPT !.st = "draining"])
       ELSE UNCHANGED rows
    /\ closing' = closing \cup {r}
    /\ UNCHANGED <<ops, wd, lock, lease, recon, crashes>>

\* Under the lock nothing is submitted: maintenance, identity unverified, row
\* terminal or already closing, chain id unknown; or _close drains a leased row.
CloseReturn(r) ==
    /\ r \in closing
    /\ lock.at = "free"
    /\ closing' = closing \ {r}
    /\ \/ UNCHANGED rows
       \/ /\ Active(r)
          /\ rows[r].st \notin {"closed", "failed", "closing", "close_pending"}
          /\ Put(r, [rows[r] EXCEPT !.st = "draining"])
    /\ UNCHANGED <<ops, wd, lock, lease, recon, crashes>>

\* _close starts reading truth with a copy of the row.
CloseBegin(r) ==
    /\ r \in closing
    /\ lock.at = "free"
    /\ rows[r].st \notin {"closed", "failed", "closing", "close_pending"}
    /\ ~Active(r)
    /\ rows[r].sid # None
    /\ closing' = closing \ {r}
    /\ lock' = [at |-> "close_read", id |-> r, op |-> None, row |-> rows[r]]
    /\ UNCHANGED <<ops, rows, wd, lease, recon, crashes>>

\* The read failed or the wallet is not clear: mark_error puts the copy back.
CloseAborted ==
    /\ lock.at = "close_read"
    /\ Put(lock.id, lock.row)
    /\ Release
    /\ UNCHANGED <<ops, wd, lease, closing, recon, crashes>>

\* Truth says closed: record_closed.
CloseFoundClosed ==
    /\ lock.at = "close_read"
    /\ ClosedOnChain(lock.row.sid)
    /\ Put(lock.id, [lock.row EXCEPT !.st = "closed"])
    /\ Release
    /\ UNCHANGED <<ops, wd, lease, closing, recon, crashes>>

\* Truth does not say closed: intent is durable, then the POST.
CloseSubmit(c) ==
    /\ lock.at = "close_read"
    /\ ops[c].phase = "new"
    /\ ClearWallet(lock.id)
    /\ LET row == [lock.row EXCEPT !.st = "closing", !.cop = c]
       IN  /\ Put(lock.id, row)
           /\ lock' = [lock EXCEPT !.at = "close_post", !.op = c, !.row = row]
    /\ ops' = Post(c, lock.row.sid)
    /\ UNCHANGED <<wd, lease, closing, recon, crashes>>

\* Mutant of CloseAccepted: the session ID is stored as the transaction.
CloseAcceptedWrongField ==
    /\ lock.at = "close_post"
    /\ ops[lock.op].phase = "ended"
    /\ ops[lock.op].status = 200
    /\ LET row == [lock.row EXCEPT !.st = "close_pending", !.ctx = lock.row.sid]
       IN  /\ Put(lock.id, row)
           /\ lock' = [lock EXCEPT !.at = "close_confirm", !.row = row]
    /\ UNCHANGED <<ops, wd, lease, closing, recon, crashes>>

\* HTTP 200 with a transaction hash.
CloseAccepted ==
    /\ lock.at = "close_post"
    /\ ops[lock.op].phase = "ended"
    /\ ops[lock.op].status = 200
    /\ LET row == [lock.row EXCEPT !.st = "close_pending", !.ctx = lock.op]
       IN  /\ Put(lock.id, row)
           /\ lock' = [lock EXCEPT !.at = "close_confirm", !.row = row]
    /\ UNCHANGED <<ops, wd, lease, closing, recon, crashes>>

\* An error response: its journal stage decides the outcome.
CloseRejected ==
    /\ lock.at = "close_post"
    /\ ops[lock.op].phase = "ended"
    /\ ops[lock.op].status # 200
    /\ Put(lock.id, [lock.row EXCEPT
                       !.st = IF NeverSubmitted(lock.op) THEN "draining" ELSE "close_pending",
                       !.ctxs = ops[lock.op].hash])
    /\ Release
    /\ UNCHANGED <<ops, wd, lease, closing, recon, crashes>>

\* Timeout or lost connection: outcome "unknown" and no transactions.  Cancelled,
\* the row keeps those of an earlier close.
CloseLost ==
    /\ lock.at = "close_post"
    /\ \E kept \in {None, lock.row.ctxs} :
         Put(lock.id, [lock.row EXCEPT !.st = "close_pending", !.ctxs = kept])
    /\ Release
    /\ UNCHANGED <<ops, wd, lease, closing, recon, crashes>>

\* Mutant of CloseConfirmed: an accepted close is recorded as closed.
CloseConfirmedUnread ==
    /\ lock.at = "close_confirm"
    /\ Put(lock.id, [lock.row EXCEPT !.st = "closed"])
    /\ Release
    /\ UNCHANGED <<ops, wd, lease, closing, recon, crashes>>

\* Truth after the POST: closed, or still close_pending.
CloseConfirmed ==
    /\ lock.at = "close_confirm"
    /\ \/ /\ ClosedOnChain(lock.row.sid)
          /\ Put(lock.id, [lock.row EXCEPT !.st = "closed"])
       \/ UNCHANGED rows
    /\ Release
    /\ UNCHANGED <<ops, wd, lease, closing, recon, crashes>>

\* _validate_truth failed: outcome "unknown".
CloseUnverified ==
    /\ lock.at = "close_confirm"
    /\ Put(lock.id, [lock.row EXCEPT !.ctxs = None])
    /\ Release
    /\ UNCHANGED <<ops, wd, lease, closing, recon, crashes>>

\* The GET failed: outcome "not_submitted" although the POST was accepted.
CloseConfirmFailed ==
    /\ "confirm_close" \in Faults
    /\ lock.at = "close_confirm"
    /\ Put(lock.id, [lock.row EXCEPT !.st = "draining", !.ctxs = None])
    /\ Release
    /\ UNCHANGED <<ops, wd, lease, closing, recon, crashes>>

-----------------------------------------------------------------------------
(* treasury, under Sessions.lock. *)

WithdrawBegin ==
    /\ lock.at = "free"
    /\ WithdrawOps # {}
    /\ lock' = [Free EXCEPT !.at = "withdraw_scan"]
    /\ UNCHANGED <<ops, rows, wd, lease, closing, recon, crashes>>

\* The outcome of a withdrawal in doubt, from the journal or from receipts.
\* "none" when neither decides.
JournalVerdict(w) ==
    IF ops[w].phase = "ended" /\ ops[w].status = 200 THEN "succeeded"
    ELSE IF NeverSubmitted(w) THEN "failed" ELSE "none"

\* transaction_state of the one hash an operation has here; with several (an
\* approval, a replacement) one that succeeded decides, or all that reverted.
ReceiptVerdict(hash) ==
    IF hash = None THEN "none"
    ELSE IF ops[hash].tx = "mined" THEN "succeeded"
    ELSE IF ops[hash].tx = "reverted" THEN "failed" ELSE "none"

\* One operation of the scan: its journal is read, or the helper has none for it
\* or does not answer.
JournalAnswers == {"read", "unavailable"}

WithdrawReconcile(w, journal) ==
    LET hash    == IF journal = "read" THEN ops[w].hash ELSE wd[w].tx
        verdict == IF journal = "read" /\ JournalVerdict(w) # "none"
                   THEN JournalVerdict(w) ELSE ReceiptVerdict(hash)
    IN  /\ lock.at = "withdraw_scan"
        /\ wd[w].st \in {"uncertain", "submitting"}
        /\ journal = "read" => ops[w].phase \notin {"new", "posted"}
        /\ wd' = [wd EXCEPT ![w] =
                    [st |-> IF verdict = "none" THEN wd[w].st ELSE verdict, tx |-> hash]]
        \* undecided: "no duplicate was sent"
        /\ IF verdict = "none" THEN Release ELSE UNCHANGED lock
        /\ UNCHANGED <<ops, rows, lease, closing, recon, crashes>>

\* Below the threshold, no gas, interval not over, rows pending, read failed.
WithdrawSkipped ==
    /\ lock.at = "withdraw_scan"
    /\ Release
    /\ UNCHANGED <<ops, rows, wd, lease, closing, recon, crashes>>

WithdrawSubmit(w) ==
    /\ lock.at = "withdraw_scan"
    /\ \A v \in WithdrawOps : wd[v].st \notin {"uncertain", "submitting"}
    /\ \A r \in RowIds : rows[r].st \notin PendingStates
    /\ wd[w].st = "absent"
    /\ ops[w].phase = "new"
    /\ wd' = [wd EXCEPT ![w].st = "submitting"]
    /\ lock' = [Free EXCEPT !.at = "withdraw_post", !.op = w]
    /\ ops' = Post(w, None)
    /\ UNCHANGED <<rows, lease, closing, recon, crashes>>

WithdrawAccepted ==
    /\ lock.at = "withdraw_post"
    /\ ops[lock.op].phase = "ended"
    /\ ops[lock.op].status = 200
    /\ wd' = [wd EXCEPT ![lock.op] = [st |-> "succeeded", tx |-> lock.op]]
    /\ Release
    /\ UNCHANGED <<ops, rows, lease, closing, recon, crashes>>

WithdrawRejected ==
    /\ lock.at = "withdraw_post"
    /\ ops[lock.op].phase = "ended"
    /\ ops[lock.op].status # 200
    /\ wd' = [wd EXCEPT ![lock.op] =
                [st |-> IF NeverSubmitted(lock.op) THEN "failed" ELSE "uncertain",
                 tx |-> ops[lock.op].hash]]
    /\ Release
    /\ UNCHANGED <<ops, rows, lease, closing, recon, crashes>>

\* Mutant of WithdrawLost: a timeout is taken for a failure.
WithdrawLostIsFailed ==
    /\ lock.at = "withdraw_post"
    /\ wd' = [wd EXCEPT ![lock.op] = [st |-> "failed", tx |-> None]]
    /\ Release
    /\ UNCHANGED <<ops, rows, lease, closing, recon, crashes>>

WithdrawLost ==
    /\ lock.at = "withdraw_post"
    /\ wd' = [wd EXCEPT ![lock.op] = [st |-> "uncertain", tx |-> None]]
    /\ Release
    /\ UNCHANGED <<ops, rows, lease, closing, recon, crashes>>

-----------------------------------------------------------------------------
(* acquire, release, invalidate, rebalance and tick: the writers that never *)
(* take Sessions.lock.                                                      *)

\* "Atomic reservation before any network await."
LeaseBegin(r) ==
    /\ rows[r].st = "open"
    /\ ~Active(r)
    /\ Cardinality({q \in RowIds : Active(q)}) < MaxRequests
    /\ lease' = [lease EXCEPT ![r] = [at |-> "checking", row |-> rows[r]]]
    /\ UNCHANGED <<ops, rows, wd, lock, closing, recon, crashes>>

\* Mutant of LeaseChecked: a session near its end is recorded as closed.
LeaseCheckedExpiryIsClosed(r) ==
    /\ lease[r].at = "checking"
    /\ rows[r].st = "open"
    /\ Put(r, [rows[r] EXCEPT !.st = "closed"])
    /\ lease' = [lease EXCEPT ![r] = NoLease]
    /\ UNCHANGED <<ops, wd, lock, closing, recon, crashes>>

\* Truth was read and the row is still open: it is dispatched, found closed, or
\* drained near its end.  No longer open: the reservation is dropped.
LeaseChecked(r) ==
    /\ lease[r].at = "checking"
    /\ \E verdict \in {"leased", "closed", "draining", "dropped"} :
         /\ (verdict = "dropped") <=> (rows[r].st # "open")
         /\ verdict = "closed" => ClosedOnChain(rows[r].sid)
         /\ IF verdict \in {"closed", "draining"}
            THEN Put(r, [rows[r] EXCEPT !.st = verdict])
            ELSE UNCHANGED rows
         /\ lease' = [lease EXCEPT ![r] =
                        IF verdict = "leased" THEN [at |-> "leased", row |-> NoRow]
                                              ELSE NoLease]
         /\ IF verdict = "draining" THEN Schedule(r) ELSE UNCHANGED closing
    /\ UNCHANGED <<ops, wd, lock, recon, crashes>>

\* The read failed: the copy taken before the await is put as quarantined.
LeaseFailed(r) ==
    /\ lease[r].at = "checking"
    /\ Put(r, [lease[r].row EXCEPT !.st = "quarantined"])
    /\ lease' = [lease EXCEPT ![r] = NoLease]
    /\ UNCHANGED <<ops, wd, lock, closing, recon, crashes>>

\* Policy or identity changed, prewarm, or cancellation: nothing is written.
LeaseDropped(r) ==
    /\ lease[r].at = "checking"
    /\ lease' = [lease EXCEPT ![r] = NoLease]
    /\ UNCHANGED <<ops, rows, wd, lock, closing, recon, crashes>>

\* release(): a drained row is handed to schedule_close.
LeaseEnd(r) ==
    /\ lease[r].at = "leased"
    /\ lease' = [lease EXCEPT ![r] = NoLease]
    /\ IF rows[r].st = "draining" THEN Schedule(r) ELSE UNCHANGED closing
    /\ UNCHANGED <<ops, rows, wd, lock, recon, crashes>>

\* invalidate(): the provider failed the request that holds the lease, so its
\* schedule_close refuses.
Invalidate(r) ==
    /\ lease[r].at = "leased"
    /\ rows[r].st \notin {"closed", "closing", "close_pending", "draining"}
    /\ Put(r, [rows[r] EXCEPT !.st = "draining"])
    /\ UNCHANGED <<ops, wd, lock, lease, closing, recon, crashes>>

\* rebalance() and tick(): policy, pool limit, idleness, expiry or deadline.
Drain(r) ==
    /\ rows[r].st = "open"
    /\ Put(r, [rows[r] EXCEPT !.st = "draining"])
    /\ IF Active(r) THEN UNCHANGED closing ELSE Schedule(r)
    /\ UNCHANGED <<ops, wd, lock, lease, recon, crashes>>

\* tick() hands drained and orphaned rows to schedule_close, which calls close().
ScheduleClose(r) ==
    /\ rows[r].st \in {"draining", "orphaned"}
    /\ ~Active(r)
    /\ r \notin closing
    /\ Put(r, [rows[r] EXCEPT !.st = "draining"])
    /\ closing' = closing \cup {r}
    /\ UNCHANGED <<ops, wd, lock, lease, recon, crashes>>

-----------------------------------------------------------------------------
(* reconcile().  A row is copied, the node is asked, and the answer is      *)
(* applied only if the stored row still equals the copy.  The pass of       *)
(* tick() may be suspended while _restart() makes one of its own.           *)

Resume(p, record) == recon' = [recon EXCEPT ![p] = record]

ReconJournal(p, r) ==
    /\ recon[p].at = "idle"
    /\ rows[r].st \in {"open_unknown", "close_pending"}
    /\ Resume(p, [at |-> "journal", id |-> r, row |-> rows[r]])
    /\ UNCHANGED <<ops, rows, wd, lock, lease, closing, crashes>>

ReconTruth(p, r) ==
    /\ recon[p].at = "idle"
    /\ r \in Tracked
    /\ rows[r].sid # None
    /\ Resume(p, [at |-> "truth", id |-> r, row |-> rows[r]])
    /\ UNCHANGED <<ops, rows, wd, lock, lease, closing, crashes>>

ReconReceipt(p, r) ==
    /\ recon[p].at = "idle"
    /\ rows[r].st = "open_unknown"
    /\ rows[r].sid = None
    /\ rows[r].tx # None
    /\ Resume(p, [at |-> "receipt", id |-> r, row |-> rows[r]])
    /\ UNCHANGED <<ops, rows, wd, lock, lease, closing, crashes>>

\* No answer, or the stored row changed meanwhile: the row is left alone.
ReconSkip(p) ==
    /\ recon[p].at # "idle"
    /\ Resume(p, Idle)
    /\ UNCHANGED <<ops, rows, wd, lock, lease, closing, crashes>>

\* Mutant of SnapshotHolds: only the identity of the session is compared.
SnapshotSameSession(p) == rows[recon[p].id].sid = recon[p].row.sid

SnapshotHolds(p) == rows[recon[p].id] = recon[p].row

\* The native journal of an uncertain opening.
ReconOpenJournal(p) ==
    /\ recon[p].at = "journal"
    /\ recon[p].row.st = "open_unknown"
    /\ SnapshotHolds(p)
    /\ recon[p].id \in OpenOps
    /\ ops[recon[p].id].phase \notin {"new", "posted"}
    /\ Put(recon[p].id, [recon[p].row EXCEPT
                        !.tx  = ops[recon[p].id].hash,
                        !.sid = IF ops[recon[p].id].sid # None THEN ops[recon[p].id].sid ELSE @,
                        !.st  = IF ops[recon[p].id].sid = None /\ NeverSubmitted(recon[p].id)
                                THEN "failed" ELSE @])
    /\ Resume(p, Idle)
    /\ UNCHANGED <<ops, wd, lock, lease, closing, crashes>>

\* The native journal of an uncertain close.
ReconCloseJournal(p) ==
    /\ recon[p].at = "journal"
    /\ recon[p].row.st = "close_pending"
    /\ SnapshotHolds(p)
    /\ recon[p].row.cop # None
    /\ ops[recon[p].row.cop].phase \notin {"new", "posted"}
    /\ Put(recon[p].id, [recon[p].row EXCEPT
                        !.ctxs = ops[recon[p].row.cop].hash,
                        !.st   = IF NeverSubmitted(recon[p].row.cop) THEN "draining" ELSE @])
    /\ Resume(p, Idle)
    /\ UNCHANGED <<ops, wd, lock, lease, closing, crashes>>

\* transaction_state(close_transactions or [close_tx]) = "failed"
CloseReverted(row) ==
    LET known == IF row.ctxs # None THEN row.ctxs ELSE row.ctx
    IN  known # None /\ ops[known].tx = "reverted"

\* Truth says closed.
ReconFoundClosed(p) ==
    /\ recon[p].at = "truth"
    /\ SnapshotHolds(p)
    /\ ClosedOnChain(recon[p].row.sid)
    /\ Put(recon[p].id, [recon[p].row EXCEPT !.st = "closed"])
    /\ Resume(p, Idle)
    /\ UNCHANGED <<ops, wd, lock, lease, closing, crashes>>

\* Mutant of ReconFoundLive: an uncertain opening with a session ID is left alone.
ReconFoundLiveQuarantined(p) ==
    /\ recon[p].at = "truth"
    /\ SnapshotHolds(p)
    /\ Put(recon[p].id, [recon[p].row EXCEPT !.st = IF @ = "quarantined" THEN "open" ELSE @])
    /\ Resume(p, Idle)
    /\ UNCHANGED <<ops, wd, lock, lease, closing, crashes>>

\* Truth says live: uncertainty ends, a reverted close is retried.
ReconFoundLive(p) ==
    /\ recon[p].at = "truth"
    /\ SnapshotHolds(p)
    /\ Put(recon[p].id,
           [recon[p].row EXCEPT !.st =
              IF @ \in {"open_unknown", "quarantined"} THEN "open"
              ELSE IF @ = "close_pending" /\ CloseReverted(recon[p].row) THEN "draining"
              ELSE @])
    /\ Resume(p, Idle)
    /\ UNCHANGED <<ops, wd, lock, lease, closing, crashes>>

\* Receipts of an opening without a session ID; the snapshot is not compared.
ReconOpenReverted(p) ==
    /\ recon[p].at = "receipt"
    /\ ops[recon[p].row.tx].tx = "reverted"
    /\ Put(recon[p].id, [recon[p].row EXCEPT !.st = "failed"])
    /\ Resume(p, Idle)
    /\ UNCHANGED <<ops, wd, lock, lease, closing, crashes>>

\* A receipt could not be read: mark_error stores the copy, and does not compare
\* it either.
ReconReceiptFailed(p) ==
    /\ "receipt" \in Faults
    /\ recon[p].at = "receipt"
    /\ Put(recon[p].id, recon[p].row)
    /\ Resume(p, Idle)
    /\ UNCHANGED <<ops, wd, lock, lease, closing, crashes>>

-----------------------------------------------------------------------------
(* A crash loses every coroutine; recover() rewrites what was in flight     *)
(* before anything else runs.                                               *)

Recovered(row) ==
    [row EXCEPT !.st = IF @ = "opening" THEN "open_unknown"
                       ELSE IF @ = "closing" THEN "close_pending" ELSE @]

GatewayCrash ==
    /\ "gateway_crash" \in Faults
    /\ crashes < MaxCrashes
    /\ crashes' = crashes + 1
    /\ rows' = [r \in RowIds |-> Recovered(rows[r])]
    /\ wd' = [w \in WithdrawOps |->
                [wd[w] EXCEPT !.st = IF @ = "submitting" THEN "uncertain" ELSE @]]
    /\ lock' = Free
    /\ lease' = [r \in RowIds |-> NoLease]
    /\ closing' = {}
    /\ recon' = [p \in Passes |-> Idle]
    /\ UNCHANGED ops

-----------------------------------------------------------------------------

NativeStep ==
    /\ NodeCrash \/ \E x \in Ops : NodeStep(x)
    /\ UNCHANGED <<rows, wd, lock, lease, closing, recon, crashes>>

OpenStep ==
    \/ OpenBegin \/ OpenRefused \/ OpenAccepted \/ OpenRejected \/ OpenLost
    \/ OpenConfirmed \/ OpenUnverified \/ OpenConfirmFailed
    \/ \E o \in OpenOps : OpenSubmit(o)

CloseStep ==
    \/ CloseAborted \/ CloseFoundClosed \/ CloseAccepted \/ CloseRejected
    \/ CloseLost \/ CloseConfirmed \/ CloseUnverified \/ CloseConfirmFailed
    \/ \E r \in RowIds : CloseRequest(r) \/ CloseReturn(r) \/ CloseBegin(r)
    \/ \E c \in CloseOps : CloseSubmit(c)

WithdrawStep ==
    \/ WithdrawBegin \/ WithdrawSkipped \/ WithdrawAccepted \/ WithdrawRejected
    \/ WithdrawLost
    \/ \E w \in WithdrawOps :
          \/ WithdrawSubmit(w)
          \/ \E journal \in JournalAnswers : WithdrawReconcile(w, journal)

LeaseStep ==
    \E r \in RowIds :
       \/ LeaseBegin(r) \/ LeaseChecked(r) \/ LeaseFailed(r) \/ LeaseDropped(r)
       \/ LeaseEnd(r) \/ Invalidate(r) \/ Drain(r) \/ ScheduleClose(r)

ReconPass(p) ==
    \/ ReconSkip(p) \/ ReconOpenJournal(p) \/ ReconCloseJournal(p) \/ ReconFoundClosed(p)
    \/ ReconFoundLive(p) \/ ReconOpenReverted(p) \/ ReconReceiptFailed(p)
    \/ \E r \in RowIds : ReconJournal(p, r) \/ ReconTruth(p, r) \/ ReconReceipt(p, r)

ReconStep == \E p \in Passes : ReconPass(p)

Next ==
    \/ NativeStep \/ OpenStep \/ CloseStep \/ WithdrawStep \/ LeaseStep
    \/ ReconStep \/ GatewayCrash

Spec == Init /\ [][Next]_vars

\* run() repeats tick() for ever, so reconcile() visits every row again and
\* again, and so does the sweep every withdrawal in doubt; strong fairness of
\* the answers says that a node and a helper asked for ever answer at last.
ReconFairness ==
    /\ \A o \in OpenOps :
         /\ SF_vars(\E p \in Passes : ReconJournal(p, o))
         /\ SF_vars(\E p \in Passes : recon[p].id = o /\ ReconOpenJournal(p))
         /\ SF_vars(\E p \in Passes : ReconTruth(p, o))
         /\ SF_vars(\E p \in Passes :
                      recon[p].id = o /\ (ReconFoundLive(p) \/ ReconFoundClosed(p)))
    /\ WF_vars(\E p \in Passes : ReconSkip(p))

\* Every call under Sessions.lock has a timeout, which ends what the holder is at.
HolderGivesUp ==
    \/ OpenRefused \/ OpenLost \/ OpenUnverified
    \/ CloseAborted \/ CloseLost \/ CloseUnverified
    \/ WithdrawSkipped \/ WithdrawLost

LockFairness ==
    /\ WF_vars(HolderGivesUp)
    /\ SF_vars(WithdrawBegin)
    /\ \A w \in WithdrawOps : SF_vars(WithdrawReconcile(w, "read"))

FairSpec == Spec /\ ReconFairness /\ LockFairness

-----------------------------------------------------------------------------
(* Correctness. *)

\* The operation may still put a new transaction into a block.
Unsettled(x) ==
    \/ ops[x].tx = "pending"
    \/ ops[x].tx = "none" /\ ops[x].phase \in {"posted", "running"}

(* "Every funded session has a known ... closing outcome"                   *)
(* (docs/PRODUCTION-TEST-MATRIX.md): a session that holds escrow, or an     *)
(* opening that may still create one, has its row among Store.sessions(),   *)
(* where the pool limit, the budget and reconcile() see it.                 *)
FundedTracked ==
    \A o \in OpenOps : LiveOnChain(o) \/ Unsettled(o) => o \in Tracked

\* Where the stake of an opening is
Money(o) ==
    CASE ops[o].phase = "new" -> "wallet"
      [] ops[o].phase # "new" /\ Unsettled(o) -> "committed"
      [] LiveOnChain(o) -> "escrow"
      [] ops[o].tx = "mined" /\ ClosedOnChain(o) -> "returned"
      [] OTHER -> "unspent"

Ledger == INSTANCE SessionLedger
          WITH Sessions <- OpenOps, Capacity <- MaxSessions,
               money <- [o \in OpenOps |-> Money(o)], books <- Tracked \cap OpenOps

(* Rows, journal and chain together keep the books of SessionLedger: one    *)
(* stake committed at a time, within the capacity, and no session forgotten *)
(* that holds or may come to hold escrow.                                   *)
KeepsLedger == Ledger!Spec

(* A row that record_closed or acquire wrote as closed names a session      *)
(* whose close was mined: no stale read or late write ends tracking early.  *)
ClosedMeansClosed ==
    \A r \in RowIds : rows[r].st = "closed" => ClosedOnChain(rows[r].sid)

(* The pool limit of _open holds on chain, crashes, lost answers and        *)
(* reverted transactions included: no more than max_sessions sessions hold  *)
(* escrow or may still come to hold it.                                     *)
PoolBound ==
    Cardinality({o \in OpenOps : LiveOnChain(o) \/ Unsettled(o)}) <= MaxSessions

(* "An unknown submission is never treated as permission to submit a        *)
(* replacement blindly" (docs/PRODUCTION-TEST-MATRIX.md), for openings and  *)
(* withdrawals: no wallet mutation is posted while an earlier opening or    *)
(* withdrawal may still reach the chain.                                    *)
NoBlindReplacement ==
    [][ \A y \in Ops : ops[y].phase = "new" /\ ops'[y].phase = "posted"
          => \A x \in OpenOps \cup WithdrawOps : ~Unsettled(x) ]_vars

(* The recorded outcome of a withdrawal is the outcome on chain: treasury   *)
(* never reports success without a mined transaction, and never frees the   *)
(* wallet as "failed" while the transaction may still be mined.             *)
WithdrawalTruthful ==
    \A w \in WithdrawOps :
       /\ wd[w].st = "succeeded" => ops[w].tx = "mined"
       /\ wd[w].st = "failed" => ops[w].tx # "mined" /\ ~Unsettled(w)

(* reconcile() applies an answer only to the row it asked about: a row      *)
(* drained while the node was being asked is not handed out again           *)
(* (tests/test_recovery.py:282).                                            *)
ReconcileNeverRevives ==
    [][ \A p \in Passes :
          recon[p].at # "idle" /\ recon'[p] = Idle /\ rows[recon[p].id].st = "draining"
            => rows'[recon[p].id].st \in {"draining", "closed"} ]_vars

(* "a local estimation failure does not permanently poison the pool"        *)
(* (docs/RECOVERY-AND-AUDIT-FIXES.md): a withdrawal whose native operation  *)
(* ended without a transaction does not stay uncertain, which would keep    *)
(* require_clear_wallet failing.                                            *)
BuildFailureReleases ==
    \A w \in WithdrawOps :
       wd[w].st = "uncertain" /\ ops[w].phase = "ended" /\ ops[w].tx = "none"
         ~> wd[w].st # "uncertain"

(* "Reconcile, never resubmit an uncertain close" (_close): no session has  *)
(* two closes that may both still reach the chain.                          *)
CloseNeverRepeated ==
    \A c, d \in CloseOps :
       c # d /\ ops[c].target # None /\ ops[c].target = ops[d].target
         => ~(Unsettled(c) /\ Unsettled(d))
=============================================================================
