# Morpheus consumer gateway: TLA+ models, checks and proofs

The gateway sells access to inference sessions that it funds from a wallet.
Opening a session escrows MOR on chain, closing it releases the escrow, and a
withdrawal collects what has been released. All three go through a consumer node
that may answer late, answer wrongly, or die. This project models how the gateway
keeps its books straight and what that is worth, action by action, from the code.

## 1. Inventory

| Component | Code | State it keeps | Operations | What makes it correct |
| --- | --- | --- | --- | --- |
| Native operation journal | `deploy/native/gateway_progress.go`, injected by `deploy/patch_node.py` | one JSON file per `X-Gateway-Operation`; the wallet semaphore | begin, attempt, record, session, build failure, finish | the stage never says "not submitted" of something that was sent |
| Session lifecycle | `gateway/sessions.py`, `gateway/store.py` | session rows, withdraw operations, `lock`, `active`, `closing` | `_open`, `close`/`_close`, `treasury`, the lease of `acquire`, `release`, `invalidate`, `rebalance`, `tick`, `reconcile`, `recover` | escrow is always in the books, limits hold on chain, nothing in doubt is repeated, a recorded outcome is the real one |
| Wallet recovery | `sweep_wallet`, `bind` | rows of discovered sessions | scan, discover, bind | what was lost is found again; a session has one row |
| Node client | `gateway/node.py` | none | `request` and readers | an answer is classified as accepted, not submitted or unknown |
| Node restart | `restart`, `_restart`, part of `recover` | `maintenance`, restart operations, `applied_rating` | drain, ask the helper, verify | work is drained, maintenance ends, what counts as applied is in effect |
| Admission | `acquire`, `start_open` | `opening` tasks, `waiting`, `active`, opening failures | queue, reserve, wait for an opening, time out | one opening per model, every place in the queue is given back |
| Budget and candidates | `candidates`, `quote`, part of `_open`, `gateway_stake.go` | the reads of one preflight | read, compare, reserve | the limits hold on chain although the reads are of different moments; a stake buys the duration |
| Completion endpoint | `gateway/app.py` | connections, per-key counters, idempotency records | admit, dispatch, stream, cleanup, crash | a session serves one request, what is held is given back once, an attempt is made once |
| Stream decoder | `gateway/transport.py` | a buffer | receive a chunk, take a frame | what is yielded does not depend on how the stream is cut |
| Node helper | `node_helper/app.py` | node process, rating file, its backup and the apply journal, operation records | restart, roll back, start up, monitor | a rating that works is never lost, the node comes back |
| Login and keys | `gateway/app.py` | admin sessions, keys | login, revoke | revocation is final |

How they interact: the gateway posts an operation to the node under a fresh
identifier; the node journals it and puts a transaction on chain; the gateway
reads the answer, later the journal (through the helper), the session's truth and
the receipts. Everything in the gateway runs in one asyncio process, so code
between two awaits is atomic. `Sessions.lock` serialises `_open`, `_close` and
`treasury`; `acquire`, `release`, `invalidate`, `rebalance`, `tick`, `reconcile`,
`sweep_wallet` and `bind` write the same rows without it.

What is hard here: answers lost after the transaction was sent; a crash of either
process between two durable writes; rows read before an await and written after
it; two sources of truth (journal and chain) that may both be behind. Each such
place is listed, with its line and the property that watches it, under `hazards`
in `PROJECT.json`.

## 2. Modules

| Module | Models | Extends |
| --- | --- | --- |
| `NativeNode` | journal, node process and chain | |
| `SessionLifecycle` | every writer of rows and withdraw operations | `NativeNode` |
| `WalletRecovery` | `sweep_wallet` and `bind`, composed with all of the above | `SessionLifecycle` |
| `Supervisor` | the helper: rating files, restart and roll-back, monitor, crash and start-up | |
| `NodeRestart` | the gateway's restart, composed with the helper | `Supervisor` |
| `Admission` | `acquire` and `start_open` for one model | |
| `Completion` | a chat completion in `app.py`, composed with admission | `Admission` |
| `ChatEvents` | the stream decoder | |
| `Stake` | the arithmetic of a stake, in gateway, node and contract | |
| `Budget` | the preflight of `_open` against the wallet | `Stake` |
| `SessionLedger` | abstract: where MOR is and what the books hold | |
| `SafeConfig` | abstract: the rating a start-up would use | |
| `MCSessionLifecycle`, `MCWalletRecovery`, `MCCompletion` | instances for TLC, with symmetry | |
| `MCNodeRestart`, `MCChatEvents` | instances for TLC; the second defines the streams | |
| `SessionLifecycleProofs` | type correctness | `SessionLifecycle` |
| `SessionSafetyProofs` | the inductive invariant and the safety theorems | `SessionLifecycleProofs` |
| `LedgerProofs` | the refinement of `SessionLedger` | `SessionSafetyProofs` |
| `WalletProofs` | the safety theorems and the refinement, for the composition with `sweep_wallet` and `bind` | `WalletRecovery`, `LedgerProofs` |
| `RestartProofs` | the inductive invariant of a restart and its theorems | `NodeRestart` |
| `BudgetProofs` | what a stake buys, for all numbers; the limits of the policy, for all wallets, policies and openings | `Budget` |
| `CompletionProofs` | the inductive invariant of a completion and its theorems | `Completion` |
| `ChatProofs` | what the decoder's buffer holds, and that it decodes every stream faithfully | `ChatEvents` |

### NativeNode

`ops[x]` is the journal record of operation `x` (`stage`, `hash`, `sid`, and
`phase = "ended"` with `status` for `completed` and `http_status`) together with
its transaction (`tx`) and, for a close, the session it is about (`target`). An
identifier is never reused (`O_EXCL`), so it also names the transaction's hash
and the session an open creates; `hash = x` says that the hash was recorded.

The steps are `BeginGatewayOperation` (`NodeBegin`), `GatewayAttempt`,
`GatewayBuildFailure`, `GatewayRecord`, the broadcast, `GatewaySession`, `Finish`,
a block that mines or reverts the transaction, and the process dying. Open and
close are built with `NoSend` and recorded before they are sent; withdraw is
recorded after. `GatewayRecord` and `GatewaySession` ignore a failed persist, so
nothing waits for them. The approval that precedes an open is part of the
open's `NodeAttempt`: `GatewayBuildFailure` looks only at hashes of its own kind.
A request may be served after its client gave up, so `NodeBegin` may come at any time.

`Faults` names the failures of the environment that an instance explores:
`revert`, `node_crash`, `confirm_open` and `confirm_close` (the GET that follows
an accepted open or close fails), `receipt` (a receipt that `reconcile` asks for cannot be read)
and `gateway_crash`. Lost answers and failing reads elsewhere are always possible.

### SessionLifecycle

A row keeps its state and the fields that later decisions look at: `chain_id`
(`sid`), the open hash in `transactions` (`tx`), `close_operation_id` (`cop`),
`close_tx` (`ctx`) and `close_transactions` (`ctxs`). `wd` are the withdraw
operations. Both are the SQLite store and survive a crash. `lock` says where the
holder of `Sessions.lock` is and which copy of the row it has; `lease` is
`Sessions.active` with the copy `acquire` took; `closing` are the rows with a
`close()` waiting; `recon` is, per pass of `reconcile` that may be suspended (`Passes`: the one of
`tick` and the one `_restart` makes), its place and its copy.

Each coroutine is split exactly at its awaits:

- `_open`: `OpenBegin` (checks) / `OpenRefused` / `OpenSubmit` (row durable, POST) /
  `OpenAccepted`, `OpenRejected`, `OpenLost` / `OpenConfirmed`, `OpenUnverified`,
  `OpenConfirmFailed`. The retry after `provider_declined` is `OpenRejected`
  followed by a new `OpenBegin`.
- `close`, `_close`: `CloseRequest` (intent durable) / `CloseReturn`, `CloseBegin` /
  `CloseAborted`, `CloseFoundClosed`, `CloseSubmit` / `CloseAccepted`,
  `CloseRejected`, `CloseLost` / `CloseConfirmed`, `CloseUnverified`,
  `CloseConfirmFailed`.
- `treasury`: `WithdrawBegin`, `WithdrawReconcile` per operation in doubt, with its journal
  read or unavailable,
  `WithdrawSkipped`, `WithdrawSubmit`, `WithdrawAccepted`, `WithdrawRejected`,
  `WithdrawLost`.
- `acquire`: `LeaseBegin` (the atomic reservation), `LeaseChecked`, `LeaseFailed`,
  `LeaseDropped`; `release` is `LeaseEnd`; `invalidate`, `rebalance` and `tick` are
  `Invalidate`, `Drain` and `ScheduleClose`. `schedule_close` may refuse
  (`Schedule`).
- `reconcile`: `ReconJournal`, `ReconTruth` and `ReconReceipt` copy a row of the
  three loops; the answer is applied by `ReconOpenJournal`, `ReconCloseJournal`,
  `ReconFoundClosed`, `ReconFoundLive`, `ReconOpenReverted`, or dropped
  (`ReconSkip`). `ReconReceiptFailed` is the `mark_error` of the third loop, which stores
  the copy without comparing it.
- `recover`: `GatewayCrash` forgets every coroutine and rewrites rows and
  operations that were in flight.

Abstractions, all of them towards more behaviour: time (backoff, deadlines,
intervals) is a choice of when a step happens; the identity check of `close` is
merged with the read after it; two rows with equal abstract fields count as equal
in `SnapshotHolds`, while `ReconSkip` is always possible; the journal is read when
its answer is applied. Several `close()` calls waiting for the same row count as
one. `prune` deletes rows nobody looks at, and is left out. An operation has one hash: of several
`transaction_state` (`sessions.py:720-735`) takes any that succeeded, or all that reverted, so that a
replaced transaction decides nothing until one of the two is mined.

### WalletRecovery

`SweepDiscover` gives a session no row knows a row of its own, under the policy
`Cleanup`: `"off"`, `"expired"` (the default; a session of an opening in progress has
not run out) or `"live"`. `BindBegin`, `BindRead`, `BindApply` and `BindFailed` are
`bind` split at its awaits, called by an operator or by the sweep, whose own older
copy `mark_error` puts back. Bid, provider, model and opening time identify the
operation: session `o` matches row `o` only. One `bind` runs at a time.

### Supervisor

`files` are `rating-config.json`, its backup and the existence of `applying`;
`record` the operation files. They are durable, and every write is a step, so
that `HelperCrash` may fall between any two. `job` is the holder of
`Supervisor.lock` and where it is; `queue` are the restarts that wait for it, in
the order in which `asyncio.Lock` wakes them. `node` is the child process and the
rating it read. `proven` is a history variable: the ratings with which `ready()`
has succeeded. The default rating, written by the first start, counts as proven.

`Acquire`, `Backup`, `Mark`, `Write`, `Stop`, `Start`, `Ready`, `Commit` and `Succeed`
are `restart()` to its end; `Fail` is its `except` clause, which rolls back whenever
the journal exists, also one left by an earlier failure (`Restore`, `Stop`, `Start`,
`Restored`, `RestoreFailed`). `MonitorBegin`, `MonitorStart`, `MonitorStartFailed` and
`MonitorRestart` are `monitor()`; `Boot`, `BootUnlink`, `BootStart` are `lifespan`.

Left out: a durable write that fails; the moment between a release of the lock
and the wake-up of its next holder, in which the monitor could queue up behind a
restart (the model lets it come only when nobody waits); a retried POST, which
the gateway never sends.

### NodeRestart

`restart` is the `_restart` coroutine, and `Maintenance` the flag of `Sessions`.
`RestartRequest`, `RestartDrain` (reads the policy), `RestartRefused`, `Drained`,
`DrainTimeout`, `RestartPost`, `RestartAnswered`, `RestartLost`, `RestartVerified`,
`RestartSettled` and `RestartUnverified` are its steps. `RestartVerified` commits
`applied_rating` and `RestartSettled`, or `End` in general, the operation: two commits, between
which the gateway may die. The gateway's store may refuse any write of a restart. Most refusals
are a failed operation; at lines 1105, 1110 and 1155 of `sessions.py` no `except` clause covers
them, and the coroutine is over with the flag set (`Stuck`). `store.event` at line 1156 swallows
the errors of the store. `GatewayRestart` is a crash followed by the
restart part of `recover()`, which may settle those in `ReportedDone`. One request (`RequestBegin`, the second check in
`RequestDispatch`, `RequestEnd`) stands for `Sessions.active`, one wallet operation
for the other holders of `Sessions.lock`. The gateway may give up on an answer
while the helper goes on, so several restarts can be in the helper at once.

### Admission and Completion

`req[r]` is where the coroutine of request `r` is, with its local variables;
`waiting`, `active`, `opening`, `connections` and `key_active` are the variables of
the same names, and `enabled` and `idem` the key and the idempotency records of the
store. In `Admission`, `Loop` and `CheckDropped` are the for loop of `acquire` (it
goes on with the list it read, and reserves before any await), `Join`, `Sleep` and
`Opened` the rest of its while loop, `Leave` its ways out by exception; `StartOpen`,
`TaskEnds` and `Callback` are the opening task. The rows of one model are numbered in the order
`Store.sessions()` returns them in reverse, and their life outside a request
(`PoolStep`, `TickOpen`) is reduced to what `acquire` sees.

In `Completion`, `Arrive`, `Busy` and `TurnedAway` are the middleware `boundary` and every
refusal before the key's slot is taken; `Admit` and `Duplicate` take the slot, record the
attempt and enter `acquire`; `Dispatch` is the return of `acquire` together with the second
look at key and policy, between which nothing is awaited; `Answered`, `Failed`, `Body`,
`StreamStarts`, `StreamEnds` and `Background` are the POST and the answer; `Cleaned` is the
end of `cleanup`, a step of its own since `aclose()` is awaited first, and `cl` is its
flag `cleaned`. `InvalidateRaises` is a store that fails in the `invalidate` of an `except` clause
(`app.py:635`, `641`, `647`): the clause is over before `cleanup`, and the request ends with its
lease and its slot of the key, which only a restart of the process gives back. `CountersExact`
counts such a request as a holder and says that there is no other leak. `Crash` is the process dying and `recover()`.

Taken from the framework: a streaming response is given back to `boundary` when it
starts, and then either its generator is run (and closed) or its background task is,
also when the client is gone. One key and one model; the limit per minute, the
validation of the body and the policy are one refusal each. `prewarm` is left out.

### ChatEvents

A stream is a sequence of atoms: CR, LF and the content of a line, of which only
the kind matters. The decoder only adds bytes at the end of its buffer and takes them out of
it, so `buffer` is the set of the positions in the stream of the bytes it holds, and an event
that is yielded is the set of the positions of its data lines. `Receive(n)` is one chunk of any
length that may be too large (`TooLarge`), `Frame(j)` one turn of the inner loop, for the frame that ends at byte `j`,
`EndOfStream` the end or a lost connection.

`accepted` is a history variable: the bytes of the chunks that passed the limits, and so all that
may be decoded. `Undecoded` bounds the buffer from the stream alone: what comes after the last
event in it.

`Meaning` is the reference, and knows nothing of chunks and buffers: a blank line dispatches the
data lines since the blank line before it. `Lined` says that lines end in LF or CR LF. A bare
CR is left out: the replacement of CR LF is repeated over the buffer, and a stream with
CR CR LF is decoded differently depending on where it is cut; providers send LF or CR LF.
Which JSON is well formed is a kind of atom, too; half of an event stands for JSON that goes
over two data lines.

### Stake and Budget

`ReadRows`, `ReadBalances`, `ReadEstimate` and `ReadStakes` are the preflight of `_open`,
split at its awaits, with what each has read in `opening`; the last one puts the row
with the whole limit as its stake. `NodeSends` is the node's own computation and
`CheckGatewayStake`, which may come after the gateway has given up (`Lost`). `Close`,
`HoldEnds`, `Drift`, `Mined` and `Withdraw` move MOR on chain, `Reconcile` rows, at any time.
`Basis` and `Minimum` stand for 10000 and 300. A sum of stakes is the number of its
units of MOR (`Units`, `Total`), each an element of its own: the cardinality of a
finite set is something the proofs can reason about. Left out: other users of the wallet, and
sessions without a row (`open_written_off` shows how they come about).

### The abstract specifications

`SessionLedger` is what `SessionLifecycle` promises about money: stake is committed for
one session at a time and only while there is room next to the sessions on the books
that are not over, it is held or was never spent, and a session leaves the books only
when nothing of it is or can come to be in escrow. `Money` maps journal and chain to its
`money`, and its `books` are the rows of `Tracked`. A coroutine that ends late may put back
a row that is over: `Relist`. It may do so between the check of the pool limit and
the POST of an opening, when a request that leased the row before it closed fails its
read (`LeaseFailed`), or a second pass cannot read the receipt of an opening the first
found reverted (`ReconReceiptFailed`); then more rows are tracked than the pool has room for, although no
more sessions hold escrow. So `Commit` counts `Carried`, the sessions on the books
whose stake is not settled, and not the books. The instance of `open` has no
requests and one pass and cannot tell the two apart; the proof did.

`SafeConfig` is what `NodeRestart` promises about ratings: one rating that a start-up would
use (`BootRating`: the backup while the journal exists, else the file), replaced in a
single step and only by a rating the node has been ready with; what the gateway
records as applied is that rating.

## 3. Runs

| Run | Instance | Checks |
| --- | --- | --- |
| `open` | 2 opens, 1 close, pool of 1, reverts, both crashes, failing confirm reads of a close, failing receipts | `TypeOK`, `FundedTracked`, `ClosedMeansClosed`, `PoolBound`, `NoBlindReplacement`, `KeepsLedger` (refinement) |
| `request` | 1 open, 1 close, 1 withdrawal, 1 request, gateway crash, failing confirm reads of an open | `ClosedMeansClosed`, `WithdrawalTruthful`, `ReconcileNeverRevives`, `NoBlindReplacement` |
| `recovery` | 1 open, 1 close, sweep and bind, gateway crash, failing receipts | `WalletTypeOK`, `FundedTracked`, `ClosedMeansClosed` |
| `recovered` | 1 open, sweep and bind, node crash, failing confirm reads of an open, fairness | `FundedRecovered`, `UncertainOpenResolved` |
| `restart` | 2 restarts, 2 ratings, a request, a wallet operation, one crash of helper or gateway, fairness | `RestartTypeOK`, `LastGoodKept`, `DrainedBeforeRestart`, `AppliedIsEffective`, `SuccessWasReal`, `EffectiveWasOrdered`, `AppliesAtomically` (refinement), `MaintenanceEnds`, `NodeComesBack` |
| `completion` | 2 requests, 2 rows, 2 opening tasks, a queue of 2, one Idempotency-Key, one crash | `CompletionTypeOK`, `OneOpener`, `CountersExact`, `SessionExclusive`, `OneAttempt`, `RevokedForGood` |
| `chat_events` | every stream of 4 lines, every cut | `ChatTypeOK`, `DecodeFaithful` |
| `budget` | 3 openings, 3 supplies, bids within and beyond the price limit, a large and a small wallet | `BudgetTypeOK`, `StakeWithinBudget`, `LiquidKept`, `DurationMet` |

Four runs show where the code and its own documentation disagree; the findings in
`PROJECT.json` quote both sides.

| Run | Property violated | What happens |
| --- | --- | --- |
| `open_written_off` | `FundedTracked` | the GET after an accepted open fails, and the funded session is recorded as failed |
| `close_repeated` | `CloseNeverRepeated` | a request leases the row between the test and the POST of `_close`, its failing read puts a stale copy over the close in doubt, and a second close is posted |
| `withdraw_stuck` | `BuildFailureReleases` | a withdrawal that was never sent stays uncertain for ever |
| `session_owned_twice` | `SessionOwnedOnce` | with live cleanup, the scan gives a session being opened a second row |

`open` therefore leaves `confirm_open` out: with it `FundedTracked` and `PoolBound` fail.
`request` has it, since its properties do not depend on it. `close_repeated` needs no
failure but a lost answer; failing confirm reads of a close (`sessions.py:629`) and
the `close_tx` of a reverted close (`sessions.py:787`) lead there as well. What
`recovered` adds is that even a session written off by `open_written_off` is found
again by the sweep.

### Bounds

`MaxSessions` is the policy's limit; 1 makes the pool full after one opening, so
that a second one needs the first to be settled. Two operations of a kind are what
it takes to repeat one. `MaxRequests` bounds requests that hold a lease at once,
`MaxCrashes` the crashes of the gateway: one, at every point. More crashes are
covered by the theorems of section 4, which bound nothing. In `restart`, two restarts are what it
takes for one to be in the helper while the gateway waits for the other, and one
crash falls on the helper or on the gateway.
In `completion`, two requests are inside `acquire` together and compete for a row, a
mark and an opening, suspended at any of its awaits; the limit of the queue never binds here, and that
it is kept is `CountersHold`'s for every limit; a second row lets the loop of `acquire` go on, a second
task is the successor of the first. In `chat_events`, four lines hold two events, and
both limits are within reach, each without the other. In `budget`, with the large wallet the total limit binds
and with the small one the reserve; with a basis of 4, a supply of 5 after 4 is the largest
drift the headroom covers. Deadlock is checked except in these three, which end.
Operation identifiers are UUIDs and interchangeable: the safety runs use symmetry,
the liveness runs do not.

### Fairness

`run()` repeats `tick()` for ever and swallows every exception, so `reconcile` visits
every row again and again, and a sweep starts every `recovery_interval`. Strong
fairness is assumed of a visit, and of the answer to it: a node and a helper that
are asked for ever answer at last. For the scan of `treasury` that is the branch in which the
journal is read (`WithdrawReconcile(w, "read")`), so that a journal that is unavailable for ever
does not count as an answer. Weak fairness is assumed of giving up, for every holder of
`Sessions.lock` (`HolderGivesUp`), which rests on the timeout of every HTTP call. `withdraw_stuck`
is a counterexample under all of it: what keeps the withdrawal in doubt is the missing call for a
build failure, not a helper that is silent. Nothing is assumed of requests,
operators, blocks or the node's own progress.

In `restart`, every await of `_restart` has a timeout (the drain, the HTTP client, the
reads of the verification), hence weak fairness of each way on, which the store may still refuse: `MaintenanceEnds` has the
one exception of `Stuck`; the helper goes
on with the job it has and its monitor comes round for ever. Strong fairness of
`MonitorStart` says that a process started again and again starts at last.

## 4. Proofs

`TypeCorrect`: `Spec => []TypeOK`, with the `Shape` of the lock and the reconcile passes
(a holder in the middle of an open has an open's row and operation) as the
strengthening.

`Inductive`: `Spec => [](TypeInv /\ IInv)`. None of the safety properties is
inductive: a row is written from a copy that may be older than the state, so the
invariant has to say what every copy still knows. It says of a row only what stays true
while operations move forward (`OpsGrow`), and the same of every copy, so that no copy
put back late can break it.

- `JournalTruthful` ties journal and chain: a stage `not_submitted` means no
  transaction, a recorded session ID a mined one, a withdrawal answered with HTTP 200
  a mined one.
- `RowFits` is what holds of a row: its `sid` is a mined open, `closed` a mined close,
  `failed` an opening that will not reach the chain, any later state than
  `open_unknown` a session that exists. `RowsFit`, `LeasesFit`, `LockFits` and `ReconFits`
  say it of the store and of the copies of requests, of the holder of the lock and of
  the reconcile passes, which also know that the row was tracked (`CopyFits`).
- `PreflightClear`: the preflight of an opening runs with nothing in doubt.
- `WithdrawPending`: a withdrawal that may still reach the chain is `submitting` or
  `uncertain`.

From it follow, by one step per action:

| Theorem | States |
| --- | --- |
| `ClosedIsClosed` | `Spec => []ClosedMeansClosed` |
| `WithdrawalOutcome` | `Spec => []WithdrawalTruthful` |
| `NeverBlind` | `Spec => NoBlindReplacement` |
| `NeverRevived` | `"receipt" \notin Faults` gives `Spec => ReconcileNeverRevives` |
| `FundedIsTracked` | `"confirm_open" \notin Faults` gives `Spec => []FundedTracked` |
| `PoolIsBounded` | the same, with finitely many rows, gives `Spec => []PoolBound` |

They hold for every set of operations, any number of `reconcile` passes suspended at once
(the runs have one: a second is beyond TLC's time) and every bound, with reverts, crashes
and lost answers. The two with the hypothesis on `confirm_open` are the ones
`open_written_off` refutes without it. `NeverRevived` needs receipts that can be read: a pass
that waits for a receipt has a copy without a session ID, and if the row is bound or found
by another pass, handed out and drained in the meantime, a failing read stores
`open_unknown` over it (`ReconReceiptFailed`). No other theorem needs it: what the stale copy
says is still true. Assumptions on constants: kinds of operation are disjoint, `None` is not an
operation, the row of a discovered session has an identifier no opening has
(`RowIdsAssumption`: it is `wallet-` and the session's, the others are UUIDs), `Faults`
names known failures, bounds are natural numbers.

`LedgerProofs`: `LedgerIsKept` shows the refinement of `SessionLedger` under the same two
hypotheses. Every step of `SessionLifecycle` is a step of the ledger or changes neither
`Money` nor `Tracked`. Beyond `IInv` it needs `LedgerInv`: at most one opening may still reach
the chain, only a session that exists was closed, and the room found by the check of the
pool limit is still there, for the sessions that are not over, when the POST is made.
`RowsStep` says who may write a row that is not tracked: the POST that creates it, or the
holder of a copy of the row of an opening that was posted. So a row appears only by the POST
(`RowsAppear`), what is put back late is settled (`OverMoney`), and a settled stake is never
spent again (`SettledStays`).

`WalletProofs` has `WalletInv`: `TypeInv`, `IInv` and `BindingFits` (`bind` works on a session
that exists, and its copies and the sweep's are fit to be put). A step of the sweep or of
`bind` is a `WalletPut`: one row, of a session that exists, and nothing else. That such a
put keeps every invariant above is shown once.

| Theorem | States |
| --- | --- |
| `LedgerIsKept` | `"confirm_open" \notin Faults` and finitely many rows give `Spec => KeepsLedger` |
| `WalletTypeCorrect` | `WalletSpec => []WalletTypeOK` |
| `WalletClosedIsClosed` | `WalletSpec => []ClosedMeansClosed` |
| `WalletWithdrawalOutcome` | `WalletSpec => []WithdrawalTruthful` |
| `WalletNeverBlind` | `WalletSpec => NoBlindReplacement` |
| `WalletNeverRevived` | `"receipt" \notin Faults` gives `WalletSpec => ReconcileNeverRevives` |
| `WalletFundedIsTracked` | `"confirm_open" \notin Faults` gives `WalletSpec => []FundedTracked` |
| `WalletPoolIsBounded` | the same, with finitely many rows, gives `WalletSpec => []PoolBound` |
| `WalletLedgerIsKept` | the same gives `WalletSpec => KeepsLedger` |

They hold for every cleanup policy, also `"live"`, with which `SessionOwnedOnce` fails: a
second row of a session costs no escrow.

`RestartProofs` has one inductive invariant for helper and gateway, `RestartInv`.
`LastGoodKept` alone is not inductive, since the journal may be left over from a
failed roll-back, and `AppliedIsEffective` needs the order of restarts:

- `FilesInv`: at which places the rating file holds a proven rating, the journal
  exists, the node runs what is in the file, or the job's rating is in the file.
- `RestartShape`: an operation that was not posted is unknown to the helper.
- `QueueInv`: an accepted restart is in the helper once, waiting or at work, and
  its record says `running`.
- `LatestInv`: the restart the gateway waits for is the last one the helper has;
  once answered, the queue is empty and what it wrote is in the file.
- `DrainInv`: once drained, nothing begins.

What the gateway shows of an operation needs a second one, `TruthInv`. `EffectiveWasOrdered`
is not inductive: an operation that is at work, or waits, may still fail, so the rating in
effect must be ordered by one that cannot, which `Stands`:

- `AskedInv`: queue and job of the helper carry the ratings of the gateway's operations.
- `OrderInv`: the file holds an ordered rating, but while a new one is tried out; then
  the backup does and the journal exists.
- `ShownInv`: what the helper reports as succeeded the node has been ready with; an operation
  at work in the gateway is not one that shows as succeeded.

| Theorem | States |
| --- | --- |
| `RestartTypes` | `RestartSpec => []RestartTypeOK` |
| `LastGoodIsKept` | `RestartSpec => []LastGoodKept` |
| `DrainedFirst` | `RestartSpec => []DrainedBeforeRestart` |
| `AppliedWasEffective` | `RestartSpec => AppliedIsEffective` |
| `SuccessesAreReal` | `RestartSpec => []SuccessWasReal` |
| `EffectiveRatingOrdered` | `RestartSpec => []EffectiveWasOrdered` |
| `ImplementsSafeConfig` | `RestartSpec => AppliesAtomically`, which is `SafeConfig`'s specification under the mapping |

They hold for every set of restarts and ratings and any number of crashes. The
refinement rests on `LastGoodKept` after the step (whichever step changes `BootRating`, it
becomes a proven rating) and on `Ready` alone proving one.

`BudgetProofs` has two parts. `StakeBuysDuration` is the arithmetic. The stake, rounded up, is at least
the exact one; the contract's stipend, rounded down, is therefore at least price times
duration under any supply the headroom covers, and so is the duration rounded down
after it. `gateway_stake_test.go` tests it for some numbers, the theorem is for all.
`DurationIsMet` carries it to `Budget`: `OfferInv` says that a transaction under way has the
stake of its price and of the supply that was read.

`BudgetInv` is about the limits. They are not inductive: the step that reserves
compares reads of different moments. What makes it sound is that nothing of the
gateway's is on its way during a preflight, so that escrow can only shrink and the wallet
only fill after they were read.

- `RowsCover`: a row carries at least what is in escrow for it; one that left the books, nothing.
- `TxReserved`: what the node works on is in doubt in the books, and reserved there.
- `ReadsHold`: during a preflight no transaction is under way, the sum read from the rows is
  at least what is in escrow now, the balance read is at most what is in the wallet now.

| Theorem | States |
| --- | --- |
| `AmountsAreNatural` | `Spec => []BudgetTypeOK`: no limit, stake or balance is negative |
| `BudgetIsKept` | `Spec => []StakeWithinBudget` |
| `ReserveIsKept` | `Spec => []LiquidKept` |

They hold for every policy, every set of prices and supplies, every wallet that holds at
least the reserve at the start and every finite set of openings. The lemmas on sums
(`TotalType`, `TotalLess`, `TotalSplit`, `TotalSet`) come from the library's facts about
cardinality.

`CompletionProofs` has one inductive invariant, `Inv`. `CountersExact` says how the counters
follow from the requests, but not that a request is where a step finds it with what the
step gives back; `SessionExclusive` says nothing of a row that is reserved and not yet in
use; `OneAttempt` nothing of an attempt that has not reached the node. So it adds

- `Local`: what the local variables are at each place of the coroutine (cleanup not
  called or never to be called, a row reserved, an upstream open, whose record it writes);
- `Excl`: no row is reserved by two requests that hold a slot, so giving one's row back
  takes nobody else's;
- `MarkInv`: the record of an attempt that has not ended is `started` and its own.

A step of one request is a `Moves`: the counters change by exactly what the predicates of
that request do, and its row goes from one free reservation to another. `MoveCounts` proves
once that a move keeps the counters (`CountMove`, on cardinalities); each action is then
shown to be a move.

| Theorem | States |
| --- | --- |
| `TypesHold` | `Spec => []CompletionTypeOK`: no counter goes below zero |
| `CountersHold` | `Spec => []CountersExact` |
| `OneOpenerHolds` | `Spec => []OneOpener` |
| `SessionsExclusive` | `Spec => []SessionExclusive` |
| `AttemptsUnique` | `Spec => []OneAttempt` |
| `RevocationHonored` | `Spec => RevokedForGood` |

They hold for every finite set of requests and any number of rows, opening tasks,
Idempotency-Keys and crashes, every limit of queue, key and connections. Finiteness is what
`Cardinality` needs; the process has handled finitely many requests.

`ChatProofs` has one inductive invariant, `ChatInv`. `DecodeFaithful` says what was yielded but
not where the decoder is in the stream; `DecodedTo(p)` says it: everything up to byte `p` was
taken out, `p` ends a blank line (or nothing was taken out), the events are those dispatched up to
`p`, and the buffer is what is left of the bytes after `p` when the CRs that an LF has
followed are gone (`Kept`). A CR at the end of a chunk is therefore still in the buffer, and the chunk
that brings its LF removes it, since the replacement runs over what was joined.

- `EndsAreBlank`: where the decoder finds two LFs in a row in its buffer is where the
  stream has a blank line after a line; `NoEndNoData` is the converse, for a line with data.
- `FirstFrame`: the data lines of the first frame are those the blank line dispatches.
- `Kinds`, `HeardGrows`, `NextDispatch`: what the next dispatch adds to what a client hears.
- `NothingMissed`: with no frame in the buffer, nothing that came is withheld.
- `Sized`: neither limit is passed. That a stream is cut off for the limit of the buffer only when
  the bytes after its last event pass it needs `NothingMissed` again: the buffer holds no more
  than those, and replacing CR LF only shrinks it.
- `Faithful`: the invariant implies `DecodeFaithful`.

Nothing in it needs induction over a sequence, which is why the reference is stated with
positions and not as a fold over the bytes.

| Theorem | States |
| --- | --- |
| `ChatTypes` | `Spec => []ChatTypeOK` |
| `DecodingIsFaithful` | `Spec => []DecodeFaithful` |

They hold for every stream with lines that end in LF or CR LF, of any length, for every
way to cut it and for all limits.

Every invariant, action property and refinement that a passing run checks is thus a theorem.
Only model-checked are the liveness properties `FundedRecovered`, `UncertainOpenResolved`,
`MaintenanceEnds` and `NodeComesBack` (fairness and ENABLED are beyond the prover). The four
violations of section 3 are counterexamples and need no proof.

## 5. Plan

1. The safety half of the liveness properties: what a visit of `reconcile` with a truthful
   answer, or a step of `_restart` that gives up, leads to from every reachable state.
2. The composition of `NodeRestart` with `SessionLifecycle` (see below). The second pass of
   `reconcile` it brings is already in `Passes`.

## 6. Not modelled

- The composition of `NodeRestart` with `SessionLifecycle`: that a failing `reconcile` of
  `_restart` fails the operation is a choice in `NodeRestart`, and maintenance is a choice
  of `CloseReturn` and `Schedule` in `SessionLifecycle`.
- That every completion ends: with fairness, the smallest instance with two requests
  is beyond what TLC checks in minutes. Every await of the handler has a timeout.
- Pages of the wallet scan with several candidates for one row; failing writes in the
  helper and the journal, but for the errors the code ignores.
- The gateway's store failing, but where it is said above: every write of a restart, `invalidate`
  in the except clauses of a completion, and the final record of an attempt. Of the rest, a store
  that fails to read the record of an Idempotency-Key (`app.py:547`) matters: `cleanup`
  then writes "completed" over the record of the earlier attempt. The rows of `SessionLifecycle`
  are written by a store that works.
- What `docs/DESIGN.md:341` asks for when a rating fails verification: "On failure, restore the
  previous file and attempt a controlled restart; otherwise leave service blocked with a concrete
  error." The helper does so when the node does not come up (`Fail`, `Restore`). When the
  gateway's own checks fail afterwards, or it does not get the answer, it does not:
  `RestartUnverified`, `RestartLost` and `GatewayRestart` leave the new rating in effect, record the
  operation as failed or interrupted and reopen admission. The model has this behaviour, and
  `EffectiveWasOrdered` states what is true instead: the rating in effect is an ordered one.
- Login, lock-out, the epoch of dashboard sessions and the editing of keys: single
  reads and writes of the store with no await in between. Of keys, revocation is modelled.
- The dashboard (`web/`), audit and development tools, packaging, configuration
  validation and logging, which keep no state of interest.
