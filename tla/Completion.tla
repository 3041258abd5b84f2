----------------------------- MODULE Completion -----------------------------
(***************************************************************************)
(* gateway/app.py: a chat completion from the first byte of its upload to  *)
(* the last of its answer, with what it holds on the way: a place among    *)
(* the connections (boundary), one of its key's slots, an idempotency      *)
(* record, a place in the queue of acquire, a row of Sessions.active and   *)
(* the stream from the node.  Composed with Admission.  One API key: keys  *)
(* share only what Admission and boundary count.                           *)
(*                                                                         *)
(* enabled, idem, pool and failure are in the store and survive a crash.   *)
(***************************************************************************)
EXTENDS Admission

CONSTANTS
    Marks,          \* values of Idempotency-Key
    Concurrency,    \* key["concurrency"]
    MaxConnections, \* cfg.max_connections
    MaxCrashes      \* bound on crashes explored

ASSUME CompletionAssumption ==
    /\ {Concurrency, MaxConnections, MaxCrashes} \subseteq Nat
    /\ None \notin Marks

VARIABLES
    connections,    \* of boundary
    key_active,     \* key_active of the key
    enabled,        \* store kind "key": the key is not revoked
    idem,           \* store kind "request": mark -> record
    sent,           \* history: requests with a mark dispatched to the node
    crashes         \* crashes so far

attempts == <<idem, sent, crashes>>
handler == <<connections, key_active, enabled, attempts>>

vars == <<admission, handler>>

\* Places after the queue: the POST to the node, the body, a stream that was
\* promised, that runs; the except clauses; after the stream's end the background
\* task that is due, and that was started.
Places == {"idle", "upload"} \cup Queued
            \cup {"sent", "body", "ready", "stream", "cleanup", "finish", "after", "end"}

Request ==
    [ at      : Places,
      row     : Rows \cup {None},
      scan    : SUBSET Rows,                 \* rows acquire has still to visit
      task    : Tasks \cup {None},           \* opening task it waits for
      up      : BOOLEAN,                     \* upstream is open
      cl      : {"no", "closing", "done",    \* cleanup: not called, at aclose, over,
                 "skipped"},                 \* never to be called
      outcome : {"failed", "succeeded"},
      header  : Marks \cup {None},           \* Idempotency-Key
      mark    : Marks \cup {None} ]          \* idem_record: the record it owns

NewRequest == [ at |-> "idle", row |-> None, scan |-> {}, task |-> None, up |-> FALSE,
                cl |-> "no", outcome |-> "failed", header |-> None, mark |-> None ]

NoRecord == [st |-> "absent", by |-> None, outcome |-> "failed"]

CompletionTypeOK ==
    /\ req \in [Requests -> Request]
    /\ waiting \in Nat
    /\ active \subseteq Rows
    /\ pool \in [Rows -> {"new", "open", "quarantined", "gone"}]
    /\ tasks \in [Tasks -> [st : {"new", "running", "done", "gone"},
                            result : Results \cup {"none"}]]
    /\ opening \in Tasks \cup {None}
    /\ failure \in {"wait", "raise", None}
    /\ connections \in Nat
    /\ key_active \in Nat
    /\ enabled \in BOOLEAN
    /\ idem \in [Marks -> [st : {"absent", "started", "completed", "interrupted"},
                           by : Requests \cup {None}, outcome : {"failed", "succeeded"}]]
    /\ sent \subseteq Requests
    /\ crashes \in 0..MaxCrashes

Init ==
    /\ req = [r \in Requests |-> NewRequest]
    /\ waiting = 0
    /\ active = {}
    /\ pool = [p \in Rows |-> "new"]
    /\ tasks = [t \in Tasks |-> NewTask]
    /\ opening = None
    /\ failure = None
    /\ connections = 0
    /\ key_active = 0
    /\ enabled = TRUE
    /\ idem = [m \in Marks |-> NoRecord]
    /\ sent = {}
    /\ crashes = 0

-----------------------------------------------------------------------------
(* boundary, and the handler up to its first await. *)

Arrive(r) ==
    /\ req[r].at = "idle"
    /\ connections < MaxConnections
    /\ connections' = connections + 1
    /\ \E m \in Marks \cup {None} : Set(r, [req[r] EXCEPT !.at = "upload", !.header = m])
    /\ UNCHANGED <<queue, pool, opener, key_active, enabled, attempts>>

\* connection_limit, for other callers have connections too: answered before
\* anything is counted
Busy(r) ==
    /\ req[r].at = "idle"
    /\ Set(r, [req[r] EXCEPT !.at = "end", !.cl = "done"])
    /\ UNCHANGED <<queue, pool, opener, handler>>

\* The upload fails, or the key, the body, the model or a limit is refused.
TurnedAway(r) ==
    /\ req[r].at = "upload"
    /\ connections' = connections - 1
    /\ Set(r, [req[r] EXCEPT !.at = "end", !.cl = "done"])
    /\ UNCHANGED <<queue, pool, opener, key_active, enabled, attempts>>

\* request_already_attempted; a key that is too long ends in the same way
Duplicate(r) ==
    /\ req[r].at = "upload"
    /\ enabled
    /\ key_active < Concurrency
    /\ req[r].header # None
    /\ idem[req[r].header].st # "absent"
    /\ key_active' = key_active + 1
    /\ Set(r, [req[r] EXCEPT !.at = "cleanup", !.cl = "closing"])
    /\ UNCHANGED <<queue, pool, opener, connections, enabled, attempts>>

\* The slot is taken, the attempt recorded, and acquire entered; or acquire
\* refuses at once (paused, in maintenance, queue full).
Admit(r) ==
    /\ req[r].at = "upload"
    /\ enabled
    /\ key_active < Concurrency
    /\ req[r].header # None => idem[req[r].header].st = "absent"
    /\ key_active' = key_active + 1
    /\ idem' = [m \in Marks |->
                  IF m = req[r].header THEN [NoRecord EXCEPT !.st = "started", !.by = r]
                                   ELSE idem[m]]
    /\ \/ /\ waiting < MaxWaiting
          /\ waiting' = waiting + 1
          /\ Set(r, [req[r] EXCEPT !.at = "loop", !.mark = req[r].header])
       \/ /\ Set(r, [req[r] EXCEPT !.at = "cleanup", !.cl = "closing", !.mark = req[r].header])
          /\ UNCHANGED waiting
    /\ UNCHANGED <<active, pool, opener, connections, enabled, sent, crashes>>

-----------------------------------------------------------------------------
(* The lease, the dispatch and the answer. *)

\* Mutant of KeyNow: the copy read before the wait.
KeyBefore == TRUE

\* The key as the store has it after the wait
KeyNow == enabled

\* acquire returns the row and the handler, without an await in between, reads
\* key and policy again, puts the key with its last use, and posts; or raises.
Dispatch(r) ==
    /\ req[r].at = "check"
    /\ pool[req[r].row] = "open"
    /\ waiting' = waiting - 1
    /\ \/ /\ KeyNow
          /\ enabled' = KeyNow
          /\ sent' = IF req[r].header = None THEN sent ELSE sent \cup {r}
          /\ Set(r, [req[r] EXCEPT !.at = "sent", !.scan = {}])
       \/ /\ Set(r, [req[r] EXCEPT !.at = "cleanup", !.cl = "closing", !.scan = {}])
          /\ UNCHANGED <<enabled, sent>>
    /\ UNCHANGED <<active, pool, opener, connections, key_active, idem, crashes>>

\* invalidate(): the row is drained.  A cancelled request invalidates nothing.
MayInvalidate(p) ==
    \/ UNCHANGED pool
    \/ pool[p] \in {"open", "quarantined"} /\ pool' = [pool EXCEPT ![p] = "gone"]

\* The node answers: a stream or a body to read.
Answered(r) ==
    /\ req[r].at = "sent"
    /\ \E at \in {"ready", "body"} : Set(r, [req[r] EXCEPT !.at = at, !.up = TRUE])
    /\ UNCHANGED <<queue, pool, opener, handler>>

\* An error status leaves a response to close; a timeout, a lost connection or
\* cancellation does not.
Failed(r) ==
    /\ req[r].at = "sent"
    /\ \E up \in BOOLEAN :
         Set(r, [req[r] EXCEPT !.at = "cleanup", !.cl = "closing", !.up = up])
    /\ MayInvalidate(req[r].row)
    /\ UNCHANGED <<queue, opener, handler>>

\* invalidate() meets a store that fails, and the except clause it is in is over
\* before cleanup.  An error status and a stream call it where cleanup still
\* follows.
InvalidateRaises(r) ==
    /\ req[r].at \in {"sent", "body"}
    /\ Set(r, [req[r] EXCEPT !.at = "cleanup", !.cl = "skipped"])
    /\ MayInvalidate(req[r].row)
    /\ UNCHANGED <<queue, opener, handler>>

\* The body is complete and valid, or too large, invalid, late or interrupted.
Body(r) ==
    /\ req[r].at = "body"
    /\ \/ /\ Set(r, [req[r] EXCEPT !.at = "cleanup", !.cl = "closing", !.outcome = "succeeded"])
          /\ UNCHANGED pool
       \/ /\ Set(r, [req[r] EXCEPT !.at = "cleanup", !.cl = "closing"])
          /\ MayInvalidate(req[r].row)
    /\ UNCHANGED <<queue, opener, handler>>

\* The response starts, which ends boundary's count; the client may be gone
\* before the generator is.
StreamStarts(r) ==
    /\ req[r].at = "ready"
    /\ connections' = connections - 1
    /\ \E at \in {"stream", "finish"} : Set(r, [req[r] EXCEPT !.at = at])
    /\ UNCHANGED <<queue, pool, opener, key_active, enabled, attempts>>

\* The generator's finally calls cleanup, shielded.
StreamEnds(r) ==
    /\ req[r].at = "stream"
    /\ \/ /\ Set(r, [req[r] EXCEPT !.at = "finish", !.cl = "closing", !.outcome = "succeeded"])
          /\ UNCHANGED pool
       \/ /\ Set(r, [req[r] EXCEPT !.at = "finish", !.cl = "closing"])
          /\ MayInvalidate(req[r].row)
    /\ UNCHANGED <<queue, opener, handler>>

\* Mutant of CleanupCalled: cleaned is not looked at.
CleanupAgain(cl) == "closing"

\* "if cleaned: return"
CleanupCalled(cl) == IF cl = "no" THEN "closing" ELSE cl

\* BackgroundTask(cleanup): a no-op unless the generator never ran.
Background(r) ==
    /\ req[r].at = "finish"
    /\ Set(r, [req[r] EXCEPT !.at = "after", !.cl = CleanupCalled(@)])
    /\ UNCHANGED <<queue, pool, opener, handler>>

-----------------------------------------------------------------------------
(* cleanup and the end. *)

\* upstream.aclose() has returned or raised: release, the key's slot, then the
\* record.  A failing store keeps only the record from being written.
Cleaned(r) ==
    /\ req[r].cl = "closing"
    /\ active' = active \ {req[r].row}
    /\ key_active' = key_active - 1
    /\ Set(r, [req[r] EXCEPT !.cl = "done", !.up = FALSE])
    /\ \/ UNCHANGED idem
       \/ idem' = [m \in Marks |->
                     IF m = req[r].mark
                     THEN [st |-> "completed", by |-> r, outcome |-> req[r].outcome]
                     ELSE idem[m]]
    /\ UNCHANGED <<waiting, pool, opener, connections, enabled, sent, crashes>>

\* The handler returns or raises into boundary, or the stream's task ends.
Respond(r) ==
    /\ req[r].at \in {"cleanup", "after"}
    /\ req[r].cl \in {"done", "skipped"}
    /\ connections' = IF req[r].at = "cleanup" THEN connections - 1 ELSE connections
    /\ Set(r, [req[r] EXCEPT !.at = "end", !.row = IF req[r].cl = "done" THEN None ELSE @])
    /\ UNCHANGED <<queue, pool, opener, key_active, enabled, attempts>>

-----------------------------------------------------------------------------
(* Operators, housekeeping and crashes. *)

\* DELETE /admin/api/keys/{id}
Revoke ==
    /\ enabled
    /\ enabled' = FALSE
    /\ UNCHANGED <<admission, connections, key_active, attempts>>

\* prune(): an attempt that ended more than 30 days ago is forgotten.
Prune(m) ==
    /\ idem[m].st \in {"completed", "interrupted"}
    /\ idem' = [idem EXCEPT ![m] = NoRecord]
    /\ sent' = {r \in sent : req[r].header # m}
    /\ UNCHANGED <<admission, connections, key_active, enabled, crashes>>

\* Mutant of Recovered: attempts that did not end are forgotten.
RecoveredAsNew(record) == IF record.st = "started" THEN NoRecord ELSE record

\* recover() marks attempts that did not end as interrupted.
Recovered(record) ==
    [record EXCEPT !.st = IF @ = "started" THEN "interrupted" ELSE @]

\* The process dies and restarts.
Crash ==
    /\ crashes < MaxCrashes
    /\ crashes' = crashes + 1
    /\ req' = [r \in Requests |->
                 IF req[r].at = "idle" THEN req[r]
                 ELSE [NewRequest EXCEPT !.at = "end", !.cl = "done",
                                         !.outcome = req[r].outcome, !.header = req[r].header]]
    /\ waiting' = 0
    /\ active' = {}
    /\ tasks' = [t \in Tasks |-> IF tasks[t].st = "new" THEN tasks[t]
                                 ELSE [tasks[t] EXCEPT !.st = "gone"]]
    /\ opening' = None
    /\ connections' = 0
    /\ key_active' = 0
    /\ idem' = [m \in Marks |-> Recovered(idem[m])]
    /\ UNCHANGED <<pool, failure, enabled, sent>>

-----------------------------------------------------------------------------

HandlerStep(r) ==
    \/ Answered(r) \/ Failed(r) \/ InvalidateRaises(r) \/ Body(r)
    \/ StreamStarts(r) \/ StreamEnds(r) \/ Background(r) \/ Cleaned(r) \/ Respond(r)

RequestStep(r) ==
    \/ Arrive(r) \/ Busy(r) \/ TurnedAway(r) \/ Duplicate(r) \/ Admit(r) \/ Dispatch(r)
    \/ HandlerStep(r)
    \/ (AcquireStep(r) \/ AcquireEnd(r)) /\ UNCHANGED handler

Next ==
    \/ \E r \in Requests : RequestStep(r)
    \/ Environment /\ UNCHANGED handler
    \/ Revoke
    \/ \E m \in Marks : Prune(m)
    \/ Crash

Spec == Init /\ [][Next]_vars

-----------------------------------------------------------------------------
(* Correctness. *)

\* Requests that boundary counts, that are in the queue, that have a slot of the
\* key: until cleanup, or for ever if it is skipped
Connected == {r \in Requests :
                req[r].at \in Queued \cup {"upload", "sent", "body", "ready", "cleanup"}}
Waiters == {r \in Requests : req[r].at \in Queued}
Holders == {r \in Requests : req[r].at \notin {"idle", "upload"} /\ req[r].cl # "done"}

(* Every counter says exactly what requests hold, through errors,           *)
(* cancellation and the second call of cleanup: nothing is given back       *)
(* twice, and the queue is bounded.  On one way out nothing is given back   *)
(* at all: a store that fails in invalidate ends the except clauses of      *)
(* completion before cleanup.  Such a request keeps its slot of the key     *)
(* and its row of Sessions.active until the process restarts; no other      *)
(* request does.                                                            *)
CountersExact ==
    /\ connections = Cardinality(Connected)
    /\ waiting = Cardinality(Waiters)
    /\ waiting <= MaxWaiting
    /\ key_active = Cardinality(Holders)
    /\ active = {req[r].row : r \in Holders} \ {None}

\* The node is at work on the session for r.
InUse(r) == req[r].at = "sent" \/ req[r].up

(* A session serves one request at a time: while the stream from the node   *)
(* is open, or the POST is under way, nobody else is dispatched to its row. *)
SessionExclusive ==
    \A r, s \in Requests :
       r # s /\ InUse(r) /\ InUse(s) => req[r].row # req[s].row

(* "optional request Idempotency-Key rejects repeats"                       *)
(* (docs/RECOVERY-AND-AUDIT-FIXES.md): as long as attempts are remembered,  *)
(* a crash included, at most one request with an Idempotency-Key reaches    *)
(* the node, and the record is its own and tells its outcome.               *)
OneAttempt ==
    \A r \in sent :
       LET record == idem[req[r].header]
       IN  /\ record.by = r
           /\ record.st = "completed" => /\ req[r].cl = "done"
                                         /\ record.outcome = req[r].outcome

(* "Revocation honored" (docs/PRODUCTION-TEST-MATRIX.md): a request whose    *)
(* key is revoked while it waits neither reaches the node nor writes the    *)
(* key it has read back over the revocation.                                *)
RevokedForGood ==
    [][ ~enabled => /\ ~enabled'
                    /\ \A r \in Requests : req'[r].at = "sent" => req[r].at = "sent" ]_vars
=============================================================================
