----------------------------- MODULE Admission -----------------------------
(***************************************************************************)
(* gateway/sessions.py: how a request comes by a session of its model.     *)
(* acquire() reserves a hot row, checks it against the chain and hands it  *)
(* out, or waits for the one opening task of the model, which it starts if *)
(* there is none (start_open).                                             *)
(*                                                                         *)
(* The rows of the model are numbered in the order of their creation;      *)
(* their life outside a request is SessionLifecycle's and is reduced here  *)
(* to steps of Environment.  Deadlines are choices of when a step happens. *)
(***************************************************************************)
EXTENDS Naturals, FiniteSets

CONSTANTS
    Requests,       \* completion requests
    MaxRows,        \* bound on sessions opened for the model
    MaxTasks,       \* bound on opening tasks
    MaxWaiting,     \* the 64 of acquire
    None            \* Python's None

ASSUME AdmissionAssumption ==
    /\ {MaxRows, MaxTasks, MaxWaiting} \subseteq Nat
    /\ None \notin Nat
    /\ IsFiniteSet(Requests)

VARIABLES
    req,        \* request -> where its coroutine is, and its local variables
    waiting,    \* Sessions.waiting
    active,     \* Sessions.active
    pool,       \* row -> its state
    tasks,      \* opening task -> its state and its result
    opening,    \* Sessions.opening of the model
    failure     \* the "opening_failure" in force for the model

queue == <<waiting, active>>
opener == <<tasks, opening, failure>>
admission == <<req, queue, pool, opener>>

Rows == 1..MaxRows
Tasks == 1..MaxTasks

\* Places in acquire, which Sessions.waiting counts: the top of its loop, the
\* reads about a reserved row, the end of the loop, the wait for an opening.
Queued == {"loop", "check", "tail", "opening"}

NewTask == [st |-> "new", result |-> "none"]

\* How _open ends: with a row, or with an error that leaves it worthwhile to wait
\* for a hot row ("wait": provider_declined, no_eligible_provider,
\* open_preflight_failed, wallet_budget) or not ("raise").
Results == {"ok", "wait", "raise"}

Set(r, q) == req' = [req EXCEPT ![r] = q]

\* Rows the for loop of acquire is about to visit
Hot == {p \in Rows : pool[p] = "open"}

\* can_wait_for_hot(); the row may also be denied or near its end
MayWaitForHot(error) == error = "wait" /\ Hot # {}

-----------------------------------------------------------------------------
(* start_open and its task. *)

StartOpen(t) ==
    /\ tasks[t].st = "new"
    /\ \A u \in Tasks : tasks[u].st = "new" => t <= u
    /\ tasks' = [tasks EXCEPT ![t].st = "running"]
    /\ opening' = t

\* run() of start_open returns: a row is open, or the pool had no room after all,
\* or an error of the kinds start_open records is filed under the policy revision
\* it began with.  A record of an earlier revision is not in force.
TaskEnds(t) ==
    /\ tasks[t].st = "running"
    /\ \E result \in Results :
         /\ tasks' = [tasks EXCEPT ![t] = [st |-> "done", result |-> result]]
         /\ \/ /\ result = "ok"
               /\ \/ UNCHANGED pool
                  \/ \E p \in Rows :
                       /\ pool[p] = "new"
                       /\ \A q \in Rows : pool[q] = "new" => p <= q
                       /\ pool' = [pool EXCEPT ![p] = "open"]
               /\ failure' = None
            \/ /\ result # "ok"
               /\ failure' \in {failure, result}
               /\ UNCHANGED pool
    /\ UNCHANGED <<req, queue, opening>>

\* Mutant of WithoutOpener: whatever is there is removed.
WithoutAnyOpener(t) == None

\* "An earlier callback must never remove a newer opener."
WithoutOpener(t) == IF opening = t THEN None ELSE opening

Callback(t) ==
    /\ tasks[t].st = "done"
    /\ tasks' = [tasks EXCEPT ![t].st = "gone"]
    /\ opening' = WithoutOpener(t)
    /\ UNCHANGED <<req, queue, pool, failure>>

-----------------------------------------------------------------------------
(* acquire. *)

\* Mutant of Idle: the test for an active row is missing.
IdleOrNot(S, A) == S

Idle(S, A) == S \ A

\* The for loop goes on with rows S while A is active: "Atomic reservation
\* before any network await."
Visit(r, S, A) ==
    \/ /\ Idle(S, A) = {}
       /\ Set(r, [req[r] EXCEPT !.at = "tail", !.row = None, !.scan = {}])
       /\ active' = A
    \/ \E p \in Idle(S, A) :
         /\ \A q \in Idle(S, A) : q <= p
         /\ Set(r, [req[r] EXCEPT !.at = "check", !.row = p, !.scan = {q \in S : q < p}])
         /\ active' = A \cup {p}

Loop(r) ==
    /\ req[r].at = "loop"
    /\ Visit(r, Hot, active)
    /\ UNCHANGED <<waiting, pool, opener>>

\* The reserved row is no longer open, is closed or near its end, or its read
\* failed and it is quarantined: the reservation is dropped and the loop goes on.
CheckDropped(r) ==
    /\ req[r].at = "check"
    /\ \E st \in {"quarantined", "gone", pool[req[r].row]} :
         /\ st = "open" => pool[req[r].row] # "open"
         /\ pool' = [pool EXCEPT ![req[r].row] = st]
    /\ Visit(r, req[r].scan, active \ {req[r].row})
    /\ UNCHANGED <<waiting, opener>>

\* Wait for the opening in progress, or start one: no failure is in force, the
\* pool has room and the deadline has not passed.
Join(r) ==
    /\ req[r].at = "tail"
    /\ \/ opening # None /\ UNCHANGED <<tasks, opening>>
       \/ opening = None /\ failure = None /\ \E t \in Tasks : StartOpen(t)
    /\ Set(r, [req[r] EXCEPT !.at = "opening", !.task = opening'])
    /\ UNCHANGED <<queue, pool, failure>>

\* No opening and no room for one, or a failure worth waiting out.
Sleep(r) ==
    /\ req[r].at = "tail"
    /\ opening = None
    /\ failure # None => MayWaitForHot(failure)
    /\ Set(r, [req[r] EXCEPT !.at = "loop"])
    /\ UNCHANGED <<queue, pool, opener>>

\* The opening ended; its error is raised unless a hot row is worth waiting for.
\* "The opener does not lease."
Opened(r) ==
    LET t == req[r].task IN
    /\ req[r].at = "opening"
    /\ tasks[t].st \in {"done", "gone"}
    /\ tasks[t].result # "ok" => MayWaitForHot(tasks[t].result)
    /\ opening' = WithoutOpener(t)
    /\ Set(r, [req[r] EXCEPT !.at = "loop", !.task = None])
    /\ UNCHANGED <<queue, pool, tasks, failure>>

\* An exception leaves acquire: "finally" gives the place in the queue back, and
\* the handler's except clause calls cleanup.
Leave(r) ==
    /\ waiting' = waiting - 1
    /\ active' = IF req[r].at = "check" THEN active \ {req[r].row} ELSE active
    /\ opening' = IF /\ req[r].at = "opening"
                     /\ opening = req[r].task
                     /\ tasks[opening].st # "running"
                  THEN None ELSE opening
    /\ Set(r, [req[r] EXCEPT !.at = "cleanup", !.cl = "closing",
                             !.row = None, !.scan = {}, !.task = None])
    /\ UNCHANGED <<pool, tasks, failure>>

\* pool_busy: the deadline of the queue has passed.
PoolBusy(r) == req[r].at = "tail" /\ opening = None /\ Leave(r)

\* opening_pending: the opening outlasts the caller's patience.
OpeningPending(r) ==
    req[r].at = "opening" /\ tasks[req[r].task].st = "running" /\ Leave(r)

\* Everything else that ends an acquisition: paused, model disabled, an opening
\* in doubt, the opener's error, policy or identity changed, cancellation.
Refused(r) == req[r].at \in Queued /\ Leave(r)

-----------------------------------------------------------------------------
(* The rest of the gateway. *)

\* tick() opens for a maintained model without an idle hot row.
TickOpen ==
    /\ opening = None
    /\ failure = None
    /\ Hot \subseteq active
    /\ \E t \in Tasks : StartOpen(t)
    /\ UNCHANGED <<req, queue, pool, failure>>

\* Rows are drained, closed and taken out of quarantine.
PoolStep(p) ==
    /\ \/ pool[p] = "open" /\ pool' = [pool EXCEPT ![p] = "gone"]
       \/ pool[p] = "quarantined" /\ pool' = [pool EXCEPT ![p] = "open"]
    /\ UNCHANGED <<req, queue, opener>>

\* retry_at passes, or put_policy saves a new revision.
FailureExpires ==
    /\ failure # None
    /\ failure' = None
    /\ UNCHANGED <<req, queue, pool, tasks, opening>>

Environment ==
    \/ TickOpen \/ FailureExpires
    \/ \E p \in Rows : PoolStep(p)
    \/ \E t \in Tasks : TaskEnds(t) \/ Callback(t)

AcquireStep(r) ==
    \/ Loop(r) \/ CheckDropped(r) \/ Join(r) \/ Sleep(r) \/ Opened(r)

AcquireEnd(r) == PoolBusy(r) \/ OpeningPending(r) \/ Refused(r)

-----------------------------------------------------------------------------

(* One opening per model at a time: a task that runs is the one waiters     *)
(* find in Sessions.opening, whatever callbacks and waiters of earlier      *)
(* tasks do late.                                                           *)
OneOpener == \A t \in Tasks : tasks[t].st = "running" => opening = t
=============================================================================
