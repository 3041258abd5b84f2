----------------------------- MODULE Supervisor -----------------------------
(***************************************************************************)
(* node_helper/app.py: the helper that owns the node process and its       *)
(* rating file, applies a new rating by restarting the node, and puts the  *)
(* previous one back when the node does not come up.                       *)
(*                                                                         *)
(* The three files and the operation records are written atomically and    *)
(* survive a crash of the helper, which takes the node with it (one        *)
(* container).  Each durable write is a step, so that the helper may die   *)
(* between any two.  A failing write is not modelled, and the record of a  *)
(* cancelled restart, "interrupted", is "failed": nobody tells them apart. *)
(***************************************************************************)
EXTENDS Naturals, Sequences

CONSTANTS
    Ratings,        \* contents of rating-config.json
    DefaultRating,  \* Policy().rating()
    RestartOps,     \* operation identifiers of POST /restart
    None,           \* Python's None
    MaxCrashes      \* bound on crashes of the helper and of the gateway

ASSUME SupervisorAssumption ==
    /\ DefaultRating \in Ratings
    /\ None \notin Ratings \cup RestartOps
    /\ MaxCrashes \in Nat

VARIABLES
    files,      \* rating_path, backup, and whether the journal "applying" exists
    record,     \* operation-<id>.json: its state
    queue,      \* restarts waiting for Supervisor.lock, in order
    job,        \* holder of Supervisor.lock (or the start-up): place, operation, rating
    node,       \* the child process and the rating it read when it started
    proven,     \* history: ratings with which the node has become ready
    crashes

helperVars == <<files, record, queue, job, node, proven, crashes>>

RecordStates == {"absent", "running", "succeeded", "failed"}

JobPlaces == { "free", "boot", "boot_unlink", "boot_start",
               "backup", "mark", "write", "stop", "start", "ready",
               "commit", "record",
               "restore", "restore_stop", "restore_start", "restore_ready",
               "monitor_start" }

Waiting == [op : RestartOps, rating : Ratings \cup {None}]

HelperTypeOK ==
    /\ files \in [rating : Ratings, backup : Ratings \cup {None}, applying : BOOLEAN]
    /\ record \in [RestartOps -> RecordStates]
    /\ queue \in Seq(Waiting)
    /\ job \in [at : JobPlaces, op : RestartOps \cup {None}, rating : Ratings \cup {None}]
    /\ node \in [alive : BOOLEAN, cfg : Ratings]
    /\ proven \subseteq Ratings
    /\ crashes \in 0..MaxCrashes

NoJob == [at |-> "free", op |-> None, rating |-> None]

\* lifespan: a first start writes the default rating.
HelperInit ==
    /\ files = [rating |-> DefaultRating, backup |-> None, applying |-> FALSE]
    /\ record = [x \in RestartOps |-> "absent"]
    /\ queue = <<>>
    /\ job = NoJob
    /\ node = [alive |-> TRUE, cfg |-> DefaultRating]
    /\ proven = {DefaultRating}
    /\ crashes = 0

-----------------------------------------------------------------------------
(* Supervisor.restart(rating), under Supervisor.lock. *)

\* The step from place "here" to place "there"
Move(here, there) == job.at = here /\ job' = [job EXCEPT !.at = there]

\* POST /restart with a new operation ID: the intent is durable before anything
\* else.
Accept(op, rating) ==
    /\ record[op] = "absent"
    /\ record' = [record EXCEPT ![op] = "running"]
    /\ queue' = Append(queue, [op |-> op, rating |-> rating])

Serving == job.at \notin {"boot", "boot_unlink", "boot_start"}

\* Mutant: the restart that came last is served first.
AcquireLast ==
    /\ job.at = "free"
    /\ queue # <<>>
    /\ LET next == queue[Len(queue)]
       IN  job' = [at     |-> IF next.rating = None THEN "stop" ELSE "backup",
                   op     |-> next.op,
                   rating |-> next.rating]
    /\ queue' = SubSeq(queue, 1, Len(queue) - 1)
    /\ UNCHANGED <<files, record, node, proven, crashes>>

\* asyncio.Lock wakes its waiters in order.
Acquire ==
    /\ job.at = "free"
    /\ queue # <<>>
    /\ LET next == Head(queue)
       IN  job' = [at     |-> IF next.rating = None THEN "stop" ELSE "backup",
                   op     |-> next.op,
                   rating |-> next.rating]
    /\ queue' = Tail(queue)
    /\ UNCHANGED <<files, record, node, proven, crashes>>

Backup ==
    /\ Move("backup", "mark")
    /\ files' = [files EXCEPT !.backup = files.rating]
    /\ UNCHANGED <<record, queue, node, proven, crashes>>

Mark ==
    /\ Move("mark", "write")
    /\ files' = [files EXCEPT !.applying = TRUE]
    /\ UNCHANGED <<record, queue, node, proven, crashes>>

Write ==
    /\ Move("write", "stop")
    /\ files' = [files EXCEPT !.rating = job.rating]
    /\ UNCHANGED <<record, queue, node, proven, crashes>>

\* stop(): SIGTERM, then SIGKILL.
Stop ==
    /\ Move("stop", "start") \/ Move("restore_stop", "restore_start")
    /\ node' = [node EXCEPT !.alive = FALSE]
    /\ UNCHANGED <<files, record, queue, proven, crashes>>

\* Mutant: the journal is gone once the process runs, ready or not.
StartCommits ==
    /\ Move("start", "ready") \/ Move("restore_start", "restore_ready")
    /\ node' = [alive |-> TRUE, cfg |-> files.rating]
    /\ files' = [files EXCEPT !.applying = FALSE]
    /\ UNCHANGED <<record, queue, proven, crashes>>

\* start(): the new process reads the rating file.
Start ==
    /\ Move("start", "ready") \/ Move("restore_start", "restore_ready")
    /\ node' = [alive |-> TRUE, cfg |-> files.rating]
    /\ UNCHANGED <<files, record, queue, proven, crashes>>

\* ready(): /config and /blockchain/balance answer.
Ready ==
    /\ node.alive
    /\ Move("ready", "commit")
    /\ proven' = proven \cup {node.cfg}
    /\ UNCHANGED <<files, record, queue, node, crashes>>

Commit ==
    /\ Move("commit", "record")
    /\ files' = [files EXCEPT !.applying = FALSE]
    /\ UNCHANGED <<record, queue, node, proven, crashes>>

\* The lock is released and the endpoint writes the result, if there is one.
Finish(state) ==
    /\ job' = NoJob
    /\ record' = IF job.op = None THEN record ELSE [record EXCEPT ![job.op] = state]

Succeed ==
    /\ job.at = "record"
    /\ Finish("succeeded")
    /\ UNCHANGED <<files, queue, node, proven, crashes>>

\* The node could not be stopped or started, exited, or was not ready in time.
Fail ==
    /\ job.at \in {"stop", "start", "ready"}
    /\ IF files.applying
       THEN job' = [job EXCEPT !.at = "restore"] /\ UNCHANGED record
       ELSE Finish("failed")
    /\ UNCHANGED <<files, queue, node, proven, crashes>>

Restore ==
    /\ Move("restore", "restore_stop")
    /\ files' = [files EXCEPT !.rating = files.backup]
    /\ UNCHANGED <<record, queue, node, proven, crashes>>

\* The previous rating runs again, or it does not and the journal is kept.
Restored ==
    /\ job.at = "restore_ready"
    /\ \/ /\ node.alive
          /\ files' = [files EXCEPT !.applying = FALSE]
          /\ proven' = proven \cup {node.cfg}
       \/ UNCHANGED <<files, proven>>
    /\ Finish("failed")
    /\ UNCHANGED <<queue, node, crashes>>

\* stop() or start() raised in the roll-back.
RestoreFailed ==
    /\ job.at \in {"restore_stop", "restore_start"}
    /\ Finish("failed")
    /\ UNCHANGED <<files, queue, node, proven, crashes>>

-----------------------------------------------------------------------------
(* monitor(), the process, and the helper's own end and start. *)

\* Mutant: the monitor leaves a node alone while the journal says "applying".
MonitorBeginUnlessApplying ==
    /\ job.at = "free"
    /\ queue = <<>>
    /\ ~node.alive
    /\ ~files.applying
    /\ job' = [NoJob EXCEPT !.at = "monitor_start"]
    /\ UNCHANGED <<files, record, queue, node, proven, crashes>>

\* The process has exited and nobody holds the lock: start it again.
MonitorBegin ==
    /\ job.at = "free"
    /\ queue = <<>>
    /\ ~node.alive
    /\ job' = [NoJob EXCEPT !.at = "monitor_start"]
    /\ UNCHANGED <<files, record, queue, node, proven, crashes>>

MonitorStart ==
    /\ Move("monitor_start", "free")
    /\ node' = [alive |-> TRUE, cfg |-> files.rating]
    /\ UNCHANGED <<files, record, queue, proven, crashes>>

\* start() raised; the next round tries again.
MonitorStartFailed ==
    /\ Move("monitor_start", "free")
    /\ UNCHANGED <<files, record, queue, node, proven, crashes>>

\* Three failed probes of a running node: restart(None).
MonitorRestart ==
    /\ job.at = "free"
    /\ queue = <<>>
    /\ node.alive
    /\ job' = [NoJob EXCEPT !.at = "stop"]
    /\ UNCHANGED <<files, record, queue, node, proven, crashes>>

NodeExit ==
    /\ node.alive
    /\ node' = [node EXCEPT !.alive = FALSE]
    /\ UNCHANGED <<files, record, queue, job, proven, crashes>>

HelperCrash ==
    /\ crashes < MaxCrashes
    /\ crashes' = crashes + 1
    /\ job' = [NoJob EXCEPT !.at = "boot"]
    /\ queue' = <<>>
    /\ node' = [node EXCEPT !.alive = FALSE]
    /\ UNCHANGED <<files, record, proven>>

\* lifespan: a change that was being applied is undone before the node starts.
Boot ==
    /\ job.at = "boot"
    /\ IF files.applying
       THEN /\ files' = [files EXCEPT !.rating = files.backup]
            /\ job' = [job EXCEPT !.at = "boot_unlink"]
       ELSE /\ UNCHANGED files
            /\ job' = [job EXCEPT !.at = "boot_start"]
    /\ UNCHANGED <<record, queue, node, proven, crashes>>

BootUnlink ==
    /\ Move("boot_unlink", "boot_start")
    /\ files' = [files EXCEPT !.applying = FALSE]
    /\ UNCHANGED <<record, queue, node, proven, crashes>>

BootStart ==
    /\ Move("boot_start", "free")
    /\ node' = [alive |-> TRUE, cfg |-> files.rating]
    /\ UNCHANGED <<files, record, queue, proven, crashes>>

-----------------------------------------------------------------------------

\* What the helper does by itself once a restart was accepted
JobStep ==
    \/ Acquire \/ Backup \/ Mark \/ Write \/ Stop \/ Start \/ Ready \/ Commit
    \/ Succeed \/ Fail \/ Restore \/ Restored \/ RestoreFailed
    \/ MonitorStart \/ MonitorStartFailed \/ Boot \/ BootUnlink \/ BootStart

HelperStep == JobStep \/ MonitorBegin \/ MonitorRestart \/ NodeExit \/ HelperCrash

(* "Keep a last-known-good copy and an apply journal" (docs/DESIGN.md): at  *)
(* every moment, the rating that a helper starting now would give the node  *)
(* is one with which the node has been ready before.                        *)
LastGoodKept ==
    (IF files.applying THEN files.backup ELSE files.rating) \in proven
=============================================================================
