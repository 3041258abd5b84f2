----------------------------- MODULE NodeRestart -----------------------------
(***************************************************************************)
(* restart() and _restart() of gateway/sessions.py against the helper of   *)
(* Supervisor: admission is closed, requests and the wallet operation in   *)
(* flight drain, the helper restarts the node, the gateway verifies it and *)
(* opens admission again; recover() settles what a crash interrupted.      *)
(*                                                                         *)
(* One request stands for Sessions.active and one lifecycle operation for  *)
(* the other holders of Sessions.lock.  The gateway's store may refuse any *)
(* write of a restart; recover() is modelled with a store that works.      *)
(***************************************************************************)
EXTENDS Supervisor

VARIABLES
    gop,            \* store kind "operation": state and rating, per operation
    restart,        \* the _restart coroutine: place, operation, immediate;
                    \* "stuck": it is over, but Sessions.maintenance is still set
    applied,        \* settings "applied_rating"
    request,        \* a request's reservation in Sessions.active
    wallet          \* Sessions.lock is held by _open, _close or treasury

gatewayVars == <<gop, restart, applied, request, wallet>>
restartVars == <<helperVars, gatewayVars>>

OpStates == {"absent", "queued", "draining", "restarting", "interrupted",
             "succeeded", "failed"}

RestartPlaces == {"idle", "queued", "drain", "lock", "post", "verify", "settle", "stuck"}

RestartTypeOK ==
    /\ HelperTypeOK
    /\ gop \in [RestartOps -> [st : OpStates, rating : Ratings \cup {None}]]
    /\ restart \in [at : RestartPlaces, op : RestartOps \cup {None}, immediate : BOOLEAN]
    /\ applied \in Ratings \cup {None}
    /\ request \in {"none", "checking", "leased"}
    /\ wallet \in BOOLEAN

NotRestarting == [at |-> "idle", op |-> None, immediate |-> FALSE]

\* Sessions.maintenance: restart() sets it, and only the end of _restart resets it.
Maintenance == restart.at # "idle"

RestartInit ==
    /\ HelperInit
    /\ gop = [x \in RestartOps |-> [st |-> "absent", rating |-> None]]
    /\ restart = NotRestarting
    /\ applied = None
    /\ request = "none"
    /\ wallet = FALSE

-----------------------------------------------------------------------------

SetOp(st) == gop' = [gop EXCEPT ![restart.op].st = st]

\* The store refuses a write outside the try of _restart, or in its finally clause.
Stuck == restart' = [NotRestarting EXCEPT !.at = "stuck"] /\ UNCHANGED gop

\* The finally clauses: the operation is stored, and only then maintenance ends.
End(st) ==
    \/ SetOp(st) /\ restart' = NotRestarting
    \/ Stuck

\* restart(): maintenance begins before the operation is stored.
RestartRequest(op, immediate) ==
    /\ ~Maintenance
    /\ gop[op].st = "absent"
    /\ \/ /\ gop' = [gop EXCEPT ![op].st = "queued"]
          /\ restart' = [at |-> "queued", op |-> op, immediate |-> immediate]
       \/ Stuck
    /\ UNCHANGED <<helperVars, applied, request, wallet>>

\* Mutant: the helper's word for the state is stored.
RestartDrainRunning(rating) ==
    /\ restart.at = "queued"
    /\ gop' = [gop EXCEPT ![restart.op] = [st |-> "running", rating |-> rating]]
    /\ restart' = [restart EXCEPT !.at = "drain"]
    /\ UNCHANGED <<helperVars, applied, request, wallet>>

\* The task starts and reads the policy; None when no rating is to be applied.
RestartDrain(rating) ==
    /\ restart.at = "queued"
    /\ gop' = [gop EXCEPT ![restart.op] = [st |-> "draining", rating |-> rating]]
    /\ restart' = [restart EXCEPT !.at = "drain"]
    /\ UNCHANGED <<helperVars, applied, request, wallet>>

\* The policy cannot be read, or "draining" not be stored.
RestartRefused ==
    /\ restart.at = "queued"
    /\ Stuck \/ End("failed")
    /\ UNCHANGED <<helperVars, applied, request, wallet>>

Drained ==
    /\ restart.at = "drain"
    /\ request = "none" \/ restart.immediate
    /\ restart' = [restart EXCEPT !.at = "lock"]
    /\ UNCHANGED <<helperVars, gop, applied, request, wallet>>

\* Mutant: the failure is stored and maintenance forgotten.
DrainTimeoutKeepsMaintenance ==
    /\ restart.at \in {"drain", "lock"}
    /\ SetOp("failed")
    /\ UNCHANGED <<helperVars, restart, applied, request, wallet>>

\* drain_timeout, or "restarting" cannot be stored.
DrainTimeout ==
    /\ restart.at \in {"drain", "lock"}
    /\ End("failed")
    /\ UNCHANGED <<helperVars, applied, request, wallet>>

\* Sessions.lock is acquired and the helper is asked; it may not be reached.
RestartPost ==
    /\ restart.at = "lock"
    /\ ~wallet
    /\ SetOp("restarting")
    /\ restart' = [restart EXCEPT !.at = "post"]
    /\ \/ /\ Serving
          /\ Accept(restart.op, gop[restart.op].rating)
          /\ UNCHANGED <<files, job, node, proven, crashes>>
       \/ UNCHANGED helperVars
    /\ UNCHANGED <<applied, request, wallet>>

RestartAnswered ==
    /\ restart.at = "post"
    /\ record[restart.op] = "succeeded"
    /\ restart' = [restart EXCEPT !.at = "verify"]
    /\ UNCHANGED <<helperVars, gop, applied, request, wallet>>

\* The helper answered with an error, not at all, or too late.
RestartLost ==
    /\ restart.at = "post"
    /\ End("failed")
    /\ UNCHANGED <<helperVars, applied, request, wallet>>

\* Identity, balances and reconcile() are fine: applied_rating is stored, a commit
\* of its own.
RestartVerified ==
    /\ restart.at = "verify"
    /\ applied' = IF gop[restart.op].rating = None THEN applied ELSE gop[restart.op].rating
    /\ restart' = [restart EXCEPT !.at = "settle"]
    /\ UNCHANGED <<helperVars, gop, request, wallet>>

\* No await comes in between, but the gateway may die.
RestartSettled ==
    /\ restart.at = "settle"
    /\ End("succeeded")
    /\ UNCHANGED <<helperVars, applied, request, wallet>>

\* A check fails, or applied_rating cannot be stored.
RestartUnverified ==
    /\ restart.at = "verify"
    /\ End("failed")
    /\ UNCHANGED <<helperVars, applied, request, wallet>>

-----------------------------------------------------------------------------
(* What drains: requests and lifecycle operations. *)

\* Mutant: acquire does not look at maintenance.
RequestBeginUnchecked ==
    /\ request = "none"
    /\ request' = "checking"
    /\ UNCHANGED <<helperVars, gop, restart, applied, wallet>>

RequestBegin ==
    /\ request = "none"
    /\ ~Maintenance
    /\ request' = "checking"
    /\ UNCHANGED <<helperVars, gop, restart, applied, wallet>>

\* acquire looks at maintenance again after its awaits.
RequestDispatch ==
    /\ request = "checking"
    /\ ~Maintenance
    /\ request' = "leased"
    /\ UNCHANGED <<helperVars, gop, restart, applied, wallet>>

RequestEnd ==
    /\ request # "none"
    /\ request' = "none"
    /\ UNCHANGED <<helperVars, gop, restart, applied, wallet>>

\* _open, close and treasury look at maintenance once they have the lock.
WalletBegin ==
    /\ ~wallet
    /\ ~Maintenance
    /\ wallet' = TRUE
    /\ UNCHANGED <<helperVars, gop, restart, applied, request>>

WalletEnd ==
    /\ wallet
    /\ wallet' = FALSE
    /\ UNCHANGED <<helperVars, gop, restart, applied, request>>

Interrupted(o) == gop[o].st \in {"queued", "draining", "restarting", "interrupted"}

\* Mutant: that the helper knows the operation is enough.
ReportedDoneIfKnown == {o \in RestartOps : Interrupted(o) /\ record[o] # "absent"}

ReportedDone == {o \in RestartOps : Interrupted(o) /\ record[o] = "succeeded"}

\* The gateway dies; recover() asks the helper about every restart in flight.

GatewayRestart ==
    /\ crashes < MaxCrashes
    /\ crashes' = crashes + 1
    /\ restart' = NotRestarting
    /\ request' = "none"
    /\ wallet' = FALSE
    /\ \E asked \in SUBSET ReportedDone :
          gop' = [o \in RestartOps |->
                    IF o \in asked THEN [gop[o] EXCEPT !.st = "succeeded"]
                    ELSE IF Interrupted(o) THEN [gop[o] EXCEPT !.st = "interrupted"]
                    ELSE gop[o]]
    /\ UNCHANGED <<files, record, queue, job, node, proven, applied>>

-----------------------------------------------------------------------------

GatewayStep ==
    \/ Drained \/ DrainTimeout \/ RestartPost \/ RestartAnswered \/ RestartLost
    \/ RestartRefused \/ RestartVerified \/ RestartSettled \/ RestartUnverified
    \/ RequestBegin \/ RequestDispatch \/ RequestEnd \/ WalletBegin \/ WalletEnd
    \/ GatewayRestart
    \/ \E op \in RestartOps, immediate \in BOOLEAN : RestartRequest(op, immediate)
    \/ \E rating \in Ratings \cup {None} : RestartDrain(rating)

RestartNext ==
    \/ HelperStep /\ UNCHANGED gatewayVars
    \/ GatewayStep

RestartSpec == RestartInit /\ [][RestartNext]_restartVars

\* The task runs, every await of it has a timeout; the helper goes on with what
\* it began, and its monitor probes every five seconds for ever; a process that
\* is started again and again starts at last.
RestartFairness ==
    /\ WF_restartVars(\E rating \in Ratings \cup {None} : RestartDrain(rating))
    /\ WF_restartVars(DrainTimeout)
    /\ WF_restartVars(RestartLost)
    /\ WF_restartVars(RestartVerified \/ RestartUnverified)
    /\ WF_restartVars(RestartSettled)
    /\ WF_restartVars(JobStep /\ UNCHANGED gatewayVars)
    /\ WF_restartVars(MonitorBegin /\ UNCHANGED gatewayVars)
    /\ SF_restartVars(MonitorStart /\ UNCHANGED gatewayVars)

RestartFairSpec == RestartSpec /\ RestartFairness

-----------------------------------------------------------------------------
(* Correctness. *)

(* "Mark the revision applied only after verification" (docs/DESIGN.md):    *)
(* when the gateway records a rating as applied, it is the one in the       *)
(* node's file and the node has been ready with it, although an earlier     *)
(* restart the gateway gave up on may still have been at work in the        *)
(* helper.                                                                  *)
AppliedIsEffective ==
    [][ applied' # applied => files.rating = applied' /\ applied' \in proven ]_restartVars

\* The rating a helper that starts now gives the node
BootRating == IF files.applying THEN files.backup ELSE files.rating

Config == INSTANCE SafeConfig WITH boot <- BootRating

(* Applying a rating is atomic, whatever fails on the way and wherever the  *)
(* helper or the gateway dies: NodeRestart implements SafeConfig.           *)
AppliesAtomically == Config!Spec

(* "A restart closes admission, drains active work ..., including waiting   *)
(* for the current lifecycle operation" (docs/OPERATIONS.md): from the      *)
(* moment the helper is asked until the node is verified, no request is in  *)
(* flight, unless the restart was to be immediate, and no wallet operation. *)
DrainedBeforeRestart ==
    restart.at \in {"post", "verify", "settle"}
      => ~wallet /\ (request = "none" \/ restart.immediate)

(* "A failed operation never shows as successfully applied"                 *)
(* (docs/OPERATIONS.md): an operation that shows as succeeded, also one     *)
(* that recover() settled, was carried out by the helper and the node has   *)
(* been ready with its rating.  The rating shown as applied is that of an   *)
(* operation the helper carried out and the gateway does not show as        *)
(* failed, wherever the gateway died and whatever its store refused;        *)
(* recover() may leave that operation "interrupted".                        *)
SuccessWasReal ==
    /\ \A o \in RestartOps :
          gop[o].st = "succeeded"
            => record[o] = "succeeded" /\ gop[o].rating \in proven \cup {None}
    /\ applied # None
         => \E o \in RestartOps :
               /\ gop[o].rating = applied
               /\ record[o] = "succeeded"
               /\ gop[o].st \in {"restarting", "interrupted", "succeeded"}

(* The gateway may record as failed an operation that was carried out after *)
(* all, and the helper may die before it records one.  But the rating in    *)
(* effect is always one that an operation asked for which the helper does   *)
(* not report as failed, or the one the node came with.                     *)
EffectiveWasOrdered ==
    \/ BootRating = DefaultRating
    \/ \E o \in RestartOps :
          gop[o].rating = BootRating /\ record[o] \in {"running", "succeeded"}

(* Admission resumes after every restart, however the drain, the helper and *)
(* the checks went, with one exception: the gateway's store refused one of  *)
(* the three writes and reads that no except clause of _restart covers.     *)
(* Then nothing resets Sessions.maintenance but a new start of the gateway. *)
MaintenanceEnds == Maintenance ~> (~Maintenance \/ restart.at = "stuck")

(* "If the node exits unexpectedly, the helper attempts to restart it"      *)
(* (docs/OPERATIONS.md): the node comes back, also after a failed restart   *)
(* and a failed roll-back.                                                  *)
NodeComesBack == ~node.alive ~> node.alive
=============================================================================
