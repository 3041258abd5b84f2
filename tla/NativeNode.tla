----------------------------- MODULE NativeNode -----------------------------
(***************************************************************************)
(* The consumer node as the gateway sees it: one journalled operation per  *)
(* X-Gateway-Operation identifier (deploy/native/gateway_progress.go and   *)
(* the call sites deploy/patch_node.py injects), and the transaction that  *)
(* operation may put on chain.  A step of this module is a step of the     *)
(* node or of the chain; the gateway only appears as the POST that turns   *)
(* an operation "posted".                                                  *)
(*                                                                         *)
(* An operation identifier is never reused, so the identifier of an        *)
(* operation also names the hash of its transaction and, for an open, the  *)
(* on-chain session it creates.                                            *)
(***************************************************************************)
EXTENDS Naturals

CONSTANTS
    OpenOps,        \* identifiers of open operations (row ids of _open)
    CloseOps,       \* identifiers of close operations (close_operation_id)
    WithdrawOps,    \* identifiers of withdraw operations
    None,           \* Python's None
    Faults          \* which failures of the environment may happen

AllFaults ==
    { "revert",        \* a transaction may be mined with status 0
      "node_crash",    \* the node process may die in the middle of an operation
      "confirm_open",  \* the GET that follows an accepted open may fail
      "confirm_close", \* the GET that follows an accepted close may fail
      "receipt",       \* reading a transaction receipt may fail
      "gateway_crash"  \* the gateway process may die and restart
    }

ASSUME FaultsAssumption == Faults \subseteq AllFaults

ASSUME OpsAssumption ==
    /\ OpenOps \cap CloseOps = {}
    /\ OpenOps \cap WithdrawOps = {}
    /\ CloseOps \cap WithdrawOps = {}
    /\ None \notin OpenOps \cup CloseOps \cup WithdrawOps

VARIABLE ops    \* per operation: its journal record, its HTTP status, its transaction

Ops == OpenOps \cup CloseOps \cup WithdrawOps

Phases == {"new", "posted", "running", "ended", "dead"}
Stages == {"not_submitted", "submitting"}
Statuses == {0, 200, 500}
TxStates == {"none", "pending", "mined", "reverted"}

OpRecord ==
    [ phase  : Phases,
      stage  : Stages,
      hash   : Ops \cup {None},          \* the mutation's hash, if journalled
      sid    : OpenOps \cup {None},      \* the session ID, if journalled
      status : Statuses,                 \* http_status
      tx     : TxStates,
      target : OpenOps \cup {None} ]     \* the session a close is about

NewOp == [ phase |-> "new", stage |-> "not_submitted", hash |-> None,
           sid |-> None, status |-> 0, tx |-> "none", target |-> None ]

InitOps == ops = [x \in Ops |-> NewOp]

-----------------------------------------------------------------------------
(* What the journal and the chain say. *)

\* progress.completed /\ progress.stage = "not_submitted"
NeverSubmitted(x) == ops[x].phase = "ended" /\ ops[x].stage = "not_submitted"

\* ClosedAt of the session opened by o is set
ClosedOnChain(o) ==
    \E c \in CloseOps : ops[c].target = o /\ ops[c].tx = "mined"

\* MOR is escrowed in the session opened by o
LiveOnChain(o) == ops[o].tx = "mined" /\ ~ClosedOnChain(o)

\* Another operation is between GatewayAttempt and the return that releases
\* gatewayWallet
WalletBusy(x) ==
    \E y \in Ops \ {x} : ops[y].phase = "running" /\ ops[y].stage = "submitting"

-----------------------------------------------------------------------------
(* The POST of the gateway, and the handler it starts. *)

Post(x, target) == [ops EXCEPT ![x].phase = "posted", ![x].target = target]

\* BeginGatewayOperation: O_EXCL creation of the journal file.  The request may
\* be served after its HTTP client gave up.
NodeBegin(x) ==
    /\ ops[x].phase = "posted"
    /\ ops' = [ops EXCEPT ![x].phase = "running"]

\* GatewayAttempt, under GatewayWalletLock: intent is on disk before the builder
\* runs.
NodeAttempt(x) ==
    /\ ops[x].phase = "running"
    /\ ops[x].stage = "not_submitted"
    /\ ~WalletBusy(x)
    /\ ops' = [ops EXCEPT ![x].stage = "submitting"]

\* GatewayBuildFailure: the builder of an open or a close failed and no hash of
\* that mutation is recorded.  patch_node.py injects no such call for withdraw.
NodeBuildFailure(x) ==
    /\ x \notin WithdrawOps
    /\ ops[x].phase = "running"
    /\ ops[x].stage = "submitting"
    /\ ops[x].tx = "none"
    /\ ops[x].hash = None
    /\ ops' = [ops EXCEPT ![x].stage = "not_submitted"]

\* GatewayRecord.  Open and close are built with NoSend and recorded before the
\* broadcast; withdraw is recorded after it.
NodeRecord(x) ==
    /\ ops[x].phase = "running"
    /\ ops[x].stage = "submitting"
    /\ ops[x].hash = None
    /\ (x \in WithdrawOps) <=> (ops[x].tx # "none")
    /\ ops' = [ops EXCEPT ![x].hash = x]

\* The broadcast.  GatewayRecord ignores a failed persist, so it does not depend
\* on hash.
NodeSend(x) ==
    /\ ops[x].phase = "running"
    /\ ops[x].stage = "submitting"
    /\ ops[x].tx = "none"
    /\ ops' = [ops EXCEPT ![x].tx = "pending"]

\* GatewaySession: the open is mined and its session ID parsed from the receipt.
NodeSession(o) ==
    /\ ops[o].phase = "running"
    /\ ops[o].tx = "mined"
    /\ ops[o].sid = None
    /\ ops' = [ops EXCEPT ![o].sid = o]

\* An HTTP 200 (or, for an open, an error that carries a session ID) needs the
\* transaction the endpoint promises.
MaySucceed(x) ==
    \/ x \in OpenOps /\ ops[x].sid # None
    \/ x \in CloseOps /\ ops[x].tx \in {"pending", "mined"}
    \/ x \in WithdrawOps /\ ops[x].tx = "mined"

\* progress.Finish(status)
NodeFinish(x) ==
    /\ ops[x].phase = "running"
    /\ \E status \in {200, 500} :
         /\ status = 200 => MaySucceed(x)
         /\ ops' = [ops EXCEPT ![x].phase = "ended", ![x].status = status]

\* The process dies; the journal stays as it was last written.
NodeCrash ==
    /\ "node_crash" \in Faults
    /\ \E x \in Ops : ops[x].phase = "running"
    /\ ops' = [x \in Ops |->
                 IF ops[x].phase = "running" THEN [ops[x] EXCEPT !.phase = "dead"]
                                             ELSE ops[x]]

\* A pending transaction is mined.  Closing twice, or closing what does not
\* exist, reverts.
MineOk(x) ==
    /\ ops[x].tx = "pending"
    /\ x \in CloseOps => /\ ops[x].target # None
                         /\ LiveOnChain(ops[x].target)
    /\ ops' = [ops EXCEPT ![x].tx = "mined"]

MineReverted(x) ==
    /\ ops[x].tx = "pending"
    /\ \/ "revert" \in Faults
       \/ x \in CloseOps /\ ops[x].target # None /\ ~LiveOnChain(ops[x].target)
    /\ ops' = [ops EXCEPT ![x].tx = "reverted"]

NodeStep(x) ==
    \/ NodeBegin(x) \/ NodeAttempt(x) \/ NodeBuildFailure(x) \/ NodeRecord(x)
    \/ NodeSend(x) \/ (x \in OpenOps /\ NodeSession(x)) \/ NodeFinish(x)
    \/ MineOk(x) \/ MineReverted(x)
=============================================================================
