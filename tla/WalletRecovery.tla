--------------------------- MODULE WalletRecovery ---------------------------
(***************************************************************************)
(* sweep_wallet() and bind() of gateway/sessions.py, composed with every   *)
(* step of SessionLifecycle.  The sweep compares the wallet's on-chain     *)
(* sessions with the rows: a session without a row may get one of its own  *)
(* ("wallet-" + sid) and be closed; a session that matches an uncertain    *)
(* opening is bound to that row.  An operator may bind by hand.            *)
(*                                                                         *)
(* None of this takes Sessions.lock, and bind() writes the row it read     *)
(* before its awaits without looking at the stored one.                    *)
(*                                                                         *)
(* Bid, model, provider and opening time, which sweep_wallet and           *)
(* _validate_truth compare, identify the opening: session o matches row o  *)
(* and no other.                                                           *)
(***************************************************************************)
EXTENDS SessionLifecycle

CONSTANT
    Cleanup     \* policy.recovery.cleanup_untracked_*: "off", "expired" or "live"

ASSUME CleanupAssumption == Cleanup \in {"off", "expired", "live"}

VARIABLE binding    \* the bind() coroutine: its place, its caller and the copies

wvars == <<vars, binding>>

BindingRecord ==
    [ at  : {"idle", "identity", "truth"},
      by  : {"operator", "sweep"},
      id  : OpenOps \cup {None},
      old : Row,     \* the copy of sweep_wallet's loop, which mark_error puts
      row : Row ]    \* the copy of bind, read after verify_identity

NotBinding == [ at |-> "idle", by |-> "operator", id |-> None,
                old |-> NoRow, row |-> NoRow ]

WalletTypeOK == TypeOK /\ binding \in BindingRecord

WalletInit == Init /\ binding = NotBinding

\* A stored row still looked at already has the session as its chain_id
Known(o, rowIds) == \E r \in rowIds \cap Tracked : rows[r].sid = o

-----------------------------------------------------------------------------

\* Mutant of SweepDiscover: the session ID is stored with the row's prefix.
SweepDiscoverPrefixed(o) ==
    /\ Cleanup # "off"
    /\ ops[o].tx = "mined"
    /\ ~Known(o, RowIds)
    /\ rows[o].st \notin {"open_unknown", "opening"}
    /\ Put(WalletRow(o), [NoRow EXCEPT !.st = "orphaned", !.sid = WalletRow(o)])
    /\ UNCHANGED <<ops, wd, lock, lease, closing, recon, crashes, binding>>

\* Mutant of SweepDiscover: failed and closed rows count as managing a session.
SweepDiscoverNewOnly(o) ==
    /\ Cleanup # "off"
    /\ ops[o].tx = "mined"
    /\ \A r \in RowIds : rows[r].sid # o
    /\ rows[o].st \notin {"open_unknown", "opening"}
    /\ Put(WalletRow(o), [NoRow EXCEPT !.st = "orphaned", !.sid = o])
    /\ UNCHANGED <<ops, wd, lock, lease, closing, recon, crashes, binding>>

\* A page of the wallet holds a session no row knows: it gets a row of its own.
\* The page was read before the rows were, so its ClosedAt may be late.  Only a
\* session that has not run out can be the one an "opening" row waits for.
SweepDiscover(o) ==
    /\ Cleanup # "off"
    /\ ops[o].tx = "mined"
    /\ ~Known(o, RowIds)
    /\ rows[o].st # "open_unknown"
    /\ Cleanup = "expired" => rows[o].st # "opening"
    /\ ~(binding.at # "idle" /\ binding.by = "sweep")
    /\ Put(WalletRow(o), [NoRow EXCEPT !.st = "orphaned", !.sid = o])
    /\ UNCHANGED <<ops, wd, lock, lease, closing, recon, crashes, binding>>

\* The sweep has found the one candidate of an uncertain row and calls bind,
\* or an operator does with an ID of his own.
BindBegin(o, by) ==
    /\ binding.at = "idle"
    /\ ops[o].tx = "mined"
    /\ by = "sweep" => rows[o].st = "open_unknown" /\ rows[o].sid = None
    /\ binding' = [NotBinding EXCEPT !.at = "identity", !.by = by, !.id = o,
                                     !.old = IF by = "sweep" THEN rows[o] ELSE @]
    /\ UNCHANGED vars

\* verify_identity returned, the row is uncertain and the session not managed.
BindRead ==
    /\ binding.at = "identity"
    /\ rows[binding.id].st = "open_unknown"
    /\ ~Known(binding.id, RowIds \ {binding.id})
    /\ binding' = [binding EXCEPT !.at = "truth",
                                  !.row = [rows[binding.id] EXCEPT !.sid = binding.id]]
    /\ UNCHANGED vars

\* Mutant of BindApply: ClosedAt is not looked at.
BindApplyAsClosed ==
    /\ binding.at = "truth"
    /\ Put(binding.id, [binding.row EXCEPT !.st = "closed"])
    /\ binding' = NotBinding
    /\ UNCHANGED <<ops, wd, lock, lease, closing, recon, crashes>>

\* Truth agrees: the copy is put as open, or as closed by record_closed.
BindApply ==
    /\ binding.at = "truth"
    /\ \E st \in {"open", "closed"} :
         /\ st = "closed" => ClosedOnChain(binding.id)
         /\ Put(binding.id, [binding.row EXCEPT !.st = st])
    /\ binding' = NotBinding
    /\ UNCHANGED <<ops, wd, lock, lease, closing, recon, crashes>>

\* Mutant of BindFailed: an unsuccessful bind gives the opening up.
BindFailedGivesUp ==
    /\ binding.at # "idle"
    /\ Put(binding.id, [rows[binding.id] EXCEPT !.st = "failed"])
    /\ binding' = NotBinding
    /\ UNCHANGED <<ops, wd, lock, lease, closing, recon, crashes>>

\* A read failed, or the row is no longer uncertain.  An operator gets the
\* error; the sweep's mark_error puts the copy it had before calling bind.
BindFailed ==
    /\ binding.at # "idle"
    /\ IF binding.by = "sweep" THEN Put(binding.id, binding.old) ELSE UNCHANGED rows
    /\ binding' = NotBinding
    /\ UNCHANGED <<ops, wd, lock, lease, closing, recon, crashes>>

-----------------------------------------------------------------------------

WalletStep ==
    \/ BindRead \/ BindApply \/ BindFailed
    \/ \E o \in OpenOps :
          SweepDiscover(o) \/ \E by \in {"operator", "sweep"} : BindBegin(o, by)

SessionStep ==
    \/ NativeStep \/ OpenStep \/ CloseStep \/ WithdrawStep \/ LeaseStep \/ ReconStep

WalletNext ==
    \/ SessionStep /\ UNCHANGED binding
    \/ GatewayCrash /\ binding' = NotBinding
    \/ WalletStep

WalletSpec == WalletInit /\ [][WalletNext]_wvars

\* tick() starts a sweep every recovery_interval for ever, and every session
\* runs out; a node read again and again answers at last.
WalletFairness ==
    /\ \A o \in OpenOps :
         /\ SF_wvars(SweepDiscover(o))
         /\ SF_wvars(BindBegin(o, "sweep"))
    /\ SF_wvars(BindRead)
    /\ SF_wvars(BindApply)
    /\ WF_wvars(BindFailed)

WalletFairSpec == WalletSpec /\ WalletFairness /\ ReconFairness /\ WF_vars(OpenLost)

-----------------------------------------------------------------------------
(* Correctness. *)

(* "Every funded session has a known ... closing outcome"                   *)
(* (docs/PRODUCTION-TEST-MATRIX.md), in the long run and whatever is lost:  *)
(* a session that holds escrow comes to have a row with its chain_id, which *)
(* can be closed, even when _open wrote the opening off as failed or the    *)
(* node died before it could journal the session ID.                        *)
FundedRecovered ==
    \A o \in OpenOps : LiveOnChain(o) ~> Known(o, RowIds) \/ ~LiveOnChain(o)

(* "Background reconciliation reads the node until its state is known"      *)
(* (docs/OPERATIONS.md): a mined opening does not stay uncertain, whether   *)
(* reconcile() learns of it from the native journal or the sweep binds it.  *)
UncertainOpenResolved ==
    \A o \in OpenOps :
       rows[o].st = "open_unknown" /\ ops[o].tx = "mined" ~> rows[o].st # "open_unknown"

(* "It recognizes already managed sessions" (the wallet scan,               *)
(* docs/RECOVERY-AND-AUDIT-FIXES.md): no session has two rows, each of      *)
(* which would be leased and closed on its own.                             *)
SessionOwnedOnce ==
    \A r, q \in Tracked : r # q /\ rows[r].sid # None => rows[r].sid # rows[q].sid
=============================================================================
