------------------------- MODULE CompletionProofs -------------------------
(***************************************************************************)
(* The safety theorems of Completion, for any number of requests, rows,    *)
(* opening tasks, marks and crashes.  None of the properties is inductive: *)
(* the invariant also says what each place of a coroutine knows (Local),   *)
(* whose row a reservation is (Excl) and whose attempt a record (MarkInv). *)
(***************************************************************************)
EXTENDS Completion, FiniteSetTheorems, TLAPS

\* What the local variables of a request are at each place
Local(q) ==
    /\ q \in Request
    /\ q.at \in {"idle", "upload", "sent", "body", "ready", "stream"} \cup Queued => q.cl = "no"
    /\ q.at \in {"cleanup", "after"} => q.cl # "no"
    /\ q.at = "end" => q.cl \in {"done", "skipped"}
    /\ q.at \in {"check", "sent", "body", "ready", "stream"} => q.row \in Rows
    /\ q.at \in {"idle", "upload", "loop", "tail", "opening"} => q.row = None
    /\ q.at = "end" /\ q.cl = "done" => q.row = None
    /\ q.at = "opening" => q.task \in Tasks
    /\ q.up => /\ q.at \in {"body", "ready", "stream", "finish", "after", "cleanup", "end"}
               /\ q.cl # "done"
               /\ q.row \in Rows
    /\ q.at \in {"sent", "body", "ready", "stream"} \cup Queued => q.mark = q.header
    /\ q.mark \in {None, q.header}
    /\ q.at \in {"idle", "upload"} => q.mark = None

ReqInv == req \in [Requests -> Request] /\ \A r \in Requests : Local(req[r])

PoolInv ==
    /\ pool \in [Rows -> {"new", "open", "quarantined", "gone"}]
    /\ tasks \in [Tasks -> [st : {"new", "running", "done", "gone"},
                            result : Results \cup {"none"}]]
    /\ opening \in Tasks \cup {None}
    /\ failure \in {"wait", "raise", None}

\* No row is reserved by two requests.
Excl ==
    \A r, s \in Holders : r # s /\ req[r].row # None => req[r].row # req[s].row

\* The record of an attempt that has not ended is its own; so is that of an
\* attempt that reached the node.
MarkInv ==
    /\ idem \in [Marks -> [st : {"absent", "started", "completed", "interrupted"},
                           by : Requests \cup {None}, outcome : {"failed", "succeeded"}]]
    /\ sent \subseteq Requests
    /\ enabled \in BOOLEAN
    /\ crashes \in 0..MaxCrashes
    /\ \A r \in Requests :
         req[r].mark # None /\ req[r].cl # "done"
           => idem[req[r].mark].st = "started" /\ idem[req[r].mark].by = r
    /\ \A r \in sent :
         /\ req[r].at \notin {"idle", "upload"}
         /\ req[r].header # None
         /\ idem[req[r].header].by = r
         /\ idem[req[r].header].st # "absent"
         /\ idem[req[r].header].st = "completed"
              => req[r].cl = "done" /\ idem[req[r].header].outcome = req[r].outcome

CountInv == CountersExact /\ Excl

Inv == ReqInv /\ PoolInv /\ OneOpener /\ CountInv /\ MarkInv

-----------------------------------------------------------------------------
(* Counting. *)

\* A set of requests that changes by at most one of them
LEMMA CountMove ==
    ASSUME NEW A \in SUBSET Requests, NEW B \in SUBSET Requests, NEW r \in Requests,
           \A s \in Requests : s # r => (s \in A <=> s \in B)
    PROVE  /\ Cardinality(A) \in Nat /\ Cardinality(B) \in Nat
           /\ (r \in A <=> r \in B) => Cardinality(B) = Cardinality(A)
           /\ r \notin A /\ r \in B => Cardinality(B) = Cardinality(A) + 1
           /\ r \in A /\ r \notin B => Cardinality(B) = Cardinality(A) - 1
<1>1. IsFiniteSet(A) /\ IsFiniteSet(B)
  BY FS_Subset, AdmissionAssumption
<1>2. Cardinality(A) \in Nat /\ Cardinality(B) \in Nat
  BY <1>1, FS_CardinalityType
<1>3. CASE r \in A <=> r \in B
  <2>1. A = B
    BY <1>3
  <2> QED BY <1>2, <1>3, <2>1
<1>4. CASE r \notin A /\ r \in B
  <2>1. B = A \cup {r}
    BY <1>4
  <2>2. Cardinality(A \cup {r}) = Cardinality(A) + 1
    BY <1>1, <1>4, FS_AddElement
  <2> QED BY <1>2, <1>4, <2>1, <2>2
<1>5. CASE r \in A /\ r \notin B
  <2>1. B = A \ {r}
    BY <1>5
  <2>2. Cardinality(A \ {r}) = Cardinality(A) - 1
    BY <1>1, <1>5, FS_RemoveElement
  <2> QED BY <1>2, <1>5, <2>1, <2>2
<1> QED BY <1>3, <1>4, <1>5

InConnected(q) == q.at \in Queued \cup {"upload", "sent", "body", "ready", "cleanup"}
InQueue(q) == q.at \in Queued
Holds(q) == q.at \notin {"idle", "upload"} /\ q.cl # "done"

\* The row a request has reserved, as a set
RowOf(q) == IF Holds(q) THEN {q.row} \ {None} ELSE {}

\* How a counter follows when a predicate of one request goes from a to b
Counted(n, new, a, b) ==
    /\ (a <=> b) => new = n
    /\ ~a /\ b => new = n + 1
    /\ a /\ ~b => new = n - 1

\* One request goes from req[r] to q and takes or gives back what that says.
Moves(r, q) ==
    /\ req' = [req EXCEPT ![r] = q]
    /\ Local(q)
    /\ Counted(connections, connections', InConnected(req[r]), InConnected(q))
    /\ Counted(waiting, waiting', InQueue(req[r]), InQueue(q))
    /\ waiting' <= MaxWaiting
    /\ Counted(key_active, key_active', Holds(req[r]), Holds(q))
    /\ active' = (active \ RowOf(req[r])) \cup RowOf(q)
    /\ RowOf(q) \cap (active \ RowOf(req[r])) = {}

\* What is true of one request stays true of the others.
LEMMA MoveReq ==
    ASSUME ReqInv, NEW r \in Requests, NEW q, Local(q), req' = [req EXCEPT ![r] = q]
    PROVE  /\ ReqInv'
           /\ req'[r] = q
           /\ \A s \in Requests : s # r => req'[s] = req[s]
<1>1. q \in Request
  BY DEF Local
<1>2. req' \in [Requests -> Request] /\ req'[r] = q /\ \A s \in Requests : s # r => req'[s] = req[s]
  BY <1>1 DEF ReqInv
<1>3. \A s \in Requests : Local(req'[s])
  BY <1>2 DEF ReqInv
<1>4. (\A s \in Requests : Local(req[s]))'
  BY <1>3 DEF Local, Request
<1> QED BY <1>2, <1>4 DEF ReqInv

\* A move keeps the counters exact and the reservations apart.
LEMMA MoveCounts ==
    ASSUME ReqInv, CountInv, NEW r \in Requests, NEW q, Moves(r, q)
    PROVE  ReqInv' /\ CountInv'
<1>1. /\ ReqInv'
      /\ req'[r] = q
      /\ \A s \in Requests : s # r => req'[s] = req[s]
  BY MoveReq DEF Moves
<1>2. connections' = Cardinality(Connected')
  <2>1. \A s \in Requests : s # r => (s \in Connected <=> s \in Connected')
    BY <1>1 DEF Connected
  <2>2. (r \in Connected <=> InConnected(req[r])) /\ (r \in Connected' <=> InConnected(q))
    BY <1>1 DEF Connected, InConnected
  <2>3. Connected \in SUBSET Requests /\ Connected' \in SUBSET Requests
    BY DEF Connected
  <2>4. connections = Cardinality(Connected)
    BY DEF CountInv, CountersExact
  <2>5. Counted(connections, connections', InConnected(req[r]), InConnected(q))
    BY DEF Moves
  <2> HIDE DEF Connected, InConnected
  <2> QED BY <2>1, <2>2, <2>3, <2>4, <2>5, CountMove DEF Counted
<1>3. waiting' = Cardinality(Waiters') /\ waiting' <= MaxWaiting
  <2>1. \A s \in Requests : s # r => (s \in Waiters <=> s \in Waiters')
    BY <1>1 DEF Waiters
  <2>2. (r \in Waiters <=> InQueue(req[r])) /\ (r \in Waiters' <=> InQueue(q))
    BY <1>1 DEF Waiters, InQueue
  <2>3. Waiters \in SUBSET Requests /\ Waiters' \in SUBSET Requests
    BY DEF Waiters
  <2>4. waiting = Cardinality(Waiters)
    BY DEF CountInv, CountersExact
  <2>5. Counted(waiting, waiting', InQueue(req[r]), InQueue(q)) /\ waiting' <= MaxWaiting
    BY DEF Moves
  <2> QED BY <2>1, <2>2, <2>3, <2>4, <2>5, CountMove DEF Counted
<1>4. /\ \A s \in Requests : s # r => (s \in Holders <=> s \in Holders')
      /\ r \in Holders <=> Holds(req[r])
      /\ r \in Holders' <=> Holds(q)
      /\ Holders \in SUBSET Requests /\ Holders' \in SUBSET Requests
  BY <1>1 DEF Holders, Holds
<1>5. key_active' = Cardinality(Holders')
  <2>1. key_active = Cardinality(Holders)
    BY DEF CountInv, CountersExact
  <2>2. Counted(key_active, key_active', Holds(req[r]), Holds(q))
    BY DEF Moves
  <2> QED BY <1>4, <2>1, <2>2, CountMove DEF Counted
<1>6. active = {req[s].row : s \in Holders} \ {None} /\ Excl
  BY DEF CountInv, CountersExact
<1>7. /\ active' = (active \ RowOf(req[r])) \cup RowOf(q)
      /\ RowOf(q) \cap (active \ RowOf(req[r])) = {}
  BY DEF Moves
<1> DEFINE Others == {req[s].row : s \in Holders \ {r}} \ {None}
<1>8. active \ RowOf(req[r]) = Others
  BY <1>4, <1>6 DEF RowOf, Excl
<1>9. Others = {req'[s].row : s \in Holders' \ {r}} \ {None}
  BY <1>1, <1>4
<1>10. active' = {req'[s].row : s \in Holders'} \ {None}
  BY <1>1, <1>4, <1>7, <1>8, <1>9 DEF RowOf
<1>11. Excl'
  BY <1>1, <1>4, <1>6, <1>7, <1>8, <1>9 DEF RowOf, Excl
<1>12. (active = {req[s].row : s \in Holders} \ {None})'
  BY <1>10
<1> QED BY <1>1, <1>2, <1>3, <1>5, <1>11, <1>12 DEF CountInv, CountersExact

-----------------------------------------------------------------------------
(* Records. *)

\* A step of r that leaves what its attempt is remembered by
Keeps(r, q) ==
    /\ q.header = req[r].header
    /\ q.mark = req[r].mark
    /\ req[r].cl = "done" => q.cl = "done" /\ q.outcome = req[r].outcome
    /\ q.at \notin {"idle", "upload"}
    /\ UNCHANGED <<idem, sent, crashes>>
    /\ enabled' \in BOOLEAN

\* ... and the records of attempts, if it leaves them alone.
LEMMA KeepsMarks ==
    ASSUME ReqInv, MarkInv, NEW r \in Requests, NEW q, Moves(r, q), Keeps(r, q)
    PROVE  MarkInv'
<1>1. req'[r] = q /\ \A s \in Requests : s # r => req'[s] = req[s]
  BY MoveReq DEF Moves
<1>2. /\ q.header = req[r].header /\ q.mark = req[r].mark
      /\ req[r].cl = "done" => q.cl = "done" /\ q.outcome = req[r].outcome
      /\ q.at \notin {"idle", "upload"}
      /\ idem' = idem /\ sent' = sent /\ crashes' = crashes /\ enabled' \in BOOLEAN
  BY DEF Keeps
<1>3. \A s \in Requests :
         req'[s].mark # None /\ req'[s].cl # "done"
           => idem'[req'[s].mark].st = "started" /\ idem'[req'[s].mark].by = s
  BY <1>1, <1>2 DEF MarkInv
<1>4. ASSUME NEW s \in sent'
      PROVE  /\ req'[s].at \notin {"idle", "upload"}
             /\ req'[s].header # None
             /\ idem'[req'[s].header].by = s
             /\ idem'[req'[s].header].st # "absent"
             /\ idem'[req'[s].header].st = "completed"
                  => req'[s].cl = "done" /\ idem'[req'[s].header].outcome = req'[s].outcome
  BY <1>1, <1>2, <1>4 DEF MarkInv
<1> QED BY <1>2, <1>3, <1>4 DEF MarkInv

LEMMA MoveInv ==
    ASSUME Inv, NEW r \in Requests, NEW q, Moves(r, q), Keeps(r, q), PoolInv', OneOpener'
    PROVE  Inv'
BY MoveCounts, KeepsMarks DEF Inv

LEMMA OpenerSame == ASSUME OneOpener, UNCHANGED opener PROVE OneOpener'
BY DEF OneOpener, opener

-----------------------------------------------------------------------------
(* The handler. *)

\* A reserved row is in Sessions.active.
LEMMA HeldRow == ASSUME CountInv, NEW r \in Requests PROVE RowOf(req[r]) \subseteq active
BY DEF CountInv, CountersExact, RowOf, Holders, Holds

LEMMA WaitingBounded == ASSUME CountInv PROVE waiting \in Nat /\ waiting <= MaxWaiting
<1>1. Waiters \in SUBSET Requests
  BY DEF Waiters
<1>2. Cardinality(Waiters) \in Nat
  BY <1>1, FS_Subset, FS_CardinalityType, AdmissionAssumption
<1> QED BY <1>2 DEF CountInv, CountersExact

\* A step of the handler that keeps its row and its attempt
LEMMA HandlerMove ==
    ASSUME Inv, NEW r \in Requests, NEW q, req' = [req EXCEPT ![r] = q], Local(q),
           InQueue(q) <=> InQueue(req[r]),
           Counted(connections, connections', InConnected(req[r]), InConnected(q)),
           Counted(key_active, key_active', Holds(req[r]), Holds(q)),
           RowOf(q) = RowOf(req[r]),
           q.header = req[r].header, q.mark = req[r].mark, q.at \notin {"idle", "upload"},
           req[r].cl = "done" => q.cl = "done" /\ q.outcome = req[r].outcome,
           UNCHANGED <<queue, opener, enabled, attempts>>,
           pool' \in [Rows -> {"new", "open", "quarantined", "gone"}]
    PROVE  Inv'
<1>0. CountInv /\ PoolInv /\ OneOpener /\ MarkInv
  BY DEF Inv
<1>1. waiting' = waiting /\ active' = active /\ UNCHANGED <<enabled, idem, sent, crashes>>
  BY DEF queue, attempts
<1>2. RowOf(req[r]) \subseteq active
  BY <1>0, HeldRow
<1>3. Moves(r, q)
  <2>1. Counted(waiting, waiting', InQueue(req[r]), InQueue(q)) /\ waiting' <= MaxWaiting
    BY <1>0, <1>1, WaitingBounded DEF Counted
  <2>2. active' = (active \ RowOf(req[r])) \cup RowOf(q) /\ RowOf(q) \cap (active \ RowOf(req[r])) = {}
    BY <1>1, <1>2
  <2> QED BY <2>1, <2>2 DEF Moves
<1>4. Keeps(r, q)
  BY <1>0, <1>1 DEF Keeps, MarkInv
<1>5. PoolInv' /\ OneOpener'
  BY <1>0, OpenerSame DEF PoolInv, opener
<1> QED BY <1>3, <1>4, <1>5, MoveInv

LEMMA BusyInv == ASSUME Inv, NEW r \in Requests, Busy(r) PROVE Inv'
<1> PICK q \in {[req[r] EXCEPT !.at = "end", !.cl = "done"]} :
         req' = [req EXCEPT ![r] = q]
  BY DEF Busy, Set
<1>1. Local(req[r]) /\ req[r].at = "idle"
  BY DEF Inv, ReqInv, Busy
<1>2. /\ q \in Request
      /\ q.at = "end" /\ q.cl = "done" /\ q.row = req[r].row /\ q.up = req[r].up
      /\ q.header = req[r].header /\ q.mark = req[r].mark
      /\ req[r].cl = "done" => q.outcome = req[r].outcome
  BY <1>1 DEF Local, Request, Places, Queued
<1>3. Local(q)
  BY <1>1, <1>2 DEF Local, Queued
<1>4. /\ InQueue(q) <=> InQueue(req[r])
      /\ Counted(connections, connections', InConnected(req[r]), InConnected(q))
      /\ Counted(key_active, key_active', Holds(req[r]), Holds(q))
  BY <1>1, <1>2 DEF Busy, Local, Counted, InConnected, InQueue, Holds, Queued, handler
<1>5. /\ RowOf(q) = RowOf(req[r]) /\ q.at \notin {"idle", "upload"}
      /\ req[r].cl = "done" => q.cl = "done"
  BY <1>1, <1>2 DEF Local, RowOf, Holds, Queued
<1>6. /\ UNCHANGED <<queue, opener, enabled, attempts>>
      /\ pool' \in [Rows -> {"new", "open", "quarantined", "gone"}]
  BY DEF Inv, PoolInv, Busy, handler
<1> QED BY <1>2, <1>3, <1>4, <1>5, <1>6, HandlerMove

LEMMA TurnedAwayInv == ASSUME Inv, NEW r \in Requests, TurnedAway(r) PROVE Inv'
<1> PICK q \in {[req[r] EXCEPT !.at = "end", !.cl = "done"]} :
         req' = [req EXCEPT ![r] = q]
  BY DEF TurnedAway, Set
<1>1. Local(req[r]) /\ req[r].at = "upload"
  BY DEF Inv, ReqInv, TurnedAway
<1>2. /\ q \in Request
      /\ q.at = "end" /\ q.cl = "done" /\ q.row = req[r].row /\ q.up = req[r].up
      /\ q.header = req[r].header /\ q.mark = req[r].mark
      /\ req[r].cl = "done" => q.outcome = req[r].outcome
  BY <1>1 DEF Local, Request, Places, Queued
<1>3. Local(q)
  BY <1>1, <1>2 DEF Local, Queued
<1>4. /\ InQueue(q) <=> InQueue(req[r])
      /\ Counted(connections, connections', InConnected(req[r]), InConnected(q))
      /\ Counted(key_active, key_active', Holds(req[r]), Holds(q))
  BY <1>1, <1>2 DEF TurnedAway, Local, Counted, InConnected, InQueue, Holds, Queued, handler
<1>5. /\ RowOf(q) = RowOf(req[r]) /\ q.at \notin {"idle", "upload"}
      /\ req[r].cl = "done" => q.cl = "done"
  BY <1>1, <1>2 DEF Local, RowOf, Holds, Queued
<1>6. /\ UNCHANGED <<queue, opener, enabled, attempts>>
      /\ pool' \in [Rows -> {"new", "open", "quarantined", "gone"}]
  BY DEF Inv, PoolInv, TurnedAway, handler
<1> QED BY <1>2, <1>3, <1>4, <1>5, <1>6, HandlerMove

LEMMA DuplicateInv == ASSUME Inv, NEW r \in Requests, Duplicate(r) PROVE Inv'
<1> PICK q \in {[req[r] EXCEPT !.at = "cleanup", !.cl = "closing"]} :
         req' = [req EXCEPT ![r] = q]
  BY DEF Duplicate, Set
<1>1. Local(req[r]) /\ req[r].at = "upload"
  BY DEF Inv, ReqInv, Duplicate
<1>2. /\ q \in Request
      /\ q.at = "cleanup" /\ q.cl = "closing" /\ q.row = req[r].row /\ q.up = req[r].up
      /\ q.header = req[r].header /\ q.mark = req[r].mark
      /\ req[r].cl = "done" => q.outcome = req[r].outcome
  BY <1>1 DEF Local, Request, Places, Queued
<1>3. Local(q)
  BY <1>1, <1>2 DEF Local, Queued
<1>4. /\ InQueue(q) <=> InQueue(req[r])
      /\ Counted(connections, connections', InConnected(req[r]), InConnected(q))
      /\ Counted(key_active, key_active', Holds(req[r]), Holds(q))
  BY <1>1, <1>2 DEF Duplicate, Local, Counted, InConnected, InQueue, Holds, Queued, handler
<1>5. /\ RowOf(q) = RowOf(req[r]) /\ q.at \notin {"idle", "upload"}
      /\ req[r].cl = "done" => q.cl = "done"
  BY <1>1, <1>2 DEF Local, RowOf, Holds, Queued
<1>6. /\ UNCHANGED <<queue, opener, enabled, attempts>>
      /\ pool' \in [Rows -> {"new", "open", "quarantined", "gone"}]
  BY DEF Inv, PoolInv, Duplicate, handler
<1> QED BY <1>2, <1>3, <1>4, <1>5, <1>6, HandlerMove

LEMMA AnsweredInv == ASSUME Inv, NEW r \in Requests, Answered(r) PROVE Inv'
<1> PICK q \in {[req[r] EXCEPT !.at = "ready", !.up = TRUE],
                [req[r] EXCEPT !.at = "body", !.up = TRUE]} :
         req' = [req EXCEPT ![r] = q]
  BY DEF Answered, Set
<1>1. Local(req[r]) /\ req[r].at = "sent"
  BY DEF Inv, ReqInv, Answered
<1>2. /\ q \in Request
      /\ q.at \in {"ready", "body"} /\ q.cl = req[r].cl /\ q.row = req[r].row /\ q.up = TRUE
      /\ q.header = req[r].header /\ q.mark = req[r].mark
      /\ req[r].cl = "done" => q.outcome = req[r].outcome
  BY <1>1 DEF Local, Request, Places, Queued
<1>3. Local(q)
  BY <1>1, <1>2 DEF Local, Queued
<1>4. /\ InQueue(q) <=> InQueue(req[r])
      /\ Counted(connections, connections', InConnected(req[r]), InConnected(q))
      /\ Counted(key_active, key_active', Holds(req[r]), Holds(q))
  BY <1>1, <1>2 DEF Answered, Local, Counted, InConnected, InQueue, Holds, Queued, handler
<1>5. /\ RowOf(q) = RowOf(req[r]) /\ q.at \notin {"idle", "upload"}
      /\ req[r].cl = "done" => q.cl = "done"
  BY <1>1, <1>2 DEF Local, RowOf, Holds, Queued
<1>6. /\ UNCHANGED <<queue, opener, enabled, attempts>>
      /\ pool' \in [Rows -> {"new", "open", "quarantined", "gone"}]
  BY DEF Inv, PoolInv, Answered, handler
<1> QED BY <1>2, <1>3, <1>4, <1>5, <1>6, HandlerMove

LEMMA FailedInv == ASSUME Inv, NEW r \in Requests, Failed(r) PROVE Inv'
<1> PICK q \in {[req[r] EXCEPT !.at = "cleanup", !.cl = "closing", !.up = TRUE],
                [req[r] EXCEPT !.at = "cleanup", !.cl = "closing", !.up = FALSE]} :
         req' = [req EXCEPT ![r] = q]
  BY DEF Failed, Set
<1>1. Local(req[r]) /\ req[r].at = "sent"
  BY DEF Inv, ReqInv, Failed
<1>2. /\ q \in Request
      /\ q.at = "cleanup" /\ q.cl = "closing" /\ q.row = req[r].row /\ q.up \in BOOLEAN
      /\ q.header = req[r].header /\ q.mark = req[r].mark
      /\ req[r].cl = "done" => q.outcome = req[r].outcome
  BY <1>1 DEF Local, Request, Places, Queued
<1>3. Local(q)
  BY <1>1, <1>2 DEF Local, Queued
<1>4. /\ InQueue(q) <=> InQueue(req[r])
      /\ Counted(connections, connections', InConnected(req[r]), InConnected(q))
      /\ Counted(key_active, key_active', Holds(req[r]), Holds(q))
  BY <1>1, <1>2 DEF Failed, Local, Counted, InConnected, InQueue, Holds, Queued, handler
<1>5. /\ RowOf(q) = RowOf(req[r]) /\ q.at \notin {"idle", "upload"}
      /\ req[r].cl = "done" => q.cl = "done"
  BY <1>1, <1>2 DEF Local, RowOf, Holds, Queued
<1>6. /\ UNCHANGED <<queue, opener, enabled, attempts>>
      /\ pool' \in [Rows -> {"new", "open", "quarantined", "gone"}]
  BY DEF Inv, PoolInv, Failed, handler, MayInvalidate
<1> QED BY <1>2, <1>3, <1>4, <1>5, <1>6, HandlerMove

LEMMA InvalidateRaisesInv == ASSUME Inv, NEW r \in Requests, InvalidateRaises(r) PROVE Inv'
<1> PICK q \in {[req[r] EXCEPT !.at = "cleanup", !.cl = "skipped"]} :
         req' = [req EXCEPT ![r] = q]
  BY DEF InvalidateRaises, Set
<1>1. Local(req[r]) /\ req[r].at \in {"sent", "body"}
  BY DEF Inv, ReqInv, InvalidateRaises
<1>2. /\ q \in Request
      /\ q.at = "cleanup" /\ q.cl = "skipped" /\ q.row = req[r].row /\ q.up = req[r].up
      /\ q.header = req[r].header /\ q.mark = req[r].mark
      /\ req[r].cl = "done" => q.outcome = req[r].outcome
  BY <1>1 DEF Local, Request, Places, Queued
<1>3. Local(q)
  BY <1>1, <1>2 DEF Local, Queued
<1>4. /\ InQueue(q) <=> InQueue(req[r])
      /\ Counted(connections, connections', InConnected(req[r]), InConnected(q))
      /\ Counted(key_active, key_active', Holds(req[r]), Holds(q))
  BY <1>1, <1>2 DEF InvalidateRaises, Local, Counted, InConnected, InQueue, Holds, Queued, handler
<1>5. /\ RowOf(q) = RowOf(req[r]) /\ q.at \notin {"idle", "upload"}
      /\ req[r].cl = "done" => q.cl = "done"
  BY <1>1, <1>2 DEF Local, RowOf, Holds, Queued
<1>6. /\ UNCHANGED <<queue, opener, enabled, attempts>>
      /\ pool' \in [Rows -> {"new", "open", "quarantined", "gone"}]
  BY DEF Inv, PoolInv, InvalidateRaises, handler, MayInvalidate
<1> QED BY <1>2, <1>3, <1>4, <1>5, <1>6, HandlerMove

LEMMA BodyInv == ASSUME Inv, NEW r \in Requests, Body(r) PROVE Inv'
<1> PICK q \in {[req[r] EXCEPT !.at = "cleanup", !.cl = "closing", !.outcome = "succeeded"],
                [req[r] EXCEPT !.at = "cleanup", !.cl = "closing"]} :
         req' = [req EXCEPT ![r] = q]
  BY DEF Body, Set
<1>1. Local(req[r]) /\ req[r].at = "body"
  BY DEF Inv, ReqInv, Body
<1>2. /\ q \in Request
      /\ q.at = "cleanup" /\ q.cl = "closing" /\ q.row = req[r].row /\ q.up = req[r].up
      /\ q.header = req[r].header /\ q.mark = req[r].mark
      /\ req[r].cl = "done" => q.outcome = req[r].outcome
  BY <1>1 DEF Local, Request, Places, Queued
<1>3. Local(q)
  BY <1>1, <1>2 DEF Local, Queued
<1>4. /\ InQueue(q) <=> InQueue(req[r])
      /\ Counted(connections, connections', InConnected(req[r]), InConnected(q))
      /\ Counted(key_active, key_active', Holds(req[r]), Holds(q))
  BY <1>1, <1>2 DEF Body, Local, Counted, InConnected, InQueue, Holds, Queued, handler
<1>5. /\ RowOf(q) = RowOf(req[r]) /\ q.at \notin {"idle", "upload"}
      /\ req[r].cl = "done" => q.cl = "done"
  BY <1>1, <1>2 DEF Local, RowOf, Holds, Queued
<1>6. /\ UNCHANGED <<queue, opener, enabled, attempts>>
      /\ pool' \in [Rows -> {"new", "open", "quarantined", "gone"}]
  BY DEF Inv, PoolInv, Body, handler, MayInvalidate
<1> QED BY <1>2, <1>3, <1>4, <1>5, <1>6, HandlerMove

LEMMA StreamStartsInv == ASSUME Inv, NEW r \in Requests, StreamStarts(r) PROVE Inv'
<1> PICK q \in {[req[r] EXCEPT !.at = "stream"],
                [req[r] EXCEPT !.at = "finish"]} :
         req' = [req EXCEPT ![r] = q]
  BY DEF StreamStarts, Set
<1>1. Local(req[r]) /\ req[r].at = "ready"
  BY DEF Inv, ReqInv, StreamStarts
<1>2. /\ q \in Request
      /\ q.at \in {"stream", "finish"} /\ q.cl = req[r].cl /\ q.row = req[r].row /\ q.up = req[r].up
      /\ q.header = req[r].header /\ q.mark = req[r].mark
      /\ req[r].cl = "done" => q.outcome = req[r].outcome
  BY <1>1 DEF Local, Request, Places, Queued
<1>3. Local(q)
  BY <1>1, <1>2 DEF Local, Queued
<1>4. /\ InQueue(q) <=> InQueue(req[r])
      /\ Counted(connections, connections', InConnected(req[r]), InConnected(q))
      /\ Counted(key_active, key_active', Holds(req[r]), Holds(q))
  BY <1>1, <1>2 DEF StreamStarts, Local, Counted, InConnected, InQueue, Holds, Queued, handler
<1>5. /\ RowOf(q) = RowOf(req[r]) /\ q.at \notin {"idle", "upload"}
      /\ req[r].cl = "done" => q.cl = "done"
  BY <1>1, <1>2 DEF Local, RowOf, Holds, Queued
<1>6. /\ UNCHANGED <<queue, opener, enabled, attempts>>
      /\ pool' \in [Rows -> {"new", "open", "quarantined", "gone"}]
  BY DEF Inv, PoolInv, StreamStarts, handler
<1> QED BY <1>2, <1>3, <1>4, <1>5, <1>6, HandlerMove

LEMMA StreamEndsInv == ASSUME Inv, NEW r \in Requests, StreamEnds(r) PROVE Inv'
<1> PICK q \in {[req[r] EXCEPT !.at = "finish", !.cl = "closing", !.outcome = "succeeded"],
                [req[r] EXCEPT !.at = "finish", !.cl = "closing"]} :
         req' = [req EXCEPT ![r] = q]
  BY DEF StreamEnds, Set
<1>1. Local(req[r]) /\ req[r].at = "stream"
  BY DEF Inv, ReqInv, StreamEnds
<1>2. /\ q \in Request
      /\ q.at = "finish" /\ q.cl = "closing" /\ q.row = req[r].row /\ q.up = req[r].up
      /\ q.header = req[r].header /\ q.mark = req[r].mark
      /\ req[r].cl = "done" => q.outcome = req[r].outcome
  BY <1>1 DEF Local, Request, Places, Queued
<1>3. Local(q)
  BY <1>1, <1>2 DEF Local, Queued
<1>4. /\ InQueue(q) <=> InQueue(req[r])
      /\ Counted(connections, connections', InConnected(req[r]), InConnected(q))
      /\ Counted(key_active, key_active', Holds(req[r]), Holds(q))
  BY <1>1, <1>2 DEF StreamEnds, Local, Counted, InConnected, InQueue, Holds, Queued, handler
<1>5. /\ RowOf(q) = RowOf(req[r]) /\ q.at \notin {"idle", "upload"}
      /\ req[r].cl = "done" => q.cl = "done"
  BY <1>1, <1>2 DEF Local, RowOf, Holds, Queued
<1>6. /\ UNCHANGED <<queue, opener, enabled, attempts>>
      /\ pool' \in [Rows -> {"new", "open", "quarantined", "gone"}]
  BY DEF Inv, PoolInv, StreamEnds, handler, MayInvalidate
<1> QED BY <1>2, <1>3, <1>4, <1>5, <1>6, HandlerMove

LEMMA BackgroundInv == ASSUME Inv, NEW r \in Requests, Background(r) PROVE Inv'
<1> PICK q \in {[req[r] EXCEPT !.at = "after", !.cl = CleanupCalled(@)]} :
         req' = [req EXCEPT ![r] = q]
  BY DEF Background, Set
<1>1. Local(req[r]) /\ req[r].at = "finish"
  BY DEF Inv, ReqInv, Background
<1>2. /\ q \in Request
      /\ q.at = "after" /\ q.cl = CleanupCalled(req[r].cl) /\ q.row = req[r].row /\ q.up = req[r].up
      /\ q.header = req[r].header /\ q.mark = req[r].mark
      /\ req[r].cl = "done" => q.outcome = req[r].outcome
  BY <1>1 DEF Local, Request, Places, Queued, CleanupCalled
<1>3. Local(q)
  BY <1>1, <1>2 DEF CleanupCalled, Local, Queued
<1>4. /\ InQueue(q) <=> InQueue(req[r])
      /\ Counted(connections, connections', InConnected(req[r]), InConnected(q))
      /\ Counted(key_active, key_active', Holds(req[r]), Holds(q))
  BY <1>1, <1>2 DEF CleanupCalled, Background, Local, Counted, InConnected, InQueue, Holds, Queued, handler
<1>5. /\ RowOf(q) = RowOf(req[r]) /\ q.at \notin {"idle", "upload"}
      /\ req[r].cl = "done" => q.cl = "done"
  BY <1>1, <1>2 DEF CleanupCalled, Local, RowOf, Holds, Queued
<1>6. /\ UNCHANGED <<queue, opener, enabled, attempts>>
      /\ pool' \in [Rows -> {"new", "open", "quarantined", "gone"}]
  BY DEF Inv, PoolInv, Background, handler
<1> QED BY <1>2, <1>3, <1>4, <1>5, <1>6, HandlerMove

LEMMA RespondInv == ASSUME Inv, NEW r \in Requests, Respond(r) PROVE Inv'
<1> PICK q \in {[req[r] EXCEPT !.at = "end", !.row = IF req[r].cl = "done" THEN None ELSE @]} :
         req' = [req EXCEPT ![r] = q]
  BY DEF Respond, Set
<1>1. Local(req[r]) /\ req[r].at \in {"cleanup", "after"} /\ req[r].cl \in {"done", "skipped"}
  BY DEF Inv, ReqInv, Respond
<1>2. /\ q \in Request
      /\ q.at = "end" /\ q.cl = req[r].cl /\ q.up = req[r].up
      /\ q.row = IF req[r].cl = "done" THEN None ELSE req[r].row
      /\ q.header = req[r].header /\ q.mark = req[r].mark
      /\ req[r].cl = "done" => q.outcome = req[r].outcome
  BY <1>1 DEF Local, Request, Places, Queued
<1>3. Local(q)
  BY <1>1, <1>2 DEF Local, Queued
<1>4. /\ InQueue(q) <=> InQueue(req[r])
      /\ Counted(connections, connections', InConnected(req[r]), InConnected(q))
      /\ Counted(key_active, key_active', Holds(req[r]), Holds(q))
  BY <1>1, <1>2 DEF Respond, Local, Counted, InConnected, InQueue, Holds, Queued, handler
<1>5. /\ RowOf(q) = RowOf(req[r]) /\ q.at \notin {"idle", "upload"}
      /\ req[r].cl = "done" => q.cl = "done"
  BY <1>1, <1>2 DEF Local, RowOf, Holds, Queued
<1>6. /\ UNCHANGED <<queue, opener, enabled, attempts>>
      /\ pool' \in [Rows -> {"new", "open", "quarantined", "gone"}]
  BY DEF Inv, PoolInv, Respond, handler
<1> QED BY <1>2, <1>3, <1>4, <1>5, <1>6, HandlerMove

LEMMA ArriveInv == ASSUME Inv, NEW r \in Requests, Arrive(r) PROVE Inv'
<1> PICK m \in Marks \cup {None} :
         req' = [req EXCEPT ![r] = [req[r] EXCEPT !.at = "upload", !.header = m]]
  BY DEF Arrive, Set
<1> DEFINE q == [req[r] EXCEPT !.at = "upload", !.header = m]
<1>0. ReqInv /\ CountInv /\ PoolInv /\ OneOpener /\ MarkInv
  BY DEF Inv
<1>1. Local(req[r]) /\ req[r].at = "idle"
  BY <1>0 DEF ReqInv, Arrive
<1>2. /\ q \in Request
      /\ q.at = "upload" /\ q.cl = "no" /\ q.row = None /\ q.up = FALSE /\ q.mark = None
  BY <1>1 DEF Local, Request, Places
<1> HIDE DEF q
<1>3. Local(q)
  BY <1>1, <1>2 DEF Local, Queued
<1>4. RowOf(q) = {} /\ RowOf(req[r]) = {} /\ active' = active
  BY <1>1, <1>2 DEF RowOf, Holds, Arrive, queue
<1>5. Moves(r, q)
  <2>1. Counted(connections, connections', InConnected(req[r]), InConnected(q))
        /\ Counted(waiting, waiting', InQueue(req[r]), InQueue(q))
        /\ Counted(key_active, key_active', Holds(req[r]), Holds(q))
        /\ waiting' <= MaxWaiting
    BY <1>0, <1>1, <1>2, WaitingBounded, AdmissionAssumption DEF Arrive, Local, Counted, InConnected, InQueue, Holds, Queued, queue, handler
  <2>2. req' = [req EXCEPT ![r] = q]
    BY DEF q
  <2> QED BY <1>3, <1>4, <2>1, <2>2 DEF Moves
<1>6. MarkInv'
  <2>1. req'[r] = q /\ \A s \in Requests : s # r => req'[s] = req[s]
    BY <1>0, <1>5, MoveReq DEF Moves
  <2>2. idem' = idem /\ sent' = sent /\ enabled' = enabled /\ crashes' = crashes /\ r \notin sent
    BY <1>0, <1>1 DEF Arrive, attempts, MarkInv
  <2>3. \A s \in Requests :
           req'[s].mark # None /\ req'[s].cl # "done"
             => idem'[req'[s].mark].st = "started" /\ idem'[req'[s].mark].by = s
    BY <1>0, <1>2, <2>1, <2>2 DEF MarkInv
  <2>4. \A s \in sent' : req'[s] = req[s]
    BY <1>0, <2>1, <2>2 DEF MarkInv
  <2> QED BY <1>0, <2>2, <2>3, <2>4 DEF MarkInv
<1>7. PoolInv' /\ OneOpener'
  BY <1>0, OpenerSame DEF PoolInv, Arrive, opener
<1> QED BY <1>0, <1>5, <1>6, <1>7, MoveCounts DEF Inv

LEMMA AdmitInv == ASSUME Inv, NEW r \in Requests, Admit(r) PROVE Inv'
<1> PICK q \in {[req[r] EXCEPT !.at = "loop", !.mark = req[r].header],
                 [req[r] EXCEPT !.at = "cleanup", !.cl = "closing", !.mark = req[r].header]} :
         /\ req' = [req EXCEPT ![r] = q]
         /\ q = [req[r] EXCEPT !.at = "loop", !.mark = req[r].header]
              => waiting < MaxWaiting /\ waiting' = waiting + 1
         /\ q # [req[r] EXCEPT !.at = "loop", !.mark = req[r].header] => waiting' = waiting
  <2>1. ReqInv
    BY DEF Inv
  <2>2. req[r] \in Request
    BY <2>1 DEF ReqInv
  <2>3. [req[r] EXCEPT !.at = "loop", !.mark = req[r].header]
          # [req[r] EXCEPT !.at = "cleanup", !.cl = "closing", !.mark = req[r].header]
    BY <2>2 DEF Request
  <2> QED BY <2>3 DEF Admit, Set
<1>0. ReqInv /\ CountInv /\ PoolInv /\ OneOpener /\ MarkInv
  BY DEF Inv
<1>1. Local(req[r]) /\ req[r].at = "upload"
  BY <1>0 DEF ReqInv, Admit
<1>2. /\ q \in Request
      /\ q.row = None /\ q.up = FALSE /\ q.header = req[r].header /\ q.mark = req[r].header
      /\ \/ q.at = "loop" /\ q.cl = "no" /\ waiting < MaxWaiting /\ waiting' = waiting + 1
         \/ q.at = "cleanup" /\ q.cl = "closing" /\ waiting' = waiting
  BY <1>1 DEF Local, Request, Places, Queued
<1>3. Local(q)
  BY <1>1, <1>2 DEF Local, Queued
<1>4. RowOf(q) = {} /\ RowOf(req[r]) = {} /\ active' = active
  BY <1>1, <1>2 DEF RowOf, Holds, Admit
<1>5. Moves(r, q)
  <2>1. Counted(connections, connections', InConnected(req[r]), InConnected(q))
        /\ Counted(waiting, waiting', InQueue(req[r]), InQueue(q))
        /\ Counted(key_active, key_active', Holds(req[r]), Holds(q))
        /\ waiting' <= MaxWaiting
    BY <1>0, <1>1, <1>2, WaitingBounded, AdmissionAssumption DEF Admit, Local, Counted, InConnected, InQueue, Holds, Queued, queue, handler
  <2> QED BY <1>3, <1>4, <2>1 DEF Moves
<1>6. MarkInv'
  <2>1. req'[r] = q /\ \A s \in Requests : s # r => req'[s] = req[s]
    BY <1>0, <1>5, MoveReq DEF Moves
  <2>2. /\ sent' = sent /\ enabled' = enabled /\ crashes' = crashes /\ r \notin sent
        /\ sent \subseteq Requests
    BY <1>0, <1>1 DEF Admit, MarkInv
  <2> DEFINE new == [NoRecord EXCEPT !.st = "started", !.by = r]
  <2>3. /\ req[r].header # None => idem[req[r].header].st = "absent"
        /\ idem' = [m \in Marks |->
                      IF m = req[r].header THEN new ELSE idem[m]]
    BY DEF Admit, new
  <2>4. /\ new \in [st : {"absent", "started", "completed", "interrupted"},
                   by : Requests \cup {None}, outcome : {"failed", "succeeded"}]
        /\ new.st = "started" /\ new.by = r
    BY DEF NoRecord
  <2> HIDE DEF new
  <2>5. idem' \in [Marks -> [st : {"absent", "started", "completed", "interrupted"},
                             by : Requests \cup {None}, outcome : {"failed", "succeeded"}]]
    BY <1>0, <2>3, <2>4 DEF MarkInv
  <2>6. \A s \in Requests : req[s].header \in Marks \cup {None} /\ req[s].mark \in {None, req[s].header}
    BY <1>0 DEF ReqInv, Local, Request
  <2>7. \A s \in Requests :
           req'[s].mark # None /\ req'[s].cl # "done"
             => idem'[req'[s].mark].st = "started" /\ idem'[req'[s].mark].by = s
    BY <1>0, <1>2, <2>1, <2>3, <2>4, <2>6 DEF MarkInv
  <2>8. \A s \in sent : req'[s] = req[s] /\ idem'[req[s].header] = idem[req[s].header]
    BY <1>0, <2>1, <2>2, <2>3, <2>6 DEF MarkInv
  <2> QED BY <1>0, <2>2, <2>5, <2>7, <2>8 DEF MarkInv
<1>7. PoolInv' /\ OneOpener'
  BY <1>0, OpenerSame DEF PoolInv, Admit, opener
<1> QED BY <1>0, <1>5, <1>6, <1>7, MoveCounts DEF Inv

LEMMA DispatchInv == ASSUME Inv, NEW r \in Requests, Dispatch(r) PROVE Inv'
<1> PICK q \in {[req[r] EXCEPT !.at = "sent", !.scan = {}],
                 [req[r] EXCEPT !.at = "cleanup", !.cl = "closing", !.scan = {}]} :
         req' = [req EXCEPT ![r] = q]
  BY DEF Dispatch, Set
<1>0. ReqInv /\ CountInv /\ PoolInv /\ OneOpener /\ MarkInv
  BY DEF Inv
<1>1. Local(req[r]) /\ req[r].at = "check"
  BY <1>0 DEF ReqInv, Dispatch
<1>2. /\ q \in Request
      /\ q.row = req[r].row /\ q.up = FALSE /\ q.header = req[r].header /\ q.mark = req[r].mark
      /\ \/ q.at = "sent" /\ q.cl = "no"
         \/ q.at = "cleanup" /\ q.cl = "closing"
  BY <1>1 DEF Local, Request, Places, Queued
<1>3. Local(q)
  BY <1>1, <1>2 DEF Local, Queued
<1>4. RowOf(q) = RowOf(req[r]) /\ RowOf(q) \subseteq active /\ active' = active
  <2>1. active' = active
    BY DEF Dispatch
  <2>2. RowOf(q) = RowOf(req[r])
    BY <1>1, <1>2 DEF Local, RowOf, Holds, Queued
  <2> QED BY <1>0, <2>1, <2>2, HeldRow
<1>5. Moves(r, q)
  <2>1. Counted(connections, connections', InConnected(req[r]), InConnected(q))
        /\ Counted(waiting, waiting', InQueue(req[r]), InQueue(q))
        /\ Counted(key_active, key_active', Holds(req[r]), Holds(q))
        /\ waiting' <= MaxWaiting
    BY <1>0, <1>1, <1>2, WaitingBounded, AdmissionAssumption DEF Dispatch, Local, Counted, InConnected, InQueue, Holds, Queued, queue, handler
  <2> QED BY <1>3, <1>4, <2>1 DEF Moves
<1>6. MarkInv'
  <2>1. req'[r] = q /\ \A s \in Requests : s # r => req'[s] = req[s]
    BY <1>0, <1>5, MoveReq DEF Moves
  <2>2. /\ idem' = idem /\ crashes' = crashes /\ enabled' \in BOOLEAN
        /\ sent' = sent \/ (sent' = sent \cup {r} /\ req[r].header # None)
    BY <1>0 DEF Dispatch, KeyNow, MarkInv
  <2>3. req[r].mark = req[r].header /\ req[r].cl = "no"
    BY <1>1 DEF Local, Queued
  <2>4. \A s \in Requests :
           req'[s].mark # None /\ req'[s].cl # "done"
             => idem'[req'[s].mark].st = "started" /\ idem'[req'[s].mark].by = s
    BY <1>0, <1>2, <2>1, <2>2, <2>3 DEF MarkInv
  <2>5. ASSUME NEW s \in sent'
        PROVE  /\ s \in Requests
               /\ req'[s].at \notin {"idle", "upload"}
               /\ req'[s].header # None
               /\ idem'[req'[s].header].by = s
               /\ idem'[req'[s].header].st # "absent"
               /\ idem'[req'[s].header].st = "completed"
                    => req'[s].cl = "done" /\ idem'[req'[s].header].outcome = req'[s].outcome
    <3>1. CASE s = r
      <4>1. req[r].header # None
        BY <1>0, <2>2, <2>5, <3>1 DEF MarkInv
      <4>2. idem[req[r].header].st = "started" /\ idem[req[r].header].by = r
        BY <1>0, <2>3, <4>1 DEF MarkInv
      <4> QED BY <1>2, <2>1, <2>2, <3>1, <4>1, <4>2
    <3>2. CASE s # r
      <4>1. s \in sent /\ s \in Requests
        BY <1>0, <2>2, <2>5, <3>2 DEF MarkInv
      <4> QED BY <1>0, <2>1, <2>2, <3>2, <4>1 DEF MarkInv
    <3> QED BY <3>1, <3>2
  <2> QED BY <1>0, <2>2, <2>4, <2>5 DEF MarkInv
<1>7. PoolInv' /\ OneOpener'
  BY <1>0, OpenerSame DEF PoolInv, Dispatch, opener
<1> QED BY <1>0, <1>5, <1>6, <1>7, MoveCounts DEF Inv

LEMMA CleanedInv == ASSUME Inv, NEW r \in Requests, Cleaned(r) PROVE Inv'
<1> DEFINE q == [req[r] EXCEPT !.cl = "done", !.up = FALSE]
<1>0. ReqInv /\ CountInv /\ PoolInv /\ OneOpener /\ MarkInv
  BY DEF Inv
<1>1. Local(req[r]) /\ req[r].cl = "closing" /\ req' = [req EXCEPT ![r] = q]
  BY <1>0 DEF ReqInv, Cleaned, Set
<1>2. /\ q \in Request
      /\ q.at = req[r].at /\ q.row = req[r].row /\ q.up = FALSE /\ q.cl = "done"
      /\ q.header = req[r].header /\ q.mark = req[r].mark /\ q.outcome = req[r].outcome
      /\ q.at \in {"cleanup", "finish", "after"}
  BY <1>1 DEF Local, Request, Places, Queued
<1> HIDE DEF q
<1>3. Local(q)
  BY <1>1, <1>2 DEF Local, Queued
<1>4. RowOf(q) = {} /\ active' = active \ RowOf(req[r])
  <2>1. active' = active \ {req[r].row} /\ None \notin active
    BY <1>0 DEF Cleaned, CountInv, CountersExact
  <2>2. RowOf(q) = {} /\ RowOf(req[r]) = {req[r].row} \ {None}
    BY <1>1, <1>2 DEF RowOf, Holds
  <2> QED BY <2>1, <2>2
<1>5. Moves(r, q)
  <2>1. Counted(connections, connections', InConnected(req[r]), InConnected(q))
        /\ Counted(waiting, waiting', InQueue(req[r]), InQueue(q))
        /\ Counted(key_active, key_active', Holds(req[r]), Holds(q))
        /\ waiting' <= MaxWaiting
    BY <1>0, <1>1, <1>2, WaitingBounded, AdmissionAssumption DEF Cleaned, Local, Counted, InConnected, InQueue, Holds, Queued, queue, handler
  <2> QED BY <1>1, <1>3, <1>4, <2>1 DEF Moves
<1>6. MarkInv'
  <2>1. req'[r] = q /\ \A s \in Requests : s # r => req'[s] = req[s]
    BY <1>0, <1>5, MoveReq DEF Moves
  <2>2. sent' = sent /\ enabled' = enabled /\ crashes' = crashes /\ sent \subseteq Requests
    BY <1>0 DEF Cleaned, MarkInv
  <2>3. \/ idem' = idem
        \/ idem' = [m \in Marks |->
                      IF m = req[r].mark
                      THEN [st |-> "completed", by |-> r, outcome |-> req[r].outcome]
                      ELSE idem[m]]
    BY DEF Cleaned
  <2>4. req[r].outcome \in {"failed", "succeeded"}
        /\ \A s \in Requests : /\ req[s].header \in Marks \cup {None}
                               /\ req[s].mark \in {None, req[s].header}
    BY <1>0 DEF ReqInv, Local, Request
  <2>5. idem' \in [Marks -> [st : {"absent", "started", "completed", "interrupted"},
                             by : Requests \cup {None}, outcome : {"failed", "succeeded"}]]
    BY <1>0, <2>3, <2>4 DEF MarkInv
  <2>6. \A s \in Requests :
           req[s].mark # None /\ req[s].cl # "done"
             => idem[req[s].mark].st = "started" /\ idem[req[s].mark].by = s
    BY <1>0 DEF MarkInv
  <2>7. \A s \in Requests :
           req'[s].mark # None /\ req'[s].cl # "done"
             => idem'[req'[s].mark].st = "started" /\ idem'[req'[s].mark].by = s
    BY <1>1, <1>2, <2>1, <2>3, <2>4, <2>6
  <2>8. ASSUME NEW s \in sent
        PROVE  /\ req'[s].at \notin {"idle", "upload"}
               /\ req'[s].header # None
               /\ idem'[req'[s].header].by = s
               /\ idem'[req'[s].header].st # "absent"
               /\ idem'[req'[s].header].st = "completed"
                    => req'[s].cl = "done" /\ idem'[req'[s].header].outcome = req'[s].outcome
    <3>1. /\ s \in Requests
          /\ req[s].at \notin {"idle", "upload"}
          /\ req[s].header # None
          /\ idem[req[s].header].by = s
          /\ idem[req[s].header].st # "absent"
          /\ idem[req[s].header].st = "completed"
               => req[s].cl = "done" /\ idem[req[s].header].outcome = req[s].outcome
      BY <1>0, <2>2, <2>8 DEF MarkInv
    <3>2. CASE s = r
      BY <1>1, <1>2, <2>1, <2>3, <2>4, <2>6, <3>1, <3>2
    <3>3. CASE s # r
      <4>1. req[r].mark # None => req[s].header # req[r].mark
        BY <1>1, <2>6, <3>1, <3>3
      <4> QED BY <2>1, <2>3, <2>4, <3>1, <3>3, <4>1
    <3> QED BY <3>2, <3>3
  <2> QED BY <1>0, <2>2, <2>5, <2>7, <2>8 DEF MarkInv
<1>7. PoolInv' /\ OneOpener'
  BY <1>0, OpenerSame DEF PoolInv, Cleaned, opener
<1> QED BY <1>0, <1>5, <1>6, <1>7, MoveCounts DEF Inv

-----------------------------------------------------------------------------
(* acquire. *)

\* A step within the queue
LEMMA QueueStep ==
    ASSUME Inv, NEW r \in Requests, NEW q, req' = [req EXCEPT ![r] = q],
           req[r].at \in Queued, Local(q), q.at \in Queued,
           q.header = req[r].header, q.mark = req[r].mark,
           active' = (active \ RowOf(req[r])) \cup RowOf(q),
           RowOf(q) \cap (active \ RowOf(req[r])) = {},
           UNCHANGED <<waiting, handler>>, PoolInv', OneOpener'
    PROVE  Inv'
<1>0. ReqInv /\ CountInv /\ MarkInv
  BY DEF Inv
<1>1. Local(req[r]) /\ req[r].cl = "no" /\ q.cl = "no"
  BY <1>0 DEF ReqInv, Local
<1>2. /\ connections' = connections /\ waiting' = waiting /\ key_active' = key_active
      /\ UNCHANGED <<enabled, idem, sent, crashes>>
  BY DEF handler, attempts
<1>3. Moves(r, q)
  <2>1. /\ Counted(connections, connections', InConnected(req[r]), InConnected(q))
        /\ Counted(waiting, waiting', InQueue(req[r]), InQueue(q))
        /\ Counted(key_active, key_active', Holds(req[r]), Holds(q))
        /\ waiting' <= MaxWaiting
    BY <1>0, <1>1, <1>2, WaitingBounded DEF Counted, InConnected, InQueue, Holds, Queued
  <2> QED BY <2>1 DEF Moves
<1>4. Keeps(r, q)
  <2>1. enabled \in BOOLEAN
    BY <1>0 DEF MarkInv
  <2> QED BY <1>1, <1>2, <2>1 DEF Keeps, Queued
<1> QED BY <1>3, <1>4, MoveInv

\* The for loop gives its reservation up and takes at most one that is free.
LEMMA VisitInv ==
    ASSUME Inv, NEW r \in Requests, NEW S \in SUBSET Rows, req[r].at \in {"loop", "check"},
           Visit(r, S, active \ RowOf(req[r])),
           UNCHANGED <<waiting, handler>>, PoolInv', OneOpener'
    PROVE  Inv'
<1> DEFINE A == active \ RowOf(req[r])
<1>0. Local(req[r]) /\ req[r].at \in Queued /\ req[r].cl = "no"
  BY DEF Inv, ReqInv, Local, Queued
<1>1. CASE /\ Idle(S, A) = {}
           /\ Set(r, [req[r] EXCEPT !.at = "tail", !.row = None, !.scan = {}])
           /\ active' = A
  <2> DEFINE q == [req[r] EXCEPT !.at = "tail", !.row = None, !.scan = {}]
  <2>1. /\ q \in Request /\ q.at = "tail" /\ q.row = None /\ q.cl = "no" /\ q.up = req[r].up
        /\ q.header = req[r].header /\ q.mark = req[r].mark
    BY <1>0 DEF Local, Request, Places, Queued
  <2>2. req' = [req EXCEPT ![r] = q]
    BY <1>1 DEF Set
  <2> HIDE DEF q
  <2>3. Local(q)
    BY <1>0, <2>1 DEF Local, Queued
  <2>4. RowOf(q) = {} /\ q.at \in Queued
    BY <2>1 DEF RowOf, Holds, Queued
  <2>5. active' = (active \ RowOf(req[r])) \cup RowOf(q) /\ RowOf(q) \cap (active \ RowOf(req[r])) = {}
    BY <1>1, <2>4
  <2> QED BY <1>0, <2>1, <2>2, <2>3, <2>4, <2>5, QueueStep
<1>2. ASSUME NEW p \in Idle(S, A),
             Set(r, [req[r] EXCEPT !.at = "check", !.row = p, !.scan = {t \in S : t < p}]),
             active' = A \cup {p}
      PROVE  Inv'
  <2> DEFINE q == [req[r] EXCEPT !.at = "check", !.row = p, !.scan = {t \in S : t < p}]
  <2>0. p \in Rows /\ p \notin A /\ p # None
    BY <1>2, AdmissionAssumption DEF Idle, Rows
  <2>1. /\ q \in Request /\ q.at = "check" /\ q.row = p /\ q.cl = "no" /\ q.up = req[r].up
        /\ q.header = req[r].header /\ q.mark = req[r].mark
    BY <1>0, <2>0 DEF Local, Request, Places, Queued
  <2>2. req' = [req EXCEPT ![r] = q]
    BY <1>2 DEF Set
  <2> HIDE DEF q
  <2>3. Local(q)
    BY <1>0, <2>0, <2>1 DEF Local, Queued
  <2>4. RowOf(q) = {p} /\ q.at \in Queued
    BY <2>0, <2>1 DEF RowOf, Holds, Queued
  <2>5. active' = (active \ RowOf(req[r])) \cup RowOf(q) /\ RowOf(q) \cap (active \ RowOf(req[r])) = {}
    BY <1>2, <2>0, <2>4
  <2> QED BY <1>0, <2>1, <2>2, <2>3, <2>4, <2>5, QueueStep
<1> QED BY <1>1, <1>2 DEF Visit

LEMMA LoopInv == ASSUME Inv, NEW r \in Requests, Loop(r), UNCHANGED handler PROVE Inv'
<1>1. RowOf(req[r]) = {}
  BY DEF Inv, ReqInv, Local, Loop, RowOf, Queued
<1>2. Hot \in SUBSET Rows
  BY DEF Hot
<1>3. Visit(r, Hot, active \ RowOf(req[r]))
  <2>1. active \ RowOf(req[r]) = active
    BY <1>1
  <2> QED BY <2>1 DEF Loop
<1>4. PoolInv' /\ OneOpener'
  BY OpenerSame DEF Inv, PoolInv, Loop, opener
<1> QED BY <1>2, <1>3, <1>4, VisitInv DEF Loop

LEMMA CheckDroppedInv ==
    ASSUME Inv, NEW r \in Requests, CheckDropped(r), UNCHANGED handler PROVE Inv'
<1>0. Local(req[r]) /\ req[r].at = "check"
  BY DEF Inv, ReqInv, CheckDropped
<1>1. req[r].row \in Rows /\ req[r].row # None /\ req[r].scan \in SUBSET Rows /\ req[r].cl = "no"
  BY <1>0, AdmissionAssumption DEF Local, Request, Rows, Queued
<1>2. RowOf(req[r]) = {req[r].row}
  BY <1>0, <1>1 DEF RowOf, Holds
<1>3. Visit(r, req[r].scan, active \ RowOf(req[r]))
  BY <1>2 DEF CheckDropped
<1>4. PoolInv' /\ OneOpener'
  <2>1. pool' \in [Rows -> {"new", "open", "quarantined", "gone"}]
    BY <1>1 DEF Inv, PoolInv, CheckDropped
  <2> QED BY <2>1, OpenerSame DEF Inv, PoolInv, CheckDropped, opener
<1> QED BY <1>0, <1>1, <1>3, <1>4, VisitInv DEF CheckDropped

\* The steps at the end of the loop and around an opening reserve no row.
LEMMA NoRowStep ==
    ASSUME Inv, NEW r \in Requests, NEW q, req' = [req EXCEPT ![r] = q],
           req[r].at \in {"loop", "tail", "opening"}, Local(q), q.at \in {"loop", "tail", "opening"},
           q.header = req[r].header, q.mark = req[r].mark,
           UNCHANGED <<queue, handler>>, PoolInv', OneOpener'
    PROVE  Inv'
<1>1. req[r].at \in Queued /\ q.at \in Queued /\ RowOf(req[r]) = {} /\ RowOf(q) = {}
  BY DEF Inv, ReqInv, Local, RowOf, Queued
<1>2. waiting' = waiting /\ active' = active
  BY DEF queue
<1>3. active' = (active \ RowOf(req[r])) \cup RowOf(q) /\ RowOf(q) \cap (active \ RowOf(req[r])) = {}
  BY <1>1, <1>2
<1> QED BY <1>1, <1>2, <1>3, QueueStep

\* A task is started only when none is known, so none runs.
LEMMA StartOpenInv ==
    ASSUME Inv, NEW t \in Tasks, StartOpen(t), opening = None, UNCHANGED <<pool, failure>>
    PROVE  PoolInv' /\ OneOpener' /\ opening' \in Tasks
<1>1. \A u \in Tasks : tasks[u].st # "running"
  BY AdmissionAssumption DEF Inv, OneOpener, Tasks
<1>2. tasks' \in [Tasks -> [st : {"new", "running", "done", "gone"},
                            result : Results \cup {"none"}]]
  BY DEF StartOpen, Inv, PoolInv
<1>3. OneOpener'
  BY <1>1, <1>2 DEF StartOpen, OneOpener, Inv, PoolInv
<1> QED BY <1>2, <1>3 DEF StartOpen, Inv, PoolInv

LEMMA JoinInv == ASSUME Inv, NEW r \in Requests, Join(r), UNCHANGED handler PROVE Inv'
<1> DEFINE q == [req[r] EXCEPT !.at = "opening", !.task = opening']
<1>0. Local(req[r]) /\ req[r].at = "tail" /\ req' = [req EXCEPT ![r] = q]
  BY DEF Inv, ReqInv, Join, Set
<1>1. PoolInv' /\ OneOpener' /\ opening' \in Tasks
  <2>1. CASE opening # None /\ UNCHANGED <<tasks, opening>>
    BY <2>1 DEF Inv, PoolInv, OneOpener, Join
  <2>2. CASE opening = None /\ \E t \in Tasks : StartOpen(t)
    BY <2>2, StartOpenInv DEF Join
  <2> QED BY <2>1, <2>2 DEF Join
<1>2. /\ q \in Request /\ q.at = "opening" /\ q.task = opening' /\ q.row = req[r].row
      /\ q.cl = req[r].cl /\ q.up = req[r].up
      /\ q.header = req[r].header /\ q.mark = req[r].mark
  BY <1>0, <1>1 DEF Local, Request, Places, Queued
<1> HIDE DEF q
<1>3. Local(q)
  BY <1>0, <1>1, <1>2 DEF Local, Queued
<1> QED BY <1>0, <1>1, <1>2, <1>3, NoRowStep DEF Join

LEMMA SleepInv == ASSUME Inv, NEW r \in Requests, Sleep(r), UNCHANGED handler PROVE Inv'
<1> DEFINE q == [req[r] EXCEPT !.at = "loop"]
<1>0. Local(req[r]) /\ req[r].at = "tail" /\ req' = [req EXCEPT ![r] = q]
  BY DEF Inv, ReqInv, Sleep, Set
<1>1. PoolInv' /\ OneOpener'
  BY OpenerSame DEF Inv, PoolInv, Sleep, opener
<1>2. /\ q \in Request /\ q.at = "loop" /\ q.row = req[r].row
      /\ q.cl = req[r].cl /\ q.up = req[r].up
      /\ q.header = req[r].header /\ q.mark = req[r].mark
  BY <1>0 DEF Local, Request, Places, Queued
<1> HIDE DEF q
<1>3. Local(q)
  BY <1>0, <1>2 DEF Local, Queued
<1> QED BY <1>0, <1>1, <1>2, <1>3, NoRowStep DEF Sleep

LEMMA OpenedInv == ASSUME Inv, NEW r \in Requests, Opened(r), UNCHANGED handler PROVE Inv'
<1> DEFINE q == [req[r] EXCEPT !.at = "loop", !.task = None]
<1>0. Local(req[r]) /\ req[r].at = "opening" /\ req' = [req EXCEPT ![r] = q]
  BY DEF Inv, ReqInv, Opened, Set
<1>1. PoolInv' /\ OneOpener'
  BY DEF Inv, PoolInv, OneOpener, Opened, WithoutOpener
<1>2. /\ q \in Request /\ q.at = "loop" /\ q.row = req[r].row
      /\ q.cl = req[r].cl /\ q.up = req[r].up
      /\ q.header = req[r].header /\ q.mark = req[r].mark
  BY <1>0 DEF Local, Request, Places, Queued
<1> HIDE DEF q
<1>3. Local(q)
  BY <1>0, <1>2 DEF Local, Queued
<1> QED BY <1>0, <1>1, <1>2, <1>3, NoRowStep DEF Opened

\* Every exception out of acquire
LEMMA LeaveInv ==
    ASSUME Inv, NEW r \in Requests, req[r].at \in Queued, Leave(r), UNCHANGED handler PROVE Inv'
<1> DEFINE q == [req[r] EXCEPT !.at = "cleanup", !.cl = "closing",
                               !.row = None, !.scan = {}, !.task = None]
<1>0. Local(req[r]) /\ req' = [req EXCEPT ![r] = q] /\ CountInv /\ MarkInv
  BY DEF Inv, ReqInv, Leave, Set
<1>1. PoolInv' /\ OneOpener'
  BY DEF Inv, PoolInv, OneOpener, Leave
<1>2. /\ q \in Request /\ q.at = "cleanup" /\ q.row = None /\ q.cl = "closing" /\ q.up = req[r].up
      /\ q.header = req[r].header /\ q.mark = req[r].mark
  BY <1>0 DEF Local, Request, Places, Queued
<1> HIDE DEF q
<1>3. Local(q) /\ req[r].cl = "no"
  BY <1>0, <1>2 DEF Local, Queued
<1>4. RowOf(q) = {} /\ active' = active \ RowOf(req[r])
  <2>1. RowOf(q) = {}
    BY <1>2 DEF RowOf
  <2>2. CASE req[r].at = "check"
    <3>1. req[r].row \in Rows /\ req[r].row # None
      BY <1>0, <2>2, AdmissionAssumption DEF Local, Rows
    <3> QED BY <1>3, <2>1, <2>2, <3>1 DEF RowOf, Holds, Leave
  <2>3. CASE req[r].at # "check"
    <3>1. req[r].row = None
      BY <1>0, <2>3 DEF Local, Queued
    <3> QED BY <2>1, <2>3, <3>1 DEF RowOf, Leave
  <2> QED BY <2>2, <2>3
<1>5. Moves(r, q)
  <2>1. /\ waiting' = waiting - 1 /\ waiting \in Nat /\ waiting <= MaxWaiting
        /\ connections' = connections /\ key_active' = key_active /\ MaxWaiting \in Nat
    BY <1>0, WaitingBounded, AdmissionAssumption DEF Leave, handler
  <2>2. /\ Counted(connections, connections', InConnected(req[r]), InConnected(q))
        /\ Counted(waiting, waiting', InQueue(req[r]), InQueue(q))
        /\ Counted(key_active, key_active', Holds(req[r]), Holds(q))
        /\ waiting' <= MaxWaiting
    BY <1>2, <1>3, <2>1 DEF Counted, InConnected, InQueue, Holds, Queued
  <2> QED BY <1>0, <1>3, <1>4, <2>2 DEF Moves
<1>6. Keeps(r, q)
  <2>1. enabled \in BOOLEAN
    BY <1>0 DEF MarkInv
  <2>2. UNCHANGED <<enabled, idem, sent, crashes>>
    BY DEF handler, attempts
  <2> QED BY <1>2, <1>3, <2>1, <2>2 DEF Keeps
<1> QED BY <1>1, <1>5, <1>6, MoveInv

-----------------------------------------------------------------------------
(* The rest of the gateway, and crashes. *)

\* Steps that move no request
LEMMA SameReq ==
    ASSUME Inv, UNCHANGED <<req, queue, connections, key_active>>, PoolInv', OneOpener', MarkInv'
    PROVE  Inv'
<1>1. req' = req /\ waiting' = waiting /\ active' = active
      /\ connections' = connections /\ key_active' = key_active
  BY DEF queue
<1>2. ReqInv'
  BY <1>1 DEF Inv, ReqInv, Local, Request
<1>3. Connected' = Connected /\ Waiters' = Waiters /\ Holders' = Holders
  BY <1>1 DEF Connected, Waiters, Holders
<1>4. CountersExact'
  BY <1>1, <1>3 DEF Inv, CountInv, CountersExact
<1>5. Excl'
  BY <1>1, <1>3 DEF Inv, CountInv, Excl
<1> QED BY <1>2, <1>4, <1>5 DEF Inv, CountInv

LEMMA EnvironmentInv == ASSUME Inv, Environment, UNCHANGED handler PROVE Inv'
<1>0. PoolInv /\ OneOpener /\ MarkInv
  BY DEF Inv
<1>1. PoolInv' /\ OneOpener' /\ UNCHANGED <<req, queue>>
  <2>1. CASE TickOpen
    BY <2>1, StartOpenInv DEF TickOpen
  <2>2. CASE FailureExpires
    BY <1>0, <2>2 DEF FailureExpires, PoolInv, OneOpener
  <2>3. ASSUME NEW p \in Rows, PoolStep(p) PROVE PoolInv' /\ OneOpener' /\ UNCHANGED <<req, queue>>
    BY <1>0, <2>3, OpenerSame DEF PoolStep, PoolInv, opener
  <2>4. ASSUME NEW t \in Tasks, TaskEnds(t) PROVE PoolInv' /\ OneOpener' /\ UNCHANGED <<req, queue>>
    <3>1. PICK result \in Results : tasks' = [tasks EXCEPT ![t] = [st |-> "done", result |-> result]]
      BY <2>4 DEF TaskEnds
    <3>2. tasks' \in [Tasks -> [st : {"new", "running", "done", "gone"},
                                result : Results \cup {"none"}]]
      BY <1>0, <3>1 DEF PoolInv
    <3>3. OneOpener'
      BY <1>0, <2>4, <3>1 DEF PoolInv, OneOpener, TaskEnds
    <3>4. pool' \in [Rows -> {"new", "open", "quarantined", "gone"}]
      BY <1>0, <2>4 DEF PoolInv, TaskEnds
    <3>5. failure' \in {"wait", "raise", None} /\ opening' \in Tasks \cup {None}
      BY <1>0, <2>4 DEF PoolInv, TaskEnds, Results
    <3> QED BY <2>4, <3>2, <3>3, <3>4, <3>5 DEF PoolInv, TaskEnds
  <2>5. ASSUME NEW t \in Tasks, Callback(t) PROVE PoolInv' /\ OneOpener' /\ UNCHANGED <<req, queue>>
    <3>1. tasks' \in [Tasks -> [st : {"new", "running", "done", "gone"},
                                result : Results \cup {"none"}]]
      BY <1>0, <2>5 DEF PoolInv, Callback
    <3>2. OneOpener'
      BY <1>0, <2>5 DEF PoolInv, OneOpener, Callback, WithoutOpener
    <3> QED BY <1>0, <2>5, <3>1, <3>2 DEF PoolInv, Callback, WithoutOpener
  <2> QED BY <2>1, <2>2, <2>3, <2>4, <2>5 DEF Environment
<1>2. UNCHANGED <<connections, key_active, enabled, idem, sent, crashes>>
  BY DEF handler, attempts
<1>3. MarkInv'
  BY <1>0, <1>1, <1>2 DEF MarkInv
<1> QED BY <1>1, <1>2, <1>3, SameReq

LEMMA AdmissionSame == ASSUME Inv, UNCHANGED admission PROVE PoolInv' /\ OneOpener' /\ UNCHANGED <<req, queue>>
BY DEF Inv, PoolInv, OneOpener, admission, opener

LEMMA RevokeInv == ASSUME Inv, Revoke PROVE Inv'
<1>1. PoolInv' /\ OneOpener' /\ UNCHANGED <<req, queue, connections, key_active>>
  BY AdmissionSame DEF Revoke
<1>2. MarkInv'
  BY <1>1 DEF Inv, MarkInv, Revoke, attempts
<1> QED BY <1>1, <1>2, SameReq

LEMMA PruneInv == ASSUME Inv, NEW m \in Marks, Prune(m) PROVE Inv'
<1>0. MarkInv
  BY DEF Inv
<1>1. PoolInv' /\ OneOpener' /\ UNCHANGED <<req, queue, connections, key_active>>
  BY AdmissionSame DEF Prune
<1>2. MarkInv'
  <2>1. /\ req' = req /\ enabled' = enabled /\ crashes' = crashes
        /\ idem[m].st # "started"
        /\ idem' = [idem EXCEPT ![m] = NoRecord]
        /\ sent' = {r \in sent : req[r].header # m}
    BY <1>1 DEF Prune
  <2>2. NoRecord \in [st : {"absent", "started", "completed", "interrupted"},
                      by : Requests \cup {None}, outcome : {"failed", "succeeded"}]
    BY DEF NoRecord
  <2>3. /\ idem' \in [Marks -> [st : {"absent", "started", "completed", "interrupted"},
                               by : Requests \cup {None}, outcome : {"failed", "succeeded"}]]
        /\ \A n : n # m /\ n \in Marks => idem'[n] = idem[n]
    BY <1>0, <2>1, <2>2 DEF MarkInv
  <2>4. \A r \in Requests : req[r].header \in Marks \cup {None} /\ req[r].mark \in {None, req[r].header}
    BY DEF Inv, ReqInv, Local, Request
  <2>5. \A r \in Requests :
           req'[r].mark # None /\ req'[r].cl # "done"
             => idem'[req'[r].mark].st = "started" /\ idem'[req'[r].mark].by = r
    BY <1>0, <2>1, <2>3, <2>4 DEF MarkInv
  <2>6. \A r \in sent' : r \in sent /\ r \in Requests /\ idem'[req[r].header] = idem[req[r].header]
    BY <1>0, <2>1, <2>3, <2>4 DEF MarkInv
  <2> QED BY <1>0, <2>1, <2>3, <2>5, <2>6 DEF MarkInv
<1> QED BY <1>1, <1>2, SameReq

\* After a crash no request holds anything.
LEMMA CrashInv == ASSUME Inv, Crash PROVE Inv'
<1> DEFINE Dead(r) == [NewRequest EXCEPT !.at = "end", !.cl = "done",
                                         !.outcome = req[r].outcome, !.header = req[r].header]
<1>0. ReqInv /\ PoolInv /\ MarkInv
  BY DEF Inv
<1>1. ASSUME NEW r \in Requests
      PROVE  /\ req[r].at = "idle" => req'[r] = req[r]
             /\ req[r].at # "idle" => req'[r] = Dead(r)
  BY DEF Crash
<1>2. ASSUME NEW r \in Requests
      PROVE  /\ Dead(r) \in Request
             /\ Dead(r).at = "end" /\ Dead(r).cl = "done" /\ Dead(r).row = None
             /\ Dead(r).up = FALSE /\ Dead(r).mark = None
             /\ Dead(r).header = req[r].header /\ Dead(r).outcome = req[r].outcome
  <2>1. req[r].outcome \in {"failed", "succeeded"} /\ req[r].header \in Marks \cup {None}
    BY <1>0 DEF ReqInv, Request
  <2> QED BY <2>1 DEF NewRequest, Request, Places
<1> HIDE DEF Dead
<1>3. ReqInv'
  <2>1. \A r \in Requests : Local(Dead(r))
    BY <1>2 DEF Local, Queued
  <2>2. \A r \in Requests : Local(req'[r]) /\ req'[r] \in Request
    BY <1>0, <1>1, <2>1 DEF ReqInv, Local
  <2>3. req' = [r \in Requests |-> req'[r]]
    BY DEF Crash
  <2>4. req' \in [Requests -> Request]
    BY <2>2, <2>3
  <2>5. (\A r \in Requests : Local(req[r]))'
    BY <2>2 DEF Local, Request
  <2> QED BY <2>4, <2>5 DEF ReqInv
<1>4. Connected' = {} /\ Waiters' = {} /\ Holders' = {}
  BY <1>1, <1>2 DEF Connected, Waiters, Holders, Queued
<1>5. CountInv'
  <2>1. Cardinality({}) = 0
    BY FS_EmptySet
  <2>2. 0 <= MaxWaiting
    BY AdmissionAssumption
  <2>3. connections' = 0 /\ waiting' = 0 /\ key_active' = 0 /\ active' = {}
    BY DEF Crash
  <2>4. CountersExact'
    BY <1>4, <2>1, <2>2, <2>3 DEF CountersExact
  <2>5. Excl'
    BY <1>4 DEF Excl
  <2> QED BY <2>4, <2>5 DEF CountInv
<1>6. PoolInv' /\ OneOpener'
  <2>1. tasks' \in [Tasks -> [st : {"new", "running", "done", "gone"},
                              result : Results \cup {"none"}]]
        /\ \A t \in Tasks : tasks'[t].st # "running"
    BY <1>0 DEF PoolInv, Crash
  <2> QED BY <1>0, <2>1 DEF PoolInv, OneOpener, Crash
<1>7. MarkInv'
  <2>0. crashes' \in 0..MaxCrashes
    <3>1. crashes \in 0..MaxCrashes /\ crashes < MaxCrashes /\ crashes' = crashes + 1
      BY <1>0 DEF Crash, MarkInv
    <3> QED BY <3>1, CompletionAssumption
  <2>1. /\ sent' = sent /\ enabled' = enabled /\ crashes' \in 0..MaxCrashes
        /\ idem' = [m \in Marks |-> Recovered(idem[m])]
    BY <2>0 DEF Crash
  <2>2. ASSUME NEW m \in Marks
        PROVE  /\ idem'[m] \in [st : {"absent", "started", "completed", "interrupted"},
                                by : Requests \cup {None}, outcome : {"failed", "succeeded"}]
               /\ idem'[m].by = idem[m].by /\ idem'[m].outcome = idem[m].outcome
               /\ idem[m].st # "absent" => idem'[m].st # "absent"
               /\ idem'[m].st = "completed" => idem[m].st = "completed"
    BY <1>0, <2>1 DEF MarkInv, Recovered
  <2>3. idem' \in [Marks -> [st : {"absent", "started", "completed", "interrupted"},
                             by : Requests \cup {None}, outcome : {"failed", "succeeded"}]]
    BY <2>1, <2>2
  <2>4. \A r \in Requests : req'[r].mark = None
    BY <1>0, <1>1, <1>2 DEF ReqInv, Local
  <2>5. \A r \in Requests : req[r].header \in Marks \cup {None}
    BY <1>0 DEF ReqInv, Request
  <2>6. ASSUME NEW r \in sent
        PROVE  /\ req'[r].at \notin {"idle", "upload"}
               /\ req'[r].header # None
               /\ idem'[req'[r].header].by = r
               /\ idem'[req'[r].header].st # "absent"
               /\ idem'[req'[r].header].st = "completed"
                    => req'[r].cl = "done" /\ idem'[req'[r].header].outcome = req'[r].outcome
    <3>1. /\ r \in Requests /\ req[r].at # "idle"
          /\ req[r].header # None
          /\ idem[req[r].header].by = r
          /\ idem[req[r].header].st # "absent"
          /\ idem[req[r].header].st = "completed"
               => req[r].cl = "done" /\ idem[req[r].header].outcome = req[r].outcome
      BY <1>0, <2>6 DEF MarkInv
    <3>2. req'[r] = Dead(r)
      BY <1>1, <3>1
    <3>3. /\ req'[r].at = "end" /\ req'[r].cl = "done"
          /\ req'[r].header = req[r].header /\ req'[r].outcome = req[r].outcome
      BY <1>2, <3>1, <3>2
    <3>4. req[r].header \in Marks
      BY <2>5, <3>1
    <3> QED BY <2>2, <3>1, <3>3, <3>4
  <2> QED BY <1>0, <2>1, <2>3, <2>4, <2>6 DEF MarkInv
<1> QED BY <1>3, <1>5, <1>6, <1>7 DEF Inv

-----------------------------------------------------------------------------
(* The invariant holds. *)

LEMMA InitInv == Init => Inv
<1> SUFFICES ASSUME Init PROVE Inv
  OBVIOUS
<1>1. /\ NewRequest \in Request
      /\ NewRequest.at = "idle" /\ NewRequest.cl = "no" /\ NewRequest.row = None
      /\ NewRequest.up = FALSE /\ NewRequest.mark = None
  BY DEF NewRequest, Request, Places
<1>2. Local(NewRequest)
  BY <1>1 DEF Local, Queued
<1>3. \A r \in Requests : req[r] = NewRequest
  BY DEF Init
<1>4. ReqInv
  BY <1>1, <1>2, <1>3 DEF Init, ReqInv
<1>5. Connected = {} /\ Waiters = {} /\ Holders = {}
  BY <1>1, <1>3 DEF Connected, Waiters, Holders, Queued
<1>6. CountInv
  <2>1. Cardinality({}) = 0
    BY FS_EmptySet
  <2>2. CountersExact
    BY <1>5, <2>1, AdmissionAssumption DEF CountersExact, Init
  <2>3. Excl
    BY <1>5 DEF Excl
  <2> QED BY <2>2, <2>3 DEF CountInv
<1>7. PoolInv /\ OneOpener
  <2>1. NewTask \in [st : {"new", "running", "done", "gone"}, result : Results \cup {"none"}]
        /\ NewTask.st # "running"
    BY DEF NewTask
  <2> QED BY <2>1 DEF PoolInv, OneOpener, Init
<1>8. MarkInv
  <2>1. NoRecord \in [st : {"absent", "started", "completed", "interrupted"},
                      by : Requests \cup {None}, outcome : {"failed", "succeeded"}]
    BY DEF NoRecord
  <2> QED BY <1>1, <1>3, <2>1, CompletionAssumption DEF MarkInv, Init
<1> QED BY <1>4, <1>6, <1>7, <1>8 DEF Inv

LEMMA RequestStepInv == ASSUME Inv, NEW r \in Requests, RequestStep(r) PROVE Inv'
<1>1. CASE AcquireStep(r) /\ UNCHANGED handler
  BY <1>1, LoopInv, CheckDroppedInv, JoinInv, SleepInv, OpenedInv DEF AcquireStep
<1>2. CASE AcquireEnd(r) /\ UNCHANGED handler
  <2>1. Leave(r) /\ req[r].at \in Queued
    BY <1>2 DEF AcquireEnd, PoolBusy, OpeningPending, Refused, Queued
  <2> QED BY <1>2, <2>1, LeaveInv
<1>3. CASE HandlerStep(r)
  BY <1>3, AnsweredInv, FailedInv, InvalidateRaisesInv, BodyInv, StreamStartsInv, StreamEndsInv, BackgroundInv,
     CleanedInv, RespondInv DEF HandlerStep
<1>4. CASE Arrive(r) \/ Busy(r) \/ TurnedAway(r) \/ Duplicate(r) \/ Admit(r) \/ Dispatch(r)
  BY <1>4, ArriveInv, BusyInv, TurnedAwayInv, DuplicateInv, AdmitInv, DispatchInv
<1> QED BY <1>1, <1>2, <1>3, <1>4 DEF RequestStep

LEMMA StepInv == Inv /\ [Next]_vars => Inv'
<1> SUFFICES ASSUME Inv, [Next]_vars PROVE Inv'
  OBVIOUS
<1>1. CASE UNCHANGED vars
  <2>1. UNCHANGED admission /\ UNCHANGED <<connections, key_active, enabled, idem, sent, crashes>>
    BY <1>1 DEF vars, handler, attempts
  <2>2. PoolInv' /\ OneOpener' /\ UNCHANGED <<req, queue>>
    BY <2>1, AdmissionSame
  <2>3. MarkInv'
    BY <2>1, <2>2 DEF Inv, MarkInv
  <2> QED BY <2>1, <2>2, <2>3, SameReq
<1>2. CASE Next
  BY <1>2, RequestStepInv, EnvironmentInv, RevokeInv, PruneInv, CrashInv DEF Next
<1> QED BY <1>1, <1>2

(* What is known of every reachable state of acquire and the completion     *)
(* handler, any number of requests, crashes and revocations later.          *)
THEOREM InvariantHolds == Spec => []Inv
BY InitInv, StepInv, PTL DEF Spec

-----------------------------------------------------------------------------
(* What it gives. *)

(* Type correctness: no counter of the gateway goes below zero.             *)
THEOREM TypesHold == Spec => []CompletionTypeOK
<1>1. Inv => CompletionTypeOK
  <2> SUFFICES ASSUME Inv PROVE CompletionTypeOK
    OBVIOUS
  <2>1. Connected \in SUBSET Requests /\ Waiters \in SUBSET Requests /\ Holders \in SUBSET Requests
    BY DEF Connected, Waiters, Holders
  <2>2. /\ Cardinality(Connected) \in Nat /\ Cardinality(Waiters) \in Nat
        /\ Cardinality(Holders) \in Nat
    BY <2>1, FS_Subset, FS_CardinalityType, AdmissionAssumption
  <2>3. connections \in Nat /\ waiting \in Nat /\ key_active \in Nat
    BY <2>2 DEF Inv, CountInv, CountersExact
  <2>4. active \subseteq Rows
    <3>1. \A r \in Holders : req[r].row \in Rows \cup {None}
      BY <2>1 DEF Inv, ReqInv, Request
    <3>2. active = {req[r].row : r \in Holders} \ {None}
      BY DEF Inv, CountInv, CountersExact
    <3> QED BY <3>1, <3>2
  <2> QED BY <2>3, <2>4 DEF Inv, ReqInv, PoolInv, MarkInv, CompletionTypeOK
<1> QED BY <1>1, InvariantHolds, PTL

(* The counters of boundary, of the queue of acquire and of the key, and    *)
(* Sessions.active, are exact: every way out gives back what it holds once, *)
(* but the one whose invalidate meets a failing store, which gives nothing  *)
(* back and leaves it counted.                                              *)
THEOREM CountersHold == Spec => []CountersExact
<1>1. Inv => CountersExact
  BY DEF Inv, CountInv
<1> QED BY <1>1, InvariantHolds, PTL

(* start_open keeps one opening per model, late callbacks notwithstanding.  *)
THEOREM OneOpenerHolds == Spec => []OneOpener
<1>1. Inv => OneOpener
  BY DEF Inv
<1> QED BY <1>1, InvariantHolds, PTL

(* The reservation of acquire and the order of cleanup (close the stream,   *)
(* then release) give every session to one request at a time.               *)
THEOREM SessionsExclusive == Spec => []SessionExclusive
<1>1. Inv => SessionExclusive
  <2> SUFFICES ASSUME Inv, NEW r \in Requests, NEW s \in Requests, r # s, InUse(r), InUse(s)
               PROVE  req[r].row # req[s].row
    BY DEF SessionExclusive
  <2>1. \A t \in Requests : InUse(t) => t \in Holders /\ req[t].row \in Rows
    BY DEF Inv, ReqInv, Local, InUse, Holders
  <2>2. req[r].row # None
    BY <2>1, AdmissionAssumption DEF Rows
  <2> QED BY <2>1, <2>2 DEF Inv, CountInv, Excl
<1> QED BY <1>1, InvariantHolds, PTL

(* The record of an Idempotency-Key belongs to the one request that reached *)
(* the node, before and after a crash.                                      *)
THEOREM AttemptsUnique == Spec => []OneAttempt
<1>1. Inv => OneAttempt
  BY DEF Inv, MarkInv, OneAttempt
<1> QED BY <1>1, InvariantHolds, PTL

-----------------------------------------------------------------------------
(* Revocation. *)

\* A move that does not go to the node leaves nobody else going there.
LEMMA SentMove ==
    ASSUME ReqInv, NEW r \in Requests, NEW q, req' = [req EXCEPT ![r] = q],
           q.at = "sent" => req[r].at = "sent"
    PROVE  \A s \in Requests : req'[s].at = "sent" => req[s].at = "sent"
BY DEF ReqInv

LEMMA RequestRevoked ==
    ASSUME Inv, ~enabled, NEW r \in Requests, RequestStep(r)
    PROVE  /\ ~enabled'
           /\ \A s \in Requests : req'[s].at = "sent" => req[s].at = "sent"
<1>0. ReqInv /\ req[r] \in Request
  BY DEF Inv, ReqInv
<1>1. ~enabled'
  BY DEF RequestStep, HandlerStep, Arrive, Busy, TurnedAway, Duplicate, Admit, Dispatch, KeyNow,
         Answered, Failed, InvalidateRaises, Body, StreamStarts, StreamEnds, Background, Cleaned, Respond, handler
<1>2. \A s \in Requests : req'[s].at = "sent" => req[s].at = "sent"
  <2>1. CASE Arrive(r)
    BY <1>0, <2>1, SentMove DEF Arrive, Set, Request
  <2>2. CASE Busy(r)
    BY <1>0, <2>2, SentMove DEF Busy, Set, Request
  <2>3. CASE TurnedAway(r)
    BY <1>0, <2>3, SentMove DEF TurnedAway, Set, Request
  <2>4. CASE Duplicate(r)
    BY <1>0, <2>4, SentMove DEF Duplicate, Set, Request
  <2>5. CASE Admit(r)
    BY <1>0, <2>5, SentMove DEF Admit, Set, Request
  <2>6. CASE Dispatch(r)
    BY <1>0, <2>6, SentMove DEF Dispatch, KeyNow, Set, Request
  <2>7. CASE Answered(r)
    BY <1>0, <2>7, SentMove DEF Answered, Set, Request
  <2>8. CASE Failed(r)
    BY <1>0, <2>8, SentMove DEF Failed, Set, Request
  <2>9. CASE Body(r)
    BY <1>0, <2>9, SentMove DEF Body, Set, Request
  <2>10. CASE StreamStarts(r)
    BY <1>0, <2>10, SentMove DEF StreamStarts, Set, Request
  <2>11. CASE StreamEnds(r)
    BY <1>0, <2>11, SentMove DEF StreamEnds, Set, Request
  <2>12. CASE Background(r)
    BY <1>0, <2>12, SentMove DEF Background, Set, Request
  <2>13. CASE Cleaned(r)
    BY <1>0, <2>13, SentMove DEF Cleaned, Set, Request
  <2>14. CASE Respond(r)
    BY <1>0, <2>14, SentMove DEF Respond, Set, Request
  <2>17. CASE InvalidateRaises(r)
    BY <1>0, <2>17, SentMove DEF InvalidateRaises, Set, Request
  <2>15. CASE AcquireStep(r)
    <3>1. CASE Loop(r) \/ CheckDropped(r)
      <4>1. PICK S, A : Visit(r, S, A)
        BY <3>1 DEF Loop, CheckDropped
      <4>2. CASE Set(r, [req[r] EXCEPT !.at = "tail", !.row = None, !.scan = {}])
        BY <1>0, <4>2, SentMove DEF Set, Request
      <4>3. ASSUME NEW p, Set(r, [req[r] EXCEPT !.at = "check", !.row = p,
                                                !.scan = {t \in S : t < p}])
            PROVE  \A s \in Requests : req'[s].at = "sent" => req[s].at = "sent"
        BY <1>0, <4>3, SentMove DEF Set, Request
      <4> QED BY <4>1, <4>2, <4>3 DEF Visit
    <3>2. CASE Join(r)
      BY <1>0, <3>2, SentMove DEF Join, Set, Request
    <3>3. CASE Sleep(r) \/ Opened(r)
      BY <1>0, <3>3, SentMove DEF Sleep, Opened, Set, Request
    <3> QED BY <2>15, <3>1, <3>2, <3>3 DEF AcquireStep
  <2>16. CASE AcquireEnd(r)
    BY <1>0, <2>16, SentMove DEF AcquireEnd, PoolBusy, OpeningPending, Refused, Leave, Set, Request
  <2> QED BY <2>1, <2>2, <2>3, <2>4, <2>5, <2>6, <2>7, <2>8, <2>9, <2>10, <2>11, <2>12, <2>13, <2>14, <2>15, <2>16,
           <2>17 DEF RequestStep, HandlerStep
<1> QED BY <1>1, <1>2

(* The key is read again after the wait of acquire, without an await up to  *)
(* the write of its last use and the POST: a revocation is never undone,    *)
(* and no request reaches the node after it.                                *)
THEOREM RevocationHonored == Spec => RevokedForGood
<1>1. ASSUME Inv, [Next]_vars, ~enabled
      PROVE  /\ ~enabled'
             /\ \A r \in Requests : req'[r].at = "sent" => req[r].at = "sent"
  <2>1. ASSUME NEW r \in Requests, RequestStep(r)
        PROVE  /\ ~enabled'
               /\ \A s \in Requests : req'[s].at = "sent" => req[s].at = "sent"
    BY <1>1, <2>1, RequestRevoked
  <2>2. CASE Environment /\ UNCHANGED handler
    BY <1>1, <2>2 DEF Environment, TickOpen, FailureExpires, PoolStep, TaskEnds, Callback, handler
  <2>3. CASE Crash
    <3>1. \A r \in Requests : req'[r].at = "end" \/ req'[r] = req[r]
      BY <2>3 DEF Crash, NewRequest
    <3> QED BY <1>1, <2>3, <3>1 DEF Crash
  <2>4. CASE UNCHANGED vars \/ \E m \in Marks : Prune(m)
    BY <1>1, <2>4 DEF Prune, vars, admission, handler
  <2> QED BY <1>1, <2>1, <2>2, <2>3, <2>4 DEF Next, Revoke
<1> QED BY <1>1, InvariantHolds, PTL DEF RevokedForGood, Spec

=============================================================================
