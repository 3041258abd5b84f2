---------------------------- MODULE RestartProofs ----------------------------
(***************************************************************************)
(* Safety of a node restart, for every set of restarts and ratings and     *)
(* every number of crashes.                                                *)
(***************************************************************************)
EXTENDS NodeRestart, TLAPS

\* Where the rating file holds a rating the node has been ready with
SettledPlaces == { "free", "boot_unlink", "boot_start", "backup", "mark", "write",
                   "commit", "record", "restore_stop", "restore_start",
                   "restore_ready", "monitor_start" }

\* Where the rating of the job is the one in the file
WrittenPlaces == {"stop", "start", "ready", "commit", "record"}

\* What every place of the helper knows about the files.
FilesInv ==
    /\ LastGoodKept
    /\ job.at \in SettledPlaces => files.rating \in proven
    /\ job.at = "mark" => files.backup \in proven
    /\ job.at \in {"backup", "mark", "write"} => job.rating \in Ratings
    /\ job.at \in {"ready", "restore_ready"} => node.cfg = files.rating
    /\ job.at \in {"write", "restore"} => files.applying
    /\ job.at = "record" => ~files.applying
    /\ job.at \in WrittenPlaces /\ job.rating # None => files.rating = job.rating

\* The strengthening of LastGoodKept: types, and FilesInv.
HelperInv == HelperTypeOK /\ FilesInv

\* The coroutine of the gateway has an operation, and one the helper has not
\* heard of before it is posted.
RestartShape ==
    /\ restart.at \notin {"idle", "stuck"} => restart.op \in RestartOps
    /\ restart.at \in {"queued", "drain", "lock"} => record[restart.op] = "absent"
    /\ \A o \in RestartOps : gop[o].st = "absent" => record[o] = "absent"

\* Once drained, nothing begins.
DrainInv ==
    /\ restart.at \in {"lock", "post", "verify", "settle"} => request = "none" \/ restart.immediate
    /\ restart.at \in {"post", "verify", "settle"} => ~wallet

\* The helper has every accepted restart once: waiting, at work, or answered.
QueueInv ==
    /\ \A i \in 1..Len(queue) : record[queue[i].op] = "running" /\ queue[i].op # job.op
    /\ \A i, j \in 1..Len(queue) : queue[i].op = queue[j].op => i = j
    /\ job.op # None => record[job.op] = "running"
    /\ job.op = None => job.rating = None
    /\ job.at \in {"free", "monitor_start", "boot", "boot_unlink", "boot_start"}
         => job.op = None

\* The restart that the gateway waits for is the last one the helper has, so that
\* what it wrote is in the file when it is answered.
LatestInv ==
    restart.at \in {"post", "verify", "settle"} =>
      LET o == restart.op
          r == gop[o].rating
      IN  /\ \A i \in 1..Len(queue) :
                queue[i].op = o => i = Len(queue) /\ queue[i].rating = r
          /\ job.op = o => queue = <<>> /\ job.rating = r
          /\ record[o] = "succeeded" =>
                /\ queue = <<>>
                /\ job.op = None
                /\ r # None => files.rating = r /\ ~files.applying
          /\ restart.at \in {"verify", "settle"} => record[o] = "succeeded"

\* The inductive invariant of the composition.
RestartInv ==
    /\ RestartTypeOK
    /\ FilesInv
    /\ RestartShape
    /\ DrainInv
    /\ QueueInv
    /\ LatestInv

USE SupervisorAssumption

\* Append and Tail, element by element.
LEMMA AppendElements ==
    ASSUME NEW S, NEW s \in Seq(S), NEW e \in S
    PROVE  /\ Append(s, e) \in Seq(S)
           /\ Len(Append(s, e)) = Len(s) + 1
           /\ \A i \in 1..Len(s) : Append(s, e)[i] = s[i]
           /\ Append(s, e)[Len(s) + 1] = e
OBVIOUS

LEMMA Elements ==
    ASSUME NEW S, NEW s \in Seq(S)
    PROVE  Len(s) \in Nat /\ \A i \in 1..Len(s) : s[i] \in S
OBVIOUS

LEMMA TailElements ==
    ASSUME NEW S, NEW s \in Seq(S), s # <<>>
    PROVE  /\ Head(s) \in S
           /\ Head(s) = s[1]
           /\ Len(s) \in Nat /\ Len(s) >= 1
           /\ Tail(s) \in Seq(S)
           /\ Len(Tail(s)) = Len(s) - 1
           /\ \A i \in 1..(Len(s) - 1) : Tail(s)[i] = s[i + 1]
           /\ Len(s) = 1 => Tail(s) = <<>>
OBVIOUS

LEMMA InitHelperInv == RestartInit => HelperInv
BY DEF RestartInit, HelperInit, HelperInv, HelperTypeOK, FilesInv, NoJob, JobPlaces,
       RecordStates, LastGoodKept, SettledPlaces, WrittenPlaces, Waiting

\* One step of the helper keeps its types and what it knows about the files.
LEMMA StepHelperInv == HelperInv /\ HelperStep => HelperInv'
<1> SUFFICES ASSUME HelperInv, HelperStep PROVE HelperInv'
  OBVIOUS
<1> USE DEF HelperInv, HelperTypeOK, FilesInv, LastGoodKept, JobPlaces, RecordStates,
            SettledPlaces, WrittenPlaces, NoJob
<1>1. CASE Acquire
  <2>1. queue \in Seq(Waiting) /\ queue # <<>> => Head(queue) \in Waiting /\ Tail(queue) \in Seq(Waiting)
    OBVIOUS
  <2>2. Head(queue) \in Waiting /\ Tail(queue) \in Seq(Waiting)
    BY <1>1, <2>1 DEF Acquire
  <2>3. Head(queue).op \in RestartOps /\ Head(queue).rating \in Ratings \cup {None}
    BY <2>2 DEF Waiting
  <2> QED BY <1>1, <2>2, <2>3 DEF Acquire
<1>2. CASE Backup
  BY <1>2 DEF Backup, Move
<1>3. CASE Mark
  BY <1>3 DEF Mark, Move
<1>4. CASE Write
  BY <1>4 DEF Write, Move
<1>5. CASE Stop
  BY <1>5 DEF Stop, Move
<1>6. CASE Start
  BY <1>6 DEF Start, Move
<1>7. CASE Ready
  BY <1>7 DEF Ready, Move
<1>8. CASE Commit
  BY <1>8 DEF Commit, Move
<1>9. CASE Succeed
  BY <1>9 DEF Succeed, Finish
<1>10. CASE Fail
  BY <1>10 DEF Fail, Finish
<1>11. CASE Restore
  BY <1>11 DEF Restore, Move
<1>12. CASE Restored
  BY <1>12 DEF Restored, Finish
<1>13. CASE RestoreFailed
  BY <1>13 DEF RestoreFailed, Finish
<1>14. CASE MonitorStart
  BY <1>14 DEF MonitorStart, Move
<1>21. CASE MonitorStartFailed
  BY <1>21 DEF MonitorStartFailed, Move
<1>15. CASE Boot
  BY <1>15 DEF Boot
<1>16. CASE BootUnlink
  BY <1>16 DEF BootUnlink, Move
<1>17. CASE BootStart
  BY <1>17 DEF BootStart, Move
<1>18. CASE MonitorBegin \/ MonitorRestart
  BY <1>18 DEF MonitorBegin, MonitorRestart
<1>19. CASE NodeExit
  BY <1>19 DEF NodeExit
<1>20. CASE HelperCrash
  <2>1. crashes' \in 0..MaxCrashes
    BY <1>20 DEF HelperCrash
  <2>2. job' = [at |-> "boot", op |-> None, rating |-> None]
    BY <1>20 DEF HelperCrash
  <2>3. queue' \in Seq(Waiting)
    BY <1>20 DEF HelperCrash
  <2> QED BY <1>20, <2>1, <2>2, <2>3 DEF HelperCrash
<1> QED BY <1>1, <1>2, <1>3, <1>4, <1>5, <1>6, <1>7, <1>8, <1>9, <1>10, <1>11, <1>12,
           <1>13, <1>14, <1>15, <1>16, <1>17, <1>18, <1>19, <1>20,
           <1>21 DEF HelperStep, JobStep

-----------------------------------------------------------------------------
(* The gateway and the helper. *)

LEMMA InitRestartInv == RestartInit => RestartInv
<1> SUFFICES ASSUME RestartInit PROVE RestartInv
  OBVIOUS
<1>1. HelperInv
  BY InitHelperInv
<1>2. RestartTypeOK
  BY <1>1 DEF HelperInv, RestartInit, RestartTypeOK, NotRestarting, OpStates, RestartPlaces
<1>3. RestartShape /\ DrainInv /\ LatestInv
  BY DEF RestartInit, HelperInit, NotRestarting, RestartShape, DrainInv, LatestInv
<1>4. QueueInv
  BY DEF RestartInit, HelperInit, NoJob, QueueInv
<1> QED BY <1>1, <1>2, <1>3, <1>4 DEF RestartInv, HelperInv

\* What a step of the helper does to the order of the restarts.
LEMMA HelperKeepsOrder ==
    RestartInv /\ HelperStep /\ UNCHANGED gatewayVars => (RestartShape /\ QueueInv /\ LatestInv)'
<1> SUFFICES ASSUME RestartInv, HelperStep, UNCHANGED gatewayVars
             PROVE  (RestartShape /\ QueueInv /\ LatestInv)'
  OBVIOUS
<1>u. UNCHANGED <<gop, restart>>
  BY DEF gatewayVars
<1>t. /\ record \in [RestartOps -> RecordStates]
      /\ queue \in Seq(Waiting)
      /\ job \in [at : JobPlaces, op : RestartOps \cup {None}, rating : Ratings \cup {None}]
      /\ files \in [rating : Ratings, backup : Ratings \cup {None}, applying : BOOLEAN]
      /\ gop \in [RestartOps -> [st : OpStates, rating : Ratings \cup {None}]]
  BY DEF RestartInv, RestartTypeOK, HelperTypeOK
<1>q. \A i \in 1..Len(queue) : queue[i] \in Waiting /\ queue[i].op \in RestartOps
  <2>1. \A i \in 1..Len(queue) : queue[i] \in Waiting
    BY <1>t, Elements
  <2>2. \A w \in Waiting : w.op \in RestartOps
    BY DEF Waiting
  <2> QED BY <2>1, <2>2
<1>i. RestartShape /\ QueueInv /\ LatestInv /\ FilesInv
  BY DEF RestartInv
<1> USE DEF RestartShape, QueueInv, LatestInv
<1>1. CASE Acquire
  <2>1. /\ queue # <<>>
        /\ Head(queue) = queue[1]
        /\ 1 \in 1..Len(queue)
        /\ Len(queue) \in Nat /\ Len(queue) >= 1
        /\ Tail(queue) \in Seq(Waiting)
        /\ Len(Tail(queue)) = Len(queue) - 1
        /\ \A i \in 1..(Len(queue) - 1) : Tail(queue)[i] = queue[i + 1]
        /\ Len(queue) = 1 => Tail(queue) = <<>>
    BY <1>1, <1>t, TailElements DEF Acquire
  <2>2. /\ job'.op = queue[1].op /\ job'.rating = queue[1].rating /\ job'.at \in {"stop", "backup"}
        /\ queue' = Tail(queue)
        /\ UNCHANGED <<files, record>>
        /\ job.op = None
    BY <1>1, <1>i, <2>1 DEF Acquire
  <2>3. queue[1].op \in RestartOps /\ record[queue[1].op] = "running"
    BY <1>q, <1>i, <2>1
  <2>4. \A i \in 1..Len(queue') : queue'[i] = queue[i + 1] /\ i + 1 \in 1..Len(queue) /\ i + 1 # 1
    BY <2>1, <2>2
  <2>5. QueueInv'
    <3>1. \A i \in 1..Len(queue') : record[queue'[i].op] = "running" /\ queue'[i].op # queue[1].op
      <4> SUFFICES ASSUME NEW i \in 1..Len(queue')
                   PROVE  record[queue'[i].op] = "running" /\ queue'[i].op # queue[1].op
        OBVIOUS
      <4>1. queue'[i] = queue[i + 1] /\ i + 1 \in 1..Len(queue) /\ i + 1 # 1
        BY <2>4
      <4>2. record[queue[i + 1].op] = "running"
        BY <1>i, <4>1
      <4>3. queue[i + 1].op # queue[1].op
        BY <1>i, <2>1, <4>1
      <4> QED BY <4>1, <4>2, <4>3
    <3>2. \A i, j \in 1..Len(queue') : queue'[i].op = queue'[j].op => i = j
      <4> SUFFICES ASSUME NEW i \in 1..Len(queue'), NEW j \in 1..Len(queue'),
                          queue'[i].op = queue'[j].op
                   PROVE  i = j
        OBVIOUS
      <4>1. i + 1 = j + 1
        BY <1>i, <2>4
      <4>2. i \in Nat /\ j \in Nat
        BY <2>1, <2>2
      <4> QED BY <4>1, <4>2
    <3>3. job'.op # None
      BY <2>2, <2>3
    <3> QED BY <2>2, <2>3, <3>1, <3>2, <3>3
  <2>6. RestartShape'
    BY <1>i, <1>u, <2>2
  <2>7. LatestInv'
    <3> SUFFICES ASSUME restart.at \in {"post", "verify", "settle"}
                 PROVE  LatestInv'
      BY <1>u
    <3>1. record[restart.op] # "succeeded"
      BY <1>i, <2>1
    <3>2. \A i \in 1..Len(queue') : queue'[i].op = restart.op
             => i = Len(queue') /\ queue'[i].rating = gop[restart.op].rating
      <4> SUFFICES ASSUME NEW i \in 1..Len(queue'), queue'[i].op = restart.op
                   PROVE  i = Len(queue') /\ queue'[i].rating = gop[restart.op].rating
        OBVIOUS
      <4>1. queue'[i] = queue[i + 1] /\ i + 1 \in 1..Len(queue)
        BY <2>4
      <4>2. i + 1 = Len(queue) /\ queue[i + 1].rating = gop[restart.op].rating
        BY <1>i, <4>1
      <4> QED BY <2>1, <2>2, <4>1, <4>2
    <3>3. job'.op = restart.op => queue' = <<>> /\ job'.rating = gop[restart.op].rating
      BY <1>i, <2>1, <2>2
    <3> QED BY <1>i, <1>u, <2>2, <3>1, <3>2, <3>3
  <2> QED BY <2>5, <2>6, <2>7
<1>2. CASE Backup
  BY <1>2, <1>i, <1>t, <1>u, <1>q DEF Backup, Move, FilesInv, RecordStates, WrittenPlaces
<1>3. CASE Mark
  BY <1>3, <1>i, <1>t, <1>u, <1>q DEF Mark, Move, FilesInv, RecordStates, WrittenPlaces
<1>4. CASE Write
  BY <1>4, <1>i, <1>t, <1>u, <1>q DEF Write, Move, FilesInv, RecordStates, WrittenPlaces
<1>5. CASE Stop
  BY <1>5, <1>i, <1>t, <1>u, <1>q DEF Stop, Move, FilesInv, RecordStates, WrittenPlaces
<1>6. CASE Start
  BY <1>6, <1>i, <1>t, <1>u, <1>q DEF Start, Move, FilesInv, RecordStates, WrittenPlaces
<1>7. CASE Ready
  BY <1>7, <1>i, <1>t, <1>u, <1>q DEF Ready, Move, FilesInv, RecordStates, WrittenPlaces
<1>8. CASE Commit
  BY <1>8, <1>i, <1>t, <1>u, <1>q DEF Commit, Move, FilesInv, RecordStates, WrittenPlaces
<1>9. CASE Restore
  BY <1>9, <1>i, <1>t, <1>u, <1>q DEF Restore, Move, FilesInv, RecordStates, WrittenPlaces
<1>10. CASE MonitorStart
  BY <1>10, <1>i, <1>t, <1>u, <1>q DEF MonitorStart, Move, FilesInv, RecordStates, WrittenPlaces
<1>11. CASE MonitorStartFailed
  BY <1>11, <1>i, <1>t, <1>u, <1>q DEF MonitorStartFailed, Move, FilesInv, RecordStates, WrittenPlaces
<1>12. CASE Boot
  BY <1>12, <1>i, <1>t, <1>u, <1>q DEF Boot, FilesInv, RecordStates, WrittenPlaces
<1>13. CASE BootUnlink
  BY <1>13, <1>i, <1>t, <1>u, <1>q DEF BootUnlink, Move, FilesInv, RecordStates, WrittenPlaces
<1>14. CASE BootStart
  BY <1>14, <1>i, <1>t, <1>u, <1>q DEF BootStart, Move, FilesInv, RecordStates, WrittenPlaces
<1>15. CASE MonitorBegin
  BY <1>15, <1>i, <1>t, <1>u, <1>q DEF MonitorBegin, NoJob, FilesInv, RecordStates, WrittenPlaces
<1>16. CASE MonitorRestart
  BY <1>16, <1>i, <1>t, <1>u, <1>q DEF MonitorRestart, NoJob, FilesInv, RecordStates, WrittenPlaces
<1>17. CASE NodeExit
  BY <1>17, <1>i, <1>t, <1>u, <1>q DEF NodeExit, FilesInv, RecordStates, WrittenPlaces
<1>18. CASE Succeed
  BY <1>18, <1>i, <1>t, <1>u, <1>q DEF Succeed, Finish, NoJob, FilesInv, RecordStates, WrittenPlaces
<1>19. CASE Fail
  BY <1>19, <1>i, <1>t, <1>u, <1>q DEF Fail, Finish, NoJob, FilesInv, RecordStates, WrittenPlaces
<1>20. CASE Restored
  BY <1>20, <1>i, <1>t, <1>u, <1>q DEF Restored, Finish, NoJob, FilesInv, RecordStates, WrittenPlaces
<1>21. CASE RestoreFailed
  BY <1>21, <1>i, <1>t, <1>u, <1>q DEF RestoreFailed, Finish, NoJob, FilesInv, RecordStates, WrittenPlaces
<1>22. CASE HelperCrash
  BY <1>22, <1>i, <1>t, <1>u, <1>q DEF HelperCrash, NoJob, FilesInv, RecordStates, WrittenPlaces
<1> QED BY <1>1, <1>2, <1>3, <1>4, <1>5, <1>6, <1>7, <1>8, <1>9, <1>10, <1>11, <1>12, <1>13, <1>14, <1>15, <1>16, <1>17, <1>18, <1>19, <1>20, <1>21, <1>22 DEF HelperStep, JobStep

\* A step of the gateway leaves the helper alone, or hands it one more restart.
LEMMA GatewayKeeps == RestartInv /\ GatewayStep => RestartInv'
<1> SUFFICES ASSUME RestartInv, GatewayStep PROVE RestartInv'
  OBVIOUS
<1> USE DEF RestartInv, RestartTypeOK, OpStates, RestartPlaces, RestartShape, DrainInv
<1>f. ASSUME UNCHANGED <<files, record, queue, job, node, proven>>, crashes' \in 0..MaxCrashes
      PROVE  (HelperTypeOK /\ FilesInv /\ QueueInv)'
  BY <1>f DEF HelperTypeOK, FilesInv, LastGoodKept, QueueInv
<1>h. ASSUME UNCHANGED helperVars
      PROVE  (HelperTypeOK /\ FilesInv /\ QueueInv)'
  BY <1>f, <1>h DEF helperVars, HelperTypeOK
<1>e. ASSUME NEW o \in RestartOps, NEW st \in OpStates,
              gop[o].st # "absent" \/ record[o] = "absent", UNCHANGED <<helperVars, applied, request, wallet>>,
              \/ /\ gop' = [gop EXCEPT ![o].st = st]
                 /\ st # "absent"
                 /\ \/ restart' = NotRestarting
                    \/ /\ restart' \in [at : {"queued"}, op : {o}, immediate : BOOLEAN]
                       /\ record[o] = "absent"
              \/ Stuck
      PROVE  RestartInv'
  <2>1. (HelperTypeOK /\ FilesInv /\ QueueInv)'
    BY <1>e, <1>h
  <2>2. UNCHANGED <<record, request, wallet>> /\ applied' \in Ratings \cup {None}
    BY <1>e DEF helperVars
  <2>3. /\ gop' \in [RestartOps -> [st : OpStates, rating : Ratings \cup {None}]]
        /\ \A x \in RestartOps : gop'[x].st = "absent" => record[x] = "absent"
    <3>1. CASE Stuck
      BY <3>1 DEF Stuck
    <3>2. CASE gop' = [gop EXCEPT ![o].st = st] /\ st # "absent"
      <4>1. [gop[o] EXCEPT !.st = st] \in [st : OpStates, rating : Ratings \cup {None}]
        OBVIOUS
      <4>2. [gop[o] EXCEPT !.st = st].st = st
        OBVIOUS
      <4> DEFINE changed == [gop[o] EXCEPT !.st = st]
      <4> HIDE DEF changed
      <4>3. gop' = [gop EXCEPT ![o] = changed] /\ changed.st = st
            /\ changed \in [st : OpStates, rating : Ratings \cup {None}]
        BY <3>2, <4>1, <4>2 DEF changed
      <4> QED BY <3>2, <4>3
    <3> QED BY <1>e, <3>1, <3>2
  <2>4. /\ restart' \in [at : RestartPlaces, op : RestartOps \cup {None}, immediate : BOOLEAN]
        /\ restart'.at \in {"idle", "queued", "stuck"}
        /\ restart'.at = "queued" => restart'.op = o /\ record[o] = "absent"
    <3>1. CASE Stuck \/ restart' = NotRestarting
      <4>1. PICK at \in {"idle", "stuck"} :
               restart' = [at |-> at, op |-> None, immediate |-> FALSE]
        BY <3>1 DEF Stuck, NotRestarting
      <4> QED BY <4>1
    <3>2. CASE restart' \in [at : {"queued"}, op : {o}, immediate : BOOLEAN] /\ record[o] = "absent"
      BY <3>2
    <3> QED BY <1>e, <3>1, <3>2
  <2>5. RestartTypeOK'
    BY <2>1, <2>2, <2>3, <2>4
  <2>6. RestartShape' /\ DrainInv'
    BY <2>2, <2>3, <2>4
  <2>7. LatestInv'
    BY <2>4 DEF LatestInv
  <2> QED BY <2>1, <2>5, <2>6, <2>7
<1>1. CASE Drained
  <2>1. (HelperTypeOK /\ FilesInv /\ QueueInv)'
    BY <1>1, <1>h DEF Drained
  <2>2. LatestInv'
    BY <1>1 DEF Drained, LatestInv, helperVars
  <2> QED BY <1>1, <2>1, <2>2 DEF Drained, helperVars
<1>2. CASE DrainTimeout
  <2>1. restart.op \in RestartOps /\ (gop[restart.op].st # "absent" \/ record[restart.op] = "absent")
    BY <1>2 DEF DrainTimeout
  <2> QED BY <1>2, <1>e, <2>1 DEF DrainTimeout, End, SetOp
<1>3. CASE RestartAnswered
  <2>1. (HelperTypeOK /\ FilesInv /\ QueueInv)'
    BY <1>3, <1>h DEF RestartAnswered
  <2>2. LatestInv'
    BY <1>3 DEF RestartAnswered, LatestInv, helperVars
  <2> QED BY <1>3, <2>1, <2>2 DEF RestartAnswered, helperVars
<1>4. CASE RestartLost
  <2>1. restart.op \in RestartOps /\ (gop[restart.op].st # "absent" \/ record[restart.op] = "absent")
    BY <1>4 DEF RestartLost
  <2> QED BY <1>4, <1>e, <2>1 DEF RestartLost, End, SetOp
<1>5. CASE RestartVerified
  <2>1. (HelperTypeOK /\ FilesInv /\ QueueInv)'
    BY <1>5, <1>h DEF RestartVerified
  <2>2. LatestInv'
    BY <1>5 DEF RestartVerified, LatestInv, helperVars, End, Stuck, SetOp, NotRestarting
  <2> QED BY <1>5, <2>1, <2>2 DEF RestartVerified, helperVars, End, Stuck, SetOp, NotRestarting
<1>6. CASE RestartUnverified
  <2>1. restart.op \in RestartOps /\ (gop[restart.op].st # "absent" \/ record[restart.op] = "absent")
    BY <1>6 DEF RestartUnverified
  <2> QED BY <1>6, <1>e, <2>1 DEF RestartUnverified, End, SetOp
<1>16. CASE RestartRefused
  <2>1. restart.op \in RestartOps /\ (gop[restart.op].st # "absent" \/ record[restart.op] = "absent")
    BY <1>16 DEF RestartRefused
  <2> QED BY <1>16, <1>e, <2>1 DEF RestartRefused, End, SetOp
<1>17. CASE RestartSettled
  <2>1. restart.op \in RestartOps /\ (gop[restart.op].st # "absent" \/ record[restart.op] = "absent")
    BY <1>17 DEF RestartSettled
  <2> QED BY <1>17, <1>e, <2>1 DEF RestartSettled, End, SetOp
<1>7. CASE RequestBegin
  <2>1. (HelperTypeOK /\ FilesInv /\ QueueInv)'
    BY <1>7, <1>h DEF RequestBegin
  <2>2. LatestInv'
    BY <1>7 DEF RequestBegin, LatestInv, helperVars, Maintenance
  <2> QED BY <1>7, <2>1, <2>2 DEF RequestBegin, helperVars, Maintenance
<1>8. CASE RequestDispatch
  <2>1. (HelperTypeOK /\ FilesInv /\ QueueInv)'
    BY <1>8, <1>h DEF RequestDispatch
  <2>2. LatestInv'
    BY <1>8 DEF RequestDispatch, LatestInv, helperVars, Maintenance
  <2> QED BY <1>8, <2>1, <2>2 DEF RequestDispatch, helperVars, Maintenance
<1>9. CASE RequestEnd
  <2>1. (HelperTypeOK /\ FilesInv /\ QueueInv)'
    BY <1>9, <1>h DEF RequestEnd
  <2>2. LatestInv'
    BY <1>9 DEF RequestEnd, LatestInv, helperVars
  <2> QED BY <1>9, <2>1, <2>2 DEF RequestEnd, helperVars
<1>10. CASE WalletBegin
  <2>1. (HelperTypeOK /\ FilesInv /\ QueueInv)'
    BY <1>10, <1>h DEF WalletBegin
  <2>2. LatestInv'
    BY <1>10 DEF WalletBegin, LatestInv, helperVars, Maintenance
  <2> QED BY <1>10, <2>1, <2>2 DEF WalletBegin, helperVars, Maintenance
<1>11. CASE WalletEnd
  <2>1. (HelperTypeOK /\ FilesInv /\ QueueInv)'
    BY <1>11, <1>h DEF WalletEnd
  <2>2. LatestInv'
    BY <1>11 DEF WalletEnd, LatestInv, helperVars
  <2> QED BY <1>11, <2>1, <2>2 DEF WalletEnd, helperVars
<1>12. ASSUME NEW op \in RestartOps, NEW immediate \in BOOLEAN, RestartRequest(op, immediate)
       PROVE  RestartInv'
  <2>1. record[op] = "absent" /\ UNCHANGED <<helperVars, applied, request, wallet>>
    BY <1>12 DEF RestartRequest
  <2>2. CASE Stuck
    BY <1>e, <2>1, <2>2
  <2>3. CASE ~Stuck
    BY <1>12, <1>e, <2>1, <2>3 DEF RestartRequest
  <2> QED BY <2>2, <2>3
<1>13. ASSUME NEW rating \in Ratings \cup {None}, RestartDrain(rating)
       PROVE  RestartInv'
  <2>1. (HelperTypeOK /\ FilesInv /\ QueueInv)'
    BY <1>13, <1>h DEF RestartDrain
  <2>2. LatestInv'
    BY <1>13 DEF RestartDrain, LatestInv
  <2> QED BY <1>13, <2>1, <2>2 DEF RestartDrain, helperVars
<1>14. CASE GatewayRestart
  <2>1. crashes' \in 0..MaxCrashes
    BY <1>14 DEF GatewayRestart, HelperTypeOK
  <2>2. (HelperTypeOK /\ FilesInv /\ QueueInv)'
    BY <1>14, <1>f, <2>1 DEF GatewayRestart
  <2>3. LatestInv'
    BY <1>14 DEF GatewayRestart, LatestInv, NotRestarting
  <2>4. /\ gop' \in [RestartOps -> [st : OpStates, rating : Ratings \cup {None}]]
        /\ \A o \in RestartOps : gop'[o].st = "absent" => gop[o].st = "absent"
    BY <1>14 DEF GatewayRestart, Interrupted
  <2> QED BY <1>14, <2>2, <2>3, <2>4 DEF GatewayRestart, NotRestarting
<1>15. CASE RestartPost
  <2>o. /\ restart.op \in RestartOps /\ record[restart.op] = "absent"
        /\ restart' = [restart EXCEPT !.at = "post"]
        /\ gop' = [gop EXCEPT ![restart.op].st = "restarting"]
        /\ ~wallet /\ (request = "none" \/ restart.immediate)
        /\ UNCHANGED <<applied, request, wallet>>
    BY <1>15 DEF RestartPost, SetOp
  <2>g. /\ gop' \in [RestartOps -> [st : OpStates, rating : Ratings \cup {None}]]
        /\ gop'[restart.op].rating = gop[restart.op].rating
        /\ \A o \in RestartOps : gop'[o].st = "absent" => o # restart.op /\ gop[o].st = "absent"
    BY <2>o
  <2>n. /\ \A i \in 1..Len(queue) : queue[i].op # restart.op
        /\ job.op # restart.op
    BY <2>o DEF QueueInv
  <2>1. CASE UNCHANGED helperVars
    <3>1. (HelperTypeOK /\ FilesInv /\ QueueInv)'
      BY <2>1, <1>h
    <3>2. LatestInv'
      BY <2>1, <2>o, <2>n DEF LatestInv, helperVars
    <3> QED BY <2>1, <2>o, <2>g, <3>1, <3>2 DEF helperVars
  <2>2. CASE /\ Accept(restart.op, gop[restart.op].rating)
             /\ UNCHANGED <<files, job, node, proven, crashes>>
    <3> DEFINE w == [op |-> restart.op, rating |-> gop[restart.op].rating]
    <3>1. w \in Waiting /\ w.op = restart.op /\ w.rating = gop[restart.op].rating
      BY <2>o DEF Waiting
    <3> HIDE DEF w
    <3>2. queue \in Seq(Waiting) /\ queue' = Append(queue, w)
      BY <2>2 DEF Accept, HelperTypeOK, w
    <3>3. /\ queue' \in Seq(Waiting)
          /\ Len(queue) \in Nat /\ Len(queue') = Len(queue) + 1
          /\ \A i \in 1..Len(queue) : queue'[i] = queue[i]
          /\ queue'[Len(queue) + 1] = w
      BY <3>1, <3>2, AppendElements, Elements
    <3>4. \A i \in 1..Len(queue') : \/ i \in 1..Len(queue) /\ queue'[i] = queue[i]
                                    \/ i = Len(queue') /\ queue'[i] = w
      BY <3>3
    <3>5. /\ record' = [record EXCEPT ![restart.op] = "running"]
          /\ record \in [RestartOps -> RecordStates]
      BY <2>2 DEF Accept, HelperTypeOK
    <3>6. HelperTypeOK'
      BY <2>2, <3>3, <3>5 DEF HelperTypeOK, RecordStates
    <3>7. FilesInv'
      BY <2>2 DEF FilesInv, LastGoodKept
    <3>8. QueueInv'
      <4>1. \A i \in 1..Len(queue') : record'[queue'[i].op] = "running" /\ queue'[i].op # job.op
        BY <2>o, <2>n, <3>1, <3>4, <3>5, Elements, <3>2 DEF QueueInv, Waiting
      <4>2. \A i, j \in 1..Len(queue') : queue'[i].op = queue'[j].op => i = j
        BY <2>n, <3>1, <3>4 DEF QueueInv
      <4> QED BY <2>2, <2>n, <3>5, <4>1, <4>2, <2>o DEF QueueInv, HelperTypeOK
    <3>9. LatestInv'
      <4>1. \A i \in 1..Len(queue') : queue'[i].op = restart.op
              => i = Len(queue') /\ queue'[i].rating = gop[restart.op].rating
        BY <2>n, <3>1, <3>4
      <4> QED BY <2>2, <2>o, <2>g, <2>n, <3>5, <4>1 DEF LatestInv
    <3> QED BY <2>2, <2>o, <2>g, <3>5, <3>6, <3>7, <3>8, <3>9
  <2> QED BY <1>15, <2>1, <2>2 DEF RestartPost
<1> QED BY <1>1, <1>2, <1>3, <1>4, <1>5, <1>6, <1>7, <1>8, <1>9, <1>10, <1>11, <1>12, <1>13, <1>14, <1>15,
           <1>16, <1>17 DEF GatewayStep

\* A step of anybody keeps the inductive invariant.
LEMMA NextRestartInv == RestartInv /\ [RestartNext]_restartVars => RestartInv'
<1> SUFFICES ASSUME RestartInv, [RestartNext]_restartVars PROVE RestartInv'
  OBVIOUS
<1>1. CASE HelperStep /\ UNCHANGED gatewayVars
  <2>1. (HelperTypeOK /\ FilesInv)'
    BY <1>1, StepHelperInv DEF RestartInv, RestartTypeOK, HelperInv
  <2>2. (RestartShape /\ QueueInv /\ LatestInv)'
    BY <1>1, HelperKeepsOrder
  <2> QED BY <1>1, <2>1, <2>2 DEF RestartInv, RestartTypeOK, DrainInv, gatewayVars
<1>2. CASE GatewayStep
  BY <1>2, GatewayKeeps
<1>3. CASE UNCHANGED restartVars
  BY <1>3 DEF restartVars, helperVars, gatewayVars, RestartInv, RestartTypeOK, HelperTypeOK,
              FilesInv, LastGoodKept, RestartShape, DrainInv, QueueInv, LatestInv
<1> QED BY <1>1, <1>2, <1>3 DEF RestartNext

\* RestartInv holds in every reachable state: what each place of the helper and of
\* the gateway's _restart knows about files, records and the queue in between.
THEOREM RestartInductive == RestartSpec => []RestartInv
BY InitRestartInv, NextRestartInv, PTL DEF RestartSpec

\* Every reachable state of gateway and helper has the declared types.
THEOREM RestartTypes == RestartSpec => []RestartTypeOK
<1>1. RestartInv => RestartTypeOK
  BY DEF RestartInv
<1> QED BY <1>1, RestartInductive, PTL

\* Supervisor.restart and lifespan: whenever the helper dies, the rating it will
\* start the node with is one the node has been ready with.
THEOREM LastGoodIsKept == RestartSpec => []LastGoodKept
<1>1. RestartInv => LastGoodKept
  BY DEF RestartInv, FilesInv
<1> QED BY <1>1, RestartInductive, PTL

\* _restart: the helper is asked only when requests and wallet operations are gone,
\* and none begins before the node is verified.
THEOREM DrainedFirst == RestartSpec => []DrainedBeforeRestart
<1>1. RestartInv => DrainedBeforeRestart
  BY DEF RestartInv, DrainInv, DrainedBeforeRestart
<1> QED BY <1>1, RestartInductive, PTL

\* The one step that records a rating as applied records the one a start-up uses.
LEMMA RecordsBoot ==
    ASSUME RestartInv, RestartNext, applied' # applied
    PROVE  /\ files.rating = applied' /\ ~files.applying
           /\ UNCHANGED helperVars
<1>1. RestartVerified
  BY DEF RestartNext, gatewayVars, GatewayStep, Drained, DrainTimeout, RestartPost,
         RestartAnswered, RestartLost, RestartUnverified, RestartRefused, RestartSettled,
         RequestBegin, RequestDispatch, RequestEnd, WalletBegin, WalletEnd, GatewayRestart, RestartRequest, RestartDrain
<1>2. /\ restart.at = "verify"
      /\ gop[restart.op].rating # None
      /\ applied' = gop[restart.op].rating
      /\ UNCHANGED helperVars
  BY <1>1 DEF RestartVerified
<1> QED BY <1>2 DEF RestartInv, LatestInv

\* _restart: the rating recorded as applied is the one in the node's file, and the
\* node has been ready with it, whatever earlier restarts the helper still had.
THEOREM AppliedWasEffective == RestartSpec => AppliedIsEffective
<1> DEFINE Effective == applied' # applied => files.rating = applied' /\ applied' \in proven
<1>1. RestartInv /\ [RestartNext]_restartVars => [Effective]_restartVars
  <2> SUFFICES ASSUME RestartInv, RestartNext, applied' # applied
               PROVE  files.rating = applied' /\ applied' \in proven
    BY DEF restartVars
  <2>1. files.rating = applied' /\ ~files.applying
    BY RecordsBoot
  <2> QED BY <2>1 DEF RestartInv, FilesInv, LastGoodKept
<1> QED BY <1>1, RestartInductive, PTL DEF RestartSpec, AppliedIsEffective

\* Only the node becoming ready adds to the ratings it has been ready with: a
\* roll-back ends with one that is there already.
LEMMA OnlyReadyProves ==
    ASSUME RestartInv, HelperStep, ~Ready
    PROVE  proven' = proven
<1>1. CASE Restored
  <2>1. node.cfg = files.rating /\ files.rating \in proven
    BY <1>1 DEF Restored, RestartInv, FilesInv, SettledPlaces
  <2> QED BY <1>1, <2>1 DEF Restored
<1>2. CASE ~Restored
  BY <1>2 DEF HelperStep, JobStep, Acquire, Backup, Mark, Write, Stop, Start, Commit, Succeed,
              Fail, Restore, RestoreFailed, MonitorBegin, MonitorStart, MonitorStartFailed,
              MonitorRestart, NodeExit, HelperCrash, Boot, BootUnlink, BootStart
<1> QED BY <1>1, <1>2

\* The steps of helper and gateway are steps of SafeConfig, or change none of it.
LEMMA StepConfig ==
    ASSUME RestartInv, RestartInv', [RestartNext]_restartVars
    PROVE  [Config!Next]_<<BootRating, proven, applied>>
<1> USE DEF Config!Next, Config!Prove, Config!Adopt, Config!Record
<1>1. proven \subseteq Ratings /\ node.cfg \in Ratings /\ BootRating' \in proven'
  BY DEF RestartInv, RestartTypeOK, HelperTypeOK, FilesInv, LastGoodKept, BootRating
<1>2. CASE HelperStep /\ UNCHANGED gatewayVars
  <2>1. applied' = applied
    BY <1>2 DEF gatewayVars
  <2>2. CASE Ready
    <3>1. BootRating' = BootRating /\ proven' = proven \cup {node.cfg}
      BY <2>2 DEF Ready, BootRating
    <3> QED BY <1>1, <2>1, <3>1
  <2>3. CASE ~Ready
    <3>1. proven' = proven
      BY <1>2, <2>3, OnlyReadyProves
    <3> QED BY <1>1, <2>1, <3>1
  <2> QED BY <2>2, <2>3
<1>3. CASE GatewayStep
  <2>1. UNCHANGED <<files, proven>>
    BY <1>3 DEF GatewayStep, Drained, DrainTimeout, RestartPost, RestartAnswered, RestartLost,
           RestartVerified, RestartUnverified, RestartRefused, RestartSettled, RequestBegin,
           RequestDispatch, RequestEnd,
           WalletBegin, WalletEnd, GatewayRestart, RestartRequest, RestartDrain, helperVars
  <2>2. BootRating' = BootRating
    BY <2>1 DEF BootRating
  <2>3. applied' # applied => applied' = BootRating
    BY <1>3, RecordsBoot DEF RestartNext, BootRating
  <2> QED BY <2>1, <2>2, <2>3
<1>4. CASE UNCHANGED restartVars
  BY <1>4 DEF restartVars, helperVars, gatewayVars, BootRating
<1> QED BY <1>2, <1>3, <1>4 DEF RestartNext

\* Supervisor.restart, lifespan and _restart together implement SafeConfig: the
\* rating a start-up uses is replaced in one step, by a rating the node has been
\* ready with, and the gateway records no other as applied.
THEOREM ImplementsSafeConfig == RestartSpec => AppliesAtomically
<1>1. RestartInit => Config!Init
  BY DEF RestartInit, HelperInit, Config!Init, BootRating
<1>2. RestartInv /\ RestartInv' /\ [RestartNext]_restartVars
        => [Config!Next]_<<BootRating, proven, applied>>
  BY StepConfig
<1> QED BY <1>1, <1>2, RestartInductive, PTL DEF RestartSpec, AppliesAtomically, Config!Spec
-----------------------------------------------------------------------------
(* What became of the operations: a second invariant, on top of RestartInv.  *)

\* Operation o may still be reported as succeeded, or is, and no step of the helper
\* can make it fail any more.
Stands(o) ==
    \/ record[o] = "succeeded"
    \/ /\ record[o] = "running"
       /\ o = job.op => job.at = "record"
       /\ \A i \in 1..Len(queue) : queue[i].op # o

\* The node came with rating r, or an operation that stands asked for it.
Ordered(r) ==
    r = DefaultRating \/ \E o \in RestartOps : gop[o].rating = r /\ Stands(o)

\* The helper works on the ratings the gateway's operations have.
AskedInv ==
    /\ \A i \in 1..Len(queue) : queue[i].rating = gop[queue[i].op].rating
    /\ job.op # None => job.rating = gop[job.op].rating

\* Where the helper holds an ordered rating: not in the file while one is tried
\* out, but then in the backup.
OrderInv ==
    /\ Ordered(BootRating)
    /\ job.at \in SettledPlaces \ {"commit"} => Ordered(files.rating)
    /\ job.at \in {"stop", "start", "ready", "commit"} =>
          IF job.rating = None THEN Ordered(files.rating) ELSE files.applying
    /\ job.at = "mark" => Ordered(files.backup)

\* Operation o was carried out, the rating shown as applied is its rating, and no
\* step can make it fail any more.
Carried(o) ==
    /\ gop[o].rating = applied
    /\ record[o] = "succeeded"
    /\ \/ gop[o].st \in {"interrupted", "succeeded"}
       \/ /\ gop[o].st = "restarting"
          /\ restart.at = "stuck" \/ (restart.at = "settle" /\ restart.op = o)

\* What the gateway shows, and what the helper's word for it rests on.
ShownInv ==
    /\ \A o \in RestartOps : gop[o].st = "succeeded" => record[o] = "succeeded"
    /\ applied # None => \E o \in RestartOps : Carried(o)
    /\ \A o \in RestartOps : record[o] = "succeeded" => gop[o].rating \in proven \cup {None}
    /\ restart.at \notin {"idle", "stuck"}
         => gop[restart.op].st \in {"queued", "draining", "restarting"}
    /\ restart.at \in {"post", "verify", "settle"} => gop[restart.op].st = "restarting"

TruthInv == AskedInv /\ OrderInv /\ ShownInv

\* What holds of the queue and its head, element by element.
LEMMA AcquireElements ==
    ASSUME RestartInv, Acquire
    PROVE  /\ 1 \in 1..Len(queue)
           /\ job'.op = queue[1].op /\ job'.rating = queue[1].rating
           /\ job'.at = IF queue[1].rating = None THEN "stop" ELSE "backup"
           /\ queue[1].op \in RestartOps /\ queue[1].rating \in Ratings \cup {None}
           /\ \A i \in 1..Len(queue') : queue'[i] = queue[i + 1] /\ i + 1 \in 1..Len(queue)
<1>1. queue \in Seq(Waiting) /\ queue # <<>>
  BY DEF Acquire, RestartInv, RestartTypeOK, HelperTypeOK
<1>2. /\ Head(queue) \in Waiting /\ Head(queue) = queue[1]
      /\ Len(queue) \in Nat /\ Len(queue) >= 1
      /\ Len(Tail(queue)) = Len(queue) - 1
      /\ \A i \in 1..(Len(queue) - 1) : Tail(queue)[i] = queue[i + 1]
  BY <1>1, TailElements
<1>3. queue[1].op \in RestartOps /\ queue[1].rating \in Ratings \cup {None}
  BY <1>2 DEF Waiting
<1>4. queue' = Tail(queue) /\ job' = [at |-> IF queue[1].rating = None THEN "stop" ELSE "backup",
                                      op |-> queue[1].op, rating |-> queue[1].rating]
  BY <1>2 DEF Acquire
<1> QED BY <1>2, <1>3, <1>4

\* No step of the helper makes an operation fail that stands.
LEMMA StandsOn ==
    ASSUME RestartInv, HelperStep, NEW o \in RestartOps, Stands(o)
    PROVE  Stands(o)'
<1>i. /\ QueueInv
      /\ record \in [RestartOps -> RecordStates]
      /\ job \in [at : JobPlaces, op : RestartOps \cup {None}, rating : Ratings \cup {None}]
  BY DEF RestartInv, RestartTypeOK, HelperTypeOK
<1> USE DEF Stands
<1>1. CASE Acquire
  <2>1. record' = record
    BY <1>1 DEF Acquire
  <2>2. CASE record[o] = "succeeded"
    BY <2>1, <2>2
  <2>3. CASE \A i \in 1..Len(queue) : queue[i].op # o
    BY <1>1, <2>1, <2>3, AcquireElements
  <2> QED BY <2>2, <2>3
<1>2. CASE Succeed \/ Fail \/ Restored \/ RestoreFailed
  BY <1>2, <1>i DEF Succeed, Fail, Restored, RestoreFailed, Finish, NoJob, QueueInv
<1>3. CASE Backup \/ Mark \/ Write \/ Stop \/ Start \/ Ready \/ Commit \/ Restore
           \/ MonitorStart \/ MonitorStartFailed \/ Boot \/ BootUnlink \/ BootStart
  BY <1>3, <1>i DEF Backup, Mark, Write, Stop, Start, Ready, Commit, Restore, MonitorStart,
                    MonitorStartFailed, Boot, BootUnlink, BootStart, Move
<1>4. CASE MonitorBegin \/ MonitorRestart \/ NodeExit \/ HelperCrash
  BY <1>4, <1>i DEF MonitorBegin, MonitorRestart, NodeExit, HelperCrash, NoJob
<1> QED BY <1>1, <1>2, <1>3, <1>4 DEF HelperStep, JobStep

LEMMA InitTruth == RestartInit => TruthInv
BY DEF RestartInit, HelperInit, NoJob, NotRestarting, TruthInv, AskedInv, OrderInv, Ordered,
       ShownInv, BootRating

\* A step of the helper keeps ordered ratings where they are needed.
LEMMA HelperKeepsOrdered ==
    ASSUME RestartInv, AskedInv, OrderInv, HelperStep, UNCHANGED gatewayVars
    PROVE  OrderInv'
<1> DEFINE Still(r) == r = DefaultRating \/ \E o \in RestartOps : gop'[o].rating = r /\ Stands(o)'
<1>1. \A r : Ordered(r) => Still(r)
  BY StandsOn DEF Ordered, gatewayVars
<1>2. /\ Ordered(BootRating)' <=> Still(BootRating')
      /\ Ordered(files.rating)' <=> Still(files'.rating)
      /\ Ordered(files.backup)' <=> Still(files'.backup)
  BY DEF Ordered
<1>i. /\ QueueInv /\ FilesInv
      /\ record \in [RestartOps -> RecordStates]
      /\ job \in [at : JobPlaces, op : RestartOps \cup {None}, rating : Ratings \cup {None}]
      /\ files \in [rating : Ratings, backup : Ratings \cup {None}, applying : BOOLEAN]
      /\ gop \in [RestartOps -> [st : OpStates, rating : Ratings \cup {None}]]
      /\ gop' = gop
  BY DEF RestartInv, RestartTypeOK, HelperTypeOK, gatewayVars
<1>o. Ordered(BootRating) <=> IF files.applying THEN Ordered(files.backup) ELSE Ordered(files.rating)
  BY DEF BootRating
<1>b. Still(BootRating') <=> IF files'.applying THEN Still(files'.backup) ELSE Still(files'.rating)
  BY DEF BootRating
<1> SUFFICES /\ IF files'.applying THEN Still(files'.backup) ELSE Still(files'.rating)
             /\ job'.at \in SettledPlaces \ {"commit"} => Still(files'.rating)
             /\ job'.at \in {"stop", "start", "ready", "commit"} =>
                   IF job'.rating = None THEN Still(files'.rating) ELSE files'.applying
             /\ job'.at = "mark" => Still(files'.backup)
  BY <1>2, <1>b DEF OrderInv
<1>c. ASSUME Commit PROVE Still(files.rating)
  <2>1. CASE job.rating = None
    BY <1>c, <2>1, <1>1 DEF Commit, Move, OrderInv
  <2>2. CASE job.rating # None
    <3>1. PICK o \in RestartOps :
            job.op = o /\ gop[o].rating = files.rating /\ record[o] = "running"
      BY <1>c, <2>2, <1>i DEF Commit, Move, QueueInv, FilesInv, WrittenPlaces, AskedInv
    <3>2. record' = record /\ queue' = queue /\ job'.at = "record"
      BY <1>c, <1>i DEF Commit, Move
    <3>3. Stands(o)'
      BY <1>i, <3>1, <3>2 DEF Stands, QueueInv
    <3> QED BY <3>1, <3>3, <1>i
  <2> QED BY <2>1, <2>2
<1> HIDE DEF Still
<1> USE <1>i, <1>1, <1>o DEF OrderInv, SettledPlaces
<1>3. CASE Acquire
  BY <1>3, AcquireElements DEF Acquire
<1>4. CASE Backup \/ Mark \/ Write
  BY <1>4 DEF Backup, Mark, Write, Move, FilesInv
<1>5. CASE Stop \/ Start \/ Ready
  BY <1>5 DEF Stop, Start, Ready, Move
<1>6. CASE Commit
  BY <1>6, <1>c DEF Commit, Move
<1>7. CASE Succeed \/ Fail \/ RestoreFailed
  BY <1>7 DEF Succeed, Fail, RestoreFailed, Finish, NoJob
<1>8. CASE Restore \/ Restored
  BY <1>8 DEF Restore, Restored, Finish, NoJob, Move, FilesInv
<1>9. CASE MonitorStart \/ MonitorStartFailed \/ Boot \/ BootUnlink \/ BootStart
  BY <1>9 DEF MonitorStart, MonitorStartFailed, Boot, BootUnlink, BootStart, Move
<1>10. CASE MonitorBegin \/ MonitorRestart \/ NodeExit \/ HelperCrash
  BY <1>10 DEF MonitorBegin, MonitorRestart, NodeExit, HelperCrash, NoJob
<1> QED BY <1>3, <1>4, <1>5, <1>6, <1>7, <1>8, <1>9, <1>10 DEF HelperStep, JobStep

\* A step of the helper keeps what was asked for and what is shown.
LEMMA HelperKeepsShown ==
    ASSUME RestartInv, AskedInv, ShownInv, HelperStep, UNCHANGED gatewayVars
    PROVE  AskedInv' /\ ShownInv'
<1>i. /\ QueueInv /\ FilesInv
      /\ record \in [RestartOps -> RecordStates]
      /\ job \in [at : JobPlaces, op : RestartOps \cup {None}, rating : Ratings \cup {None}]
      /\ UNCHANGED <<gop, restart, applied>>
  BY DEF RestartInv, RestartTypeOK, HelperTypeOK, gatewayVars
<1>1. AskedInv'
  <2>1. CASE Acquire
    BY <2>1, <1>i, AcquireElements DEF AskedInv
  <2>2. CASE Succeed \/ Fail \/ Restored \/ RestoreFailed
    BY <2>2, <1>i DEF Succeed, Fail, Restored, RestoreFailed, Finish, NoJob, AskedInv
  <2>3. CASE Backup \/ Mark \/ Write \/ Stop \/ Start \/ Ready \/ Commit \/ Restore
             \/ MonitorStart \/ MonitorStartFailed \/ Boot \/ BootUnlink \/ BootStart
    BY <2>3, <1>i DEF Backup, Mark, Write, Stop, Start, Ready, Commit, Restore, MonitorStart,
          MonitorStartFailed, Boot, BootUnlink, BootStart, Move, AskedInv
  <2>4. CASE MonitorBegin \/ MonitorRestart \/ NodeExit \/ HelperCrash
    BY <2>4, <1>i DEF MonitorBegin, MonitorRestart, NodeExit, HelperCrash, NoJob, AskedInv
  <2> QED BY <2>1, <2>2, <2>3, <2>4 DEF HelperStep, JobStep
<1>2. proven \subseteq proven'
  BY DEF HelperStep, JobStep, Acquire, Backup, Mark, Write, Stop, Start, Ready, Commit, Succeed,
         Fail, Restore, Restored, RestoreFailed, MonitorBegin, MonitorStart, MonitorStartFailed,
         MonitorRestart, NodeExit, HelperCrash, Boot, BootUnlink, BootStart
<1>3. \A o \in RestartOps : record[o] = "succeeded" => record'[o] = "succeeded"
  <2>1. CASE Succeed \/ Fail \/ Restored \/ RestoreFailed
    BY <2>1, <1>i DEF Succeed, Fail, Restored, RestoreFailed, Finish, NoJob, QueueInv
  <2>2. CASE ~(Succeed \/ Fail \/ Restored \/ RestoreFailed)
    BY <2>2 DEF HelperStep, JobStep, Acquire, Backup, Mark, Write, Stop, Start, Ready, Commit,
           Restore, MonitorBegin, MonitorStart, MonitorStartFailed,
           MonitorRestart, NodeExit, HelperCrash, Boot, BootUnlink, BootStart
  <2> QED BY <2>1, <2>2
<1>4. \A o \in RestartOps :
        record'[o] = "succeeded" => record[o] = "succeeded" \/ gop[o].rating \in proven \cup {None}
  <2>1. CASE Succeed
    <3>1. job.op # None => gop[job.op].rating \in proven \cup {None}
      BY <2>1, <1>i DEF Succeed, AskedInv, FilesInv, SettledPlaces, WrittenPlaces
    <3> QED BY <2>1, <3>1, <1>i DEF Succeed, Finish
  <2>2. CASE Fail \/ Restored \/ RestoreFailed
    BY <2>2, <1>i DEF Fail, Restored, RestoreFailed, Finish
  <2>3. CASE ~(Succeed \/ Fail \/ Restored \/ RestoreFailed)
    BY <2>3 DEF HelperStep, JobStep, Acquire, Backup, Mark, Write, Stop, Start, Ready, Commit,
           Restore, MonitorBegin, MonitorStart, MonitorStartFailed,
           MonitorRestart, NodeExit, HelperCrash, Boot, BootUnlink, BootStart
  <2> QED BY <2>1, <2>2, <2>3
<1>5. ShownInv'
  BY <1>i, <1>2, <1>3, <1>4 DEF ShownInv, Carried
<1> QED BY <1>1, <1>5

\* What a step of the gateway does to the records, and to the ratings asked for.
LEMMA GatewayOrders ==
    ASSUME RestartInv, GatewayStep
    PROVE  /\ UNCHANGED <<files, job, proven>>
           /\ \A o \in RestartOps :
                 record[o] # "absent" => record'[o] = record[o] /\ gop'[o].rating = gop[o].rating
           /\ \/ UNCHANGED <<queue, record>>
              \/ /\ restart.op \in RestartOps
                 /\ record[restart.op] = "absent"
                 /\ gop'[restart.op].rating = gop[restart.op].rating
                 /\ record' = [record EXCEPT ![restart.op] = "running"]
                 /\ queue' = Append(queue, [op |-> restart.op, rating |-> gop[restart.op].rating])
<1>i. /\ RestartShape
      /\ record \in [RestartOps -> RecordStates]
      /\ gop \in [RestartOps -> [st : OpStates, rating : Ratings \cup {None}]]
  BY DEF RestartInv, RestartTypeOK, HelperTypeOK
<1>1. CASE RestartPost
  BY <1>1, <1>i DEF RestartPost, Accept, SetOp, helperVars, RestartShape
<1>2. CASE GatewayRestart
  BY <1>2, <1>i DEF GatewayRestart
<1>3. CASE \E rating \in Ratings \cup {None} : RestartDrain(rating)
  BY <1>3, <1>i DEF RestartDrain, helperVars, RestartShape
<1>4. CASE DrainTimeout \/ RestartLost \/ RestartVerified \/ RestartUnverified
           \/ RestartRefused \/ RestartSettled
  BY <1>4, <1>i DEF DrainTimeout, RestartLost, RestartVerified, RestartUnverified,
                    RestartRefused, RestartSettled, End, Stuck, SetOp, helperVars
<1>5. CASE \E op \in RestartOps, immediate \in BOOLEAN : RestartRequest(op, immediate)
  BY <1>5, <1>i DEF RestartRequest, Stuck, helperVars
<1>6. CASE Drained \/ RestartAnswered \/ RequestBegin \/ RequestDispatch \/ RequestEnd
           \/ WalletBegin \/ WalletEnd
  BY <1>6 DEF Drained, RestartAnswered, RequestBegin, RequestDispatch, RequestEnd, WalletBegin,
              WalletEnd, helperVars
<1> QED BY <1>1, <1>2, <1>3, <1>4, <1>5, <1>6 DEF GatewayStep

\* The queue after a step of the gateway, element by element
LEMMA GatewayQueues ==
    ASSUME RestartInv, GatewayStep, NEW i \in 1..Len(queue')
    PROVE  \/ i \in 1..Len(queue) /\ queue'[i] = queue[i]
           \/ /\ queue'[i].op \in RestartOps
              /\ record[queue'[i].op] = "absent"
              /\ queue'[i].rating = gop'[queue'[i].op].rating
<1>1. CASE UNCHANGED <<queue, record>>
  <2>1. queue' = queue
    BY <1>1
  <2> QED BY <2>1
<1>2. CASE ~UNCHANGED <<queue, record>>
  <2> DEFINE w == [op |-> restart.op, rating |-> gop[restart.op].rating]
  <2>1. /\ queue' = Append(queue, w)
        /\ restart.op \in RestartOps /\ record[restart.op] = "absent"
        /\ gop'[restart.op].rating = gop[restart.op].rating
    BY <1>2, GatewayOrders
  <2>2. w \in Waiting /\ queue \in Seq(Waiting)
    BY <2>1 DEF RestartInv, RestartTypeOK, HelperTypeOK, Waiting
  <2>3. w.op = restart.op /\ w.rating = gop[restart.op].rating
    OBVIOUS
  <2> HIDE DEF w
  <2>4. /\ Len(queue) \in Nat /\ Len(queue') = Len(queue) + 1
        /\ \A k \in 1..Len(queue) : queue'[k] = queue[k]
        /\ queue'[Len(queue) + 1] = w
    BY <2>1, <2>2, AppendElements, Elements
  <2>5. i \in 1..Len(queue) \/ queue'[i] = w
    BY <2>4
  <2> QED BY <2>1, <2>3, <2>4, <2>5
<1> QED BY <1>1, <1>2

\* A step of the gateway keeps what was asked for and where an ordered rating is.
LEMMA GatewayKeepsOrdered ==
    ASSUME RestartInv, AskedInv, OrderInv, GatewayStep
    PROVE  AskedInv' /\ OrderInv'
<1>1. /\ UNCHANGED <<files, job, proven>>
      /\ \A o \in RestartOps :
            record[o] # "absent" => record'[o] = record[o] /\ gop'[o].rating = gop[o].rating
  BY GatewayOrders
<1>i. /\ QueueInv
      /\ queue \in Seq(Waiting)
      /\ job \in [at : JobPlaces, op : RestartOps \cup {None}, rating : Ratings \cup {None}]
  BY DEF RestartInv, RestartTypeOK, HelperTypeOK
<1>q. \A i \in 1..Len(queue) : queue[i].op \in RestartOps
  <2>1. \A i \in 1..Len(queue) : queue[i] \in Waiting
    BY <1>i, Elements
  <2>2. \A w \in Waiting : w.op \in RestartOps
    BY DEF Waiting
  <2> QED BY <2>1, <2>2
<1>2. AskedInv'
  <2>1. job'.op # None => job'.rating = gop'[job'.op].rating
    BY <1>1, <1>i DEF AskedInv, QueueInv
  <2>2. ASSUME NEW i \in 1..Len(queue')
        PROVE  queue'[i].rating = gop'[queue'[i].op].rating
    <3>1. CASE i \in 1..Len(queue) /\ queue'[i] = queue[i]
      BY <1>1, <1>i, <1>q, <3>1 DEF AskedInv, QueueInv
    <3> QED BY <3>1, GatewayQueues
  <2> QED BY <2>1, <2>2 DEF AskedInv
<1>3. ASSUME NEW o \in RestartOps, Stands(o)
      PROVE  Stands(o)' /\ gop'[o].rating = gop[o].rating
  <2>1. record[o] # "absent" /\ record'[o] = record[o] /\ gop'[o].rating = gop[o].rating
    BY <1>1, <1>3 DEF Stands
  <2>2. ASSUME NEW i \in 1..Len(queue'), record[o] = "running" PROVE queue'[i].op # o
    BY <2>1, <2>2, <1>3, GatewayQueues DEF Stands
  <2> QED BY <1>1, <1>3, <2>1, <2>2 DEF Stands
<1> DEFINE Still(r) == r = DefaultRating \/ \E o \in RestartOps : gop'[o].rating = r /\ Stands(o)'
<1>4. \A r : Ordered(r) => Still(r)
  BY <1>3 DEF Ordered
<1>5. /\ Ordered(BootRating)' <=> Still(BootRating)
      /\ Ordered(files.rating)' <=> Still(files.rating)
      /\ Ordered(files.backup)' <=> Still(files.backup)
  BY <1>1 DEF Ordered, BootRating
<1> HIDE DEF Still
<1>6. OrderInv'
  BY <1>1, <1>4, <1>5 DEF OrderInv
<1> QED BY <1>2, <1>6

\* A step of the gateway shows no success that is none.
LEMMA GatewayKeepsShown ==
    ASSUME RestartInv, ShownInv, GatewayStep
    PROVE  ShownInv'
<1>1. /\ UNCHANGED <<files, job, proven>>
      /\ \A o \in RestartOps :
            record[o] # "absent" => record'[o] = record[o] /\ gop'[o].rating = gop[o].rating
  BY GatewayOrders
<1>2. \A o \in RestartOps : record'[o] = "succeeded" => record[o] = "succeeded"
  BY GatewayOrders DEF RestartInv, RestartTypeOK, HelperTypeOK
<1>i. /\ RestartShape /\ LatestInv
      /\ gop \in [RestartOps -> [st : OpStates, rating : Ratings \cup {None}]]
      /\ restart \in [at : RestartPlaces, op : RestartOps \cup {None}, immediate : BOOLEAN]
  BY DEF RestartInv, RestartTypeOK
<1>3. \A o \in RestartOps : record'[o] = "succeeded" => gop'[o].rating \in proven' \cup {None}
  BY <1>1, <1>2 DEF ShownInv
<1> DEFINE AtWork == /\ restart.at \notin {"idle", "stuck"}
                          => gop[restart.op].st \in {"queued", "draining", "restarting"}
                     /\ restart.at \in {"post", "verify", "settle"}
                          => gop[restart.op].st = "restarting"
<1>s. ASSUME /\ \A o \in RestartOps : gop'[o].st = "succeeded" => record[o] = "succeeded"
             /\ \/ applied' = applied /\ \A o \in RestartOps : Carried(o) => Carried(o)'
                \/ \E o \in RestartOps : Carried(o)'
             /\ AtWork'
      PROVE  ShownInv'
  <2>1. \A o \in RestartOps : gop'[o].st = "succeeded" => record'[o] = "succeeded"
    BY <1>s, <1>1
  <2>2. applied' # None => \E o \in RestartOps : Carried(o)'
    BY <1>s DEF ShownInv
  <2> QED BY <1>3, <1>s, <2>1, <2>2 DEF ShownInv
<1>w. AtWork /\ \A o \in RestartOps : gop[o].st = "succeeded" => record[o] = "succeeded"
  BY DEF ShownInv
<1>c. ASSUME NEW o \in RestartOps, Carried(o) PROVE record'[o] = "succeeded" /\ gop'[o].rating = gop[o].rating
  BY <1>1, <1>c DEF Carried
<1>4. CASE RestartPost
  <2>1. applied' = applied /\ \A o \in RestartOps : Carried(o) => Carried(o)'
    BY <1>4, <1>i, <1>w, <1>c DEF RestartPost, SetOp, RestartShape, Carried
  <2>2. AtWork'
    BY <1>4, <1>i, <1>w DEF RestartPost, SetOp, RestartShape
  <2>3. \A o \in RestartOps : gop'[o].st = "succeeded" => record[o] = "succeeded"
    BY <1>4, <1>i, <1>w DEF RestartPost, SetOp, RestartShape
  <2> QED BY <1>s, <2>1, <2>2, <2>3
<1>5. CASE GatewayRestart
  <2>1. applied' = applied /\ \A o \in RestartOps : Carried(o) => Carried(o)'
    BY <1>5, <1>i, <1>c DEF GatewayRestart, ReportedDone, Interrupted, Carried
  <2>2. AtWork'
    BY <1>5 DEF GatewayRestart, NotRestarting
  <2>3. \A o \in RestartOps : gop'[o].st = "succeeded" => record[o] = "succeeded"
    BY <1>5, <1>i, <1>w DEF GatewayRestart, ReportedDone
  <2> QED BY <1>s, <2>1, <2>2, <2>3
<1>6. CASE \E rating \in Ratings \cup {None} : RestartDrain(rating)
  <2>1. applied' = applied /\ \A o \in RestartOps : Carried(o) => Carried(o)'
    BY <1>6, <1>i, <1>c DEF RestartDrain, RestartShape, Carried
  <2>2. AtWork'
    BY <1>6, <1>i DEF RestartDrain, RestartShape
  <2>3. \A o \in RestartOps : gop'[o].st = "succeeded" => record[o] = "succeeded"
    BY <1>6, <1>i, <1>w DEF RestartDrain, RestartShape
  <2> QED BY <1>s, <2>1, <2>2, <2>3
<1>7. CASE DrainTimeout \/ RestartLost \/ RestartUnverified \/ RestartRefused
  <2>1. /\ restart.at \in {"queued", "drain", "lock", "post", "verify"}
        /\ applied' = applied /\ UNCHANGED record
        /\ \/ gop' = [gop EXCEPT ![restart.op].st = "failed"] /\ restart'.at = "idle"
           \/ UNCHANGED gop /\ restart'.at = "stuck"
    BY <1>7 DEF DrainTimeout, RestartLost, RestartUnverified, RestartRefused, End, Stuck, SetOp,
                NotRestarting, helperVars
  <2>2. \A o \in RestartOps : Carried(o) => Carried(o)'
    BY <2>1, <1>i, <1>w DEF Carried, RestartShape
  <2>3. \A o \in RestartOps : gop'[o].st = "succeeded" => record[o] = "succeeded"
    BY <2>1, <1>i, <1>w DEF RestartShape
  <2>4. AtWork'
    BY <2>1
  <2> QED BY <1>s, <2>1, <2>2, <2>3, <2>4
<1>8. CASE RestartVerified
  <2>1. /\ restart.at = "verify" /\ restart.op \in RestartOps
        /\ record'[restart.op] = "succeeded" /\ gop[restart.op].st = "restarting"
        /\ UNCHANGED <<gop, record>> /\ restart'.at = "settle" /\ restart'.op = restart.op
        /\ applied' = IF gop[restart.op].rating = None THEN applied ELSE gop[restart.op].rating
    BY <1>8, <1>i, <1>w DEF RestartVerified, RestartShape, LatestInv, helperVars
  <2>2. gop[restart.op].rating # None => Carried(restart.op)'
    BY <2>1 DEF Carried
  <2>3. gop[restart.op].rating = None
          => applied' = applied /\ \A o \in RestartOps : Carried(o) => Carried(o)'
    BY <2>1 DEF Carried
  <2> QED BY <1>s, <1>w, <2>1, <2>2, <2>3
<1>12. CASE RestartSettled
  <2>1. /\ restart.at = "settle" /\ restart.op \in RestartOps
        /\ record[restart.op] = "succeeded"
        /\ applied' = applied /\ UNCHANGED record
        /\ \/ gop' = [gop EXCEPT ![restart.op].st = "succeeded"] /\ restart'.at = "idle"
           \/ UNCHANGED gop /\ restart'.at = "stuck"
    BY <1>12, <1>i DEF RestartSettled, RestartShape, LatestInv, End, Stuck, SetOp, NotRestarting,
                       helperVars
  <2>2. \A o \in RestartOps : Carried(o) => Carried(o)'
    BY <2>1, <1>i, <1>w DEF Carried
  <2>3. \A o \in RestartOps : gop'[o].st = "succeeded" => record[o] = "succeeded"
    BY <2>1, <1>i, <1>w
  <2>4. AtWork'
    BY <2>1
  <2> QED BY <1>s, <2>1, <2>2, <2>3, <2>4
<1>9. CASE \E op \in RestartOps, immediate \in BOOLEAN : RestartRequest(op, immediate)
  <2>1. PICK op \in RestartOps : \E immediate \in BOOLEAN : RestartRequest(op, immediate)
    BY <1>9
  <2>2. /\ restart.at = "idle" /\ gop[op].st = "absent"
        /\ applied' = applied /\ UNCHANGED record
        /\ \/ gop' = [gop EXCEPT ![op].st = "queued"] /\ restart'.at = "queued" /\ restart'.op = op
           \/ UNCHANGED gop /\ restart'.at = "stuck"
    BY <2>1 DEF RestartRequest, Stuck, NotRestarting, Maintenance, helperVars
  <2>3. \A o \in RestartOps : Carried(o) => Carried(o)'
    BY <2>2, <1>i DEF Carried
  <2>4. \A o \in RestartOps : gop'[o].st = "succeeded" => record[o] = "succeeded"
    BY <2>2, <1>i, <1>w
  <2>5. AtWork'
    BY <2>2, <1>i
  <2> QED BY <1>s, <2>2, <2>3, <2>4, <2>5
<1>10. CASE Drained \/ RestartAnswered
  <2>1. /\ restart.at \in {"drain", "post"} /\ UNCHANGED <<gop, record, applied>>
        /\ restart'.op = restart.op
        /\ restart'.at = IF restart.at = "drain" THEN "lock" ELSE "verify"
    BY <1>10, <1>i DEF Drained, RestartAnswered, helperVars
  <2> QED BY <1>s, <1>w, <2>1 DEF Carried
<1>11. CASE RequestBegin \/ RequestDispatch \/ RequestEnd \/ WalletBegin \/ WalletEnd
  <2>1. UNCHANGED <<gop, record, restart, applied>>
    BY <1>11 DEF RequestBegin, RequestDispatch, RequestEnd, WalletBegin, WalletEnd, helperVars
  <2> QED BY <1>s, <1>w, <2>1 DEF Carried
<1> QED BY <1>4, <1>5, <1>6, <1>7, <1>8, <1>9, <1>10, <1>11, <1>12 DEF GatewayStep

\* TruthInv holds in every reachable state: which operations can still succeed, and
\* where the rating of one of those is.
LEMMA TruthInductive == RestartSpec => []TruthInv
<1>1. RestartInv /\ TruthInv /\ [RestartNext]_restartVars => TruthInv'
  <2> SUFFICES ASSUME RestartInv, TruthInv, [RestartNext]_restartVars PROVE TruthInv'
    OBVIOUS
  <2>1. CASE HelperStep /\ UNCHANGED gatewayVars
    BY <2>1, HelperKeepsOrdered, HelperKeepsShown DEF TruthInv
  <2>2. CASE GatewayStep
    BY <2>2, GatewayKeepsOrdered, GatewayKeepsShown DEF TruthInv
  <2>3. CASE UNCHANGED restartVars
    BY <2>3 DEF restartVars, helperVars, gatewayVars, TruthInv, AskedInv, OrderInv, Ordered,
                Stands, ShownInv, Carried, BootRating
  <2> QED BY <2>1, <2>2, <2>3 DEF RestartNext
<1> QED BY <1>1, InitTruth, RestartInductive, PTL DEF RestartSpec

\* _restart and recover: an operation that shows as succeeded was carried out, and
\* the rating shown as applied is that of an operation which was carried out and
\* does not show as failed, wherever the gateway died and whatever its store refused.
THEOREM SuccessesAreReal == RestartSpec => []SuccessWasReal
<1>1. RestartInv /\ TruthInv => SuccessWasReal
  <2> SUFFICES ASSUME RestartInv, TruthInv PROVE SuccessWasReal
    OBVIOUS
  <2>1. \A o \in RestartOps :
           gop[o].st = "succeeded" => record[o] = "succeeded" /\ gop[o].rating \in proven \cup {None}
    BY DEF TruthInv, ShownInv
  <2>2. applied # None => \E o \in RestartOps : Carried(o)
    BY DEF TruthInv, ShownInv
  <2> QED BY <2>1, <2>2 DEF Carried, SuccessWasReal
<1> QED BY <1>1, RestartInductive, TruthInductive, PTL

\* Supervisor.restart and lifespan: the rating a start-up uses is one that an
\* operation asked for which the helper never reports as failed.
THEOREM EffectiveRatingOrdered == RestartSpec => []EffectiveWasOrdered
<1>1. TruthInv => EffectiveWasOrdered
  BY DEF TruthInv, OrderInv, Ordered, Stands, EffectiveWasOrdered
<1> QED BY <1>1, TruthInductive, PTL

=============================================================================
