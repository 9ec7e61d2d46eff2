--------------------------- MODULE LifecycleProofs ---------------------------
(***************************************************************************)
(* What holds of Lifecycle for every set of services, clients, processes   *)
(* and addresses, with or without the daemon, and under any faults.        *)
(***************************************************************************)
EXTENDS Lifecycle, TLAPS

(* The steps a client can be at, and the operations it can be in.          *)
Steps == {"idle", "routes", "address", "prepare", "spawn", "row", "box",
          "probe", "probed", "kill", "clean", "finish"}
Ops   == {"none", "deploy", "start", "startAborted", "startFailed", "stop", "destroy"}
Statuses == {"absent", "deployed", "starting", "healthy", "degraded", "stopped", "failed"}

IInv == TypeOK /\ LocalsAgree /\ PidOwnership /\ RowsAgree /\ FailureIsReal

------------------------------------------------------------------------------
(* The types of the records and of what the helpers write.                 *)

LEMMA RowMade == \A st \in Statuses, p \in PidOrNone :
                    [status |-> st, pid |-> p] \in RowType
  BY DEF Statuses, RowType

LEMMA BoxMade == \A st \in {"absent", "up", "stopped"}, p \in PidOrNone, i \in IpOrNone :
                    [status |-> st, pid |-> p, ip |-> i] \in BoxType
  BY DEF BoxType

LEMMA Empties == /\ NoPid \in PidOrNone /\ NoIp \in IpOrNone /\ NoService \in NameOrNone
                 /\ AbsentRow \in RowType /\ AbsentBox \in BoxType
                 /\ IdleClient \in ClientType
  <1>1. NoPid \in PidOrNone /\ NoIp \in IpOrNone /\ NoService \in NameOrNone
    BY DEF PidOrNone, IpOrNone, NameOrNone
  <1>2. AbsentRow \in RowType
    BY <1>1 DEF AbsentRow, RowType
  <1>3. AbsentBox \in BoxType
    BY <1>1 DEF AbsentBox, BoxType
  <1>4. IdleClient \in ClientType
    BY <1>1 DEF IdleClient, ClientType
  <1> QED BY <1>1, <1>2, <1>3, <1>4

LEMMA SleepingType == Sleeping \in RecType
  <1>1. [s \in Services |-> AbsentRow] \in [Services -> RowType]
    BY Empties
  <1>2. [s \in Services |-> AbsentBox] \in [Services -> BoxType]
    BY Empties
  <1> QED BY <1>1, <1>2, Empties, Zenon DEF Sleeping, RecType

LEMMA RowFields == \A r \in RowType : r.status \in Statuses /\ r.pid \in PidOrNone
  BY DEF RowType, Statuses
LEMMA BoxFields ==
    \A b \in BoxType : /\ b.status \in {"absent", "up", "stopped"}
                       /\ b.pid \in PidOrNone /\ b.ip \in IpOrNone
  BY DEF BoxType
LEMMA ClientFields ==
    \A x \in ClientType : /\ x.op \in Ops /\ x.pc \in Steps /\ x.on \in NameOrNone
                          /\ x.held \in PidOrNone /\ x.child \in PidOrNone
                          /\ x.addr \in IpOrNone
  BY DEF ClientType, Ops, Steps
LEMMA RecFields ==
    \A x \in RecType :
        /\ x.pc \in {"sleep", "services", "box", "fail", "healthy", "degraded",
                     "sandboxes", "reap"}
        /\ x.cur \in NameOrNone /\ x.addr \in IpOrNone /\ x.todo \in SUBSET Services
        /\ x.rows \in [Services -> RowType] /\ x.boxes \in [Services -> BoxType]
  BY DEF RecType

LEMMA SetStatusType ==
    ASSUME svc \in [Services -> RowType], NEW s \in Services, NEW st \in Statuses,
           NEW p \in PidOrNone, SetStatus(s, st, p)
    PROVE  svc' \in [Services -> RowType]
  BY RowMade DEF SetStatus

LEMMA UpsertBoxType ==
    ASSUME box \in [Services -> BoxType], NEW s \in Services,
           NEW st \in {"up", "stopped"}, NEW p \in PidOrNone, NEW i \in IpOrNone,
           UpsertBox(s, st, p, i)
    PROVE  box' \in [Services -> BoxType]
  BY BoxMade DEF UpsertBox

LEMMA GotoType ==
    ASSUME cl \in [Clients -> ClientType], NEW c \in Clients, NEW pc \in Steps, Goto(c, pc)
    PROVE  cl' \in [Clients -> ClientType]
  BY SMT DEF Goto, ClientType, Steps

LEMMA ReturnType ==
    ASSUME cl \in [Clients -> ClientType], NEW c \in Clients, Return(c)
    PROVE  cl' \in [Clients -> ClientType]
  BY Empties DEF Return

LEMMA CallType ==
    ASSUME cl \in [Clients -> ClientType], NEW c \in Clients, NEW op \in Ops,
           NEW pc \in Steps, NEW s \in Services, NEW p \in PidOrNone,
           Call(c, op, pc, s, p)
    PROVE  cl' \in [Clients -> ClientType]
  <1>1. s \in NameOrNone
    BY DEF NameOrNone
  <1>2. [op |-> op, pc |-> pc, on |-> s, held |-> p, child |-> NoPid, addr |-> NoIp]
          \in ClientType
    BY <1>1, Empties DEF ClientType, Ops, Steps
  <1> QED BY <1>2 DEF Call

LEMMA LocateType ==
    ASSUME cl \in [Clients -> ClientType], NEW c \in Clients, NEW pc \in Steps,
           NEW i \in IpOrNone, Locate(c, pc, i)
    PROVE  cl' \in [Clients -> ClientType]
  <1>1. [cl[c] EXCEPT !.pc = pc, !.addr = i] \in ClientType
    BY Zenon DEF ClientType, Steps
  <1> QED BY <1>1 DEF Locate

LEMMA SpawnedType ==
    ASSUME cl \in [Clients -> ClientType], NEW c \in Clients, NEW p \in PidOrNone,
           Spawned(c, p)
    PROVE  cl' \in [Clients -> ClientType]
  <1>1. [cl[c] EXCEPT !.pc = "row", !.child = p] \in ClientType
    BY Zenon DEF ClientType
  <1> QED BY <1>1 DEF Spawned

LEMMA StartFailsType ==
    ASSUME cl \in [Clients -> ClientType], NEW c \in Clients, NEW op \in Ops,
           StartFails(c, op)
    PROVE  cl' \in [Clients -> ClientType]
  <1>1. [cl[c] EXCEPT !.op = op, !.pc = "kill"] \in ClientType
    BY Zenon DEF ClientType, Ops
  <1> QED BY <1>1 DEF StartFails

LEMMA RecTurnType ==
    ASSUME rec \in RecType, NEW pc \in {"box", "fail", "healthy", "degraded", "reap"},
           NEW s \in Services, RecTurn(pc, s)
    PROVE  rec' \in RecType
  <1>1. s \in NameOrNone
    BY DEF NameOrNone
  <1> QED BY <1>1, Zenon DEF RecTurn, RecType

LEMMA RecNextType ==
    ASSUME rec \in RecType, NEW s \in Services, RecNext(s)
    PROVE  rec' \in RecType
  <1> DEFINE rows == [rec.rows EXCEPT ![s] = AbsentRow]
             todo == rec.todo \ {s}
  <1>1. rows \in [Services -> RowType]
    BY RecFields, Empties
  <1>2. todo \in SUBSET Services
    BY RecFields
  <1>3. rec' = [rec EXCEPT !.pc = "services", !.todo = todo, !.cur = NoService,
                           !.addr = NoIp, !.rows = rows]
    BY DEF RecNext
  <1> HIDE DEF rows, todo
  <1> QED BY <1>1, <1>2, <1>3, Empties, Zenon DEF RecType

LEMMA RecNextBoxType ==
    ASSUME rec \in RecType, NEW s \in Services, RecNextBox(s)
    PROVE  rec' \in RecType
  <1> DEFINE boxes == [rec.boxes EXCEPT ![s] = AbsentBox]
             todo == rec.todo \ {s}
  <1>1. boxes \in [Services -> BoxType]
    BY RecFields, Empties
  <1>2. todo \in SUBSET Services
    BY RecFields
  <1>3. rec' = [rec EXCEPT !.pc = "sandboxes", !.todo = todo, !.cur = NoService,
                           !.boxes = boxes]
    BY DEF RecNextBox
  <1> HIDE DEF boxes, todo
  <1> QED BY <1>1, <1>2, <1>3, Empties, Zenon DEF RecType

LEMMA StopPidType ==
    ASSUME proc \in [Pids -> ProcType], NEW p, StopPid(p)
    PROVE  proc' \in [Pids -> ProcType]
  BY SMT DEF StopPid, Running, ProcType

LEMMA CleanupType ==
    ASSUME cgroup \subseteq Services, lost \subseteq Pids, NEW s, NEW named, Cleanup(s, named)
    PROVE  cgroup' \subseteq Services /\ lost' \subseteq Pids
  BY DEF Cleanup, swept

LEMMA OutcomeKinds == \A s \in Services : HealthOutcomes(s) \subseteq {"healthy", "degraded"}
  BY DEF HealthOutcomes

------------------------------------------------------------------------------
(* TypeOK is kept by every step.                                           *)

LEMMA TypeStep ==
    ASSUME TypeOK, LocalsAgree, [Next]_vars
    PROVE  TypeOK'
<1> USE DEF db, swept
<1>0. /\ svc \in [Services -> RowType]
      /\ box \in [Services -> BoxType]
      /\ routed \subseteq Services
      /\ proc \in [Pids -> ProcType]
      /\ cgroup \subseteq Services
      /\ cl \in [Clients -> ClientType]
      /\ rec \in RecType
      /\ faults \in Nat
      /\ lost \subseteq Pids
  BY DEF TypeOK
<1>1. ASSUME NEW c \in Clients, NEW s \in Services, Request(c, s)
      PROVE  TypeOK'
  <2>1. CASE DeployRegister(c, s)
    <3>1. svc' \in [Services -> RowType]
      <4>1. \A r \in RowType : [r EXCEPT !.status = "deployed"] \in RowType
        BY Zenon DEF RowType
      <4> QED BY <1>0, <2>1, <4>1 DEF DeployRegister
    <3> QED BY <1>0, <2>1, <3>1, CallType, Empties DEF DeployRegister, TypeOK, Ops, Steps
  <2>2. CASE StartLoad(c, s)
    BY <1>0, <2>2, CallType, Empties DEF StartLoad, TypeOK, Ops, Steps
  <2>3. CASE StopLoad(c, s)
    <3>1. svc[s].pid \in PidOrNone
      BY <1>0, RowFields
    <3> QED BY <1>0, <2>3, <3>1, CallType DEF StopLoad, TypeOK, Ops, Steps
  <2> QED BY <1>1, <2>1, <2>2, <2>3 DEF Request
<1>2. ASSUME NEW c \in Clients, Operate(c)
      PROVE  TypeOK'
  <2> DEFINE s == cl[c].on
  <2>0. /\ cl[c].pc # "idle" => s \in Services
        /\ cl[c].held \in PidOrNone /\ cl[c].child \in PidOrNone
        /\ cl[c].addr \in IpOrNone
    BY <1>0, ClientFields DEF LocalsAgree
  <2> USE <1>0, <2>0, Empties DEF TypeOK, At, Ops, Steps, Statuses
  <2>1. CASE DeployRoutes(c)
    BY <2>1, ReturnType DEF DeployRoutes
  <2>2. CASE StartAddress(c)
    <3>1. IPs \subseteq IpOrNone /\ (s \in Services => box[s].ip \in IpOrNone)
      BY BoxFields DEF IpOrNone
    <3> QED BY <2>2, <3>1, LocateType, ReturnType DEF StartAddress
  <2>22. CASE StartPrepare(c)
    BY <2>22, GotoType, ReturnType, CleanupType DEF StartPrepare
  <2>3. CASE StartSpawn(c)
    <3> DEFINE place == IF Isolated THEN "outside" ELSE "none"
               inside == c \in Resident
    <3>1. s \in Services /\ cgroup' \subseteq Services
      BY <2>3 DEF StartSpawn
    <3>2. PICK p \in Pids :
            /\ proc' = [proc EXCEPT ![p] = [state |-> "running", owner |-> s,
                                            tree |-> place, resident |-> inside]]
            /\ Spawned(c, p)
      BY <2>3 DEF StartSpawn
    <3> inside \in BOOLEAN /\ s \in NameOrNone /\ place \in {"none", "outside"}
      BY <3>1 DEF NameOrNone
    <3> HIDE DEF inside, place
    <3>3. [state |-> "running", owner |-> s, tree |-> place, resident |-> inside] \in ProcType
      BY Zenon DEF ProcType
    <3>4. proc' \in [Pids -> ProcType]
      BY <3>2, <3>3
    <3>5. cl' \in [Clients -> ClientType]
      BY <3>2, SpawnedType DEF PidOrNone
    <3> QED BY <2>3, <3>1, <3>4, <3>5 DEF StartSpawn
  <2>4. CASE StartSpawnFails(c)
    BY <2>4, ReturnType DEF StartSpawnFails, Fault
  <2>5. CASE StartAborts(c)
    BY <2>5, StartFailsType DEF StartAborts, Fault
  <2>6. CASE StartRow(c)
    BY <2>6, SetStatusType, GotoType DEF StartRow
  <2>7. CASE StartBox(c)
    BY <2>7, UpsertBoxType, GotoType, StartFailsType DEF StartBox, Fault
  <2>8. CASE StartProbe(c)
    BY <2>8, SetStatusType, GotoType, OutcomeKinds DEF StartProbe
  <2>9. CASE StartFinish(c)
    BY <2>9, UpsertBoxType, ReturnType DEF StartFinish
  <2>10. CASE UndoClean(c)
    BY <2>10, GotoType, ReturnType DEF UndoClean
  <2>11. CASE UndoRow(c)
    BY <2>11, SetStatusType, GotoType DEF UndoRow, Fault
  <2>12. CASE UndoBox(c)
    BY <2>12, UpsertBoxType, ReturnType DEF UndoBox, Fault
  <2>13. CASE Kill(c)
    BY <2>13, StopPidType, GotoType DEF Kill
  <2>14. CASE KillMisses(c)
    <3>1. proc' \in [Pids -> ProcType]
      BY <2>14, SMT DEF KillMisses, ProcessAlive, ProcType
    <3> QED BY <2>14, <3>1, ReturnType DEF KillMisses
  <2>15. CASE StopRow(c)
    BY <2>15, SetStatusType, GotoType DEF StopRow
  <2>16. CASE StopClean(c)
    <3>1. s \in Services => box[s].ip \in IpOrNone
      BY BoxFields
    <3> QED BY <2>16, <3>1, LocateType, GotoType, ReturnType, CleanupType DEF StopClean
  <2>17. CASE StopBox(c)
    BY <2>17, UpsertBoxType, GotoType DEF StopBox
  <2>18. CASE StopFinish(c)
    BY <2>18, ReturnType DEF StopFinish, Fault
  <2>19. CASE DestroyClean(c)
    BY <2>19, GotoType, ReturnType, CleanupType DEF DestroyClean
  <2>20. CASE DestroyTables(c)
    BY <2>20, GotoType DEF DestroyTables
  <2>21. CASE DestroyRow(c)
    BY <2>21, ReturnType DEF DestroyRow
  <2> QED BY <1>2, <2>1, <2>2, <2>3, <2>4, <2>5, <2>6, <2>7, <2>8, <2>9, <2>10, <2>11,
             <2>12, <2>13, <2>14, <2>15, <2>16, <2>17, <2>18, <2>19, <2>20, <2>21, <2>22
         DEF Operate
<1>3. ASSUME Reconcile PROVE TypeOK'
  <2> USE <1>0, Empties DEF TypeOK, Statuses
  <2>0. /\ rec.pc \in {"box", "fail", "healthy", "degraded", "reap"} => rec.cur \in Services
        /\ rec.todo \subseteq Services /\ rec.addr \in IpOrNone
        /\ \A s \in Services : /\ rec.rows[s].pid \in PidOrNone
                               /\ rec.boxes[s].ip \in IpOrNone
    BY RecFields, RowFields, BoxFields DEF LocalsAgree
  <2>1. CASE RecSnapshot
    <3> DEFINE todo  == {s \in Services : svc[s].pid # NoPid}
               rows  == [s \in Services |-> IF svc[s].pid # NoPid THEN svc[s] ELSE AbsentRow]
               boxes == [s \in Services |-> IF Isolated /\ BoxUp(box[s]) THEN box[s]
                                                                         ELSE AbsentBox]
    <3>1. todo \in SUBSET Services /\ rows \in [Services -> RowType]
                                 /\ boxes \in [Services -> BoxType]
      OBVIOUS
    <3>2. rec' = [Sleeping EXCEPT !.pc = "services", !.todo = todo, !.rows = rows,
                                  !.boxes = boxes]
      BY <2>1 DEF RecSnapshot
    <3> HIDE DEF todo, rows, boxes
    <3>3. rec' \in RecType
      BY <3>1, <3>2, SleepingType, Zenon DEF RecType
    <3> QED BY <2>1, <3>3 DEF RecSnapshot
  <2>2. CASE RecBox
    BY <2>0, <2>2, UpsertBoxType, RecTurnType DEF RecBox
  <2>3. CASE RecFail
    BY <2>0, <2>3, SetStatusType, RecNextType DEF RecFail
  <2>4. CASE RecWriteHealth
    BY <2>0, <2>4, SetStatusType, RecNextType DEF RecWriteHealth
  <2>5. CASE RecSandboxes
    <3> DEFINE todo == {s \in Services : BoxUp(rec.boxes[s])}
    <3>1. todo \in SUBSET Services /\ rec' = [rec EXCEPT !.pc = "sandboxes", !.todo = todo]
      BY <2>5 DEF RecSandboxes
    <3> HIDE DEF todo
    <3>2. rec' \in RecType
      BY <3>1, Zenon DEF RecType
    <3> QED BY <2>5, <3>2 DEF RecSandboxes
  <2>6. CASE RecReap
    BY <2>0, <2>6, UpsertBoxType, RecNextBoxType DEF RecReap
  <2>7. CASE RecSleep
    BY <2>7, SleepingType DEF RecSleep
  <2>8. ASSUME NEW s \in Services, RecDead(s)
        PROVE  TypeOK'
    <3>1. CASE rec' = [rec EXCEPT !.pc = "box", !.cur = s, !.addr = box[s].ip]
      <4>1. s \in NameOrNone /\ box[s].ip \in IpOrNone
        BY BoxFields DEF NameOrNone
      <4>2. rec' \in RecType
        BY <3>1, <4>1, Zenon DEF RecType
      <4> QED BY <2>8, <4>2, CleanupType DEF RecDead
    <3> QED BY <2>8, <3>1, SleepingType, RecTurnType DEF RecDead
  <2>9. ASSUME NEW s \in Services, RecHealth(s)
        PROVE  TypeOK'
    BY <2>9, OutcomeKinds, RecTurnType, RecNextType DEF RecHealth
  <2>10. ASSUME NEW s \in Services, RecSkip(s)
         PROVE  TypeOK'
    BY <2>10, RecNextType DEF RecSkip
  <2>11. ASSUME NEW s \in Services, RecStale(s)
         PROVE  TypeOK'
    BY <2>11, CleanupType, SleepingType, RecTurnType DEF RecStale
  <2>12. ASSUME NEW s \in Services, RecLiveBox(s)
         PROVE  TypeOK'
    BY <2>12, RecNextBoxType DEF RecLiveBox
  <2>13. CASE RecBreaks
    BY <2>13, SleepingType DEF RecBreaks, Fault
  <2> QED BY <1>3, <2>1, <2>2, <2>3, <2>4, <2>5, <2>6, <2>7, <2>8, <2>9, <2>10, <2>11,
             <2>12, <2>13 DEF Reconcile
<1>4. ASSUME NEW c \in Clients, Breaks(c)
      PROVE  TypeOK'
  BY <1>0, <1>4, ReturnType DEF Breaks, Children, Fault, TypeOK
<1>5. ASSUME NEW p \in Pids, Exit(p) \/ TreeJoins(p) \/ TreeEnds(p)
      PROVE  TypeOK'
  <2>1. proc' \in [Pids -> ProcType]
    BY <1>0, <1>5, SMT DEF Exit, TreeJoins, TreeEnds, ProcType
  <2> QED BY <1>0, <1>5, <2>1 DEF Exit, TreeJoins, TreeEnds, TypeOK
<1>6. CASE DaemonRestart
  <2>1. cl' \in [Clients -> ClientType]
    BY <1>0, <1>6, Empties DEF DaemonRestart
  <2>2. proc' \in [Pids -> ProcType]
    <3>1. \A x \in ProcType : [x EXCEPT !.resident = FALSE] \in ProcType
      BY Zenon DEF ProcType
    <3> QED BY <1>0, <1>6, <3>1 DEF DaemonRestart
  <2> QED BY <1>0, <1>6, <2>1, <2>2, SleepingType DEF DaemonRestart, Children, Fault, TypeOK
<1>7. CASE UNCHANGED vars
  BY <1>0, <1>7 DEF vars, TypeOK
<1> QED BY <1>1, <1>2, <1>3, <1>4, <1>5, <1>6, <1>7 DEF Next

------------------------------------------------------------------------------
(* LocalsAgree is kept by every step.                                      *)

LEMMA LocalsStep ==
    ASSUME TypeOK, LocalsAgree, [Next]_vars
    PROVE  LocalsAgree'
<1>0. /\ cl \in [Clients -> ClientType] /\ rec \in RecType
      /\ NoPid \notin Pids
  BY ConstantsAssumption DEF TypeOK
<1> DEFINE ClientAgrees(x) ==
             /\ x.pc # "idle" => x.on \in Services
             /\ x.op = "start" /\ x.pc \in {"row", "box", "probe", "probed"}
                   => x.child # NoPid
           RecAgrees(x) ==
             /\ x.pc \in {"box", "fail", "healthy", "degraded", "reap"} => x.cur \in Services
             /\ x.pc \in {"healthy", "degraded"} => x.rows[x.cur].pid # NoPid
<1>1. /\ \A c \in Clients : ClientAgrees(cl[c])
      /\ RecAgrees(rec)
      /\ ClientAgrees(IdleClient) /\ RecAgrees(Sleeping)
  BY DEF LocalsAgree, IdleClient, Sleeping
<1>2. SUFFICES /\ \A c \in Clients : ClientAgrees(cl'[c])
               /\ RecAgrees(rec')
  BY DEF LocalsAgree
<1>3. ASSUME NEW c \in Clients, NEW s \in Services, Request(c, s)
      PROVE  /\ \A d \in Clients : ClientAgrees(cl'[d])
             /\ RecAgrees(rec')
  <2>1. CASE DeployRegister(c, s)
    BY <1>0, <1>1, <2>1 DEF DeployRegister, Call
  <2>2. CASE StartLoad(c, s)
    BY <1>0, <1>1, <2>2 DEF StartLoad, Call
  <2>3. CASE StopLoad(c, s)
    BY <1>0, <1>1, <2>3 DEF StopLoad, Call
  <2> QED BY <1>3, <2>1, <2>2, <2>3 DEF Request
<1>4. ASSUME NEW c \in Clients, Operate(c)
      PROVE  /\ \A d \in Clients : ClientAgrees(cl'[d])
             /\ RecAgrees(rec')
  <2> USE <1>0, <1>1 DEF At
  <2>0. ASSUME NEW pc \in Steps, Goto(c, pc), cl[c].pc # "idle",
               cl[c].op = "start" /\ pc \in {"row", "box", "probe", "probed"}
                 => cl[c].pc \in {"row", "box", "probe", "probed"}
        PROVE  \A d \in Clients : ClientAgrees(cl'[d])
    BY <2>0 DEF Goto
  <2>1. ASSUME Return(c)
        PROVE  \A d \in Clients : ClientAgrees(cl'[d])
    BY <2>1 DEF Return
  <2>2. ASSUME NEW op \in Ops \ {"start"}, StartFails(c, op), cl[c].pc # "idle"
        PROVE  \A d \in Clients : ClientAgrees(cl'[d])
    BY <2>2 DEF StartFails
  <2>3. ASSUME NEW pc \in Steps, NEW i \in IpOrNone, Locate(c, pc, i), cl[c].pc # "idle",
               cl[c].op = "start" => pc = "prepare"
        PROVE  \A d \in Clients : ClientAgrees(cl'[d])
    BY <2>3 DEF Locate
  <2> HIDE DEF ClientAgrees, RecAgrees
  <2> USE DEF Steps, Ops
  <2>4. CASE StartSpawn(c)
    <3>1. PICK p \in Pids : Spawned(c, p)
      BY <2>4 DEF StartSpawn
    <3> QED BY <2>4, <3>1 DEF StartSpawn, Spawned, ClientAgrees
  <2>5. CASE StartAddress(c)
    <3>1. cl[c].on \in Services /\ cl[c].pc # "idle" /\ cl[c].op = "start"
      BY <2>5 DEF StartAddress, ClientAgrees
    <3>2. box[cl[c].on].ip \in IpOrNone /\ IPs \subseteq IpOrNone
      BY <3>1, BoxFields DEF TypeOK, IpOrNone
    <3> QED BY <2>1, <2>3, <2>5, <3>1, <3>2 DEF StartAddress
  <2>6. CASE StopClean(c)
    <3>1. cl[c].on \in Services /\ cl[c].pc # "idle" /\ cl[c].op = "stop"
      BY <2>6 DEF StopClean, ClientAgrees
    <3>2. box[cl[c].on].ip \in IpOrNone
      BY <3>1, BoxFields DEF TypeOK
    <3> QED BY <2>0, <2>1, <2>3, <2>6, <3>1, <3>2 DEF StopClean
  <2>7. CASE \/ DeployRoutes(c) \/ StartSpawnFails(c) \/ StartFinish(c) \/ UndoBox(c)
             \/ KillMisses(c) \/ StopFinish(c) \/ DestroyRow(c)
    BY <2>1, <2>7 DEF DeployRoutes, StartSpawnFails, StartFinish, UndoBox,
                      KillMisses, StopFinish, DestroyRow
  <2>8. CASE \/ StartAborts(c) \/ StartBox(c)
    BY <2>0, <2>2, <2>8 DEF StartAborts, StartBox
  <2>9. CASE StartRow(c) \/ StartProbe(c)
    BY <2>0, <2>9 DEF StartRow, StartProbe
  <2>10. CASE \/ Kill(c) \/ UndoClean(c) \/ UndoRow(c) \/ StopRow(c) \/ StopBox(c)
              \/ DestroyClean(c) \/ DestroyTables(c) \/ StartPrepare(c)
    <3>1. cl[c].pc # "idle"
      BY <2>10 DEF Kill, UndoClean, UndoRow, StopRow, StopBox, DestroyClean, DestroyTables,
                   StartPrepare
    <3>2. CASE Kill(c)
      BY <2>0, <3>1, <3>2 DEF Kill
    <3>3. CASE UndoClean(c) \/ UndoRow(c) \/ StopRow(c) \/ StopBox(c)
      BY <2>0, <2>1, <3>1, <3>3 DEF UndoClean, UndoRow, StopRow, StopBox
    <3>4. CASE DestroyClean(c) \/ DestroyTables(c) \/ StartPrepare(c)
      BY <2>0, <2>1, <3>1, <3>4 DEF DestroyClean, DestroyTables, StartPrepare
    <3> QED BY <2>10, <3>2, <3>3, <3>4
  <2>11. rec' = rec
    BY <1>4 DEF Operate, DeployRoutes, StartAddress, StartPrepare, StartSpawn, StartSpawnFails, StartAborts,
                StartRow, StartBox, StartProbe, StartFinish, UndoClean, UndoRow, UndoBox, Kill,
                KillMisses, StopRow, StopClean, StopBox, StopFinish, DestroyClean,
                DestroyTables, DestroyRow
  <2> QED BY <1>4, <2>4, <2>5, <2>6, <2>7, <2>8, <2>9, <2>10, <2>11 DEF Operate
<1>5. ASSUME Reconcile
      PROVE  /\ \A d \in Clients : ClientAgrees(cl'[d])
             /\ RecAgrees(rec')
  <2> USE <1>0, <1>1
  <2>0. cl' = cl
    BY <1>5 DEF Reconcile, RecSnapshot, RecBox, RecFail, RecWriteHealth, RecSandboxes, RecReap,
                RecSleep, RecBreaks, RecDead, RecHealth, RecSkip, RecStale, RecLiveBox
  <2>1. ASSUME NEW pc \in {"box", "fail", "reap", "healthy", "degraded"}, NEW s \in Services,
               RecTurn(pc, s), pc \in {"healthy", "degraded"} => rec.rows[s].pid # NoPid
        PROVE  RecAgrees(rec')
    BY <2>1, Zenon DEF RecTurn, RecType
  <2>2. ASSUME NEW s, RecNext(s) \/ RecNextBox(s)
        PROVE  RecAgrees(rec')
    BY <2>2, Zenon DEF RecNext, RecNextBox, RecType
  <2>3. CASE RecSnapshot \/ RecSandboxes \/ RecSleep \/ RecBreaks
    BY <2>3, Zenon DEF RecSnapshot, RecSandboxes, RecSleep, RecBreaks, Sleeping, RecType
  <2> HIDE DEF ClientAgrees
  <2>4. CASE RecBox \/ RecFail \/ RecWriteHealth \/ RecReap
    BY <2>1, <2>2, <2>4 DEF RecBox, RecFail, RecWriteHealth, RecReap
  <2>5. ASSUME NEW s \in Services, RecDead(s)
        PROVE  RecAgrees(rec')
    <3>1. CASE rec' = [rec EXCEPT !.pc = "box", !.cur = s, !.addr = box[s].ip]
      BY <3>1, Zenon DEF RecType
    <3> QED BY <2>1, <2>5, <3>1 DEF RecDead
  <2>6. ASSUME NEW s \in Services, RecHealth(s)
        PROVE  RecAgrees(rec')
    <3>1. rec.rows[s].pid # NoPid
      BY <2>6 DEF RecHealth, ProcessAlive
    <3> QED BY <2>1, <2>2, <2>6, <3>1, OutcomeKinds DEF RecHealth
  <2>7. ASSUME NEW s \in Services, RecSkip(s) \/ RecStale(s) \/ RecLiveBox(s)
        PROVE  RecAgrees(rec')
    BY <2>1, <2>2, <2>7 DEF RecSkip, RecStale, RecLiveBox
  <2> QED BY <1>5, <2>0, <2>3, <2>4, <2>5, <2>6, <2>7 DEF Reconcile
<1>6. ASSUME NEW c \in Clients, Breaks(c)
      PROVE  /\ \A d \in Clients : ClientAgrees(cl'[d])
             /\ RecAgrees(rec')
  BY <1>0, <1>1, <1>6 DEF Breaks, Return
<1>7. CASE (\E p \in Pids : Exit(p) \/ TreeJoins(p) \/ TreeEnds(p)) \/ UNCHANGED vars
  BY <1>0, <1>1, <1>7 DEF Exit, TreeJoins, TreeEnds, vars
<1>8. CASE DaemonRestart
  BY <1>0, <1>1, <1>8 DEF DaemonRestart
<1> QED BY <1>2, <1>3, <1>4, <1>5, <1>6, <1>7, <1>8 DEF Next

------------------------------------------------------------------------------
(* What a step may write.                                                  *)

(* A process keeps its owner, is never free again, and never runs again.   *)
ProcLives(p) ==
    /\ proc[p].state # "free" => proc'[p].state # "free" /\ proc'[p].owner = proc[p].owner
    /\ proc'[p].state = "running" => proc[p].state \in {"free", "running"}

LEMMA ProcWrites ==
    ASSUME TypeOK, [Next]_vars
    PROVE  \A p \in Pids : ProcLives(p)
<1>0. proc \in [Pids -> ProcType]
  BY DEF TypeOK
<1> USE <1>0 DEF ProcLives
<1>1. CASE UNCHANGED proc
  BY <1>1
<1>2. ASSUME NEW c \in Clients, Operate(c)
      PROVE  \A p \in Pids : ProcLives(p)
  <2>1. CASE StartSpawn(c)
    BY <2>1 DEF StartSpawn
  <2>2. CASE Kill(c) \/ KillMisses(c)
    <3>1. UNCHANGED proc \/ \E q \in Pids, state \in {"dying", "exited"} :
              proc[q].state # "free" /\ proc' = [proc EXCEPT ![q].state = state]
      BY <2>2 DEF Kill, KillMisses, StopPid, Running, ProcessAlive
    <3> QED BY <3>1, <1>1, SMT DEF ProcType
  <2>3. \/ StartSpawn(c) \/ Kill(c) \/ KillMisses(c) \/ UNCHANGED proc
    BY <1>2 DEF Operate, DeployRoutes, StartAddress, StartPrepare, StartSpawnFails, StartAborts,
                StartRow, StartBox, StartProbe, StartFinish, UndoClean, UndoRow, UndoBox,
                StopRow, StopClean, StopBox, StopFinish, DestroyClean, DestroyTables, DestroyRow
  <2> QED BY <1>1, <2>1, <2>2, <2>3
<1>3. ASSUME NEW p \in Pids, Exit(p) \/ TreeJoins(p) \/ TreeEnds(p)
      PROVE  \A q \in Pids : ProcLives(q)
  BY <1>3, SMT DEF Exit, TreeJoins, TreeEnds, ProcType
<1>4. CASE DaemonRestart
  BY <1>4, SMT DEF DaemonRestart, ProcType
<1>5. (\E c \in Clients, s \in Services : Request(c, s)) => UNCHANGED proc
  BY DEF Request, DeployRegister, StartLoad, StopLoad
<1>6. Reconcile => UNCHANGED proc
  BY DEF Reconcile, RecSnapshot, RecBox, RecFail, RecWriteHealth, RecSandboxes, RecReap,
         RecSleep, RecBreaks, RecDead, RecHealth, RecSkip, RecStale, RecLiveBox
<1>7. (\E c \in Clients : Breaks(c)) \/ UNCHANGED vars => UNCHANGED proc
  BY DEF Breaks, vars
<1> QED BY <1>1, <1>2, <1>3, <1>4, <1>5, <1>6, <1>7 DEF Next

(* A client past the spawn of its start.                                   *)
Spawner(c) == cl[c].op = "start" /\ cl[c].pc \in {"row", "box", "probe", "probed"}

(* Who writes the row of a service, and what.                              *)
RowWritten(s) ==
    \/ svc'[s] = svc[s]
    \/ svc'[s] = AbsentRow
    \/ /\ svc'[s].status = "deployed" /\ svc'[s].pid = svc[s].pid
       /\ \E c \in Clients : cl'[c].op = "deploy" /\ cl'[c].on = s
    \/ /\ Registered(s) /\ svc'[s].status \in {"starting", "healthy", "degraded"}
       /\ \E c \in Clients : Spawner(c) /\ cl[c].on = s /\ svc'[s].pid = cl[c].child
    \/ /\ Registered(s) /\ svc'[s].status \in {"healthy", "degraded"}
       /\ rec.pc \in {"healthy", "degraded"} /\ rec.cur = s /\ svc'[s].pid = rec.rows[s].pid
    \/ Registered(s) /\ svc'[s].status \in {"stopped", "failed"} /\ svc'[s].pid = NoPid

LEMMA RowWrites ==
    ASSUME TypeOK, LocalsAgree, [Next]_vars
    PROVE  \A s \in Services : RowWritten(s)
<1>0. svc \in [Services -> RowType] /\ cl \in [Clients -> ClientType]
  BY DEF TypeOK
<1> USE <1>0
<1>1. CASE UNCHANGED svc
  BY <1>1 DEF RowWritten
<1>2. ASSUME NEW c \in Clients, NEW t \in Services, Request(c, t)
      PROVE  \A s \in Services : RowWritten(s)
  <2>1. CASE DeployRegister(c, t)
    <3>1. cl'[c].op = "deploy" /\ cl'[c].on = t
      BY <2>1 DEF DeployRegister, Call
    <3>2. svc' = [svc EXCEPT ![t].status = "deployed"]
      BY <2>1 DEF DeployRegister
    <3>3. svc'[t].status = "deployed" /\ svc'[t].pid = svc[t].pid
      BY <3>2, SMT DEF RowType
    <3> QED BY <3>1, <3>2, <3>3 DEF RowWritten
  <2> QED BY <1>1, <1>2, <2>1 DEF Request, StartLoad, StopLoad, db
<1>3. ASSUME NEW c \in Clients, Operate(c)
      PROVE  \A s \in Services : RowWritten(s)
  <2>1. CASE StartRow(c) \/ StartProbe(c)
    <3>1. PICK st \in {"starting", "healthy", "degraded"} : SetStatus(cl[c].on, st, cl[c].child)
      <4>1. cl[c].on \in Services
        BY <2>1 DEF StartRow, StartProbe, At, LocalsAgree
      <4> QED BY <2>1, <4>1, OutcomeKinds DEF StartRow, StartProbe
    <3>2. Spawner(c)
      BY <2>1 DEF StartRow, StartProbe, At, Spawner
    <3> QED BY <3>1, <3>2 DEF SetStatus, RowWritten
  <2>2. CASE UndoRow(c) \/ StopRow(c)
    BY <2>2 DEF UndoRow, StopRow, SetStatus, RowWritten
  <2>3. CASE DestroyRow(c)
    BY <2>3 DEF DestroyRow, RowWritten
  <2>4. \/ StartRow(c) \/ StartProbe(c) \/ UndoRow(c) \/ StopRow(c) \/ DestroyRow(c)
        \/ UNCHANGED svc
    BY <1>3 DEF Operate, DeployRoutes, StartAddress, StartPrepare, StartSpawn, StartSpawnFails, StartAborts,
                StartBox, StartFinish, UndoClean, UndoBox, Kill, KillMisses,
                StopClean, StopBox, StopFinish, DestroyClean, DestroyTables, db
  <2> QED BY <1>1, <2>1, <2>2, <2>3, <2>4
<1>4. ASSUME Reconcile
      PROVE  \A s \in Services : RowWritten(s)
  <2>1. CASE RecFail
    BY <2>1 DEF RecFail, SetStatus, RowWritten
  <2>2. CASE RecWriteHealth
    BY <2>2 DEF RecWriteHealth, SetStatus, RowWritten
  <2>3. RecFail \/ RecWriteHealth \/ UNCHANGED svc
    BY <1>4 DEF Reconcile, RecSnapshot, RecBox, RecSandboxes, RecReap,
                RecSleep, RecBreaks, RecDead, RecHealth, RecSkip, RecStale, RecLiveBox, db
  <2> QED BY <1>1, <2>1, <2>2, <2>3
<1>5. (\E c \in Clients : Breaks(c)) \/ DaemonRestart
        \/ (\E p \in Pids : Exit(p) \/ TreeJoins(p) \/ TreeEnds(p)) \/ UNCHANGED vars => UNCHANGED svc
  BY DEF Breaks, Exit, TreeJoins, TreeEnds, DaemonRestart, vars, db
<1> QED BY <1>1, <1>2, <1>3, <1>4, <1>5 DEF Next

(* Who writes the sandbox row of a service, and what.                      *)
BoxWritten(s) ==
    \/ box'[s] = box[s]
    \/ box'[s] = AbsentBox
    \/ box'[s].status = "stopped" /\ box'[s].pid = NoPid
    \/ /\ box'[s].status = "up"
       /\ \E c \in Clients : Spawner(c) /\ cl[c].on = s /\ box'[s].pid = cl[c].child

LEMMA BoxWrites ==
    ASSUME TypeOK, [Next]_vars
    PROVE  \A s \in Services : BoxWritten(s)
<1>0. box \in [Services -> BoxType]
  BY DEF TypeOK
<1> USE <1>0
<1>1. CASE UNCHANGED box
  BY <1>1 DEF BoxWritten
<1>2. ASSUME NEW c \in Clients, Operate(c)
      PROVE  \A s \in Services : BoxWritten(s)
  <2>1. CASE StartBox(c) \/ StartFinish(c)
    <3>1. Spawner(c) /\ UpsertBox(cl[c].on, "up", cl[c].child, cl[c].addr)
      BY <2>1 DEF StartBox, StartFinish, At, Spawner
    <3> QED BY <3>1 DEF UpsertBox, BoxWritten
  <2>2. CASE UndoBox(c) \/ StopBox(c)
    BY <2>2 DEF UndoBox, StopBox, UpsertBox, BoxWritten
  <2>3. CASE DestroyTables(c)
    BY <2>3 DEF DestroyTables, BoxWritten
  <2>4. \/ StartBox(c) \/ StartFinish(c) \/ UndoBox(c) \/ StopBox(c) \/ DestroyTables(c)
        \/ UNCHANGED box
    BY <1>2 DEF Operate, DeployRoutes, StartAddress, StartPrepare, StartSpawn, StartSpawnFails, StartAborts,
                StartRow, StartProbe, UndoClean, UndoRow, Kill, KillMisses, StopRow,
                StopClean, StopFinish, DestroyClean, DestroyRow, db
  <2> QED BY <1>1, <2>1, <2>2, <2>3, <2>4
<1>3. ASSUME Reconcile
      PROVE  \A s \in Services : BoxWritten(s)
  <2>1. CASE RecBox \/ RecReap
    BY <2>1 DEF RecBox, RecReap, UpsertBox, BoxWritten
  <2>2. RecBox \/ RecReap \/ UNCHANGED box
    BY <1>3 DEF Reconcile, RecSnapshot, RecFail, RecWriteHealth, RecSandboxes,
                RecSleep, RecBreaks, RecDead, RecHealth, RecSkip, RecStale, RecLiveBox, db
  <2> QED BY <1>1, <2>1, <2>2
<1>4. (\E c \in Clients, s \in Services : Request(c, s)) => UNCHANGED box
  BY DEF Request, DeployRegister, StartLoad, StopLoad, db
<1>5. (\E c \in Clients : Breaks(c)) \/ DaemonRestart
        \/ (\E p \in Pids : Exit(p) \/ TreeJoins(p) \/ TreeEnds(p)) \/ UNCHANGED vars => UNCHANGED box
  BY DEF Breaks, Exit, TreeJoins, TreeEnds, DaemonRestart, vars, db
<1> QED BY <1>1, <1>2, <1>3, <1>4, <1>5 DEF Next

(* What the reconcile loop remembers of a service.                         *)
RecWritten(s) ==
    /\ rec'.rows[s] \in {rec.rows[s], svc[s], AbsentRow}
    /\ rec'.boxes[s] \in {rec.boxes[s], box[s], AbsentBox}

LEMMA RecWrites ==
    ASSUME TypeOK, LocalsAgree, [Next]_vars
    PROVE  \A s \in Services : RecWritten(s)
<1>0. rec \in RecType
  BY DEF TypeOK
<1> USE <1>0 DEF RecWritten
<1>1. CASE UNCHANGED rec
  BY <1>1
<1>2. CASE rec' = Sleeping
  BY <1>2 DEF Sleeping
<1>3. ASSUME Reconcile
      PROVE  \A s \in Services : RecWritten(s)
  <2>1. CASE RecSnapshot
    BY <2>1 DEF RecSnapshot, Sleeping
  <2>2. ASSUME NEW pc, NEW t, RecTurn(pc, t)
        PROVE  \A s \in Services : RecWritten(s)
    BY <2>2, Zenon DEF RecTurn, RecType
  <2>3. ASSUME NEW t \in Services, RecNext(t)
        PROVE  \A s \in Services : RecWritten(s)
    <3>1. rec.rows \in [Services -> RowType]
      BY RecFields
    <3>2. rec'.rows = [rec.rows EXCEPT ![t] = AbsentRow] /\ rec'.boxes = rec.boxes
      BY <2>3, Zenon DEF RecNext, RecType
    <3> QED BY <3>1, <3>2
  <2>4. ASSUME NEW t \in Services, RecNextBox(t)
        PROVE  \A s \in Services : RecWritten(s)
    <3>1. rec.boxes \in [Services -> BoxType]
      BY RecFields
    <3>2. rec'.boxes = [rec.boxes EXCEPT ![t] = AbsentBox] /\ rec'.rows = rec.rows
      BY <2>4, Zenon DEF RecNextBox, RecType
    <3> QED BY <3>1, <3>2
  <2>5. CASE RecSandboxes
    BY <2>5, Zenon DEF RecSandboxes, RecType
  <2>6. ASSUME NEW t \in Services, RecDead(t)
        PROVE  \A s \in Services : RecWritten(s)
    <3>1. CASE rec' = [rec EXCEPT !.pc = "box", !.cur = t, !.addr = box[t].ip]
      BY <3>1, Zenon DEF RecType
    <3> QED BY <1>2, <2>2, <2>6, <3>1 DEF RecDead
  <2>7. rec.pc \in {"fail", "healthy", "degraded", "reap"} => rec.cur \in Services
    BY DEF LocalsAgree
  <2> HIDE DEF RecWritten
  <2>8. CASE RecBox \/ RecFail \/ RecWriteHealth \/ RecReap \/ RecSleep \/ RecBreaks
    BY <1>2, <2>2, <2>3, <2>4, <2>7, <2>8 DEF RecBox, RecFail, RecWriteHealth, RecReap,
                                              RecSleep, RecBreaks
  <2>9. ASSUME NEW t \in Services,
               RecHealth(t) \/ RecSkip(t) \/ RecStale(t) \/ RecLiveBox(t)
        PROVE  \A s \in Services : RecWritten(s)
    BY <1>2, <2>2, <2>3, <2>4, <2>9 DEF RecHealth, RecSkip, RecStale, RecLiveBox
  <2> QED BY <1>3, <2>1, <2>5, <2>6, <2>8, <2>9 DEF Reconcile
<1>4. ASSUME NEW c \in Clients, Operate(c)
      PROVE  UNCHANGED rec
    BY <1>4 DEF Operate, DeployRoutes, StartAddress, StartPrepare, StartSpawn, StartSpawnFails, StartAborts,
                StartRow, StartBox, StartProbe, StartFinish, UndoClean, UndoRow, UndoBox, Kill,
                KillMisses, StopRow, StopClean, StopBox, StopFinish, DestroyClean,
                DestroyTables, DestroyRow
<1>5. (\E c \in Clients, s \in Services : Request(c, s)) => UNCHANGED rec
  BY DEF Request, DeployRegister, StartLoad, StopLoad
<1>6. (\E c \in Clients : Breaks(c)) \/ (\E p \in Pids : Exit(p) \/ TreeJoins(p) \/ TreeEnds(p))
        \/ UNCHANGED vars => UNCHANGED rec
  BY DEF Breaks, Exit, TreeJoins, TreeEnds, vars
<1>7. DaemonRestart => rec' = Sleeping
  BY DEF DaemonRestart
<1> QED BY <1>1, <1>2, <1>3, <1>4, <1>5, <1>6, <1>7 DEF Next

(* What a client holds.                                                    *)
ClientWritten(c) ==
    \/ cl'[c].on = cl[c].on /\ cl'[c].held = cl[c].held /\ cl'[c].child = cl[c].child
    \/ cl'[c].held = NoPid /\ cl'[c].child = NoPid
    \/ \E s \in Services : cl'[c].on = s /\ cl'[c].held = svc[s].pid /\ cl'[c].child = NoPid
    \/ /\ cl'[c].on = cl[c].on /\ cl'[c].held = cl[c].held
       /\ cl'[c].child \in Pids /\ proc'[cl'[c].child].owner = cl[c].on
       /\ proc'[cl'[c].child].state # "free"

LEMMA ClientWrites ==
    ASSUME TypeOK, LocalsAgree, [Next]_vars
    PROVE  \A c \in Clients : ClientWritten(c)
<1>0. cl \in [Clients -> ClientType]
  BY DEF TypeOK
<1> USE <1>0
<1>1. CASE UNCHANGED cl
  BY <1>1 DEF ClientWritten
<1>2. ASSUME NEW c \in Clients, Return(c)
      PROVE  \A d \in Clients : ClientWritten(d)
  BY <1>2 DEF Return, IdleClient, ClientWritten
<1>3. ASSUME NEW c \in Clients, NEW s \in Services, Request(c, s)
      PROVE  \A d \in Clients : ClientWritten(d)
  <2>1. CASE DeployRegister(c, s)
    BY <2>1 DEF DeployRegister, Call, ClientWritten
  <2>2. CASE StartLoad(c, s)
    BY <2>2 DEF StartLoad, Call, ClientWritten
  <2>3. CASE StopLoad(c, s)
    BY <2>3 DEF StopLoad, Call, ClientWritten
  <2> QED BY <1>3, <2>1, <2>2, <2>3 DEF Request
<1>4. ASSUME NEW c \in Clients, Operate(c)
      PROVE  \A d \in Clients : ClientWritten(d)
  <2>1. CASE StartSpawn(c)
    <3>1. proc \in [Pids -> ProcType]
      BY DEF TypeOK
    <3> QED BY <2>1, <3>1 DEF StartSpawn, Spawned, ClientWritten
  <2>2. ASSUME NEW pc, Goto(c, pc)
        PROVE  \A d \in Clients : ClientWritten(d)
    BY <2>2, SMT DEF Goto, ClientWritten, ClientType
  <2>3. ASSUME NEW op, StartFails(c, op)
        PROVE  \A d \in Clients : ClientWritten(d)
    BY <2>3 DEF StartFails, ClientWritten
  <2>4. ASSUME NEW pc, NEW i, Locate(c, pc, i)
        PROVE  \A d \in Clients : ClientWritten(d)
    BY <2>4 DEF Locate, ClientWritten
  <2>5. CASE StartAddress(c) \/ StopClean(c) \/ StartAborts(c) \/ StartBox(c)
    BY <1>2, <2>2, <2>3, <2>4, <2>5 DEF StartAddress, StopClean, StartAborts, StartBox
  <2>6. CASE \/ DeployRoutes(c) \/ StartSpawnFails(c) \/ StartFinish(c) \/ UndoBox(c)
             \/ KillMisses(c) \/ StopFinish(c) \/ DestroyRow(c)
    BY <1>2, <2>6 DEF DeployRoutes, StartSpawnFails, StartFinish, UndoBox,
                      KillMisses, StopFinish, DestroyRow
  <2>7. CASE \/ StartRow(c) \/ StartProbe(c) \/ Kill(c) \/ UndoRow(c) \/ StopRow(c)
             \/ StopBox(c) \/ DestroyTables(c)
    BY <2>2, <2>7 DEF StartRow, StartProbe, Kill, UndoRow, StopRow, StopBox, DestroyTables
  <2>8. CASE StartPrepare(c) \/ UndoClean(c) \/ DestroyClean(c)
    BY <1>2, <2>2, <2>8 DEF StartPrepare, UndoClean, DestroyClean
  <2> QED BY <1>4, <2>1, <2>5, <2>6, <2>7, <2>8 DEF Operate
<1>5. ASSUME NEW c \in Clients, Breaks(c)
      PROVE  \A d \in Clients : ClientWritten(d)
  BY <1>2, <1>5 DEF Breaks
<1>6. CASE DaemonRestart
  BY <1>6 DEF DaemonRestart, IdleClient, ClientWritten
<1>7. Reconcile => UNCHANGED cl
  BY DEF Reconcile, RecSnapshot, RecBox, RecFail, RecWriteHealth, RecSandboxes, RecReap,
         RecSleep, RecBreaks, RecDead, RecHealth, RecSkip, RecStale, RecLiveBox
<1>8. (\E p \in Pids : Exit(p) \/ TreeJoins(p) \/ TreeEnds(p)) \/ UNCHANGED vars => UNCHANGED cl
  BY DEF Exit, TreeJoins, TreeEnds, vars
<1> QED BY <1>1, <1>3, <1>4, <1>5, <1>6, <1>7, <1>8 DEF Next

------------------------------------------------------------------------------
(* The invariants                                                          *)

LEMMA OwnershipStep ==
    ASSUME TypeOK, LocalsAgree, PidOwnership, [Next]_vars
    PROVE  PidOwnership'
<1> DEFINE Owns(s, p) == p = NoPid \/ (p \in Pids /\ proc'[p].state # "free"
                                                 /\ proc'[p].owner = s)
<1>1. \A s, p : OwnedBy(s, p) => Owns(s, p)
  BY ProcWrites DEF OwnedBy, ProcLives
<1>2. \A s : Owns(s, NoPid)
  OBVIOUS
<1> HIDE DEF Owns
<1>3. ASSUME NEW s \in Services
      PROVE  Owns(s, svc'[s].pid) /\ Owns(s, box'[s].pid)
  <2>1. \A c \in Clients : cl[c].on = s => Owns(s, cl[c].child)
    BY <1>1 DEF PidOwnership
  <2>2. Owns(s, svc[s].pid) /\ Owns(s, box[s].pid) /\ Owns(s, rec.rows[s].pid)
    BY <1>1 DEF PidOwnership
  <2>3. RowWritten(s) /\ BoxWritten(s)
    BY RowWrites, BoxWrites
  <2>4. Owns(s, svc'[s].pid)
    BY <1>2, <2>1, <2>2, <2>3 DEF RowWritten, AbsentRow
  <2>5. Owns(s, box'[s].pid)
    BY <1>2, <2>1, <2>2, <2>3 DEF BoxWritten, AbsentBox
  <2> QED BY <2>4, <2>5
<1>4. ASSUME NEW s \in Services
      PROVE  Owns(s, rec'.rows[s].pid) /\ Owns(s, rec'.boxes[s].pid)
  <2>1. /\ Owns(s, svc[s].pid) /\ Owns(s, box[s].pid)
        /\ Owns(s, rec.rows[s].pid) /\ Owns(s, rec.boxes[s].pid)
    BY <1>1 DEF PidOwnership
  <2> QED BY <1>2, <2>1, RecWrites DEF RecWritten, AbsentRow, AbsentBox
<1>5. ASSUME NEW c \in Clients
      PROVE  Owns(cl'[c].on, cl'[c].held) /\ Owns(cl'[c].on, cl'[c].child)
  <2>1. Owns(cl[c].on, cl[c].held) /\ Owns(cl[c].on, cl[c].child)
    BY <1>1 DEF PidOwnership
  <2>2. \A s \in Services : Owns(s, svc[s].pid)
    BY <1>1 DEF PidOwnership
  <2>3. \A s, p : p \in Pids /\ proc'[p].state # "free" /\ proc'[p].owner = s => Owns(s, p)
    BY DEF Owns
  <2>4. ClientWritten(c)
    BY ClientWrites
  <2> QED BY <1>2, <2>1, <2>2, <2>3, <2>4 DEF ClientWritten
<1> QED BY <1>3, <1>4, <1>5 DEF PidOwnership, OwnedBy, Owns

LEMMA RowsStep ==
    ASSUME TypeOK, LocalsAgree, RowsAgree, [Next]_vars
    PROVE  RowsAgree'
<1> SUFFICES ASSUME NEW s \in Services
             PROVE  /\ svc'[s].status \in {"absent", "stopped", "failed"} => svc'[s].pid = NoPid
                    /\ svc'[s].status \in {"starting", "healthy", "degraded"}
                          => svc'[s].pid # NoPid
                    /\ (box'[s].status = "up") <=> (box'[s].pid # NoPid)
  BY DEF RowsAgree, BoxUp
<1>1. \A c \in Clients : Spawner(c) => cl[c].child # NoPid
  BY DEF LocalsAgree, Spawner
<1>2. rec.pc \in {"healthy", "degraded"} => rec.rows[rec.cur].pid # NoPid
  BY DEF LocalsAgree
<1>3. /\ svc[s].status \in {"absent", "stopped", "failed"} => svc[s].pid = NoPid
      /\ svc[s].status \in {"starting", "healthy", "degraded"} => svc[s].pid # NoPid
      /\ (box[s].status = "up") <=> (box[s].pid # NoPid)
  BY DEF RowsAgree, BoxUp
<1>4. RowWritten(s) /\ BoxWritten(s)
  BY RowWrites, BoxWrites
<1>5. /\ svc'[s].status \in {"absent", "stopped", "failed"} => svc'[s].pid = NoPid
      /\ svc'[s].status \in {"starting", "healthy", "degraded"} => svc'[s].pid # NoPid
  BY <1>1, <1>2, <1>3, <1>4 DEF RowWritten, AbsentRow
<1>6. (box'[s].status = "up") <=> (box'[s].pid # NoPid)
  BY <1>1, <1>3, <1>4 DEF BoxWritten, AbsentBox
<1> QED BY <1>5, <1>6

LEMMA FailureStep ==
    ASSUME TypeOK, LocalsAgree, PidOwnership, FailureIsReal, [Next]_vars
    PROVE  FailureIsReal'
<1> DEFINE Reported == rec.rows[rec.cur].pid
<1>0. rec \in RecType /\ rec' \in RecType
  BY TypeStep DEF TypeOK
(* A process that is not running, and not free, does not run again.        *)
<1>1. ASSUME NEW s \in Services, NEW p, p = rec.rows[s].pid, ~Running(p)
      PROVE  ~(p \in Pids /\ proc'[p].state = "running")
  <2>1. p = NoPid \/ (p \in Pids /\ proc[p].state # "free")
    BY <1>1 DEF PidOwnership, OwnedBy
  <2> QED BY <1>1, <2>1, ProcWrites, ConstantsAssumption DEF ProcLives, Running
<1>2. CASE rec'.rows = rec.rows /\ rec'.cur = rec.cur /\ rec.pc \in {"box", "fail"}
  <2>1. rec.cur \in Services /\ ~Running(Reported)
    BY <1>2 DEF LocalsAgree, FailureIsReal
  <2> QED BY <1>1, <1>2, <2>1 DEF FailureIsReal, Running
<1>3. CASE rec'.pc \notin {"box", "fail"}
  BY <1>3 DEF FailureIsReal
<1>4. ASSUME NEW s \in Services, RecDead(s)
      PROVE  FailureIsReal'
  <2>1. ~Running(rec.rows[s].pid)
    BY <1>4 DEF RecDead, ProcessAlive, Running
  <2>2. CASE rec' = [rec EXCEPT !.pc = "box", !.cur = s, !.addr = box[s].ip]
    <3>1. rec'.rows = rec.rows /\ rec'.cur = s
      BY <1>0, <2>2, Zenon DEF RecType
    <3> QED BY <1>1, <2>1, <3>1 DEF FailureIsReal, Running
  <2>3. CASE RecTurn("fail", s)
    <3>1. rec'.rows = rec.rows /\ rec'.cur = s
      BY <1>0, <2>3, Zenon DEF RecTurn, RecType
    <3> QED BY <1>1, <2>1, <3>1 DEF FailureIsReal, Running
  <2>4. CASE rec' = Sleeping
    BY <1>3, <2>4 DEF Sleeping
  <2> QED BY <1>4, <2>2, <2>3, <2>4 DEF RecDead
<1>5. ASSUME Reconcile
      PROVE  FailureIsReal'
  <2>1. CASE RecBox
    <3>1. rec'.rows = rec.rows /\ rec'.cur = rec.cur /\ rec.pc = "box"
      BY <1>0, <2>1, Zenon DEF RecBox, RecTurn, RecType
    <3> QED BY <1>2, <3>1
  <2>2. ASSUME NEW s, RecNext(s) \/ RecNextBox(s)
        PROVE  rec'.pc \notin {"box", "fail"}
    BY <1>0, <2>2, Zenon DEF RecNext, RecNextBox, RecType
  <2>3. ASSUME NEW pc \in {"healthy", "degraded", "reap"}, NEW s, RecTurn(pc, s)
        PROVE  rec'.pc \notin {"box", "fail"}
    BY <1>0, <2>3 DEF RecTurn, RecType
  <2>4. rec' = Sleeping => rec'.pc \notin {"box", "fail"}
    BY DEF Sleeping
  <2>5. CASE RecSnapshot \/ RecSandboxes \/ RecSleep \/ RecBreaks
    BY <1>0, <1>3, <2>4, <2>5 DEF RecSnapshot, RecSandboxes, RecSleep, RecBreaks, Sleeping,
                                  RecType
  <2>6. CASE RecFail \/ RecWriteHealth \/ RecReap
    BY <1>3, <2>2, <2>6 DEF RecFail, RecWriteHealth, RecReap
  <2>7. ASSUME NEW s \in Services,
               RecHealth(s) \/ RecSkip(s) \/ RecStale(s) \/ RecLiveBox(s)
        PROVE  FailureIsReal'
    BY <1>3, <2>2, <2>3, <2>4, <2>7, OutcomeKinds DEF RecHealth, RecSkip, RecStale, RecLiveBox
  <2> QED BY <1>4, <1>5, <2>1, <2>5, <2>6, <2>7 DEF Reconcile
<1>6. CASE UNCHANGED rec
  BY <1>2, <1>3, <1>6
<1>7. (\E c \in Clients : Operate(c)) => UNCHANGED rec
  BY DEF Operate, DeployRoutes, StartAddress, StartPrepare, StartSpawn, StartSpawnFails, StartAborts,
         StartRow, StartBox, StartProbe, StartFinish, UndoClean, UndoRow, UndoBox, Kill,
         KillMisses, StopRow, StopClean, StopBox, StopFinish, DestroyClean,
         DestroyTables, DestroyRow
<1>8. (\E c \in Clients, s \in Services : Request(c, s)) => UNCHANGED rec
  BY DEF Request, DeployRegister, StartLoad, StopLoad
<1>9. (\E c \in Clients : Breaks(c)) \/ (\E p \in Pids : Exit(p) \/ TreeJoins(p) \/ TreeEnds(p))
        \/ UNCHANGED vars => UNCHANGED rec
  BY DEF Breaks, Exit, TreeJoins, TreeEnds, vars
<1>10. DaemonRestart => rec'.pc = "sleep"
  BY DEF DaemonRestart, Sleeping
<1> QED BY <1>3, <1>5, <1>6, <1>7, <1>8, <1>9, <1>10 DEF Next

LEMMA InitInv == Init => IInv
<1> SUFFICES ASSUME Init PROVE IInv
  OBVIOUS
<1>1. TypeOK
  <2>1. [state |-> "free", tree |-> "none", owner |-> NoService, resident |-> FALSE]
          \in ProcType
    BY Empties, Zenon DEF ProcType
  <2> QED BY <2>1, Empties, SleepingType DEF Init, TypeOK
<1>2. LocalsAgree
  BY DEF Init, LocalsAgree, IdleClient, Sleeping
<1>3. PidOwnership
  BY DEF Init, PidOwnership, OwnedBy, AbsentRow, AbsentBox, IdleClient, Sleeping
<1>4. RowsAgree
  BY DEF Init, RowsAgree, AbsentRow, AbsentBox, BoxUp
<1>5. FailureIsReal
  BY DEF Init, FailureIsReal, Sleeping
<1> QED BY <1>1, <1>2, <1>3, <1>4, <1>5 DEF IInv

LEMMA StepInv == IInv /\ [Next]_vars => IInv'
  BY TypeStep, LocalsStep, OwnershipStep, RowsStep, FailureStep DEF IInv

(* Invariance: the strengthened invariant holds of every reachable state.  *)
THEOREM Invariance == Spec => []IInv
  BY InitInv, StepInv, PTL DEF Spec

(* TypeCorrect: every table, process and local stays in its type.          *)
THEOREM TypeCorrect == Spec => []TypeOK
<1>1. IInv => TypeOK
  BY DEF IInv
<1> QED BY <1>1, Invariance, PTL

(* PidsOwned: a recorded or held pid is always a process of that very      *)
(* service, so no operation and no tick signals or reports another one's.  *)
THEOREM PidsOwned == Spec => []PidOwnership
<1>1. IInv => PidOwnership
  BY DEF IInv
<1> QED BY <1>1, Invariance, PTL

(* RowsAlwaysAgree: the status and the pid of every row agree although     *)
(* start, stop and the loop write them without a lock.                     *)
THEOREM RowsAlwaysAgree == Spec => []RowsAgree
<1>1. IInv => RowsAgree
  BY DEF IInv
<1> QED BY <1>1, Invariance, PTL

(* FailuresAreReal: the loop reports process_exited only of a process that *)
(* does not run, however stale the snapshot it took the pid from.          *)
THEOREM FailuresAreReal == Spec => []FailureIsReal
<1>1. IInv => FailureIsReal
  BY DEF IInv
<1> QED BY <1>1, Invariance, PTL

(* NoResurrection: only a deploy brings a service's row back.              *)
THEOREM NoResurrection == Spec => NeverResurrected
<1> DEFINE OnlyByDeploy == \A s \in Services :
             ~Registered(s) /\ svc'[s].status # "absent" =>
                \E c \in Clients : cl'[c].op = "deploy" /\ cl'[c].on = s
<1>1. ASSUME IInv, [Next]_vars
      PROVE  [OnlyByDeploy]_vars
  BY <1>1, RowWrites DEF IInv, RowWritten, Registered, AbsentRow
<1> QED BY <1>1, Invariance, PTL DEF Spec, NeverResurrected
=============================================================================
