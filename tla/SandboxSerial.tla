---------------------------- MODULE SandboxSerial ----------------------------
(***************************************************************************)
(* What holds of Sandbox while its callers work one after the other, in    *)
(* spite of failures and kills, for every set of services, callers and     *)
(* processes: what each step may rely on, and why the one before it, or    *)
(* the refusal of a request, has seen to it.                               *)
(***************************************************************************)
EXTENDS SandboxProofs

(* The steps of a start before its spawn, and from there to its rows.      *)
Builds == {"rmdir", "cut", "prepare", "root", "net", "pair", "wire", "spawn"}
Serves == {"dns", "dnsSpawn", "dnsOpen", "dnsWrite", "dnsReady", "rows", "box"}
Ends   == {"policy", "idleLook", "idleKill", "idleForget", "leave"}

(* The steps of each operation, and what it holds at them.                 *)
HasChild(x)  == \/ x.op \in {"undoDns", "undoPolicy"}
                \/ x.op = "start" /\ x.pc \in Serves \cup {"policy"}
HasServer(x) == x.op = "start" /\ x.pc \in {"dnsOpen", "dnsWrite", "dnsReady"}
Fits(x) ==
    /\ x.op = "none" => x = IdleCaller
    /\ x.op = "start" => x.pc \in Builds \cup Serves \cup {"policy"}
    /\ x.op = "undoDns" => x.pc \in {"kill", "rmdir", "cut"}
    /\ x.op = "undoPolicy" => x.pc \in {"kill", "rmdir", "cut", "row", "settle"}
    /\ x.op = "stop" => x.pc \in {"kill", "rmdir", "cut", "settle"} \cup Ends
    /\ x.op = "destroy" => x.pc \in {"kill", "rmdir", "cut", "settle", "row"} \cup Ends
    /\ x.op = "tick" => x.pc \in {"rmdir", "cut", "settle", "row"} \cup Ends
    /\ HasChild(x) => x.child \in Trees
    /\ HasServer(x) => x.srv \in Servers
    /\ x.op = "start" /\ x.pc \in Builds \cup {"dns", "dnsSpawn"} => x.srv = NoServer
AllFit == \A c \in Callers : Fits(cl[c])

LEMMA GotoFields ==
    ASSUME TypeOK, NEW c \in Callers, NEW pc, Goto(c, pc)
    PROVE  /\ cl'[c].pc = pc /\ cl'[c].op = cl[c].op /\ cl'[c].on = cl[c].on
           /\ cl'[c].held = cl[c].held /\ cl'[c].child = cl[c].child /\ cl'[c].srv = cl[c].srv
           /\ \A d \in Callers : d # c => cl'[d] = cl[d]
  <1>1. cl[c] \in CallerType /\ cl \in [Callers -> CallerType]
    BY DEF TypeOK
  <1> QED  BY <1>1 DEF Goto, CallerType

LEMMA ReturnFields ==
    ASSUME TypeOK, NEW c \in Callers, Return(c)
    PROVE  cl'[c] = IdleCaller /\ \A d \in Callers : d # c => cl'[d] = cl[d]
  BY DEF Return, TypeOK

LEMMA UndoFields ==
    ASSUME TypeOK, NEW c \in Callers, NEW op, Undo(c, op)
    PROVE  /\ cl'[c].pc = "kill" /\ cl'[c].op = op /\ cl'[c].on = cl[c].on
           /\ cl'[c].held = cl[c].held /\ cl'[c].child = cl[c].child /\ cl'[c].srv = cl[c].srv
           /\ \A d \in Callers : d # c => cl'[d] = cl[d]
  <1>1. cl[c] \in CallerType /\ cl \in [Callers -> CallerType]
    BY DEF TypeOK
  <1> QED  BY <1>1 DEF Undo, CallerType

LEMMA SpawnFields ==
    ASSUME TypeOK, NEW c \in Callers, Spawn(c)
    PROVE  /\ cl'[c].pc = "dns" /\ cl'[c].op = "start" /\ cl'[c].on = cl[c].on
           /\ cl'[c].held = cl[c].held /\ cl'[c].srv = cl[c].srv
           /\ cl'[c].child \in Trees /\ Unspawned(cl'[c].child)
           /\ tree' = [tree EXCEPT ![cl'[c].child] = [NoProcess EXCEPT
              !.svc = cl[c].on, !.resident = (c \in Resident), !.parent = "up",
              !.wired = (net[cl[c].on] = "ready"),
              !.init = IF net[cl[c].on] = "none" THEN "gone" ELSE "mounts"]]
           /\ \A d \in Callers : d # c => cl'[d] = cl[d]
  <1>1. cl[c] \in CallerType /\ cl \in [Callers -> CallerType]
    BY DEF TypeOK
  <1>2. PICK p \in Trees :
        /\ Unspawned(p)
        /\ tree' = [tree EXCEPT ![p] = [NoProcess EXCEPT
              !.svc = cl[c].on, !.resident = (c \in Resident), !.parent = "up",
              !.wired = (net[cl[c].on] = "ready"),
              !.init = IF net[cl[c].on] = "none" THEN "gone" ELSE "mounts"]]
        /\ cl' = [cl EXCEPT ![c] = [@ EXCEPT !.pc = "dns", !.child = p]]
    BY DEF Spawn
  <1>3. /\ cl'[c].pc = "dns" /\ cl'[c].op = cl[c].op /\ cl'[c].on = cl[c].on
        /\ cl'[c].held = cl[c].held /\ cl'[c].srv = cl[c].srv /\ cl'[c].child = p
        /\ \A d \in Callers : d # c => cl'[d] = cl[d]
    BY <1>1, <1>2 DEF CallerType
  <1>4. cl[c].op = "start"
    BY DEF Spawn, At
  <1> QED  BY <1>2, <1>3, <1>4

LEMMA EnsureSpawnFields ==
    ASSUME TypeOK, NEW c \in Callers, EnsureSpawn(c)
    PROVE  /\ cl'[c].pc = "dnsOpen" /\ cl'[c].op = cl[c].op /\ cl'[c].on = cl[c].on
           /\ cl'[c].held = cl[c].held /\ cl'[c].child = cl[c].child
           /\ cl'[c].srv \in Servers /\ server[cl'[c].srv].state = "free"
           /\ server' = [server EXCEPT ![cl'[c].srv] =
                             [state |-> "starting", resident |-> c \in Resident]]
           /\ \A d \in Callers : d # c => cl'[d] = cl[d]
  <1>1. cl[c] \in CallerType /\ cl \in [Callers -> CallerType]
    BY DEF TypeOK
  <1>2. PICK v \in Servers :
        /\ server[v].state = "free"
        /\ server' = [server EXCEPT ![v] = [state |-> "starting", resident |-> c \in Resident]]
        /\ cl' = [cl EXCEPT ![c] = [@ EXCEPT !.pc = "dnsOpen", !.srv = v]]
    BY DEF EnsureSpawn
  <1>3. /\ cl'[c].pc = "dnsOpen" /\ cl'[c].op = cl[c].op /\ cl'[c].on = cl[c].on
        /\ cl'[c].held = cl[c].held /\ cl'[c].child = cl[c].child /\ cl'[c].srv = v
        /\ \A d \in Callers : d # c => cl'[d] = cl[d]
    BY <1>1, <1>2 DEF CallerType
  <1> QED  BY <1>2, <1>3

(* What a request sets.                                                    *)
LEMMA CallFields ==
    ASSUME TypeOK, NEW c \in Callers, NEW op, NEW pc, NEW s, NEW held, Call(c, op, pc, s, held)
    PROVE  /\ cl'[c].pc = pc /\ cl'[c].op = op /\ cl'[c].on = s
           /\ cl'[c].held = held /\ cl'[c].child = NoTree /\ cl'[c].srv = NoServer
           /\ \A d \in Callers : d # c => cl'[d] = cl[d]
           /\ cl[c].pc = "idle"
           /\ overlap' # "now" => Busy = {}
           /\ overlap' = "never" => overlap = "never"
           /\ UNCHANGED <<rows, resources, sidecar, tree>>
  BY DEF Call, TypeOK, IdleCaller

LEMMA IdleFits == Fits(IdleCaller)
  BY DEF Fits, IdleCaller, HasChild, HasServer

LEMMA FitRequest ==
    ASSUME TypeOK, AllFit, NEW c \in Callers, NEW s \in Services, Request(c, s) PROVE AllFit'
  <1>1. PICK op, pc, held : /\ Call(c, op, pc, s, held)
                            /\ \/ op = "start" /\ pc = "rmdir"
                               \/ op \in {"stop", "destroy"} /\ pc = "kill"
                               \/ op = "tick" /\ pc \in {"rmdir", "policy"}
    BY DEF Request, Start, Stop, Destroy, Tick
  <1>2. Fits(cl'[c])
    BY <1>1, CallFields DEF Fits, HasChild, HasServer, Builds, Serves, Ends
  <1> QED  BY <1>1, <1>2, CallFields DEF AllFit

LEMMA FitOperate ==
    ASSUME TypeOK, AllFit, NEW c \in Callers, Operate(c) \/ Crash(c) PROVE AllFit'
  <1>1. Fits(cl[c]) /\ cl[c].op \in Ops
    BY CallerFields DEF AllFit, TypeOK
  <1>2. SUFFICES Fits(cl'[c])
    <2>1. \A d \in Callers : d # c => cl'[d] = cl[d]
      BY OperateMoves DEF Moves
    <2> QED  BY <1>2, <2>1 DEF AllFit
  <1>3. SUFFICES ASSUME ~Return(c) PROVE Fits(cl'[c])
    BY <1>3, IdleFits, ReturnFields
  <1>0. cl[c].op # "none"
    BY <1>1, OperateMoves DEF Fits, IdleCaller
  <1> USE <1>0, <1>1, <1>3, GotoFields, UndoFields
      DEF Fits, HasChild, HasServer, Builds, Serves, Ends, Ops, At
  <1>4. CASE Kill(c)
    BY <1>4 DEF Kill
  <1>5. CASE CleanCgroup(c)
    BY <1>5 DEF CleanCgroup, Undoing, Recalls
  <1>6. CASE CleanNetwork(c)
    BY <1>6 DEF CleanNetwork, AfterCleanup
  <1>7. CASE PrepareCgroup(c) \/ PrepareRoot(c)
    BY <1>7 DEF PrepareCgroup, PrepareRoot
  <1>8. CASE NetName(c) \/ NetPair(c) \/ NetWire(c)
    BY <1>8 DEF NetName, NetPair, NetWire, NetBuild
  <1>9. CASE Spawn(c)
    BY <1>9, SpawnFields DEF Spawn
  <1>10. CASE SpawnFails(c) \/ Leave(c) \/ Crash(c)
    BY <1>10 DEF SpawnFails, Leave, Crash
  <1>11. CASE Rows(c) \/ BoxRow(c)
    BY <1>11 DEF Rows, BoxRow
  <1>12. CASE Policy(c)
    BY <1>12 DEF Policy
  <1>13. CASE SettleBox(c)
    BY <1>13 DEF SettleBox
  <1>14. CASE SettleRow(c)
    BY <1>14 DEF SettleRow
  <1>15. CASE EnsureSpawn(c)
    BY <1>15, EnsureSpawnFields DEF EnsureSpawn
  <1>16. CASE Ensure(c) /\ ~EnsureSpawn(c)
    BY <1>16 DEF Ensure, EnsureTorn, EnsureFound, EnsureMissing, EnsureSpawnFails, EnsureOpen,
                 EnsureWrite, EnsureReady, EnsureTimeout
  <1>17. CASE StopIfIdle(c)
    BY <1>17 DEF StopIfIdle, IdleLook, IdleKill, IdleForget
  <1> QED  BY <1>4, <1>5, <1>6, <1>7, <1>8, <1>9, <1>10, <1>11, <1>12, <1>13, <1>14, <1>15,
              <1>16, <1>17 DEF Operate

LEMMA FitStep == TypeOK /\ AllFit /\ [Next]_vars => AllFit'
  <1>1. CASE UNCHANGED vars \/ Sidecar \/ \E p \in Trees : InitSteps(p) \/ Workload(p)
    BY <1>1, Bystanders DEF AllFit
  <1> QED  BY <1>1, FitRequest, FitOperate DEF Next

------------------------------------------------------------------------------
(* Trees stay where they were spawned, and their parents do not come back. *)

(* A tree whose init runs has its end of the pair of links.                *)
Wired(p) == ~Over(p) => tree[p].wired

LEMMA ProcessSteps ==
    ASSUME TypeOK, NEW q \in Trees, InitSteps(q) \/ Workload(q)
    PROVE  /\ \A p \in Trees : /\ tree'[p].svc = tree[p].svc
                               /\ tree'[p].parent = "up" => tree[p].parent = "up"
                               /\ Wired(p) => Wired(p)'
           /\ UNCHANGED <<rows, resources, sidecar, cl, overlap>>
           /\ faults' = 0 => faults = 0
  <1>1. tree \in [Trees -> TreeType] /\ tree[q] \in TreeType /\ faults \in Nat
    BY DEF TypeOK
  <1> DEFINE Goal == \A p \in Trees : /\ tree'[p].svc = tree[p].svc
                                      /\ tree'[p].parent = "up" => tree[p].parent = "up"
                                      /\ Wired(p) => Wired(p)'
  <1>2. Goal
    <2> USE <1>1 DEF Wired, Over, TreeType
    <2>1. CASE InitMounts(q)
      BY <2>1 DEF InitMounts
    <2>2. ASSUME EndInit(q) PROVE Goal
      BY <2>2 DEF EndInit
    <2>3. CASE InitMountFails(q)
      BY <2>2, <2>3 DEF InitMountFails
    <2>4. CASE InitJoins(q)
      BY <2>2, <2>4 DEF InitJoins
    <2>5. CASE InitSpawns(q)
      BY <2>5 DEF InitSpawns
    <2>6. CASE InitReaps(q)
      <3>1. CASE tree[q].work = "exited"
        BY <2>2, <2>6, <3>1 DEF InitReaps
      <3>2. CASE tree[q].work # "exited"
        <4>1. PICK x : tree' = [tree EXCEPT ![q] = [tree[q] EXCEPT !.chld = FALSE, !.stray = x]]
          BY <2>6, <3>2 DEF InitReaps
        <4> QED  BY <4>1
      <3> QED  BY <3>1, <3>2
    <2>7. CASE ParentReturns(q)
      BY <2>7 DEF ParentReturns
    <2>8. CASE WorkExits(q)
      BY <2>8 DEF WorkExits
    <2>9. CASE WorkForks(q)
      BY <2>9 DEF WorkForks
    <2>10. CASE StrayExits(q)
      BY <2>10 DEF StrayExits
    <2> QED  BY <2>1, <2>3, <2>4, <2>5, <2>6, <2>7, <2>8, <2>9, <2>10 DEF InitSteps, Workload
  <1>3. UNCHANGED <<rows, resources, sidecar, cl, overlap>>
    BY DEF InitSteps, Workload, InitMounts, InitMountFails, InitJoins,
           InitSpawns, InitReaps, ParentReturns, WorkExits, WorkForks, StrayExits
  <1>4. faults' = 0 => faults = 0
    BY <1>1 DEF InitSteps, Workload, InitMounts, InitMountFails, InitJoins, Fault,
           InitSpawns, InitReaps, ParentReturns, WorkExits, WorkForks, StrayExits
  <1> QED  BY <1>2, <1>3, <1>4

(* What each step of a caller touches.                                     *)
LEMMA Footprint ==
    ASSUME NEW c \in Callers, Operate(c) \/ Crash(c)
    PROVE  /\ svc' # svc => Kill(c) \/ Rows(c) \/ SettleRow(c)
           /\ box' # box => BoxRow(c) \/ SettleBox(c)
           /\ tree' # tree => Kill(c) \/ CleanNetwork(c) \/ NetName(c) \/ Spawn(c)
           /\ cgroup' # cgroup => CleanCgroup(c) \/ PrepareCgroup(c)
           /\ net' # net => CleanNetwork(c) \/ NetName(c) \/ NetPair(c) \/ NetWire(c)
           /\ server' # server => EnsureSpawn(c) \/ IdleKill(c)
           /\ pidFile' # pidFile => \/ EnsureMissing(c) \/ EnsureOpen(c) \/ EnsureWrite(c)
                                    \/ IdleForget(c)
  BY DEF Operate, Crash, Kill, CleanCgroup, CleanNetwork, PrepareCgroup, PrepareRoot, NetName,
         NetPair, NetWire, NetBuild, Spawn, SpawnFails, Rows, BoxRow, Policy, SettleBox,
         SettleRow, Leave, Ensure, EnsureTorn, EnsureFound, EnsureMissing, EnsureSpawn,
         EnsureSpawnFails, EnsureOpen, EnsureWrite, EnsureReady, EnsureTimeout, StopIfIdle,
         IdleLook, IdleKill, IdleForget, rows, resources, sidecar

LEMMA FaultCounts == ASSUME TypeOK, NEW k, Fault(k) PROVE faults' # 0
  BY DEF TypeOK, Fault

LEMMA FaultsStay ==
    ASSUME TypeOK, NEW c \in Callers, Operate(c) \/ Crash(c) PROVE faults' = 0 => faults = 0
  BY FaultCounts DEF Operate, Crash, Kill, CleanCgroup, CleanNetwork, PrepareCgroup,
         PrepareRoot, NetName, NetPair, NetWire, NetBuild, Spawn, SpawnFails, Rows, BoxRow,
         Policy, SettleBox, SettleRow, Leave, Ensure, EnsureTorn, EnsureFound, EnsureMissing,
         EnsureSpawn, EnsureSpawnFails, EnsureOpen, EnsureWrite, EnsureReady, EnsureTimeout,
         StopIfIdle, IdleLook, IdleKill, IdleForget

LEMMA CutTrees ==
    ASSUME TypeOK, NEW s, Unwire(s)
    PROVE  \A p \in Trees : /\ tree'[p].svc = tree[p].svc /\ tree'[p].parent = tree[p].parent
                            /\ tree'[p].init = tree[p].init
                            /\ tree[p].svc # s => tree'[p] = tree[p]
  BY DEF TypeOK, Unwire, TreeType

LEMMA KillTrees ==
    ASSUME TypeOK, NEW k, KillParent(k)
    PROVE  \A p \in Trees : /\ tree'[p].svc = tree[p].svc
                            /\ tree'[p].init = tree[p].init /\ tree'[p].wired = tree[p].wired
                            /\ tree'[p].parent = "up" => tree[p].parent = "up"
                            /\ p = k /\ ~Unspawned(p) => tree'[p].parent = "gone"
  BY DEF TypeOK, KillParent, TreeType

LEMMA SpawnTrees ==
    ASSUME TypeOK, NEW c \in Callers, Spawn(c)
    PROVE  /\ \A p \in Trees : ~Unspawned(p) => tree'[p] = tree[p]
           /\ \A p \in Trees : p # cl'[c].child => tree'[p] = tree[p]
           /\ tree'[cl'[c].child].svc = cl[c].on
           /\ tree'[cl'[c].child].wired = (net[cl[c].on] = "ready")
  <1>1. PICK w, i, r : /\ w = (net[cl[c].on] = "ready") /\ r = (c \in Resident)
                       /\ i = IF net[cl[c].on] = "none" THEN "gone" ELSE "mounts"
    OBVIOUS
  <1> DEFINE x == [NoProcess EXCEPT !.svc = cl[c].on, !.resident = r, !.parent = "up",
                                    !.wired = w, !.init = i]
  <1>2. x.svc = cl[c].on /\ x.wired = w
    BY DEF NoProcess
  <1>3. tree' = [tree EXCEPT ![cl'[c].child] = x]
    BY <1>1, SpawnFields
  <1> HIDE DEF x
  <1> QED  BY <1>1, <1>2, <1>3, SpawnFields DEF TypeOK

LEMMA OperateTrees ==
    ASSUME TypeOK, NEW c \in Callers, Operate(c) \/ Crash(c)
    PROVE  \A p \in Trees : ~Unspawned(p) =>
              /\ tree'[p].svc = tree[p].svc
              /\ tree'[p].parent = "up" => tree[p].parent = "up"
  <1>1. CASE Kill(c)
    BY <1>1, KillTrees DEF Kill
  <1>2. CASE CleanNetwork(c) \/ NetName(c)
    BY <1>2, CutTrees DEF CleanNetwork, NetName
  <1>3. CASE Spawn(c)
    BY <1>3, SpawnTrees
  <1>4. CASE tree' = tree
    BY <1>4
  <1> QED  BY <1>1, <1>2, <1>3, <1>4, Footprint

------------------------------------------------------------------------------
(* What a row or a caller names is there: a sandbox row in use has the pid *)
(* of a tree, and the child of a caller is a tree of its service.          *)
Present ==
    /\ \A p \in Trees : tree[p].parent = "up" => ~Unspawned(p)
    /\ \A s \in Services : IF box[s].status = "up"
                           THEN box[s].pid \in Trees /\ ~Unspawned(box[s].pid)
                           ELSE box[s].pid = NoTree
    /\ \A c \in Callers : HasChild(cl[c]) => tree[cl[c].child].svc = cl[c].on

LEMMA ChildStays ==
    ASSUME TypeOK, AllFit, NEW c \in Callers, Operate(c) \/ Crash(c), ~Spawn(c), HasChild(cl'[c])
    PROVE  HasChild(cl[c])
  <1>1. Fits(cl[c]) /\ cl[c].op \in Ops /\ ~Return(c)
    BY CallerFields, ReturnFields DEF AllFit, TypeOK, HasChild, IdleCaller
  <1> USE <1>1, GotoFields, UndoFields DEF Fits, HasChild, Builds, Serves, Ends, Ops, At
  <1>2. CASE Kill(c)
    BY <1>2 DEF Kill
  <1>3. CASE CleanCgroup(c)
    BY <1>3 DEF CleanCgroup, Undoing, Recalls
  <1>4. CASE CleanNetwork(c)
    BY <1>4 DEF CleanNetwork, AfterCleanup
  <1>5. CASE PrepareCgroup(c) \/ PrepareRoot(c) \/ NetName(c) \/ NetPair(c) \/ NetWire(c)
    BY <1>5 DEF PrepareCgroup, PrepareRoot, NetName, NetPair, NetWire, NetBuild
  <1>6. CASE SpawnFails(c) \/ Leave(c) \/ Crash(c)
    BY <1>6 DEF SpawnFails, Leave, Crash
  <1>7. CASE Rows(c) \/ BoxRow(c) \/ Policy(c)
    BY <1>7 DEF Rows, BoxRow, Policy
  <1>8. CASE SettleBox(c) \/ SettleRow(c)
    BY <1>8 DEF SettleBox, SettleRow
  <1>9. CASE Ensure(c)
    <2>1. cl[c].pc \in Serves
      BY <1>9 DEF Ensure, EnsureTorn, EnsureFound, EnsureMissing, EnsureSpawn, EnsureSpawnFails,
         EnsureOpen, EnsureWrite, EnsureReady, EnsureTimeout
    <2> QED  BY <2>1 DEF IdleCaller
  <1>10. CASE StopIfIdle(c)
    BY <1>10 DEF StopIfIdle, IdleLook, IdleKill, IdleForget
  <1> QED  BY <1>2, <1>3, <1>4, <1>5, <1>6, <1>7, <1>8, <1>9, <1>10 DEF Operate

LEMMA PresentOperate ==
    ASSUME TypeOK, AtWork, AllFit, AllFit', Present, NEW c \in Callers, Operate(c) \/ Crash(c)
    PROVE  Present'
  <1>1. cl[c].pc # "idle" /\ cl[c].on \in Services /\ cl[c].on # NoService
    BY OperateMoves, NullAssumption DEF AtWork
  <1>2. \A d \in Callers : d # c => cl'[d] = cl[d]
    BY OperateMoves DEF Moves
  <1>3. \A p \in Trees : ~Unspawned(p) => ~Unspawned(p)'
    BY OperateTrees DEF Unspawned
  <1>4. ASSUME NEW p \in Trees, tree'[p].parent = "up" PROVE ~Unspawned(p)'
    <2>1. CASE Spawn(c)
      BY <1>1, <1>3, <1>4, <2>1, SpawnTrees DEF Unspawned, Present
    <2>2. CASE Kill(c)
      BY <1>3, <1>4, <2>2, KillTrees DEF Present, Kill
    <2>3. CASE CleanNetwork(c) \/ NetName(c)
      BY <1>3, <1>4, <2>3, CutTrees DEF Present, CleanNetwork, NetName
    <2>4. CASE tree' = tree
      BY <1>3, <1>4, <2>4 DEF Present
    <2> QED  BY <2>1, <2>2, <2>3, <2>4, Footprint
  <1>5. HasChild(cl[c]) => cl[c].child \in Trees /\ tree[cl[c].child].svc = cl[c].on
    BY DEF AllFit, Fits, Present
  <1>6. ASSUME NEW s \in Services
        PROVE  (IF box[s].status = "up" THEN box[s].pid \in Trees /\ ~Unspawned(box[s].pid)
                                        ELSE box[s].pid = NoTree)'
    <2>1. CASE box' = box
      BY <1>3, <2>1 DEF Present
    <2>2. CASE BoxRow(c)
      <3>1. HasChild(cl[c])
        BY <2>2 DEF BoxRow, HasChild, Serves, At
      <3> QED  BY <1>1, <1>3, <1>5, <2>2, <3>1 DEF BoxRow, Present, Unspawned, TypeOK
    <2>3. CASE SettleBox(c)
      BY <1>1, <1>3, <2>3 DEF SettleBox, Present, AbsentBox, TypeOK
    <2> QED  BY <2>1, <2>2, <2>3, Footprint
  <1>7. HasChild(cl'[c]) => tree'[cl'[c].child].svc = cl'[c].on
    <2>1. CASE Spawn(c)
      BY <2>1, SpawnTrees, SpawnFields
    <2>2. CASE ~Spawn(c) /\ ~Return(c)
      <3>1. cl'[c].child = cl[c].child /\ cl'[c].on = cl[c].on
        BY <2>2, GotoFields, UndoFields, EnsureSpawnFields
        DEF Operate, Crash, Kill, CleanCgroup, CleanNetwork, AfterCleanup, PrepareCgroup,
            PrepareRoot, NetName, NetPair, NetWire, NetBuild, SpawnFails, Rows, BoxRow, Policy,
            SettleBox, SettleRow, Leave, Ensure, EnsureTorn, EnsureFound, EnsureMissing,
            EnsureSpawnFails, EnsureOpen, EnsureWrite, EnsureReady, EnsureTimeout, StopIfIdle,
            IdleLook, IdleKill, IdleForget
      <3>2. HasChild(cl'[c]) => HasChild(cl[c])
        BY <2>2, ChildStays
      <3> QED  BY <1>1, <1>3, <1>5, <3>1, <3>2, OperateTrees DEF Unspawned
    <2>3. CASE Return(c)
      BY <2>3, ReturnFields DEF IdleCaller, HasChild
    <2> QED  BY <2>1, <2>2, <2>3
  <1>8. \A d \in Callers : HasChild(cl'[d]) => tree'[cl'[d].child].svc = cl'[d].on
    <2>1. ASSUME NEW d \in Callers, d # c, HasChild(cl[d])
          PROVE  tree'[cl[d].child].svc = cl[d].on
      <3>1. cl[d].pc # "idle" /\ cl[d].child \in Trees
        BY <2>1 DEF AllFit, Fits, HasChild, Serves
      <3>2. cl[d].on \in Services /\ tree[cl[d].child].svc = cl[d].on
        BY <2>1, <3>1 DEF AtWork, Present
      <3> QED  BY <3>1, <3>2, OperateTrees, NullAssumption DEF Unspawned
    <2> QED  BY <1>2, <1>7, <2>1
  <1> QED  BY <1>4, <1>6, <1>8 DEF Present

LEMMA PresentStep == TypeOK /\ AtWork /\ AllFit /\ Present /\ [Next]_vars => Present'
  <1> SUFFICES ASSUME TypeOK, AtWork, AllFit, Present, [Next]_vars PROVE Present'
    OBVIOUS
  <1>1. ASSUME NEW c \in Callers, NEW s \in Services, Request(c, s) PROVE Present'
    <2>1. PICK op, pc, held : /\ Call(c, op, pc, s, held)
                              /\ op \in {"start", "stop", "destroy", "tick"}
                              /\ op = "start" => pc = "rmdir"
      BY <1>1 DEF Request, Start, Stop, Destroy, Tick
    <2>2. ~HasChild(cl'[c]) /\ UNCHANGED <<box, tree>> /\ \A d \in Callers : d # c => cl'[d] = cl[d]
      BY <2>1, CallFields DEF HasChild, Serves, rows
    <2> QED  BY <2>2 DEF Present, Unspawned
  <1>2. ASSUME NEW c \in Callers, Operate(c) \/ Crash(c) PROVE Present'
    BY <1>2, PresentOperate, FitStep
  <1>3. CASE UNCHANGED vars \/ Sidecar
    <2>1. UNCHANGED <<box, tree, cl>>
      BY <1>3 DEF vars, Sidecar, Bind, ServeFails
    <2> QED  BY <2>1 DEF Present, Unspawned
  <1>4. ASSUME NEW q \in Trees, InitSteps(q) \/ Workload(q) PROVE Present'
    <2>1. box' = box /\ cl' = cl
      BY <1>4, ProcessSteps DEF rows
    <2>2. \A c \in Callers : HasChild(cl[c]) => cl[c].child \in Trees
      BY DEF AllFit, Fits
    <2> QED  BY <1>4, <2>1, <2>2, ProcessSteps DEF Present, Unspawned
  <1> QED  BY <1>1, <1>2, <1>3, <1>4 DEF Next

------------------------------------------------------------------------------
(* How a caller gets from step to step.                                    *)

(* What a caller takes along unless it returns.                            *)
LEMMA Carries ==
    ASSUME TypeOK, NEW c \in Callers, Operate(c) \/ Crash(c), cl'[c].pc # "idle"
    PROVE  /\ cl'[c].on = cl[c].on /\ cl'[c].held = cl[c].held
           /\ cl'[c].child = cl[c].child \/ Spawn(c)
           /\ cl'[c].srv = cl[c].srv \/ EnsureSpawn(c)
           /\ \/ cl'[c].op = cl[c].op \/ Undo(c, "undoDns") \/ Undo(c, "undoPolicy")
  <1>1. ~Return(c)
    BY ReturnFields DEF IdleCaller
  <1>2. CASE Spawn(c)
    BY <1>2, SpawnFields DEF Spawn, At
  <1>3. CASE EnsureSpawn(c)
    BY <1>3, EnsureSpawnFields
  <1>4. CASE ~Spawn(c) /\ ~EnsureSpawn(c)
    BY <1>1, <1>4, GotoFields, UndoFields
    DEF Operate, Crash, Kill, CleanCgroup, CleanNetwork, AfterCleanup, PrepareCgroup,
        PrepareRoot, NetName, NetPair, NetWire, NetBuild, SpawnFails, Rows, BoxRow, Policy,
        SettleBox, SettleRow, Leave, Ensure, EnsureTorn, EnsureFound, EnsureMissing,
        EnsureSpawnFails, EnsureOpen, EnsureWrite, EnsureReady, EnsureTimeout, StopIfIdle,
        IdleLook, IdleKill, IdleForget
  <1> QED  BY <1>2, <1>3, <1>4

(* The steps that lead to a step.                                          *)
Arrives(c, pc) ==
    /\ pc = "rmdir" => Kill(c)
    /\ pc = "cut" => CleanCgroup(c)
    /\ pc = "prepare" => CleanCgroup(c) \/ CleanNetwork(c)
    /\ pc = "root" => PrepareCgroup(c)
    /\ pc = "net" => PrepareRoot(c)
    /\ pc = "pair" => NetName(c)
    /\ pc = "wire" => NetPair(c)
    /\ pc = "spawn" => NetWire(c)
    /\ pc = "dns" => Spawn(c)
    /\ pc = "dnsSpawn" => EnsureMissing(c)
    /\ pc = "dnsOpen" => EnsureSpawn(c)
    /\ pc = "dnsWrite" => EnsureOpen(c)
    /\ pc = "dnsReady" => EnsureWrite(c)
    /\ pc = "rows" => EnsureFound(c) \/ EnsureReady(c)
    /\ pc = "box" => Rows(c)
    /\ pc = "kill" => EnsureTorn(c) \/ EnsureSpawnFails(c) \/ EnsureTimeout(c) \/ Policy(c)
    /\ pc = "settle" => CleanNetwork(c) \/ SettleRow(c)
    /\ pc = "row" => CleanCgroup(c) \/ CleanNetwork(c) \/ SettleBox(c)
    /\ pc = "policy" => CleanCgroup(c) \/ BoxRow(c) \/ SettleBox(c) \/ SettleRow(c)
    /\ pc = "idleLook" => Policy(c)
    /\ pc = "idleKill" => IdleLook(c)
    /\ pc = "idleForget" => IdleKill(c)

LEMMA Arrivals ==
    ASSUME TypeOK, NEW c \in Callers, Operate(c) \/ Crash(c), NEW pc, cl'[c].pc = pc, pc # "idle"
    PROVE  Arrives(c, pc)
  <1>1. ~Return(c)
    BY ReturnFields DEF IdleCaller
  <1> USE <1>1, GotoFields, UndoFields DEF At, Arrives
  <1>2. CASE Kill(c) \/ Rows(c) \/ BoxRow(c)
    BY <1>2 DEF Kill, Rows, BoxRow
  <1>3. CASE CleanCgroup(c)
    BY <1>3 DEF CleanCgroup
  <1>4. CASE CleanNetwork(c)
    BY <1>4 DEF CleanNetwork, AfterCleanup
  <1>5. CASE PrepareCgroup(c) \/ PrepareRoot(c)
    BY <1>5 DEF PrepareCgroup, PrepareRoot
  <1>6. CASE NetName(c) \/ NetPair(c) \/ NetWire(c)
    BY <1>6 DEF NetName, NetPair, NetWire, NetBuild
  <1>7. CASE Spawn(c)
    BY <1>7, SpawnFields
  <1>8. CASE SpawnFails(c) \/ Leave(c) \/ Crash(c)
    BY <1>8 DEF SpawnFails, Leave, Crash
  <1>9. CASE Policy(c)
    BY <1>9 DEF Policy
  <1>10. CASE SettleBox(c) \/ SettleRow(c)
    BY <1>10 DEF SettleBox, SettleRow
  <1>11. CASE EnsureSpawn(c)
    BY <1>11, EnsureSpawnFields
  <1>12. CASE EnsureTorn(c) \/ EnsureFound(c) \/ EnsureMissing(c) \/ EnsureSpawnFails(c)
    BY <1>12 DEF EnsureTorn, EnsureFound, EnsureMissing, EnsureSpawnFails
  <1>13. CASE EnsureOpen(c) \/ EnsureWrite(c) \/ EnsureReady(c) \/ EnsureTimeout(c)
    BY <1>13 DEF EnsureOpen, EnsureWrite, EnsureReady, EnsureTimeout
  <1>14. CASE StopIfIdle(c)
    BY <1>14 DEF StopIfIdle, IdleLook, IdleKill, IdleForget
  <1> QED  BY <1>2, <1>3, <1>4, <1>5, <1>6, <1>7, <1>8, <1>9, <1>10, <1>11, <1>12, <1>13, <1>14
           DEF Operate, Ensure

(* A caller that nobody overlaps is beside idle ones.                      *)
LEMMA OthersIdle ==
    ASSUME TypeOK, AllFit, Alone, overlap # "now",
           NEW c \in Callers, Operate(c) \/ Crash(c), NEW d \in Callers, d # c
    PROVE  cl[d] = IdleCaller /\ cl'[d] = IdleCaller
  <1>1. cl[c].pc # "idle" /\ cl'[d] = cl[d]
    BY OperateMoves DEF Moves
  <1>2. cl[d].pc = "idle" /\ cl[d].op \in Ops
    BY <1>1, CallerFields DEF Alone, TypeOK
  <1>3. Fits(cl[d])
    BY DEF AllFit
  <1>4. cl[d].op = "none"
    BY <1>2, <1>3 DEF Fits, Ops, Builds, Serves, Ends
  <1> QED  BY <1>1, <1>3, <1>4 DEF Fits

------------------------------------------------------------------------------
(* The sidecar.                                                            *)
Live     == \E v \in Servers : Starting(v) \/ Serving(v)
Failed   == \E v \in Servers : server[v].state = "failed"
Provided == Live \/ Haunted \/ Failed

(* What ensure_running finds alive serves, is about to, or haunts.         *)
LEMMA Found ==
    ASSUME TypeOK, AllFit, Alone, overlap # "now", NEW c \in Callers,
           Operate(c) \/ Crash(c), EnsureFound(c) \/ EnsureReady(c)
    PROVE  Live \/ Haunted
  <1>1. CASE EnsureReady(c)
    BY <1>1 DEF EnsureReady, Served, Live
  <1>2. CASE EnsureFound(c)
    <2>1. ServerAlive(pidFile) /\ cl[c].pc = "dns"
      BY <1>2 DEF EnsureFound
    <2>2. ASSUME NEW d \in Callers, cl[d].srv = pidFile PROVE FALSE
      <3>1. cl[d].srv \in Servers /\ cl[d].srv # NoServer
        BY <2>1, <2>2, NullAssumption DEF ServerAlive
      <3>2. d = c
        BY <3>1, OthersIdle DEF IdleCaller
      <3>3. cl[c].op = "start"
        BY <2>1, CallerFields DEF AllFit, Fits, Builds, Serves, Ends, Ops, TypeOK, IdleCaller
      <3> QED  BY <2>1, <3>1, <3>2, <3>3 DEF AllFit, Fits
    <2> QED  BY <2>1, <2>2 DEF ServerAlive, Unreaped, Live, Haunted
  <1> QED  BY <1>1, <1>2

LEMMA GoingOn ==
    ASSUME TypeOK, AllFit, Alone, [Next]_vars, overlap # "now", NEW c \in Callers, GoesOn(c)
    PROVE  Live \/ Haunted
  <1>1. cl'[c].pc = "rows" /\ cl[c].pc # "rows"
    BY DEF GoesOn
  <1>2. ASSUME NEW d \in Callers, NEW s \in Services, Request(d, s) PROVE FALSE
    BY <1>1, <1>2, RequestStarts DEF TypeOK
  <1>3. CASE UNCHANGED vars \/ Sidecar \/ \E p \in Trees : InitSteps(p) \/ Workload(p)
    BY <1>1, <1>3, Bystanders
  <1>4. ASSUME NEW d \in Callers, Operate(d) \/ Crash(d) PROVE Live \/ Haunted
    <2>1. d = c
      BY <1>1, <1>4, OperateMoves DEF Moves
    <2>2. EnsureFound(c) \/ EnsureReady(c)
      BY <1>1, <1>4, <2>1, Arrivals DEF Arrives
    <2> QED  BY <1>4, <2>1, <2>2, Found
  <1> QED  BY <1>2, <1>3, <1>4 DEF Next

(* A caller that writes the pid file has seen it name nobody alive.        *)
Filed == overlap = "never" => \A c \in Callers :
    /\ cl[c].pc \in {"dnsSpawn", "dnsOpen"} => pidFile = NoServer
    /\ cl[c].pc = "dnsWrite" => pidFile = Torn

(* A sandbox in use, or about to be, has what there is of a sidecar; while *)
(* a caller stops the sidecar none is.                                     *)
Provides == overlap = "never" =>
    /\ InUse => Provided
    /\ \A c \in Callers : cl[c].pc \in {"rows", "box"} => Provided
    /\ \A c \in Callers : cl[c].pc \in {"idleKill", "idleForget"} => ~InUse

LEMMA BindKeeps ==
    ASSUME TypeOK, NEW v \in Servers, Bind(v) \/ ServeFails(v), Provided PROVE Provided'
  <1>1. CASE ServeFails(v)
    BY <1>1 DEF ServeFails, Provided, Failed, TypeOK
  <1>2. CASE Bind(v)
    <2>1. /\ server[v].state = "starting" /\ pidFile' = pidFile
          /\ \A u \in Servers : u # v => server'[u] = server[u]
          /\ server'[v].state = IF Served THEN "exited" ELSE "serving"
      BY <1>2 DEF Bind, Starting, TypeOK
    <2>2. CASE Live
      BY <2>1, <2>2 DEF Provided, Live, Served, Serving, Starting
    <2>3. CASE Haunted
      BY <2>1, <2>3 DEF Provided, Haunted
    <2>4. CASE Failed
      BY <2>1, <2>4 DEF Provided, Failed
    <2> QED  BY <2>2, <2>3, <2>4 DEF Provided
  <1> QED  BY <1>1, <1>2

LEMMA FiledOperate ==
    ASSUME TypeOK, AllFit, Alone, Filed, overlap = "never", NEW c \in Callers,
           Operate(c) \/ Crash(c)
    PROVE  /\ cl'[c].pc \in {"dnsSpawn", "dnsOpen"} => pidFile' = NoServer
           /\ cl'[c].pc = "dnsWrite" => pidFile' = Torn
  <1>1. CASE cl'[c].pc = "dnsSpawn"
    BY <1>1, Arrivals DEF Arrives, EnsureMissing
  <1>2. CASE cl'[c].pc = "dnsOpen"
    BY <1>2, Arrivals DEF Arrives, EnsureSpawn, Filed
  <1>3. CASE cl'[c].pc = "dnsWrite"
    BY <1>3, Arrivals DEF Arrives, EnsureOpen
  <1> QED  BY <1>1, <1>2, <1>3

LEMMA SpawnedServer ==
    ASSUME TypeOK, NEW c \in Callers, EnsureSpawn(c)
    PROVE  /\ cl'[c].srv \in Servers /\ server[cl'[c].srv].state = "free"
           /\ server'[cl'[c].srv].state = "starting"
           /\ \A v \in Servers : v # cl'[c].srv => server'[v] = server[v]
  <1>1. PICK r : r = (c \in Resident)
    OBVIOUS
  <1>2. server' = [server EXCEPT ![cl'[c].srv] = [state |-> "starting", resident |-> r]]
    BY <1>1, EnsureSpawnFields
  <1>3. [state |-> "starting", resident |-> r].state = "starting"
    OBVIOUS
  <1> QED  BY <1>2, <1>3, EnsureSpawnFields DEF TypeOK

LEMMA ProvidedStays ==
    ASSUME TypeOK, Filed, overlap = "never", NEW c \in Callers, Operate(c) \/ Crash(c),
           Provided, ~IdleKill(c), ~IdleForget(c)
    PROVE  Provided'
  <1>1. CASE server' = server /\ pidFile' = pidFile
    BY <1>1 DEF Provided, Live, Haunted, Failed, Starting, Serving
  <1>2. CASE EnsureSpawn(c)
    BY <1>2, SpawnedServer DEF Provided, Live, Starting
  <1>3. CASE EnsureMissing(c) \/ EnsureOpen(c) \/ EnsureWrite(c)
    <2>1. ~Haunted
      <3>1. CASE EnsureMissing(c)
        BY <3>1 DEF EnsureMissing, ServerAlive, Unreaped, Haunted
      <3>2. CASE EnsureOpen(c) \/ EnsureWrite(c)
        BY <3>2, NullAssumption DEF EnsureOpen, EnsureWrite, Filed, Haunted
      <3> QED  BY <1>3, <3>1, <3>2
    <2>2. server' = server
      BY <1>3 DEF EnsureMissing, EnsureOpen, EnsureWrite
    <2> QED  BY <2>1, <2>2 DEF Provided, Live, Failed, Starting, Serving
  <1> QED  BY <1>1, <1>2, <1>3, Footprint

LEMMA ProvidesOperate ==
    ASSUME TypeOK, AllFit, Alone, Filed, Provides, overlap = "never", NEW c \in Callers,
           Operate(c) \/ Crash(c)
    PROVE  /\ InUse' => Provided'
           /\ cl'[c].pc \in {"rows", "box"} => Provided'
           /\ cl'[c].pc \in {"idleKill", "idleForget"} => ~InUse'
  <1>1. IdleKill(c) \/ IdleForget(c) => ~InUse' /\ ~(cl'[c].pc \in {"rows", "box"})
    <2>1. ASSUME IdleKill(c) \/ IdleForget(c)
          PROVE  ~InUse /\ box' = box /\ cl'[c].pc \notin {"rows", "box"}
      BY <2>1, GotoFields, ReturnFields DEF IdleKill, IdleForget, Provides, IdleCaller
    <2> QED  BY <2>1 DEF InUse
  <1>2. InUse' => InUse \/ cl[c].pc = "box"
    <2>1. CASE box' = box
      BY <2>1 DEF InUse
    <2>2. CASE BoxRow(c)
      BY <2>2 DEF BoxRow, At
    <2>3. CASE SettleBox(c)
      BY <2>3 DEF SettleBox, InUse, AbsentBox, TypeOK
    <2> QED  BY <2>1, <2>2, <2>3, Footprint
  <1>3. InUse' => Provided'
    BY <1>1, <1>2, ProvidedStays DEF Provides
  <1>4. cl'[c].pc \in {"rows", "box"} => Provided'
    <2> SUFFICES ASSUME cl'[c].pc \in {"rows", "box"} PROVE Provided'
      OBVIOUS
    <2>1. \/ EnsureFound(c) \/ EnsureReady(c)
          \/ Rows(c)
      BY Arrivals DEF Arrives
    <2>2. Provided
      <3>1. CASE Rows(c)
        BY <3>1 DEF Rows, At, Provides
      <3>2. CASE EnsureFound(c) \/ EnsureReady(c)
        BY <3>2, Found DEF Provided
      <3> QED  BY <2>1, <3>1, <3>2
    <2> QED  BY <1>1, <2>2, ProvidedStays
  <1>5. cl'[c].pc \in {"idleKill", "idleForget"} => ~InUse'
    <2> SUFFICES ASSUME cl'[c].pc \in {"idleKill", "idleForget"} PROVE ~InUse'
      OBVIOUS
    <2>1. IdleLook(c) \/ IdleKill(c)
      BY Arrivals DEF Arrives
    <2>2. CASE IdleLook(c)
      BY <2>2, GotoFields DEF IdleLook, InUse
    <2> QED  BY <1>1, <2>1, <2>2
  <1> QED  BY <1>3, <1>4, <1>5

LEMMA ServedStep ==
    TypeOK /\ AllFit /\ Alone /\ Filed /\ Provides /\ [Next]_vars => Filed' /\ Provides'
  <1> SUFFICES ASSUME TypeOK, AllFit, Alone, Filed, Provides, [Next]_vars, overlap' = "never"
               PROVE  Filed' /\ Provides'
    BY DEF Filed, Provides
  <1>1. ASSUME NEW c \in Callers, NEW s \in Services, Request(c, s) PROVE Filed' /\ Provides'
    <2>1. /\ cl'[c].pc \in {"rmdir", "kill", "policy"} /\ \A d \in Callers : d # c => cl'[d] = cl[d]
          /\ overlap = "never" /\ UNCHANGED <<box, server, pidFile>>
      BY <1>1, RequestStarts DEF TypeOK, rows, sidecar
    <2>2. (InUse' = InUse) /\ (Provided' = Provided)
      BY <2>1 DEF InUse, Provided, Live, Haunted, Failed, Starting, Serving
    <2> QED  BY <2>1, <2>2 DEF Filed, Provides
  <1>2. ASSUME NEW c \in Callers, Operate(c) \/ Crash(c) PROVE Filed' /\ Provides'
    <2>1. overlap = "never" /\ \A d \in Callers : d # c => cl'[d].pc = "idle"
      BY <1>2, OthersIdle, OperateKeepsOverlap DEF IdleCaller
    <2> QED  BY <1>2, <2>1, FiledOperate, ProvidesOperate DEF Filed, Provides
  <1>3. CASE Sidecar
    <2>1. PICK v \in Servers : Bind(v) \/ ServeFails(v)
      BY <1>3 DEF Sidecar
    <2>2. UNCHANGED <<overlap, box, pidFile, cl>>
      BY <1>3, <2>1 DEF Sidecar, Bind, ServeFails
    <2>3. InUse' = InUse
      BY <2>2 DEF InUse
    <2> QED  BY <2>1, <2>2, <2>3, BindKeeps DEF Filed, Provides
  <1>4. CASE UNCHANGED vars \/ \E p \in Trees : InitSteps(p) \/ Workload(p)
    <2>1. UNCHANGED <<overlap, box, server, pidFile, cl>>
      BY <1>4, ProcessSteps DEF vars, rows, sidecar
    <2> QED  BY <2>1 DEF Filed, Provides, InUse, Provided, Live, Haunted, Failed, Starting, Serving
  <1> QED  BY <1>1, <1>2, <1>3, <1>4 DEF Next

------------------------------------------------------------------------------
(* Rows and their trees.                                                   *)

(* The sandbox row names no tree whose parent lives.                       *)
Ended(s) == box[s].status = "up" => tree[box[s].pid].parent = "gone"

(* A row whose tree lives agrees with that of the service, and the tree    *)
(* has its network.                                                        *)
Rowed(s) == ~Ended(s) => /\ svc[s] = box[s].pid /\ tree[box[s].pid].svc = s
                         /\ Wired(box[s].pid)

(* Whoever takes down or builds the network of a service, or deletes its   *)
(* row, knows that its tree has ended; a child has its network until the   *)
(* rows name it, and what is killed is what the rows name.                 *)
Aware(c) ==
    LET s == cl[c].on IN
    /\ cl[c].pc \in Builds \cup Serves \cup {"settle", "row"} \/ cl[c].op = "undoDns" => Ended(s)
    /\ cl[c].pc \in Serves => Wired(cl[c].child)
    /\ cl[c].pc = "box" => svc[s] = cl[c].child
    /\ cl[c].op = "start" /\ cl[c].pc = "policy" => box[s].pid = cl[c].child
    /\ cl[c].op = "undoPolicy" /\ cl[c].pc = "kill" => box[s].pid = cl[c].child
    /\ cl[c].op \in {"stop", "destroy"} /\ cl[c].pc = "kill" => cl[c].held = svc[s]

Kept == overlap = "never" => (\A s \in Services : Rowed(s)) /\ (\A c \in Callers : Aware(c))

LEMMA EndedStays ==
    ASSUME TypeOK, TypeOK', Present, NEW c \in Callers, Operate(c) \/ Crash(c),
           NEW s \in Services, Ended(s), box'[s] = box[s]
    PROVE  Ended(s)'
  <1> SUFFICES ASSUME box[s].status = "up" PROVE tree'[box[s].pid].parent = "gone"
    BY DEF Ended
  <1>1. box[s].pid \in Trees /\ ~Unspawned(box[s].pid) /\ tree[box[s].pid].parent = "gone"
    BY DEF Present, Ended
  <1>2. tree'[box[s].pid].parent # "up"
    BY <1>1, OperateTrees
  <1> QED  BY <1>1, <1>2 DEF TypeOK, TreeType

(* After the kill nothing lives that the sandbox row names.                *)
LEMMA KillEnds ==
    ASSUME TypeOK, TypeOK', AtWork, AllFit, Present, Kept, overlap = "never",
           NEW c \in Callers, Kill(c), NEW s, s = cl[c].on
    PROVE  Ended(s)'
  <1>1. s \in Services /\ cl[c].pc = "kill" /\ box' = box
    BY DEF Kill, AtWork
  <1>2. CASE Ended(s)
    BY <1>1, <1>2, EndedStays DEF Operate
  <1>3. CASE ~Ended(s)
    <2>0. PICK p : p = box[s].pid
      OBVIOUS
    <2>1. p \in Trees /\ ~Unspawned(p) /\ p = svc[s]
      BY <1>1, <1>3, <2>0 DEF Present, Ended, Kept, Rowed
    <2>2. cl[c].op \in {"undoPolicy", "stop", "destroy"}
      <3>1. Fits(cl[c]) /\ cl[c].op \in Ops
        BY CallerFields DEF AllFit, TypeOK
      <3>2. cl[c].op # "undoDns"
        BY <1>1, <1>3 DEF Kept, Aware
      <3> QED  BY <1>1, <3>1, <3>2 DEF Fits, Ops, Builds, Serves, Ends, IdleCaller
    <2>3. p = IF Undoing(c) THEN cl[c].child ELSE cl[c].held
      BY <1>1, <2>0, <2>1, <2>2 DEF Kept, Aware, Undoing
    <2>4. tree'[p].parent = "gone"
      BY <2>1, <2>3, KillTrees DEF Kill
    <2> QED  BY <1>1, <2>0, <2>4 DEF Ended
  <1> QED  BY <1>2, <1>3

(* Only a clean-up takes a network from a tree, that of its own service.   *)
LEMMA WiredStays ==
    ASSUME TypeOK, NEW c \in Callers, Operate(c) \/ Crash(c), NEW p \in Trees, ~Unspawned(p),
           Wired(p), CleanNetwork(c) \/ NetName(c) => tree[p].svc # cl[c].on
    PROVE  Wired(p)'
  <1>1. CASE Kill(c)
    BY <1>1, KillTrees DEF Kill, Wired, Over
  <1>2. CASE CleanNetwork(c) \/ NetName(c)
    BY <1>2, CutTrees DEF CleanNetwork, NetName, Wired, Over
  <1>3. CASE Spawn(c)
    BY <1>3, SpawnTrees DEF Wired, Over
  <1>4. CASE tree' = tree
    BY <1>4 DEF Wired, Over
  <1> QED  BY <1>1, <1>2, <1>3, <1>4, Footprint

LEMMA RowedOperate ==
    ASSUME TypeOK, TypeOK', AtWork, AllFit, Present, Kept, overlap = "never",
           NEW c \in Callers, Operate(c) \/ Crash(c), NEW s \in Services
    PROVE  Rowed(s)'
  <1>1. cl[c].on \in Services /\ Aware(c) /\ Rowed(s)
    BY OperateMoves DEF AtWork, Kept
  <1>2. SUFFICES ASSUME ~Ended(s)'
                 PROVE  /\ svc'[s] = box'[s].pid /\ tree'[box'[s].pid].svc = s
                        /\ Wired(box[s].pid)'
    BY <1>2 DEF Rowed
  <1>3. CASE BoxRow(c) /\ s = cl[c].on
    <2>1. cl[c].op = "start" /\ cl[c].pc = "box" /\ box'[s].pid = cl[c].child
          /\ UNCHANGED <<svc, tree>>
      BY <1>1, <1>3 DEF BoxRow, At, TypeOK
    <2>2. svc[s] = cl[c].child /\ Wired(cl[c].child)
      BY <1>1, <1>3, <2>1 DEF Aware, Serves
    <2>3. tree[cl[c].child].svc = s
      BY <1>3, <2>1 DEF Present, HasChild, Serves
    <2> QED  BY <2>1, <2>2, <2>3 DEF Wired, Over
  <1>4. CASE ~(BoxRow(c) /\ s = cl[c].on)
    <2>1. box'[s] = box[s]
      <3>1. CASE box' = box
        BY <3>1
      <3>2. CASE BoxRow(c)
        BY <1>4, <3>2 DEF BoxRow, TypeOK
      <3>3. CASE SettleBox(c)
        BY <1>1, <1>2, <3>3 DEF SettleBox, TypeOK, Ended, AbsentBox
      <3> QED  BY <3>1, <3>2, <3>3, Footprint
    <2>2. ~Ended(s)
      BY <1>2, <2>1, EndedStays
    <2>3. svc'[s] = svc[s]
      <3>1. CASE Kill(c)
        BY <1>1, <1>2, <3>1, KillEnds DEF Kill
      <3>2. CASE Rows(c) \/ SettleRow(c)
        BY <1>1, <2>2, <3>2 DEF Rows, SettleRow, At, Aware, Serves, TypeOK
      <3>3. CASE svc' = svc
        BY <3>3
      <3> QED  BY <3>1, <3>2, <3>3, Footprint
    <2>4. box[s].pid \in Trees /\ ~Unspawned(box[s].pid)
      BY <2>2 DEF Present, Ended
    <2>5. svc[s] = box[s].pid /\ tree[box[s].pid].svc = s /\ Wired(box[s].pid)
      BY <1>1, <2>2 DEF Rowed
    <2>6. CleanNetwork(c) \/ NetName(c) => s # cl[c].on
      BY <1>1, <2>2 DEF CleanNetwork, NetName, At, Aware, Builds
    <2>7. ASSUME NEW p, p = box[s].pid PROVE Wired(p)' /\ tree'[p].svc = s
      BY <2>4, <2>5, <2>6, <2>7, WiredStays, OperateTrees
    <2> QED  BY <2>1, <2>3, <2>5, <2>7 DEF Wired, Over
  <1> QED  BY <1>3, <1>4

LEMMA AwareOperate ==
    ASSUME TypeOK, TypeOK', AtWork, AllFit, AllFit', Present, Kept, SetupUndisturbed,
           overlap = "never", NEW c \in Callers, Operate(c) \/ Crash(c), cl'[c].pc # "idle"
    PROVE  Aware(c)'
  <1>1. /\ cl[c].on \in Services /\ Aware(c) /\ Fits(cl[c]) /\ Fits(cl'[c])
        /\ cl[c].op \in Ops /\ cl'[c].op \in Ops
    BY OperateMoves, CallerFields DEF AtWork, Kept, AllFit, TypeOK
  <1>0. PICK s \in Services : s = cl[c].on
    BY <1>1
  <1>2. /\ cl'[c].on = s
        /\ cl'[c].op = cl[c].op \/ Undo(c, "undoDns") \/ Undo(c, "undoPolicy")
    BY <1>0, Carries
  <1>3. Arrives(c, cl'[c].pc)
    BY Arrivals
  <1>4. ASSUME \/ cl'[c].pc \in Builds \cup Serves \cup {"settle", "row"}
               \/ cl'[c].op = "undoDns"
        PROVE  Ended(s)'
    <2>1. CASE Kill(c)
      BY <1>0, <2>1, KillEnds
    <2>2. CASE SettleBox(c)
      BY <1>0, <2>2 DEF SettleBox, TypeOK, Ended, AbsentBox
    <2>3. CASE ~Kill(c) /\ ~SettleBox(c)
      <3>1. \/ cl[c].pc \in Builds \cup Serves \cup {"settle", "row"}
            \/ cl[c].op = "undoDns"
        <4>1. CASE cl'[c].pc \in Builds \cup Serves \cup {"settle", "row"}
          BY <1>3, <2>3, <4>1
          DEF Arrives, Builds, Serves, At, CleanCgroup, CleanNetwork, PrepareCgroup, PrepareRoot,
              NetName, NetPair, NetWire, NetBuild, Spawn, EnsureMissing, EnsureSpawn, EnsureOpen,
              EnsureWrite, EnsureFound, EnsureReady, Rows, SettleRow
        <4>2. CASE cl'[c].op = "undoDns" /\ cl[c].op # "undoDns"
          <5>1. cl'[c].pc = "kill"
            BY <1>2, <4>2, UndoFields
          <5>2. ~Policy(c)
            <6> SUFFICES ASSUME Policy(c) PROVE FALSE
              OBVIOUS
            <6> QED  BY <4>2, GotoFields, UndoFields, ReturnFields DEF Policy, IdleCaller
          <5> QED  BY <1>3, <5>1, <5>2 DEF Arrives, EnsureTorn, EnsureSpawnFails, EnsureTimeout,
                   Serves
        <4> QED  BY <1>4, <4>1, <4>2
      <3>2. ~BoxRow(c)
        <4> SUFFICES ASSUME BoxRow(c) PROVE FALSE
          OBVIOUS
        <4> QED  BY <1>4, GotoFields DEF BoxRow, At, Builds, Serves
      <3>3. box' = box
        BY <2>3, <3>2, Footprint
      <3> QED  BY <1>0, <1>1, <3>1, <3>3, EndedStays DEF Aware
    <2> QED  BY <2>1, <2>2, <2>3
  <1>5. ASSUME cl'[c].pc \in Serves, NEW k, k = cl'[c].child PROVE Wired(k)'
    <2>1. CASE Spawn(c)
      <3>1. net[s] = "ready"
        BY <1>0, <2>1 DEF Spawn, At, SetupUndisturbed, Before
      <3> QED  BY <1>0, <1>5, <2>1, <3>1, SpawnTrees DEF Wired
    <2>2. CASE ~Spawn(c)
      <3>1. cl[c].pc \in Serves /\ tree' = tree
        <4>1. \/ EnsureMissing(c) \/ EnsureSpawn(c) \/ EnsureOpen(c) \/ EnsureWrite(c)
              \/ EnsureFound(c) \/ EnsureReady(c) \/ Rows(c)
          BY <1>3, <1>5, <2>2 DEF Arrives, Serves
        <4>2. cl[c].pc \in Serves
          BY <4>1 DEF Serves, EnsureMissing, EnsureSpawn, EnsureOpen, EnsureWrite, EnsureFound,
             EnsureReady, Rows, At
        <4>3. tree' = tree
          BY <4>2, Footprint DEF Kill, CleanNetwork, NetName, Spawn, At, Serves
        <4> QED  BY <4>2, <4>3
      <3>2. cl[c].child = k
        BY <1>5, <2>2, Carries
      <3> QED  BY <1>1, <3>1, <3>2 DEF Aware, Wired, Over
    <2> QED  BY <2>1, <2>2
  <1>6. ASSUME cl'[c].pc = "box" PROVE svc'[s] = cl'[c].child
    BY <1>0, <1>3, <1>6, GotoFields DEF Arrives, Rows, TypeOK
  <1>7. ASSUME cl'[c].op = "start", cl'[c].pc = "policy" PROVE box'[s].pid = cl'[c].child
    <2>1. cl[c].op = "start"
      BY <1>2, <1>7, UndoFields
    <2>2. BoxRow(c)
      <3>1. CASE CleanCgroup(c)
        BY <1>7, <2>1, <3>1, GotoFields, ReturnFields DEF CleanCgroup, IdleCaller
      <3>2. ~SettleBox(c) /\ ~SettleRow(c)
        BY <1>1, <2>1 DEF SettleBox, SettleRow, Fits, Builds, Serves
      <3> QED  BY <1>3, <1>7, <3>1, <3>2 DEF Arrives
    <2> QED  BY <1>0, <2>2, GotoFields DEF BoxRow, TypeOK
  <1>8. ASSUME cl'[c].pc = "kill"
        PROVE  /\ cl'[c].op \notin {"stop", "destroy"}
               /\ cl'[c].op = "undoPolicy" => box'[s].pid = cl'[c].child
    <2>1. CASE Policy(c)
      <3>1. Undo(c, "undoPolicy") /\ cl[c].op = "start" /\ cl[c].pc = "policy" /\ box' = box
        BY <1>8, <2>1, GotoFields, ReturnFields DEF Policy, IdleCaller, rows
      <3> QED  BY <1>0, <1>1, <3>1, UndoFields DEF Aware
    <2>2. CASE EnsureTorn(c) \/ EnsureSpawnFails(c) \/ EnsureTimeout(c)
      BY <2>2, UndoFields DEF EnsureTorn, EnsureSpawnFails, EnsureTimeout
    <2> QED  BY <1>3, <1>8, <2>1, <2>2 DEF Arrives
  <1> QED  BY <1>2, <1>4, <1>5, <1>6, <1>7, <1>8 DEF Aware

LEMMA KeptRequest ==
    ASSUME TypeOK, AllFit, Alone, Present, Kept, overlap' = "never", NEW c \in Callers,
           NEW s \in Services, Request(c, s)
    PROVE  Kept'
  <1>1. /\ Busy = {} /\ overlap = "never" /\ cl'[c].on = s
        /\ UNCHANGED <<svc, box, tree>> /\ \A d \in Callers : d # c => cl'[d] = cl[d]
    BY RequestStarts DEF TypeOK, rows
  <1>2. \A r \in Services : Rowed(r)'
    BY <1>1 DEF Kept, Rowed, Ended, Wired, Over
  <1>3. ASSUME NEW d \in Callers, d # c PROVE Aware(d)'
    <2>1. cl[d].pc = "idle" /\ Fits(cl[d]) /\ cl[d].op \in Ops
      BY <1>1, CallerFields DEF Busy, AllFit, TypeOK
    <2>2. cl'[d] = IdleCaller
      BY <1>1, <1>3, <2>1 DEF Fits, Ops, Builds, Serves, Ends
    <2> QED  BY <2>2 DEF Aware, IdleCaller, Builds, Serves
  <1>4. ~PidAlive(svc[s]) \/ ~PidAlive(box[s].pid) => Ended(s)
    <2> SUFFICES ASSUME ~Ended(s) PROVE PidAlive(svc[s]) /\ PidAlive(box[s].pid)
      OBVIOUS
    <2>1. PICK p : p = box[s].pid
      OBVIOUS
    <2>2. p \in Trees /\ ~Unspawned(p) /\ tree[p].parent # "gone" /\ svc[s] = p
      BY <1>1, <2>1 DEF Present, Kept, Rowed, Ended
    <2>3. tree[p].parent = "up"
      BY <2>2 DEF TypeOK, TreeType
    <2> QED  BY <2>1, <2>2, <2>3 DEF PidAlive
  <1>5. \/ cl'[c].op = "start" /\ cl'[c].pc = "rmdir" /\ Ended(s)
        \/ cl'[c].op \in {"stop", "destroy"} /\ cl'[c].pc = "kill" /\ cl'[c].held = svc[s]
        \/ cl'[c].op = "tick" /\ cl'[c].pc = "rmdir" /\ Ended(s)
        \/ cl'[c].op = "tick" /\ cl'[c].pc = "policy"
    <2>1. CASE Start(c, s)
      BY <1>4, <2>1, CallFields DEF Start
    <2>2. CASE Stop(c, s) \/ Destroy(c, s)
      BY <2>2, CallFields DEF Stop, Destroy
    <2>3. CASE Tick(c, s)
      BY <1>4, <2>3, CallFields DEF Tick, Dead
    <2> QED  BY <2>1, <2>2, <2>3 DEF Request
  <1>6. Ended(s)' = Ended(s)
    BY <1>1 DEF Ended
  <1>7. Aware(c)'
    BY <1>1, <1>5, <1>6 DEF Aware, Builds, Serves
  <1> QED  BY <1>2, <1>3, <1>7 DEF Kept

LEMMA KeptProcess ==
    ASSUME TypeOK, TypeOK', AtWork, AllFit, Present, Kept, overlap = "never", NEW q \in Trees,
           InitSteps(q) \/ Workload(q)
    PROVE  Kept'
  <1>1. UNCHANGED <<svc, box, cl>>
    BY ProcessSteps DEF rows
  <1>2. \A p \in Trees : /\ tree'[p].svc = tree[p].svc
                         /\ Wired(p) => Wired(p)'
                         /\ tree[p].parent = "gone" => tree'[p].parent = "gone"
    <2>1. \A p \in Trees : tree'[p].parent \in {"up", "gone"}
      BY DEF TypeOK, TreeType
    <2> QED  BY <2>1, ProcessSteps
  <1>3. ASSUME NEW s \in Services, Ended(s) PROVE Ended(s)'
    BY <1>1, <1>2, <1>3 DEF Ended, Present
  <1>4. ASSUME NEW s \in Services PROVE Rowed(s)'
    <2> SUFFICES ASSUME ~Ended(s)' PROVE (svc[s] = box[s].pid /\ tree[box[s].pid].svc = s
                                          /\ Wired(box[s].pid))'
      BY DEF Rowed
    <2>1. PICK p : p = box[s].pid
      OBVIOUS
    <2>2. /\ p \in Trees /\ svc[s] = p /\ tree[p].svc = s /\ Wired(p)
      BY <1>3, <2>1 DEF Kept, Rowed, Present, Ended
    <2> QED  BY <1>1, <1>2, <2>1, <2>2 DEF Wired, Over
  <1>5. ASSUME NEW c \in Callers PROVE Aware(c)'
    <2>1. Aware(c) /\ Fits(cl[c])
      BY DEF Kept, AllFit
    <2>2. cl[c].pc # "idle" => cl[c].on \in Services
      BY DEF AtWork
    <2>3. cl[c].pc \in Serves => cl[c].child \in Trees
      BY <2>1, CallerFields DEF Fits, HasChild, Serves, Builds, Ends, Ops, TypeOK, IdleCaller
    <2>4. CASE cl[c].pc = "idle"
      BY <1>1, <2>1, <2>4 DEF Aware, Fits, Builds, Serves
    <2>5. CASE cl[c].pc # "idle"
      <3>1. PICK s \in Services : s = cl[c].on
        BY <2>2, <2>5
      <3>2. PICK k : k = cl[c].child
        OBVIOUS
      <3>3. /\ cl'[c].on = s /\ cl'[c].child = k /\ (Ended(s) => Ended(s)')
            /\ (k \in Trees /\ Wired(k) => Wired(k)')
        BY <1>1, <1>2, <1>3, <3>1, <3>2
      <3> QED  BY <1>1, <2>1, <2>3, <3>1, <3>2, <3>3 DEF Aware
    <2> QED  BY <2>4, <2>5
  <1> QED  BY <1>1, <1>4, <1>5, ProcessSteps DEF Kept

LEMMA KeptStep ==
    /\ TypeOK /\ TypeOK' /\ AtWork /\ AllFit /\ AllFit' /\ Alone /\ Present /\ SetupUndisturbed
    /\ Kept /\ [Next]_vars
    => Kept'
  <1> SUFFICES ASSUME TypeOK, TypeOK', AtWork, AllFit, AllFit', Alone, Present, SetupUndisturbed,
                      Kept, [Next]_vars, overlap' = "never"
               PROVE  Kept'
    BY DEF Kept
  <1>1. ASSUME NEW c \in Callers, NEW s \in Services, Request(c, s) PROVE Kept'
    BY <1>1, KeptRequest
  <1>2. ASSUME NEW c \in Callers, Operate(c) \/ Crash(c) PROVE Kept'
    <2>1. overlap = "never"
      BY <1>2, OperateKeepsOverlap
    <2>2. ASSUME NEW d \in Callers, cl'[d].pc = "idle" PROVE Aware(d)'
      <3>1. Fits(cl'[d]) /\ cl'[d].op \in Ops
        BY CallerFields DEF AllFit, TypeOK
      <3>2. cl'[d] = IdleCaller
        BY <2>2, <3>1 DEF Fits, Ops, Builds, Serves, Ends
      <3> QED  BY <3>2 DEF Aware, IdleCaller, Builds, Serves
    <2>3. ASSUME NEW d \in Callers, cl'[d].pc # "idle" PROVE Aware(d)'
      <3>1. d = c
        BY <1>2, <2>1, <2>3, OthersIdle DEF IdleCaller
      <3> QED  BY <1>2, <2>1, <2>3, <3>1, AwareOperate
    <2> QED  BY <1>2, <2>1, <2>2, <2>3, RowedOperate DEF Kept
  <1>3. CASE UNCHANGED vars \/ Sidecar
    <2>1. UNCHANGED <<svc, box, tree, cl, overlap>>
      BY <1>3 DEF vars, Sidecar, Bind, ServeFails
    <2> QED  BY <2>1 DEF Kept, Rowed, Aware, Ended, Wired, Over
  <1>4. ASSUME NEW q \in Trees, InitSteps(q) \/ Workload(q) PROVE Kept'
    <2>1. overlap = "never"
      BY <1>4, ProcessSteps
    <2> QED  BY <1>4, <2>1, KeptProcess
  <1> QED  BY <1>1, <1>2, <1>3, <1>4 DEF Next

------------------------------------------------------------------------------
(* When nothing failed and nobody overlapped.                              *)
Fair == overlap = "never" /\ faults = 0

(* No start has to be undone: there are a tree and a sidecar for it, and   *)
(* the pid file is torn only by the one who goes on to write it.           *)
Unfailed == Fair =>
    /\ pidFile = Torn => \E c \in Callers : cl[c].pc = "dnsWrite"
    /\ \A c \in Callers :
        /\ ~Undoing(c)
        /\ cl[c].op = "start" /\ cl[c].pc \in Builds => \E p \in Trees : Unspawned(p)
        /\ HasServer(cl[c]) => Starting(cl[c].srv) \/ Served

(* A service without a sandbox in use has neither cgroup nor network,      *)
(* unless a caller is about to give it or take it both.                    *)
Clean(s) == s \notin cgroup /\ net[s] = "none"
Midway   == {"cut", "prepare", "root", "net", "pair", "wire", "spawn", "settle"} \cup Serves
Cleared == Fair =>
    /\ \A s \in Services : \/ box[s].status = "up" \/ Clean(s)
                           \/ \E c \in Callers : cl[c].pc \in Midway /\ cl[c].on = s
    /\ \A c \in Callers :
        /\ cl[c].pc \in {"cut", "settle"} => cl[c].on \notin cgroup
        /\ cl[c].pc = "settle" => net[cl[c].on] = "none"
        /\ cl[c].pc = "rmdir" /\ Recalls(c) => box[cl[c].on].status = "up"

(* The sidecar that lives is the one the pid file names, or is to name,    *)
(* and one lives only for a sandbox in use or under a caller that starts   *)
(* one or is about to look for the last.                                   *)
Minding == {"dnsOpen", "dnsWrite", "dnsReady", "rows", "box",
            "row", "policy", "idleLook", "idleKill"}
Known == Fair =>
    /\ \A v \in Servers : Starting(v) \/ Serving(v) =>
          \/ v = pidFile
          \/ \E c \in Callers : cl[c].pc \in {"dnsOpen", "dnsWrite"} /\ cl[c].srv = v
    /\ Live => InUse \/ \E c \in Callers : cl[c].pc \in Minding

LEMMA FairBefore ==
    ASSUME TypeOK, NEW c \in Callers, Operate(c) \/ Crash(c), Fair'
    PROVE  Fair /\ (\A k : ~Fault(k)) /\ ~Crash(c)
  <1>1. \A k : ~Fault(k)
    BY FaultCounts DEF Fair
  <1> QED  BY <1>1, FaultsStay, OperateKeepsOverlap DEF Fair, Crash

LEMMA RequestFair ==
    ASSUME TypeOK, NEW c \in Callers, NEW s \in Services, Request(c, s), Fair'
    PROVE  Fair /\ Busy = {}
  BY DEF Request, Start, Stop, Destroy, Tick, Call, Fair

LEMMA SvcStays ==
    ASSUME TypeOK, NEW c \in Callers, Operate(c) \/ Crash(c), ~Spawn(c), NEW p \in Trees
    PROVE  tree'[p].svc = tree[p].svc
  BY Footprint, KillTrees, CutTrees DEF Kill, CleanNetwork, NetName

LEMMA UnfailedOperate ==
    ASSUME TypeOK, AllFit, Alone, Unfailed, Fair', NEW c \in Callers, Operate(c) \/ Crash(c)
    PROVE  /\ pidFile' = Torn => cl'[c].pc = "dnsWrite"
           /\ ~Undoing(c)'
           /\ cl'[c].op = "start" /\ cl'[c].pc \in Builds => \E p \in Trees : Unspawned(p)'
           /\ HasServer(cl'[c]) => Starting(cl[c].srv)' \/ Served'
  <1>1. Fair /\ (\A k : ~Fault(k)) /\ ~Crash(c) /\ overlap # "now"
    BY FairBefore DEF Fair
  <1>2. /\ pidFile = Torn => cl[c].pc = "dnsWrite"
        /\ ~Undoing(c)
        /\ cl[c].op = "start" /\ cl[c].pc \in Builds => \E p \in Trees : Unspawned(p)
        /\ HasServer(cl[c]) => Starting(cl[c].srv) \/ Served
        /\ Fits(cl[c]) /\ cl[c].op \in Ops
    BY <1>1, OthersIdle, CallerFields DEF Unfailed, IdleCaller, AllFit, TypeOK
  <1>3. pidFile' = Torn => cl'[c].pc = "dnsWrite"
    <2> SUFFICES ASSUME pidFile' = Torn PROVE cl'[c].pc = "dnsWrite"
      OBVIOUS
    <2>1. CASE EnsureOpen(c)
      BY <2>1, GotoFields DEF EnsureOpen
    <2>2. ~EnsureMissing(c) /\ ~IdleForget(c)
      BY NullAssumption DEF EnsureMissing, IdleForget
    <2>3. ~EnsureWrite(c)
      <3> SUFFICES ASSUME EnsureWrite(c) PROVE FALSE
        OBVIOUS
      <3>1. cl[c].pc = "dnsWrite" /\ pidFile' = cl[c].srv
        BY DEF EnsureWrite
      <3>2. cl[c].srv \in Servers
        BY <1>2, <3>1 DEF Fits, HasServer, Ops, Builds, Serves, Ends, IdleCaller
      <3> QED  BY <3>1, <3>2, NullAssumption
    <2>4. CASE ~EnsureOpen(c)
      <3>1. cl[c].pc = "dnsWrite"
        BY <1>2, <2>2, <2>3, <2>4, Footprint
      <3> QED  BY <1>1, <2>3, <3>1
               DEF Operate, Kill, CleanCgroup, CleanNetwork, PrepareCgroup, PrepareRoot, NetName,
                   NetPair, NetWire, NetBuild, Spawn, SpawnFails, Rows, BoxRow, Policy, SettleBox,
                   SettleRow, Leave, Ensure, EnsureTorn, EnsureFound, EnsureMissing, EnsureSpawn,
                   EnsureSpawnFails, EnsureOpen, EnsureReady, EnsureTimeout, StopIfIdle, IdleLook,
                   IdleKill, IdleForget, At
    <2> QED  BY <2>1, <2>4
  <1>4. ~Undoing(c)'
    <2> SUFFICES ASSUME Undoing(c)' PROVE FALSE
      OBVIOUS
    <2>1. cl'[c].pc # "idle"
      <3> SUFFICES ASSUME cl'[c].pc = "idle" PROVE FALSE
        OBVIOUS
      <3>1. AllFit'
        BY FitOperate
      <3> QED  BY <3>1 DEF AllFit, Fits, Undoing
    <2>2. Undo(c, "undoDns") \/ Undo(c, "undoPolicy")
      BY <1>2, <2>1, Carries DEF Undoing
    <2>3. cl'[c].pc = "kill"
      BY <2>2, UndoFields
    <2>4. CASE Policy(c)
      BY <1>1, <2>2, <2>3, <2>4, GotoFields, ReturnFields DEF Policy, IdleCaller
    <2>5. CASE EnsureTorn(c)
      BY <1>2, <2>5 DEF EnsureTorn
    <2>6. CASE EnsureSpawnFails(c)
      BY <1>1, <2>6 DEF EnsureSpawnFails
    <2>7. CASE EnsureTimeout(c)
      <3>1. HasServer(cl[c])
        BY <1>2, <2>7 DEF EnsureTimeout, Fits, HasServer, Ops, Builds, Serves, Ends, IdleCaller
      <3> QED  BY <1>1, <1>2, <2>7, <3>1 DEF EnsureTimeout
    <2> QED  BY <2>3, <2>4, <2>5, <2>6, <2>7, Arrivals DEF Arrives
  <1>5. cl'[c].op = "start" /\ cl'[c].pc \in Builds => \E p \in Trees : Unspawned(p)'
    <2> SUFFICES ASSUME cl'[c].op = "start", cl'[c].pc \in Builds
                 PROVE  \E p \in Trees : Unspawned(p)'
      OBVIOUS
    <2>1. cl'[c].pc # "idle" /\ cl[c].op = "start" /\ ~Spawn(c)
      <3>1. cl'[c].pc # "idle"
        BY DEF Builds
      <3> QED  BY <3>1, Carries, UndoFields, SpawnFields DEF Builds
    <2>2. cl[c].pc \in Builds
      <3>1. ~Kill(c)
        BY <1>2, <2>1 DEF Kill, Fits, Builds, Serves
      <3> QED  BY <2>1, <3>1, Arrivals DEF Arrives, Builds, CleanCgroup, CleanNetwork,
                  PrepareCgroup, PrepareRoot, NetName, NetPair, NetWire, NetBuild, At
    <2> QED  BY <1>2, <2>1, <2>2, SvcStays DEF Unspawned
  <1>6. HasServer(cl'[c]) => Starting(cl[c].srv)' \/ Served'
    <2> SUFFICES ASSUME HasServer(cl'[c]) PROVE Starting(cl[c].srv)' \/ Served'
      OBVIOUS
    <2>1. cl'[c].pc # "idle" /\ cl'[c].pc \in {"dnsOpen", "dnsWrite", "dnsReady"}
          /\ cl[c].op = "start"
      <3>1. cl'[c].pc # "idle" /\ cl'[c].pc # "kill" /\ cl'[c].op = "start"
            /\ cl'[c].pc \in {"dnsOpen", "dnsWrite", "dnsReady"}
        BY DEF HasServer
      <3> QED  BY <3>1, Carries, UndoFields
    <2>2. EnsureSpawn(c) \/ EnsureOpen(c) \/ EnsureWrite(c)
      BY <2>1, Arrivals DEF Arrives
    <2>3. CASE EnsureSpawn(c)
      BY <2>3, SpawnedServer DEF Starting
    <2>4. CASE EnsureOpen(c) \/ EnsureWrite(c)
      <3>1. HasServer(cl[c]) /\ server' = server /\ cl'[c].srv = cl[c].srv
        BY <2>1, <2>4, GotoFields DEF EnsureOpen, EnsureWrite, HasServer
      <3> QED  BY <1>2, <3>1 DEF Starting, Served, Serving
    <2> QED  BY <2>2, <2>3, <2>4
  <1> QED  BY <1>3, <1>4, <1>5, <1>6

(* A request made alone finds the others idle, and changes nothing yet.    *)
LEMMA RequestAlone ==
    ASSUME TypeOK, AllFit, NEW c \in Callers, NEW s \in Services, Request(c, s), Busy = {}
    PROVE  /\ \A d \in Callers : d # c => cl[d] = IdleCaller /\ cl'[d] = IdleCaller
           /\ UNCHANGED <<svc, box, cgroup, net, server, pidFile, tree>>
  <1>1. \A d \in Callers : d # c => cl'[d] = cl[d]
    BY RequestStarts DEF TypeOK
  <1>2. ASSUME NEW d \in Callers PROVE cl[d] = IdleCaller
    <2>1. cl[d].pc = "idle" /\ Fits(cl[d]) /\ cl[d].op \in Ops
      BY CallerFields DEF Busy, AllFit, TypeOK
    <2> QED  BY <2>1 DEF Fits, Ops, Builds, Serves, Ends
  <1> QED  BY <1>1, <1>2, RequestStarts DEF rows, resources, sidecar

LEMMA UnfailedRequest ==
    ASSUME TypeOK, AllFit, Unfailed, Fair', NEW c \in Callers, NEW s \in Services, Request(c, s)
    PROVE  Unfailed'
  <1>1. Fair /\ Busy = {}
    BY RequestFair
  <1>2. /\ \A d \in Callers : d # c => cl[d] = IdleCaller /\ cl'[d] = IdleCaller
        /\ UNCHANGED <<svc, box, cgroup, net, server, pidFile, tree>>
    BY <1>1, RequestAlone
  <1>3. pidFile # Torn
    BY <1>1 DEF Unfailed, Busy
  <1>4. ~HasServer(cl'[c]) /\ ~(Undoing(c)')
        /\ (cl'[c].op = "start" => \E p \in Trees : Unspawned(p))
    <2>1. CASE Start(c, s)
      BY <2>1, CallFields DEF Start, HasServer, Undoing
    <2>2. CASE Stop(c, s) \/ Destroy(c, s)
      BY <2>2, CallFields DEF Stop, Destroy, HasServer, Undoing
    <2>3. CASE Tick(c, s)
      BY <2>3, CallFields DEF Tick, HasServer, Undoing
    <2> QED  BY <2>1, <2>2, <2>3 DEF Request
  <1>5. ASSUME NEW d \in Callers
        PROVE  (/\ ~Undoing(d)
                /\ cl[d].op = "start" /\ cl[d].pc \in Builds => \E p \in Trees : Unspawned(p)
                /\ HasServer(cl[d]) => Starting(cl[d].srv) \/ Served)'
    <2>1. CASE d = c
      BY <1>2, <1>4, <2>1 DEF Unspawned
    <2>2. CASE d # c
      BY <1>2, <2>2 DEF IdleCaller, Undoing, HasServer
    <2> QED  BY <2>1, <2>2
  <1> QED  BY <1>2, <1>3, <1>5 DEF Unfailed

LEMMA IdleUnfailed == ~HasServer(IdleCaller) /\ IdleCaller.op = "none" /\ IdleCaller.pc = "idle"
  BY DEF IdleCaller, HasServer

LEMMA UnfailedStep ==
    TypeOK /\ AllFit /\ Alone /\ Unfailed /\ [Next]_vars => Unfailed'
  <1> SUFFICES ASSUME TypeOK, AllFit, Alone, Unfailed, [Next]_vars, Fair' PROVE Unfailed'
    BY DEF Unfailed
  <1>1. ASSUME NEW c \in Callers, NEW s \in Services, Request(c, s) PROVE Unfailed'
    BY <1>1, UnfailedRequest
  <1>2. ASSUME NEW c \in Callers, Operate(c) \/ Crash(c) PROVE Unfailed'
    <2>1. overlap # "now"
      BY <1>2, FairBefore DEF Fair
    <2>2. \A d \in Callers : d # c => cl'[d] = IdleCaller
      BY <1>2, <2>1, OthersIdle
    <2>3. ASSUME NEW d \in Callers
          PROVE  (/\ ~Undoing(d)
                  /\ cl[d].op = "start" /\ cl[d].pc \in Builds => \E p \in Trees : Unspawned(p)
                  /\ HasServer(cl[d]) => Starting(cl[d].srv) \/ Served)'
      <3>1. CASE d = c
        BY <1>2, <3>1, UnfailedOperate
      <3>2. CASE d # c
        BY <2>2, <3>2, IdleUnfailed DEF Undoing
      <3> QED  BY <3>1, <3>2
    <2>4. pidFile' = Torn => cl'[c].pc = "dnsWrite"
      BY <1>2, UnfailedOperate
    <2> QED  BY <2>3, <2>4 DEF Unfailed
  <1>3. CASE Sidecar
    <2>1. PICK v \in Servers : Bind(v) \/ ServeFails(v)
      BY <1>3 DEF Sidecar
    <2>2. Bind(v)
      BY <2>1, FaultCounts DEF ServeFails, Fair
    <2>3. UNCHANGED <<overlap, faults, pidFile, cl, tree>>
      BY <1>3, <2>2 DEF Sidecar, Bind
    <2>4. /\ server[v].state = "starting" /\ \A u \in Servers : u # v => server'[u] = server[u]
          /\ server'[v].state = IF Served THEN "exited" ELSE "serving"
      BY <2>2 DEF Bind, Starting, TypeOK
    <2>5. Served'
      BY <2>4 DEF Served, Serving
    <2> QED  BY <2>3, <2>5 DEF Unfailed, Fair, Undoing, Unspawned
  <1>4. CASE UNCHANGED vars
    BY <1>4 DEF vars, Unfailed, Fair, Undoing, Unspawned, Starting, Served, Serving
  <1>5. ASSUME NEW q \in Trees, InitSteps(q) \/ Workload(q) PROVE Unfailed'
    <2>1. /\ Fair /\ UNCHANGED <<server, pidFile, cl>>
          /\ \A p \in Trees : Unspawned(p) => Unspawned(p)'
      BY <1>5, ProcessSteps DEF Fair, Unspawned, sidecar
    <2> QED  BY <2>1 DEF Unfailed, Undoing, Starting, Served, Serving
  <1> QED  BY <1>1, <1>2, <1>3, <1>4, <1>5 DEF Next

(* At the steps that are midway the lone caller of a calm run goes on.     *)
LEMMA MidwayOperate ==
    ASSUME TypeOK, AtWork, AllFit, Alone, SetupUndisturbed, Unfailed, Unfailed', Cleared, Fair',
           NEW c \in Callers, Operate(c) \/ Crash(c), cl[c].pc \in Midway,
           cl'[c].pc \notin Midway, NEW s, s = cl[c].on
    PROVE  box'[s].status = "up" \/ Clean(s)'
  <1>1. /\ Fair /\ (\A k : ~Fault(k)) /\ ~Crash(c) /\ s \in Services
        /\ ~Undoing(c) /\ ~Undoing(c)' /\ Fits(cl[c]) /\ cl[c].op \in Ops
    BY FairBefore, CallerFields DEF Unfailed, AllFit, TypeOK, AtWork, Midway, Serves
  <1> USE <1>1, GotoFields DEF Midway, Serves, At
  <1>2. CASE CleanNetwork(c)
    BY <1>2 DEF CleanNetwork, AfterCleanup, Undoing
  <1>3. CASE PrepareCgroup(c) \/ PrepareRoot(c) \/ NetName(c)
    BY <1>3 DEF PrepareCgroup, PrepareRoot, NetName
  <1>4. CASE NetPair(c) \/ NetWire(c)
    BY <1>4 DEF NetPair, NetWire, NetBuild, SetupUndisturbed, Before, Fair
  <1>5. CASE Spawn(c) \/ SpawnFails(c)
    BY <1>5, SpawnFields DEF SpawnFails, Unfailed, Builds
  <1>6. CASE Rows(c)
    BY <1>6 DEF Rows
  <1>7. CASE BoxRow(c)
    BY <1>7 DEF BoxRow, TypeOK
  <1>8. CASE SettleBox(c)
    <2>1. Clean(s)
      BY <1>8 DEF SettleBox, Cleared, Clean
    <2> QED  BY <1>8, <2>1 DEF SettleBox, Clean, resources
  <1>9. CASE Ensure(c)
    <2>1. \A op \in {"undoDns", "undoPolicy"} : ~Undo(c, op)
      BY UndoFields DEF Undoing
    <2> QED  BY <1>9, <2>1, EnsureSpawnFields
             DEF Ensure, EnsureTorn, EnsureFound, EnsureMissing, EnsureSpawnFails, EnsureOpen,
                 EnsureWrite, EnsureReady, EnsureTimeout
  <1>10. ~(Kill(c) \/ CleanCgroup(c) \/ Policy(c) \/ SettleRow(c) \/ Leave(c) \/ StopIfIdle(c))
    BY DEF Kill, CleanCgroup, Policy, SettleRow, Leave, StopIfIdle, IdleLook, IdleKill, IdleForget
  <1> QED  BY <1>2, <1>3, <1>4, <1>5, <1>6, <1>7, <1>8, <1>9, <1>10 DEF Operate

LEMMA ClearedOperate ==
    ASSUME TypeOK, AtWork, AllFit, Alone, Present, SetupUndisturbed, Unfailed, Unfailed', Cleared,
           Fair', NEW c \in Callers, Operate(c) \/ Crash(c)
    PROVE  Cleared'
  <1>1. /\ Fair /\ ~Crash(c) /\ cl[c].on \in Services /\ cl[c].pc # "idle"
        /\ ~Undoing(c) /\ Fits(cl[c]) /\ cl[c].op \in Ops /\ overlap # "now"
    BY FairBefore, OperateMoves, CallerFields DEF Unfailed, AllFit, TypeOK, AtWork, Fair
  <1>2. \A d \in Callers : d # c => cl[d] = IdleCaller /\ cl'[d] = IdleCaller
    BY <1>1, OthersIdle
  <1>3. IdleCaller.pc = "idle"
    BY DEF IdleCaller
  <1>0. PICK r \in Services : r = cl[c].on
    BY <1>1
  <1>4. ASSUME NEW s \in Services
        PROVE  (\/ box[s].status = "up" \/ Clean(s)
                \/ \E d \in Callers : cl[d].pc \in Midway /\ cl[d].on = s)'
    <2>1. \/ box[s].status = "up" \/ Clean(s)
          \/ cl[c].pc \in Midway /\ r = s
      BY <1>0, <1>1, <1>2, <1>3 DEF Cleared, Midway, Serves
    <2>2. CASE r # s
      <3>1. box'[s] = box[s]
        BY <1>0, <2>2, Footprint DEF BoxRow, SettleBox, TypeOK
      <3>2. s \in cgroup' <=> s \in cgroup
        BY <1>0, <2>2, Footprint, NullAssumption DEF CleanCgroup, PrepareCgroup
      <3>3. net'[s] = net[s]
        BY <1>0, <2>2, Footprint
           DEF CleanNetwork, NetName, NetPair, NetWire, NetBuild, TypeOK
      <3> QED  BY <2>1, <2>2, <3>1, <3>2, <3>3 DEF Clean
    <2>3. CASE r = s /\ cl[c].pc \in Midway /\ cl'[c].pc \notin Midway
      BY <1>0, <2>3, MidwayOperate
    <2>4. CASE r = s /\ cl'[c].pc \in Midway
      <3>1. cl'[c].on = s
        BY <1>0, <2>4, Carries DEF Midway, Serves
      <3> QED  BY <2>4, <3>1
    <2>5. CASE r = s /\ cl[c].pc \notin Midway /\ cl'[c].pc \notin Midway
      <3>1. box' = box /\ net' = net
        BY <1>1, <2>5, Footprint DEF BoxRow, SettleBox, CleanNetwork, NetName, NetPair, NetWire,
           NetBuild, At, Midway, Serves
      <3>2. cgroup' = cgroup
        <4>1. ~PrepareCgroup(c)
          BY <2>5 DEF PrepareCgroup, At, Midway
        <4>2. CleanCgroup(c) => cgroup' = cgroup
          BY <2>5, GotoFields DEF CleanCgroup, Midway
        <4> QED  BY <4>1, <4>2, Footprint
      <3> QED  BY <2>1, <2>5, <3>1, <3>2 DEF Clean
    <2> QED  BY <2>2, <2>3, <2>4, <2>5
  <1>5. ASSUME cl'[c].pc \in {"cut", "settle"}
        PROVE  /\ cl'[c].on \notin cgroup'
               /\ cl'[c].pc = "settle" => net'[cl'[c].on] = "none"
    <2>1. cl'[c].on = r
      BY <1>0, <1>5, Carries
    <2>2. CASE CleanCgroup(c)
      <3>1. cl[c].pc = "rmdir" /\ cl'[c].pc = "cut"
        BY <1>5, <2>2, GotoFields, ReturnFields DEF CleanCgroup, IdleCaller
      <3>2. box[r].status # "up" => r \notin cgroup
        BY <1>0, <1>1, <1>2, <1>3, <3>1 DEF Cleared, Midway, Serves, Clean
      <3> QED  BY <1>0, <1>1, <2>1, <2>2, <3>1, <3>2, GotoFields, ReturnFields
               DEF CleanCgroup, IdleCaller
    <2>3. CASE CleanNetwork(c)
      <3>1. /\ cl[c].pc = "cut" /\ cgroup' = cgroup /\ net' = [net EXCEPT ![r] = "none"]
        BY <1>0, <2>3 DEF CleanNetwork
      <3>2. r \notin cgroup
        BY <1>0, <1>1, <3>1 DEF Cleared
      <3> QED  BY <2>1, <3>1, <3>2 DEF TypeOK
    <2>4. ~SettleRow(c) \/ cl'[c].pc # "settle"
      BY <1>1, GotoFields DEF SettleRow, Undoing
    <2> QED  BY <1>5, <2>2, <2>3, <2>4, Arrivals DEF Arrives
  <1>6. ~(cl'[c].pc = "rmdir" /\ Recalls(c)')
    <2> SUFFICES ASSUME cl'[c].pc = "rmdir", Recalls(c)' PROVE FALSE
      OBVIOUS
    <2>1. Kill(c)
      BY Arrivals DEF Arrives
    <2>2. cl[c].op = "tick" /\ cl[c].pc = "kill"
      BY <2>1, GotoFields DEF Kill, Recalls
    <2> QED  BY <1>1, <2>2 DEF Fits, Ends
  <1>7. ASSUME NEW d \in Callers
        PROVE  (/\ cl[d].pc \in {"cut", "settle"} => cl[d].on \notin cgroup
                /\ cl[d].pc = "settle" => net[cl[d].on] = "none"
                /\ cl[d].pc = "rmdir" /\ Recalls(d) => box[cl[d].on].status = "up")'
    <2>1. CASE d = c
      BY <1>5, <1>6, <2>1
    <2>2. CASE d # c
      BY <1>2, <1>3, <2>2
    <2> QED  BY <2>1, <2>2
  <1> QED  BY <1>4, <1>7 DEF Cleared

LEMMA ClearedRequest ==
    ASSUME TypeOK, AllFit, Present, Cleared, Fair', NEW c \in Callers, NEW s \in Services,
           Request(c, s)
    PROVE  Cleared'
  <1>1. Fair /\ Busy = {}
    BY RequestFair
  <1>2. /\ \A d \in Callers : d # c => cl[d] = IdleCaller /\ cl'[d] = IdleCaller
        /\ UNCHANGED <<svc, box, cgroup, net, server, pidFile, tree>>
    BY <1>1, RequestAlone
  <1>3. \A r \in Services : box[r].status = "up" \/ Clean(r)
    BY <1>1 DEF Cleared, Busy, Midway, Serves
  <1>4. cl'[c].on = s /\ cl'[c].pc \in {"rmdir", "kill", "policy"}
    BY RequestStarts
  <1>5. Recalls(c)' /\ cl'[c].pc = "rmdir" => box[s].status = "up"
    <2>1. CASE Start(c, s) \/ Stop(c, s) \/ Destroy(c, s)
      BY <2>1, CallFields DEF Start, Stop, Destroy, Recalls
    <2>2. CASE Tick(c, s)
      BY <2>2, CallFields DEF Tick, Recalls, Dead, Present
    <2> QED  BY <2>1, <2>2 DEF Request
  <1>6. ASSUME NEW d \in Callers
        PROVE  (/\ cl[d].pc \in {"cut", "settle"} => cl[d].on \notin cgroup
                /\ cl[d].pc = "settle" => net[cl[d].on] = "none"
                /\ cl[d].pc = "rmdir" /\ Recalls(d) => box[cl[d].on].status = "up")'
    <2>1. CASE d = c
      BY <1>2, <1>4, <1>5, <2>1
    <2>2. CASE d # c
      BY <1>2, <2>2, IdleUnfailed
    <2> QED  BY <2>1, <2>2
  <1> QED  BY <1>2, <1>3, <1>6 DEF Cleared, Clean

LEMMA ClearedStep ==
    /\ TypeOK /\ AtWork /\ AllFit /\ Alone /\ Present /\ SetupUndisturbed
    /\ Unfailed /\ Unfailed' /\ Cleared /\ [Next]_vars
    => Cleared'
  <1> SUFFICES ASSUME TypeOK, AtWork, AllFit, Alone, Present, SetupUndisturbed, Unfailed,
                      Unfailed', Cleared, [Next]_vars, Fair'
               PROVE  Cleared'
    BY DEF Cleared
  <1>1. CASE UNCHANGED vars \/ Sidecar \/ \E q \in Trees : InitSteps(q) \/ Workload(q)
    <2>1. Fair /\ UNCHANGED <<box, cgroup, net, cl>>
      <3>1. CASE UNCHANGED vars
        BY <3>1 DEF vars, Fair
      <3>2. CASE Sidecar
        BY <3>2, FaultCounts DEF Sidecar, Bind, ServeFails, Fair, resources
      <3>3. CASE \E q \in Trees : InitSteps(q) \/ Workload(q)
        BY <3>3, ProcessSteps DEF Fair, rows, resources
      <3> QED  BY <1>1, <3>1, <3>2, <3>3
    <2> QED  BY <2>1 DEF Cleared, Clean, Recalls
  <1> QED  BY <1>1, ClearedRequest, ClearedOperate DEF Next

LEMMA KnownOperate ==
    ASSUME TypeOK, AtWork, AllFit, Alone, Present, Kept, Filed, Provides, Unfailed, Unfailed',
           Known, Fair', NEW c \in Callers, Operate(c) \/ Crash(c)
    PROVE  Known'
  <1>1. /\ Fair /\ (\A k : ~Fault(k)) /\ ~Crash(c) /\ cl[c].on \in Services /\ cl[c].pc # "idle"
        /\ ~Undoing(c) /\ Fits(cl[c]) /\ cl[c].op \in Ops /\ overlap = "never"
    BY FairBefore, OperateMoves, CallerFields DEF Unfailed, AllFit, TypeOK, AtWork, Fair
  <1>2. \A d \in Callers : d # c => cl[d] = IdleCaller /\ cl'[d] = IdleCaller
    BY <1>1, OthersIdle
  <1> DEFINE Up(v) == server[v].state \in {"starting", "serving"}
  <1>3. /\ \A v \in Servers : Up(v) =>
              v = pidFile \/ (cl[c].pc \in {"dnsOpen", "dnsWrite"} /\ cl[c].srv = v)
        /\ (\E v \in Servers : Up(v)) => InUse \/ cl[c].pc \in Minding
    <2>1. \A d \in Callers : cl[d].pc # "idle" => d = c
      BY <1>2, IdleUnfailed
    <2>2. \A v \in Servers : Up(v) => Starting(v) \/ Serving(v)
      BY DEF Starting, Serving
    <2>3. ASSUME NEW v \in Servers, Up(v)
          PROVE  v = pidFile \/ (cl[c].pc \in {"dnsOpen", "dnsWrite"} /\ cl[c].srv = v)
      <3>1. \/ v = pidFile
            \/ \E d \in Callers : cl[d].pc \in {"dnsOpen", "dnsWrite"} /\ cl[d].srv = v
        BY <1>1, <2>2, <2>3 DEF Known
      <3>2. ASSUME NEW d \in Callers, cl[d].pc \in {"dnsOpen", "dnsWrite"} PROVE d = c
        BY <2>1, <3>2
      <3> QED  BY <3>1, <3>2
    <2>4. (\E v \in Servers : Up(v)) => Live
      BY <2>2 DEF Live
    <2>5. Live => InUse \/ cl[c].pc \in Minding
      BY <1>1, <2>1 DEF Known, Minding
    <2> QED  BY <2>3, <2>4, <2>5
  <1>4. ~Undo(c, "undoDns") /\ ~Undo(c, "undoPolicy")
    BY UndoFields DEF Unfailed, Undoing
  <1>5. ASSUME NEW v \in Servers, Up(v)', v # cl'[c].srv \/ ~EnsureSpawn(c) PROVE Up(v)
    <2>1. CASE EnsureSpawn(c)
      BY <1>5, <2>1, SpawnedServer
    <2>2. CASE IdleKill(c)
      <3>1. server'[v] = server[v] \/ server'[v] = [server[v] EXCEPT !.state = "exited"]
        BY <2>2 DEF IdleKill
      <3>2. [server[v] EXCEPT !.state = "exited"].state = "exited"
        BY DEF TypeOK
      <3> QED  BY <1>5, <3>1, <3>2
    <2>3. CASE server' = server
      BY <1>5, <2>3
    <2> QED  BY <2>1, <2>2, <2>3, Footprint
  <1>6. ASSUME NEW v \in Servers, Up(v)'
        PROVE  v = pidFile' \/ (cl'[c].pc \in {"dnsOpen", "dnsWrite"} /\ cl'[c].srv = v)
    <2>1. CASE EnsureSpawn(c)
      <3>1. pidFile = NoServer /\ cl[c].pc = "dnsSpawn" /\ cl'[c].pc = "dnsOpen"
        BY <1>1, <2>1, EnsureSpawnFields DEF EnsureSpawn, Filed
      <3> QED  BY <1>3, <1>5, <1>6, <3>1, NullAssumption
    <2>2. CASE EnsureMissing(c)
      <3>1. ~Up(pidFile) \/ pidFile \notin Servers
        BY <2>2 DEF EnsureMissing, ServerAlive, Starting, Serving
      <3>2. Up(v) /\ cl[c].pc = "dns"
        BY <1>5, <1>6, <2>2 DEF EnsureMissing, EnsureSpawn
      <3> QED  BY <1>3, <3>1, <3>2
    <2>3. CASE EnsureOpen(c)
      <3>1. pidFile = NoServer /\ cl[c].pc = "dnsOpen" /\ cl'[c].pc = "dnsWrite"
            /\ cl'[c].srv = cl[c].srv /\ ~EnsureSpawn(c)
        BY <1>1, <2>3, GotoFields DEF EnsureOpen, Filed, EnsureSpawn
      <3> QED  BY <1>3, <1>5, <1>6, <3>1, NullAssumption
    <2>4. CASE EnsureWrite(c)
      <3>1. pidFile = Torn /\ cl[c].pc = "dnsWrite" /\ pidFile' = cl[c].srv /\ ~EnsureSpawn(c)
        BY <1>1, <2>4, GotoFields DEF EnsureWrite, Filed, EnsureSpawn
      <3> QED  BY <1>3, <1>5, <1>6, <3>1, NullAssumption
    <2>5. CASE IdleForget(c)
      <3>1. Up(v) /\ cl[c].pc = "idleForget" /\ ~InUse
        BY <1>1, <1>5, <1>6, <2>5 DEF IdleForget, EnsureSpawn, Provides
      <3> QED  BY <1>3, <3>1 DEF Minding
    <2>6. CASE ~(EnsureSpawn(c) \/ EnsureMissing(c) \/ EnsureOpen(c) \/ EnsureWrite(c)
                 \/ IdleForget(c))
      <3>1. Up(v) /\ pidFile' = pidFile
        BY <1>5, <1>6, <2>6, Footprint
      <3>2. cl[c].pc \notin {"dnsOpen", "dnsWrite"}
        BY <1>1, <2>6
           DEF Operate, Kill, CleanCgroup, CleanNetwork, PrepareCgroup, PrepareRoot, NetName,
               NetPair, NetWire, NetBuild, Spawn, SpawnFails, Rows, BoxRow, Policy, SettleBox,
               SettleRow, Leave, Ensure, EnsureTorn, EnsureFound, EnsureSpawnFails, EnsureReady,
               EnsureTimeout, StopIfIdle, IdleLook, IdleKill, At
      <3> QED  BY <1>3, <3>1, <3>2
    <2> QED  BY <2>1, <2>2, <2>3, <2>4, <2>5, <2>6
  <1>7. ASSUME NEW v \in Servers, Up(v)', cl'[c].pc \notin Minding PROVE InUse'
    <2>1. ~EnsureSpawn(c) /\ Up(v)
      BY <1>5, <1>7, EnsureSpawnFields DEF Minding
    <2>2. CASE cl[c].pc \notin Minding
      <3>1. InUse
        BY <1>3, <2>1, <2>2
      <3>2. ~SettleBox(c)
        <4> SUFFICES ASSUME SettleBox(c) PROVE FALSE
          OBVIOUS
        <4> QED  BY <1>1, <1>7, GotoFields DEF SettleBox, Minding, Undoing
      <3>3. ~BoxRow(c)
        BY <2>2 DEF BoxRow, At, Minding
      <3> QED  BY <3>1, <3>2, <3>3, Footprint DEF InUse
    <2>3. CASE cl[c].pc \in Minding
      <3> USE GotoFields DEF Minding
      <3>1. CASE Policy(c)
        <4>1. cl[c].op = "start" /\ cl[c].pc = "policy" /\ box' = box
          BY <1>1, <1>7, <3>1 DEF Policy, rows
        <4>2. box[cl[c].on].pid = cl[c].child /\ cl[c].child \in Trees
          BY <1>1, <4>1 DEF Kept, Aware, Fits, HasChild
        <4> QED  BY <1>1, <4>1, <4>2, NullAssumption DEF InUse, Present
      <3>2. CASE IdleLook(c)
        BY <1>7, <3>2 DEF IdleLook, InUse
      <3>3. CASE IdleKill(c)
        <4>1. v = pidFile /\ server'[v].state \notin {"starting", "serving"}
          <5>1. v = pidFile
            BY <1>3, <2>1, <3>3 DEF IdleKill
          <5>2. server'[v] = [server[v] EXCEPT !.state = "exited"]
            BY <2>1, <3>3, <5>1 DEF IdleKill, Starting, Serving
          <5>3. server'[v].state = "exited"
            BY <5>2 DEF TypeOK
          <5> QED  BY <5>1, <5>3
        <4> QED  BY <1>7, <4>1
      <3>4. CASE SettleRow(c)
        BY <1>1, <1>7, <3>4 DEF SettleRow, Undoing
      <3>5. CASE Rows(c) \/ BoxRow(c)
        BY <1>7, <3>5 DEF Rows, BoxRow
      <3>6. CASE Ensure(c)
        BY <1>4, <1>7, <2>1, <2>3, <3>6 DEF Ensure, EnsureTorn, EnsureFound, EnsureMissing,
           EnsureSpawnFails, EnsureOpen, EnsureWrite, EnsureReady, EnsureTimeout
      <3>7. \/ Policy(c) \/ IdleLook(c) \/ IdleKill(c) \/ SettleRow(c) \/ Rows(c) \/ BoxRow(c)
            \/ Ensure(c)
        BY <1>1, <2>3
           DEF Operate, Kill, CleanCgroup, CleanNetwork, PrepareCgroup, PrepareRoot, NetName,
               NetPair, NetWire, NetBuild, Spawn, SpawnFails, SettleBox, Leave, StopIfIdle,
               IdleForget, At
      <3> QED  BY <3>1, <3>2, <3>3, <3>4, <3>5, <3>6, <3>7
    <2> QED  BY <2>2, <2>3
  <1> QED  BY <1>6, <1>7 DEF Known, Starting, Serving, Live

LEMMA KnownStep ==
    /\ TypeOK /\ AtWork /\ AllFit /\ Alone /\ Present /\ Kept /\ Filed /\ Provides
    /\ Unfailed /\ Unfailed' /\ Known /\ [Next]_vars
    => Known'
  <1> SUFFICES ASSUME TypeOK, AtWork, AllFit, Alone, Present, Kept, Filed, Provides, Unfailed,
                      Unfailed', Known, [Next]_vars, Fair'
               PROVE  Known'
    BY DEF Known
  <1>1. ASSUME NEW c \in Callers, NEW s \in Services, Request(c, s) PROVE Known'
    <2>1. Fair /\ Busy = {}
      BY <1>1, RequestFair
    <2>2. UNCHANGED <<box, server, pidFile>>
      BY <1>1, <2>1, RequestAlone
    <2>3. \A d \in Callers : cl[d].pc = "idle"
      BY <2>1 DEF Busy
    <2> QED  BY <2>1, <2>2, <2>3 DEF Known, Minding, Live, InUse, Starting, Serving
  <1>2. CASE UNCHANGED vars \/ \E q \in Trees : InitSteps(q) \/ Workload(q)
    <2>1. Fair /\ UNCHANGED <<box, server, pidFile, cl>>
      <3>1. CASE UNCHANGED vars
        BY <3>1 DEF vars, Fair
      <3>2. CASE \E q \in Trees : InitSteps(q) \/ Workload(q)
        BY <3>2, ProcessSteps DEF Fair, rows, sidecar
      <3> QED  BY <1>2, <3>1, <3>2
    <2> QED  BY <2>1 DEF Known, Live, InUse, Starting, Serving
  <1>3. CASE Sidecar
    <2>1. PICK v \in Servers : Bind(v)
      BY <1>3, FaultCounts DEF Sidecar, ServeFails, Fair
    <2>2. Fair /\ UNCHANGED <<box, pidFile, cl>>
      BY <1>3, <2>1 DEF Sidecar, Bind, Fair
    <2>3. \A u \in Servers : (Starting(u) \/ Serving(u))' => Starting(u) \/ Serving(u)
      BY <2>1 DEF Bind, Starting, Serving, TypeOK
    <2>4. InUse' = InUse
      BY <2>2 DEF InUse
    <2> QED  BY <2>2, <2>3, <2>4 DEF Known, Live
  <1> QED  BY <1>1, <1>2, <1>3, KnownOperate DEF Next

------------------------------------------------------------------------------
(* The invariant of callers that do not overlap.                           *)
LoneInv == /\ IInv /\ AllFit /\ Present /\ Kept /\ Filed /\ Provides
           /\ Unfailed /\ Cleared /\ Known

LEMMA LoneInit == Init => LoneInv
  <1> SUFFICES ASSUME Init PROVE LoneInv
    OBVIOUS
  <1>1. AllFit
    BY IdleFits DEF Init, AllFit
  <1>2. Present
    BY IdleUnfailed DEF Init, Present, AbsentBox, NoProcess, HasChild
  <1>3. ~Live /\ ~InUse
    BY DEF Init, Live, Starting, Serving, InUse, AbsentBox
  <1>4. Kept
    BY IdleUnfailed DEF Init, Kept, Rowed, Ended, Aware, AbsentBox, Builds, Serves
  <1>5. Filed /\ Provides /\ Known
    BY <1>3, IdleUnfailed DEF Init, Filed, Provides, Known, Live
  <1>6. Unfailed /\ Cleared
    BY IdleUnfailed, NullAssumption DEF Init, Unfailed, Cleared, Undoing, Clean
  <1> QED  BY <1>1, <1>2, <1>4, <1>5, <1>6, InitInv DEF LoneInv

LEMMA LoneStep == LoneInv /\ [Next]_vars => LoneInv'
  <1> SUFFICES ASSUME LoneInv, [Next]_vars PROVE LoneInv'
    OBVIOUS
  <1>1. IInv' /\ AllFit' /\ Present'
    BY StepInv, FitStep, PresentStep DEF LoneInv, IInv
  <1>2. Kept' /\ Filed' /\ Provides'
    BY <1>1, KeptStep, ServedStep DEF LoneInv, IInv
  <1>3. Unfailed'
    BY UnfailedStep DEF LoneInv, IInv
  <1>4. Cleared' /\ Known'
    BY <1>3, ClearedStep, KnownStep DEF LoneInv, IInv
  <1> QED  BY <1>1, <1>2, <1>3, <1>4 DEF LoneInv

LEMMA LoneInvariance == Spec => []LoneInv
  BY LoneInit, LoneStep, PTL DEF Spec

(* A running service keeps its network: whoever cleans up knows that the   *)
(* tree that the rows name has ended.                                      *)
THEOREM NetworksKept == Spec => []KeepsItsNetwork
  <1>1. LoneInv => KeepsItsNetwork
    <2> SUFFICES ASSUME LoneInv, overlap = "never", NEW s \in Services, NEW p \in Trees,
                        box[s] = [status |-> "up", pid |-> p], tree[p].parent = "up"
                 PROVE  tree[p].svc = s /\ (~Over(p) => tree[p].wired)
      BY DEF KeepsItsNetwork
    <2>1. Rowed(s) /\ ~Ended(s) /\ box[s].pid = p
      BY DEF LoneInv, Kept, Ended
    <2> QED  BY <2>1 DEF Rowed, Wired
  <1> QED  BY <1>1, LoneInvariance, PTL

(* Where nothing failed, a service that is not in use has no cgroup and no *)
(* network.                                                                *)
THEOREM NothingStays == Spec => []NothingLeft
  <1>1. LoneInv => NothingLeft
    BY DEF LoneInv, Cleared, Fair, NothingLeft, Clean, Busy, Midway, Serves
  <1> QED  BY <1>1, LoneInvariance, PTL

(* A sandbox in use has a sidecar, whatever failed or was killed before.   *)
THEOREM InUseIsServed == Spec => []ServedInUse
  <1>1. LoneInv => ServedInUse
    BY DEF LoneInv, Provides, Provided, Live, Failed, ServedInUse
  <1> QED  BY <1>1, LoneInvariance, PTL

(* Where nothing failed, a sidecar that nobody needs does not run.         *)
THEOREM IdleHasStopped == Spec => []IdleStops
  <1>1. LoneInv => IdleStops
    BY DEF LoneInv, Known, Fair, Live, IdleStops, Busy, Minding
  <1> QED  BY <1>1, LoneInvariance, PTL

(* A start that none overlaps goes on only beside a sidecar, whatever      *)
(* races and failures there were before.                                   *)
THEOREM StartsServe == Spec => StartServes
  <1>1. LoneInv /\ [Next]_vars =>
            [\A c \in Callers : GoesOn(c) /\ overlap # "now" /\ ~Haunted
                => \E v \in Servers : Starting(v) \/ Serving(v)]_vars
    BY GoingOn DEF LoneInv, IInv, Live
  <1> QED  BY <1>1, LoneInvariance, PTL DEF Spec, StartServes
=============================================================================
