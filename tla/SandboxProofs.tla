---------------------------- MODULE SandboxProofs ----------------------------
(***************************************************************************)
(* What holds of Sandbox for every set of services, callers and processes, *)
(* under any number of failures, overlaps and orphans.                     *)
(***************************************************************************)
EXTENDS Sandbox, TLAPS

Ops   == {"none", "start", "undoDns", "undoPolicy", "stop", "destroy", "tick"}
Steps == {"idle", "rmdir", "cut", "prepare", "root", "net", "pair", "wire", "spawn",
          "dns", "dnsSpawn", "dnsOpen", "dnsWrite", "dnsReady", "rows", "box",
          "kill", "settle", "row", "policy", "idleLook", "idleKill", "idleForget",
          "leave"}

(* A caller at work has a service.                                         *)
AtWork == \A c \in Callers : cl[c].pc # "idle" => cl[c].on \in Services

(* While no callers overlap, one at most is at work.                       *)
Alone == overlap # "now" =>
    \A c, d \in Callers : cl[c].pc # "idle" /\ cl[d].pc # "idle" => c = d

(* What joined a cgroup is in one that exists; init has a workload only    *)
(* while it waits for it, and the signal of the workload's exit with it.   *)
Joined == \A p \in Trees :
    /\ tree[p].init \in {"spawns", "waits"} => tree[p].svc \in cgroup
    /\ tree[p].work # "gone" => tree[p].init = "waits"
    /\ tree[p].work = "exited" => tree[p].chld

IInv == TypeOK /\ AtWork /\ Alone /\ Joined /\ SetupUndisturbed

------------------------------------------------------------------------------
(* Types of the callers' records.                                          *)

LEMMA CallerFields ==
    \A x \in CallerType : /\ x.op \in Ops /\ x.pc \in Steps
                          /\ x.on \in Services \cup {NoService}
                          /\ x.held \in TreeOrNone /\ x.child \in TreeOrNone
                          /\ x.srv \in ServerOrNone
  BY DEF CallerType, Ops, Steps

LEMMA IdleType == IdleCaller \in CallerType
  BY DEF IdleCaller, CallerType, TreeOrNone, ServerOrNone

(* A caller changes its record only.                                       *)
LEMMA CallerSet ==
    ASSUME TypeOK, NEW c \in Callers, NEW x \in CallerType, cl' = [cl EXCEPT ![c] = x]
    PROVE  cl' \in [Callers -> CallerType]
  BY DEF TypeOK

LEMMA GotoType ==
    ASSUME TypeOK, NEW c \in Callers, NEW pc \in Steps, Goto(c, pc)
    PROVE  cl' \in [Callers -> CallerType]
  <1>1. cl[c] \in CallerType
    BY DEF TypeOK
  <1>2. [cl[c] EXCEPT !.pc = pc] \in CallerType
    BY <1>1 DEF CallerType, Steps
  <1> QED  BY <1>2, CallerSet DEF Goto, TypeOK

LEMMA ReturnType ==
    ASSUME TypeOK, NEW c \in Callers, Return(c)
    PROVE  cl' \in [Callers -> CallerType]
  BY IdleType, CallerSet DEF Return

LEMMA UndoType ==
    ASSUME TypeOK, NEW c \in Callers, NEW op \in {"undoDns", "undoPolicy"}, Undo(c, op)
    PROVE  cl' \in [Callers -> CallerType]
  <1>1. cl[c] \in CallerType
    BY DEF TypeOK
  <1>2. [cl[c] EXCEPT !.op = op, !.pc = "kill"] \in CallerType
    BY <1>1 DEF CallerType
  <1> QED  BY <1>2, CallerSet DEF Undo, TypeOK

(* Faults are counted.                                                     *)
LEMMA FaultType == ASSUME faults \in Nat, NEW k, Fault(k) PROVE faults' \in Nat
  BY DEF Fault

(* A step of a caller: it keeps its service or ends, and is set at one of  *)
(* some steps.                                                             *)
Moves(c, pcs) ==
    /\ cl' \in [Callers -> CallerType]
    /\ \A d \in Callers : d # c => cl'[d] = cl[d]
    /\ cl'[c].pc = "idle" \/ cl'[c].on = cl[c].on
    /\ cl'[c].pc \in pcs \cup {"idle", "kill"}

LEMMA CallerMoves ==
    ASSUME TypeOK, NEW c \in Callers, NEW pcs \in SUBSET Steps,
           \/ \E pc \in pcs : Goto(c, pc)
           \/ Return(c)
           \/ \E op \in {"undoDns", "undoPolicy"} : Undo(c, op)
    PROVE  Moves(c, pcs)
  <1>1. cl \in [Callers -> CallerType] /\ cl[c] \in CallerType
    BY DEF TypeOK
  <1>2. CASE \E pc \in pcs : Goto(c, pc)
    <2>1. PICK pc \in pcs : Goto(c, pc)
      BY <1>2
    <2>2. cl' = [cl EXCEPT ![c] = [cl[c] EXCEPT !.pc = pc]]
      BY <2>1 DEF Goto
    <2>3. [cl[c] EXCEPT !.pc = pc].on = cl[c].on /\ [cl[c] EXCEPT !.pc = pc].pc = pc
      BY <1>1 DEF CallerType
    <2> QED  BY <1>1, <2>1, <2>2, <2>3, GotoType DEF Moves
  <1>3. CASE Return(c)
    BY <1>1, <1>3, ReturnType DEF Return, IdleCaller, Moves
  <1>4. CASE \E op \in {"undoDns", "undoPolicy"} : Undo(c, op)
    <2>1. PICK op \in {"undoDns", "undoPolicy"} : Undo(c, op)
      BY <1>4
    <2>2. cl' = [cl EXCEPT ![c] = [cl[c] EXCEPT !.op = op, !.pc = "kill"]]
      BY <2>1 DEF Undo
    <2>3. /\ [cl[c] EXCEPT !.op = op, !.pc = "kill"].on = cl[c].on
          /\ [cl[c] EXCEPT !.op = op, !.pc = "kill"].pc = "kill"
      BY <1>1 DEF CallerType
    <2> QED  BY <1>1, <2>1, <2>2, <2>3, UndoType DEF Moves
  <1> QED  BY <1>2, <1>3, <1>4

(* The steps before which the network is being built.                      *)
Building  == {"pair", "wire", "spawn"}
Elsewhere == Steps \ ({"idle"} \cup Building)

LEMMA SpawnMoves ==
    ASSUME TypeOK, NEW c \in Callers, Spawn(c) PROVE Moves(c, Elsewhere)
  <1>1. PICK p \in Trees : cl' = [cl EXCEPT ![c] = [@ EXCEPT !.pc = "dns", !.child = p]]
    BY DEF Spawn
  <1>2. cl \in [Callers -> CallerType] /\ cl[c] \in CallerType
    BY DEF TypeOK
  <1> DEFINE x == [cl[c] EXCEPT !.pc = "dns", !.child = p]
  <1>3. x \in CallerType /\ x.on = cl[c].on /\ x.pc = "dns"
    BY <1>2 DEF CallerType, TreeOrNone
  <1> QED  BY <1>1, <1>2, <1>3, CallerSet DEF Moves, Elsewhere, Building, Steps

LEMMA EnsureSpawnMoves ==
    ASSUME TypeOK, NEW c \in Callers, EnsureSpawn(c) PROVE Moves(c, Elsewhere)
  <1>1. PICK v \in Servers : cl' = [cl EXCEPT ![c] = [@ EXCEPT !.pc = "dnsOpen", !.srv = v]]
    BY DEF EnsureSpawn
  <1>2. cl \in [Callers -> CallerType] /\ cl[c] \in CallerType
    BY DEF TypeOK
  <1> DEFINE x == [cl[c] EXCEPT !.pc = "dnsOpen", !.srv = v]
  <1>3. x \in CallerType /\ x.on = cl[c].on /\ x.pc = "dnsOpen"
    BY <1>2 DEF CallerType, ServerOrNone
  <1> QED  BY <1>1, <1>2, <1>3, CallerSet DEF Moves, Elsewhere, Building, Steps

(* The steps of the sidecar's part.                                        *)
LEMMA SidecarMoves ==
    ASSUME TypeOK, NEW c \in Callers, Ensure(c) \/ StopIfIdle(c)
    PROVE  cl[c].pc # "idle" /\ Moves(c, Elsewhere)
  <1> Elsewhere \in SUBSET Steps
    BY DEF Elsewhere
  <1>1. cl[c].pc # "idle"
    BY DEF Ensure, StopIfIdle, EnsureTorn, EnsureFound, EnsureMissing, EnsureSpawn,
           EnsureSpawnFails, EnsureOpen, EnsureWrite, EnsureReady, EnsureTimeout,
           IdleLook, IdleKill, IdleForget
  <1>2. CASE EnsureSpawn(c)
    BY <1>1, <1>2, EnsureSpawnMoves
  <1>3. CASE EnsureTorn(c) \/ EnsureSpawnFails(c) \/ EnsureTimeout(c)
    <2>1. Undo(c, "undoDns")
      BY <1>3 DEF EnsureTorn, EnsureSpawnFails, EnsureTimeout
    <2> QED  BY <1>1, <2>1, CallerMoves
  <1>4. CASE ~EnsureSpawn(c) /\ ~(EnsureTorn(c) \/ EnsureSpawnFails(c) \/ EnsureTimeout(c))
    <2>1. (\E pc \in Elsewhere : Goto(c, pc)) \/ Return(c)
      BY <1>4 DEF Ensure, StopIfIdle, EnsureFound, EnsureMissing, EnsureOpen, EnsureWrite,
             EnsureReady, IdleLook, IdleKill, IdleForget, Elsewhere, Building, Steps
    <2> QED  BY <1>1, <2>1, CallerMoves
  <1> QED  BY <1>2, <1>3, <1>4

(* The steps of an operation but those that build its network.             *)
LEMMA OthersMove ==
    ASSUME TypeOK, NEW c \in Callers,
           \/ Kill(c) \/ CleanCgroup(c) \/ CleanNetwork(c) \/ PrepareCgroup(c) \/ PrepareRoot(c)
           \/ SpawnFails(c) \/ Rows(c) \/ BoxRow(c) \/ Policy(c)
           \/ SettleBox(c) \/ SettleRow(c) \/ Leave(c) \/ Crash(c)
    PROVE  cl[c].pc # "idle" /\ Moves(c, Elsewhere)
  <1> Elsewhere \in SUBSET Steps
    BY DEF Elsewhere
  <1>1. cl[c].pc # "idle"
    BY DEF Kill, CleanCgroup, CleanNetwork, PrepareCgroup, PrepareRoot, SpawnFails, Rows,
           BoxRow, Policy, SettleBox, SettleRow, Leave, Crash, At
  <1>2. CASE CleanCgroup(c)
    <2>1. (\E pc \in Elsewhere : Goto(c, pc)) \/ Return(c)
      BY <1>2 DEF CleanCgroup, Elsewhere, Building, Steps
    <2> QED  BY <1>1, <2>1, CallerMoves
  <1>3. CASE CleanNetwork(c)
    <2>1. (\E pc \in Elsewhere : Goto(c, pc)) \/ Return(c)
      BY <1>3 DEF CleanNetwork, AfterCleanup, Elsewhere, Building, Steps
    <2> QED  BY <1>1, <2>1, CallerMoves
  <1>4. CASE Policy(c)
    <2>1. (\E pc \in Elsewhere : Goto(c, pc)) \/ Return(c) \/ Undo(c, "undoPolicy")
      BY <1>4 DEF Policy, Elsewhere, Building, Steps
    <2> QED  BY <1>1, <2>1, CallerMoves
  <1>5. CASE SettleBox(c)
    <2>1. (\E pc \in Elsewhere : Goto(c, pc)) \/ Return(c)
      BY <1>5 DEF SettleBox, Elsewhere, Building, Steps
    <2> QED  BY <1>1, <2>1, CallerMoves
  <1>6. CASE \/ Kill(c) \/ PrepareCgroup(c) \/ PrepareRoot(c) \/ SpawnFails(c) \/ Rows(c)
             \/ BoxRow(c) \/ SettleRow(c) \/ Leave(c) \/ Crash(c)
    <2>1. (\E pc \in Elsewhere : Goto(c, pc)) \/ Return(c)
      BY <1>6 DEF Kill, PrepareCgroup, PrepareRoot, SpawnFails, Rows, BoxRow, SettleRow,
                  Leave, Crash, Elsewhere, Building, Steps
    <2> QED  BY <1>1, <2>1, CallerMoves
  <1> QED  BY <1>2, <1>3, <1>4, <1>5, <1>6

(* The steps that build the network.                                       *)
LEMMA BuildersMove ==
    ASSUME TypeOK, NEW c \in Callers, NetName(c) \/ NetPair(c) \/ NetWire(c)
    PROVE  cl[c].pc # "idle" /\ Moves(c, Building)
  <1>1. cl[c].pc # "idle"
    BY DEF NetName, NetPair, NetWire, NetBuild, At
  <1>2. (\E pc \in Building : Goto(c, pc)) \/ Return(c)
    BY DEF NetName, NetPair, NetWire, NetBuild, Building
  <1> QED  BY <1>1, <1>2, CallerMoves DEF Building, Steps

LEMMA OperateMoves ==
    ASSUME TypeOK, NEW c \in Callers, Operate(c) \/ Crash(c)
    PROVE  cl[c].pc # "idle" /\ Moves(c, Steps)
  <1>1. CASE Spawn(c)
    BY <1>1, SpawnMoves DEF Moves, Elsewhere, Steps, Spawn, At
  <1>2. CASE NetName(c) \/ NetPair(c) \/ NetWire(c)
    BY <1>2, BuildersMove DEF Moves, Building, Steps
  <1>3. CASE Ensure(c) \/ StopIfIdle(c)
    BY <1>3, SidecarMoves DEF Moves, Elsewhere, Steps
  <1>4. CASE ~Spawn(c) /\ ~(NetName(c) \/ NetPair(c) \/ NetWire(c)) /\ ~(Ensure(c) \/ StopIfIdle(c))
    BY <1>4, OthersMove DEF Operate, Moves, Elsewhere, Steps
  <1> QED  BY <1>1, <1>2, <1>3, <1>4

------------------------------------------------------------------------------
(* Every step keeps the types.                                             *)

LEMMA RequestType ==
    ASSUME TypeOK, NEW c \in Callers, NEW s \in Services, Request(c, s) PROVE TypeOK'
  <1>1. PICK op \in Ops, pc \in {"rmdir", "kill", "policy"}, held \in TreeOrNone :
            Call(c, op, pc, s, held)
    BY DEF Request, Start, Stop, Destroy, Tick, TypeOK, Ops, TreeOrNone
  <1> DEFINE x == [IdleCaller EXCEPT !.op = op, !.pc = pc, !.on = s, !.held = held]
  <1>2. x \in CallerType
    BY IdleType DEF CallerType, Ops
  <1>3. cl' \in [Callers -> CallerType]
    BY <1>1, <1>2, CallerSet DEF Call
  <1>4. faults' \in Nat /\ overlap' \in {"never", "past", "now"}
    BY <1>1, FaultType DEF Call, TypeOK
  <1> QED  BY <1>1, <1>3, <1>4 DEF Call, TypeOK, rows, resources, sidecar

(* A tree changes its record only.                                         *)
LEMMA TreeSet ==
    ASSUME TypeOK, NEW p \in Trees, NEW x \in TreeType, tree' = [tree EXCEPT ![p] = x]
    PROVE  tree' \in [Trees -> TreeType]
  BY DEF TypeOK

LEMMA EndedType ==
    ASSUME NEW x \in TreeType
    PROVE  [x EXCEPT !.init = "gone", !.work = "gone", !.stray = "gone",
                     !.chld = FALSE, !.wired = FALSE] \in TreeType
  BY DEF TreeType, WorkStates

LEMMA EndInitType ==
    ASSUME TypeOK, NEW p \in Trees, EndInit(p) PROVE tree' \in [Trees -> TreeType]
  <1>1. tree[p] \in TreeType
    BY DEF TypeOK
  <1> QED  BY <1>1, EndedType, TreeSet DEF EndInit

(* Without their links, or their parent, trees are trees.                  *)
LEMMA CutType ==
    ASSUME NEW x \in TreeType
    PROVE  [x EXCEPT !.wired = FALSE] \in TreeType /\ [x EXCEPT !.parent = "gone"] \in TreeType
  BY DEF TreeType

LEMMA SpawnedType ==
    ASSUME NEW s \in Services, NEW r \in BOOLEAN, NEW w \in BOOLEAN, NEW i \in {"gone", "mounts"}
    PROVE  [NoProcess EXCEPT !.svc = s, !.resident = r, !.parent = "up", !.wired = w,
                             !.init = i] \in TreeType
  BY DEF NoProcess, TreeType, WorkStates

LEMMA TreeStepType ==
    ASSUME TypeOK, NEW p \in Trees, InitSteps(p) \/ Workload(p) PROVE TypeOK'
  <1>1. tree \in [Trees -> TreeType] /\ tree[p] \in TreeType
    BY DEF TypeOK
  <1>2. tree' \in [Trees -> TreeType]
    <2>1. CASE InitMounts(p)
      BY <1>1, <2>1 DEF InitMounts, TreeType
    <2>2. CASE InitMountFails(p)
      BY <2>2, EndInitType DEF InitMountFails
    <2>7. CASE InitJoins(p)
      <3>1. [tree[p] EXCEPT !.init = "spawns"] \in TreeType
        BY <1>1 DEF TreeType
      <3> QED  BY <2>7, <3>1, EndInitType, TreeSet DEF InitJoins
    <2>3. CASE InitSpawns(p)
      BY <1>1, <2>3 DEF InitSpawns, TreeType, WorkStates
    <2>4. CASE InitReaps(p)
      <3> DEFINE s == IF tree[p].stray = "exited" THEN "gone" ELSE tree[p].stray
      <3>1. [tree[p] EXCEPT !.chld = FALSE, !.stray = s] \in TreeType
        <4>1. s \in WorkStates
          BY <1>1 DEF TreeType, WorkStates
        <4> HIDE DEF s
        <4> QED  BY <1>1, <4>1 DEF TreeType
      <3>2. CASE tree[p].work = "exited"
        BY <2>4, <3>2, EndInitType DEF InitReaps
      <3>3. CASE tree[p].work # "exited"
        BY <2>4, <3>1, <3>3, TreeSet DEF InitReaps
      <3> QED  BY <3>2, <3>3
    <2>5. CASE ParentReturns(p)
      BY <1>1, <2>5 DEF ParentReturns, TreeType
    <2>6. CASE Workload(p)
      <3>1. /\ [tree[p] EXCEPT !.work = "exited", !.chld = TRUE] \in TreeType
            /\ [tree[p] EXCEPT !.stray = "exited", !.chld = TRUE] \in TreeType
            /\ [tree[p] EXCEPT !.stray = "up"] \in TreeType
        BY <1>1 DEF TreeType, WorkStates
      <3>2. CASE WorkExits(p)
        BY <3>1, <3>2, TreeSet DEF WorkExits
      <3>3. CASE WorkForks(p)
        BY <1>1, <3>1, <3>3, TreeSet DEF WorkForks
      <3>4. CASE StrayExits(p)
        BY <3>1, <3>4, TreeSet DEF StrayExits
      <3> QED  BY <2>6, <3>2, <3>3, <3>4 DEF Workload
    <2> QED  BY <2>1, <2>2, <2>3, <2>4, <2>5, <2>6, <2>7 DEF InitSteps
  <1>3. faults' \in Nat
    BY FaultType DEF TypeOK, InitSteps, Workload, InitMounts, InitMountFails, InitJoins,
           InitSpawns, InitReaps, ParentReturns, WorkExits, WorkForks, StrayExits
  <1>4. UNCHANGED <<rows, resources, sidecar, cl, overlap>>
    BY DEF InitSteps, Workload, InitMounts, InitMountFails, InitJoins,
           InitSpawns, InitReaps, ParentReturns, WorkExits, WorkForks, StrayExits
  <1> QED  BY <1>2, <1>3, <1>4 DEF TypeOK, rows, resources, sidecar

LEMMA SidecarType == ASSUME TypeOK, Sidecar PROVE TypeOK'
  <1>1. PICK v \in Servers : Bind(v) \/ ServeFails(v)
    BY DEF Sidecar
  <1>2. UNCHANGED <<svc, resources, tree, overlap, box, pidFile, cl>>
    BY <1>1 DEF Sidecar, Bind, ServeFails
  <1>3. /\ server' \in [Servers -> [state : {"free", "starting", "serving", "exited", "failed"},
                                    resident : BOOLEAN]]
        /\ faults' \in Nat
    BY <1>1, FaultType DEF TypeOK, Bind, ServeFails
  <1> QED  BY <1>2, <1>3 DEF TypeOK, resources

LEMMA EnsureType ==
    ASSUME TypeOK, NEW c \in Callers, Ensure(c) \/ StopIfIdle(c),
           UNCHANGED <<svc, resources, tree, overlap>>
    PROVE  TypeOK'
  <1>1. cl' \in [Callers -> CallerType]
    BY SidecarMoves DEF Moves
  <1>2. cl[c].srv \in ServerOrNone
    BY CallerFields DEF TypeOK
  <1>3. pidFile' \in ServerOrNone \cup {Torn}
    BY <1>2 DEF TypeOK, ServerOrNone, Ensure, StopIfIdle, EnsureTorn, EnsureFound,
           EnsureMissing, EnsureSpawn, EnsureSpawnFails, EnsureOpen, EnsureWrite,
           EnsureReady, EnsureTimeout, IdleLook, IdleKill, IdleForget
  <1>4. server' \in [Servers -> [state : {"free", "starting", "serving", "exited", "failed"},
                                 resident : BOOLEAN]]
    <2>1. CASE EnsureSpawn(c)
      BY <2>1 DEF EnsureSpawn, TypeOK
    <2>2. CASE IdleKill(c)
      BY <2>2 DEF IdleKill, TypeOK
    <2>3. CASE UNCHANGED server
      BY <2>3 DEF TypeOK
    <2> QED  BY <2>1, <2>2, <2>3 DEF Ensure, StopIfIdle, EnsureTorn, EnsureFound,
           EnsureMissing, EnsureSpawnFails, EnsureOpen, EnsureWrite,
           EnsureReady, EnsureTimeout, IdleLook, IdleForget
  <1>5. box' = box /\ faults' \in Nat
    BY FaultType DEF TypeOK, Ensure, StopIfIdle, EnsureTorn, EnsureFound,
           EnsureMissing, EnsureSpawn, EnsureSpawnFails, EnsureOpen, EnsureWrite,
           EnsureReady, EnsureTimeout, IdleLook, IdleKill, IdleForget
  <1> QED  BY <1>1, <1>3, <1>4, <1>5 DEF TypeOK, resources

LEMMA NetType ==
    ASSUME TypeOK, AtWork, NEW c \in Callers,
           CleanNetwork(c) \/ NetName(c) \/ NetPair(c) \/ NetWire(c)
    PROVE  TypeOK'
  <1>1. cl' \in [Callers -> CallerType]
    BY OperateMoves DEF Moves, Operate
  <1>2. net' \in [Services -> Stages]
    BY DEF TypeOK, Stages, CleanNetwork, NetName, NetPair, NetWire, NetBuild
  <1>3. tree' \in [Trees -> TreeType]
    <2>1. ASSUME NEW s, Unwire(s) PROVE tree' \in [Trees -> TreeType]
      <3>1. \A p \in Trees : tree[p] \in TreeType /\ [tree[p] EXCEPT !.wired = FALSE] \in TreeType
        BY CutType DEF TypeOK
      <3> QED  BY <2>1, <3>1 DEF Unwire
    <2>2. CASE UNCHANGED tree
      BY <2>2 DEF TypeOK
    <2> QED  BY <2>1, <2>2 DEF CleanNetwork, NetName, NetPair, NetWire, NetBuild
  <1>4. faults' \in Nat /\ UNCHANGED <<rows, cgroup, root, sidecar, overlap>>
    BY FaultType DEF TypeOK, CleanNetwork, NetName, NetPair, NetWire, NetBuild
  <1> QED  BY <1>1, <1>2, <1>3, <1>4 DEF TypeOK, rows, sidecar

LEMMA OperateType ==
    ASSUME TypeOK, AtWork, NEW c \in Callers, Operate(c) \/ Crash(c) PROVE TypeOK'
  <1>1. cl[c].pc # "idle" /\ cl' \in [Callers -> CallerType]
    BY OperateMoves DEF Moves
  <1>2. cl[c].on \in Services /\ cl[c].child \in TreeOrNone
    BY <1>1, CallerFields DEF AtWork, TypeOK
  <1>3. CASE Kill(c)
    <2>1. tree' \in [Trees -> TreeType]
      <3>1. \A p \in Trees : [tree[p] EXCEPT !.parent = "gone"] \in TreeType
        BY CutType DEF TypeOK
      <3>2. ASSUME NEW p, KillParent(p) PROVE tree' \in [Trees -> TreeType]
        <4>1. CASE p \in Trees /\ ~Unspawned(p)
          BY <3>1, <3>2, <4>1, TreeSet DEF KillParent
        <4>2. CASE ~(p \in Trees /\ ~Unspawned(p))
          BY <3>2, <4>2 DEF KillParent, TypeOK
        <4> QED  BY <4>1, <4>2
      <3> QED  BY <1>3, <3>2 DEF Kill
    <2> QED  BY <1>1, <1>3, <2>1 DEF Kill, TypeOK, TreeOrNone, resources, sidecar
  <1>4. CASE CleanCgroup(c) \/ PrepareCgroup(c) \/ PrepareRoot(c) \/ Leave(c)
    <2>1. cgroup' \subseteq Services /\ root' \subseteq Services
      BY <1>2, <1>4 DEF CleanCgroup, PrepareCgroup, PrepareRoot, Leave, TypeOK
    <2>2. faults' \in Nat /\ UNCHANGED <<rows, net, sidecar, tree, overlap>>
      BY <1>4, FaultType DEF CleanCgroup, PrepareCgroup, PrepareRoot, Leave, TypeOK
    <2> QED  BY <1>1, <2>1, <2>2 DEF TypeOK, rows, sidecar
  <1>5. CASE CleanNetwork(c) \/ NetName(c) \/ NetPair(c) \/ NetWire(c)
    BY <1>5, NetType
  <1>6. CASE Spawn(c)
    <2>1. PICK p \in Trees : tree' = [tree EXCEPT ![p] = [NoProcess EXCEPT
              !.svc = cl[c].on, !.resident = (c \in Resident), !.parent = "up",
              !.wired = (net[cl[c].on] = "ready"),
              !.init = IF net[cl[c].on] = "none" THEN "gone" ELSE "mounts"]]
      BY <1>6 DEF Spawn
    <2>2. tree' \in [Trees -> TreeType]
      <3> DEFINE i == IF net[cl[c].on] = "none" THEN "gone" ELSE "mounts"
      <3>1. i \in {"gone", "mounts"} /\ (c \in Resident) \in BOOLEAN
            /\ (net[cl[c].on] = "ready") \in BOOLEAN
        OBVIOUS
      <3> HIDE DEF i
      <3>2. [NoProcess EXCEPT !.svc = cl[c].on, !.resident = (c \in Resident), !.parent = "up",
                 !.wired = (net[cl[c].on] = "ready"), !.init = i] \in TreeType
        BY <1>2, <3>1, SpawnedType
      <3> QED  BY <2>1, <3>2, TreeSet DEF i
    <2> QED  BY <1>1, <1>6, <2>2 DEF Spawn, TypeOK, rows, resources, sidecar
  <1>7. CASE SpawnFails(c) \/ Policy(c) \/ Crash(c)
    BY <1>1, <1>7, FaultType DEF SpawnFails, Policy, Crash, TypeOK, rows, resources, sidecar
  <1>8. CASE Rows(c) \/ BoxRow(c) \/ SettleBox(c) \/ SettleRow(c)
    <2>1. /\ svc' \in [Services -> TreeOrNone]
          /\ box' \in [Services -> [status : {"absent", "up", "stopped"}, pid : TreeOrNone]]
      BY <1>2, <1>8 DEF Rows, BoxRow, SettleBox, SettleRow, TypeOK, AbsentBox, TreeOrNone
    <2> QED  BY <1>1, <1>8, <2>1 DEF Rows, BoxRow, SettleBox, SettleRow, TypeOK, resources, sidecar
  <1>9. CASE (Ensure(c) \/ StopIfIdle(c)) /\ UNCHANGED <<svc, resources, tree, overlap>>
    BY <1>9, EnsureType
  <1> QED  BY <1>3, <1>4, <1>5, <1>6, <1>7, <1>8, <1>9 DEF Operate

LEMMA TypeStep == TypeOK /\ AtWork /\ [Next]_vars => TypeOK'
  <1> SUFFICES ASSUME TypeOK, AtWork, [Next]_vars PROVE TypeOK'
    OBVIOUS
  <1>1. CASE UNCHANGED vars
    BY <1>1 DEF vars, TypeOK
  <1> QED  BY <1>1, RequestType, OperateType, SidecarType, TreeStepType DEF Next

------------------------------------------------------------------------------
(* Who is at work, and where.                                              *)

(* A request comes from an idle caller and starts outside the building.    *)
LEMMA RequestStarts ==
    ASSUME TypeOK, NEW c \in Callers, NEW s \in Services, Request(c, s)
    PROVE  /\ cl[c].pc = "idle"
           /\ cl' = [cl EXCEPT ![c] = cl'[c]]
           /\ cl'[c].pc \in {"rmdir", "kill", "policy"} /\ cl'[c].on = s
           /\ Busy # {} => overlap' = "now"
           /\ overlap' = "never" => overlap = "never"
           /\ UNCHANGED <<rows, resources, sidecar, tree>>
  <1>1. PICK op \in Ops, pc \in {"rmdir", "kill", "policy"}, held \in TreeOrNone :
            Call(c, op, pc, s, held)
    BY DEF Request, Start, Stop, Destroy, Tick, TypeOK, Ops, TreeOrNone
  <1> DEFINE x == [IdleCaller EXCEPT !.op = op, !.pc = pc, !.on = s, !.held = held]
  <1>2. x.pc = pc /\ x.on = s
    BY DEF IdleCaller
  <1>3. cl' = [cl EXCEPT ![c] = x] /\ cl'[c] = x
    BY <1>1 DEF Call, TypeOK
  <1> HIDE DEF x
  <1> QED  BY <1>1, <1>2, <1>3 DEF Call

(* Processes and the sidecar leave callers and the network as they are.    *)
LEMMA Bystanders ==
    ASSUME \/ UNCHANGED vars \/ Sidecar \/ \E p \in Trees : InitSteps(p) \/ Workload(p)
    PROVE  UNCHANGED <<cl, net, cgroup, overlap>>
  BY DEF vars, Sidecar, Bind, ServeFails, InitSteps, Workload, InitMounts, InitMountFails,
         InitJoins, InitSpawns, InitReaps, ParentReturns, WorkExits, WorkForks, StrayExits,
         resources

LEMMA OperateKeepsOverlap ==
    ASSUME NEW c \in Callers, Operate(c) \/ Crash(c) PROVE overlap' = overlap
  BY DEF Operate, Crash, Kill, CleanCgroup, CleanNetwork, PrepareCgroup, PrepareRoot, NetName,
         NetPair, NetWire, NetBuild, Spawn, SpawnFails, Rows, BoxRow, Policy, SettleBox,
         SettleRow, Leave

LEMMA AtWorkStep == TypeOK /\ AtWork /\ [Next]_vars => AtWork'
  <1> SUFFICES ASSUME TypeOK, AtWork, [Next]_vars PROVE AtWork'
    OBVIOUS
  <1> USE DEF AtWork
  <1>1. ASSUME NEW c \in Callers, NEW s \in Services, Request(c, s) PROVE AtWork'
    BY <1>1, RequestStarts DEF TypeOK
  <1>2. ASSUME NEW c \in Callers, Operate(c) \/ Crash(c) PROVE AtWork'
    BY <1>2, OperateMoves DEF Moves
  <1>3. CASE UNCHANGED vars \/ Sidecar \/ \E p \in Trees : InitSteps(p) \/ Workload(p)
    BY <1>3, Bystanders
  <1> QED  BY <1>1, <1>2, <1>3 DEF Next

LEMMA AloneStep == TypeOK /\ Alone /\ [Next]_vars => Alone'
  <1> SUFFICES ASSUME TypeOK, Alone, [Next]_vars PROVE Alone'
    OBVIOUS
  <1>1. ASSUME NEW c \in Callers, NEW s \in Services, Request(c, s) PROVE Alone'
    BY <1>1, RequestStarts DEF Alone, Busy, TypeOK
  <1>2. ASSUME NEW c \in Callers, Operate(c) \/ Crash(c) PROVE Alone'
    BY <1>2, OperateMoves, OperateKeepsOverlap DEF Moves, Alone
  <1>3. CASE UNCHANGED vars \/ Sidecar \/ \E p \in Trees : InitSteps(p) \/ Workload(p)
    BY <1>3, Bystanders DEF Alone
  <1> QED  BY <1>1, <1>2, <1>3 DEF Next

LEMMA SetupStep ==
    TypeOK /\ AtWork /\ Alone /\ SetupUndisturbed /\ [Next]_vars => SetupUndisturbed'
  <1> SUFFICES ASSUME TypeOK, AtWork, Alone, SetupUndisturbed, [Next]_vars,
                      overlap' = "never",
                      NEW d \in Callers, cl'[d].pc \in Building
               PROVE  net'[cl'[d].on] = Before(cl'[d].pc)
    BY DEF SetupUndisturbed, Building
  <1>1. ASSUME NEW c \in Callers, NEW s \in Services, Request(c, s)
        PROVE  net'[cl'[d].on] = Before(cl'[d].pc)
    <2>1. Busy = {}
      BY <1>1, RequestStarts
    <2>2. cl'[d].pc \in {"idle", "rmdir", "kill", "policy"}
      BY <1>1, <2>1, RequestStarts DEF Busy, TypeOK
    <2> QED  BY <2>2 DEF Building
  <1>2. ASSUME NEW c \in Callers, Operate(c) \/ Crash(c)
        PROVE  net'[cl'[d].on] = Before(cl'[d].pc)
    <2>1. overlap = "never" /\ cl[c].pc # "idle" /\ Moves(c, Steps)
      BY <1>2, OperateMoves, OperateKeepsOverlap
    <2>2. d = c
      BY <2>1 DEF Moves, Alone, Building
    <2>3. NetName(c) \/ NetPair(c) \/ NetWire(c)
      <3>1. ~Moves(c, Elsewhere)
        BY <2>2 DEF Moves, Elsewhere, Building
      <3>2. ~(Ensure(c) \/ StopIfIdle(c)) /\ ~Spawn(c)
        BY <3>1, SidecarMoves, SpawnMoves
      <3> QED  BY <1>2, <3>1, <3>2, OthersMove DEF Operate
    <2>4. Moves(c, Building) /\ cl'[c].on = cl[c].on /\ cl[c].on \in Services
      BY <2>1, <2>2, <2>3, BuildersMove DEF Moves, Building, AtWork
    <2>5. cl'[c].pc # "idle"
      BY <2>2 DEF Building
    <2>6. ~Return(c)
      BY <2>5 DEF Return, IdleCaller, TypeOK
    <2>7. ASSUME NEW pc \in Building, Goto(c, pc) PROVE cl'[c].pc = pc
      <3>1. cl[c] \in CallerType
        BY DEF TypeOK
      <3> QED  BY <2>7, <3>1 DEF Goto, TypeOK, CallerType
    <2>8. CASE NetName(c)
      BY <2>2, <2>4, <2>6, <2>7, <2>8 DEF NetName, Before, Building, TypeOK
    <2>9. CASE NetPair(c)
      BY <2>2, <2>4, <2>6, <2>7, <2>9 DEF NetPair, NetBuild, Before, Building, TypeOK
    <2>10. CASE NetWire(c)
      BY <2>2, <2>4, <2>6, <2>7, <2>10 DEF NetWire, NetBuild, Before, Building, TypeOK
    <2> QED  BY <2>3, <2>8, <2>9, <2>10
  <1>3. CASE UNCHANGED vars \/ Sidecar \/ \E p \in Trees : InitSteps(p) \/ Workload(p)
    BY <1>3, Bystanders DEF SetupUndisturbed, Building
  <1> QED  BY <1>1, <1>2, <1>3 DEF Next

------------------------------------------------------------------------------
(* Process trees and their cgroups.                                        *)

LEMMA TreeStepJoined ==
    ASSUME TypeOK, Joined, NEW p \in Trees, InitSteps(p) \/ Workload(p) PROVE Joined'
  <1>1. tree \in [Trees -> TreeType] /\ tree[p] \in TreeType
    BY DEF TypeOK
  <1>2. cgroup' = cgroup
    BY Bystanders
  <1> USE DEF Joined
  <1>3. ASSUME EndInit(p) PROVE Joined'
    BY <1>1, <1>2, <1>3 DEF EndInit, TreeType
  <1>4. CASE InitMounts(p) \/ InitMountFails(p)
    BY <1>1, <1>2, <1>3, <1>4 DEF InitMounts, InitMountFails, TreeType
  <1>5. CASE InitJoins(p)
    BY <1>1, <1>2, <1>3, <1>5 DEF InitJoins, TreeType
  <1>6. CASE InitSpawns(p)
    BY <1>1, <1>2, <1>6 DEF InitSpawns, TreeType
  <1>7. CASE InitReaps(p)
    <2>1. CASE tree[p].work = "exited"
      BY <1>3, <1>7, <2>1 DEF InitReaps
    <2>2. CASE tree[p].work # "exited"
      <3> DEFINE s == IF tree[p].stray = "exited" THEN "gone" ELSE tree[p].stray
      <3>1. tree' = [tree EXCEPT ![p] = [tree[p] EXCEPT !.chld = FALSE, !.stray = s]]
        BY <1>7, <2>2 DEF InitReaps
      <3> HIDE DEF s
      <3>2. /\ tree'[p].svc = tree[p].svc /\ tree'[p].init = tree[p].init
            /\ tree'[p].work = tree[p].work
            /\ \A q \in Trees : q # p => tree'[q] = tree[q]
        BY <1>1, <3>1 DEF TreeType
      <3> QED  BY <1>2, <2>2, <3>2
    <2> QED  BY <2>1, <2>2
  <1>8. CASE ParentReturns(p)
    BY <1>1, <1>2, <1>8 DEF ParentReturns, TreeType
  <1>9. CASE Workload(p)
    <2>1. /\ tree'[p].svc = tree[p].svc /\ tree'[p].init = tree[p].init
          /\ \A q \in Trees : q # p => tree'[q] = tree[q]
      <3>1. CASE WorkExits(p)
        BY <1>1, <3>1 DEF WorkExits, TreeType
      <3>2. CASE WorkForks(p)
        BY <1>1, <3>2 DEF WorkForks, TreeType
      <3>3. CASE StrayExits(p)
        BY <1>1, <3>3 DEF StrayExits, TreeType
      <3> QED  BY <1>9, <3>1, <3>2, <3>3 DEF Workload
    <2>2. CASE WorkExits(p)
      <3>1. tree'[p].chld /\ tree[p].init = "waits"
        BY <1>1, <2>2 DEF WorkExits, TreeType
      <3> QED  BY <1>2, <2>1, <3>1
    <2>3. CASE WorkForks(p)
      <3>1. tree'[p].work = tree[p].work /\ tree'[p].chld = tree[p].chld
        BY <1>1, <2>3 DEF WorkForks, TreeType
      <3> QED  BY <1>2, <2>1, <3>1
    <2>4. CASE StrayExits(p)
      <3>1. tree'[p].work = tree[p].work /\ tree'[p].chld
        BY <1>1, <2>4 DEF StrayExits, TreeType
      <3> QED  BY <1>2, <2>1, <3>1
    <2> QED  BY <1>9, <2>2, <2>3, <2>4 DEF Workload
  <1> QED  BY <1>4, <1>5, <1>6, <1>7, <1>8, <1>9 DEF InitSteps

(* Of what Joined speaks of, callers change only the cgroups and whether a *)
(* tree is there; stops and clean-ups touch other fields of it.            *)
LEMMA OperateJoined ==
    ASSUME TypeOK, Joined, NEW c \in Callers, Operate(c) \/ Crash(c) PROVE Joined'
  <1>1. tree \in [Trees -> TreeType] /\ \A p \in Trees : tree[p] \in TreeType
    BY DEF TypeOK
  <1> DEFINE Same(p) == /\ tree'[p].svc = tree[p].svc /\ tree'[p].init = tree[p].init
                        /\ tree'[p].work = tree[p].work /\ tree'[p].chld = tree[p].chld
  <1>2. ASSUME cgroup \subseteq cgroup', \A p \in Trees : Same(p) PROVE Joined'
    BY <1>2 DEF Joined
  <1>3. ASSUME NEW s, Unwire(s) PROVE \A p \in Trees : Same(p)
    BY <1>1, <1>3 DEF Unwire, TreeType
  <1>4. ASSUME NEW p, KillParent(p) PROVE \A q \in Trees : Same(q)
    BY <1>1, <1>4 DEF KillParent, TreeType
  <1>5. ASSUME UNCHANGED tree PROVE \A p \in Trees : Same(p)
    BY <1>5
  <1>6. CASE Kill(c)
    BY <1>2, <1>4, <1>6 DEF Kill, resources
  <1>7. CASE CleanCgroup(c)
    BY <1>7 DEF CleanCgroup, Joined, Members
  <1>8. CASE CleanNetwork(c) \/ NetName(c)
    BY <1>2, <1>3, <1>8 DEF CleanNetwork, NetName
  <1>9. CASE Spawn(c)
    <2>1. PICK p \in Trees : tree' = [tree EXCEPT ![p] = [NoProcess EXCEPT
              !.svc = cl[c].on, !.resident = (c \in Resident), !.parent = "up",
              !.wired = (net[cl[c].on] = "ready"),
              !.init = IF net[cl[c].on] = "none" THEN "gone" ELSE "mounts"]]
      BY <1>9 DEF Spawn
    <2>2. tree'[p].init \in {"gone", "mounts"} /\ tree'[p].work = "gone"
      BY <1>1, <2>1 DEF NoProcess
    <2>3. \A q \in Trees : q # p => tree'[q] = tree[q]
      BY <1>1, <2>1
    <2>4. cgroup' = cgroup
      BY <1>9 DEF Spawn, resources
    <2> QED  BY <2>2, <2>3, <2>4 DEF Joined
  <1>10. CASE ~(\/ Kill(c) \/ CleanCgroup(c) \/ CleanNetwork(c) \/ NetName(c) \/ Spawn(c))
    <2>1. UNCHANGED tree /\ cgroup \subseteq cgroup'
      BY <1>10 DEF Operate, Crash, PrepareCgroup, PrepareRoot, NetPair, NetWire, NetBuild,
         SpawnFails, Rows, BoxRow, Policy, SettleBox, SettleRow, Leave, resources
    <2> QED  BY <1>2, <1>5, <2>1
  <1> QED  BY <1>6, <1>7, <1>8, <1>9, <1>10

LEMMA JoinedStep == TypeOK /\ Joined /\ [Next]_vars => Joined'
  <1> SUFFICES ASSUME TypeOK, Joined, [Next]_vars PROVE Joined'
    OBVIOUS
  <1>1. ASSUME NEW c \in Callers, NEW s \in Services, Request(c, s) PROVE Joined'
    BY <1>1, RequestStarts DEF Joined, resources
  <1>2. CASE UNCHANGED vars
    BY <1>2 DEF vars, Joined
  <1>3. CASE Sidecar
    BY <1>3 DEF Sidecar, Joined, resources
  <1> QED  BY <1>1, <1>2, <1>3, OperateJoined, TreeStepJoined DEF Next

------------------------------------------------------------------------------
LEMMA InitInv == Init => IInv
  <1> SUFFICES ASSUME Init PROVE IInv
    OBVIOUS
  <1>1. TypeOK
    <2>1. NoProcess \in TreeType
      BY DEF NoProcess, TreeType, WorkStates
    <2> QED  BY <2>1, IdleType DEF Init, TypeOK, TreeOrNone, ServerOrNone, AbsentBox, Stages
  <1>2. AtWork /\ Alone /\ SetupUndisturbed
    BY DEF Init, AtWork, Alone, SetupUndisturbed, IdleCaller
  <1>3. Joined
    BY DEF Init, Joined, NoProcess
  <1> QED  BY <1>1, <1>2, <1>3 DEF IInv

LEMMA StepInv == IInv /\ [Next]_vars => IInv'
  BY TypeStep, AtWorkStep, AloneStep, JoinedStep, SetupStep DEF IInv

LEMMA Invariance == Spec => []IInv
  BY InitInv, StepInv, PTL DEF Spec

(* The types hold in every reachable state.                                *)
THEOREM TypeCorrect == Spec => []TypeOK
  <1>1. IInv => TypeOK
    BY DEF IInv
  <1> QED  BY <1>1, Invariance, PTL

(* A workload runs only in a cgroup that exists, however stops, ticks and  *)
(* failures interleave with the mounts of its init.                        *)
THEOREM WorkloadsConfined == Spec => []Confined
  <1>1. IInv => Confined
    BY DEF IInv, Joined, Confined
  <1> QED  BY <1>1, Invariance, PTL

(* The exit of a workload is never lost among those of other processes.    *)
THEOREM ExitsPending == Spec => []ExitIsPending
  <1>1. IInv => ExitIsPending
    BY DEF IInv, Joined, ExitIsPending
  <1> QED  BY <1>1, Invariance, PTL

(* A start that none overlaps finds the network as its commands made it.   *)
THEOREM SetupsUndisturbed == Spec => []SetupUndisturbed
  <1>1. IInv => SetupUndisturbed
    BY DEF IInv
  <1> QED  BY <1>1, Invariance, PTL
=============================================================================
