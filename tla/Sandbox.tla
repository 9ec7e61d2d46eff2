------------------------------- MODULE Sandbox -------------------------------
(***************************************************************************)
(* What a start, a stop, a destroy and a tick of the reconcile loop do to  *)
(* the resources of an isolated service: its cgroup, its root directory,   *)
(* its network namespace with the veth pair (sandbox.rs, network.rs), the  *)
(* process tree that runs in them, and the DNS sidecar.  Lifecycle.tla has *)
(* the same operations with their status rows in full; here the tables are *)
(* reduced to the pids that the guards read, every name counts as deployed *)
(* (again, after a destroy), and the substrate is in full.                 *)
(*                                                                         *)
(* A tree is what `ip netns exec .. unshare --fork --pid .. sandbox-init`  *)
(* becomes: the parent, whose pid is recorded, waits for init, the first   *)
(* process of a pid namespace; init mounts, joins the cgroup, and spawns   *)
(* the workload.  unshare does not pass signals on and is not told to kill *)
(* its child: stop_pid ends the parent and leaves init alone.              *)
(***************************************************************************)
EXTENDS DnsSidecar

VARIABLES
    svc,      \* the pid in the services row of each service
    cgroup,   \* the services whose cgroup directory exists
    root,     \* the services whose root directory exists
    net,      \* how far the network of each service is set up
    tree,     \* the process trees
    overlap   \* history: whether callers have overlapped, and still do

resources == <<cgroup, root, net>>
sidecar   == <<server, pidFile>>
rows      == <<svc, box>>
vars      == <<box, server, pidFile, cl, faults, svc, cgroup, root, net, tree, overlap>>

AbsentBox == [status |-> "absent", pid |-> NoTree]
NoProcess == [svc |-> NoService, resident |-> FALSE, parent |-> "gone", init |-> "gone",
              work |-> "gone", stray |-> "gone", chld |-> FALSE, wired |-> FALSE]

------------------------------------------------------------------------------
(* Types *)

TreeOrNone   == Trees \cup {NoTree}
ServerOrNone == Servers \cup {NoServer}
Stages       == {"none", "named", "paired", "ready"}
WorkStates   == {"up", "exited", "gone"}
CallerType   == [op : {"none", "start", "undoDns", "undoPolicy", "stop", "destroy", "tick"},
                 pc : {"idle", "rmdir", "cut", "prepare", "root", "net", "pair", "wire", "spawn",
                       "dns", "dnsSpawn", "dnsOpen", "dnsWrite", "dnsReady", "rows", "box",
                       "kill", "settle", "row", "policy", "idleLook", "idleKill", "idleForget",
                       "leave"},
                 on : Services \cup {NoService}, held : TreeOrNone, child : TreeOrNone,
                 srv : ServerOrNone]
TreeType     == [svc : Services \cup {NoService}, resident : BOOLEAN,
                 parent : {"up", "gone"},
                 init : {"mounts", "joins", "spawns", "waits", "gone"},
                 work : WorkStates, stray : WorkStates, chld : BOOLEAN, wired : BOOLEAN]

(* TypeOK: tables, resources, trees, sidecars and locals stay in type.     *)
TypeOK ==
    /\ svc \in [Services -> TreeOrNone]
    /\ box \in [Services -> [status : {"absent", "up", "stopped"}, pid : TreeOrNone]]
    /\ cgroup \subseteq Services /\ root \subseteq Services
    /\ net \in [Services -> Stages]
    /\ tree \in [Trees -> TreeType]
    /\ server \in [Servers -> [state : {"free", "starting", "serving", "exited", "failed"},
                               resident : BOOLEAN]]
    /\ pidFile \in ServerOrNone \cup {Torn}
    /\ cl \in [Callers -> CallerType]
    /\ faults \in Nat /\ overlap \in {"never", "past", "now"}

Init ==
    /\ svc = [s \in Services |-> NoTree]
    /\ box = [s \in Services |-> AbsentBox]
    /\ cgroup = {} /\ root = {}
    /\ net = [s \in Services |-> "none"]
    /\ tree = [p \in Trees |-> NoProcess]
    /\ server = [v \in Servers |-> [state |-> "free", resident |-> FALSE]]
    /\ pidFile = NoServer
    /\ cl = [c \in Callers |-> IdleCaller]
    /\ faults = 0 /\ overlap = "never"

------------------------------------------------------------------------------
(* Process trees *)

Unspawned(p) == tree[p].svc = NoService
Over(p)      == tree[p].init = "gone"

(* kill(pid, 0) on the recorded pid, that of the parent; a zombie is there *)
(* until the process that spawned it waits or ends.                        *)
PidAlive(p) ==
    /\ p \in Trees /\ ~Unspawned(p)
    /\ \/ tree[p].parent = "up"
       \/ tree[p].resident
       \/ \E c \in Callers : cl[c].child = p

(* The processes of a cgroup: a directory that has any cannot be removed.  *)
Members(s) == {p \in Trees : tree[p].svc = s /\ tree[p].init \in {"spawns", "waits"}}

(* stop_pid: SIGTERM, and SIGKILL to a parent that is left.                *)
KillParent(p) ==
    tree' = IF p \in Trees /\ ~Unspawned(p) THEN [tree EXCEPT ![p].parent = "gone"] ELSE tree

(* The end of init is the end of its pid namespace.                        *)
EndInit(p) ==
    tree' = [tree EXCEPT ![p] = [@ EXCEPT
        !.init = "gone", !.work = "gone", !.stray = "gone", !.chld = FALSE, !.wired = FALSE]]

(* run_sandbox_init: mounts of a root directory that must be there.        *)
InitMounts(p) ==
    /\ tree[p].init = "mounts" /\ tree[p].svc \in root
    /\ tree' = [tree EXCEPT ![p].init = "joins"]
    /\ UNCHANGED <<rows, resources, sidecar, cl, faults, overlap>>

InitMountFails(p) ==
    /\ tree[p].init = "mounts"
    /\ Fault("mount") \/ (tree[p].svc \notin root /\ UNCHANGED faults)
    /\ EndInit(p)
    /\ UNCHANGED <<rows, resources, sidecar, cl, overlap>>

(* Mutant of InitJoins: a cgroup that is gone is passed over.              *)
InitJoinsIfAny(p) ==
    /\ tree[p].init = "joins"
    /\ tree' = [tree EXCEPT ![p].init = "spawns"]
    /\ UNCHANGED <<rows, resources, sidecar, cl, faults, overlap>>

InitJoins(p) ==
    /\ tree[p].init = "joins"
    /\ IF tree[p].svc \in cgroup THEN tree' = [tree EXCEPT ![p].init = "spawns"]
                                 ELSE EndInit(p)
    /\ UNCHANGED <<rows, resources, sidecar, cl, faults, overlap>>

(* The signals are blocked before the workload exists, so that its SIGCHLD *)
(* stays pending until init waits for it.                                  *)
InitSpawns(p) ==
    /\ tree[p].init = "spawns"
    /\ tree' = [tree EXCEPT ![p] = [@ EXCEPT !.init = "waits", !.work = "up"]]
    /\ UNCHANGED <<rows, resources, sidecar, cl, faults, overlap>>

(* Mutant of InitReaps: one child is reaped for each signal.               *)
InitReapsOne(p) ==
    /\ tree[p].init = "waits" /\ tree[p].chld
    /\ \/ tree[p].work = "exited" /\ EndInit(p)
       \/ tree[p].stray = "exited"
          /\ tree' = [tree EXCEPT ![p] = [@ EXCEPT !.chld = FALSE, !.stray = "gone"]]
    /\ UNCHANGED <<rows, resources, sidecar, cl, faults, overlap>>

(* One SIGCHLD may stand for several children: all that exited are reaped, *)
(* and init ends with the workload, not with a stray that it inherited.    *)
InitReaps(p) ==
    /\ tree[p].init = "waits" /\ tree[p].chld
    /\ IF tree[p].work = "exited"
       THEN EndInit(p)
       ELSE LET stray == IF tree[p].stray = "exited" THEN "gone" ELSE tree[p].stray
            IN  tree' = [tree EXCEPT ![p] = [@ EXCEPT !.chld = FALSE, !.stray = stray]]
    /\ UNCHANGED <<rows, resources, sidecar, cl, faults, overlap>>

(* unshare returns when its child has ended.                               *)
ParentReturns(p) ==
    /\ tree[p].parent = "up" /\ Over(p)
    /\ tree' = [tree EXCEPT ![p].parent = "gone"]
    /\ UNCHANGED <<rows, resources, sidecar, cl, faults, overlap>>

(* The workload exits, by itself or at a SIGTERM that init was sent and    *)
(* forwards.                                                               *)
WorkExits(p) ==
    /\ tree[p].work = "up"
    /\ tree' = [tree EXCEPT ![p] = [@ EXCEPT !.work = "exited", !.chld = TRUE]]
    /\ UNCHANGED <<rows, resources, sidecar, cl, faults, overlap>>

(* A process that the workload left to itself becomes init's child.        *)
WorkForks(p) ==
    /\ tree[p].work = "up" /\ tree[p].stray = "gone"
    /\ Fault("fork")
    /\ tree' = [tree EXCEPT ![p].stray = "up"]
    /\ UNCHANGED <<rows, resources, sidecar, cl, overlap>>

StrayExits(p) ==
    /\ tree[p].stray = "up"
    /\ tree' = [tree EXCEPT ![p] = [@ EXCEPT !.stray = "exited", !.chld = TRUE]]
    /\ UNCHANGED <<rows, resources, sidecar, cl, faults, overlap>>

------------------------------------------------------------------------------
(* Callers *)

At(c, op, pc) == cl[c].op = op /\ cl[c].pc = pc
HasBox(s)     == box[s].status # "absent"
Busy          == {c \in Callers : cl[c].pc # "idle"}
Call(c, op, pc, s, held) ==
    /\ cl[c].pc = "idle"
    /\ cl' = [cl EXCEPT ![c] = [IdleCaller EXCEPT !.op = op, !.pc = pc, !.on = s, !.held = held]]
    /\ \/ Busy = {} /\ overlap' = (IF overlap = "now" THEN "past" ELSE overlap) /\ UNCHANGED faults
       \/ Busy # {} /\ overlap' = "now" /\ Fault("overlap")
    /\ UNCHANGED <<rows, resources, sidecar, tree>>

(* Mutant of Start: the pid of the row is not probed.                      *)
StartUnprobed(c, s) == Call(c, "start", "rmdir", s, NoTree)

(* Bound: no start is made when Trees or Servers are used up.              *)
Start(c, s) ==
    /\ ~PidAlive(svc[s])
    /\ (\E p \in Trees : Unspawned(p)) /\ (\E v \in Servers : server[v].state = "free")
    /\ Call(c, "start", "rmdir", s, NoTree)
Stop(c, s)    == Call(c, "stop", "kill", s, svc[s])
Destroy(c, s) == Call(c, "destroy", "kill", s, svc[s])

(* A tick cleans up after a recorded pid that is dead, in either table; it *)
(* is taken for one service at a time.                                     *)
Dead(p) == p # NoTree /\ ~PidAlive(p)
Tick(c, s) ==
    \/ Dead(svc[s]) /\ Call(c, "tick", "rmdir", s, svc[s])
    \/ ~Dead(svc[s]) /\ Dead(box[s].pid) /\ Call(c, "tick", "rmdir", s, NoTree)
    \/ ~Dead(svc[s]) /\ ~Dead(box[s].pid) /\ Call(c, "tick", "policy", s, NoTree)

Undoing(c) == cl[c].op \in {"undoDns", "undoPolicy"}

(* stop_pid, and what follows before the clean-up: a stop sets its row.    *)
Kill(c) ==
    /\ cl[c].pc = "kill"
    /\ KillParent(IF Undoing(c) THEN cl[c].child ELSE cl[c].held)
    /\ svc' = IF cl[c].op = "stop" THEN [svc EXCEPT ![cl[c].on] = NoTree] ELSE svc
    /\ Goto(c, "rmdir")
    /\ UNCHANGED <<box, resources, sidecar, faults, overlap>>

(* Mutant of CleanCgroup: a cgroup that is in use is left to itself.       *)
CleanCgroupIfFree(c) ==
    LET s == cl[c].on IN
    /\ cl[c].pc = "rmdir"
    /\ cgroup' = IF Members(s) = {} THEN cgroup \ {s} ELSE cgroup
    /\ Goto(c, "cut")
    /\ UNCHANGED <<rows, root, net, sidecar, tree, faults, overlap>>

(* A tick of the second pass acts on the row as it was at its beginning.   *)
Recalls(c) == cl[c].op = "tick" /\ cl[c].held = NoTree

AfterCleanup(c) == CASE cl[c].op = "start" -> Goto(c, "prepare")
                     [] cl[c].op = "undoDns" -> Return(c)
                     [] cl[c].op = "undoPolicy" -> Goto(c, "row")
                     [] OTHER -> Goto(c, "settle")

(* cleanup_sandbox, first half: the cgroup of the row.  It fails while the *)
(* cgroup has members, and then so does the caller, except in the undo of  *)
(* a start, which has the cgroup that the start made.                      *)
CleanCgroup(c) ==
    LET s == cl[c].on
        unread == Undoing(c) \/ Recalls(c)
        named == unread \/ box[s].status = "up"
    IN
    /\ cl[c].pc = "rmdir"
    /\ \/ ~unread /\ ~HasBox(s) /\ UNCHANGED cgroup
          /\ Goto(c, CASE cl[c].op = "start" -> "prepare"
                       [] cl[c].op = "stop" -> "policy"
                       [] OTHER -> "row")
       \/ named /\ Members(s) # {} /\ UNCHANGED cgroup
          /\ IF cl[c].op = "undoPolicy" THEN Goto(c, "row") ELSE Return(c)
       \/ named /\ Members(s) = {} /\ cgroup' = cgroup \ {s} /\ Goto(c, "cut")
       \/ ~named /\ HasBox(s) /\ UNCHANGED cgroup /\ Goto(c, "cut")
    /\ UNCHANGED <<rows, root, net, sidecar, tree, faults, overlap>>

(* A pair of links that is deleted is deleted at both ends.                *)
Unwire(s) == tree' = [p \in Trees |-> IF tree[p].svc = s THEN [tree[p] EXCEPT !.wired = FALSE]
                                                        ELSE tree[p]]

(* cleanup_sandbox, second half: the network, whose errors are ignored.    *)
CleanNetwork(c) ==
    LET s == cl[c].on IN
    /\ cl[c].pc = "cut"
    /\ net' = [net EXCEPT ![s] = "none"] /\ Unwire(s)
    /\ AfterCleanup(c)
    /\ UNCHANGED <<rows, cgroup, root, sidecar, faults, overlap>>

(* The cgroup with its limits: built on what is there, and left as far as  *)
(* it came by an error.                                                    *)
PrepareCgroup(c) ==
    LET s == cl[c].on IN
    /\ At(c, "start", "prepare")
    /\ \/ cgroup' = cgroup \cup {s} /\ Goto(c, "root") /\ UNCHANGED faults
       \/ Fault("build") /\ cgroup' \in {cgroup, cgroup \cup {s}} /\ Return(c)
    /\ UNCHANGED <<rows, root, net, sidecar, tree, overlap>>

(* The root directory, which is removed and built anew.                    *)
PrepareRoot(c) ==
    LET s == cl[c].on IN
    /\ At(c, "start", "root")
    /\ \/ root' = root \cup {s} /\ Goto(c, "net") /\ UNCHANGED faults
       \/ Fault("build") /\ root' \in {root \ {s}, root \cup {s}} /\ Return(c)
    /\ UNCHANGED <<rows, cgroup, net, sidecar, tree, overlap>>

(* Mutant of NetName: set-up without a clean-up of its own.                *)
NetNameUncleaned(c) ==
    LET s == cl[c].on IN
    /\ At(c, "start", "net")
    /\ IF net[s] = "none" THEN net' = [net EXCEPT ![s] = "named"] ELSE UNCHANGED net
    /\ Goto(c, "pair")
    /\ UNCHANGED <<rows, cgroup, root, sidecar, tree, faults, overlap>>

(* setup_sandbox_network cleans up and then adds the namespace, the pair   *)
(* of links, and the addresses.  A command fails when what it needs is not *)
(* there or what it makes is; an error leaves what was made so far.        *)
NetName(c) ==
    LET s == cl[c].on IN
    /\ At(c, "start", "net")
    /\ Unwire(s)
    /\ \/ net' = [net EXCEPT ![s] = "named"] /\ Goto(c, "pair") /\ UNCHANGED faults
       \/ Fault("build") /\ net' = [net EXCEPT ![s] = "none"] /\ Return(c)
    /\ UNCHANGED <<rows, cgroup, root, sidecar, overlap>>

NetBuild(c, pc, from, to, next) ==
    LET s == cl[c].on IN
    /\ At(c, "start", pc)
    /\ \/ /\ net[s] = from /\ net' = [net EXCEPT ![s] = to]
          /\ Goto(c, next) /\ UNCHANGED faults
       \/ net[s] # from /\ Return(c) /\ UNCHANGED <<net, faults>>
       \/ Fault("build") /\ Return(c) /\ UNCHANGED net
    /\ UNCHANGED <<rows, cgroup, root, sidecar, tree, overlap>>
NetPair(c) == NetBuild(c, "pair", "named", "paired", "wire")
NetWire(c) == NetBuild(c, "wire", "paired", "ready", "spawn")

(* `ip netns exec` of a namespace that is gone ends at once.               *)
Spawn(c) ==
    LET s == cl[c].on IN
    /\ At(c, "start", "spawn")
    /\ \E p \in Trees :
        /\ Unspawned(p)
        /\ tree' = [tree EXCEPT ![p] = [NoProcess EXCEPT
              !.svc = s, !.resident = (c \in Resident), !.parent = "up", !.wired = (net[s] = "ready"),
              !.init = IF net[s] = "none" THEN "gone" ELSE "mounts"]]
        /\ cl' = [cl EXCEPT ![c] = [@ EXCEPT !.pc = "dns", !.child = p]]
    /\ UNCHANGED <<rows, resources, sidecar, faults, overlap>>

(* Bound: a start that finds Trees used up fails as well.                  *)
SpawnFails(c) ==
    /\ At(c, "start", "spawn")
    /\ Fault("spawn") \/ (UNCHANGED faults /\ \A p \in Trees : ~Unspawned(p))
    /\ Return(c)
    /\ UNCHANGED <<rows, resources, sidecar, tree, overlap>>

(* Mutant of Rows: the row gets the pid of the child spawned last.         *)
RowsOfSidecar(c) ==
    /\ At(c, "start", "rows")
    /\ svc' = [svc EXCEPT ![cl[c].on] = IF cl[c].srv # NoServer THEN cl[c].srv ELSE cl[c].child]
    /\ Goto(c, "box")
    /\ UNCHANGED <<box, resources, sidecar, tree, faults, overlap>>

(* The row of the service and then that of the sandbox.                    *)
Rows(c) ==
    /\ At(c, "start", "rows")
    /\ svc' = [svc EXCEPT ![cl[c].on] = cl[c].child]
    /\ Goto(c, "box")
    /\ UNCHANGED <<box, resources, sidecar, tree, faults, overlap>>

BoxRow(c) ==
    /\ At(c, "start", "box")
    /\ box' = [box EXCEPT ![cl[c].on] = [status |-> "up", pid |-> cl[c].child]]
    /\ Goto(c, "policy")
    /\ UNCHANGED <<svc, resources, sidecar, tree, faults, overlap>>

(* The policy refresh.  Its error makes a start undo what it did, and ends *)
(* the others before their idle check.                                     *)
Policy(c) ==
    /\ cl[c].pc = "policy"
    /\ \/ UNCHANGED faults /\ IF cl[c].op = "start" THEN Return(c) ELSE Goto(c, "idleLook")
       \/ Fault("policy") /\ IF cl[c].op = "start" THEN Undo(c, "undoPolicy") ELSE Return(c)
    /\ UNCHANGED <<rows, resources, sidecar, tree, overlap>>

(* The sandbox row after the clean-up: a destroy deletes it, the others    *)
(* upsert it as stopped.                                                   *)
SettleBox(c) ==
    LET s == cl[c].on IN
    /\ cl[c].pc = "settle"
    /\ box' = [box EXCEPT ![s] = IF cl[c].op = "destroy" THEN AbsentBox
                                 ELSE [status |-> "stopped", pid |-> NoTree]]
    /\ CASE cl[c].op = "undoPolicy" -> Return(c)
         [] cl[c].op = "stop" -> Goto(c, "policy")
         [] OTHER -> Goto(c, "row")
    /\ UNCHANGED <<svc, resources, sidecar, tree, faults, overlap>>

(* The service's row: a destroy deletes it, an undo and a tick that found  *)
(* its pid dead set it to failed.                                          *)
SettleRow(c) ==
    /\ cl[c].pc = "row"
    /\ svc' = IF Recalls(c) THEN svc ELSE [svc EXCEPT ![cl[c].on] = NoTree]
    /\ Goto(c, IF cl[c].op = "undoPolicy" THEN "settle" ELSE "policy")
    /\ UNCHANGED <<box, resources, sidecar, tree, faults, overlap>>

(* A destroy removes the runtime directory with the root last.             *)
Leave(c) ==
    /\ cl[c].pc = "leave"
    /\ root' = IF cl[c].op = "destroy" THEN root \ {cl[c].on} ELSE root
    /\ Return(c)
    /\ UNCHANGED <<rows, cgroup, net, sidecar, tree, faults, overlap>>

(* A command line is killed in the middle of its operation.                *)
Crash(c) ==
    /\ c \notin Resident /\ cl[c].pc # "idle"
    /\ Fault("crash")
    /\ Return(c)
    /\ UNCHANGED <<rows, resources, sidecar, tree, overlap>>

------------------------------------------------------------------------------
Request(c, s) == Start(c, s) \/ Stop(c, s) \/ Destroy(c, s) \/ Tick(c, s)

Operate(c) ==
    \/ Kill(c) \/ CleanCgroup(c) \/ CleanNetwork(c)
    \/ PrepareCgroup(c) \/ PrepareRoot(c) \/ NetName(c) \/ NetPair(c) \/ NetWire(c)
    \/ Spawn(c) \/ SpawnFails(c) \/ Rows(c) \/ BoxRow(c) \/ Policy(c)
    \/ SettleBox(c) \/ SettleRow(c) \/ Leave(c)
    \/ (Ensure(c) \/ StopIfIdle(c)) /\ UNCHANGED <<svc, resources, tree, overlap>>

Sidecar == (\E v \in Servers : Bind(v) \/ ServeFails(v))
           /\ UNCHANGED <<svc, resources, tree, overlap>>

InitSteps(p) == InitMounts(p) \/ InitMountFails(p) \/ InitJoins(p) \/ InitSpawns(p)
                \/ InitReaps(p) \/ ParentReturns(p)
Workload(p)  == WorkExits(p) \/ WorkForks(p) \/ StrayExits(p)

Next ==
    \/ \E c \in Callers, s \in Services : Request(c, s)
    \/ \E c \in Callers : Operate(c) \/ Crash(c)
    \/ Sidecar
    \/ \E p \in Trees : InitSteps(p) \/ Workload(p)

Spec == Init /\ [][Next]_vars

------------------------------------------------------------------------------
(* Properties that hold however the callers interleave *)

(* Confined: a workload runs in a cgroup that exists.  Any caller may      *)
(* remove the cgroup until init has joined it, and one that waited too     *)
(* long must end init instead of letting the workload run without limits.  *)
Confined == \A p \in Trees : tree[p].work = "up" => tree[p].svc \in cgroup

(* ExitIsPending: init never waits with the workload's exit unreported.    *)
(* One SIGCHLD may stand for a stray's exit as well; an init that took it  *)
(* for the stray's alone would wait for ever, and the service with it.     *)
ExitIsPending ==
    \A p \in Trees : tree[p].work = "exited" => tree[p].init = "waits" /\ tree[p].chld

------------------------------------------------------------------------------
(* Properties of operations that did not overlap *)

(* KeepsItsNetwork: the tree that a row names keeps the network that was   *)
(* set up for it while its parent lives: no start, tick or retry of a      *)
(* failed operation cleans up under a running service.                     *)
KeepsItsNetwork ==
    overlap = "never" => \A s \in Services, p \in Trees :
        box[s] = [status |-> "up", pid |-> p] /\ tree[p].parent = "up"
            => tree[p].svc = s /\ (~Over(p) => tree[p].wired)

(* SetupUndisturbed: whatever an earlier start left when it failed or was  *)
(* killed, the next one finds the network as its own commands made it.     *)
Before(pc) == CASE pc = "pair" -> "named" [] pc = "wire" -> "paired" [] OTHER -> "ready"
SetupUndisturbed ==
    overlap = "never" => \A c \in Callers :
        cl[c].pc \in {"pair", "wire", "spawn"} => net[cl[c].on] = Before(cl[c].pc)

(* NothingLeft: when nothing failed, a service without a sandbox in use    *)
(* has no cgroup and no network, whichever of the operations ended it, and *)
(* also when one of them had to give up on a cgroup in use.                *)
NothingLeft ==
    overlap = "never" /\ faults = 0 /\ Busy = {} =>
        \A s \in Services : box[s].status # "up" => s \notin cgroup /\ net[s] = "none"

(* The pid file names an ended child of the daemon, which looks alive.     *)
Haunted == \E v \in Servers :
    pidFile = v /\ server[v].resident /\ server[v].state \in {"exited", "failed"}

(* ServedInUse: while a sandbox is in use and no packet ended a sidecar,   *)
(* one serves or is about to, also after a caller was killed half way.     *)
ServedInUse ==
    overlap = "never" /\ InUse /\ ~Haunted /\ (\A v \in Servers : server[v].state # "failed")
        => \E v \in Servers : Starting(v) \/ Serving(v)

(* IdleStops: between operations of which none failed, a sidecar that      *)
(* nobody needs does not run.                                              *)
IdleStops ==
    overlap = "never" /\ faults = 0 /\ Busy = {} /\ ~InUse =>
        \A v \in Servers : ~Starting(v) /\ ~Serving(v)

(* StartServes: whatever races and failures there were before, a start     *)
(* that none overlaps goes on only beside a sidecar that serves or is      *)
(* about to.                                                               *)
GoesOn(c) == cl[c].op = "start" /\ cl[c].pc # "rows" /\ cl'[c].pc = "rows"
StartServes ==
    [][\A c \in Callers :
        GoesOn(c) /\ overlap # "now" /\ ~Haunted
            => \E v \in Servers : Starting(v) \/ Serving(v)]_vars
=============================================================================
