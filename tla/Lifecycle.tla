------------------------------ MODULE Lifecycle ------------------------------
(***************************************************************************)
(* The lifecycle of services: deploy, start, stop and destroy (app.rs), as *)
(* run by the daemon's API handlers and by command-line processes, beside  *)
(* the daemon's reconcile loop (daemon.rs).  They share the SQLite rows    *)
(* (state.rs), the operating system's processes (runtime.rs) and the       *)
(* sandbox resources of each service (sandbox.rs), and no lock.            *)
(*                                                                         *)
(* A client takes one step per SQL write or system effect that another     *)
(* actor can observe.  A read that is used at once belongs to the step     *)
(* that uses it, one that is used later is a local of its client.  No       *)
(* operation reads the events table, which is left out; nor the policy     *)
(* chain, the network and the DNS sidecar, whose calls here only succeed   *)
(* or fail (Sandbox.tla, Firewall.tla).                                    *)
(*                                                                         *)
(* The recorded process of an isolated service is `unshare --fork`, which  *)
(* waits for its tree: the init that joins the cgroup, and the workload.   *)
(* A signal to the process does not reach the tree.                        *)
(* "restart" is a stop followed by a start of one client, "deploy" of the  *)
(* API a deploy followed by a start (host_abi.rs): both are behaviours of  *)
(* these actions.                                                          *)
(***************************************************************************)
EXTENDS Naturals, FiniteSets

CONSTANTS
    Services,     \* the names of services
    Clients,      \* the callers of the operations
    Resident,     \* the clients that run inside the daemon process
    Pids,         \* the process ids the system hands out; none is reused
    IPs,          \* the host addresses of the sandbox subnet, in order
    Isolated,     \* TRUE: "linux-namespace" sandboxes; FALSE: "host-process"
    Ported,       \* the services whose manifest has a port
    Reconciling,  \* TRUE when the daemon, and so its reconcile loop, runs
    FaultKinds,   \* which of "spawn", "dns", "policy", "sql" and "crash" may happen
    MaxFaults,    \* bound: how many of these happen
    NoPid, NoService

(* The daemon serves one control request at a time (http_host.rs holds its *)
(* dispatch lock across the call), so at most one client is resident.      *)
ASSUME ConstantsAssumption ==
    /\ Resident \subseteq Clients
    /\ \A c, d \in Resident : c = d
    /\ Reconciling \/ Resident = {}
    /\ IPs \subseteq Nat \ {0}
    /\ Isolated \in BOOLEAN /\ Reconciling \in BOOLEAN
    /\ Ported \subseteq Services
    /\ MaxFaults \in Nat
    /\ NoPid \notin Pids /\ NoService \notin Services

VARIABLES
    svc,     \* services table: status and pid of each row
    box,     \* sandboxes table: status, pid and ip of each row
    routed,  \* the services with a row in the routes table
    proc,    \* the processes spawned for services, with their trees
    cgroup,  \* the services whose cgroup directory exists
    cl,      \* each client: its operation, its step, and its locals
    rec,     \* the reconcile loop: its step, its snapshots, and its locals
    faults,  \* how many faults have happened
    lost     \* history: the processes that live on when nothing names them

db    == <<svc, box, routed>>
swept == <<cgroup, lost>>  \* what clean-ups write
vars  == <<svc, box, routed, proc, cgroup, cl, rec, faults, lost>>

NoIp       == 0
AbsentRow  == [status |-> "absent", pid |-> NoPid]
AbsentBox  == [status |-> "absent", pid |-> NoPid, ip |-> NoIp]
IdleClient == [op |-> "none", pc |-> "idle", on |-> NoService,
               held |-> NoPid, child |-> NoPid, addr |-> NoIp]
Sleeping   == [pc |-> "sleep", cur |-> NoService, addr |-> NoIp, todo |-> {},
               rows  |-> [s \in Services |-> AbsentRow],
               boxes |-> [s \in Services |-> AbsentBox]]

------------------------------------------------------------------------------
(* Types *)

PidOrNone  == Pids \cup {NoPid}
IpOrNone   == IPs \cup {NoIp}
NameOrNone == Services \cup {NoService}
RowType    == [status : {"absent", "deployed", "starting", "healthy",
                         "degraded", "stopped", "failed"},
               pid : PidOrNone]
BoxType    == [status : {"absent", "up", "stopped"},
               pid : PidOrNone, ip : IpOrNone]
ProcType   == [state : {"free", "running", "dying", "exited"},
               tree : {"none", "outside", "inside"},   \* its place, by the cgroup
               owner : NameOrNone, resident : BOOLEAN]
ClientType == [op : {"none", "deploy", "start", "startAborted", "startFailed",
                     "stop", "destroy"},
               pc : {"idle", "routes", "address", "prepare", "spawn", "row", "box",
                     "probe", "probed", "kill", "clean", "finish"},
               on : NameOrNone, held : PidOrNone, child : PidOrNone, addr : IpOrNone]
RecType    == [pc : {"sleep", "services", "box", "fail", "healthy", "degraded",
                     "sandboxes", "reap"},
               cur : NameOrNone, addr : IpOrNone, todo : SUBSET Services,
               rows : [Services -> RowType], boxes : [Services -> BoxType]]

(* TypeOK: every table, process and local variable stays in its type.      *)
TypeOK ==
    /\ svc \in [Services -> RowType]
    /\ box \in [Services -> BoxType]
    /\ routed \subseteq Services
    /\ proc \in [Pids -> ProcType]
    /\ cgroup \subseteq Services
    /\ cl \in [Clients -> ClientType]
    /\ rec \in RecType
    /\ faults \in Nat
    /\ lost \subseteq Pids

Init ==
    /\ svc = [s \in Services |-> AbsentRow]
    /\ box = [s \in Services |-> AbsentBox]
    /\ routed = {}
    /\ proc = [p \in Pids |-> [state |-> "free", tree |-> "none", owner |-> NoService,
                               resident |-> FALSE]]
    /\ cgroup = {}
    /\ cl = [c \in Clients |-> IdleClient]
    /\ rec = Sleeping
    /\ faults = 0
    /\ lost = {}

------------------------------------------------------------------------------
(* The tables *)

Registered(s) == svc[s].status # "absent"
HasBox(s)     == box[s].status # "absent"
BoxUp(b)      == b.status = "up"

(* Mutants of SetStatus: an upsert, and an UPDATE that lost its WHERE.     *)
SetStatusUpserts(s, status, pid) ==
    svc' = [svc EXCEPT ![s] = [status |-> status, pid |-> pid]]
SetStatusOfEveryRow(s, status, pid) ==
    svc' = [t \in Services |-> IF Registered(t) THEN [status |-> status, pid |-> pid]
                                               ELSE svc[t]]

(* An UPDATE writes status and pid together, and nothing when the row is   *)
(* gone.                                                                   *)
SetStatus(s, status, pid) ==
    svc' = IF Registered(s)
           THEN [svc EXCEPT ![s] = [status |-> status, pid |-> pid]]
           ELSE svc

(* INSERT .. ON CONFLICT DO UPDATE creates the row when it is gone.  Any   *)
(* status but "stopped" is "up" here: no code tells them apart.  The row's *)
(* cgroup_path is set exactly when it is up and isolated.                  *)
UpsertBox(s, status, pid, ip) ==
    box' = [box EXCEPT ![s] = [status |-> status, pid |-> pid, ip |-> ip]]

(* Mutant of FreeIPs: the rows of stopped sandboxes give theirs up.        *)
FreeIPsOfUp == IPs \ {box[s].ip : s \in {t \in Services : BoxUp(box[t])}}

(* Every row holds its address, the rows of stopped sandboxes too.         *)
FreeIPs      == IPs \ {box[s].ip : s \in {t \in Services : HasBox(t)}}
FirstFree(i) == i \in FreeIPs /\ \A j \in FreeIPs : i <= j

------------------------------------------------------------------------------
(* Processes and sandbox resources *)

Running(p) == p \in Pids /\ proc[p].state = "running"
Lives(p)   == Running(p) \/ (p \in Pids /\ proc[p].tree # "none")

(* spawn_service drops its Child without waiting for it: an exited process *)
(* stays a zombie while the process that spawned it lives.                 *)
Waited(p) == proc[p].resident \/ \E c \in Clients : cl[c].child = p

(* kill(pid, 0) succeeds for a zombie.                                     *)
ProcessAlive(p) ==
    /\ p \in Pids
    /\ proc[p].state \in {"running", "dying"} \/ (proc[p].state = "exited" /\ Waited(p))

(* stop_pid ends with the process gone, or with SIGKILL sent to a process  *)
(* that is still there; it has no effect on one that is not running, nor   *)
(* on the tree of one that is.                                             *)
StopPid(p) ==
    \/ /\ Running(p)
       /\ \E state \in {"dying", "exited"} : proc' = [proc EXCEPT ![p].state = state]
    \/ ~Running(p) /\ UNCHANGED proc

(* Mutant of CanClean: the error of the removal is ignored.                *)
CanCleanAnyhow(s, named) == TRUE

(* remove_dir of a cgroup fails while it has processes; a row without      *)
(* cgroup_path names none.                                                 *)
CanClean(s, named) ==
    named => \A p \in Pids : ~(proc[p].owner = s /\ proc[p].tree = "inside")

(* A removal before a tree has joined the cgroup does not notice it.       *)
Cleanup(s, named) ==
    LET unnoticed == {p \in Pids : proc[p].owner = s /\ proc[p].tree = "outside"} IN
    IF Isolated /\ named THEN cgroup' = cgroup \ {s} /\ lost' = lost \cup unnoticed
                         ELSE UNCHANGED swept

(* Without a port the check succeeds at once; with one it needs an answer, *)
(* which takes a process, or a tree that has joined its cgroup.            *)
Answers(p) == IF Isolated THEN proc[p].tree = "inside" ELSE Running(p)
HealthOutcomes(s) ==
    IF s \notin Ported THEN {"healthy"}
    ELSE IF \E p \in Pids : proc[p].owner = s /\ Answers(p) THEN {"healthy", "degraded"}
    ELSE {"degraded"}

Fault(kind) == kind \in FaultKinds /\ faults < MaxFaults /\ faults' = faults + 1

------------------------------------------------------------------------------
(* Clients *)

At(c, op, pc) == cl[c].op = op /\ cl[c].pc = pc
Goto(c, pc)   == cl' = [cl EXCEPT ![c].pc = pc]
Return(c)     == cl' = [cl EXCEPT ![c] = IdleClient]
Call(c, op, pc, s, held) ==
    /\ cl[c].pc = "idle"
    /\ cl' = [cl EXCEPT ![c] = [op |-> op, pc |-> pc, on |-> s, held |-> held,
                                child |-> NoPid, addr |-> NoIp]]
Locate(c, pc, ip) == cl' = [cl EXCEPT ![c] = [@ EXCEPT !.pc = pc, !.addr = ip]]
Spawned(c, p)     == cl' = [cl EXCEPT ![c] = [@ EXCEPT !.pc = "row", !.child = p]]
StartFails(c, op) == cl' = [cl EXCEPT ![c] = [@ EXCEPT !.op = op, !.pc = "kill"]]

(* deploy_only: upsert_service keeps the pid of a row that exists.         *)
DeployRegister(c, s) ==
    /\ Call(c, "deploy", "routes", s, NoPid)
    /\ svc' = [svc EXCEPT ![s].status = "deployed"]
    /\ UNCHANGED <<box, routed, proc, swept, rec, faults>>

DeployRoutes(c) ==
    /\ At(c, "deploy", "routes")
    /\ routed' = routed \cup {cl[c].on}
    /\ Return(c)
    /\ UNCHANGED <<svc, box, proc, swept, rec, faults>>

(* start_only: a row whose pid is alive refuses the start.                 *)
StartLoad(c, s) ==
    /\ Registered(s) /\ ~ProcessAlive(svc[s].pid)
    /\ Call(c, "start", "address", s, NoPid)
    /\ UNCHANGED <<db, proc, swept, rec, faults>>

(* A service keeps the address of its sandbox row, stopped or not.         *)
StartAddress(c) ==
    LET s == cl[c].on IN
    /\ At(c, "start", "address")
    /\ \/ HasBox(s) /\ Locate(c, "prepare", box[s].ip)
       \/ ~HasBox(s) /\ \E i \in IPs : FirstFree(i) /\ Locate(c, "prepare", i)
       \/ ~HasBox(s) /\ FreeIPs = {} /\ Return(c)
    /\ UNCHANGED <<db, proc, swept, rec, faults>>

(* The clean-up of what an earlier run left.                               *)
StartPrepare(c) ==
    LET s == cl[c].on IN
    /\ At(c, "start", "prepare")
    /\ \/ HasBox(s) /\ CanClean(s, BoxUp(box[s])) /\ Cleanup(s, BoxUp(box[s])) /\ Goto(c, "spawn")
       \/ HasBox(s) /\ ~CanClean(s, BoxUp(box[s])) /\ Return(c) /\ UNCHANGED swept
       \/ ~HasBox(s) /\ Goto(c, "spawn") /\ UNCHANGED swept
    /\ UNCHANGED <<db, proc, rec, faults>>

StartSpawn(c) ==
    LET s == cl[c].on IN
    /\ At(c, "start", "spawn")
    /\ \E p \in Pids :
        /\ proc[p].state = "free"
        /\ proc' = [proc EXCEPT ![p] = [state |-> "running", owner |-> s,
                                        tree |-> IF Isolated THEN "outside" ELSE "none",
                                        resident |-> c \in Resident]]
        /\ Spawned(c, p)
    /\ cgroup' = IF Isolated THEN cgroup \cup {s} ELSE cgroup
    /\ UNCHANGED <<db, rec, faults, lost>>

(* The command cannot be built or run; a cgroup made for it by then stays. *)
(* Bound: a start that finds Pids used up fails as well.                   *)
StartSpawnFails(c) ==
    /\ At(c, "start", "spawn")
    /\ Fault("spawn") \/ ((\A p \in Pids : proc[p].state # "free") /\ UNCHANGED faults)
    /\ cgroup' \in IF Isolated THEN {cgroup, cgroup \cup {cl[c].on}} ELSE {cgroup}
    /\ Return(c)
    /\ UNCHANGED <<db, proc, rec, lost>>

(* ensure_running of the DNS sidecar fails: no row is written.             *)
StartAborts(c) ==
    /\ Isolated /\ At(c, "start", "row")
    /\ Fault("dns")
    /\ StartFails(c, "startAborted")
    /\ UNCHANGED <<db, proc, swept, rec>>

StartRow(c) ==
    /\ At(c, "start", "row")
    /\ SetStatus(cl[c].on, "starting", cl[c].child)
    /\ Goto(c, "box")
    /\ UNCHANGED <<box, routed, proc, swept, rec, faults>>

(* The sandbox row, and the policy refresh that reads it.                  *)
StartBox(c) ==
    /\ At(c, "start", "box")
    /\ UpsertBox(cl[c].on, "up", cl[c].child, cl[c].addr)
    /\ \/ Goto(c, "probe") /\ UNCHANGED faults
       \/ Isolated /\ Fault("policy") /\ StartFails(c, "startFailed")
    /\ UNCHANGED <<svc, routed, proc, swept, rec>>

StartProbe(c) ==
    /\ At(c, "start", "probe")
    /\ \E health \in HealthOutcomes(cl[c].on) :
        /\ SetStatus(cl[c].on, health, cl[c].child)
        /\ Goto(c, "probed")
    /\ UNCHANGED <<box, routed, proc, swept, rec, faults>>

StartFinish(c) ==
    /\ At(c, "start", "probed")
    /\ UpsertBox(cl[c].on, "up", cl[c].child, cl[c].addr)
    /\ Return(c)
    /\ UNCHANGED <<svc, routed, proc, swept, rec, faults>>

(* stop_only and destroy_only begin with the row: its pid is what they     *)
(* signal, whatever the row says by then.                                  *)
StopLoad(c, s) ==
    /\ Registered(s)
    /\ \E op \in {"stop", "destroy"} : Call(c, op, "kill", s, svc[s].pid)
    /\ UNCHANGED <<db, proc, swept, rec, faults>>

Kill(c) ==
    /\ cl[c].pc = "kill"
    /\ StopPid(IF cl[c].op \in {"stop", "destroy"} THEN cl[c].held ELSE cl[c].child)
    /\ Goto(c, IF cl[c].op = "stop" THEN "row" ELSE "clean")
    /\ UNCHANGED <<db, swept, rec, faults>>

(* The process exits between the probe and SIGTERM, and is reaped: the     *)
(* signal fails and stop_only returns the error.                           *)
KillMisses(c) ==
    LET p == cl[c].held IN
    /\ At(c, "stop", "kill")
    /\ ProcessAlive(p) /\ ~Waited(p)
    /\ proc' = [proc EXCEPT ![p].state = "exited"]
    /\ Return(c)
    /\ UNCHANGED <<db, swept, rec, faults>>

(* The clean-up of a failed start ignores errors, and what lives on is     *)
(* forgotten; a start that failed before its rows returns without them.    *)
UndoClean(c) ==
    LET s     == cl[c].on
        child == cl[c].child
        left  == {p \in Pids : p = child /\ proc[p].tree # "none"}
    IN
    /\ cl[c].op \in {"startAborted", "startFailed"} /\ cl[c].pc = "clean"
    /\ cgroup' = IF CanClean(s, TRUE) THEN cgroup \ {s} ELSE cgroup
    /\ lost' = lost \cup left
    /\ IF cl[c].op = "startFailed" THEN Goto(c, "row") ELSE Return(c)
    /\ UNCHANGED <<db, proc, rec, faults>>

(* The errors of the two writes are ignored as well.                       *)
UndoRow(c) ==
    /\ At(c, "startFailed", "row")
    /\ \/ SetStatus(cl[c].on, "failed", NoPid) /\ UNCHANGED faults
       \/ Fault("sql") /\ UNCHANGED svc
    /\ Goto(c, "box")
    /\ UNCHANGED <<box, routed, proc, swept, rec>>

(* Mutant of UndoBox: the sandbox row gets the status of a service row.    *)
UndoBoxAsFailed(c) ==
    /\ At(c, "startFailed", "box")
    /\ UpsertBox(cl[c].on, "failed", NoPid, cl[c].addr)
    /\ Return(c)
    /\ UNCHANGED <<svc, routed, proc, swept, rec, faults>>

UndoBox(c) ==
    /\ At(c, "startFailed", "box")
    /\ \/ UpsertBox(cl[c].on, "stopped", NoPid, cl[c].addr) /\ UNCHANGED faults
       \/ Fault("sql") /\ UNCHANGED box
    /\ Return(c)
    /\ UNCHANGED <<svc, routed, proc, swept, rec>>

StopRow(c) ==
    /\ At(c, "stop", "row")
    /\ SetStatus(cl[c].on, "stopped", NoPid)
    /\ Goto(c, "clean")
    /\ UNCHANGED <<box, routed, proc, swept, rec, faults>>

(* Mutant of StopClean: the error of the clean-up is ignored.              *)
StopCleanAnyhow(c) ==
    LET s == cl[c].on IN
    /\ At(c, "stop", "clean")
    /\ IF CanClean(s, BoxUp(box[s])) THEN Cleanup(s, BoxUp(box[s])) ELSE UNCHANGED swept
    /\ IF HasBox(s) THEN Locate(c, "box", box[s].ip) ELSE Goto(c, "finish")
    /\ UNCHANGED <<db, proc, rec, faults>>

(* A clean-up that fails returns its error with the row already "stopped". *)
StopClean(c) ==
    LET s == cl[c].on IN
    /\ At(c, "stop", "clean")
    /\ \/ /\ HasBox(s) /\ CanClean(s, BoxUp(box[s]))
          /\ Cleanup(s, BoxUp(box[s]))
          /\ Locate(c, "box", box[s].ip)
       \/ HasBox(s) /\ ~CanClean(s, BoxUp(box[s])) /\ Return(c) /\ UNCHANGED swept
       \/ ~HasBox(s) /\ Goto(c, "finish") /\ UNCHANGED swept
    /\ UNCHANGED <<db, proc, rec, faults>>

(* Mutant of StopBox: the address is cleared with the pid.                 *)
StopBoxForgets(c) ==
    /\ At(c, "stop", "box")
    /\ UpsertBox(cl[c].on, "stopped", NoPid, NoIp)
    /\ Goto(c, "finish")
    /\ UNCHANGED <<svc, routed, proc, swept, rec, faults>>

StopBox(c) ==
    /\ At(c, "stop", "box")
    /\ UpsertBox(cl[c].on, "stopped", NoPid, cl[c].addr)
    /\ Goto(c, "finish")
    /\ UNCHANGED <<svc, routed, proc, swept, rec, faults>>

(* The policy refresh, which may fail.                                     *)
StopFinish(c) ==
    /\ At(c, "stop", "finish")
    /\ UNCHANGED faults \/ (Isolated /\ Fault("policy"))
    /\ Return(c)
    /\ UNCHANGED <<db, proc, swept, rec>>

DestroyClean(c) ==
    LET s == cl[c].on IN
    /\ At(c, "destroy", "clean")
    /\ \/ HasBox(s) /\ CanClean(s, BoxUp(box[s])) /\ Cleanup(s, BoxUp(box[s])) /\ Goto(c, "box")
       \/ HasBox(s) /\ ~CanClean(s, BoxUp(box[s])) /\ Return(c) /\ UNCHANGED swept
       \/ ~HasBox(s) /\ Goto(c, "box") /\ UNCHANGED swept
    /\ UNCHANGED <<db, proc, rec, faults>>

(* Mutant of DestroyTables: the routes are forgotten.                      *)
DestroyTablesKeepRoutes(c) ==
    /\ At(c, "destroy", "box")
    /\ box' = [box EXCEPT ![cl[c].on] = AbsentBox]
    /\ Goto(c, "row")
    /\ UNCHANGED <<svc, routed, proc, swept, rec, faults>>

(* delete_sandbox and the deletes of delete_service, the service row last. *)
DestroyTables(c) ==
    /\ At(c, "destroy", "box")
    /\ box' = [box EXCEPT ![cl[c].on] = AbsentBox]
    /\ routed' = routed \ {cl[c].on}
    /\ Goto(c, "row")
    /\ UNCHANGED <<svc, proc, swept, rec, faults>>

DestroyRow(c) ==
    /\ At(c, "destroy", "row")
    /\ svc' = [svc EXCEPT ![cl[c].on] = AbsentRow]
    /\ Return(c)
    /\ UNCHANGED <<box, routed, proc, swept, rec, faults>>

------------------------------------------------------------------------------
(* The reconcile loop *)

(* list_services and list_sandboxes; the rows both loops pass over are     *)
(* left out of the snapshots.                                              *)
RecSnapshot ==
    /\ Reconciling /\ rec.pc = "sleep"
    /\ rec' = [Sleeping EXCEPT
         !.pc    = "services",
         !.todo  = {s \in Services : svc[s].pid # NoPid},
         !.rows  = [s \in Services |-> IF svc[s].pid # NoPid THEN svc[s] ELSE AbsentRow],
         !.boxes = [s \in Services |-> IF Isolated /\ BoxUp(box[s]) THEN box[s]
                                                                     ELSE AbsentBox]]
    /\ UNCHANGED <<db, proc, swept, cl, faults>>

Visit(s) == rec.pc = "services" /\ s \in rec.todo
RecTurn(pc, s) == rec' = [rec EXCEPT !.pc = pc, !.cur = s]
RecNext(s) == rec' = [rec EXCEPT !.pc = "services", !.todo = @ \ {s}, !.cur = NoService,
                                 !.addr = NoIp, !.rows[s] = AbsentRow]

(* Mutant of RecDead: the probe of the pid is lost.                        *)
RecDeadUnprobed(s) ==
    /\ Visit(s) /\ rec.rows[s].status # "stopped"
    /\ ~HasBox(s) \/ CanClean(s, BoxUp(box[s]))
    /\ Cleanup(s, BoxUp(box[s]))
    /\ rec' = [rec EXCEPT !.pc = IF HasBox(s) THEN "box" ELSE "fail",
                          !.cur = s, !.addr = box[s].ip]
    /\ UNCHANGED <<db, proc, cl, faults>>

(* A pid of the snapshot that is dead: the sandbox row is read now.  An    *)
(* error of the clean-up ends the tick.                                    *)
RecDead(s) ==
    /\ Visit(s) /\ ~ProcessAlive(rec.rows[s].pid) /\ rec.rows[s].status # "stopped"
    /\ \/ /\ HasBox(s) /\ CanClean(s, BoxUp(box[s]))
          /\ Cleanup(s, BoxUp(box[s]))
          /\ rec' = [rec EXCEPT !.pc = "box", !.cur = s, !.addr = box[s].ip]
       \/ HasBox(s) /\ ~CanClean(s, BoxUp(box[s])) /\ rec' = Sleeping /\ UNCHANGED swept
       \/ ~HasBox(s) /\ RecTurn("fail", s) /\ UNCHANGED swept
    /\ UNCHANGED <<db, proc, cl, faults>>

RecBox ==
    /\ rec.pc = "box"
    /\ UpsertBox(rec.cur, "stopped", NoPid, rec.addr)
    /\ RecTurn("fail", rec.cur)
    /\ UNCHANGED <<svc, routed, proc, swept, cl, faults>>

(* Mutant of RecFail: the failed row keeps the pid.                        *)
RecFailKeepsPid ==
    /\ rec.pc = "fail"
    /\ SetStatus(rec.cur, "failed", rec.rows[rec.cur].pid)
    /\ RecNext(rec.cur)
    /\ UNCHANGED <<box, routed, proc, swept, cl, faults>>

RecFail ==
    /\ rec.pc = "fail"
    /\ SetStatus(rec.cur, "failed", NoPid)
    /\ RecNext(rec.cur)
    /\ UNCHANGED <<box, routed, proc, swept, cl, faults>>

(* Mutant of RecHealth: a service is marked degraded and never healthy.    *)
RecHealthOnlyWorse(s) ==
    /\ Visit(s) /\ ProcessAlive(rec.rows[s].pid) /\ s \in Ported
    /\ \E health \in HealthOutcomes(s) :
        \/ health = "degraded" /\ RecTurn(health, s)
        \/ health = "healthy" /\ RecNext(s)
    /\ UNCHANGED <<db, proc, swept, cl, faults>>

(* A live pid with a port: the check takes up to ten seconds, and the      *)
(* status is written afterwards with the pid of the snapshot.              *)
RecHealth(s) ==
    /\ Visit(s) /\ ProcessAlive(rec.rows[s].pid) /\ s \in Ported
    /\ \E health \in HealthOutcomes(s) :
        \/ health # rec.rows[s].status /\ RecTurn(health, s)
        \/ health = rec.rows[s].status /\ RecNext(s)
    /\ UNCHANGED <<db, proc, swept, cl, faults>>

RecWriteHealth ==
    /\ rec.pc \in {"healthy", "degraded"}
    /\ SetStatus(rec.cur, rec.pc, rec.rows[rec.cur].pid)
    /\ RecNext(rec.cur)
    /\ UNCHANGED <<box, routed, proc, swept, cl, faults>>

RecSkip(s) ==
    /\ Visit(s)
    /\ IF ProcessAlive(rec.rows[s].pid) THEN s \notin Ported
                                        ELSE rec.rows[s].status = "stopped"
    /\ RecNext(s)
    /\ UNCHANGED <<db, proc, swept, cl, faults>>

RecNextBox(s) == rec' = [rec EXCEPT !.pc = "sandboxes", !.todo = @ \ {s},
                                    !.cur = NoService, !.boxes[s] = AbsentBox]

(* The second loop visits the sandboxes of the snapshot.                   *)
RecSandboxes ==
    /\ rec.pc = "services" /\ rec.todo = {}
    /\ rec' = [rec EXCEPT !.pc = "sandboxes",
                          !.todo = {s \in Services : BoxUp(rec.boxes[s])}]
    /\ UNCHANGED <<db, proc, swept, cl, faults>>

RecStale(s) ==
    /\ rec.pc = "sandboxes" /\ s \in rec.todo /\ ~ProcessAlive(rec.boxes[s].pid)
    /\ \/ CanClean(s, TRUE) /\ Cleanup(s, TRUE) /\ RecTurn("reap", s)
       \/ ~CanClean(s, TRUE) /\ rec' = Sleeping /\ UNCHANGED swept
    /\ UNCHANGED <<db, proc, cl, faults>>

RecReap ==
    /\ rec.pc = "reap"
    /\ UpsertBox(rec.cur, "stopped", NoPid, rec.boxes[rec.cur].ip)
    /\ RecNextBox(rec.cur)
    /\ UNCHANGED <<svc, routed, proc, swept, cl, faults>>

RecLiveBox(s) ==
    /\ rec.pc = "sandboxes" /\ s \in rec.todo /\ ProcessAlive(rec.boxes[s].pid)
    /\ RecNextBox(s)
    /\ UNCHANGED <<db, proc, swept, cl, faults>>

RecSleep ==
    /\ rec.pc = "sandboxes" /\ rec.todo = {}
    /\ rec' = Sleeping
    /\ UNCHANGED <<db, proc, swept, cl, faults>>

(* An error of SQLite ends the tick.                                       *)
RecBreaks ==
    /\ rec.pc # "sleep"
    /\ Fault("sql")
    /\ rec' = Sleeping
    /\ UNCHANGED <<db, proc, swept, cl>>

------------------------------------------------------------------------------
(* The environment *)

(* A service's process exits, by itself or by a signal of somebody else,   *)
(* or one that was killed is gone at last; its tree may live on.           *)
Exit(p) ==
    /\ proc[p].state \in {"running", "dying"}
    /\ proc' = [proc EXCEPT ![p].state = "exited"]
    /\ UNCHANGED <<db, swept, cl, rec, faults>>

(* run_sandbox_init joins the cgroup by its path, or ends.                 *)
TreeJoins(p) ==
    /\ proc[p].tree = "outside"
    /\ proc' = [proc EXCEPT ![p].tree = IF proc[p].owner \in cgroup THEN "inside" ELSE "none"]
    /\ UNCHANGED <<db, swept, cl, rec, faults>>

TreeEnds(p) ==
    /\ proc[p].tree # "none"
    /\ proc' = [proc EXCEPT ![p].tree = "none"]
    /\ UNCHANGED <<db, swept, cl, rec, faults>>

(* The child of a start that ends here is in no row that a stop goes by.   *)
Unnamed(c) ==
    \/ cl[c].op = "start" /\ cl[c].pc \in (IF Isolated THEN {"row", "box"} ELSE {"row"})
    \/ cl[c].op = "startAborted"
Children(C) == {p \in Pids : \E c \in C : Unnamed(c) /\ cl[c].child = p}

(* An operation ends half way: by an error of SQLite that is not ignored,  *)
(* or because its command-line process is killed.                          *)
Breaks(c) ==
    /\ cl[c].pc # "idle"
    /\ \/ cl[c].op \notin {"startAborted", "startFailed"} /\ Fault("sql")
       \/ c \notin Resident /\ Fault("crash")
    /\ lost' = lost \cup Children({c})
    /\ Return(c)
    /\ UNCHANGED <<db, proc, cgroup, rec>>

(* The daemon is killed and started again: the request it was serving and  *)
(* the reconcile tick are lost, its children get a parent that reaps them. *)
DaemonRestart ==
    /\ Reconciling
    /\ Fault("crash")
    /\ cl' = [c \in Clients |-> IF c \in Resident THEN IdleClient ELSE cl[c]]
    /\ rec' = Sleeping
    /\ proc' = [p \in Pids |-> [proc[p] EXCEPT !.resident = FALSE]]
    /\ lost' = lost \cup Children(Resident)
    /\ UNCHANGED <<db, cgroup>>

------------------------------------------------------------------------------
Request(c, s) == DeployRegister(c, s) \/ StartLoad(c, s) \/ StopLoad(c, s)

Operate(c) ==
    \/ DeployRoutes(c)
    \/ StartAddress(c) \/ StartPrepare(c) \/ StartSpawn(c) \/ StartSpawnFails(c)
    \/ StartAborts(c) \/ StartRow(c) \/ StartBox(c) \/ StartProbe(c) \/ StartFinish(c)
    \/ UndoClean(c) \/ UndoRow(c) \/ UndoBox(c)
    \/ Kill(c) \/ KillMisses(c)
    \/ StopRow(c) \/ StopClean(c) \/ StopBox(c) \/ StopFinish(c)
    \/ DestroyClean(c) \/ DestroyTables(c) \/ DestroyRow(c)

Reconcile ==
    \/ RecSnapshot \/ RecBox \/ RecFail \/ RecWriteHealth
    \/ RecSandboxes \/ RecReap \/ RecSleep \/ RecBreaks
    \/ \E s \in Services : RecDead(s) \/ RecHealth(s) \/ RecSkip(s)
                           \/ RecStale(s) \/ RecLiveBox(s)

Next ==
    \/ \E c \in Clients, s \in Services : Request(c, s)
    \/ \E c \in Clients : Operate(c) \/ Breaks(c)
    \/ Reconcile
    \/ \E p \in Pids : Exit(p) \/ TreeJoins(p) \/ TreeEnds(p)
    \/ DaemonRestart

Spec == Init /\ [][Next]_vars

(* The loop and the operations under way keep going, and a killed process  *)
(* goes; nobody has to issue a request, and a service may run forever.     *)
Gone(p) == proc[p].state = "dying" /\ Exit(p)
FairSpec ==
    /\ Spec
    /\ WF_vars(Reconcile)
    /\ \A c \in Clients : WF_vars(Operate(c))
    /\ \A p \in Pids : WF_vars(Gone(p))

------------------------------------------------------------------------------
(* Properties that hold however the actors interleave *)

OwnedBy(s, p) == p = NoPid \/ (p \in Pids /\ proc[p].state # "free" /\ proc[p].owner = s)

(* PidOwnership: a pid in a row, in a snapshot of the reconcile loop or in *)
(* the hands of a client is a process of that very service, so stop_pid    *)
(* and the health writes never reach the process of another one.           *)
PidOwnership ==
    /\ \A s \in Services : /\ OwnedBy(s, svc[s].pid) /\ OwnedBy(s, box[s].pid)
                           /\ OwnedBy(s, rec.rows[s].pid)
                           /\ OwnedBy(s, rec.boxes[s].pid)
    /\ \A c \in Clients : OwnedBy(cl[c].on, cl[c].held) /\ OwnedBy(cl[c].on, cl[c].child)

(* RowsAgree: the status of a row and its pid tell the same story although *)
(* several writers race for them: a stopped or failed row has no pid, one  *)
(* that is starting or was probed has one, and only a row that was         *)
(* deployed again may have either; a sandbox row likewise.                 *)
RowsAgree ==
    \A s \in Services :
        /\ svc[s].status \in {"absent", "stopped", "failed"} => svc[s].pid = NoPid
        /\ svc[s].status \in {"starting", "healthy", "degraded"} => svc[s].pid # NoPid
        /\ BoxUp(box[s]) <=> box[s].pid # NoPid

(* FailureIsReal: when the loop is about to report process_exited for a    *)
(* pid, that process does not run, however long ago it was probed.         *)
FailureIsReal == rec.pc \in {"box", "fail"} => ~Running(rec.rows[rec.cur].pid)

(* LocalsAgree: the locals of the actors fit the step they are at, which   *)
(* RowsAgree and TypeOK rest on: whoever is at work knows its service, a   *)
(* start past its spawn has a process, and so has a late health write.     *)
LocalsAgree ==
    /\ \A c \in Clients :
        /\ cl[c].pc # "idle" => cl[c].on \in Services
        /\ cl[c].op = "start" /\ cl[c].pc \in {"row", "box", "probe", "probed"}
              => cl[c].child # NoPid
    /\ rec.pc \in {"box", "fail", "healthy", "degraded", "reap"} => rec.cur \in Services
    /\ rec.pc \in {"healthy", "degraded"} => rec.rows[rec.cur].pid # NoPid

(* NeverResurrected: a service that is gone comes back only by a deploy:   *)
(* no late status write of a start, a stop or the loop recreates its row.  *)
NeverResurrected ==
    [][\A s \in Services :
         ~Registered(s) /\ svc'[s].status # "absent" =>
            \E c \in Clients : cl'[c].op = "deploy" /\ cl'[c].on = s]_vars

------------------------------------------------------------------------------
(* Properties of one client at a time without the daemon *)

(* What still runs for a service and is not beyond recall: beyond it are   *)
(* the child of a start that ended before its rows were written, a tree    *)
(* that outlives the undoing of its start, and one whose cgroup was        *)
(* removed before it had joined it.                                        *)
Kept(p) == Lives(p) /\ p \notin lost
Runs(s) == \E p \in Pids : Kept(p) /\ proc[p].owner = s

(* SingleInstance: no service gets a second instance beside one that is    *)
(* not beyond recall: the pid of the row refuses a start while the         *)
(* recorded process lives, and the cgroup that cannot be removed refuses   *)
(* it while only the tree does, after a stop that could not end it.        *)
SingleInstance ==
    \A p, q \in Pids : Kept(p) /\ Kept(q) /\ proc[p].owner = proc[q].owner => p = q

(* NoOrphan: outside the hands of an operation under way, a process that   *)
(* runs is in its service's row, and a tree that lives is the one of the   *)
(* sandbox row, also when its process is gone and the service "stopped":   *)
(* a stop or destroy whose clean-up fails keeps the row that names it.     *)
NoOrphan ==
    \A p \in Pids \ lost :
        (\E c \in Clients : cl[c].child = p) \/
        /\ Running(p) => svc[proc[p].owner].pid = p
        /\ proc[p].tree # "none" => box[proc[p].owner].pid = p

(* UniqueIPs: two sandbox rows never share an address, although the rows   *)
(* of stopped services keep theirs and the pool may run out.               *)
UniqueIPs ==
    \A s, t \in Services : HasBox(s) /\ HasBox(t) /\ box[s].ip = box[t].ip => s = t

(* StableIp: a service keeps its address from its first start until it is  *)
(* destroyed, over stops, failures and restarts.                           *)
StableIp ==
    [][\A s \in Services : HasBox(s) /\ box'[s].status # "absent" => box'[s].ip = box[s].ip]_vars

AllIdle == \A c \in Clients : cl[c].pc = "idle"

(* DestroyLeavesNothing: between operations, a name without a service row  *)
(* has no sandbox row, no route and nothing that is kept, whatever had     *)
(* failed before: a destroy that meets a living tree keeps both rows.      *)
(* (What is left of its network: NothingLeft of Sandbox.tla.)              *)
DestroyLeavesNothing ==
    AllIdle => \A s \in Services : ~Registered(s) =>
        ~HasBox(s) /\ s \notin routed /\ ~Runs(s)

(* The instance of a service, NoPid while it has none.                     *)
Instance(s) == IF Runs(s) THEN CHOOSE p \in Pids : Kept(p) /\ proc[p].owner = s
                          ELSE NoPid

Promise == INSTANCE ServicePromise WITH
    registered <- {s \in Services : Registered(s)},
    instance   <- [s \in Services |-> Instance(s)],
    used       <- {p \in Pids : proc[p].state # "free"}

(* PromiseKept: one client at a time, the operations of app.rs implement   *)
(* ServicePromise through all their steps and error paths, an instance     *)
(* being a process or tree that is not beyond recall.                      *)
PromiseKept == Promise!Spec

------------------------------------------------------------------------------
(* Liveness of the reconcile loop *)

(* CrashIsNoticed: a row does not keep the pid of a process that exited.   *)
CrashIsNoticed ==
    \A s \in Services, p \in Pids :
        (svc[s].pid = p /\ proc[p].state = "exited") ~> svc[s].pid # p

(* Settles: once no client is at work, the rows come to match reality and  *)
(* stay so: a recorded pid is alive, the status of a service with a port   *)
(* is the outcome of a probe (a service deployed again while it ran gets   *)
(* it back).                                                               *)
Settled ==
    \A s \in Services : svc[s].pid # NoPid =>
        /\ ProcessAlive(svc[s].pid)
        /\ s \in Ported => svc[s].status \in {"healthy", "degraded"}
Settles == <>[]AllIdle => <>[]Settled

------------------------------------------------------------------------------
(* What the documents say, and the code does not do *)

(* FailureEndsInFailed: daemon.rs:628 asserts that the tick after a crash  *)
(* leaves the service "failed"; as a promise of the loop, a row does not   *)
(* keep the pid of a process that has exited (CrashIsNoticed above, asked  *)
(* of a process that the daemon itself, or the test, spawned).             *)
FailureEndsInFailed == CrashIsNoticed
=============================================================================
