------------------------------ MODULE DnsSidecar ------------------------------
(***************************************************************************)
(* The DNS sidecar (dns.rs): one server process for all sandboxes, started *)
(* by whoever starts a service, stopped by whoever finds no sandbox in     *)
(* use, and known to both only by a pid file.  No lock guards any of it.   *)
(*                                                                         *)
(* The module holds the steps of ensure_running and stop_if_idle that a    *)
(* caller takes inside its start, stop, destroy or tick, and the server.   *)
(* Sandbox.tla composes them with the rest of those operations.            *)
(***************************************************************************)
EXTENDS Naturals

CONSTANTS
    Services,    \* the names of services
    Callers,     \* the processes that run the operations
    Resident,    \* the callers that are the daemon: they outlive their calls
    Trees,       \* the pids of the process trees of sandboxes; none is reused
    Servers,     \* the pids of sidecars; none is reused
    FaultKinds,  \* the disturbances that may happen: failures, overlaps, forks
    MaxFaults,   \* bound: how many of them happen
    NoService, NoTree, NoServer, Torn

(* What stands for no service, no process and a torn file is none of them. *)
ASSUME NullAssumption == /\ NoService \notin Services /\ NoTree \notin Trees
                         /\ NoServer \notin Servers /\ Torn \notin Servers \cup {NoServer}

VARIABLES
    box,      \* sandboxes table: status and pid of each row
    server,   \* the sidecar processes: their state, and who spawned them
    pidFile,  \* what dns.pid holds; Torn is the empty file of a cut-off write
    cl,       \* each caller: its operation, its step, and its locals
    faults    \* how many disturbances have happened

Fault(kind) == kind \in FaultKinds /\ faults < MaxFaults /\ faults' = faults + 1

IdleCaller == [op |-> "none", pc |-> "idle", on |-> NoService,
               held |-> NoTree, child |-> NoTree, srv |-> NoServer]

Goto(c, pc) == cl' = [cl EXCEPT ![c].pc = pc]
Return(c)   == cl' = [cl EXCEPT ![c] = IdleCaller]
(* A start that failed after its spawn goes on to undo it.                 *)
Undo(c, op) == cl' = [cl EXCEPT ![c] = [@ EXCEPT !.op = op, !.pc = "kill"]]

------------------------------------------------------------------------------
(* The server *)

Starting(v) == v \in Servers /\ server[v].state = "starting"
Serving(v)  == v \in Servers /\ server[v].state = "serving"
Served      == \E v \in Servers : Serving(v)

(* Its Child is dropped without a wait: a zombie is left until the process *)
(* that spawned it ends.                                                   *)
Unreaped(v) == server[v].resident \/ \E c \in Callers : cl[c].srv = v
ServerAlive(v) ==
    /\ v \in Servers
    /\ Starting(v) \/ Serving(v) \/ (server[v].state \in {"exited", "failed"} /\ Unreaped(v))

(* Only one process can bind the port; the others exit.                    *)
Bind(v) ==
    /\ Starting(v)
    /\ server' = [server EXCEPT ![v].state = IF Served THEN "exited" ELSE "serving"]
    /\ UNCHANGED <<box, pidFile, cl, faults>>

(* The loop ends at the first packet that cannot be parsed, and at the     *)
(* first error of the database behind a name.                              *)
ServeFails(v) ==
    /\ Serving(v)
    /\ Fault("packet")
    /\ server' = [server EXCEPT ![v].state = "failed"]
    /\ UNCHANGED <<box, pidFile, cl>>

------------------------------------------------------------------------------
(* ensure_running, within a start *)

(* An empty pid file cannot be parsed.                                     *)
EnsureTorn(c) ==
    /\ cl[c].pc = "dns" /\ pidFile = Torn
    /\ Undo(c, "undoDns")
    /\ UNCHANGED <<box, server, pidFile, faults>>

(* Mutant of EnsureFound: the file's word is taken for the process.        *)
EnsureFoundByName(c) ==
    /\ cl[c].pc = "dns" /\ pidFile \in Servers
    /\ Goto(c, "rows")
    /\ UNCHANGED <<box, server, pidFile, faults>>

EnsureFound(c) ==
    /\ cl[c].pc = "dns" /\ ServerAlive(pidFile)
    /\ Goto(c, "rows")
    /\ UNCHANGED <<box, server, pidFile, faults>>

EnsureMissing(c) ==
    /\ cl[c].pc = "dns" /\ pidFile # Torn /\ ~ServerAlive(pidFile)
    /\ pidFile' = NoServer
    /\ Goto(c, "dnsSpawn")
    /\ UNCHANGED <<box, server, faults>>

EnsureSpawn(c) ==
    /\ cl[c].pc = "dnsSpawn"
    /\ \E v \in Servers :
        /\ server[v].state = "free"
        /\ server' = [server EXCEPT ![v] = [state |-> "starting", resident |-> c \in Resident]]
        /\ cl' = [cl EXCEPT ![c] = [@ EXCEPT !.pc = "dnsOpen", !.srv = v]]
    /\ UNCHANGED <<box, pidFile, faults>>

(* Bound: a caller that finds Servers used up goes no further.             *)
EnsureSpawnFails(c) ==
    /\ cl[c].pc = "dnsSpawn"
    /\ Fault("dns")
    /\ Undo(c, "undoDns")
    /\ UNCHANGED <<box, server, pidFile>>

(* fs::write empties the file before it writes it.                         *)
EnsureOpen(c) ==
    /\ cl[c].pc = "dnsOpen"
    /\ pidFile' = Torn
    /\ Goto(c, "dnsWrite")
    /\ UNCHANGED <<box, server, faults>>

EnsureWrite(c) ==
    /\ cl[c].pc = "dnsWrite"
    /\ pidFile' = cl[c].srv
    /\ Goto(c, "dnsReady")
    /\ UNCHANGED <<box, server, faults>>

(* wait_until_ready takes the answer of any server.                        *)
EnsureReady(c) ==
    /\ cl[c].pc = "dnsReady" /\ Served
    /\ Goto(c, "rows")
    /\ UNCHANGED <<box, server, pidFile, faults>>

EnsureTimeout(c) ==
    /\ cl[c].pc = "dnsReady" /\ ~Served
    /\ Fault("dns") \/ (UNCHANGED faults /\ ~Starting(cl[c].srv))
    /\ Undo(c, "undoDns")
    /\ UNCHANGED <<box, server, pidFile>>

Ensure(c) ==
    \/ EnsureTorn(c) \/ EnsureFound(c) \/ EnsureMissing(c)
    \/ EnsureSpawn(c) \/ EnsureSpawnFails(c)
    \/ EnsureOpen(c) \/ EnsureWrite(c) \/ EnsureReady(c) \/ EnsureTimeout(c)

------------------------------------------------------------------------------
(* stop_if_idle, at the end of a stop, a destroy or a tick *)

(* A sandbox is in use when its row is not stopped and has a pid.          *)
InUse == \E s \in Services : box[s].status = "up" /\ box[s].pid # NoTree

(* Mutant of IdleLook: the check of the rows is lost.                      *)
IdleLookAway(c) ==
    /\ cl[c].pc = "idleLook"
    /\ Goto(c, "idleKill")
    /\ UNCHANGED <<box, server, pidFile, faults>>

IdleLook(c) ==
    /\ cl[c].pc = "idleLook"
    /\ Goto(c, IF InUse THEN "leave" ELSE "idleKill")
    /\ UNCHANGED <<box, server, pidFile, faults>>

(* Mutant of IdleKill: the file is gone before its pid has been signalled. *)
IdleKillNobody(c) ==
    /\ cl[c].pc = "idleKill"
    /\ Goto(c, "idleForget")
    /\ UNCHANGED <<box, server, pidFile, faults>>

(* stop_pid of what the file names; its error is ignored, that of parsing  *)
(* the file ends the operation.                                            *)
IdleKill(c) ==
    /\ cl[c].pc = "idleKill"
    /\ server' = [v \in Servers |->
         IF v = pidFile /\ (Starting(v) \/ Serving(v))
         THEN [server[v] EXCEPT !.state = "exited"] ELSE server[v]]
    /\ IF pidFile = Torn THEN Return(c) ELSE Goto(c, "idleForget")
    /\ UNCHANGED <<box, pidFile, faults>>

IdleForget(c) ==
    /\ cl[c].pc = "idleForget"
    /\ pidFile' = NoServer
    /\ Goto(c, "leave")
    /\ UNCHANGED <<box, server, faults>>

StopIfIdle(c) == IdleLook(c) \/ IdleKill(c) \/ IdleForget(c)
=============================================================================
