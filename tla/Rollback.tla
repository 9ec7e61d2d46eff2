------------------------------- MODULE Rollback -------------------------------
(***************************************************************************)
(* Snapshots and rollbacks of one service (app.rs), with the files they    *)
(* move about: the runtime directory of the service and the volumes.       *)
(*                                                                         *)
(* The daemon serves one request at a time, so one call is under way; the  *)
(* service's process writes its volumes beside it, and ends when it likes. *)
(* So do processes that no row knows any more: one that a stop or the undo *)
(* of a start has not ended (of an isolated service only `unshare` is      *)
(* killed, and what it has started goes on), or that an error of SQLite    *)
(* has kept out of the row.                                                *)
(*                                                                         *)
(* The steps of a call are those another party, a failure or a kill can    *)
(* come between.  start_only and stop_only are one step here, with the     *)
(* ends they may leave behind; Lifecycle has their inside.                 *)
(*                                                                         *)
(* A directory tree is the set of its files.  The code of a release is one *)
(* file, each write of a service makes a new one: copy_tree onto a tree    *)
(* that exists is then a union.                                            *)
(***************************************************************************)
EXTENDS Naturals

CONSTANTS
    Releases,      \* the releases a developer deploys: a manifest and a code tree
    Volumes,       \* the names of volumes
    Lists,         \* the volumes a release's manifest lists
    Runtime,       \* the runtime directory of the service
    NoRelease,
    Isolated,      \* TRUE: linux-namespace, FALSE: host-process
    FaultKinds,    \* which of "stop", "copy", "remove", "start", "sql" and
                   \* "crash" may happen
    MaxFaults,     \* bound: how many of these happen
    MaxWrites,     \* bound: how often a process writes a volume
    MaxSnapshots   \* bound: the seconds in which snapshots are taken

ASSUME RollbackAssumption ==
    /\ Lists \in [Releases -> SUBSET Volumes]
    /\ Runtime \notin Volumes /\ NoRelease \notin Releases
    /\ Releases \cap Nat = {}
    /\ Isolated \in BOOLEAN
    /\ MaxFaults \in Nat /\ MaxWrites \in Nat /\ MaxSnapshots \in Nat

Trees   == Volumes \cup {Runtime}
Files   == Releases \cup Nat
Seconds == 1 .. MaxSnapshots

VARIABLES
    row,     \* the row of the service: status, manifest, app_path, pid or none
    mounted, \* the volumes of the running process; its code is in the runtime tree
    alive,   \* TRUE while the process of the service runs
    stray,   \* the processes beside it that no row knows: the volumes of each
    live,    \* the files in the runtime directory and in each volume
    snaps,   \* the snapshots table: the snapshots, named by their second
    dirs,    \* the directory of each snapshot: its manifest and its trees
    clock,   \* the second it is
    call,    \* the call under way: its step and its locals
    attic,   \* the files of volumes in backups that killed calls have left behind
    writes,  \* how often a process has written
    owed,    \* history: the files each volume's service may count on
    outlived, \* history: TRUE once a process has outlived its stop, or the
             \* start that failed
    faults   \* how many faults have happened

vars == <<row, mounted, alive, stray, outlived, live, snaps, dirs, clock, call, attic, writes,
          owed, faults>>

Nothing   == [t \in Trees |-> {}]
AbsentRow == [status |-> "absent", man |-> NoRelease, app |-> NoRelease, pid |-> FALSE]
Idle == [op |-> "none", pc |-> "idle", snap |-> 0, row |-> AbsentRow, was |-> FALSE,
         names |-> {}, todo |-> {}, cur |-> Runtime, backup |-> Nothing, since |-> 0,
         mixed |-> {}]

(* In a call: mixed is history, the trees whose removal has failed.        *)
RowType  == [status : {"absent", "deployed", "starting", "healthy", "degraded", "stopped",
                       "failed", "rolled-back"},
             man : Releases \cup {NoRelease}, app : Releases \cup {NoRelease},
             pid : BOOLEAN]
TreeType == [Trees -> SUBSET Files]
CallType == [op : {"none", "snapshot", "rollback", "recovery"},
             pc : {"idle", "trees", "stop", "backup", "clear", "copy",
                   "record", "start", "health", "done", "failed"},
             snap : Seconds \cup {0}, row : RowType, was : BOOLEAN,
             names : SUBSET Volumes, todo : SUBSET Trees, cur : Trees,
             backup : TreeType, since : Nat, mixed : SUBSET Trees]

(* TypeOK: rows, trees and the locals of the call stay in their types.     *)
TypeOK ==
    /\ row \in RowType
    /\ mounted \subseteq Volumes
    /\ alive \in BOOLEAN
    /\ stray \subseteq SUBSET Volumes /\ outlived \in BOOLEAN
    /\ live \in TreeType
    /\ snaps \subseteq Seconds
    /\ dirs \in [Seconds -> [man : Releases \cup {NoRelease}, trees : TreeType]]
    /\ clock \in 1 .. MaxSnapshots + 1
    /\ call \in CallType
    /\ attic \in [Volumes -> SUBSET Files]
    /\ writes \in Nat
    /\ owed \in [Volumes -> SUBSET Nat]
    /\ faults \in Nat

Init ==
    /\ row = AbsentRow
    /\ mounted = {} /\ alive = FALSE
    /\ stray = {} /\ outlived = FALSE
    /\ live = Nothing
    /\ snaps = {}
    /\ dirs = [n \in Seconds |-> [man |-> NoRelease, trees |-> Nothing]]
    /\ clock = 1
    /\ call = Idle
    /\ attic = [v \in Volumes |-> {}]
    /\ writes = 0 /\ faults = 0
    /\ owed = [v \in Volumes |-> {}]

------------------------------------------------------------------------------
Registered == row.status # "absent"
Fault(kind) == kind \in FaultKinds /\ faults < MaxFaults /\ faults' = faults + 1

(* Mutant of Occupied: by the status alone, as a service that was deployed *)
(* again while it ran has another one.                                     *)
OccupiedByStatus(r) == r.status \in {"starting", "healthy", "degraded"}

(* The row's pid counts also when its process has ended unnoticed.         *)
Occupied(r) == r.pid \/ r.status \in {"starting", "healthy", "degraded"}

files  == <<live, dirs, attic>>
shelf  == <<snaps, clock>>
traces == <<writes, owed>>
procs  == <<mounted, alive, stray, outlived>>

(* start_only, as far as it is seen from outside: it stages the code at    *)
(* app_path anew, over what it could not remove, and runs it with the      *)
(* manifest in the row.                                                    *)
Staged(rest) == [live EXCEPT ![Runtime] = rest \cup {row.app}]
Runs(rest, outcomes) ==
    /\ live' = Staged(rest)
    /\ alive' = TRUE /\ mounted' = Lists[row.man]
    /\ \E status \in outcomes : row' = [row EXCEPT !.status = status, !.pid = TRUE]
    /\ UNCHANGED <<stray, outlived>>
Starts ==
    /\ \/ Runs({}, {"healthy", "degraded"}) /\ UNCHANGED faults
       \/ /\ Fault("remove")
          /\ \E rest \in SUBSET live[Runtime] : Runs(rest, {"healthy", "degraded"})
    /\ UNCHANGED <<dirs, attic, shelf, traces>>

(* The process of the start that fails goes on.                            *)
Escapes == stray' = stray \cup {Lists[row.man]} /\ outlived' = TRUE

(* Where a start may end before its end: before it spawns the process;     *)
(* before the row knows it, which is undone or, on an error of SQLite,     *)
(* forgotten; with its network policy refused, and undone; and with the    *)
(* process recorded and running.                                           *)
StartLeaves ==
    \/ live' \in {live, [live EXCEPT ![Runtime] = {}]} /\ UNCHANGED <<row, procs>>
    \/ /\ live' = Staged({})
       /\ UNCHANGED <<row, alive, mounted>>
       /\ Escapes \/ UNCHANGED <<stray, outlived>>
    \/ /\ live' = Staged({})
       /\ row' = [row EXCEPT !.status = "failed", !.pid = FALSE]
       /\ UNCHANGED <<alive, mounted>>
       /\ (Isolated /\ Escapes) \/ UNCHANGED <<stray, outlived>>
    \/ Runs({}, {"starting", "healthy", "degraded"})

(* It also fails, before all this, while a process is in the old cgroup.   *)
StartBreaks ==
    /\ \/ Fault("start") /\ StartLeaves
       \/ Isolated /\ stray # {} /\ UNCHANGED <<row, procs, live, faults>>
    /\ UNCHANGED <<dirs, attic, shelf, traces>>

(* The recorded process ends; of an isolated service that is `unshare`,    *)
(* and what it has started may go on.                                      *)
Ends ==
    /\ alive' = FALSE /\ mounted' = {}
    /\ \/ UNCHANGED <<stray, outlived>>
       \/ Isolated /\ alive /\ stray' = stray \cup {mounted} /\ outlived' = TRUE
Stopped == [row EXCEPT !.status = "stopped", !.pid = FALSE]

(* A stop that fails before its kill.                                      *)
Missed == UNCHANGED <<row, alive, mounted, stray>> /\ outlived' = (outlived \/ alive)

(* stop_only: an isolated service without a cgroup is reported as stopped  *)
(* whatever goes on; with one, the clean-up fails, and the row says        *)
(* stopped already.  When the process ends just before the signal, or      *)
(* SQLite fails behind it, the row is as it was.                           *)
Stops ==
    /\ row' = Stopped /\ Ends
    /\ UNCHANGED <<files, shelf, traces, faults>>
StopBreaks ==
    /\ \/ Fault("stop") /\ row' \in {row, Stopped} /\ Ends
       \/ Fault("stop") /\ Missed
       \/ Isolated /\ row' = Stopped /\ Ends /\ stray' # {} /\ UNCHANGED faults
    /\ UNCHANGED <<files, shelf, traces>>

(* The row forgets the process, whether it runs or not.                    *)
Forgets ==
    /\ alive' = FALSE /\ mounted' = {}
    /\ stray' = IF alive THEN stray \cup {mounted} ELSE stray

------------------------------------------------------------------------------
(* The other operations *)

Free == call.op = "none"

Deploy(r) ==
    /\ Free
    /\ row' = [row EXCEPT !.status = "deployed", !.man = r, !.app = r]
    /\ UNCHANGED <<procs, files, shelf, call, traces, faults>>

Start ==
    /\ Free /\ Registered /\ ~(row.pid /\ alive)
    /\ Starts \/ StartBreaks
    /\ UNCHANGED call

Stop ==
    /\ Free /\ Registered
    /\ Stops \/ StopBreaks
    /\ UNCHANGED call

(* The volumes and the snapshots of a service outlive it; so does the row  *)
(* when the clean-up of the sandbox fails, and the runtime directory when  *)
(* the network rules or its removal fail.  That the process cannot be      *)
(* killed is ignored.                                                      *)
Destroy ==
    /\ Free /\ Registered
    /\ \/ /\ row' = AbsentRow /\ Ends
          /\ \/ live' = [live EXCEPT ![Runtime] = {}] /\ UNCHANGED faults
             \/ /\ Fault("remove")
                /\ \E rest \in SUBSET live[Runtime] : live' = [live EXCEPT ![Runtime] = rest]
       \/ Fault("stop") /\ row' \in {row, AbsentRow} /\ Ends /\ UNCHANGED live
       \/ Isolated /\ Ends /\ stray' # {} /\ UNCHANGED <<row, live, faults>>
       \/ /\ Fault("stop") /\ row' = AbsentRow /\ Forgets
          /\ outlived' = (outlived \/ alive)
          /\ live' = [live EXCEPT ![Runtime] = {}]
    /\ UNCHANGED <<dirs, attic, shelf, call, traces>>

------------------------------------------------------------------------------
(* snapshot_value *)

(* copy_tree                                                               *)
Onto(trees, t, src) == [trees EXCEPT ![t] = trees[t] \cup src]
Merge(n, t, src) == [dirs EXCEPT ![n].trees = Onto(dirs[n].trees, t, src)]

(* The runtime tree comes first, then the volumes.                         *)
Turn(t) == t \in call.todo /\ (Runtime \in call.todo => t = Runtime)

(* The directory is named by the second and made if it is not there; the   *)
(* manifest overwrites the one of a directory that is.                     *)
SnapBegin ==
    /\ Free /\ Registered /\ clock \in Seconds
    /\ dirs' = [dirs EXCEPT ![clock].man = row.man]
    /\ call' = [Idle EXCEPT !.op = "snapshot", !.pc = "trees", !.snap = clock,
                            !.todo = Lists[row.man] \cup {Runtime}]
    /\ clock' \in {clock, clock + 1}
    /\ UNCHANGED <<row, procs, live, snaps, attic, traces, faults>>

(* The service goes on writing while its volumes are copied one by one.    *)
SnapTree(t) ==
    /\ call.pc = "trees" /\ Turn(t)
    /\ dirs' = Merge(call.snap, t, live[t])
    /\ call' = [call EXCEPT !.todo = @ \ {t}]
    /\ UNCHANGED <<row, procs, live, attic, shelf, traces, faults>>

SnapTreeBreaks(t) ==
    /\ call.pc = "trees" /\ Turn(t)
    /\ Fault("copy")
    /\ \E part \in SUBSET live[t] : dirs' = Merge(call.snap, t, part)
    /\ call' = Idle
    /\ UNCHANGED <<row, procs, live, attic, shelf, traces>>

(* insert_snapshot: the name is unique, the second of its name is refused. *)
SnapInsert ==
    /\ call.pc = "trees" /\ call.todo = {}
    /\ snaps' = snaps \cup {call.snap}
    /\ call' = Idle
    /\ UNCHANGED <<row, procs, files, clock, traces, faults>>

------------------------------------------------------------------------------
(* rollback_only *)

(* Mutant of VolumeNames: only what the snapshot lists.                    *)
SnapshotVolumes(current, old) == Lists[old]

(* Mutant of VolumeNames: the runtime tree is taken for a volume.          *)
VolumeNamesAndRuntime(current, old) == Lists[current] \cup Lists[old] \cup {Runtime}

(* rollback_volume_names *)
VolumeNames(current, old) == Lists[current] \cup Lists[old]

RbBegin(n) ==
    /\ Free /\ Registered /\ n \in snaps
    /\ call' = [Idle EXCEPT !.op = "rollback", !.snap = n, !.row = row,
                            !.was = Occupied(row),
                            !.pc = IF Occupied(row) THEN "stop" ELSE "backup",
                            !.names = VolumeNames(row.man, dirs[n].man)]
    /\ UNCHANGED <<row, procs, files, shelf, traces, faults>>

Step(op, pc) == call.op = op /\ call.pc = pc
Goto(pc) == call' = [call EXCEPT !.pc = pc]

(* An error of the stop or of the backup is returned as it is.             *)
RbStop ==
    /\ Step("rollback", "stop")
    /\ \/ Stops /\ Goto("backup")
       \/ StopBreaks /\ call' = Idle

(* Mutant of TreesAtStake: the backup has the current manifest's volumes.  *)
TreesOfRow == Lists[row.man] \cup {Runtime}

TreesAtStake == call.names \cup {Runtime}
Copied(trees) == [t \in Trees |-> IF t \in trees THEN live[t] ELSE {}]

RbBackup ==
    /\ Step("rollback", "backup")
    /\ call' = [call EXCEPT !.pc = "clear", !.backup = Copied(TreesAtStake),
                            !.todo = TreesAtStake, !.since = writes, !.mixed = {}]
    /\ UNCHANGED <<row, procs, files, shelf, traces, faults>>

RbBackupBreaks ==
    /\ Step("rollback", "backup")
    /\ Fault("copy")
    /\ call' = Idle
    /\ UNCHANGED <<row, procs, files, shelf, traces>>

(* The recovery copies the backup back, the rollback the snapshot.         *)
Source == IF call.op = "rollback" THEN dirs[call.snap].trees ELSE call.backup

(* An error within the rollback is followed by the recovery, one within    *)
(* the recovery by the report that it failed.                              *)
Fails == IF call.op = "rollback" THEN call' = [call EXCEPT !.op = "recovery", !.pc = "stop"]
                                 ELSE Goto("failed")

(* restore_service_files: each tree is removed, then copied anew.          *)
Clear(t) ==
    /\ call.pc = "clear" /\ Turn(t)
    /\ live' = [live EXCEPT ![t] = {}]
    /\ call' = [call EXCEPT !.pc = "copy", !.cur = t, !.mixed = @ \ {t}]
    /\ UNCHANGED <<row, procs, dirs, attic, shelf, traces, faults>>

(* That a removal fails is ignored; it also does when someone writes.      *)
ClearBreaks(t) ==
    /\ call.pc = "clear" /\ Turn(t)
    /\ Fault("remove") \/ (t \in mounted \cup UNION stray /\ UNCHANGED faults)
    /\ \E rest \in SUBSET live[t] : live' = [live EXCEPT ![t] = rest]
    /\ call' = [call EXCEPT !.pc = "copy", !.cur = t, !.mixed = @ \cup {t}]
    /\ UNCHANGED <<row, procs, dirs, attic, shelf, traces>>

(* Mutant of Copy: the files are moved.                                    *)
CopyMoves ==
    /\ call.pc = "copy"
    /\ live' = Onto(live, call.cur, Source[call.cur])
    /\ dirs' = IF call.op = "rollback"
               THEN [dirs EXCEPT ![call.snap].trees[call.cur] = {}] ELSE dirs
    /\ call' = [call EXCEPT !.todo = @ \ {call.cur},
                            !.pc = IF call.todo = {call.cur} THEN "record" ELSE "clear"]
    /\ UNCHANGED <<row, procs, attic, shelf, traces, faults>>

Copy ==
    /\ call.pc = "copy"
    /\ live' = Onto(live, call.cur, Source[call.cur])
    /\ call' = [call EXCEPT !.todo = @ \ {call.cur},
                            !.pc = IF call.todo = {call.cur} THEN "record" ELSE "clear"]
    /\ UNCHANGED <<row, procs, dirs, attic, shelf, traces, faults>>

CopyBreaks ==
    /\ call.pc = "copy"
    /\ Fault("copy")
    /\ \E part \in SUBSET Source[call.cur] : live' = Onto(live, call.cur, part)
    /\ Fails
    /\ UNCHANGED <<row, procs, dirs, attic, shelf, traces>>

(* The manifest comes from the snapshot, app_path and plan stay.           *)
Rolled == [row EXCEPT !.status = "rolled-back", !.man = dirs[call.snap].man,
                      !.app = call.row.app]
RbRecord ==
    /\ Step("rollback", "record")
    /\ row' = Rolled
    /\ Goto("start")
    /\ UNCHANGED <<procs, files, shelf, traces, faults>>

(* Mutant of RcRecord: only the status and the pid are put back.           *)
RcRecordStatus ==
    /\ Step("recovery", "record")
    /\ row' = [row EXCEPT !.status = IF call.was THEN "stopped" ELSE call.row.status,
                          !.pid = FALSE]
    /\ Forgets
    /\ Goto(IF call.was THEN "start" ELSE "done")
    /\ UNCHANGED <<outlived, files, shelf, traces, faults>>

(* restore_service_record: upsert_service, then the pid is cleared.        *)
Restored == [call.row EXCEPT !.status = IF call.was THEN "stopped" ELSE @, !.pid = row.pid]
RcRecord ==
    /\ Step("recovery", "record")
    /\ row' = [Restored EXCEPT !.pid = FALSE]
    /\ Forgets
    /\ Goto(IF call.was THEN "start" ELSE "done")
    /\ UNCHANGED <<outlived, files, shelf, traces, faults>>

(* An error of SQLite before or behind the upsert.                         *)
RecordBreaks ==
    /\ call.pc = "record"
    /\ Fault("sql")
    /\ row' \in {row, IF call.op = "rollback" THEN Rolled ELSE Restored}
    /\ Fails
    /\ UNCHANGED <<procs, files, shelf, traces>>

RbStart ==
    /\ call.pc = "start"
    /\ \/ Starts /\ Goto(IF call.op = "recovery" /\ call.row.status = "healthy"
                         THEN "health" ELSE "done")
       \/ StartBreaks /\ Fails

(* The recovery stops what the failed start left; that it cannot be        *)
(* stopped is ignored.                                                     *)
RcStop ==
    /\ Step("recovery", "stop")
    /\ \/ Occupied(row) /\ (Stops \/ StopBreaks)
       \/ ~Occupied(row) /\ UNCHANGED <<row, procs, files, shelf, traces, faults>>
    /\ call' = [call EXCEPT !.pc = "clear", !.todo = TreesAtStake]

(* reconcile_service_health: half a minute for the check to succeed, then  *)
(* the pid read before it is written again, whatever became of the process.*)
RcHealth ==
    /\ call.pc = "health"
    /\ row' \in {row, [row EXCEPT !.status = "healthy", !.pid = TRUE]}
    /\ Goto("done")
    /\ UNCHANGED <<procs, files, shelf, traces, faults>>

(* The call reports how it went, and removes the backup: after a success,  *)
(* a recovery, and also when "rollback failed and recovery failed".        *)
Finish ==
    /\ call.pc \in {"done", "failed"}
    /\ call' = Idle
    /\ owed' = IF Step("recovery", "done") THEN owed
               ELSE [v \in Volumes |-> IF v \in call.names THEN live[v] \cap Nat ELSE owed[v]]
    /\ UNCHANGED <<row, procs, files, shelf, writes, faults>>

------------------------------------------------------------------------------
(* What happens beside the call *)

(* What is written under a rollback, behind its backup, is undone with it, *)
(* or goes with what it replaces.                                          *)
Trial(v) ==
    /\ v \in call.names
    /\ \/ call.op = "rollback" /\ call.pc \notin {"stop", "backup"}
       \/ call.op = "recovery" /\ call.pc \in {"stop", "clear", "copy"}

(* A process writes a new file into one of its volumes.                    *)
Write(v) ==
    /\ v \in mounted \cup UNION stray /\ writes < MaxWrites
    /\ writes' = writes + 1
    /\ live' = Onto(live, v, {writes + 1})
    /\ owed' = IF Trial(v) THEN owed ELSE [owed EXCEPT ![v] = @ \cup {writes + 1}]
    /\ UNCHANGED <<row, procs, dirs, attic, shelf, call, faults>>

Exit ==
    /\ alive
    /\ Ends
    /\ UNCHANGED <<row, files, shelf, call, traces, faults>>

StrayEnds ==
    /\ \E s \in stray : stray' = stray \ {s}
    /\ UNCHANGED <<row, mounted, alive, outlived, files, shelf, call, traces, faults>>

(* The reconcile loop notices that the process has ended.                  *)
Notice ==
    /\ row.pid /\ ~alive
    /\ row' = [row EXCEPT !.status = "failed", !.pid = FALSE]
    /\ UNCHANGED <<procs, files, shelf, call, traces, faults>>

(* The daemon is killed within the call, and what it was at is cut off; a  *)
(* backup stays on the disk, and nothing will read it.  An error of SQLite *)
(* at the first line of the recovery leaves no more than that.  (What is   *)
(* cut off in a snapshot is what SnapTreeBreaks leaves.)                   *)
CutOff ==
    \/ UNCHANGED <<row, procs, live>>
    \/ /\ call.pc = "clear" /\ UNCHANGED <<row, procs>>
       /\ \E t \in call.todo : \E rest \in SUBSET live[t] :
             Turn(t) /\ live' = [live EXCEPT ![t] = rest]
    \/ /\ call.pc = "copy" /\ UNCHANGED <<row, procs>>
       /\ \E part \in SUBSET Source[call.cur] : live' = Onto(live, call.cur, part)
    \/ call.pc = "stop" /\ Occupied(row) /\ row' \in {row, Stopped} /\ Ends /\ UNCHANGED live
    \/ call.pc = "start" /\ StartLeaves

Crash ==
    /\ ~Free
    /\ Fault("crash")
    /\ CutOff
    /\ attic' = [v \in Volumes |-> attic[v] \cup call.backup[v]]
    /\ call' = Idle
    /\ UNCHANGED <<dirs, shelf, traces>>

(* The reconcile loop writes down what a health check told it.             *)
Probe ==
    /\ row.pid /\ alive
    /\ \E status \in {"healthy", "degraded"} : row' = [row EXCEPT !.status = status]
    /\ UNCHANGED <<procs, files, shelf, call, traces, faults>>

Request ==
    \/ Start \/ Stop \/ Destroy \/ SnapBegin
    \/ \E r \in Releases : Deploy(r)
    \/ \E n \in Seconds : RbBegin(n)

Proceed ==
    \/ SnapInsert \/ RbStop \/ RbBackup \/ RbBackupBreaks \/ Copy \/ CopyBreaks
    \/ RbRecord \/ RcRecord \/ RecordBreaks \/ RbStart \/ RcStop \/ RcHealth \/ Finish
    \/ \E t \in Trees : SnapTree(t) \/ SnapTreeBreaks(t) \/ Clear(t) \/ ClearBreaks(t)

Next ==
    \/ Request \/ Proceed \/ Exit \/ StrayEnds \/ Notice \/ Probe \/ Crash
    \/ \E v \in Volumes : Write(v)

Spec == Init /\ [][Next]_vars

------------------------------------------------------------------------------
(* Properties *)

(* NothingLost: a file that was written to a volume while no rollback had  *)
(* it in its backup already is in the volume, or in the backup of the call *)
(* under way, or in one that a killed call left behind, until a rollback   *)
(* has been reported as done, or as failed together with its recovery.     *)
(* Whatever fails, whoever goes on writing, and wherever the daemon is     *)
(* killed, somebody can put the volume back together.                      *)
NothingLost ==
    \A v \in Volumes : owed[v] \subseteq live[v] \cup attic[v] \cup call.backup[v]

(* Quiesced: nobody writes while trees are copied and replaced, so that    *)
(* what is written behind the backup is the new release's: whatever the    *)
(* row said of the service, and whatever a failed start has left, no       *)
(* process runs then but one that has outlived its stop.                   *)
Quiesced ==
    call.pc \in {"backup", "clear", "copy"} /\ ~outlived => ~alive /\ stray = {}

(* What a volume of the rollback held when it was backed up.               *)
Since(v) == {f \in live[v] : f \in Nat => f <= call.since}

(* The volumes that the release before or the release of the snapshot has. *)
Concerned == Lists[call.row.man] \cup Lists[dirs[call.snap].man]

(* The volume holds these files; and no others, but for what was written   *)
(* behind the backup, if the removal of what it held did not fail.         *)
Holds(v, content) ==
    /\ content \subseteq live[v]
    /\ v \notin call.mixed => Since(v) = content

(* RolledBackIsNew: a rollback that reports success has put every volume   *)
(* that the old or the new manifest lists into the state of the snapshot,  *)
(* also those it does not hold (with old files among the new ones only     *)
(* where their removal failed, which it does not report), and the row      *)
(* carries the manifest the snapshot was taken with, with the process      *)
(* running by that manifest.                                               *)
RolledBackIsNew ==
    Step("rollback", "done") =>
        /\ \A v \in Concerned : Holds(v, dirs[call.snap].trees[v])
        /\ row.man = dirs[call.snap].man
        /\ alive => mounted = Lists[row.man]

(* RestoredIsOld: "restored pre-rollback service state" is true: every     *)
(* volume holds what it held (with files of the rollback among them only   *)
(* where their removal failed), the row names the same release, and the    *)
(* service runs (or has ended since) exactly when it did before, unless a  *)
(* process has outlived its stop.                                          *)
RestoredIsOld ==
    Step("recovery", "done") =>
        /\ \A v \in Concerned : Holds(v, call.backup[v])
        /\ row.man = call.row.man /\ row.app = call.row.app
        /\ call.was => Occupied(row) \/ row.status = "failed"
        /\ ~call.was => /\ row.status = call.row.status /\ ~row.pid
                        /\ ~outlived => ~alive /\ stray = {}

(* SnapshotsFrozen: once a snapshot is listed nothing changes its files,   *)
(* and no rollback to it, failed or cut off or not, uses it up; only a     *)
(* snapshot taken in the same second, whose directory it is too, adds to   *)
(* it.                                                                     *)
SnapshotsFrozen ==
    [][\A n \in snaps :
          /\ n \in snaps'
          /\ \/ dirs'[n] = dirs[n]
             \/ \E c \in {call, call'} : c.op = "snapshot" /\ c.snap = n]_vars

------------------------------------------------------------------------------
(* What a document says, and the code does not do *)

(* CodeRolledBack: SPEC.md lists "filesystem snapshot" first among what a  *)
(* snapshot holds for a rollback: after a rollback that reports success,   *)
(* to a snapshot of another release that holds its manifest and its code,  *)
(* the service runs that code.                                             *)
OfAnother(dir) == dir.man # call.row.man /\ dir.trees[Runtime] = {dir.man}
CodeRolledBack ==
    Step("rollback", "done") /\ OfAnother(dirs[call.snap]) =>
        live[Runtime] = dirs[call.snap].trees[Runtime]
===============================================================================
