---------------------------- MODULE RollbackProofs ----------------------------
(***************************************************************************)
(* What holds of Rollback for every set of releases and volumes, and under *)
(* any number of failures and kills.                                       *)
(***************************************************************************)
EXTENDS Rollback, TLAPS

DirType  == [man : Releases \cup {NoRelease}, trees : TreeType]
Statuses == {"absent", "deployed", "starting", "healthy", "degraded", "stopped", "failed",
             "rolled-back"}

(* A row exists with its release or not at all, and not for a call in vain. *)
Registry ==
    /\ row = AbsentRow \/ (row.status # "absent" /\ {row.man, row.app} \subseteq Releases)
    /\ call.op # "none" => row.status # "absent"

(* The step of a call tells which call it is.                              *)
Shape ==
    /\ call.op = "none" <=> call.pc = "idle"
    /\ call.op = "snapshot" <=> call.pc = "trees"

(* Listed snapshots have a manifest, and calls work on listed snapshots,   *)
(* or on the one they make.                                                *)
Catalog ==
    /\ \A n \in snaps : dirs[n].man \in Releases
    /\ call.op = "snapshot" => call.snap \in Seconds /\ dirs[call.snap].man \in Releases
    /\ call.op \in {"rollback", "recovery"} =>
          /\ call.snap \in snaps
          /\ call.row.status # "absent" /\ {call.row.man, call.row.app} \subseteq Releases

Typed == TypeOK /\ Registry /\ Shape /\ Catalog

------------------------------------------------------------------------------
(* Rows, trees and calls *)

LEMMA RowFields ==
    \A r \in RowType : /\ r.status \in Statuses /\ r.pid \in BOOLEAN
                       /\ r.man \in Releases \cup {NoRelease}
                       /\ r.app \in Releases \cup {NoRelease}
  BY DEF RowType, Statuses

LEMMA RowMade ==
    \A st \in Statuses, m \in Releases \cup {NoRelease}, a \in Releases \cup {NoRelease},
       p \in BOOLEAN : [status |-> st, man |-> m, app |-> a, pid |-> p] \in RowType
  BY DEF RowType, Statuses

LEMMA OntoType ==
    ASSUME NEW trees \in TreeType, NEW t \in Trees, NEW src \in SUBSET Files
    PROVE  Onto(trees, t, src) \in TreeType
  BY DEF Onto, TreeType

LEMMA MergeType ==
    ASSUME dirs \in [Seconds -> DirType], NEW n \in Seconds, NEW t \in Trees,
           NEW src \in SUBSET Files
    PROVE  /\ Merge(n, t, src) \in [Seconds -> DirType]
           /\ \A k \in Seconds : Merge(n, t, src)[k].man = dirs[k].man
           /\ \A k \in Seconds : k # n => Merge(n, t, src)[k] = dirs[k]
  <1>1. dirs[n].trees \in TreeType
    BY DEF DirType
  <1>2. Onto(dirs[n].trees, t, src) \in TreeType
    BY <1>1, OntoType
  <1>3. [dirs[n] EXCEPT !.trees = Onto(dirs[n].trees, t, src)] \in DirType
    BY <1>2 DEF DirType
  <1> QED BY <1>2, <1>3 DEF Merge, DirType

LEMMA Empties == /\ AbsentRow \in RowType /\ Nothing \in TreeType /\ Idle \in CallType
                 /\ Idle.op = "none" /\ Idle.pc = "idle" /\ Idle.backup = Nothing
  <1>1. AbsentRow \in RowType
    BY DEF AbsentRow, RowType
  <1>2. Nothing \in TreeType
    BY DEF Nothing, TreeType
  <1>3. Runtime \in Trees
    BY DEF Trees
  <1> QED BY <1>1, <1>2, <1>3 DEF Idle, CallType

LEMMA CallFields ==
    \A c \in CallType : /\ c.snap \in Seconds \cup {0} /\ c.row \in RowType
                        /\ c.names \in SUBSET Volumes /\ c.todo \in SUBSET Trees
                        /\ c.cur \in Trees /\ c.backup \in TreeType /\ c.was \in BOOLEAN
                        /\ c.mixed \in SUBSET Trees
  BY DEF CallType

LEMMA SourceType ==
    ASSUME Typed, call.op \in {"rollback", "recovery"}
    PROVE  Source \in TreeType
  <1>1. call.snap \in Seconds
    BY DEF Typed, Catalog, TypeOK
  <1>2. dirs[call.snap].trees \in TreeType
    BY <1>1 DEF Typed, TypeOK
  <1> QED BY <1>2, CallFields DEF Source, Typed, TypeOK

------------------------------------------------------------------------------
(* What a start and a stop leave, whatever becomes of them.                *)

There   == row.status # "absent" /\ row.man \in Releases /\ row.app \in Releases
Machine == row \in RowType /\ mounted \subseteq Volumes /\ alive \in BOOLEAN
           /\ stray \subseteq SUBSET Volumes /\ outlived \in BOOLEAN /\ live \in TreeType
Process == Machine /\ faults \in Nat

LEMMA FaultType == ASSUME TypeOK, NEW kind, Fault(kind) PROVE faults' \in Nat
  BY DEF TypeOK, Fault

LEMMA OneTreeType ==
    ASSUME TypeOK, NEW t \in Trees, NEW rest \in SUBSET live[t]
    PROVE  [live EXCEPT ![t] = rest] \in TreeType
  BY DEF TypeOK, TreeType

LEMMA StagedType ==
    ASSUME TypeOK, There, NEW rest \in SUBSET Files
    PROVE  Staged(rest) \in TreeType
  BY DEF TypeOK, There, Staged, TreeType, Files, Trees

LEMMA RunsTyped ==
    ASSUME TypeOK, There, NEW rest \in SUBSET Files,
           NEW outcomes \in SUBSET {"starting", "healthy", "degraded"}, Runs(rest, outcomes)
    PROVE  There' /\ Machine'
  <1>1. PICK status \in outcomes : row' = [row EXCEPT !.status = status, !.pid = TRUE]
    BY DEF Runs
  <1>2. row' \in RowType /\ There'
    BY <1>1 DEF TypeOK, There, RowType
  <1>3. mounted' \subseteq Volumes
    BY RollbackAssumption DEF Runs, There
  <1> QED BY <1>2, <1>3, StagedType DEF Runs, Machine, TypeOK

LEMMA EscapesTyped ==
    ASSUME TypeOK, There, Escapes \/ UNCHANGED <<stray, outlived>>
    PROVE  stray' \subseteq SUBSET Volumes /\ outlived' \in BOOLEAN
  <1>1. Lists[row.man] \in SUBSET Volumes
    BY RollbackAssumption DEF There
  <1>2. CASE Escapes
    BY <1>1, <1>2 DEF TypeOK, Escapes
  <1>3. CASE UNCHANGED <<stray, outlived>>
    BY <1>3 DEF TypeOK
  <1> QED BY <1>2, <1>3

LEMMA LeavesTyped ==
    ASSUME TypeOK, There, StartLeaves
    PROVE  There' /\ Machine'
  <1>1. CASE live' \in {live, [live EXCEPT ![Runtime] = {}]} /\ UNCHANGED <<row, procs>>
    <2>1. [live EXCEPT ![Runtime] = {}] \in TreeType
      BY DEF TypeOK, TreeType
    <2> QED BY <1>1, <2>1 DEF Machine, TypeOK, There, procs
  <1>2. CASE /\ live' = Staged({}) /\ UNCHANGED <<row, alive, mounted>>
             /\ Escapes \/ UNCHANGED <<stray, outlived>>
    BY <1>2, StagedType, EscapesTyped DEF Machine, TypeOK, There
  <1>3. CASE /\ live' = Staged({}) /\ UNCHANGED <<alive, mounted>>
             /\ row' = [row EXCEPT !.status = "failed", !.pid = FALSE]
             /\ (Isolated /\ Escapes) \/ UNCHANGED <<stray, outlived>>
    <2>1. row' \in RowType /\ There'
      BY <1>3 DEF TypeOK, There, RowType
    <2> QED BY <1>3, <2>1, StagedType, EscapesTyped DEF Machine, TypeOK
  <1>4. CASE Runs({}, {"starting", "healthy", "degraded"})
    BY <1>4, RunsTyped
  <1> QED BY <1>1, <1>2, <1>3, <1>4 DEF StartLeaves

LEMMA RuntimeFiles == ASSUME TypeOK PROVE live[Runtime] \in SUBSET Files
  BY DEF TypeOK, TreeType, Trees

LEMMA StartTyped ==
    ASSUME TypeOK, There, Starts \/ StartBreaks
    PROVE  There' /\ Process' /\ UNCHANGED <<dirs, attic, shelf, traces>>
  <1>1. CASE Starts
    <2>1. CASE Runs({}, {"healthy", "degraded"}) /\ UNCHANGED faults
      BY <1>1, <2>1, RunsTyped DEF Starts, Process, TypeOK
    <2>2. ASSUME Fault("remove"), NEW rest \in SUBSET live[Runtime],
                 Runs(rest, {"healthy", "degraded"})
          PROVE  There' /\ Process'
      BY <2>2, RunsTyped, RuntimeFiles, FaultType DEF Process
    <2> QED BY <1>1, <2>1, <2>2 DEF Starts
  <1>2. CASE StartBreaks
    <2>1. CASE Fault("start") /\ StartLeaves
      BY <1>2, <2>1, LeavesTyped, FaultType DEF StartBreaks, Process
    <2>2. CASE UNCHANGED <<row, procs, live, faults>>
      BY <1>2, <2>2 DEF StartBreaks, Process, Machine, TypeOK, There, procs
    <2> QED BY <1>2, <2>1, <2>2 DEF StartBreaks
  <1> QED BY <1>1, <1>2

LEMMA EndsTyped ==
    ASSUME TypeOK, Ends \/ Missed \/ (Forgets /\ outlived' \in BOOLEAN)
    PROVE  /\ mounted' \subseteq Volumes /\ alive' \in BOOLEAN
           /\ stray' \subseteq SUBSET Volumes /\ outlived' \in BOOLEAN
  BY DEF TypeOK, Ends, Missed, Forgets

LEMMA StoppedType ==
    ASSUME TypeOK
    PROVE  /\ Stopped \in RowType /\ Stopped.status = "stopped" /\ ~Stopped.pid
           /\ Stopped.man = row.man /\ Stopped.app = row.app
  BY DEF TypeOK, Stopped, RowType

LEMMA StopTyped ==
    ASSUME TypeOK, There, Stops \/ StopBreaks
    PROVE  There' /\ Process' /\ UNCHANGED <<files, shelf, traces>>
  <1>1. row' \in {row, Stopped} /\ faults' \in Nat /\ (Ends \/ Missed)
        /\ UNCHANGED <<files, shelf, traces>>
    BY FaultType DEF Stops, StopBreaks, Missed, TypeOK
  <1>2. There' /\ row' \in RowType
    BY <1>1, StoppedType DEF There, TypeOK
  <1> QED BY <1>1, <1>2, EndsTyped DEF Process, Machine, TypeOK, files

(* Whatever changes neither the catalogue nor the call, and leaves the row *)
(* in place.                                                               *)
LEMMA RowStep ==
    ASSUME Typed, There', Process', UNCHANGED <<dirs, attic, shelf, call, traces>>
    PROVE  Typed'
  <1>1. TypeOK'
    BY DEF Typed, TypeOK, Process, Machine, shelf, traces
  <1>2. Registry'
    BY DEF Typed, Registry, There
  <1>3. Shape' /\ Catalog'
    BY DEF Typed, Shape, Catalog, shelf
  <1> QED BY <1>1, <1>2, <1>3 DEF Typed

LEMMA Present == ASSUME Typed, row.status # "absent" PROVE There
  BY DEF Typed, Registry, There, AbsentRow

LEMMA FreeStarts == ASSUME Typed, Start PROVE Typed'
  <1>1. There
    BY Present DEF Start, Registered
  <1> QED BY <1>1, StartTyped, RowStep DEF Start, Typed

LEMMA FreeStops == ASSUME Typed, Stop PROVE Typed'
  <1>1. There
    BY Present DEF Stop, Registered
  <1> QED BY <1>1, StopTyped, RowStep DEF Stop, Typed, files

LEMMA FreeDeploys == ASSUME Typed, NEW r \in Releases, Deploy(r) PROVE Typed'
  <1>1. row' \in RowType /\ There'
    <2>1. row \in RowType
      BY DEF Typed, TypeOK
    <2> QED BY <2>1 DEF Deploy, RowType, There
  <1>2. Process'
    BY <1>1 DEF Deploy, Process, Machine, Typed, TypeOK, files, procs
  <1> QED BY <1>1, <1>2, RowStep DEF Deploy, files

LEMMA FreeDestroys == ASSUME Typed, Destroy PROVE Typed'
  <1> USE DEF Destroy
  <1>1. TypeOK /\ There
    BY Present DEF Registered, Typed
  <1>2. row' \in {row, AbsentRow} /\ faults' \in Nat
    BY <1>1, FaultType DEF TypeOK
  <1>3. live' \in TreeType
    <2>1. Runtime \in Trees /\ {} \in SUBSET live[Runtime]
      BY DEF Trees
    <2>2. \A rest \in SUBSET live[Runtime] : [live EXCEPT ![Runtime] = rest] \in TreeType
      BY <1>1, <2>1, OneTreeType
    <2> QED BY <1>1, <2>1, <2>2 DEF TypeOK
  <1>4. Ends \/ (Forgets /\ outlived' \in BOOLEAN)
    BY <1>1 DEF TypeOK
  <1>5. TypeOK'
    BY <1>1, <1>2, <1>3, <1>4, EndsTyped, Empties DEF TypeOK, shelf, traces
  <1>6. Registry' /\ Shape' /\ Catalog'
    BY <1>2 DEF Typed, Registry, Shape, Catalog, shelf, Free
  <1> QED BY <1>5, <1>6 DEF Typed

LEMMA Beside ==
    ASSUME Typed, Exit \/ StrayEnds \/ Notice \/ Probe
    PROVE  Typed'
  <1>1. CASE Exit
    <2>1. TypeOK'
      BY <1>1, EndsTyped DEF Exit, Typed, TypeOK, files, shelf, traces
    <2> QED BY <1>1, <2>1 DEF Exit, Typed, Registry, Shape, Catalog, files, shelf
  <1>2. CASE StrayEnds
    BY <1>2 DEF StrayEnds, Typed, TypeOK, Registry, Shape, Catalog, files, shelf, traces
  <1>3. CASE Notice
    <2>1. There
      BY <1>3, Present DEF Notice, Typed, Registry, AbsentRow
    <2>2. There' /\ Process'
      BY <1>3, <2>1 DEF Notice, There, Process, Machine, Typed, TypeOK, files, procs, RowType
    <2> QED BY <1>3, <2>2, RowStep DEF Notice, files
  <1>4. CASE Probe
    <2>1. There
      BY <1>4, Present DEF Probe, Typed, Registry, AbsentRow
    <2>2. PICK status \in {"healthy", "degraded"} : row' = [row EXCEPT !.status = status]
      BY <1>4 DEF Probe
    <2>3. There' /\ Process'
      BY <1>4, <2>1, <2>2
         DEF Probe, There, Process, Machine, Typed, TypeOK, files, procs, RowType
    <2> QED BY <1>4, <2>3, RowStep DEF Probe, files
  <1> QED BY <1>1, <1>2, <1>3, <1>4

------------------------------------------------------------------------------
(* Calls *)

LEMMA IdleTyped ==
    ASSUME call' = Idle
    PROVE  /\ call' \in CallType /\ Shape' /\ call'.op = "none"
  BY Empties DEF Shape

(* A call that ends leaves what was typed without it.                      *)
LEMMA EndTyped ==
    ASSUME Typed, call' = Idle, There', Machine', UNCHANGED clock,
           dirs' \in [Seconds -> DirType],
           snaps' \subseteq Seconds, \A n \in snaps' : dirs'[n].man \in Releases,
           attic' \in [Volumes -> SUBSET Files], writes' \in Nat,
           owed' \in [Volumes -> SUBSET Nat], faults' \in Nat
    PROVE  Typed'
  <1>1. TypeOK'
    BY IdleTyped DEF Typed, TypeOK, DirType, Machine
  <1>2. Registry'
    BY IdleTyped DEF Typed, Registry, There
  <1>3. Shape' /\ Catalog'
    BY IdleTyped DEF Catalog
  <1> QED BY <1>1, <1>2, <1>3 DEF Typed

(* Neither the row nor the processes change.                               *)
LEMMA Stays == ASSUME Typed, There, UNCHANGED <<row, procs, live>>
               PROVE  There' /\ Machine'
  BY DEF Typed, TypeOK, There, Machine, procs

LEMMA BusyThere == ASSUME Typed, call.op # "none" PROVE There
  BY DEF Typed, Registry, There, AbsentRow

LEMMA LiveFiles == ASSUME Typed, NEW t \in Trees PROVE live[t] \in SUBSET Files
  BY DEF Typed, TypeOK, TreeType

LEMMA DirsTyped == ASSUME Typed PROVE dirs \in [Seconds -> DirType]
  BY DEF Typed, TypeOK, DirType

LEMMA VolumeTrees == Volumes \subseteq Trees /\ Runtime \in Trees
  BY DEF Trees

LEMMA SnapBegins == ASSUME Typed, SnapBegin PROVE Typed'
  <1> USE DEF SnapBegin
  <1>1. There
    BY Present DEF Registered
  <1>2. dirs' \in [Seconds -> DirType] /\ dirs'[clock].man = row.man
        /\ \A n \in Seconds : dirs'[n].man \in {dirs[n].man, row.man}
    BY <1>1, DirsTyped DEF There, DirType
  <1>3. call' \in CallType /\ call'.op = "snapshot" /\ call'.pc = "trees" /\ call'.snap = clock
    <2>1. Lists[row.man] \cup {Runtime} \in SUBSET Trees
      BY <1>1, RollbackAssumption, VolumeTrees DEF There
    <2> QED BY <2>1, Empties DEF CallType
  <1>4. clock' \in 1 .. MaxSnapshots + 1
    BY RollbackAssumption DEF Seconds
  <1>5. TypeOK'
    BY <1>2, <1>3, <1>4 DEF Typed, TypeOK, DirType, procs, traces
  <1>6. Registry' /\ Shape'
    BY <1>1, <1>3 DEF Typed, Registry, Shape, There
  <1>7. Catalog'
    BY <1>1, <1>2, <1>3 DEF Typed, TypeOK, Catalog, There
  <1> QED BY <1>5, <1>6, <1>7 DEF Typed

LEMMA SnapTrees == ASSUME Typed, NEW t \in Trees, SnapTree(t) PROVE Typed'
  <1> USE DEF SnapTree
  <1>1. call.op = "snapshot" /\ call.snap \in Seconds
    BY DEF Typed, Shape, Catalog
  <1>2. dirs' \in [Seconds -> DirType] /\ \A n \in Seconds : dirs'[n].man = dirs[n].man
    BY <1>1, MergeType, DirsTyped, LiveFiles
  <1>3. call' \in CallType /\ call'.op = "snapshot" /\ call'.pc = "trees" /\ call'.snap = call.snap
    BY <1>1 DEF Typed, TypeOK, CallType
  <1>4. TypeOK'
    BY <1>2, <1>3 DEF Typed, TypeOK, DirType, procs, shelf, traces
  <1>5. Registry' /\ Shape'
    BY <1>1, <1>3 DEF Typed, Registry, Shape
  <1>6. Catalog'
    BY <1>1, <1>2, <1>3 DEF Typed, TypeOK, Catalog, shelf
  <1> QED BY <1>4, <1>5, <1>6 DEF Typed

LEMMA SnapTreeBreak == ASSUME Typed, NEW t \in Trees, SnapTreeBreaks(t) PROVE Typed'
  <1> USE DEF SnapTreeBreaks
  <1>1. call.op = "snapshot" /\ call.snap \in Seconds
    BY DEF Typed, Shape, Catalog
  <1>2. PICK part \in SUBSET live[t] : dirs' = Merge(call.snap, t, part)
    OBVIOUS
  <1>3. part \in SUBSET Files
    BY LiveFiles
  <1>4. dirs' \in [Seconds -> DirType] /\ \A n \in Seconds : dirs'[n].man = dirs[n].man
    BY <1>1, <1>2, <1>3, MergeType, DirsTyped
  <1>5. faults' \in Nat
    BY FaultType DEF Typed
  <1>6. There' /\ Machine'
    BY <1>1, BusyThere, Stays
  <1>7. \A n \in snaps' : dirs'[n].man \in Releases
    BY <1>4 DEF Typed, TypeOK, Catalog, shelf
  <1> QED BY <1>4, <1>5, <1>6, <1>7, EndTyped DEF Typed, TypeOK, shelf, traces

LEMMA SnapInserts == ASSUME Typed, SnapInsert PROVE Typed'
  <1> USE DEF SnapInsert
  <1>1. call.op = "snapshot" /\ call.snap \in Seconds /\ dirs[call.snap].man \in Releases
    BY DEF Typed, Shape, Catalog
  <1>2. There' /\ Machine'
    BY <1>1, BusyThere, Stays DEF files
  <1>3. \A n \in snaps' : dirs'[n].man \in Releases
    BY <1>1 DEF Typed, Catalog, files
  <1>4. snaps' \subseteq Seconds
    BY <1>1 DEF Typed, TypeOK
  <1> QED BY <1>2, <1>3, <1>4, DirsTyped, EndTyped DEF Typed, TypeOK, files, traces

------------------------------------------------------------------------------
(* The rollback and its recovery *)

Later == {"stop", "backup", "clear", "copy", "record", "start", "health", "done", "failed"}
Going(c) == /\ c \in CallType /\ c.op \in {"rollback", "recovery"} /\ c.pc \in Later
            /\ c.snap \in snaps
            /\ c.row.status # "absent" /\ {c.row.man, c.row.app} \subseteq Releases

LEMMA InRollback == ASSUME Typed, call.pc \in Later PROVE Going(call) /\ There
  <1>1. call.op \in {"rollback", "recovery"}
    BY DEF Typed, Shape, TypeOK, CallType, Later
  <1> QED BY <1>1, BusyThere DEF Typed, Catalog, TypeOK, Going

LEMMA CallStep ==
    ASSUME Typed, NEW c \in CallType, Going(c), call' = c, There', Process',
           UNCHANGED <<dirs, attic, shelf, traces>>
    PROVE  Typed'
  <1>1. TypeOK'
    BY DEF Typed, TypeOK, Process, Machine, shelf, traces
  <1>2. Registry' /\ Shape'
    BY DEF Registry, There, Shape, Going, Later
  <1>3. Catalog'
    BY DEF Typed, Catalog, Going, shelf
  <1> QED BY <1>1, <1>2, <1>3 DEF Typed

LEMMA GoesOn == ASSUME Going(call), NEW pc \in Later
                PROVE  Going([call EXCEPT !.pc = pc])
  BY DEF Going, CallType, Later

LEMMA StakeTyped == ASSUME Typed PROVE TreesAtStake \in SUBSET Trees /\ Copied(TreesAtStake) \in TreeType
  <1>1. TreesAtStake \in SUBSET Trees
    BY VolumeTrees, CallFields DEF TreesAtStake, Typed, TypeOK
  <1>2. \A t \in Trees : (IF t \in TreesAtStake THEN live[t] ELSE {}) \in SUBSET Files
    BY LiveFiles
  <1> QED BY <1>1, <1>2 DEF Copied, TreeType

LEMMA Begins == ASSUME Typed, NEW n \in Seconds, RbBegin(n) PROVE Typed'
  <1> USE DEF RbBegin
  <1>1. There
    BY Present DEF Registered
  <1>2. VolumeNames(row.man, dirs[n].man) \in SUBSET Volumes
    BY <1>1, RollbackAssumption DEF VolumeNames, Typed, Catalog, There
  <1>3. Occupied(row) \in BOOLEAN
    BY DEF Occupied, Typed, TypeOK, RowType
  <1>4. Going(call')
    <2>1. call' \in CallType
      BY <1>2, <1>3, Empties DEF CallType, Typed, TypeOK
    <2>2. call'.op = "rollback" /\ call'.snap = n /\ call'.row = row /\ call'.pc \in Later
      BY <1>3 DEF Idle, Later
    <2> QED BY <1>1, <2>1, <2>2 DEF Going, There
  <1> DEFINE c == call'
  <1>5. c \in CallType
    BY <1>4 DEF Going
  <1>6. There' /\ Process'
    BY <1>1, Stays DEF Process, Typed, TypeOK, files
  <1> QED BY <1>4, <1>5, <1>6, CallStep DEF files

LEMMA Stopping == ASSUME Typed, RbStop PROVE Typed'
  <1>1. Going(call) /\ There
    BY InRollback DEF RbStop, Step, Later
  <1>2. There' /\ Process' /\ UNCHANGED <<files, shelf, traces>>
    BY <1>1, StopTyped DEF RbStop, Typed
  <1>3. CASE Goto("backup")
    <2>1. Going([call EXCEPT !.pc = "backup"])
      BY <1>1, GoesOn DEF Later
    <2> QED BY <1>2, <1>3, <2>1, CallStep DEF Goto, Going, files
  <1>4. CASE call' = Idle
    BY <1>2, <1>4, EndTyped, DirsTyped
       DEF Typed, TypeOK, Process, Catalog, files, shelf, traces
  <1> QED BY <1>3, <1>4 DEF RbStop

LEMMA BackingUp == ASSUME Typed, RbBackup PROVE Typed'
  <1>1. Going(call) /\ There
    BY InRollback DEF RbBackup, Step, Later
  <1> DEFINE c == [call EXCEPT !.pc = "clear", !.backup = Copied(TreesAtStake),
                               !.todo = TreesAtStake, !.since = writes, !.mixed = {}]
  <1>2. Going(c)
    BY <1>1, StakeTyped DEF Going, CallType, Later, Typed, TypeOK
  <1>3. There' /\ Process'
    BY <1>1, Stays DEF RbBackup, Process, Typed, TypeOK, files
  <1> QED BY <1>2, <1>3, CallStep DEF RbBackup, Going, files

LEMMA Clearing ==
    ASSUME Typed, NEW t \in Trees, Clear(t) \/ ClearBreaks(t)
    PROVE  Typed'
  <1>1. Going(call) /\ There
    BY InRollback DEF Clear, ClearBreaks, Later
  <1>2. PICK rest \in SUBSET live[t], mixed \in SUBSET Trees :
           /\ live' = [live EXCEPT ![t] = rest]
           /\ call' = [call EXCEPT !.pc = "copy", !.cur = t, !.mixed = mixed]
    <2>1. call.mixed \ {t} \in SUBSET Trees /\ call.mixed \cup {t} \in SUBSET Trees
      BY CallFields DEF Typed, TypeOK
    <2> QED BY <2>1 DEF Clear, ClearBreaks
  <1> DEFINE c == [call EXCEPT !.pc = "copy", !.cur = t, !.mixed = mixed]
  <1>3. Going(c)
    BY <1>1 DEF Going, CallType, Later
  <1>4. faults' \in Nat
    BY FaultType DEF Clear, ClearBreaks, Typed, TypeOK
  <1>5. live' \in TreeType
    BY <1>2, OneTreeType DEF Typed
  <1>6. There' /\ Process'
    BY <1>1, <1>4, <1>5 DEF Clear, ClearBreaks, There, Process, Machine, Typed, TypeOK, procs
  <1> QED BY <1>2, <1>3, <1>6, CallStep DEF Clear, ClearBreaks, Going

LEMMA SourceFiles == ASSUME Typed, Going(call), NEW t \in Trees PROVE Source[t] \in SUBSET Files
  BY SourceType DEF Going, TreeType

LEMMA Copying == ASSUME Typed, Copy PROVE Typed'
  <1>1. Going(call) /\ There
    BY InRollback DEF Copy, Later
  <1> DEFINE c == [call EXCEPT !.todo = call.todo \ {call.cur},
                               !.pc = IF call.todo = {call.cur} THEN "record" ELSE "clear"]
  <1>2. Going(c)
    BY <1>1 DEF Going, CallType, Later
  <1>3. call.cur \in Trees
    BY CallFields DEF Typed, TypeOK
  <1>4. live' \in TreeType
    BY <1>1, <1>3, SourceFiles, OntoType DEF Copy, Typed, TypeOK
  <1>5. There' /\ Process'
    BY <1>1, <1>4 DEF Copy, There, Process, Machine, Typed, TypeOK, procs
  <1> QED BY <1>2, <1>5, CallStep DEF Copy, Going

LEMMA Failing ==
    ASSUME Typed, Going(call), Fails
    PROVE  Going(call') /\ call' \in CallType
  <1>1. CASE call.op = "rollback"
    <2> DEFINE c == [call EXCEPT !.op = "recovery", !.pc = "stop"]
    <2>1. call' = c
      BY <1>1 DEF Fails
    <2>2. c \in CallType
      BY DEF Going, CallType
    <2>3. c.op = "recovery" /\ c.pc = "stop" /\ c.snap = call.snap /\ c.row = call.row
      BY DEF Going, CallType
    <2> HIDE DEF c
    <2> QED BY <2>1, <2>2, <2>3 DEF Going, Later
  <1>2. CASE call.op # "rollback"
    BY <1>2, GoesOn DEF Fails, Goto, Going, Later
  <1> QED BY <1>1, <1>2

LEMMA CopyBreaking == ASSUME Typed, CopyBreaks PROVE Typed'
  <1>1. Going(call) /\ There
    BY InRollback DEF CopyBreaks, Later
  <1>2. PICK part \in SUBSET Source[call.cur] : live' = Onto(live, call.cur, part)
    BY DEF CopyBreaks
  <1>3. call.cur \in Trees
    BY CallFields DEF Typed, TypeOK
  <1>4. live' \in TreeType
    BY <1>1, <1>2, <1>3, SourceFiles, OntoType DEF Typed, TypeOK
  <1>5. There' /\ Process'
    BY <1>1, <1>4, FaultType DEF CopyBreaks, There, Process, Machine, Typed, TypeOK, procs
  <1>6. Going(call') /\ call' \in CallType
    BY <1>1, Failing DEF CopyBreaks
  <1> DEFINE c == call'
  <1> QED BY <1>5, <1>6, CallStep DEF CopyBreaks

LEMMA RolledType ==
    ASSUME Typed, Going(call)
    PROVE  /\ Rolled \in RowType /\ Rolled.status = "rolled-back" /\ Rolled.pid = row.pid
           /\ Rolled.man = dirs[call.snap].man /\ Rolled.man \in Releases
           /\ Rolled.app \in Releases
  <1>1. dirs[call.snap].man \in Releases /\ call.row.app \in Releases
    BY DEF Typed, Catalog, Going
  <1> QED BY <1>1 DEF Rolled, Typed, TypeOK, RowType

LEMMA RestoredType ==
    ASSUME Typed, Going(call)
    PROVE  /\ Restored \in RowType /\ Restored.status # "absent" /\ Restored.pid = row.pid
           /\ Restored.status = IF call.was THEN "stopped" ELSE call.row.status
           /\ Restored.man = call.row.man /\ Restored.app = call.row.app
           /\ {Restored.man, Restored.app} \subseteq Releases
  <1>1. call.row \in RowType
    BY CallFields DEF Typed, TypeOK
  <1> QED BY <1>1 DEF Restored, Typed, TypeOK, RowType, Going

LEMMA Recording == ASSUME Typed, RbRecord \/ RcRecord PROVE Typed'
  <1>1. Going(call) /\ There
    BY InRollback DEF RbRecord, RcRecord, Step, Later
  <1>2. There' /\ row' \in RowType
    <2>1. CASE RbRecord
      BY <1>1, <2>1, RolledType DEF RbRecord, There
    <2>2. CASE RcRecord
      <3>1. Restored \in RowType /\ Restored.status # "absent"
            /\ {Restored.man, Restored.app} \subseteq Releases
        BY <1>1, RestoredType
      <3> QED BY <2>2, <3>1 DEF RcRecord, There, RowType
    <2> QED BY <2>1, <2>2
  <1>3. Machine'
    <2>1. CASE RbRecord
      BY <1>2, <2>1 DEF RbRecord, Machine, Typed, TypeOK, files, procs
    <2>2. CASE RcRecord
      BY <1>2, <2>2, EndsTyped DEF RcRecord, Machine, Typed, TypeOK, files
    <2> QED BY <2>1, <2>2
  <1>4. PICK pc \in Later : call' = [call EXCEPT !.pc = pc]
    BY DEF RbRecord, RcRecord, Goto, Later
  <1>5. Going([call EXCEPT !.pc = pc])
    BY <1>1, GoesOn
  <1>6. There' /\ Process'
    BY <1>2, <1>3 DEF RbRecord, RcRecord, Process, Typed, TypeOK
  <1> QED BY <1>4, <1>5, <1>6, CallStep DEF RbRecord, RcRecord, Going, files

LEMMA RecordBreaking == ASSUME Typed, RecordBreaks PROVE Typed'
  <1>1. Going(call) /\ There
    BY InRollback DEF RecordBreaks, Later
  <1>2. There' /\ row' \in RowType
    BY <1>1, RolledType, RestoredType DEF RecordBreaks, There, Typed, TypeOK
  <1>3. There' /\ Process'
    BY <1>2, FaultType DEF RecordBreaks, Process, Machine, Typed, TypeOK, files, procs
  <1>4. Going(call') /\ call' \in CallType
    BY <1>1, Failing DEF RecordBreaks
  <1> DEFINE c == call'
  <1> QED BY <1>3, <1>4, CallStep DEF RecordBreaks, files

LEMMA StartingUp == ASSUME Typed, RbStart PROVE Typed'
  <1>1. Going(call) /\ There
    BY InRollback DEF RbStart, Later
  <1>2. There' /\ Process' /\ UNCHANGED <<dirs, attic, shelf, traces>>
    BY <1>1, StartTyped DEF RbStart, Typed
  <1>3. CASE Fails
    <2>1. Going(call') /\ call' \in CallType
      BY <1>1, <1>3, Failing
    <2> DEFINE c == call'
    <2> QED BY <1>2, <2>1, CallStep
  <1>4. CASE \E pc \in Later : Goto(pc)
    <2>1. PICK pc \in Later : Goto(pc)
      BY <1>4
    <2>2. Going([call EXCEPT !.pc = pc])
      BY <1>1, GoesOn
    <2> QED BY <1>2, <2>1, <2>2, CallStep DEF Goto, Going
  <1> QED BY <1>3, <1>4 DEF RbStart, Later

LEMMA RecoveryStops == ASSUME Typed, RcStop PROVE Typed'
  <1>1. Going(call) /\ There
    BY InRollback DEF RcStop, Step, Later
  <1>2. There' /\ Process' /\ UNCHANGED <<files, shelf, traces>>
    <2>1. CASE Stops \/ StopBreaks
      BY <1>1, <2>1, StopTyped DEF Typed
    <2>2. CASE UNCHANGED <<row, procs, files, shelf, traces, faults>>
      BY <1>1, <2>2, Stays DEF Process, Typed, TypeOK, files
    <2> QED BY <2>1, <2>2 DEF RcStop
  <1> DEFINE c == [call EXCEPT !.pc = "clear", !.todo = TreesAtStake]
  <1>3. Going(c)
    BY <1>1, StakeTyped DEF Going, CallType, Later
  <1> QED BY <1>2, <1>3, CallStep DEF RcStop, Going, files

LEMMA HealthSeen == ASSUME Typed, RcHealth PROVE Typed'
  <1>1. Going(call) /\ There
    BY InRollback DEF RcHealth, Later
  <1>2. There' /\ row' \in RowType
    BY <1>1 DEF RcHealth, There, Typed, TypeOK, RowType
  <1>3. There' /\ Process'
    BY <1>2 DEF RcHealth, Process, Machine, Typed, TypeOK, files, procs
  <1>4. Going([call EXCEPT !.pc = "done"])
    BY <1>1, GoesOn DEF Later
  <1> QED BY <1>3, <1>4, CallStep DEF RcHealth, Goto, Going, files

LEMMA BackupBreaks == ASSUME Typed, RbBackupBreaks PROVE Typed'
  <1>1. There' /\ Machine'
    BY InRollback, Stays DEF RbBackupBreaks, Step, Later, files
  <1>2. faults' \in Nat
    BY FaultType DEF Typed, RbBackupBreaks
  <1> QED BY <1>1, <1>2, EndTyped, DirsTyped
          DEF RbBackupBreaks, Typed, TypeOK, Catalog, files, shelf, traces

LEMMA Finishing == ASSUME Typed, Finish PROVE Typed'
  <1>1. There' /\ Machine'
    BY InRollback, Stays DEF Finish, Later, files
  <1>2. owed' \in [Volumes -> SUBSET Nat]
    BY DEF Finish, Typed, TypeOK
  <1> QED BY <1>1, <1>2, EndTyped, DirsTyped
          DEF Finish, Typed, TypeOK, Catalog, files, shelf

LEMMA CutsTyped == ASSUME Typed, There, CutOff PROVE There' /\ Machine'
  <1>1. CASE UNCHANGED <<row, procs, live>>
    BY <1>1, Stays
  <1>2. ASSUME UNCHANGED <<row, procs>>, live' \in TreeType PROVE There' /\ Machine'
    BY <1>2 DEF Typed, TypeOK, There, Machine, procs
  <1>3. ASSUME call.pc = "clear", NEW t \in call.todo, NEW rest \in SUBSET live[t],
               live' = [live EXCEPT ![t] = rest]
        PROVE  live' \in TreeType
    <2>1. t \in Trees
      BY CallFields DEF Typed, TypeOK
    <2> QED BY <1>3, <2>1, OneTreeType DEF Typed
  <1>4. ASSUME call.pc = "copy", NEW part \in SUBSET Source[call.cur],
               live' = Onto(live, call.cur, part)
        PROVE  live' \in TreeType
    <2>1. Going(call) /\ call.cur \in Trees
      BY <1>4, InRollback, CallFields DEF Later, Typed, TypeOK
    <2> QED BY <1>4, <2>1, SourceFiles, OntoType DEF Typed, TypeOK
  <1>5. CASE row' \in {row, Stopped} /\ Ends /\ UNCHANGED live
    <2>1. There' /\ row' \in RowType
      BY <1>5, StoppedType DEF There, Typed, TypeOK
    <2> QED BY <1>5, <2>1, EndsTyped DEF Machine, Typed, TypeOK
  <1>6. CASE StartLeaves
    BY <1>6, LeavesTyped DEF Typed
  <1> QED BY <1>1, <1>2, <1>3, <1>4, <1>5, <1>6 DEF CutOff

LEMMA Crashing == ASSUME Typed, Crash PROVE Typed'
  <1>1. There' /\ Machine'
    BY BusyThere, CutsTyped DEF Crash, Free
  <1>2. attic' \in [Volumes -> SUBSET Files]
    <2>1. \A v \in Volumes : call.backup[v] \in SUBSET Files
      BY CallFields, VolumeTrees DEF Typed, TypeOK, TreeType
    <2> QED BY <2>1 DEF Crash, Typed, TypeOK
  <1>3. faults' \in Nat
    BY FaultType DEF Typed, Crash
  <1> QED BY <1>1, <1>2, <1>3, EndTyped, DirsTyped
          DEF Crash, Typed, TypeOK, Catalog, shelf, traces

LEMMA Writing == ASSUME Typed, NEW v \in Volumes, Write(v) PROVE Typed'
  <1>1. writes' \in Nat /\ {writes + 1} \in SUBSET Files
    BY DEF Write, Typed, TypeOK, Files
  <1>2. live' \in TreeType
    BY <1>1, OntoType, VolumeTrees DEF Write, Typed, TypeOK
  <1>3. owed' \in [Volumes -> SUBSET Nat]
    BY DEF Write, Typed, TypeOK
  <1>4. TypeOK'
    BY <1>1, <1>2, <1>3 DEF Write, Typed, TypeOK, procs, shelf
  <1>5. Registry' /\ Shape' /\ Catalog'
    BY DEF Write, Typed, Registry, Shape, Catalog, shelf
  <1> QED BY <1>4, <1>5 DEF Typed

------------------------------------------------------------------------------
LEMMA InitTyped == Init => Typed
  <1> SUFFICES ASSUME Init PROVE Typed
    OBVIOUS
  <1>1. dirs \in [Seconds -> DirType]
    BY Empties DEF Init, DirType
  <1>2. clock \in 1 .. MaxSnapshots + 1
    BY RollbackAssumption DEF Init
  <1>3. TypeOK
    BY <1>1, <1>2, Empties DEF Init, TypeOK, DirType
  <1>4. Registry /\ Shape /\ Catalog
    BY Empties DEF Init, Registry, Shape, Catalog
  <1> QED BY <1>3, <1>4 DEF Typed

LEMMA NextTyped == Typed /\ [Next]_vars => Typed'
  <1> SUFFICES ASSUME Typed, [Next]_vars PROVE Typed'
    OBVIOUS
  <1>1. CASE Request
    BY <1>1, FreeStarts, FreeStops, FreeDestroys, SnapBegins, FreeDeploys, Begins DEF Request
  <1>2. CASE Proceed
    BY <1>2, SnapInserts, Stopping, BackingUp, BackupBreaks, Copying, CopyBreaking, Recording,
       RecordBreaking,
       StartingUp, RecoveryStops, HealthSeen, Finishing, SnapTrees, SnapTreeBreak, Clearing
       DEF Proceed
  <1>3. CASE Exit \/ StrayEnds \/ Notice \/ Probe
    BY <1>3, Beside
  <1>4. CASE Crash
    BY <1>4, Crashing
  <1>5. CASE \E v \in Volumes : Write(v)
    BY <1>5, Writing
  <1>6. CASE UNCHANGED vars
    BY <1>6 DEF vars, Typed, TypeOK, Registry, Shape, Catalog
  <1> QED BY <1>1, <1>2, <1>3, <1>4, <1>5, <1>6 DEF Next

(* TypeCorrect: rows, directories and the locals of a call keep their      *)
(* types, through failures and kills at any step.                          *)
THEOREM TypeCorrect == Spec => []TypeOK
  <1>1. Typed => TypeOK
    BY DEF Typed
  <1> QED BY InitTyped, NextTyped, <1>1, PTL DEF Spec

------------------------------------------------------------------------------
(* Why nothing is lost: an inductive invariant.                            *)

(* The steps at which the call has a backup, and those at which the live   *)
(* files do not count.                                                     *)
Backed ==
    \/ call.pc \in {"clear", "copy", "record", "start", "health", "done", "failed"}
    \/ Step("recovery", "stop")
Restoring ==
    \/ call.op = "rollback" /\ call.pc \notin {"stop", "backup"}
    \/ call.op = "recovery" /\ call.pc \in {"stop", "clear", "copy"}

(* The backup is of the volumes at stake, which alone are moved.           *)
BackupHeld ==
    /\ ~Backed => call.backup = Nothing
    /\ \A v \in Volumes \ call.names : call.backup[v] = {}
    /\ call.pc \in {"clear", "copy"} => call.todo \subseteq TreesAtStake
    /\ call.pc = "copy" => call.cur \in call.todo
    /\ call.pc \in {"health", "failed"} => call.op = "recovery"

(* While the live files are replaced the backup has all that is owed.      *)
Kept == Restoring => \A v \in call.names : owed[v] \subseteq call.backup[v] \cup attic[v]

(* The recovery has put back the volumes that are no longer to do.         *)
PutBack ==
    call.op = "recovery" =>
        /\ call.pc \in {"record", "start", "health", "done"} =>
              \A v \in call.names : call.backup[v] \subseteq live[v]
        /\ call.pc \in {"clear", "copy"} =>
              \A v \in call.names \ call.todo : call.backup[v] \subseteq live[v]

Safe == BackupHeld /\ Kept /\ PutBack /\ NothingLost

IInv == Typed /\ Safe

------------------------------------------------------------------------------
(* Calls that have no backup *)

LEMMA Unbacked ==
    ASSUME call'.pc \in {"idle", "trees", "stop", "backup"}, call'.op # "recovery",
           call'.op = "rollback" => call'.pc \in {"stop", "backup"}, call'.backup = Nothing
    PROVE  BackupHeld' /\ Kept' /\ PutBack'
  <1>1. ~Backed' /\ ~Restoring'
    BY DEF Backed, Restoring, Step
  <1>2. \A v \in Volumes : call'.backup[v] = {}
    BY VolumeTrees DEF Nothing
  <1> QED BY <1>1, <1>2 DEF BackupHeld, Kept, PutBack

LEMMA LiveOrLeft ==
    ASSUME BackupHeld, NothingLost, ~Backed, NEW v \in Volumes
    PROVE  owed[v] \subseteq live[v] \cup attic[v]
  <1>1. call.backup[v] = {}
    BY VolumeTrees DEF BackupHeld, Nothing
  <1> QED BY <1>1 DEF NothingLost

LEMMA EarlyStep == ASSUME call.pc \in {"idle", "trees", "backup"} \/ Step("rollback", "stop")
                   PROVE  ~Backed
  BY DEF Backed, Step

(* A step without a backup that leaves the volumes as they are, or adds to *)
(* them.                                                                   *)
LEMMA EarlySafe ==
    ASSUME Safe, ~Backed,
           call'.pc \in {"idle", "trees", "stop", "backup"}, call'.op # "recovery",
           call'.op = "rollback" => call'.pc \in {"stop", "backup"}, call'.backup = Nothing,
           \A v \in Volumes : live[v] \subseteq live'[v] /\ attic[v] \subseteq attic'[v],
           \A v \in Volumes : owed'[v] \subseteq owed[v] \cup live'[v]
    PROVE  Safe'
  <1>1. \A v \in Volumes : owed[v] \subseteq live[v] \cup attic[v]
    BY LiveOrLeft DEF Safe
  <1>2. NothingLost'
    BY <1>1 DEF NothingLost
  <1> QED BY <1>2, Unbacked DEF Safe

LEMMA RuntimeApart == \A v \in Volumes : v \in Trees /\ v # Runtime
  BY RollbackAssumption, VolumeTrees

(* Starts and stops leave the volumes alone.                               *)
LEMMA LeavesKeep ==
    ASSUME TypeOK, StartLeaves
    PROVE  \A v \in Volumes : live'[v] = live[v]
  BY RuntimeApart DEF StartLeaves, Runs, Staged, TypeOK, TreeType

LEMMA StartKeeps ==
    ASSUME TypeOK, Starts \/ StartBreaks
    PROVE  \A v \in Volumes : live'[v] = live[v]
  BY LeavesKeep, RuntimeApart DEF Starts, StartBreaks, Runs, Staged, TypeOK, TreeType

LEMMA FreeIdle == ASSUME Typed, Free PROVE call.pc = "idle" /\ call.op = "none"
  BY DEF Free, Typed, Shape

LEMMA FreeSafe ==
    ASSUME IInv, Free, UNCHANGED <<call, attic, owed>>, \A v \in Volumes : live'[v] = live[v]
    PROVE  Safe'
  <1>1. call.pc = "idle" /\ call.op = "none" /\ ~Backed
    BY FreeIdle, EarlyStep DEF IInv
  <1>2. call.backup = Nothing
    BY <1>1 DEF IInv, Safe, BackupHeld
  <1> QED BY <1>1, <1>2, EarlySafe DEF IInv

LEMMA OperationsSafe ==
    ASSUME IInv, Start \/ Stop \/ Destroy \/ \E r \in Releases : Deploy(r)
    PROVE  Safe'
  <1>1. CASE Start
    BY <1>1, StartKeeps, FreeSafe DEF Start, Starts, StartBreaks, IInv, Typed, traces
  <1>2. CASE Stop
    BY <1>2, FreeSafe DEF Stop, Stops, StopBreaks, files, traces
  <1>3. CASE Destroy
    <2>1. \A v \in Volumes : live'[v] = live[v]
      BY <1>3, RuntimeApart DEF Destroy, IInv, Typed, TypeOK, TreeType
    <2> QED BY <1>3, <2>1, FreeSafe DEF Destroy, traces
  <1>4. CASE \E r \in Releases : Deploy(r)
    BY <1>4, FreeSafe DEF Deploy, files, traces
  <1> QED BY <1>1, <1>2, <1>3, <1>4

LEMMA SnapshotSafe ==
    ASSUME IInv,
           SnapBegin \/ SnapInsert \/ \E t \in Trees : SnapTree(t) \/ SnapTreeBreaks(t)
    PROVE  Safe'
  <1>1. call.pc \in {"idle", "trees"} /\ call.op \in {"none", "snapshot"} /\ ~Backed
    <2>1. call.pc \in {"idle", "trees"} /\ call.op \in {"none", "snapshot"}
      BY FreeIdle DEF SnapBegin, SnapInsert, SnapTree, SnapTreeBreaks, IInv, Typed, Shape
    <2> QED BY <2>1, EarlyStep
  <1>2. call.backup = Nothing
    BY <1>1 DEF IInv, Safe, BackupHeld
  <1>3. call'.pc \in {"idle", "trees"} /\ call'.op \in {"none", "snapshot"}
        /\ call'.backup = Nothing
    <2>1. CASE SnapBegin
      BY <2>1, Empties DEF SnapBegin, CallType
    <2>2. CASE SnapInsert \/ \E t \in Trees : SnapTreeBreaks(t)
      BY <2>2, Empties DEF SnapInsert, SnapTreeBreaks
    <2>3. CASE \E t \in Trees : SnapTree(t)
      BY <2>3, <1>1, <1>2 DEF SnapTree, IInv, Typed, TypeOK, CallType
    <2> QED BY <2>1, <2>2, <2>3
  <1>4. UNCHANGED <<live, attic, owed>>
    BY DEF SnapBegin, SnapInsert, SnapTree, SnapTreeBreaks, files, traces
  <1> QED BY <1>1, <1>3, <1>4, EarlySafe DEF IInv

------------------------------------------------------------------------------
(* Beside the call *)

LEMMA BesideSafe ==
    ASSUME IInv, Exit \/ StrayEnds \/ Notice \/ Probe
    PROVE  Safe'
  <1>1. UNCHANGED <<live, attic, owed, call>>
    BY DEF Exit, StrayEnds, Notice, Probe, files, traces
  <1> QED BY <1>1 DEF IInv, Safe, BackupHeld, Backed, Kept, Restoring, Step,
                      PutBack, NothingLost, TreesAtStake

LEMMA WriteSafe ==
    ASSUME IInv, NEW v \in Volumes, Write(v)
    PROVE  Safe'
  <1>1. live' = [live EXCEPT ![v] = live[v] \cup {writes + 1}]
    BY DEF Write, Onto
  <1>2. \A u \in Volumes : live[u] \subseteq live'[u]
    BY <1>1, VolumeTrees DEF IInv, Typed, TypeOK, TreeType
  <1>3. UNCHANGED <<attic, call>>
    BY DEF Write
  <1>4. Kept'
    <2> SUFFICES ASSUME Restoring, NEW u \in call.names
                 PROVE  owed'[u] \subseteq call.backup[u] \cup attic[u]
      BY <1>3 DEF Kept, Restoring
    <2>1. owed'[u] = owed[u]
      <3>1. CASE v \in call.names
        BY <3>1 DEF Write, Trial, Restoring
      <3>2. CASE v \notin call.names
        BY <3>2 DEF Write, IInv, Typed, TypeOK
      <3> QED BY <3>1, <3>2
    <2> QED BY <2>1 DEF IInv, Safe, Kept
  <1>5. NothingLost'
    <2>1. \A u \in Volumes : owed'[u] \subseteq owed[u] \cup live'[u]
      <3>1. CASE Trial(v)
        BY <3>1 DEF Write
      <3>2. CASE ~Trial(v)
        <4>1. owed' = [owed EXCEPT ![v] = owed[v] \cup {writes + 1}]
          BY <3>2 DEF Write
        <4>2. live'[v] = live[v] \cup {writes + 1}
          BY <1>1, VolumeTrees DEF IInv, Typed, TypeOK, TreeType
        <4> QED BY <4>1, <4>2 DEF IInv, Typed, TypeOK
      <3> QED BY <3>1, <3>2
    <2> QED BY <1>2, <1>3, <2>1 DEF IInv, Safe, NothingLost
  <1>6. BackupHeld'
    BY <1>3 DEF IInv, Safe, BackupHeld, Backed, Step, TreesAtStake
  <1>7. PutBack'
    BY <1>2, <1>3, CallFields DEF IInv, Typed, TypeOK, Safe, PutBack
  <1> QED BY <1>4, <1>5, <1>6, <1>7 DEF Safe

LEMMA OntoGrows ==
    ASSUME Typed, NEW t \in Trees, NEW src
    PROVE  /\ \A v \in Volumes : live[v] \subseteq Onto(live, t, src)[v]
           /\ Onto(live, t, src)[t] = live[t] \cup src
  BY VolumeTrees DEF Typed, TypeOK, TreeType, Onto

(* A removal that is cut off: what is owed is in the backup.               *)
LEMMA CutsKeep ==
    ASSUME IInv, CutOff, NEW v \in Volumes
    PROVE  \/ live[v] \subseteq live'[v]
           \/ owed[v] \subseteq call.backup[v] \cup attic[v]
  <1>1. CASE live' = live
    BY <1>1
  <1>2. ASSUME call.pc = "clear", NEW t \in call.todo, NEW rest \in SUBSET live[t],
               live' = [live EXCEPT ![t] = rest], v = t
        PROVE  owed[v] \subseteq call.backup[v] \cup attic[v]
    <2>1. v \in call.names
      BY <1>2, RuntimeApart DEF IInv, Safe, BackupHeld, TreesAtStake
    <2>2. Restoring
      BY <1>2, InRollback DEF Restoring, IInv, Going, Later
    <2> QED BY <2>1, <2>2 DEF IInv, Safe, Kept
  <1>3. ASSUME NEW t, NEW rest, live' = [live EXCEPT ![t] = rest], v # t
        PROVE  live'[v] = live[v]
    BY <1>3, VolumeTrees DEF IInv, Typed, TypeOK, TreeType
  <1>4. ASSUME NEW part, live' = Onto(live, call.cur, part)
        PROVE  live[v] \subseteq live'[v]
    BY <1>4, OntoGrows, CallFields DEF IInv, Typed, TypeOK
  <1>5. CASE StartLeaves
    BY <1>5, LeavesKeep DEF IInv, Typed
  <1> QED BY <1>1, <1>2, <1>3, <1>4, <1>5 DEF CutOff

LEMMA CrashSafe ==
    ASSUME IInv, Crash
    PROVE  Safe'
  <1>1. call' = Idle /\ UNCHANGED owed
        /\ attic' = [v \in Volumes |-> attic[v] \cup call.backup[v]]
    BY DEF Crash, traces
  <1>2. ASSUME NEW v \in Volumes PROVE owed'[v] \subseteq live'[v] \cup attic'[v]
    <2>1. attic'[v] = attic[v] \cup call.backup[v]
      BY <1>1
    <2>2. owed[v] \subseteq live[v] \cup attic[v] \cup call.backup[v]
      BY DEF IInv, Safe, NothingLost
    <2> QED BY <1>1, <2>1, <2>2, CutsKeep DEF Crash
  <1>3. NothingLost'
    BY <1>2 DEF NothingLost
  <1> QED BY <1>1, <1>3, Empties, Unbacked DEF Safe

------------------------------------------------------------------------------
(* The rollback up to its backup *)

LEMMA BeginSafe ==
    ASSUME IInv, NEW n \in Seconds, RbBegin(n)
    PROVE  Safe'
  <1>1. call.pc = "idle" /\ ~Backed
    BY FreeIdle, EarlyStep DEF RbBegin, IInv
  <1>2. call'.op = "rollback" /\ call'.backup = Nothing
        /\ call'.pc = IF Occupied(row) THEN "stop" ELSE "backup"
    BY DEF RbBegin, Idle
  <1>3. UNCHANGED <<live, attic, owed>>
    BY DEF RbBegin, files, traces
  <1> QED BY <1>1, <1>2, <1>3, EarlySafe DEF IInv

LEMMA StopSafe ==
    ASSUME IInv, RbStop
    PROVE  Safe'
  <1>1. ~Backed /\ call.op = "rollback" /\ call.backup = Nothing
    BY EarlyStep DEF RbStop, Step, IInv, Safe, BackupHeld
  <1>2. UNCHANGED <<live, attic, owed>>
    BY DEF RbStop, Stops, StopBreaks, files, traces
  <1>3. call'.pc \in {"idle", "backup"} /\ call'.op # "recovery" /\ call'.backup = Nothing
        /\ (call'.op = "rollback" => call'.pc = "backup")
    BY <1>1, Empties DEF RbStop, Goto, IInv, Typed, TypeOK, CallType
  <1> QED BY <1>1, <1>2, <1>3, EarlySafe DEF IInv

LEMMA BackupBreaksSafe ==
    ASSUME IInv, RbBackupBreaks
    PROVE  Safe'
  <1>1. ~Backed
    BY EarlyStep DEF RbBackupBreaks, Step
  <1>2. UNCHANGED <<live, attic, owed>> /\ call' = Idle
    BY DEF RbBackupBreaks, files, traces
  <1> QED BY <1>1, <1>2, Empties, EarlySafe DEF IInv

LEMMA BackupSafe ==
    ASSUME IInv, RbBackup
    PROVE  Safe'
  <1>1. ~Backed
    BY EarlyStep DEF RbBackup, Step
  <1>2. UNCHANGED <<live, attic, owed>>
    BY DEF RbBackup, files, traces
  <1>3. call'.op = "rollback" /\ call'.pc = "clear" /\ call'.backup = Copied(TreesAtStake)
        /\ call'.todo = TreesAtStake /\ call'.names = call.names
    BY DEF RbBackup, Step, IInv, Typed, TypeOK, CallType
  <1>4. \A v \in Volumes :
           /\ v \in call.names => call'.backup[v] = live[v]
           /\ v \notin call.names => call'.backup[v] = {}
    BY <1>3, RuntimeApart DEF Copied, TreesAtStake
  <1>5. \A v \in Volumes : owed[v] \subseteq live[v] \cup attic[v]
    BY <1>1, LiveOrLeft DEF IInv, Safe
  <1>6. PutBack'
    BY <1>3 DEF PutBack
  <1>7. BackupHeld'
    BY <1>3, <1>4 DEF BackupHeld, Backed, TreesAtStake
  <1>8. Kept'
    <2>1. call.names \subseteq Volumes
      BY CallFields DEF IInv, Typed, TypeOK
    <2>2. \A v \in Volumes : v \in call.names => owed[v] \subseteq call'.backup[v] \cup attic[v]
      BY <1>4, <1>5
    <2> QED BY <1>2, <1>3, <2>1, <2>2 DEF Kept
  <1>9. NothingLost'
    BY <1>2, <1>5 DEF NothingLost
  <1> QED BY <1>6, <1>7, <1>8, <1>9 DEF Safe

------------------------------------------------------------------------------
(* Files are put back *)

(* A removal, whether it succeeds or leaves something.                     *)
LEMMA Removal ==
    ASSUME IInv, NEW t \in Trees, Clear(t) \/ ClearBreaks(t)
    PROVE  /\ call.pc = "clear" /\ t \in call.todo /\ call.todo \subseteq TreesAtStake
           /\ call'.op = call.op /\ call'.pc = "copy" /\ call'.cur = t /\ call'.todo = call.todo
           /\ UNCHANGED <<call.names, call.backup, call.row, call.snap, call.was, call.since>>
           /\ UNCHANGED <<row, procs, dirs, attic, shelf, traces>>
           /\ \A v \in Volumes : v # t => live'[v] = live[v]
           /\ \A v \in Trees : v # t => (v \in call'.mixed <=> v \in call.mixed)
  <1>1. call.pc = "clear" /\ t \in call.todo /\ call.todo \subseteq TreesAtStake
    BY DEF Clear, ClearBreaks, Turn, IInv, Safe, BackupHeld
  <1>2. PICK rest : live' = [live EXCEPT ![t] = rest]
    BY DEF Clear, ClearBreaks
  <1>3. PICK mixed \in {call.mixed \ {t}, call.mixed \cup {t}} :
           call' = [call EXCEPT !.pc = "copy", !.cur = t, !.mixed = mixed]
    BY DEF Clear, ClearBreaks
  <1>4. \A v \in Volumes : v # t => live'[v] = live[v]
    BY <1>2, VolumeTrees DEF IInv, Typed, TypeOK, TreeType
  <1>5. UNCHANGED <<row, procs, dirs, attic, shelf, traces>>
    BY DEF Clear, ClearBreaks
  <1> QED BY <1>1, <1>3, <1>4, <1>5 DEF IInv, Typed, TypeOK, CallType

LEMMA MidStep ==
    ASSUME Typed, call.pc \in {"clear", "copy"}
    PROVE  Restoring /\ Backed /\ call.op \in {"rollback", "recovery"}
  BY InRollback DEF Restoring, Backed, Going, Later

LEMMA ClearSafe ==
    ASSUME IInv, NEW t \in Trees, Clear(t) \/ ClearBreaks(t)
    PROVE  Safe'
  <1>1. /\ call.pc = "clear" /\ t \in call.todo /\ call.todo \subseteq TreesAtStake
        /\ call'.op = call.op /\ call'.pc = "copy" /\ call'.cur = t /\ call'.todo = call.todo
        /\ call'.names = call.names /\ call'.backup = call.backup
        /\ UNCHANGED <<attic, owed>>
        /\ \A v \in Volumes : v # t => live'[v] = live[v]
    BY Removal DEF traces
  <1>2. Restoring /\ Backed
    BY <1>1, MidStep DEF IInv
  <1>3. BackupHeld'
    BY <1>1, <1>2 DEF IInv, Safe, BackupHeld, Backed, TreesAtStake
  <1>4. \A v \in call.names : owed[v] \subseteq call.backup[v] \cup attic[v]
    BY <1>2 DEF IInv, Safe, Kept
  <1>5. Kept'
    BY <1>1, <1>4 DEF Kept
  <1>6. PutBack'
    <2>1. call.names \subseteq Volumes
      BY CallFields DEF IInv, Typed, TypeOK
    <2>2. ASSUME call.op = "recovery", NEW u \in call.names \ call.todo
          PROVE  call.backup[u] \subseteq live'[u]
      <3>1. call.backup[u] \subseteq live[u]
        BY <1>1, <2>2 DEF IInv, Safe, PutBack
      <3> QED BY <1>1, <2>1, <2>2, <3>1
    <2> QED BY <1>1, <2>2 DEF PutBack
  <1>7. NothingLost'
    <2>1. ASSUME NEW v \in Volumes PROVE owed[v] \subseteq live'[v] \cup attic[v] \cup call.backup[v]
      <3>1. CASE v \in call.names
        BY <1>4, <3>1
      <3>2. CASE v \notin call.names
        <4>1. v # t
          BY <1>1, <3>2, RuntimeApart DEF TreesAtStake
        <4> QED BY <1>1, <2>1, <4>1 DEF IInv, Safe, NothingLost
      <3> QED BY <3>1, <3>2
    <2> QED BY <1>1, <2>1 DEF NothingLost
  <1> QED BY <1>3, <1>5, <1>6, <1>7 DEF Safe

LEMMA CopySafe ==
    ASSUME IInv, Copy
    PROVE  Safe'
  <1>1. call.pc = "copy" /\ call.todo \subseteq TreesAtStake /\ call.cur \in Trees
    BY CallFields DEF Copy, IInv, Typed, TypeOK, Safe, BackupHeld
  <1>2. live' = Onto(live, call.cur, Source[call.cur]) /\ UNCHANGED <<attic, owed>>
    BY DEF Copy, traces
  <1>3. call'.op = call.op /\ call'.todo = call.todo \ {call.cur}
        /\ call'.names = call.names /\ call'.backup = call.backup
        /\ call'.pc = IF call.todo = {call.cur} THEN "record" ELSE "clear"
    BY DEF Copy, IInv, Typed, TypeOK, CallType
  <1>4. Restoring /\ Backed
    BY <1>1, MidStep DEF IInv
  <1>5. /\ \A v \in Volumes : live[v] \subseteq live'[v]
        /\ live'[call.cur] = live[call.cur] \cup Source[call.cur]
    BY <1>1, <1>2, OntoGrows DEF IInv
  <1>6. BackupHeld'
    BY <1>1, <1>3, <1>4 DEF IInv, Safe, BackupHeld, Backed, TreesAtStake
  <1>7. Kept'
    BY <1>2, <1>3, <1>4 DEF IInv, Safe, Kept
  <1>8. PutBack'
    <2>1. call.names \subseteq Volumes
      BY CallFields DEF IInv, Typed, TypeOK
    <2>2. ASSUME call.op = "recovery", NEW u \in call.names, u \notin call.todo \ {call.cur}
          PROVE  call.backup[u] \subseteq live'[u]
      <3>1. CASE u = call.cur
        BY <1>5, <2>2, <3>1 DEF Source
      <3>2. CASE u # call.cur
        <4>1. call.backup[u] \subseteq live[u]
          BY <1>1, <2>2, <3>2 DEF IInv, Safe, PutBack
        <4> QED BY <1>5, <2>1, <2>2, <4>1
      <3> QED BY <3>1, <3>2
    <2>3. call'.pc = "record" => call.todo \ {call.cur} = {}
      BY <1>3
    <2> QED BY <1>3, <2>2, <2>3 DEF PutBack
  <1>9. NothingLost'
    BY <1>2, <1>3, <1>5 DEF IInv, Safe, NothingLost
  <1> QED BY <1>6, <1>7, <1>8, <1>9 DEF Safe

(* What an error changes in the call: neither the volumes nor the backup.  *)
LEMMA FailsAs ==
    ASSUME Typed, call.op \in {"rollback", "recovery"}, Fails
    PROVE  /\ UNCHANGED <<call.names, call.backup, call.row, call.snap, call.was, call.since>>
           /\ call'.op = "recovery"
           /\ call'.pc = IF call.op = "rollback" THEN "stop" ELSE "failed"
  <1>1. CASE call.op = "rollback"
    <2>1. call' = [call EXCEPT !.op = "recovery", !.pc = "stop"]
      BY <1>1 DEF Fails
    <2> QED BY <1>1, <2>1 DEF Typed, TypeOK, CallType
  <1>2. CASE call.op # "rollback"
    <2>1. call' = [call EXCEPT !.pc = "failed"]
      BY <1>2 DEF Fails, Goto
    <2> QED BY <1>2, <2>1 DEF Typed, TypeOK, CallType
  <1> QED BY <1>1, <1>2

(* A failed step that adds to the live files leaves the backup to count on. *)
LEMMA FailsSafe ==
    ASSUME IInv, call.pc \in {"copy", "record", "start"}, Fails,
           UNCHANGED <<attic, owed>>, \A v \in Volumes : live[v] \subseteq live'[v]
    PROVE  Safe'
  <1>1. call.op \in {"rollback", "recovery"}
    BY InRollback DEF IInv, Going, Later
  <1>2. /\ call'.names = call.names /\ call'.backup = call.backup
        /\ call'.op = "recovery"
        /\ call'.pc = IF call.op = "rollback" THEN "stop" ELSE "failed"
    BY <1>1, FailsAs DEF IInv
  <1>3. Backed /\ Backed' /\ (call.op = "rollback" => Restoring)
    BY <1>2 DEF Restoring, Backed, Step
  <1>4. BackupHeld'
    BY <1>2, <1>3 DEF IInv, Safe, BackupHeld
  <1>5. Kept' /\ PutBack'
    BY <1>1, <1>2, <1>3 DEF IInv, Safe, Kept, PutBack, Restoring
  <1>6. NothingLost'
    BY <1>2 DEF IInv, Safe, NothingLost
  <1> QED BY <1>4, <1>5, <1>6 DEF Safe

LEMMA CopyBreaksSafe ==
    ASSUME IInv, CopyBreaks
    PROVE  Safe'
  <1>1. call.pc = "copy" /\ Fails /\ UNCHANGED <<attic, owed>>
    BY DEF CopyBreaks, traces
  <1>2. PICK part \in SUBSET Source[call.cur] : live' = Onto(live, call.cur, part)
    BY DEF CopyBreaks
  <1>3. \A v \in Volumes : live[v] \subseteq live'[v]
    BY <1>2, OntoGrows, CallFields DEF IInv, Typed, TypeOK
  <1> QED BY <1>1, <1>3, FailsSafe

------------------------------------------------------------------------------
(* The row is written and the service started *)

LEMMA MoveSafe ==
    ASSUME IInv, NEW pc \in {"start", "health", "done"}, call.pc \in {"record", "start", "health"},
           call' = [call EXCEPT !.pc = pc], UNCHANGED <<attic, owed>>,
           pc = "health" => call.op = "recovery",
           \A v \in Volumes : live'[v] = live[v]
    PROVE  Safe'
  <1>1. call'.op = call.op /\ call'.pc = pc
        /\ call'.names = call.names /\ call'.backup = call.backup
    BY DEF IInv, Typed, TypeOK, CallType
  <1>2. Backed /\ Backed' /\ (Restoring' => Restoring)
    BY <1>1 DEF Backed, Restoring
  <1>3. BackupHeld'
    BY <1>1, <1>2 DEF IInv, Safe, BackupHeld
  <1>4. Kept' /\ NothingLost'
    BY <1>1, <1>2 DEF IInv, Safe, Kept, NothingLost
  <1>5. PutBack'
    <2>1. call.names \subseteq Volumes
      BY CallFields DEF IInv, Typed, TypeOK
    <2> QED BY <1>1, <2>1 DEF IInv, Safe, PutBack
  <1> QED BY <1>3, <1>4, <1>5 DEF Safe

LEMMA RecordSafe ==
    ASSUME IInv, RbRecord \/ RcRecord \/ RecordBreaks
    PROVE  Safe'
  <1>1. call.pc = "record" /\ UNCHANGED <<live, attic, owed>>
    BY DEF RbRecord, RcRecord, RecordBreaks, Step, files, traces
  <1>2. CASE RecordBreaks
    BY <1>1, <1>2, FailsSafe DEF RecordBreaks
  <1>3. CASE RbRecord \/ RcRecord
    <2>1. PICK pc \in {"start", "done"} : call' = [call EXCEPT !.pc = pc]
      BY <1>3 DEF RbRecord, RcRecord, Goto
    <2> QED BY <1>1, <2>1, MoveSafe
  <1> QED BY <1>2, <1>3

LEMMA RbStartSafe ==
    ASSUME IInv, RbStart
    PROVE  Safe'
  <1>1. call.pc = "start" /\ UNCHANGED <<attic, owed>>
    BY DEF RbStart, Starts, StartBreaks, traces
  <1>2. \A v \in Volumes : live'[v] = live[v]
    BY StartKeeps DEF RbStart, IInv, Typed
  <1>3. CASE Fails
    BY <1>1, <1>2, <1>3, FailsSafe
  <1>4. CASE Goto(IF call.op = "recovery" /\ call.row.status = "healthy"
                  THEN "health" ELSE "done")
    <2>1. PICK pc \in {"health", "done"} :
             call' = [call EXCEPT !.pc = pc] /\ (pc = "health" => call.op = "recovery")
      BY <1>4 DEF Goto
    <2> QED BY <1>1, <1>2, <2>1, MoveSafe
  <1> QED BY <1>3, <1>4 DEF RbStart

LEMMA HealthSafe ==
    ASSUME IInv, RcHealth
    PROVE  Safe'
  <1>1. call.pc = "health" /\ UNCHANGED <<live, attic, owed>>
        /\ call' = [call EXCEPT !.pc = "done"]
    BY DEF RcHealth, Goto, files, traces
  <1> QED BY <1>1, MoveSafe

LEMMA RcStopSafe ==
    ASSUME IInv, RcStop
    PROVE  Safe'
  <1>1. Step("recovery", "stop") /\ UNCHANGED <<live, attic, owed>>
        /\ call' = [call EXCEPT !.pc = "clear", !.todo = TreesAtStake]
    BY DEF RcStop, Stops, StopBreaks, files, traces
  <1>2. call'.op = "recovery" /\ call'.pc = "clear" /\ call'.todo = TreesAtStake
        /\ call'.names = call.names /\ call'.backup = call.backup
    BY <1>1 DEF Step, IInv, Typed, TypeOK, CallType
  <1>3. Restoring /\ Backed /\ Backed'
    BY <1>1, <1>2 DEF Restoring, Backed, Step
  <1>4. BackupHeld'
    BY <1>2, <1>3 DEF IInv, Safe, BackupHeld, TreesAtStake
  <1>5. Kept' /\ NothingLost'
    BY <1>1, <1>2, <1>3 DEF IInv, Safe, Kept, NothingLost
  <1>6. PutBack'
    BY <1>2 DEF PutBack, TreesAtStake
  <1> QED BY <1>4, <1>5, <1>6 DEF Safe

LEMMA FinishSafe ==
    ASSUME IInv, Finish
    PROVE  Safe'
  <1>1. call.pc \in {"done", "failed"} /\ call' = Idle /\ UNCHANGED <<live, attic>>
    BY DEF Finish, files
  <1>2. \A v \in Volumes \ call.names : owed'[v] = owed[v] /\ call.backup[v] = {}
    BY DEF Finish, IInv, Safe, BackupHeld
  <1>3. CASE Step("recovery", "done")
    <2>1. owed' = owed
      BY <1>3 DEF Finish
    <2>2. \A v \in Volumes : call.backup[v] \subseteq live[v]
      BY <1>2, <1>3 DEF Step, IInv, Safe, PutBack
    <2>3. NothingLost'
      BY <1>1, <2>1, <2>2 DEF IInv, Safe, NothingLost
    <2> QED BY <1>1, <2>3, Empties, Unbacked DEF Safe
  <1>4. CASE ~Step("recovery", "done")
    <2>1. \A v \in Volumes : v \in call.names => owed'[v] \subseteq live[v]
      BY <1>4 DEF Finish
    <2>2. NothingLost'
      BY <1>1, <1>2, <2>1 DEF IInv, Safe, NothingLost
    <2> QED BY <1>1, <2>2, Empties, Unbacked DEF Safe
  <1> QED BY <1>3, <1>4

------------------------------------------------------------------------------
LEMMA InitSafe == Init => Safe
  <1> SUFFICES ASSUME Init PROVE Safe
    OBVIOUS
  <1>1. NothingLost
    BY DEF Init, NothingLost
  <1>2. \A v \in Volumes : call.backup[v] = {}
    BY VolumeTrees, Empties DEF Init, Nothing
  <1>3. ~Backed /\ ~Restoring /\ call.op = "none" /\ call.pc = "idle"
    BY Empties DEF Init, Backed, Restoring, Step
  <1>4. BackupHeld /\ Kept /\ PutBack
    BY <1>2, <1>3, Empties DEF Init, BackupHeld, Kept, PutBack
  <1> QED BY <1>1, <1>4 DEF Safe

LEMMA NextSafe == IInv /\ [Next]_vars => IInv'
  <1> SUFFICES ASSUME IInv, [Next]_vars PROVE Safe'
    BY NextTyped DEF IInv
  <1>1. CASE Request
    BY <1>1, OperationsSafe, SnapshotSafe, BeginSafe DEF Request
  <1>2. CASE Proceed
    BY <1>2, SnapshotSafe, StopSafe, BackupSafe, BackupBreaksSafe, CopySafe, CopyBreaksSafe,
       RecordSafe, RbStartSafe, RcStopSafe, HealthSafe, FinishSafe, ClearSafe DEF Proceed
  <1>3. CASE Exit \/ StrayEnds \/ Notice \/ Probe
    BY <1>3, BesideSafe
  <1>4. CASE Crash
    BY <1>4, CrashSafe
  <1>5. CASE \E v \in Volumes : Write(v)
    BY <1>5, WriteSafe
  <1>6. CASE UNCHANGED vars
    BY <1>6 DEF vars, IInv, Safe, BackupHeld, Backed, Kept, Restoring, Step,
                PutBack, NothingLost, TreesAtStake
  <1> QED BY <1>1, <1>2, <1>3, <1>4, <1>5, <1>6 DEF Next

(* NeverLost: whatever fails, whoever goes on writing and wherever the     *)
(* daemon is killed, what a service wrote while no rollback had its volume *)
(* in a backup is in the volume, or in the backup of the call under way,   *)
(* or in one that a killed call left, until an outcome has been reported.  *)
THEOREM NeverLost == Spec => []NothingLost
  <1>1. Init => IInv
    BY InitTyped, InitSafe DEF IInv
  <1>2. IInv => NothingLost
    BY DEF IInv, Safe
  <1> QED BY <1>1, <1>2, NextSafe, PTL DEF Spec

(* SnapshotsStay: no rollback, failed or cut off or not, changes or drops  *)
(* a listed snapshot.                                                      *)
THEOREM SnapshotsStay == Spec => SnapshotsFrozen
  <1>1. ASSUME Typed, [Next]_vars, NEW n \in snaps
        PROVE  /\ n \in snaps'
               /\ \/ dirs'[n] = dirs[n]
                  \/ \E c \in {call, call'} : c.op = "snapshot" /\ c.snap = n
    <2>1. n \in Seconds /\ n \in snaps'
      BY <1>1 DEF Typed, TypeOK, Next, Request, Proceed, Start, Starts, StartBreaks, Stop, Stops,
            StopBreaks, Destroy, Deploy, SnapBegin, RbBegin, SnapInsert, RbStop, RbBackup,
            RbBackupBreaks, Copy, CopyBreaks, RbRecord, RcRecord, RecordBreaks, RbStart, RcStop, RcHealth,
            Finish, SnapTree, SnapTreeBreaks, Clear, ClearBreaks, Exit, StrayEnds, Notice, Probe, Crash, Write,
            vars, shelf
    <2>2. CASE SnapBegin
      <3>1. call'.op = "snapshot" /\ call'.snap = clock
        BY <2>2 DEF SnapBegin, Idle
      <3> QED BY <2>1, <2>2, <3>1 DEF SnapBegin
    <2>3. ASSUME NEW t \in Trees, SnapTree(t) \/ SnapTreeBreaks(t)
          PROVE  dirs'[n] = dirs[n] \/ (call.op = "snapshot" /\ call.snap = n)
      <3>1. call.op = "snapshot" /\ call.snap \in Seconds
        BY <1>1, <2>3 DEF SnapTree, SnapTreeBreaks, Typed, Shape, Catalog
      <3>2. PICK part \in SUBSET live[t] : dirs' = Merge(call.snap, t, part)
        BY <2>3 DEF SnapTree, SnapTreeBreaks
      <3>3. part \in SUBSET Files
        BY <1>1, LiveFiles
      <3> QED BY <1>1, <2>1, <3>1, <3>2, <3>3, MergeType, DirsTyped
    <2>4. CASE ~SnapBegin /\ ~(\E t \in Trees : SnapTree(t) \/ SnapTreeBreaks(t))
      <3>1. UNCHANGED dirs
        BY <1>1, <2>4 DEF Next, Request, Proceed, Start, Starts, StartBreaks, Stop, Stops,
            StopBreaks, Destroy, Deploy, RbBegin, SnapInsert, RbStop, RbBackup,
            RbBackupBreaks, Copy, CopyBreaks, RbRecord, RcRecord, RecordBreaks, RbStart, RcStop, RcHealth,
            Finish, Clear, ClearBreaks, Exit, StrayEnds, Notice, Probe, Crash, Write, vars, files
      <3> QED BY <2>1, <3>1
    <2> QED BY <2>1, <2>2, <2>3, <2>4
  <1>2. Typed /\ [Next]_vars => [\A n \in snaps :
          /\ n \in snaps'
          /\ \/ dirs'[n] = dirs[n]
             \/ \E c \in {call, call'} : c.op = "snapshot" /\ c.snap = n]_vars
    BY <1>1
  <1> QED BY <1>2, InitTyped, NextTyped, PTL DEF Spec, SnapshotsFrozen
===============================================================================
