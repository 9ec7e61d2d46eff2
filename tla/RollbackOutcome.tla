---------------------------- MODULE RollbackOutcome ----------------------------
(***************************************************************************)
(* What a reported rollback, and a reported recovery, has come to, for     *)
(* every set of releases and volumes and any number of failures and kills. *)
(***************************************************************************)
EXTENDS RollbackProofs

(* A process that is not in the row has outlived its stop, or its start.   *)
Tracked ==
    /\ alive => row.pid
    /\ ~outlived => stray = {}

(* Nothing of the row runs while a rollback moves files, nor before the    *)
(* start of a recovery.                                                    *)
Still ==
    \/ call.pc = "backup"
    \/ call.op = "rollback" /\ call.pc \in {"clear", "copy", "record", "start"}
    \/ Step("recovery", "start")
Quiet ==
    /\ Tracked
    /\ Still => ~alive
    /\ call.pc \in {"clear", "copy", "record"} /\ ~outlived => ~alive

------------------------------------------------------------------------------
(* Who runs *)

LEMMA LeavesTracked ==
    ASSUME Typed, Tracked, ~alive, StartLeaves
    PROVE  Tracked'
  <1>1. CASE UNCHANGED <<alive, stray, outlived>> \/ (Escapes /\ UNCHANGED alive)
    BY <1>1 DEF Escapes, Tracked
  <1>2. CASE Runs({}, {"starting", "healthy", "degraded"})
    <2>1. row'.pid /\ UNCHANGED <<stray, outlived>>
      BY <1>2 DEF Runs, Typed, TypeOK, RowType
    <2> QED BY <2>1 DEF Tracked
  <1> QED BY <1>1, <1>2 DEF StartLeaves, procs

LEMMA StartTracked ==
    ASSUME Typed, Tracked, ~alive, Starts \/ StartBreaks
    PROVE  Tracked'
  <1>1. CASE Starts
    <2>1. PICK status : row' = [row EXCEPT !.status = status, !.pid = TRUE]
      BY <1>1 DEF Starts, Runs
    <2>2. row'.pid
      BY <2>1 DEF Typed, TypeOK, RowType
    <2> QED BY <1>1, <2>2 DEF Starts, Runs, Tracked
  <1>2. CASE StartBreaks
    BY <1>2, LeavesTracked DEF StartBreaks, Tracked, procs
  <1> QED BY <1>1, <1>2

LEMMA StopTracked ==
    ASSUME Typed, Tracked, Stops \/ StopBreaks
    PROVE  Tracked' /\ (alive' => outlived')
  <1>1. Ends \/ (Missed /\ UNCHANGED row)
    BY DEF Stops, StopBreaks, Missed
  <1>2. CASE Ends
    BY <1>2 DEF Ends, Tracked
  <1>3. CASE Missed
    BY <1>1, <1>2, <1>3 DEF Missed, Tracked, Typed, TypeOK
  <1> QED BY <1>1, <1>2, <1>3

LEMMA CutsTracked ==
    ASSUME Typed, Quiet, CutOff
    PROVE  Tracked'
  <1>1. CASE UNCHANGED <<row, procs>>
    BY <1>1 DEF Quiet, Tracked, procs
  <1>2. CASE Ends
    BY <1>2 DEF Ends, Quiet, Tracked
  <1>3. CASE call.pc = "start" /\ StartLeaves
    <2>1. call.op \in {"rollback", "recovery"}
      BY <1>3, InRollback DEF Going, Later
    <2>2. ~alive
      BY <1>3, <2>1 DEF Quiet, Still, Step
    <2> QED BY <1>3, <2>2, LeavesTracked DEF Quiet
  <1> QED BY <1>1, <1>2, <1>3 DEF CutOff

(* A step after which no call is moving files.                             *)
LEMMA AtRest ==
    ASSUME Tracked', call'.pc \in {"idle", "trees", "stop", "health", "done", "failed"}
    PROVE  Quiet'
  BY DEF Quiet, Still, Step

LEMMA FreeQuiet ==
    ASSUME Typed, Quiet, Start \/ Stop \/ Destroy \/ \E r \in Releases : Deploy(r)
    PROVE  Quiet'
  <1>1. call'.pc = "idle"
    BY FreeIdle DEF Start, Stop, Destroy, Deploy
  <1>2. CASE Start
    <2>1. ~alive
      BY <1>2 DEF Start, Quiet, Tracked
    <2> QED BY <1>1, <1>2, <2>1, StartTracked, AtRest DEF Start, Quiet
  <1>3. CASE Stop
    BY <1>1, <1>3, StopTracked, AtRest DEF Stop, Quiet
  <1>4. CASE Destroy
    <2>1. ~alive' /\ (~outlived' => stray' = {})
      BY <1>4 DEF Destroy, Ends, Forgets, Quiet, Tracked, Typed, TypeOK
    <2> QED BY <1>1, <2>1, AtRest DEF Tracked
  <1>5. ASSUME NEW r \in Releases, Deploy(r) PROVE Quiet'
    <2>1. row'.pid = row.pid /\ UNCHANGED procs
      BY <1>5 DEF Deploy, Typed, TypeOK, RowType
    <2> QED BY <1>1, <2>1, AtRest DEF Quiet, Tracked, procs
  <1> QED BY <1>2, <1>3, <1>4, <1>5

(* Steps that touch neither the row nor the processes.                     *)
LEMMA StandsQuiet ==
    ASSUME Quiet, UNCHANGED <<row, procs>>, Still' => Still \/ ~alive,
           call'.pc \in {"clear", "copy", "record"} =>
               Still \/ ~alive \/ call.pc \in {"clear", "copy", "record"}
    PROVE  Quiet'
  BY DEF Quiet, Tracked, procs

LEMMA SnapQuiet ==
    ASSUME Typed, Quiet,
           SnapBegin \/ SnapInsert \/ \E t \in Trees : SnapTree(t) \/ SnapTreeBreaks(t)
    PROVE  Quiet'
  <1>1. call'.pc \in {"idle", "trees"}
    BY Empties DEF SnapBegin, SnapInsert, SnapTree, SnapTreeBreaks, CallType, Typed, TypeOK
  <1>2. Tracked'
    BY DEF SnapBegin, SnapInsert, SnapTree, SnapTreeBreaks, Quiet, Tracked, procs
  <1> QED BY <1>1, <1>2, AtRest

LEMMA BeginQuiet ==
    ASSUME Typed, Quiet, NEW n \in Seconds, RbBegin(n)
    PROVE  Quiet'
  <1>1. call'.pc = IF Occupied(row) THEN "stop" ELSE "backup"
    BY DEF RbBegin, Idle
  <1>2. ~Occupied(row) => ~alive
    BY DEF Occupied, Quiet, Tracked
  <1>3. Still' => ~Occupied(row)
    BY <1>1 DEF Still, Step, RbBegin, Idle
  <1> QED BY <1>1, <1>2, <1>3, StandsQuiet DEF RbBegin

LEMMA StoppingQuiet ==
    ASSUME Typed, Quiet, RbStop \/ RcStop
    PROVE  Quiet'
  <1>1. CASE RbStop /\ call' = Idle
    BY <1>1, StopTracked, Empties, AtRest DEF RbStop, Quiet
  <1>2. CASE RbStop /\ Stops
    <2>1. ~alive' /\ Tracked'
      BY <1>2, StopTracked DEF Stops, Ends, Quiet
    <2> QED BY <2>1 DEF Quiet
  <1>3. CASE RcStop
    <2>1. call'.op = "recovery" /\ call'.pc = "clear"
      BY <1>3 DEF RcStop, Step, Typed, TypeOK, CallType
    <2>2. ~Still'
      BY <2>1 DEF Still, Step
    <2>3. CASE Stops \/ StopBreaks
      BY <2>2, <2>3, StopTracked DEF Quiet
    <2>4. CASE ~Occupied(row) /\ UNCHANGED <<row, procs>>
      <3>1. ~alive
        BY <2>4 DEF Occupied, Quiet, Tracked
      <3> QED BY <2>2, <2>4, <3>1, StandsQuiet
    <2> QED BY <1>3, <2>3, <2>4 DEF RcStop
  <1> QED BY <1>1, <1>2, <1>3 DEF RbStop

LEMMA FilesQuiet ==
    ASSUME IInv, Quiet, RbBackup \/ RbBackupBreaks \/ Copy \/ CopyBreaks \/ Finish
                        \/ \E t \in Trees : Clear(t) \/ ClearBreaks(t)
    PROVE  Quiet'
  <1>1. UNCHANGED <<row, procs>>
    BY DEF RbBackup, RbBackupBreaks, Copy, CopyBreaks, Finish, Clear, ClearBreaks
  <1>2. CASE RbBackup
    <2>1. ~alive
      BY <1>2 DEF RbBackup, Step, Quiet, Still
    <2> QED BY <1>1, <2>1, StandsQuiet
  <1>3. CASE RbBackupBreaks \/ Finish
    BY <1>1, <1>3, Empties, AtRest DEF RbBackupBreaks, Finish, Quiet, Tracked, procs
  <1>4. CASE Copy \/ \E t \in Trees : Clear(t) \/ ClearBreaks(t)
    <2>1. call.pc \in {"clear", "copy"} /\ call'.op = call.op
          /\ call'.pc \in {"clear", "copy", "record"}
      BY <1>4 DEF Copy, Clear, ClearBreaks, IInv, Typed, TypeOK, CallType
    <2>2. Still' => Still
      BY <2>1 DEF Still, Step
    <2> QED BY <1>1, <2>1, <2>2, StandsQuiet
  <1>5. CASE CopyBreaks
    <2>1. call.op \in {"rollback", "recovery"}
      BY <1>5, InRollback DEF CopyBreaks, Going, Later, IInv
    <2>2. call'.pc \in {"stop", "failed"}
      BY <1>5, <2>1, FailsAs DEF CopyBreaks, IInv
    <2> QED BY <1>1, <2>2, AtRest DEF Quiet, Tracked, procs
  <1> QED BY <1>2, <1>3, <1>4, <1>5

LEMMA RecordQuiet ==
    ASSUME IInv, Quiet, RbRecord \/ RcRecord \/ RecordBreaks
    PROVE  Quiet'
  <1>1. Going(call) /\ call.op \in {"rollback", "recovery"} /\ call.pc = "record"
    BY InRollback DEF RbRecord, RcRecord, RecordBreaks, Step, Going, Later, IInv
  <1>2. CASE RbRecord
    <2>1. ~alive /\ UNCHANGED procs
      BY <1>2 DEF RbRecord, Step, Quiet, Still
    <2> QED BY <2>1 DEF Quiet, Tracked, procs
  <1>3. CASE RcRecord
    <2>1. ~outlived => ~alive
      BY <1>1 DEF Quiet
    <2> QED BY <1>3, <2>1 DEF RcRecord, Forgets, Quiet, Tracked, IInv, Typed, TypeOK
  <1>4. CASE RecordBreaks
    <2>1. call'.pc \in {"stop", "failed"}
      BY <1>1, <1>4, FailsAs DEF RecordBreaks, IInv
    <2>2. row'.pid = row.pid /\ UNCHANGED procs
      BY <1>1, <1>4, RolledType, RestoredType DEF RecordBreaks, IInv
    <2> QED BY <2>1, <2>2, AtRest DEF Quiet, Tracked, procs
  <1> QED BY <1>2, <1>3, <1>4

LEMMA StartingQuiet ==
    ASSUME IInv, Quiet, RbStart
    PROVE  Quiet'
  <1>1. call.op \in {"rollback", "recovery"} /\ call.pc = "start"
    BY InRollback DEF RbStart, Going, Later, IInv
  <1>2. ~alive
    BY <1>1 DEF Quiet, Still, Step
  <1>3. Tracked'
    BY <1>2, StartTracked DEF RbStart, Quiet, IInv
  <1>4. call'.pc \in {"stop", "failed", "health", "done"}
    BY <1>1, FailsAs DEF RbStart, Goto, IInv, Typed, TypeOK, CallType
  <1> QED BY <1>3, <1>4, AtRest

LEMMA BesideQuiet ==
    ASSUME Typed, Quiet,
           Exit \/ StrayEnds \/ Notice \/ Probe \/ RcHealth \/ \E v \in Volumes : Write(v)
    PROVE  Quiet'
  <1>1. CASE Exit
    BY <1>1 DEF Exit, Ends, Quiet, Tracked
  <1>2. CASE StrayEnds
    BY <1>2 DEF StrayEnds, Quiet, Tracked, Still, Step
  <1>3. CASE Notice
    BY <1>3 DEF Notice, Quiet, Tracked, procs
  <1>4. CASE Probe
    <2>1. row'.pid = row.pid /\ UNCHANGED <<procs, call>>
      BY <1>4 DEF Probe, Typed, TypeOK, RowType
    <2> QED BY <2>1 DEF Quiet, Tracked, Still, Step, procs
  <1>5. CASE RcHealth
    <2>1. (row.pid => row'.pid) /\ call'.pc = "done" /\ UNCHANGED procs
      BY <1>5 DEF RcHealth, Goto, Typed, TypeOK, RowType, CallType
    <2> QED BY <2>1, AtRest DEF Quiet, Tracked, procs
  <1>6. CASE \E v \in Volumes : Write(v)
    BY <1>6 DEF Write, Quiet, Tracked, Still, Step, procs
  <1> QED BY <1>1, <1>2, <1>3, <1>4, <1>5, <1>6

LEMMA NextQuiet ==
    ASSUME IInv, Quiet, [Next]_vars
    PROVE  Quiet'
  <1>1. CASE Request
    BY <1>1, FreeQuiet, SnapQuiet, BeginQuiet DEF Request, IInv
  <1>2. CASE Proceed
    BY <1>2, SnapQuiet, StoppingQuiet, FilesQuiet, RecordQuiet, StartingQuiet, BesideQuiet
       DEF Proceed, IInv
  <1>3. CASE Exit \/ StrayEnds \/ Notice \/ Probe \/ \E v \in Volumes : Write(v)
    BY <1>3, BesideQuiet DEF IInv
  <1>4. CASE Crash
    BY <1>4, CutsTracked, Empties, AtRest DEF Crash, IInv
  <1>5. CASE UNCHANGED vars
    BY <1>5 DEF vars, Quiet, Tracked, Still, Step
  <1> QED BY <1>1, <1>2, <1>3, <1>4, <1>5 DEF Next

LEMMA InitQuiet == Init => IInv /\ Quiet
  <1> SUFFICES ASSUME Init PROVE IInv /\ Quiet
    OBVIOUS
  <1>1. Quiet
    BY Empties DEF Init, Quiet, Tracked, Still, Step
  <1> QED BY <1>1, InitTyped, InitSafe DEF IInv

(* NobodyWrites: while the files of a rollback are backed up and replaced, *)
(* and while a recovery puts them back, no process of the service runs,    *)
(* unless one has outlived its stop or a start that failed.                *)
THEOREM NobodyWrites == Spec => []Quiesced
  <1>1. IInv /\ Quiet => Quiesced
    BY DEF Quiesced, Quiet, Tracked, Still
  <1>2. IInv /\ Quiet /\ [Next]_vars => (IInv /\ Quiet)'
    BY NextSafe, NextQuiet
  <1> QED BY <1>1, <1>2, InitQuiet, PTL DEF Spec

------------------------------------------------------------------------------
(* Files are written with rising numbers: none of a set is later than k.   *)
Dated(S, k) == \A f \in S : f \in Nat => f <= k

Stamped ==
    /\ \A v \in Volumes : Dated(live[v], writes)
    /\ \A n \in Seconds, v \in Volumes : Dated(dirs[n].trees[v], writes)

(* What a call copies is no later than the moment of its backup.           *)
Bounded ==
    Backed => /\ call.since <= writes
              /\ \A v \in Volumes : /\ Dated(dirs[call.snap].trees[v], call.since)
                                    /\ Dated(call.backup[v], call.since)

(* A call moves the volumes that either manifest lists.                    *)
Named == call.op \in {"rollback", "recovery"} => call.names = Concerned

(* Volumes that are no longer to do are as their source has them, and one  *)
(* that is being copied is empty, but for what could not be removed.       *)
Put ==
    /\ call.pc \in {"clear", "copy"} =>
          \A v \in call.names \ call.todo : Holds(v, Source[v])
    /\ call.pc \in {"record", "start", "health", "done"} =>
          \A v \in call.names : Holds(v, Source[v])
    /\ call.pc = "copy" /\ call.cur \notin call.mixed => Since(call.cur) = {}

(* The row of the rollback, and the process it has started.                *)
RowIsNew ==
    call.op = "rollback" =>
        /\ call.pc \in {"start", "done"} => row.man = dirs[call.snap].man
        /\ call.pc = "done" /\ alive => mounted = Lists[row.man]

(* The row of the recovery.                                                *)
RowIsOld ==
    call.op = "recovery" =>
        /\ call.pc \in {"start", "health", "done"} =>
              row.man = call.row.man /\ row.app = call.row.app
        /\ call.pc \in {"start", "health"} => call.was
        /\ call.pc \in {"health", "done"} /\ call.was => Occupied(row) \/ row.status = "failed"
        /\ call.pc = "done" /\ ~call.was => ~row.pid /\ row.status = call.row.status

Ongoing == Bounded /\ Named /\ Put /\ RowIsNew /\ RowIsOld
OInv    == IInv /\ Quiet /\ Stamped /\ Ongoing

------------------------------------------------------------------------------
(* Dates *)

LEMMA DatedLater ==
    ASSUME NEW S, NEW k \in Nat, NEW m \in Nat, k <= m, Dated(S, k)
    PROVE  Dated(S, m)
  BY DEF Dated

LEMMA DatedUnion ==
    ASSUME NEW S, NEW T, NEW k, Dated(S, k), Dated(T, k)
    PROVE  Dated(S \cup T, k)
  BY DEF Dated

LEMMA DatedPart ==
    ASSUME NEW S, NEW T \in SUBSET S, NEW k, Dated(S, k)
    PROVE  Dated(T, k)
  BY DEF Dated

LEMMA Counters == ASSUME Typed PROVE writes \in Nat /\ call.since \in Nat
  BY DEF Typed, TypeOK, CallType

(* What a call is copying is no later than what has been written.          *)
LEMMA SourceDated ==
    ASSUME OInv, Backed, NEW v \in Volumes
    PROVE  Dated(Source[v], call.since) /\ Dated(Source[v], writes)
  <1>1. Dated(Source[v], call.since)
    BY DEF OInv, Ongoing, Bounded, Source
  <1>2. call.since <= writes
    BY DEF OInv, Ongoing, Bounded
  <1> QED BY <1>1, <1>2, DatedLater, Counters DEF OInv, IInv

------------------------------------------------------------------------------
(* What a step does to the volumes and to the snapshots *)

LEMMA CutsWrite ==
    ASSUME Typed, CutOff
    PROVE  \/ \A v \in Volumes : live'[v] = live[v]
           \/ \E t \in Trees : \E rest \in SUBSET live[t] : live' = [live EXCEPT ![t] = rest]
           \/ /\ call.pc = "copy"
              /\ \E part \in SUBSET Source[call.cur] : live' = Onto(live, call.cur, part)
  <1>1. call.todo \subseteq Trees
    BY CallFields DEF Typed, TypeOK
  <1> QED BY <1>1, LeavesKeep DEF CutOff, Typed

LEMMA LiveWrites ==
    ASSUME IInv, [Next]_vars
    PROVE  \/ UNCHANGED writes /\ \A v \in Volumes : live'[v] = live[v]
           \/ /\ UNCHANGED writes
              /\ \E t \in Trees : \E rest \in SUBSET live[t] : live' = [live EXCEPT ![t] = rest]
           \/ /\ call.pc = "copy" /\ UNCHANGED writes
              /\ \E part \in SUBSET Source[call.cur] : live' = Onto(live, call.cur, part)
           \/ \E v \in Volumes : Write(v)
  <1>1. CASE Start \/ RbStart
    BY <1>1, StartKeeps DEF Start, RbStart, Starts, StartBreaks, IInv, Typed, traces
  <1>2. CASE Destroy
    BY <1>2, RuntimeApart DEF Destroy, IInv, Typed, TypeOK, TreeType, traces
  <1>3. CASE Crash
    BY <1>3, CutsWrite DEF Crash, traces, IInv
  <1>4. CASE Copy \/ CopyBreaks
    BY <1>4 DEF Copy, CopyBreaks, traces
  <1>5. CASE Stop \/ RbStop \/ RcStop
    BY <1>5 DEF Stop, RbStop, RcStop, Stops, StopBreaks, files, traces
  <1>6. CASE (\E r \in Releases : Deploy(r)) \/ (\E n \in Seconds : RbBegin(n)) \/ SnapBegin
    BY <1>6 DEF Deploy, RbBegin, SnapBegin, files, traces
  <1>7. CASE SnapInsert \/ \E t \in Trees : SnapTree(t) \/ SnapTreeBreaks(t)
    BY <1>7 DEF SnapInsert, SnapTree, SnapTreeBreaks, files, traces
  <1>8. CASE RbBackup \/ RbBackupBreaks \/ RbRecord \/ RcRecord \/ RecordBreaks
             \/ RcHealth \/ Finish
    BY <1>8 DEF RbBackup, RbBackupBreaks, RbRecord, RcRecord, RecordBreaks, RcHealth, Finish,
                files, traces
  <1>9. CASE Exit \/ StrayEnds \/ Notice \/ Probe
    BY <1>9 DEF Exit, StrayEnds, Notice, Probe, files, traces
  <1>10. CASE UNCHANGED vars
    BY <1>10 DEF vars
  <1>11. ASSUME NEW t \in Trees, Clear(t) \/ ClearBreaks(t)
         PROVE  UNCHANGED writes /\ \E rest \in SUBSET live[t] : live' = [live EXCEPT ![t] = rest]
    BY <1>11 DEF Clear, ClearBreaks, traces
  <1> QED BY <1>1, <1>2, <1>3, <1>4, <1>5, <1>6, <1>7, <1>8, <1>9, <1>10, <1>11
          DEF Next, Request, Proceed

LEMMA DirsWrites ==
    ASSUME IInv, [Next]_vars
    PROVE  \/ UNCHANGED dirs
           \/ SnapBegin
           \/ /\ call.op = "snapshot" /\ call.snap \in Seconds
              /\ \E t \in Trees : \E part \in SUBSET live[t] : dirs' = Merge(call.snap, t, part)
  <1>1. CASE \E t \in Trees : SnapTree(t) \/ SnapTreeBreaks(t)
    BY <1>1 DEF SnapTree, SnapTreeBreaks, IInv, Typed, Shape, Catalog
  <1>2. CASE ~SnapBegin /\ ~(\E t \in Trees : SnapTree(t) \/ SnapTreeBreaks(t))
    BY <1>2 DEF Next, Request, Proceed, Start, Starts, StartBreaks, Stop, Stops,
            StopBreaks, Destroy, Deploy, RbBegin, SnapInsert, RbStop, RbBackup,
            RbBackupBreaks, Copy, CopyBreaks, RbRecord, RcRecord, RecordBreaks, RbStart, RcStop, RcHealth,
            Finish, Clear, ClearBreaks, Exit, StrayEnds, Notice, Probe, Crash, Write, vars, files
  <1> QED BY <1>1, <1>2

LEMMA LiveStamped ==
    ASSUME OInv, [Next]_vars, NEW v \in Volumes
    PROVE  Dated(live'[v], writes')
  <1>1. Dated(live[v], writes) /\ writes \in Nat /\ v \in Trees
    BY Counters, VolumeTrees DEF OInv, Stamped, IInv
  <1>2. CASE UNCHANGED writes /\ \A u \in Volumes : live'[u] = live[u]
    BY <1>1, <1>2
  <1>3. ASSUME NEW t \in Trees, NEW rest \in SUBSET live[t], UNCHANGED writes,
               live' = [live EXCEPT ![t] = rest]
        PROVE  Dated(live'[v], writes')
    <2>1. live'[v] \in SUBSET live[v]
      BY <1>1, <1>3 DEF OInv, IInv, Typed, TypeOK, TreeType
    <2> QED BY <1>1, <1>3, <2>1, DatedPart
  <1>4. ASSUME call.pc = "copy", UNCHANGED writes,
               NEW part \in SUBSET Source[call.cur], live' = Onto(live, call.cur, part)
        PROVE  Dated(live'[v], writes')
    <2>1. CASE v = call.cur
      <3>1. live'[v] = live[v] \cup part
        BY <1>1, <1>4, <2>1, OntoGrows DEF OInv, IInv
      <3>2. Dated(part, writes)
        BY <1>4, <2>1, SourceDated, DatedPart DEF Backed
      <3> QED BY <1>1, <1>4, <3>1, <3>2, DatedUnion
    <2>2. CASE v # call.cur
      BY <1>1, <1>4, <2>2 DEF Onto, OInv, IInv, Typed, TypeOK, TreeType
    <2> QED BY <2>1, <2>2
  <1>5. ASSUME NEW u \in Volumes, Write(u) PROVE Dated(live'[v], writes')
    <2>1. writes' = writes + 1 /\ live'[v] \in SUBSET (live[v] \cup {writes + 1})
      BY <1>1, <1>5, VolumeTrees DEF Write, Onto, OInv, IInv, Typed, TypeOK, TreeType
    <2>2. Dated(live[v], writes + 1)
      BY <1>1, DatedLater
    <2>3. Dated({writes + 1}, writes + 1)
      BY <1>1 DEF Dated
    <2> QED BY <2>1, <2>2, <2>3 DEF Dated
  <1> QED BY <1>2, <1>3, <1>4, <1>5, LiveWrites DEF OInv

LEMMA WritesGrow ==
    ASSUME Typed, [Next]_vars
    PROVE  writes' \in Nat /\ writes <= writes'
  <1>1. writes' \in {writes, writes + 1}
    BY DEF Next, Request, Proceed, Start, Starts, StartBreaks, Stop, Stops,
            StopBreaks, Destroy, Deploy, SnapBegin, RbBegin, SnapInsert, RbStop, RbBackup,
            RbBackupBreaks, Copy, CopyBreaks, RbRecord, RcRecord, RecordBreaks, RbStart, RcStop, RcHealth,
            Finish, SnapTree, SnapTreeBreaks, Clear, ClearBreaks, Exit, StrayEnds, Notice, Probe, Crash, Write, vars,
            traces
  <1> QED BY <1>1, Counters

LEMMA DirsStamped ==
    ASSUME OInv, [Next]_vars, NEW n \in Seconds, NEW v \in Volumes
    PROVE  Dated(dirs'[n].trees[v], writes')
  <1>1. Dated(dirs[n].trees[v], writes) /\ Typed /\ v \in Trees
    BY VolumeTrees DEF OInv, Stamped, IInv
  <1>2. Dated(dirs'[n].trees[v], writes)
    <2>1. CASE UNCHANGED dirs
      BY <1>1, <2>1
    <2>2. CASE SnapBegin
      <3>1. dirs'[n].trees = dirs[n].trees
        BY <1>1, <2>2, DirsTyped DEF SnapBegin, DirType
      <3> QED BY <1>1, <3>1
    <2>3. ASSUME call.snap \in Seconds, NEW t \in Trees, NEW part \in SUBSET live[t],
                 dirs' = Merge(call.snap, t, part)
          PROVE  Dated(dirs'[n].trees[v], writes)
      <3>1. dirs[n].trees \in TreeType
        BY <1>1, DirsTyped DEF DirType
      <3>2. dirs'[n].trees[v] \in SUBSET (dirs[n].trees[v] \cup (IF v = t THEN part ELSE {}))
        BY <1>1, <2>3, <3>1, DirsTyped DEF Merge, Onto, DirType, TreeType
      <3>3. Dated(IF v = t THEN part ELSE {}, writes)
        BY DatedPart DEF OInv, Stamped, Dated
      <3> QED BY <1>1, <3>2, <3>3 DEF Dated
    <2> QED BY <2>1, <2>2, <2>3, DirsWrites DEF OInv
  <1> QED BY <1>1, <1>2, WritesGrow, DatedLater, Counters

LEMMA StampedStep == ASSUME OInv, [Next]_vars PROVE Stamped'
  BY LiveStamped, DirsStamped DEF Stamped

------------------------------------------------------------------------------
(* Calls that are not a rollback *)

LEMMA NotOngoing ==
    ASSUME call'.pc \in {"idle", "trees"}, call'.op \in {"none", "snapshot"}
    PROVE  Ongoing'
  BY DEF Ongoing, Bounded, Backed, Step, Named, Put, RowIsNew, RowIsOld

LEMMA IdleOngoing == ASSUME call' = Idle PROVE Ongoing'
  BY Empties, NotOngoing

LEMMA FreeOngoing ==
    ASSUME IInv, Free, UNCHANGED call
    PROVE  Ongoing'
  BY FreeIdle, NotOngoing DEF IInv

LEMMA SnapOngoing ==
    ASSUME IInv, SnapBegin \/ SnapInsert \/ \E t \in Trees : SnapTree(t) \/ SnapTreeBreaks(t)
    PROVE  Ongoing'
  <1>1. CASE SnapBegin
    BY <1>1, Empties, NotOngoing DEF SnapBegin, CallType
  <1>2. CASE SnapInsert \/ \E t \in Trees : SnapTreeBreaks(t)
    BY <1>2, IdleOngoing DEF SnapInsert, SnapTreeBreaks
  <1>3. CASE \E t \in Trees : SnapTree(t)
    <2>1. call'.pc = "trees" /\ call'.op = "snapshot"
      BY <1>3 DEF SnapTree, IInv, Typed, TypeOK, Shape, CallType
    <2> QED BY <2>1, NotOngoing
  <1> QED BY <1>1, <1>2, <1>3

------------------------------------------------------------------------------
(* Steps of a rollback and of its recovery *)

(* What stays of a call from its backup on.                                *)
Kin == /\ UNCHANGED <<call.snap, call.names, call.row, call.was, call.backup, call.since>>
       /\ UNCHANGED dirs

LEMMA KinBounded ==
    ASSUME OInv, Kin, Backed, writes' \in Nat, writes <= writes'
    PROVE  Bounded'
  <1>1. call.since <= writes'
    BY Counters DEF OInv, Ongoing, Bounded, IInv
  <1> QED BY <1>1 DEF OInv, Ongoing, Bounded, Kin

LEMMA KinNamed ==
    ASSUME OInv, Kin, call.op \in {"rollback", "recovery"}
    PROVE  Named'
  BY DEF OInv, Ongoing, Named, Concerned, Kin

LEMMA KinSource == ASSUME Kin, UNCHANGED call.op PROVE Source' = Source
  BY DEF Kin, Source

LEMMA KinSince ==
    ASSUME Kin, NEW v, live'[v] = live[v]
    PROVE  Since(v)' = Since(v)
  BY DEF Kin, Since

LEMMA NamesVolumes == ASSUME IInv PROVE call.names \subseteq Volumes
  BY CallFields DEF IInv, Typed, TypeOK

LEMMA KinPut ==
    ASSUME OInv, Kin, UNCHANGED <<call.op, call.mixed>>,
           \A v \in Volumes : live'[v] = live[v],
           call.pc \in {"record", "start", "health", "done"},
           call'.pc \in {"record", "start", "health", "done"}
    PROVE  Put'
  <1>1. \A v \in call.names : /\ Source'[v] \subseteq live'[v]
                              /\ v \notin call.mixed => Since(v)' = Source'[v]
    BY KinSource, KinSince, NamesVolumes DEF OInv, Ongoing, Put, Holds
  <1> QED BY <1>1 DEF Put, Kin, Holds

LEMMA BeginOngoing ==
    ASSUME OInv, NEW n \in Seconds, RbBegin(n)
    PROVE  Ongoing'
  <1>1. /\ call'.op = "rollback" /\ call'.pc \in {"stop", "backup"}
        /\ call'.names = VolumeNames(row.man, dirs[n].man)
        /\ call'.row = row /\ call'.snap = n /\ UNCHANGED dirs
    BY DEF RbBegin, Idle, files
  <1>2. Named'
    BY <1>1 DEF Named, Concerned, VolumeNames
  <1> QED BY <1>1, <1>2 DEF Ongoing, Bounded, Backed, Step, Put, RowIsNew, RowIsOld

LEMMA StopOngoing ==
    ASSUME OInv, RbStop
    PROVE  Ongoing'
  <1>1. CASE call' = Idle
    BY <1>1, IdleOngoing
  <1>2. CASE Goto("backup")
    <2>1. call.op = "rollback" /\ UNCHANGED dirs
      BY DEF RbStop, Step, Stops, StopBreaks, files
    <2>2. Kin /\ call'.op = "rollback" /\ call'.pc = "backup"
      BY <1>2, <2>1 DEF Goto, Kin, OInv, IInv, Typed, TypeOK, CallType
    <2>3. Named'
      BY <2>1, <2>2, KinNamed
    <2> QED BY <2>2, <2>3 DEF Ongoing, Bounded, Backed, Step, Put, RowIsNew, RowIsOld
  <1> QED BY <1>1, <1>2 DEF RbStop

LEMMA BackupOngoing ==
    ASSUME OInv, RbBackup
    PROVE  Ongoing'
  <1>1. /\ call'.op = "rollback" /\ call'.pc = "clear" /\ call'.since = writes
        /\ call'.backup = Copied(TreesAtStake) /\ call'.todo = TreesAtStake
        /\ UNCHANGED <<call.names, call.row, call.snap, dirs, live, writes>>
    BY DEF RbBackup, Step, OInv, IInv, Typed, TypeOK, CallType, files, traces
  <1>2. call.op = "rollback" /\ call.snap \in Seconds
    BY DEF RbBackup, Step, OInv, IInv, Typed, TypeOK, Catalog
  <1>3. Bounded'
    <2>1. writes \in Nat
      BY Counters DEF OInv, IInv
    <2>2. \A v \in Volumes : Dated(dirs[call.snap].trees[v], writes)
      BY <1>2 DEF OInv, Stamped
    <2>3. \A v \in Volumes : Dated(Copied(TreesAtStake)[v], writes)
      BY VolumeTrees DEF Copied, OInv, Stamped, Dated
    <2> QED BY <1>1, <2>1, <2>2, <2>3 DEF Bounded
  <1>4. Named'
    BY <1>1, <1>2 DEF OInv, Ongoing, Named, Concerned
  <1>5. Put'
    BY <1>1 DEF Put, TreesAtStake
  <1> QED BY <1>1, <1>3, <1>4, <1>5 DEF Ongoing, RowIsNew, RowIsOld

(* While volumes are moved the rows are not spoken of.                     *)
LEMMA MoveOngoing ==
    ASSUME OInv, Kin, Backed, call.op \in {"rollback", "recovery"}, UNCHANGED writes,
           call'.op \in {"rollback", "recovery"},
           call'.pc \in {"stop", "clear", "copy", "record", "failed"}, Put'
    PROVE  Ongoing'
  <1>1. Bounded' /\ Named'
    BY KinBounded, KinNamed, Counters DEF OInv, IInv
  <1> QED BY <1>1 DEF Ongoing, RowIsNew, RowIsOld

LEMMA ClearOngoing ==
    ASSUME OInv, NEW t \in Trees, Clear(t) \/ ClearBreaks(t)
    PROVE  Ongoing'
  <1>1. /\ call.pc = "clear" /\ t \in call.todo /\ call'.pc = "copy" /\ call'.cur = t
        /\ Kin /\ UNCHANGED <<call.op, call.todo, writes>>
        /\ \A v \in Volumes : v # t => live'[v] = live[v]
        /\ \A v \in Trees : v # t => (v \in call'.mixed <=> v \in call.mixed)
    BY Removal DEF OInv, Kin, traces
  <1>2. call.op \in {"rollback", "recovery"} /\ Backed
    BY <1>1, MidStep DEF OInv, IInv
  <1>3. ASSUME NEW v \in call.names \ call.todo
        PROVE  /\ Source'[v] \subseteq live'[v]
               /\ v \notin call'.mixed => Since(v)' = Source'[v]
    <2>1. v \in Volumes /\ v \in Trees /\ v # t
      BY <1>1, NamesVolumes, VolumeTrees DEF OInv
    <2>2. live'[v] = live[v] /\ (v \notin call'.mixed => v \notin call.mixed)
      BY <1>1, <2>1
    <2>3. Since(v)' = Since(v) /\ Source' = Source
      BY <1>1, <2>2, KinSince, KinSource
    <2> QED BY <1>1, <1>3, <2>2, <2>3 DEF OInv, Ongoing, Put, Holds
  <1>4. t \notin call'.mixed => Since(t)' = {}
    <2>1. CASE Clear(t)
      <3>1. live'[t] = {}
        BY <2>1 DEF Clear, OInv, IInv, Typed, TypeOK, TreeType
      <3> QED BY <3>1 DEF Since
    <2>2. CASE ClearBreaks(t)
      BY <2>2 DEF ClearBreaks, OInv, IInv, Typed, TypeOK, CallType
    <2> QED BY <2>1, <2>2
  <1>5. Put'
    BY <1>1, <1>3, <1>4 DEF Put, Kin, Holds
  <1> QED BY <1>1, <1>2, <1>5, MoveOngoing

LEMMA CopyOngoing ==
    ASSUME OInv, Copy
    PROVE  Ongoing'
  <1>1. call.pc = "copy" /\ call.cur \in Trees
    BY CallFields DEF Copy, OInv, IInv, Typed, TypeOK
  <1>2. call.op \in {"rollback", "recovery"} /\ Backed
    BY <1>1, InRollback DEF Backed, OInv, IInv, Going, Later
  <1>3. /\ Kin /\ UNCHANGED <<call.op, writes>> /\ call'.todo = call.todo \ {call.cur}
        /\ call'.pc = IF call.todo = {call.cur} THEN "record" ELSE "clear"
    BY DEF Copy, Kin, OInv, IInv, Typed, TypeOK, CallType, traces
  <1>4. /\ live'[call.cur] = live[call.cur] \cup Source[call.cur] /\ UNCHANGED call.mixed
        /\ \A v \in Volumes : v # call.cur => live'[v] = live[v]
    BY <1>1, VolumeTrees DEF Copy, Onto, OInv, IInv, Typed, TypeOK, TreeType, CallType
  <1>5. ASSUME NEW v \in call.names, v \notin call.todo \ {call.cur}
        PROVE  /\ Source'[v] \subseteq live'[v]
               /\ v \notin call.mixed => Since(v)' = Source'[v]
    <2>1. v \in Volumes
      BY NamesVolumes DEF OInv
    <2>2. CASE v = call.cur
      <3>1. Since(v)' = Since(v) \cup {f \in Source[v] : f \in Nat => f <= call.since}
        BY <1>3, <1>4, <2>2 DEF Since, Kin
      <3>2. Dated(Source[v], call.since)
        BY <1>2, <2>1, SourceDated
      <3>3. {f \in Source[v] : f \in Nat => f <= call.since} = Source[v]
        BY <3>2 DEF Dated
      <3>4. v \notin call.mixed => Since(v) = {}
        BY <1>1, <2>2 DEF OInv, Ongoing, Put
      <3> QED BY <1>3, <1>4, <2>2, <3>1, <3>3, <3>4, KinSource
    <2>3. CASE v # call.cur
      BY <1>1, <1>3, <1>4, <1>5, <2>1, <2>3, KinSource, KinSince DEF OInv, Ongoing, Put, Holds
    <2> QED BY <2>2, <2>3
  <1>6. Put'
    <2>1. call'.pc = "record" => call.todo \ {call.cur} = {}
      BY <1>3
    <2> QED BY <1>3, <1>4, <1>5, <2>1 DEF Put, Kin, Holds
  <1> QED BY <1>2, <1>3, <1>6, MoveOngoing

LEMMA FailsOngoing ==
    ASSUME OInv, call.pc \in {"copy", "record", "start"}, Fails, UNCHANGED <<dirs, writes>>
    PROVE  Ongoing'
  <1>1. call.op \in {"rollback", "recovery"} /\ Backed
    BY InRollback DEF Backed, OInv, IInv, Going, Later
  <1>2. Kin /\ call'.op = "recovery" /\ call'.pc \in {"stop", "failed"}
    BY <1>1, FailsAs DEF Kin, OInv, IInv
  <1> QED BY <1>1, <1>2, MoveOngoing DEF Put

LEMMA RcStopOngoing ==
    ASSUME OInv, RcStop
    PROVE  Ongoing'
  <1>1. UNCHANGED <<dirs, writes>>
    BY DEF RcStop, Stops, StopBreaks, files, traces
  <1>2. Kin /\ UNCHANGED call.op /\ call'.pc = "clear" /\ call'.todo = TreesAtStake
    BY <1>1 DEF RcStop, Kin, OInv, IInv, Typed, TypeOK, CallType
  <1>3. call.op = "recovery" /\ Backed
    BY DEF RcStop, Step, Backed
  <1>4. Put'
    BY <1>2 DEF Put, Kin, TreesAtStake
  <1> QED BY <1>1, <1>2, <1>3, <1>4, MoveOngoing

------------------------------------------------------------------------------
(* The row is written and the service started *)

LEMMA LateStep ==
    ASSUME OInv, Kin, UNCHANGED <<call.op, call.mixed, writes>>, \A v \in Volumes : live'[v] = live[v],
           call.pc \in {"record", "start", "health", "done"},
           call'.pc \in {"record", "start", "health", "done"}
    PROVE  Bounded' /\ Named' /\ Put'
  <1>1. call.op \in {"rollback", "recovery"} /\ Backed
    BY InRollback DEF Backed, OInv, IInv, Going, Later
  <1> QED BY <1>1, KinBounded, KinNamed, KinPut, Counters DEF OInv, IInv

LEMMA RbRecordOngoing ==
    ASSUME OInv, RbRecord
    PROVE  Ongoing'
  <1>1. call.op = "rollback" /\ call.pc = "record" /\ UNCHANGED <<live, dirs, writes>>
    BY DEF RbRecord, Step, files, traces
  <1>2. Kin /\ UNCHANGED <<call.op, call.mixed>> /\ call'.pc = "start"
    BY <1>1 DEF RbRecord, Goto, Kin, OInv, IInv, Typed, TypeOK, CallType
  <1>3. Bounded' /\ Named' /\ Put'
    BY <1>1, <1>2, LateStep
  <1>4. row'.man = dirs[call.snap].man
    BY DEF RbRecord, Rolled, OInv, IInv, Typed, TypeOK, RowType
  <1>5. RowIsNew' /\ RowIsOld'
    BY <1>1, <1>2, <1>4 DEF RowIsNew, RowIsOld, Kin
  <1> QED BY <1>3, <1>5 DEF Ongoing

LEMMA RcRecordOngoing ==
    ASSUME OInv, RcRecord
    PROVE  Ongoing'
  <1>1. call.op = "recovery" /\ call.pc = "record" /\ UNCHANGED <<live, dirs, writes>>
    BY DEF RcRecord, Step, files, traces
  <1>2. Kin /\ UNCHANGED <<call.op, call.mixed>> /\ call'.pc = IF call.was THEN "start" ELSE "done"
    BY <1>1 DEF RcRecord, Goto, Kin, OInv, IInv, Typed, TypeOK, CallType
  <1>3. Bounded' /\ Named' /\ Put'
    BY <1>1, <1>2, LateStep
  <1>4. /\ row'.man = call.row.man /\ row'.app = call.row.app /\ ~row'.pid
        /\ row'.status = IF call.was THEN "stopped" ELSE call.row.status
    <2>1. Going(call)
      BY <1>1, InRollback DEF OInv, IInv, Later
    <2>2. /\ Restored \in RowType /\ Restored.man = call.row.man /\ Restored.app = call.row.app
          /\ Restored.status = IF call.was THEN "stopped" ELSE call.row.status
      BY <2>1, RestoredType DEF OInv, IInv
    <2> QED BY <2>2 DEF RcRecord, RowType
  <1>5. RowIsNew' /\ RowIsOld'
    BY <1>1, <1>2, <1>4 DEF RowIsNew, RowIsOld, Kin
  <1> QED BY <1>3, <1>5 DEF Ongoing

LEMMA RbStartOngoing ==
    ASSUME OInv, RbStart
    PROVE  Ongoing'
  <1>1. call.pc = "start" /\ UNCHANGED <<dirs, writes>>
    BY DEF RbStart, Starts, StartBreaks, traces
  <1>2. CASE Fails
    BY <1>1, <1>2, FailsOngoing
  <1>3. CASE Starts /\ Goto(IF call.op = "recovery" /\ call.row.status = "healthy"
                            THEN "health" ELSE "done")
    <2>1. \A v \in Volumes : live'[v] = live[v]
      BY <1>3, StartKeeps DEF OInv, IInv, Typed
    <2>2. /\ Kin /\ UNCHANGED <<call.op, call.mixed>>
          /\ call'.pc = IF call.op = "recovery" /\ call.row.status = "healthy"
                        THEN "health" ELSE "done"
      BY <1>1, <1>3 DEF Goto, Kin, OInv, IInv, Typed, TypeOK, CallType
    <2>3. Bounded' /\ Named' /\ Put'
      BY <1>1, <2>1, <2>2, LateStep
    <2>4. row'.man = row.man /\ row'.app = row.app /\ row'.pid /\ mounted' = Lists[row.man]
      BY <1>3 DEF Starts, Runs, OInv, IInv, Typed, TypeOK, RowType
    <2>5. RowIsNew'
      BY <1>1, <2>2, <2>4 DEF RowIsNew, Kin, OInv, Ongoing
    <2>6. RowIsOld'
      <3>1. call.op = "recovery" => /\ row.man = call.row.man /\ row.app = call.row.app
                                    /\ call.was
        BY <1>1 DEF OInv, Ongoing, RowIsOld
      <3>2. Occupied(row)'
        BY <2>4 DEF Occupied
      <3> QED BY <2>2, <2>4, <3>1, <3>2 DEF RowIsOld, Kin
    <2> QED BY <2>3, <2>5, <2>6 DEF Ongoing
  <1> QED BY <1>2, <1>3 DEF RbStart

LEMMA HealthOngoing ==
    ASSUME OInv, RcHealth
    PROVE  Ongoing'
  <1>1. call.pc = "health" /\ call.op = "recovery" /\ UNCHANGED <<live, dirs, writes>>
    BY DEF RcHealth, files, traces, OInv, IInv, Safe, BackupHeld
  <1>2. Kin /\ UNCHANGED <<call.op, call.mixed>> /\ call'.pc = "done"
    BY <1>1 DEF RcHealth, Goto, Kin, OInv, IInv, Typed, TypeOK, CallType
  <1>3. Bounded' /\ Named' /\ Put'
    BY <1>1, <1>2, LateStep
  <1>4. /\ row.man = call.row.man /\ row.app = call.row.app /\ call.was
        /\ Occupied(row) \/ row.status = "failed"
    BY <1>1 DEF OInv, Ongoing, RowIsOld
  <1>5. /\ row'.man = row.man /\ row'.app = row.app
        /\ row' = row \/ row'.status = "healthy"
    BY DEF RcHealth, OInv, IInv, Typed, TypeOK, RowType
  <1>6. Occupied(row)' \/ row'.status = "failed"
    BY <1>4, <1>5 DEF Occupied
  <1>7. RowIsNew' /\ RowIsOld'
    BY <1>1, <1>2, <1>4, <1>5, <1>6 DEF RowIsNew, RowIsOld, Kin
  <1> QED BY <1>3, <1>7 DEF Ongoing

------------------------------------------------------------------------------
(* Beside the call *)

LEMMA StandsOngoing ==
    ASSUME OInv, UNCHANGED <<live, dirs, writes, call>>
    PROVE  Bounded' /\ Named' /\ Put'
  BY DEF OInv, Ongoing, Bounded, Backed, Step, Named, Concerned, Put, Holds, Since,
         Source

LEMMA BesideOngoing ==
    ASSUME OInv, Exit \/ StrayEnds \/ Notice \/ Probe
    PROVE  Ongoing'
  <1>1. UNCHANGED <<live, dirs, writes, call>>
    BY DEF Exit, StrayEnds, Notice, Probe, files, traces
  <1>2. Bounded' /\ Named' /\ Put'
    BY <1>1, StandsOngoing
  <1>3. CASE Exit \/ StrayEnds
    <2>1. UNCHANGED row /\ (alive' => alive /\ mounted' = mounted)
      BY <1>3 DEF Exit, StrayEnds, Ends
    <2> QED BY <1>1, <1>2, <2>1 DEF Ongoing, RowIsNew, RowIsOld, Occupied, OInv
  <1>4. CASE Notice \/ Probe
    <2>1. /\ row'.man = row.man /\ row'.app = row.app /\ row.pid /\ UNCHANGED procs
          /\ row'.pid \/ row'.status = "failed"
      BY <1>4 DEF Notice, Probe, OInv, IInv, Typed, TypeOK, RowType
    <2>2. RowIsNew'
      BY <1>1, <2>1 DEF RowIsNew, OInv, Ongoing, procs
    <2>3. RowIsOld'
      BY <1>1, <2>1 DEF RowIsOld, Occupied, OInv, Ongoing
    <2> QED BY <1>2, <2>2, <2>3 DEF Ongoing
  <1> QED BY <1>3, <1>4

LEMMA WriteOngoing ==
    ASSUME OInv, [Next]_vars, NEW u \in Volumes, Write(u)
    PROVE  Ongoing'
  <1>1. UNCHANGED <<row, procs, dirs, call>> /\ Kin
    BY DEF Write, Kin
  <1>2. Bounded'
    BY <1>1, KinBounded, WritesGrow DEF OInv, IInv, Bounded, Backed, Step
  <1>3. Named' /\ RowIsNew' /\ RowIsOld'
    BY <1>1 DEF OInv, Ongoing, Named, Concerned, RowIsNew, RowIsOld, Occupied, procs
  <1>4. ASSUME Backed, NEW v \in Trees
        PROVE  live[v] \subseteq live'[v] /\ Since(v)' = Since(v)
    <2>1. call.since \in Nat /\ writes \in Nat /\ call.since <= writes
      BY <1>4, Counters DEF OInv, IInv, Ongoing, Bounded
    <2>2. live'[v] = live[v] \/ live'[v] = live[v] \cup {writes + 1}
      BY VolumeTrees DEF Write, Onto, OInv, IInv, Typed, TypeOK, TreeType
    <2> QED BY <1>1, <2>1, <2>2 DEF Since
  <1>5. Put'
    <2>1. call.pc \in {"clear", "copy", "record", "start", "health", "done"} =>
             /\ call.cur \in Trees /\ call.names \subseteq Trees
             /\ \A v \in Trees : live[v] \subseteq live'[v] /\ Since(v)' = Since(v)
      BY <1>4, NamesVolumes, VolumeTrees, CallFields DEF Backed, OInv, IInv, Typed, TypeOK
    <2>2. Source' = Source
      BY <1>1, KinSource
    <2> QED BY <1>1, <2>1, <2>2 DEF OInv, Ongoing, Put, Holds
  <1> QED BY <1>2, <1>3, <1>5 DEF Ongoing

------------------------------------------------------------------------------
LEMMA InitOutcome == Init => OInv
  <1> SUFFICES ASSUME Init PROVE OInv
    OBVIOUS
  <1>1. IInv /\ Quiet
    BY InitQuiet
  <1>2. Stamped
    BY VolumeTrees DEF Init, Stamped, Dated, Nothing
  <1>3. Ongoing
    BY Empties DEF Init, Ongoing, Bounded, Backed, Step, Named, Put, RowIsNew, RowIsOld
  <1> QED BY <1>1, <1>2, <1>3 DEF OInv

LEMMA NextOutcome == OInv /\ [Next]_vars => OInv'
  <1> SUFFICES ASSUME OInv, [Next]_vars PROVE Ongoing'
    BY NextSafe, NextQuiet, StampedStep DEF OInv
  <1>1. CASE Start \/ Stop \/ Destroy \/ \E r \in Releases : Deploy(r)
    BY <1>1, FreeOngoing DEF OInv, Start, Stop, Destroy, Deploy
  <1>2. CASE SnapBegin \/ SnapInsert \/ \E t \in Trees : SnapTree(t) \/ SnapTreeBreaks(t)
    BY <1>2, SnapOngoing DEF OInv
  <1>3. CASE RbBackupBreaks \/ Finish \/ Crash
    BY <1>3, IdleOngoing DEF RbBackupBreaks, Finish, Crash
  <1>4. CASE CopyBreaks \/ RecordBreaks
    BY <1>4, FailsOngoing DEF CopyBreaks, RecordBreaks, files, traces
  <1>5. CASE Proceed /\ ~SnapInsert /\ ~(\E t \in Trees : SnapTree(t) \/ SnapTreeBreaks(t))
             /\ ~RbBackupBreaks /\ ~Finish /\ ~CopyBreaks /\ ~RecordBreaks
    BY <1>5, StopOngoing, BackupOngoing, ClearOngoing, CopyOngoing, RcStopOngoing,
       RbRecordOngoing, RcRecordOngoing, RbStartOngoing, HealthOngoing DEF Proceed
  <1>6. CASE \E n \in Seconds : RbBegin(n)
    BY <1>6, BeginOngoing
  <1>7. CASE Exit \/ StrayEnds \/ Notice \/ Probe
    BY <1>7, BesideOngoing
  <1>8. CASE \E v \in Volumes : Write(v)
    BY <1>8, WriteOngoing
  <1>9. CASE UNCHANGED vars
    BY <1>9, StandsOngoing DEF vars, OInv, Ongoing, RowIsNew, RowIsOld, Occupied
  <1> QED BY <1>1, <1>2, <1>3, <1>4, <1>5, <1>6, <1>7, <1>8, <1>9 DEF Next, Request, Proceed

(* Success: a rollback that is reported as done has put every volume of    *)
(* either manifest, and the row, into the state of the snapshot, with      *)
(* older files among them only where their removal failed, and what the    *)
(* row knows to run runs by its manifest.                                  *)
THEOREM Success == Spec => []RolledBackIsNew
  <1>1. OInv => RolledBackIsNew
    BY DEF OInv, Ongoing, Named, Put, RowIsNew, RolledBackIsNew, Step, Source
  <1> QED BY <1>1, InitOutcome, NextOutcome, PTL DEF Spec

(* Recovered: a recovery that is reported as done has put every volume and *)
(* the row back as they were, with files of the rollback among them only   *)
(* where their removal failed, and the service runs, or has ended since,   *)
(* exactly when it did before, unless a process has outlived its stop.     *)
THEOREM Recovered == Spec => []RestoredIsOld
  <1>1. OInv => RestoredIsOld
    BY DEF OInv, Quiet, Tracked, Ongoing, Named, Put, RowIsOld, RestoredIsOld, Step, Source
  <1> QED BY <1>1, InitOutcome, NextOutcome, PTL DEF Spec
===============================================================================
