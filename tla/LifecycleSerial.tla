--------------------------- MODULE LifecycleSerial ---------------------------
(***************************************************************************)
(* What the operations of app.rs promise when one caller runs them one at  *)
(* a time without a daemon, for every set of services, processes and       *)
(* addresses and any number of failures, and that they implement           *)
(* ServicePromise.                                                         *)
(***************************************************************************)
EXTENDS LifecycleProofs

(* One caller and no loop.                                                 *)
Alone == ~Reconciling /\ \A c, d \in Clients : c = d

------------------------------------------------------------------------------
(* The tables                                                              *)

(* Whoever is at work is at work on a service that exists; a name that is  *)
(* free has no sandbox row and no route; and a destroy frees it last.      *)
Working   == \A c \in Clients : cl[c].pc # "idle" => Registered(cl[c].on)
Bare(s)   == ~HasBox(s) /\ s \notin routed
Forgotten == /\ \A s \in Services : ~Registered(s) => Bare(s)
             /\ \A c \in Clients : At(c, "destroy", "row") => Bare(cl[c].on)

(* The address that a caller is about to write is its service's own, or    *)
(* nobody's.                                                               *)
Addresses(c) ==
    \/ cl[c].op = "start" /\ cl[c].pc \in {"prepare", "spawn", "row", "box", "probe", "probed"}
    \/ cl[c].op = "startFailed"
    \/ At(c, "stop", "box")
Addressed ==
    \A c \in Clients : Addresses(c) =>
        \A s \in Services : HasBox(s) => (box[s].ip = cl[c].addr <=> s = cl[c].on)

Tables == rec.pc = "sleep" /\ Working /\ Forgotten /\ UniqueIPs /\ Addressed

------------------------------------------------------------------------------
(* The processes                                                           *)

(* Only what was spawned has a tree or can be lost, only in isolation.     *)
Fresh ==
    \A p \in Pids :
        /\ proc[p].state = "free" => proc[p].tree = "none" /\ p \notin lost
        /\ proc[p].tree # "none" => Isolated

(* What is kept is a service's, and in its rows, or it is the child of a   *)
(* start that has not written them yet.                                    *)
Owned == \A p \in Pids : Kept(p) => proc[p].owner \in Services
Noted(p) ==
    /\ Running(p) => svc[proc[p].owner].pid = p
    /\ Isolated => box[proc[p].owner].pid = p
Tracked ==
    \A p \in Pids : Kept(p) =>
        Noted(p) \/ \E c \in Clients : Unnamed(c) /\ cl[c].child = p

Childless == \A c \in Clients : cl[c].pc = "idle" => cl[c].child = NoPid

(* A stop holds the pid of the row, and a start past its row the row's.    *)
Recorded ==
    \A c \in Clients :
        /\ cl[c].op \in {"stop", "destroy"} /\ cl[c].pc = "kill" =>
              cl[c].held = svc[cl[c].on].pid
        /\ \/ cl[c].op = "start" /\ cl[c].pc \in {"box", "probe", "probed"}
           \/ At(c, "startFailed", "kill")
           => cl[c].child = svc[cl[c].on].pid

(* Nothing is kept of the service that an operation works on: between the  *)
(* clean-up and the spawn of a start, and after the clean-up of the others.*)
Halts(c) ==
    \/ At(c, "start", "spawn")
    \/ cl[c].op = "startFailed" /\ cl[c].pc \in {"row", "box"}
    \/ cl[c].op = "stop" /\ cl[c].pc \in {"box", "finish"}
    \/ cl[c].op = "destroy" /\ cl[c].pc \in {"box", "row"}
(* At most a tree is: before the clean-up.                                 *)
Quiets(c) ==
    \/ cl[c].op = "start" /\ cl[c].pc \in {"address", "prepare"}
    \/ cl[c].op \in {"startAborted", "startFailed"} /\ cl[c].pc = "clean"
    \/ cl[c].op = "stop" /\ cl[c].pc \in {"row", "clean"}
    \/ At(c, "destroy", "clean")
(* Only the child is.                                                      *)
Tends(c) ==
    \/ cl[c].op = "start" /\ cl[c].pc \in {"row", "box", "probe", "probed"}
    \/ cl[c].op = "startAborted"
    \/ cl[c].op = "startFailed" /\ cl[c].pc \in {"kill", "clean"}
Phased ==
    \A c \in Clients, p \in Pids : Kept(p) /\ proc[p].owner = cl[c].on =>
        /\ ~Halts(c)
        /\ Quiets(c) => ~Running(p)
        /\ Tends(c) => p = cl[c].child

Processes == Fresh /\ Owned /\ Tracked /\ Childless /\ Recorded /\ Phased

------------------------------------------------------------------------------
(* What the helpers make of a caller's record.                             *)

Becomes(c, op, pc, on, held, child, addr) ==
    /\ cl'[c].op = op /\ cl'[c].pc = pc /\ cl'[c].on = on
    /\ cl'[c].held = held /\ cl'[c].child = child /\ cl'[c].addr = addr

LEMMA CallGives ==
    ASSUME TypeOK, NEW c \in Clients, NEW op, NEW pc, NEW s, NEW p, Call(c, op, pc, s, p)
    PROVE  cl[c].pc = "idle" /\ Becomes(c, op, pc, s, p, NoPid, NoIp)
  BY DEF TypeOK, Call, Becomes

LEMMA GotoGives ==
    ASSUME TypeOK, NEW c \in Clients, NEW pc, Goto(c, pc)
    PROVE  Becomes(c, cl[c].op, pc, cl[c].on, cl[c].held, cl[c].child, cl[c].addr)
  BY SMT DEF TypeOK, ClientType, Goto, Becomes

LEMMA ReturnGives ==
    ASSUME TypeOK, NEW c \in Clients, Return(c)
    PROVE  Becomes(c, "none", "idle", NoService, NoPid, NoPid, NoIp)
  BY DEF TypeOK, Return, IdleClient, Becomes

LEMMA LocateGives ==
    ASSUME TypeOK, NEW c \in Clients, NEW pc, NEW i, Locate(c, pc, i)
    PROVE  Becomes(c, cl[c].op, pc, cl[c].on, cl[c].held, cl[c].child, i)
  BY SMT DEF TypeOK, ClientType, Locate, Becomes

LEMMA SpawnedGives ==
    ASSUME TypeOK, NEW c \in Clients, NEW p, Spawned(c, p)
    PROVE  Becomes(c, cl[c].op, "row", cl[c].on, cl[c].held, p, cl[c].addr)
  BY SMT DEF TypeOK, ClientType, Spawned, Becomes

LEMMA StartFailsGives ==
    ASSUME TypeOK, NEW c \in Clients, NEW op, StartFails(c, op)
    PROVE  Becomes(c, op, "kill", cl[c].on, cl[c].held, cl[c].child, cl[c].addr)
  BY SMT DEF TypeOK, ClientType, StartFails, Becomes

------------------------------------------------------------------------------
(* The tables                                                              *)

(* What processes and trees do by themselves.                               *)
Environs(p) == Exit(p) \/ TreeJoins(p) \/ TreeEnds(p)

(* A lone caller's steps, and none of the loop.                            *)
LEMMA LoneStep ==
    ASSUME Alone, rec.pc = "sleep", [Next]_vars
    PROVE  /\ UNCHANGED rec
           /\ \/ \E c \in Clients, s \in Services : Request(c, s)
              \/ \E c \in Clients : Operate(c) \/ Breaks(c)
              \/ \E p \in Pids : Environs(p)
              \/ UNCHANGED vars
  <1>1. ~Reconcile /\ ~DaemonRestart
    BY DEF Alone, Reconcile, RecSnapshot, RecBox, RecFail, RecWriteHealth, RecSandboxes, RecReap,
           RecSleep, RecBreaks, RecDead, RecHealth, RecSkip, RecStale, RecLiveBox, Visit, DaemonRestart
  <1>2. \A c \in Clients : Operate(c) => UNCHANGED rec
    BY DEF Operate, DeployRoutes, StartAddress, StartPrepare, StartSpawn, StartSpawnFails,
           StartAborts, StartRow, StartBox, StartProbe, StartFinish, UndoClean, UndoRow, UndoBox,
           Kill, KillMisses, StopRow, StopClean, StopBox, StopFinish, DestroyClean,
           DestroyTables, DestroyRow
  <1>3. \A c \in Clients, s \in Services : Request(c, s) => UNCHANGED rec
    BY DEF Request, DeployRegister, StartLoad, StopLoad
  <1>4. (\E c \in Clients : Breaks(c)) \/ (\E p \in Pids : Environs(p)) \/ UNCHANGED vars
           => UNCHANGED rec
    BY DEF Breaks, Environs, Exit, TreeJoins, TreeEnds, vars
  <1>5. UNCHANGED rec
    BY <1>1, <1>2, <1>3, <1>4 DEF Next, Environs
  <1>6. \/ \E c \in Clients, s \in Services : Request(c, s)
        \/ \E c \in Clients : Operate(c) \/ Breaks(c)
        \/ \E p \in Pids : Environs(p)
        \/ UNCHANGED vars
    BY <1>1 DEF Next, Environs
  <1> QED BY <1>5, <1>6

LEMMA TablesStep ==
    ASSUME Alone, IInv, Tables, [Next]_vars
    PROVE  Tables'
<1>0. /\ svc \in [Services -> RowType] /\ box \in [Services -> BoxType]
      /\ cl \in [Clients -> ClientType] /\ TypeOK
      /\ UNCHANGED rec /\ rec.pc = "sleep"
  BY LoneStep DEF IInv, TypeOK, Tables
<1> USE <1>0
<1>1. CASE UNCHANGED <<db, cl>>
  BY <1>1 DEF Tables, Working, Forgotten, Bare, Registered, HasBox, UniqueIPs, Addressed,
              Addresses, At, db
<1>2. ASSUME NEW c \in Clients
      PROVE  /\ \A s \in Services : Request(c, s) => Tables'
             /\ Operate(c) \/ Breaks(c) => Tables'
  <2>1. \A d \in Clients : d = c
    BY DEF Alone
  <2>2. /\ cl[c].pc # "idle" => Registered(cl[c].on) /\ cl[c].on \in Services
        /\ \A s \in Services : ~Registered(s) => Bare(s)
        /\ At(c, "destroy", "row") => Bare(cl[c].on)
        /\ UniqueIPs
        /\ Addresses(c) =>
              \A s \in Services : HasBox(s) => (box[s].ip = cl[c].addr <=> s = cl[c].on)
    BY DEF Tables, Working, Forgotten, Addressed, IInv, LocalsAgree
  <2>3. SUFFICES
          ASSUME \/ \E s \in Services : Request(c, s)
                 \/ Operate(c) \/ Breaks(c)
          PROVE  /\ cl'[c].pc # "idle" => Registered(cl[c].on)'
                 /\ \A s \in Services : ~Registered(s)' => Bare(s)'
                 /\ At(c, "destroy", "row")' => Bare(cl[c].on)'
                 /\ UniqueIPs'
                 /\ Addresses(c)' =>
                       \A s \in Services :
                          HasBox(s)' => (box'[s].ip = cl'[c].addr <=> s = cl'[c].on)
    BY <2>1 DEF Tables, Working, Forgotten, Addressed
  <2>4. ASSUME NEW s \in Services, Request(c, s)
        PROVE  /\ cl'[c].pc # "idle" => Registered(cl[c].on)'
               /\ \A t \in Services : ~Registered(t)' => Bare(t)'
               /\ ~At(c, "destroy", "row")' /\ UniqueIPs' /\ ~Addresses(c)'
    <3>1. CASE DeployRegister(c, s)
      <4>1. Becomes(c, "deploy", "routes", s, NoPid, NoPid, NoIp)
        BY <3>1, CallGives DEF DeployRegister
      <4>2. UNCHANGED <<box, routed>> /\ svc'[s].status = "deployed"
            /\ \A t \in Services \ {s} : svc'[t] = svc[t]
        BY <3>1, SMT DEF DeployRegister, RowType
      <4> QED BY <2>2, <4>1, <4>2 DEF Becomes, Registered, Bare, HasBox, At, Addresses, UniqueIPs
    <3>2. CASE StartLoad(c, s)
      <4>1. Becomes(c, "start", "address", s, NoPid, NoPid, NoIp)
        BY <3>2, CallGives DEF StartLoad
      <4> QED BY <2>2, <3>2, <4>1 DEF StartLoad, db, Becomes, Registered, Bare, HasBox, At,
                                      Addresses, UniqueIPs
    <3>3. CASE StopLoad(c, s)
      <4>1. \E op \in {"stop", "destroy"} : Becomes(c, op, "kill", s, svc[s].pid, NoPid, NoIp)
        BY <3>3, CallGives DEF StopLoad
      <4> QED BY <2>2, <3>3, <4>1 DEF StopLoad, db, Becomes, Registered, Bare, HasBox, At,
                                      Addresses, UniqueIPs
    <3> QED BY <2>4, <3>1, <3>2, <3>3 DEF Request
  <2> USE <2>2 DEF db, Becomes, Registered, Bare, HasBox, At, Addresses, UniqueIPs
  <2>10. CASE DeployRoutes(c)
    BY <2>10, ReturnGives DEF DeployRoutes
  <2>11. CASE StartAddress(c)
    BY <2>11, ReturnGives, LocateGives DEF StartAddress, FirstFree, FreeIPs
  <2>12. CASE StartPrepare(c)
    BY <2>12, ReturnGives, GotoGives DEF StartPrepare
  <2>13. CASE StartSpawn(c)
    BY <2>13, SpawnedGives DEF StartSpawn
  <2>14. CASE StartSpawnFails(c)
    BY <2>14, ReturnGives DEF StartSpawnFails
  <2>15. CASE StartAborts(c)
    BY <2>15, StartFailsGives DEF StartAborts
  <2>16. CASE StartRow(c)
    BY <2>16, GotoGives DEF StartRow, SetStatus
  <2>17. CASE StartBox(c)
    BY <2>17, GotoGives, StartFailsGives DEF StartBox, UpsertBox
  <2>18. CASE StartProbe(c)
    BY <2>18, GotoGives, OutcomeKinds DEF StartProbe, SetStatus
  <2>19. CASE StartFinish(c)
    BY <2>19, ReturnGives DEF StartFinish, UpsertBox
  <2>20. CASE UndoClean(c)
    BY <2>20, ReturnGives, GotoGives DEF UndoClean
  <2>21. CASE UndoRow(c)
    BY <2>21, GotoGives DEF UndoRow, SetStatus
  <2>22. CASE UndoBox(c)
    BY <2>22, ReturnGives DEF UndoBox, UpsertBox
  <2>23. CASE Kill(c)
    BY <2>23, GotoGives DEF Kill
  <2>24. CASE KillMisses(c)
    BY <2>24, ReturnGives DEF KillMisses
  <2>25. CASE StopRow(c)
    BY <2>25, GotoGives DEF StopRow, SetStatus
  <2>26. CASE StopClean(c)
    BY <2>26, ReturnGives, GotoGives, LocateGives DEF StopClean
  <2>27. CASE StopBox(c)
    BY <2>27, GotoGives DEF StopBox, UpsertBox
  <2>28. CASE StopFinish(c)
    BY <2>28, ReturnGives DEF StopFinish
  <2>29. CASE DestroyClean(c)
    BY <2>29, ReturnGives, GotoGives DEF DestroyClean
  <2>30. CASE DestroyTables(c)
    BY <2>30, GotoGives DEF DestroyTables, AbsentBox
  <2>31. CASE DestroyRow(c)
    BY <2>31, ReturnGives DEF DestroyRow, AbsentRow
  <2>32. CASE Breaks(c)
    BY <2>32, ReturnGives DEF Breaks
  <2> QED BY <2>3, <2>4, <2>10, <2>11, <2>12, <2>13, <2>14, <2>15, <2>16, <2>17, <2>18, <2>19, <2>20, <2>21, <2>22, <2>23, <2>24, <2>25, <2>26, <2>27, <2>28, <2>29, <2>30, <2>31, <2>32 DEF Operate
<1> QED BY <1>1, <1>2, LoneStep DEF Environs, Exit, TreeJoins, TreeEnds, vars, db

LEMMA TablesInit == Init => Tables
  BY DEF Init, Tables, Sleeping, AbsentRow, AbsentBox, IdleClient, Working, Forgotten, Bare,
         Registered, HasBox, At, UniqueIPs, Addressed, Addresses

(* A sandbox row that stays keeps its address.                             *)
LEMMA AddressStep ==
    ASSUME Alone, IInv, Tables, [Next]_vars, NEW s \in Services,
           HasBox(s), box'[s].status # "absent"
    PROVE  box'[s].ip = box[s].ip
<1>0. box \in [Services -> BoxType] /\ rec.pc = "sleep"
  BY DEF IInv, TypeOK, Tables
<1>1. ASSUME NEW c \in Clients, NEW st, NEW p, Addresses(c), UpsertBox(cl[c].on, st, p, cl[c].addr)
      PROVE  box'[s].ip = box[s].ip
  BY <1>0, <1>1 DEF Tables, Addressed, UpsertBox
<1>2. ASSUME NEW c \in Clients, Operate(c)
      PROVE  box'[s].ip = box[s].ip
  <2>1. CASE StartBox(c) \/ StartFinish(c) \/ UndoBox(c) \/ StopBox(c)
    BY <1>1, <2>1 DEF StartBox, StartFinish, UndoBox, StopBox, Addresses, At
  <2>2. CASE DestroyTables(c)
    BY <1>0, <2>2 DEF DestroyTables, AbsentBox
  <2>3. \/ StartBox(c) \/ StartFinish(c) \/ UndoBox(c) \/ StopBox(c) \/ DestroyTables(c)
        \/ UNCHANGED box
    BY <1>2 DEF Operate, DeployRoutes, StartAddress, StartPrepare, StartSpawn, StartSpawnFails,
                StartAborts, StartRow, StartProbe, UndoClean, UndoRow, Kill, KillMisses, StopRow,
                StopClean, StopFinish, DestroyClean, DestroyRow, db
  <2> QED BY <2>1, <2>2, <2>3
<1>3. (\E c \in Clients, t \in Services : Request(c, t)) => UNCHANGED box
  BY DEF Request, DeployRegister, StartLoad, StopLoad, db
<1>4. (\E c \in Clients : Breaks(c)) \/ (\E p \in Pids : Environs(p)) \/ UNCHANGED vars
         => UNCHANGED box
  BY DEF Breaks, Environs, Exit, TreeJoins, TreeEnds, vars, db
<1> QED BY <1>0, <1>2, <1>3, <1>4, LoneStep

LEMMA TablesHold == ASSUME Alone PROVE Spec => [](IInv /\ Tables)
<1>1. Init => IInv /\ Tables
  BY InitInv, TablesInit
<1>2. (IInv /\ Tables) /\ [Next]_vars => (IInv /\ Tables)'
  BY StepInv, TablesStep
<1> QED BY <1>1, <1>2, PTL DEF Spec

(* AddressesUnique: two sandbox rows never share an address, whenever the  *)
(* caller is killed between the choice of an address and its row.          *)
THEOREM AddressesUnique == ASSUME Alone PROVE Spec => []UniqueIPs
<1>1. IInv /\ Tables => UniqueIPs
  BY DEF Tables
<1> QED BY <1>1, TablesHold, PTL

(* AddressesStable: no start, stop or failure moves a service to another   *)
(* address while it has a sandbox row.                                     *)
THEOREM AddressesStable == ASSUME Alone PROVE Spec => StableIp
<1> DEFINE Stays == \A s \in Services :
             HasBox(s) /\ box'[s].status # "absent" => box'[s].ip = box[s].ip
<1>1. (IInv /\ Tables) /\ [Next]_vars => [Stays]_vars
  BY AddressStep
<1> QED BY <1>1, TablesHold, PTL DEF Spec, StableIp

------------------------------------------------------------------------------
(* The processes                                                           *)

(* A process that is signalled or exits does not run; the others are as    *)
(* they were, and so are all trees.                                        *)
LEMMA Ended ==
    ASSUME TypeOK, NEW p, NEW st \in {"dying", "exited"}, proc' = [proc EXCEPT ![p].state = st]
    PROVE  \A q \in Pids :
              /\ proc'[q].tree = proc[q].tree /\ proc'[q].owner = proc[q].owner
              /\ proc'[q].state = "running" => proc[q].state = "running" /\ q # p
              /\ proc'[q].state = "free" => proc[q].state = "free"
  BY SMT DEF TypeOK, ProcType

(* A clean-up leaves nothing of its service that is kept: it fails on a    *)
(* tree that has joined the cgroup, and loses one that has not.            *)
Cleans(s) ==
    \/ HasBox(s) /\ CanClean(s, BoxUp(box[s])) /\ Cleanup(s, BoxUp(box[s]))
    \/ ~HasBox(s) /\ UNCHANGED swept

LEMMA Sweeps ==
    ASSUME Alone, IInv, Processes, NEW c \in Clients, Quiets(c),
           cl[c].op \in {"start", "stop", "destroy"}, Cleans(cl[c].on), UNCHANGED proc
    PROVE  \A p \in Pids :
              /\ Kept(p)' => Kept(p) /\ proc[p].owner # cl[c].on
              /\ proc[p].state = "free" => p \notin lost'
<1> DEFINE s == cl[c].on
<1>1. s \in Services /\ ~Unnamed(c)
  BY DEF IInv, LocalsAgree, Quiets, Unnamed, At
<1>2. \A d \in Clients : d = c
  BY DEF Alone
<1>3. BoxUp(box[s]) <=> box[s].pid # NoPid
  BY <1>1 DEF IInv, RowsAgree
<1>4. lost \subseteq lost' /\ \A p \in Pids : proc[p].state = "free" => p \notin lost'
  BY DEF Cleans, Cleanup, swept, Processes, Fresh
<1>5. ASSUME NEW p \in Pids, Kept(p), Kept(p)', proc[p].owner = s
      PROVE  FALSE
  <2>1. proc[p].tree # "none" /\ Isolated /\ box[s].pid = p /\ BoxUp(box[s])
    BY <1>1, <1>2, <1>3, <1>5, ConstantsAssumption
       DEF Processes, Phased, Tracked, Noted, Fresh, Kept, Lives
  <2>2. CanClean(s, TRUE) /\ Cleanup(s, TRUE)
    BY <2>1 DEF Cleans, HasBox, BoxUp
  <2>3. proc[p].tree = "outside"
    <3>1. proc[p].tree \in {"none", "outside", "inside"}
      BY DEF IInv, TypeOK, ProcType
    <3> QED BY <1>5, <2>1, <2>2, <3>1 DEF CanClean
  <2>4. p \in lost'
    BY <1>5, <2>1, <2>2, <2>3 DEF Cleanup
  <2> QED BY <1>5, <2>4 DEF Kept
<1>6. \A p \in Pids : Kept(p)' => Kept(p)
  BY <1>4 DEF Kept, Lives, Running
<1> QED BY <1>4, <1>5, <1>6

LEMMA ProcessesStep ==
    ASSUME Alone, IInv, Tables, Processes, [Next]_vars
    PROVE  Processes'
<1>0. /\ svc \in [Services -> RowType] /\ box \in [Services -> BoxType]
      /\ proc \in [Pids -> ProcType] /\ lost \subseteq Pids
      /\ cl \in [Clients -> ClientType] /\ TypeOK /\ rec.pc = "sleep"
      /\ NoPid \notin Pids
  BY ConstantsAssumption DEF IInv, TypeOK, Tables
<1> USE <1>0
<1>1. CASE UNCHANGED vars
  BY <1>1 DEF vars, Processes, Fresh, Owned, Tracked, Noted, Childless, Recorded, Phased, Halts,
              Quiets, Tends, Kept, Lives, Running, Unnamed, At
<1>2. ASSUME NEW c \in Clients
      PROVE  /\ \A s \in Services : Request(c, s) => Processes'
             /\ Operate(c) \/ Breaks(c) => Processes'
  <2>1. \A d \in Clients : d = c
    BY DEF Alone
  <2> DEFINE Run(p)  == proc[p].state = "running"
             Keep(p) == (proc[p].state = "running" \/ proc[p].tree # "none") /\ p \notin lost
             Runs1(p)  == proc'[p].state = "running"
             Keeps1(p) == (proc'[p].state = "running" \/ proc'[p].tree # "none") /\ p \notin lost'
  <2>2. /\ \A p \in Pids : /\ proc[p].state = "free" => proc[p].tree = "none" /\ p \notin lost
                           /\ proc[p].tree # "none" => Isolated
        /\ \A p \in Pids : Keep(p) => proc[p].owner \in Services
        /\ \A p \in Pids : Keep(p) =>
              \/ /\ Run(p) => svc[proc[p].owner].pid = p
                 /\ Isolated => box[proc[p].owner].pid = p
              \/ Unnamed(c) /\ cl[c].child = p
        /\ cl[c].pc = "idle" => cl[c].child = NoPid
        /\ cl[c].op \in {"stop", "destroy"} /\ cl[c].pc = "kill" => cl[c].held = svc[cl[c].on].pid
        /\ \/ cl[c].op = "start" /\ cl[c].pc \in {"box", "probe", "probed"}
           \/ At(c, "startFailed", "kill")
           => cl[c].child = svc[cl[c].on].pid
        /\ \A p \in Pids : Keep(p) /\ proc[p].owner = cl[c].on =>
              ~Halts(c) /\ (Quiets(c) => ~Run(p)) /\ (Tends(c) => p = cl[c].child)
    BY <2>1 DEF Processes, Fresh, Owned, Tracked, Noted, Childless, Recorded, Phased, Kept, Lives,
                Running
  <2>3. /\ cl[c].op = "start" /\ cl[c].pc = "row" => cl[c].child # NoPid
        /\ cl[c].pc # "idle" => Registered(cl[c].on) /\ cl[c].on \in Services
        /\ \A p \in Pids : cl[c].child = p => proc[p].owner = cl[c].on /\ proc[p].state # "free"
    BY DEF Tables, Working, IInv, LocalsAgree, PidOwnership, OwnedBy
  <2>4. SUFFICES
          ASSUME (\E s \in Services : Request(c, s)) \/ Operate(c) \/ Breaks(c)
          PROVE
            /\ \A p \in Pids : /\ proc'[p].state = "free" => proc'[p].tree = "none" /\ p \notin lost'
                               /\ proc'[p].tree # "none" => Isolated
            /\ \A p \in Pids : Keeps1(p) => proc'[p].owner \in Services
            /\ \A p \in Pids : Keeps1(p) =>
                  \/ /\ Runs1(p) => svc'[proc'[p].owner].pid = p
                     /\ Isolated => box'[proc'[p].owner].pid = p
                  \/ Unnamed(c)' /\ cl'[c].child = p
            /\ cl'[c].pc = "idle" => cl'[c].child = NoPid
            /\ cl'[c].op \in {"stop", "destroy"} /\ cl'[c].pc = "kill"
                  => cl'[c].held = svc'[cl'[c].on].pid
            /\ \/ cl'[c].op = "start" /\ cl'[c].pc \in {"box", "probe", "probed"}
               \/ At(c, "startFailed", "kill")'
               => cl'[c].child = svc'[cl'[c].on].pid
            /\ \A p \in Pids : Keeps1(p) /\ proc'[p].owner = cl'[c].on =>
                  ~Halts(c)' /\ (Quiets(c)' => ~Runs1(p)) /\ (Tends(c)' => p = cl'[c].child)
    BY <2>1 DEF Processes, Fresh, Owned, Tracked, Noted, Childless, Recorded, Phased, Kept, Lives,
                Running
  <2> USE <2>2, <2>3 DEF db, swept, Becomes, Registered, At, Halts, Quiets, Tends, Unnamed
  <2>6. ASSUME NEW s \in Services, Request(c, s)
        PROVE  UNCHANGED <<box, proc, lost>> /\ cl[c].pc = "idle"
    BY <2>6, CallGives DEF Request, DeployRegister, StartLoad, StopLoad
  <2>7. ASSUME NEW s \in Services, DeployRegister(c, s)
        PROVE  /\ Becomes(c, "deploy", "routes", s, NoPid, NoPid, NoIp)
               /\ svc'[s].pid = svc[s].pid /\ \A t \in Services \ {s} : svc'[t] = svc[t]
    BY <2>7, CallGives, SMT DEF DeployRegister, RowType
  <2>8. ASSUME NEW s \in Services, StartLoad(c, s)
        PROVE  /\ Becomes(c, "start", "address", s, NoPid, NoPid, NoIp)
               /\ UNCHANGED svc /\ ~ (svc[s].pid \in Pids /\ Run(svc[s].pid))
    BY <2>8, CallGives DEF StartLoad, ProcessAlive
  <2>9. ASSUME NEW s \in Services, StopLoad(c, s)
        PROVE  /\ \E op \in {"stop", "destroy"} :
                     Becomes(c, op, "kill", s, svc[s].pid, NoPid, NoIp)
               /\ UNCHANGED svc
    BY <2>9, CallGives DEF StopLoad
  <2>10. CASE \E s \in Services : Request(c, s)
    <3>1. PICK s \in Services : Request(c, s)
      BY <2>10
    <3>2. UNCHANGED <<box, proc, lost>> /\ cl[c].child = NoPid
      BY <2>6, <3>1
    <3>3. CASE DeployRegister(c, s)
      BY <2>7, <3>2, <3>3
    <3>4. CASE StartLoad(c, s)
      BY <2>8, <3>2, <3>4
    <3>5. CASE StopLoad(c, s)
      BY <2>9, <3>2, <3>5
    <3> QED BY <3>1, <3>3, <3>4, <3>5 DEF Request
  <2>11. CASE DeployRoutes(c)
    BY <2>11, ReturnGives DEF DeployRoutes
  <2>12. CASE StartAddress(c)
    BY <2>12, ReturnGives, LocateGives DEF StartAddress
  <2>13. CASE StartPrepare(c)
    <3>1. CASE Cleans(cl[c].on) /\ Goto(c, "spawn")
      BY <2>13, <3>1, GotoGives, Sweeps DEF StartPrepare, Kept, Lives, Running
    <3> QED BY <2>13, <3>1, ReturnGives DEF StartPrepare, Cleans
  <2>14. CASE StartSpawn(c)
    BY <2>14, SpawnedGives DEF StartSpawn
  <2>15. CASE StartSpawnFails(c)
    BY <2>15, ReturnGives DEF StartSpawnFails
  <2>16. CASE StartAborts(c)
    BY <2>16, StartFailsGives DEF StartAborts
  <2>17. CASE StartRow(c)
    BY <2>17, GotoGives DEF StartRow, SetStatus
  <2>18. CASE StartBox(c)
    BY <2>18, GotoGives, StartFailsGives DEF StartBox, UpsertBox
  <2>19. CASE StartProbe(c)
    BY <2>19, GotoGives, OutcomeKinds DEF StartProbe, SetStatus
  <2>20. CASE StartFinish(c)
    BY <2>20, ReturnGives DEF StartFinish, UpsertBox
  <2>21. CASE UndoClean(c)
    BY <2>21, ReturnGives, GotoGives DEF UndoClean
  <2>22. CASE UndoRow(c)
    BY <2>22, GotoGives DEF UndoRow, SetStatus
  <2>23. CASE UndoBox(c)
    BY <2>23, ReturnGives DEF UndoBox, UpsertBox
  <2>24. CASE Kill(c)
    <3> DEFINE victim == IF cl[c].op \in {"stop", "destroy"} THEN cl[c].held ELSE cl[c].child
    <3>1. /\ Becomes(c, cl[c].op, IF cl[c].op = "stop" THEN "row" ELSE "clean", cl[c].on,
                     cl[c].held, cl[c].child, cl[c].addr)
          /\ UNCHANGED <<svc, box, lost>> /\ cl[c].pc = "kill" /\ StopPid(victim)
      BY <2>24, GotoGives DEF Kill
    <3>2. \A p \in Pids : /\ proc'[p].tree = proc[p].tree /\ proc'[p].owner = proc[p].owner
                          /\ Runs1(p) => Run(p) /\ p # victim
                          /\ proc'[p].state = "free" => proc[p].state = "free"
      <4>1. CASE ~Running(victim)
        BY <3>1, <4>1 DEF StopPid, Running
      <4>2. ASSUME NEW st \in {"dying", "exited"}, proc' = [proc EXCEPT ![victim].state = st]
            PROVE  \A p \in Pids : /\ proc'[p].tree = proc[p].tree /\ proc'[p].owner = proc[p].owner
                                   /\ Runs1(p) => Run(p) /\ p # victim
                                   /\ proc'[p].state = "free" => proc[p].state = "free"
        BY <4>2, Ended
      <4> QED BY <3>1, <4>1, <4>2 DEF StopPid
    <3>3. CASE cl[c].op \in {"stop", "destroy"}
      BY <3>1, <3>2, <3>3
    <3>4. CASE cl[c].op \in {"startAborted", "startFailed"}
      BY <3>1, <3>2, <3>4
    <3>5. CASE cl[c].op \notin {"stop", "destroy", "startAborted", "startFailed"}
      BY <3>1, <3>2, <3>5
    <3> QED BY <3>3, <3>4, <3>5
  <2>25. CASE KillMisses(c)
    BY <2>25, Ended, ReturnGives DEF KillMisses
  <2>26. CASE StopRow(c)
    BY <2>26, GotoGives DEF StopRow, SetStatus
  <2>27. CASE StopClean(c)
    <3>1. CASE /\ Cleans(cl[c].on)
               /\ \/ Locate(c, "box", box[cl[c].on].ip)
                  \/ Goto(c, "finish")
      BY <2>27, <3>1, LocateGives, GotoGives, Sweeps DEF StopClean, Kept, Lives, Running
    <3> QED BY <2>27, <3>1, ReturnGives DEF StopClean, Cleans
  <2>28. CASE StopBox(c)
    BY <2>28, GotoGives DEF StopBox, UpsertBox
  <2>29. CASE StopFinish(c)
    BY <2>29, ReturnGives DEF StopFinish
  <2>30. CASE DestroyClean(c)
    <3>1. CASE Cleans(cl[c].on) /\ Goto(c, "box")
      BY <2>30, <3>1, GotoGives, Sweeps DEF DestroyClean, Kept, Lives, Running
    <3> QED BY <2>30, <3>1, ReturnGives DEF DestroyClean, Cleans
  <2>31. CASE DestroyTables(c)
    BY <2>31, GotoGives DEF DestroyTables
  <2>32. CASE DestroyRow(c)
    BY <2>32, ReturnGives DEF DestroyRow, AbsentRow
  <2>33. CASE Breaks(c)
    BY <2>33, ReturnGives DEF Breaks, Children
  <2> QED BY <2>4, <2>10, <2>11, <2>12, <2>13, <2>14, <2>15, <2>16, <2>17, <2>18, <2>19, <2>20,
             <2>21, <2>22, <2>23, <2>24, <2>25, <2>26, <2>27, <2>28, <2>29, <2>30, <2>31, <2>32,
             <2>33 DEF Operate
<1>3. ASSUME NEW p \in Pids, Environs(p)
      PROVE  Processes'
  <2>1. /\ UNCHANGED <<svc, box, cl, lost>>
        /\ \A q \in Pids : /\ proc'[q].owner = proc[q].owner
                           /\ proc'[q].state = "running" => proc[q].state = "running"
                           /\ proc'[q].tree # "none" => proc[q].tree # "none"
                           /\ proc'[q].state = "free" => proc[q].state = "free"
    <3>1. CASE Exit(p)
      BY <3>1, Ended DEF Exit, db, swept
    <3>2. CASE TreeJoins(p) \/ TreeEnds(p)
      BY <3>2, SMT DEF TreeJoins, TreeEnds, db, swept, ProcType
    <3> QED BY <1>3, <3>1, <3>2 DEF Environs
  <2>2. \A q \in Pids : Kept(q)' => Kept(q)
    BY <2>1 DEF Kept, Lives, Running
  <2>3. (Fresh /\ Owned /\ Childless /\ Recorded)'
    BY <2>1, <2>2 DEF Processes, Fresh, Owned, Childless, Recorded, At
  <2>4. Tracked'
    BY <2>1, <2>2 DEF Processes, Tracked, Noted, Running, Unnamed
  <2>5. Phased'
    BY <2>1, <2>2 DEF Processes, Phased, Halts, Quiets, Tends, Running, At
  <2> QED BY <2>3, <2>4, <2>5 DEF Processes
<1> QED BY <1>1, <1>2, <1>3, LoneStep

LEMMA ProcessesInit == Init => Processes
  BY ConstantsAssumption
     DEF Init, Processes, Fresh, Owned, Tracked, Childless, Recorded, Phased, Halts, Quiets,
         Tends, Kept, Lives, Running, At, IdleClient

LEMMA ProcessesHold == ASSUME Alone PROVE Spec => [](IInv /\ Tables /\ Processes)
<1>1. Init => IInv /\ Tables /\ Processes
  BY InitInv, TablesInit, ProcessesInit
<1>2. (IInv /\ Tables /\ Processes) /\ [Next]_vars => (IInv /\ Tables /\ Processes)'
  BY StepInv, TablesStep, ProcessesStep
<1> QED BY <1>1, <1>2, PTL DEF Spec

LEMMA OneInstance == ASSUME Alone, IInv, Processes PROVE SingleInstance
<1> SUFFICES ASSUME NEW p \in Pids, NEW q \in Pids,
                    Kept(p), Kept(q), proc[p].owner = proc[q].owner
             PROVE  p = q
  BY DEF SingleInstance
<1>1. ASSUME NEW r \in Pids, proc[r].owner = proc[p].owner,
             NEW c \in Clients, Unnamed(c), cl[c].child = r
      PROVE  p = q
  <2>1. proc[r].owner = cl[c].on /\ Tends(c)
    BY <1>1, ConstantsAssumption DEF IInv, PidOwnership, OwnedBy, Unnamed, Tends
  <2> QED BY <1>1, <2>1 DEF Processes, Phased
<1>2. CASE Noted(p) /\ Noted(q)
  <2>1. CASE Isolated
    BY <1>2, <2>1 DEF Noted
  <2>2. CASE ~Isolated
    <3>1. Running(p) /\ Running(q)
      BY <2>2 DEF Processes, Fresh, Kept, Lives
    <3> QED BY <1>2, <3>1 DEF Noted
  <2> QED BY <2>1, <2>2
<1> QED BY <1>1, <1>2 DEF Processes, Tracked

(* NoSecondInstance: no sequence of starts, stops, deploys and destroys,   *)
(* whatever fails and wherever an operation ends half way, gives a service *)
(* a second instance beside one that is not beyond recall.                 *)
THEOREM NoSecondInstance == ASSUME Alone PROVE Spec => []SingleInstance
<1>1. IInv /\ Tables /\ Processes => SingleInstance
  BY OneInstance
<1> QED BY <1>1, ProcessesHold, PTL

(* ProcessesTracked: what runs is in the row of its service, what lives is *)
(* in its sandbox row, or it is the child of the start under way; or it is *)
(* beyond recall.                                                          *)
THEOREM ProcessesTracked == ASSUME Alone PROVE Spec => []NoOrphan
<1>1. ASSUME Processes
      PROVE  NoOrphan
  <2> SUFFICES ASSUME NEW p \in Pids, p \notin lost, ~ \E c \in Clients : cl[c].child = p
               PROVE  /\ Running(p) => svc[proc[p].owner].pid = p
                      /\ proc[p].tree # "none" => box[proc[p].owner].pid = p
    BY DEF NoOrphan
  <2>1. Kept(p) => Noted(p)
    BY <1>1 DEF Processes, Tracked
  <2> QED BY <1>1, <2>1 DEF Processes, Fresh, Kept, Lives, Noted
<1>2. IInv /\ Tables /\ Processes => NoOrphan
  BY <1>1
<1> QED BY <1>2, ProcessesHold, PTL

(* DestroyComplete: between operations a name that has no service row has  *)
(* no sandbox row, no route and nothing that is kept.                      *)
THEOREM DestroyComplete == ASSUME Alone PROVE Spec => []DestroyLeavesNothing
<1>1. ASSUME IInv, Tables, Processes
      PROVE  DestroyLeavesNothing
  <2> SUFFICES ASSUME AllIdle, NEW s \in Services, ~Registered(s)
               PROVE  ~HasBox(s) /\ s \notin routed /\ ~Runs(s)
    BY DEF DestroyLeavesNothing
  <2>1. ~HasBox(s) /\ s \notin routed
    BY <1>1 DEF Tables, Forgotten, Bare
  <2>2. ASSUME NEW p \in Pids, Kept(p), proc[p].owner = s
        PROVE  FALSE
    <3>1. svc[s].pid # p /\ box[s].pid # p
      BY <1>1, <2>1, ConstantsAssumption DEF IInv, RowsAgree, Registered, HasBox, BoxUp
    <3>2. Noted(p)
      BY <1>1, <2>2, ConstantsAssumption DEF Processes, Childless, AllIdle, Tracked
    <3>3. Isolated \/ Running(p)
      BY <1>1, <2>2 DEF Processes, Fresh, Kept, Lives
    <3> QED BY <2>2, <3>1, <3>2, <3>3 DEF Noted
  <2> QED BY <2>1, <2>2 DEF Runs
<1> QED BY <1>1, ProcessesHold, PTL

------------------------------------------------------------------------------
(* The refinement                                                          *)

LEMMA InstanceIs ==
    ASSUME SingleInstance, NEW s
    PROVE  /\ ~Runs(s) => Instance(s) = NoPid
           /\ \A p \in Pids : Kept(p) /\ proc[p].owner = s => Instance(s) = p
  BY DEF SingleInstance, Instance, Runs

LEMMA PromiseInit == Init => Promise!Init
<1> SUFFICES ASSUME Init PROVE Promise!Init
  OBVIOUS
<1>1. \A s \in Services : ~Runs(s) /\ ~Registered(s)
  BY DEF Init, Runs, Kept, Lives, Running, Registered, AbsentRow
<1>2. \A p \in Pids : proc[p].state = "free"
  BY DEF Init
<1> QED BY <1>1, <1>2 DEF Promise!Init, Instance

(* What the promise sees of a step.                                        *)
SameNames    == \A s \in Services : Registered(s)' <=> Registered(s)
SameRuns(s)  == \A p \in Pids : (Kept(p) /\ proc[p].owner = s)'
                                    <=> Kept(p) /\ proc[p].owner = s
SameUsed     == \A p \in Pids : proc'[p].state # "free" <=> proc[p].state # "free"

LEMMA SameInstance ==
    ASSUME SingleInstance, SingleInstance', NEW s, SameRuns(s)
    PROVE  Instance(s)' = Instance(s)
<1>1. CASE \E p \in Pids : Kept(p) /\ proc[p].owner = s
  <2>1. PICK p \in Pids : Kept(p) /\ proc[p].owner = s
    BY <1>1
  <2>2. Instance(s) = p
    BY <2>1, InstanceIs
  <2>3. (Kept(p) /\ proc[p].owner = s)'
    BY <2>1 DEF SameRuns
  <2>4. Instance(s)' = p
    BY <2>3 DEF SingleInstance, Instance, Runs
  <2> QED BY <2>2, <2>4
<1>2. CASE ~ \E p \in Pids : Kept(p) /\ proc[p].owner = s
  BY <1>2 DEF SameRuns, Instance, Runs
<1> QED BY <1>1, <1>2

LEMMA Stutters ==
    ASSUME SingleInstance, SingleInstance', SameNames, SameUsed, \A s \in Services : SameRuns(s)
    PROVE  UNCHANGED Promise!promise
<1>1. \A s \in Services : Instance(s)' = Instance(s)
  BY SameInstance
<1> QED BY <1>1 DEF Promise!promise, SameNames, SameUsed

(* A step that can only end, or lose, what is kept of one service.         *)
LEMMA Ends ==
    ASSUME SingleInstance, SingleInstance', SameNames, SameUsed, NEW s,
           \A p \in Pids : /\ proc'[p].owner = proc[p].owner
                           /\ Kept(p)' => Kept(p)
                           /\ Kept(p) /\ proc[p].owner # s => Kept(p)'
    PROVE  [Promise!Next]_(Promise!promise)
<1>1. \A t \in Services \ {s} : SameRuns(t)
  BY DEF SameRuns
<1>2. CASE s \notin Services \/ SameRuns(s)
  BY <1>1, <1>2, Stutters
<1>3. CASE s \in Services /\ ~SameRuns(s)
  <2>1. PICK p \in Pids : Kept(p) /\ proc[p].owner = s /\ ~Kept(p)'
    BY <1>3 DEF SameRuns
  <2>2. Instance(s) = p
    BY <2>1, InstanceIs
  <2>3. \A q \in Pids : Kept(q)' => proc'[q].owner # s
    BY <2>1 DEF SingleInstance
  <2>4. Instance(s)' = NoPid
    BY <2>3 DEF Instance, Runs
  <2>5. \A t \in Services \ {s} : Instance(t)' = Instance(t)
    BY <1>1, SameInstance
  <2>6. Promise!End(s)
    BY <1>3, <2>2, <2>4, <2>5, ConstantsAssumption DEF Promise!End, SameNames, SameUsed
  <2> QED BY <1>3, <2>6 DEF Promise!Next
<1> QED BY <1>2, <1>3

LEMMA PromiseStep ==
    ASSUME Alone, IInv, Tables, Processes, SingleInstance, SingleInstance', [Next]_vars
    PROVE  [Promise!Next]_(Promise!promise)
<1>0. /\ svc \in [Services -> RowType] /\ proc \in [Pids -> ProcType]
      /\ cl \in [Clients -> ClientType] /\ TypeOK /\ rec.pc = "sleep"
      /\ NoPid \notin Pids
  BY ConstantsAssumption DEF IInv, TypeOK, Tables
<1>1. UNCHANGED proc => SameUsed
  BY DEF SameUsed
<1>2. UNCHANGED <<proc, lost>> => \A s \in Services : SameRuns(s)
  BY DEF SameRuns, Kept, Lives, Running
<1>3. UNCHANGED svc => SameNames
  BY DEF SameNames, Registered
<1>4. CASE UNCHANGED <<svc, proc, lost>>
  BY <1>1, <1>2, <1>3, <1>4, Stutters
(* A step that changes one process, which was spawned, for the worse.      *)
<1>5. ASSUME NEW p \in Pids, proc[p].state # "free", UNCHANGED <<svc, lost>>,
             \/ \E st \in {"dying", "exited"} : proc' = [proc EXCEPT ![p].state = st]
             \/ proc[p].tree # "none" /\ \E tr \in {"none", "inside"} :
                   proc' = [proc EXCEPT ![p].tree = tr]
      PROVE  [Promise!Next]_(Promise!promise)
  <2>1. /\ \A q \in Pids \ {p} : proc'[q] = proc[q]
        /\ proc'[p].owner = proc[p].owner /\ proc'[p].state # "free"
        /\ proc'[p].state = "running" => proc[p].state = "running"
        /\ proc'[p].tree # "none" => proc[p].tree # "none"
    BY <1>0, <1>5, SMT DEF ProcType
  <2>2. SameUsed
    BY <1>5, <2>1 DEF SameUsed
  <2>3. \A q \in Pids : /\ proc'[q].owner = proc[q].owner
                        /\ Kept(q)' => Kept(q)
                        /\ Kept(q) /\ proc[q].owner # proc[p].owner => Kept(q)'
    BY <1>5, <2>1 DEF Kept, Lives, Running
  <2> QED BY <1>3, <1>5, <2>2, <2>3, Ends
(* A step that loses processes of one service.                             *)
<1>6. ASSUME NEW s, UNCHANGED <<svc, proc>>, lost \subseteq lost',
             \A p \in Pids : p \in lost' \ lost => proc[p].owner = s
      PROVE  [Promise!Next]_(Promise!promise)
  <2>1. \A q \in Pids : /\ proc'[q].owner = proc[q].owner
                        /\ Kept(q)' => Kept(q)
                        /\ Kept(q) /\ proc[q].owner # s => Kept(q)'
    BY <1>6 DEF Kept, Lives, Running
  <2> QED BY <1>1, <1>3, <1>6, <2>1, Ends
<1>7. ASSUME NEW c \in Clients, NEW s \in Services, Request(c, s)
      PROVE  [Promise!Next]_(Promise!promise)
  <2>1. CASE DeployRegister(c, s)
    <3>1. /\ UNCHANGED <<proc, lost>> /\ Registered(s)'
          /\ \A t \in Services \ {s} : svc'[t] = svc[t]
      BY <1>0, <2>1, SMT DEF DeployRegister, Registered, RowType, swept
    <3>2. \A t \in Services : Instance(t)' = Instance(t)
      BY <1>2, <3>1, SameInstance
    <3>3. Promise!Register(s)
      BY <1>1, <3>1, <3>2 DEF Promise!Register, Registered, SameUsed
    <3> QED BY <3>3 DEF Promise!Next
  <2> QED BY <1>4, <1>7, <2>1 DEF Request, StartLoad, StopLoad, db, swept
<1>8. ASSUME NEW c \in Clients, Operate(c)
      PROVE  [Promise!Next]_(Promise!promise)
  <2>0. PICK s : s = cl[c].on /\ (cl[c].pc # "idle" => s \in Services /\ Registered(s))
    BY DEF Tables, Working, IInv, LocalsAgree
  <2>1. CASE StartSpawn(c)
    <3>1. PICK p \in Pids :
            /\ proc[p].state = "free"
            /\ proc' = [proc EXCEPT ![p] = [state |-> "running", owner |-> s,
                                            tree |-> IF Isolated THEN "outside" ELSE "none",
                                            resident |-> c \in Resident]]
      BY <2>0, <2>1 DEF StartSpawn
    <3>2. s \in Services /\ Registered(s) /\ SameNames /\ ~Runs(s) /\ UNCHANGED lost
      BY <1>3, <2>0, <2>1 DEF StartSpawn, At, db, Processes, Phased, Halts, Runs
    <3>3. /\ proc'[p].state = "running" /\ proc'[p].owner = s /\ p \notin lost
          /\ \A q \in Pids \ {p} : proc'[q] = proc[q]
      BY <1>0, <3>1 DEF Processes, Fresh
    <3>4. \A t \in Services \ {s} : Instance(t)' = Instance(t)
      <4>1. ~Kept(p)
        BY <3>1 DEF Kept, Lives, Running, Processes, Fresh
      <4>2. \A t \in Services \ {s} : SameRuns(t)
        BY <3>2, <3>3, <4>1 DEF SameRuns, Kept, Lives, Running
      <4> QED BY <4>2, SameInstance
    <3>5. Instance(s) = NoPid /\ Instance(s)' = p
      <4>1. (Kept(p) /\ proc[p].owner = s)'
        BY <3>2, <3>3 DEF Kept, Lives, Running
      <4>2. Instance(s)' = p
        BY <4>1 DEF SingleInstance, Instance, Runs
      <4> QED BY <3>2, <4>2 DEF Instance
    <3>6. Promise!Launch(s)
      <4>1. {q \in Pids : proc'[q].state # "free"}
              = {q \in Pids : proc[q].state # "free"} \cup {p}
        BY <3>3
      <4>2. [t \in Services |-> Instance(t)']
              = [[t \in Services |-> Instance(t)] EXCEPT ![s] = p]
        BY <3>2, <3>4, <3>5
      <4>3. {t \in Services : Registered(t)'} = {t \in Services : Registered(t)}
        BY <3>2 DEF SameNames
      <4> QED BY <3>1, <3>2, <3>5, <4>1, <4>2, <4>3 DEF Promise!Launch
    <3> QED BY <3>2, <3>6 DEF Promise!Next
  <2>2. CASE Kill(c) \/ KillMisses(c)
    <3>1. UNCHANGED <<svc, lost>>
      BY <2>2 DEF Kill, KillMisses, db, swept
    <3>2. \/ UNCHANGED proc
          \/ \E p \in Pids, st \in {"dying", "exited"} :
                proc[p].state # "free" /\ proc' = [proc EXCEPT ![p].state = st]
      BY <2>2 DEF Kill, KillMisses, StopPid, Running, ProcessAlive
    <3> QED BY <1>4, <1>5, <3>1, <3>2
  <2>3. CASE DestroyRow(c)
    <3>1. /\ UNCHANGED <<proc, lost>> /\ s \in Services /\ Registered(s)
          /\ ~Registered(s)' /\ \A t \in Services \ {s} : svc'[t] = svc[t]
      BY <1>0, <2>0, <2>3 DEF DestroyRow, At, AbsentRow, Registered, swept
    <3>2. \A t \in Services : Instance(t)' = Instance(t)
      BY <1>2, <3>1, SameInstance
    <3>3. Instance(s) = NoPid
      <4>1. ~Runs(s)
        BY <2>0, <2>3 DEF DestroyRow, At, Processes, Phased, Halts, Runs
      <4> QED BY <4>1 DEF Instance
    <3>4. Promise!Deregister(s)
      <4>1. {t \in Services : Registered(t)'} = {t \in Services : Registered(t)} \ {s}
        BY <3>1 DEF Registered
      <4> QED BY <1>1, <3>1, <3>2, <3>3, <4>1 DEF Promise!Deregister, SameUsed
    <3> QED BY <3>1, <3>4 DEF Promise!Next
  <2>4. CASE StartRow(c) \/ StartProbe(c) \/ UndoRow(c) \/ StopRow(c)
    <3>1. /\ UNCHANGED <<proc, lost>>
          /\ \/ UNCHANGED svc
             \/ \E status \in {"starting", "healthy", "degraded", "stopped", "failed"},
                   pid \in PidOrNone : SetStatus(s, status, pid)
      <4>1. cl[c].child \in PidOrNone /\ NoPid \in PidOrNone
        BY <1>0 DEF ClientType, PidOrNone
      <4>2. CASE StartProbe(c)
        BY <2>0, <4>1, <4>2, OutcomeKinds DEF StartProbe, At, swept
      <4>3. CASE StartRow(c) \/ UndoRow(c) \/ StopRow(c)
        BY <2>0, <4>1, <4>3 DEF StartRow, UndoRow, StopRow, swept
      <4> QED BY <2>4, <4>2, <4>3
    <3>2. SameNames
      BY <1>0, <1>3, <3>1 DEF SetStatus, SameNames, Registered, RowType
    <3> QED BY <1>1, <1>2, <3>1, <3>2, Stutters
  <2>5. CASE StartPrepare(c) \/ StopClean(c) \/ DestroyClean(c)
    <3>1. /\ UNCHANGED <<svc, proc>>
          /\ UNCHANGED lost \/ \E named \in BOOLEAN : Cleanup(s, named)
      BY <2>0, <2>5 DEF StartPrepare, StopClean, DestroyClean, db, swept, BoxUp
    <3>2. lost \subseteq lost' /\ \A p \in Pids : p \in lost' \ lost => proc[p].owner = s
      BY <3>1 DEF Cleanup, swept
    <3> QED BY <1>6, <3>1, <3>2
  <2>6. CASE UndoClean(c)
    <3>1. \A p \in Pids : p = cl[c].child => proc[p].owner = s
      BY <1>0, <2>0 DEF IInv, PidOwnership, OwnedBy
    <3>2. /\ UNCHANGED <<svc, proc>>
          /\ lost \subseteq lost' /\ \A p \in Pids : p \in lost' \ lost => proc[p].owner = s
      BY <2>6, <3>1 DEF UndoClean, db
    <3> QED BY <1>6, <3>2
  <2>7. \/ StartSpawn(c) \/ Kill(c) \/ KillMisses(c) \/ DestroyRow(c)
        \/ StartRow(c) \/ StartProbe(c) \/ UndoRow(c) \/ StopRow(c)
        \/ StartPrepare(c) \/ StopClean(c) \/ DestroyClean(c) \/ UndoClean(c)
        \/ UNCHANGED <<svc, proc, lost>>
    BY <1>8 DEF Operate, DeployRoutes, StartAddress, StartSpawnFails, StartAborts,
                StartBox, StartFinish, UndoBox, StopBox, StopFinish, DestroyTables, db, swept
  <2> QED BY <1>4, <2>1, <2>2, <2>3, <2>4, <2>5, <2>6, <2>7
<1>9. ASSUME NEW c \in Clients, Breaks(c)
      PROVE  [Promise!Next]_(Promise!promise)
  <2>1. \A p \in Pids : p \in Children({c}) => proc[p].owner = cl[c].on
    BY <1>0 DEF IInv, PidOwnership, OwnedBy, Children
  <2>2. /\ UNCHANGED <<svc, proc>>
        /\ lost \subseteq lost' /\ \A p \in Pids : p \in lost' \ lost => proc[p].owner = cl[c].on
    BY <1>9, <2>1 DEF Breaks, db
  <2> QED BY <1>6, <2>2
<1>10. ASSUME NEW p \in Pids, Environs(p)
       PROVE  [Promise!Next]_(Promise!promise)
  <2>1. UNCHANGED <<svc, lost>> /\ proc[p].state # "free"
    BY <1>10 DEF Environs, Exit, TreeJoins, TreeEnds, db, swept, Processes, Fresh
  <2>2. \/ \E st \in {"dying", "exited"} : proc' = [proc EXCEPT ![p].state = st]
        \/ proc[p].tree # "none" /\ \E tr \in {"none", "inside"} :
              proc' = [proc EXCEPT ![p].tree = tr]
    BY <1>10 DEF Environs, Exit, TreeJoins, TreeEnds
  <2> QED BY <1>5, <2>1, <2>2
<1>11. CASE UNCHANGED vars
  BY <1>4, <1>11 DEF vars
<1> QED BY <1>0, <1>7, <1>8, <1>9, <1>10, <1>11, LoneStep

(* Refinement: one client at a time, the operations of app.rs implement    *)
(* ServicePromise: every step of theirs, on every error path, is a step of *)
(* the promise or leaves what it speaks of alone.                          *)
THEOREM Refinement == ASSUME Alone PROVE Spec => PromiseKept
<1>1. Init => Promise!Init
  BY PromiseInit
<1>2. (IInv /\ Tables /\ Processes) /\ (IInv /\ Tables /\ Processes)' /\ [Next]_vars
        => [Promise!Next]_(Promise!promise)
  <2>1. (IInv /\ Processes)' => SingleInstance'
    BY OneInstance, PTL
  <2> QED BY <2>1, OneInstance, PromiseStep
<1> QED BY <1>1, <1>2, ProcessesHold, PTL DEF Spec, PromiseKept, Promise!Spec

------------------------------------------------------------------------------
(* NothingForgotten: of host processes, nothing is ever beyond recall      *)
(* unless an operation ends half way, so that the theorems above speak of  *)
(* all that runs: what makes them conditional is the tree of an isolated   *)
(* service, and an error of SQLite or a kill between a spawn and its row.  *)
THEOREM NothingForgotten ==
    ASSUME Alone, ~Isolated, "sql" \notin FaultKinds, "crash" \notin FaultKinds
    PROVE  Spec => [](lost = {})
<1>1. Init => lost = {}
  BY DEF Init
<1>2. ASSUME IInv, Tables, Processes, lost = {}, [Next]_vars
      PROVE  lost' = {}
  <2>1. \A c \in Clients : ~Breaks(c)
    BY DEF Breaks, Fault
  <2>2. \A c \in Clients, s \in Services : Request(c, s) => UNCHANGED lost
    BY DEF Request, DeployRegister, StartLoad, StopLoad, swept
  <2>3. ASSUME NEW c \in Clients, UndoClean(c)
        PROVE  UNCHANGED lost
    <3>1. {p \in Pids : p = cl[c].child /\ proc[p].tree # "none"} = {}
      BY <1>2 DEF Processes, Fresh
    <3> QED BY <2>3, <3>1 DEF UndoClean
  <2>4. \A c \in Clients : Operate(c) => UNCHANGED lost
    BY <2>3 DEF Operate, DeployRoutes, StartAddress, StartPrepare, StartSpawn, StartSpawnFails,
                StartAborts, StartRow, StartBox, StartProbe, StartFinish, UndoRow, UndoBox,
                Kill, KillMisses, StopRow, StopClean, StopBox, StopFinish, DestroyClean,
                DestroyTables, DestroyRow, Cleanup, swept
  <2>5. (\E p \in Pids : Environs(p)) \/ UNCHANGED vars => UNCHANGED lost
    BY DEF Environs, Exit, TreeJoins, TreeEnds, vars, swept
  <2>6. rec.pc = "sleep"
    BY <1>2 DEF Tables
  <2> QED BY <1>2, <2>1, <2>2, <2>4, <2>5, <2>6, LoneStep
<1>3. (IInv /\ Tables /\ Processes) /\ lost = {} /\ [Next]_vars => (lost = {})'
  BY <1>2
<1> QED BY <1>1, <1>3, ProcessesHold, PTL DEF Spec
=============================================================================
