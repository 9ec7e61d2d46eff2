---------------------------- MODULE GatewayProofs ----------------------------
(***************************************************************************)
(* Theorems about Gateway, for any number of requests, worker threads,     *)
(* failing files and restarts.                                             *)
(***************************************************************************)
EXTENDS Gateway, TLAPS

USE GatewayAssumption

Numbered == Inside \cup {"enter"}

(* Whoever is inside the dispatch holds FZY_LOCK.                          *)
Holding == \A r \in Requests : task[r] \in Inside => flock = r

(* A scratch directory is one dispatch's at a time, its number below the   *)
(* counter.                                                                *)
Placed ==
    /\ \A r \in Requests : task[r] \in Numbered => slot[r] \in Slots /\ slot[r] < next
    /\ \A r, q \in Requests :
          r # q /\ task[r] \in Numbered /\ task[q] \in Numbered => slot[r] # slot[q]

(* The environment names the holder's directory, which holds its input, no *)
(* output before the call, and after it its own or none.                   *)
Prepared ==
    \A r \in Requests :
        /\ task[r] \in {"prepare", "call"} => env = slot[r]
        /\ task[r] = "call" =>
              dir[slot[r]].input = r /\ dir[slot[r]].output = Absent
        /\ task[r] = "read" =>
              \/ dir[slot[r]].output = r
              \/ dir[slot[r]].output = Absent /\ r \in broke

IInv == TypeOK /\ Holding /\ Placed /\ Prepared /\ OwnAnswer /\ ErrorHasCause

------------------------------------------------------------------------------
(* The initial state satisfies the invariant.                              *)
LEMMA InitInv == Init => IInv
  BY DEF Init, IInv, TypeOK, Holding, Placed, Prepared, OwnAnswer, ErrorHasCause,
         Steps, Synchronous, Inside, Numbered, Slots, Empty, Contents, Unsaid

(* Every step keeps the types.                                             *)
LEMMA TypeStep == TypeOK /\ Holding /\ Placed /\ Prepared /\ [Next]_vars => TypeOK'
<1> SUFFICES ASSUME TypeOK, Holding, Placed, Prepared, [Next]_vars PROVE TypeOK'
  OBVIOUS
<1> USE DEF TypeOK, Steps, Synchronous, Inside, Contents
<1>1. ASSUME NEW r \in Requests, Arrive(r) \/ Send(r) \/ Leave(r) PROVE TypeOK'
  BY <1>1 DEF Arrive, Send, Leave, daemon
<1>2. ASSUME NEW r \in Requests, Handle(r) PROVE TypeOK'
  BY <1>2 DEF Handle, Lock, Drop, Refuse, Respond, Goto, FreeDispatch, Say
<1>3. ASSUME NEW r \in Requests, Dispatch(r) PROVE TypeOK'
  <2>1. CASE Begin(r)
    BY <2>1 DEF Begin, Goto, Slots
  <2>2. CASE NoDirectory(r) \/ PrepareFails(r)
    BY <2>2 DEF NoDirectory, PrepareFails, GivesUp, Fails, Goto, Say
  <2>3. CASE Enter(r)
    BY <2>3 DEF Enter, Goto
  <2>4. CASE SetEnv(r)
    BY <2>4 DEF SetEnv, Goto, Placed, Numbered
  <2>5. CASE Prepare(r)
    <3>1. [Empty EXCEPT !.input = r]
            \in [input : Contents, output : Contents, host : BOOLEAN]
      BY DEF Empty
    <3> QED  BY <2>5, <3>1 DEF Prepare, Goto
  <2>6. CASE Call(r)
    <3>1. env \in Slots
      BY <2>6 DEF Call, Prepared, Placed, Numbered
    <3>2. Echo \in Contents
      BY <3>1 DEF Echo
    <3> QED  BY <2>6, <3>1, <3>2 DEF Call, Goto, Fails
  <2>7. CASE Read(r)
    <3>1. slot[r] \in Slots
      BY <2>7 DEF Read, Placed, Numbered
    <3>2. dir[slot[r]].output \in Contents
      BY <3>1
    <3>3. Code(r, dir[slot[r]].output) \in {200, 500, 502}
      BY DEF Code
    <3> QED  BY <2>7, <3>2, <3>3 DEF Read, Goto, Say
  <2> QED
    BY <1>3, <2>1, <2>2, <2>3, <2>4, <2>5, <2>6, <2>7 DEF Dispatch
<1>4. ASSUME Restart PROVE TypeOK'
  <2>1. Empty \in [input : Contents, output : Contents, host : BOOLEAN]
    BY DEF Empty
  <2>2. dir' \in [Slots -> [input : Contents, output : Contents, host : BOOLEAN]]
    BY <1>4, <2>1 DEF Restart
  <2> QED  BY <1>4, <2>2 DEF Restart
<1>5. CASE UNCHANGED vars
  BY <1>5 DEF vars
<1> QED  BY <1>1, <1>2, <1>3, <1>4, <1>5 DEF Next

(* FZY_LOCK is taken before a task goes inside and given back as it leaves. *)
LEMMA HoldingStep == TypeOK /\ Holding /\ [Next]_vars => Holding'
<1> SUFFICES ASSUME TypeOK, Holding, [Next]_vars PROVE Holding'
  OBVIOUS
<1> USE DEF TypeOK, Holding, Inside
<1>1. ASSUME NEW r \in Requests, Arrive(r) \/ Send(r) \/ Leave(r) PROVE Holding'
  BY <1>1 DEF Arrive, Send, Leave, daemon
<1>2. ASSUME NEW r \in Requests, Handle(r) PROVE Holding'
  BY <1>2 DEF Handle, Lock, Drop, Refuse, Respond, Goto
<1>3. ASSUME NEW r \in Requests, Dispatch(r) PROVE Holding'
  <2>1. CASE Begin(r) \/ NoDirectory(r)
    BY <2>1 DEF Begin, NoDirectory, GivesUp, Goto
  <2>2. CASE Enter(r)
    BY <2>2 DEF Enter, Goto
  <2>3. CASE SetEnv(r) \/ Prepare(r) \/ Call(r)
    BY <2>3 DEF SetEnv, Prepare, Call, Goto
  <2>4. CASE PrepareFails(r) \/ Read(r)
    BY <2>4 DEF PrepareFails, Read, GivesUp, Goto
  <2> QED  BY <1>3, <2>1, <2>2, <2>3, <2>4 DEF Dispatch
<1>4. ASSUME Restart PROVE Holding'
  BY <1>4 DEF Restart
<1>5. CASE UNCHANGED vars
  BY <1>5 DEF vars
<1> QED  BY <1>1, <1>2, <1>3, <1>4, <1>5 DEF Next

(* Only the counter hands out directories, and it only grows while a task  *)
(* has one: a restart ends all tasks.                                      *)
LEMMA PlacedStep == TypeOK /\ Placed /\ [Next]_vars => Placed'
<1> SUFFICES ASSUME TypeOK, Placed, [Next]_vars PROVE Placed'
  OBVIOUS
<1> USE DEF TypeOK, Placed, Inside, Numbered
<1>1. ASSUME NEW r \in Requests, Arrive(r) \/ Send(r) \/ Leave(r) PROVE Placed'
  BY <1>1 DEF Arrive, Send, Leave, daemon
<1>2. ASSUME NEW r \in Requests, Handle(r) PROVE Placed'
  BY <1>2 DEF Handle, Lock, Drop, Refuse, Respond, Goto
<1>3. ASSUME NEW r \in Requests, Dispatch(r) PROVE Placed'
  <2>1. CASE Begin(r)
    <3>1. /\ slot'[r] = next /\ next' = next + 1
          /\ \A q \in Requests \ {r} : slot'[q] = slot[q] /\ task'[q] = task[q]
      BY <2>1 DEF Begin, Goto
    <3>2. next \in Slots /\ next \in Nat
      BY <2>1 DEF Begin, Slots
    <3>3. \A q \in Requests : slot'[q] \in Nat
      BY <3>1, <3>2 DEF Slots
    <3>4. ASSUME NEW q \in Requests, task'[q] \in Numbered
          PROVE  slot'[q] \in Slots /\ slot'[q] < next'
      <4>1. CASE q = r
        BY <3>1, <3>2, <4>1
      <4>2. CASE q # r
        BY <3>1, <3>2, <3>4, <4>2 DEF Slots
      <4> QED  BY <4>1, <4>2
    <3>5. ASSUME NEW q \in Requests, NEW p \in Requests, q # p,
                 task'[q] \in Numbered, task'[p] \in Numbered
          PROVE  slot'[q] # slot'[p]
      <4>1. CASE q = r
        BY <3>1, <3>2, <3>5, <4>1 DEF Slots
      <4>2. CASE p = r
        BY <3>1, <3>2, <3>5, <4>2 DEF Slots
      <4>3. CASE q # r /\ p # r
        BY <3>1, <3>5, <4>3
      <4> QED  BY <4>1, <4>2, <4>3
    <3> QED  BY <3>4, <3>5
  <2>2. CASE NoDirectory(r) \/ PrepareFails(r) \/ Read(r)
    BY <2>2 DEF NoDirectory, PrepareFails, Read, GivesUp, Goto
  <2>3. CASE Enter(r) \/ SetEnv(r) \/ Prepare(r) \/ Call(r)
    BY <2>3 DEF Enter, SetEnv, Prepare, Call, Goto
  <2> QED  BY <1>3, <2>1, <2>2, <2>3 DEF Dispatch
<1>4. ASSUME Restart PROVE Placed'
  BY <1>4 DEF Restart
<1>5. CASE UNCHANGED vars
  BY <1>5 DEF vars
<1> QED  BY <1>1, <1>2, <1>3, <1>4, <1>5 DEF Next

(* Between a dispatch's first write and its last read nobody else writes   *)
(* the environment, for want of FZY_LOCK, or its directory, which is       *)
(* nobody else's.                                                          *)
LEMMA PreparedStep ==
  TypeOK /\ Holding /\ Placed /\ Prepared /\ [Next]_vars => Prepared'
<1> SUFFICES ASSUME TypeOK, Holding, Placed, Prepared, [Next]_vars PROVE Prepared'
  OBVIOUS
<1> USE DEF TypeOK, Prepared, Inside
<1>1. ASSUME NEW r \in Requests, Arrive(r) \/ Send(r) \/ Leave(r) PROVE Prepared'
  BY <1>1 DEF Arrive, Send, Leave, daemon
<1>2. ASSUME NEW r \in Requests, Handle(r) PROVE Prepared'
  BY <1>2 DEF Handle, Lock, Drop, Refuse, Respond, Goto
<1>3. ASSUME NEW r \in Requests, Dispatch(r) PROVE Prepared'
  <2>1. CASE Begin(r)
    BY <2>1 DEF Begin, Goto
  <2>2. CASE NoDirectory(r) \/ PrepareFails(r)
    BY <2>2 DEF NoDirectory, PrepareFails, GivesUp, Fails, Goto
  <2>3. CASE Enter(r) \/ Read(r)
    BY <2>3 DEF Enter, Read, Goto
  <2>4. CASE SetEnv(r)
    <3>1. flock = r /\ \A q \in Requests \ {r} : task[q] \notin Inside
      BY <2>4 DEF SetEnv, Holding
    <3> QED  BY <2>4, <3>1 DEF SetEnv, Goto
  <2>5. CASE Prepare(r)
    <3>1. \A q \in Requests \ {r} : task[q] \notin Inside
      BY <2>5 DEF Prepare, Holding
    <3>2. slot[r] \in Slots
      BY <2>5 DEF Prepare, Placed, Numbered
    <3>3. dir'[slot[r]].input = r /\ dir'[slot[r]].output = Absent
      BY <2>5, <3>2 DEF Prepare, Empty
    <3> QED  BY <2>5, <3>1, <3>3 DEF Prepare, Goto
  <2>6. CASE Call(r)
    <3>1. \A q \in Requests \ {r} : task[q] \notin Inside
      BY <2>6 DEF Call, Holding
    <3>2. /\ env = slot[r] /\ env \in Slots
          /\ dir[env].input = r /\ dir[env].output = Absent
      BY <2>6 DEF Call, Placed, Numbered
    <3>3. Echo = r
      BY <3>2 DEF Echo, Requests
    <3>4. \/ dir'[slot[r]].output = r
          \/ dir'[slot[r]].output = Absent /\ r \in broke'
      BY <2>6, <3>2, <3>3 DEF Call, Fails
    <3> QED  BY <2>6, <3>1, <3>4 DEF Call, Goto
  <2> QED  BY <1>3, <2>1, <2>2, <2>3, <2>4, <2>5, <2>6 DEF Dispatch
<1>4. ASSUME Restart PROVE Prepared'
  BY <1>4 DEF Restart
<1>5. CASE UNCHANGED vars
  BY <1>5 DEF vars
<1> QED  BY <1>1, <1>2, <1>3, <1>4, <1>5 DEF Next

(* What is read is the task's own output, or nothing after a failure.      *)
LEMMA AnswersStep ==
  TypeOK /\ Prepared /\ OwnAnswer /\ ErrorHasCause /\ [Next]_vars
  => OwnAnswer' /\ ErrorHasCause'
<1> SUFFICES ASSUME TypeOK, Prepared, OwnAnswer, ErrorHasCause, [Next]_vars
             PROVE  OwnAnswer' /\ ErrorHasCause'
  OBVIOUS
<1> USE DEF TypeOK, OwnAnswer, ErrorHasCause
<1>1. ASSUME UNCHANGED answer, broke \subseteq broke'
      PROVE  OwnAnswer' /\ ErrorHasCause'
  BY <1>1
<1>2. ASSUME NEW r \in Requests, NEW of \in {r, Absent}, NEW code,
             Say(r, code, of), broke \subseteq broke', code = 500 => r \in broke'
      PROVE  OwnAnswer' /\ ErrorHasCause'
  <2>1. /\ answer'[r].code = code /\ answer'[r].of = of
        /\ \A q \in Requests \ {r} : answer'[q] = answer[q]
    BY <1>2 DEF Say
  <2>2. of # Complaint
    BY DEF Requests
  <2> QED  BY <1>2, <2>1, <2>2
<1>3. ASSUME NEW r \in Requests, Arrive(r) \/ Send(r) \/ Leave(r)
      PROVE  UNCHANGED answer /\ broke \subseteq broke'
  BY <1>3 DEF Arrive, Send, Leave, daemon
<1>4. ASSUME NEW r \in Requests, Handle(r) PROVE OwnAnswer' /\ ErrorHasCause'
  <2>1. CASE Refuse(r)
    BY <1>2, <2>1 DEF Refuse
  <2>2. CASE Lock(r) \/ Drop(r) \/ Respond(r)
    BY <1>1, <2>2 DEF Lock, Drop, Respond
  <2> QED  BY <1>4, <2>1, <2>2 DEF Handle
<1>5. ASSUME NEW r \in Requests, Dispatch(r) PROVE OwnAnswer' /\ ErrorHasCause'
  <2>1. CASE NoDirectory(r) \/ PrepareFails(r)
    <3>1. Say(r, 500, Absent) /\ broke' = broke \cup {r}
      BY <2>1 DEF NoDirectory, PrepareFails, GivesUp, Fails
    <3> QED  BY <1>2, <3>1
  <2>2. CASE Read(r)
    <3> DEFINE out == dir[slot[r]].output
    <3>1. Say(r, Code(r, out), out) /\ UNCHANGED broke
      BY <2>2 DEF Read
    <3>2. out = r \/ (out = Absent /\ r \in broke)
      BY <2>2 DEF Read, Prepared
    <3>3. Code(r, out) = 500 => r \in broke
      BY <3>2 DEF Code, Requests
    <3> HIDE DEF out
    <3> QED  BY <1>2, <3>1, <3>2, <3>3
  <2>3. CASE Begin(r) \/ Enter(r) \/ SetEnv(r) \/ Prepare(r) \/ Call(r)
    BY <1>1, <2>3 DEF Begin, Enter, SetEnv, Prepare, Call, Fails
  <2> QED  BY <1>5, <2>1, <2>2, <2>3 DEF Dispatch
<1>6. ASSUME Restart PROVE UNCHANGED answer /\ broke \subseteq broke'
  BY <1>6 DEF Restart
<1>7. CASE UNCHANGED vars
  BY <1>1, <1>7 DEF vars
<1> QED  BY <1>1, <1>3, <1>4, <1>5, <1>6, <1>7 DEF Next

(* The invariant is inductive, so it holds in every reachable state.       *)
THEOREM Invariance == Spec => []IInv
<1>1. IInv /\ [Next]_vars => IInv'
  BY TypeStep, HoldingStep, PlacedStep, PreparedStep, AnswersStep DEF IInv
<1> QED  BY InitInv, <1>1, PTL DEF Spec

(* TypeCorrect: locks, counters, files and answers keep their types.       *)
THEOREM TypeCorrect == Spec => []TypeOK
<1>1. IInv => TypeOK
  BY DEF IInv
<1> QED  BY Invariance, <1>1, PTL

(* AnswersAreOwn: no request ever gets another's answer, nor one that an   *)
(* earlier life of the daemon left behind.                                 *)
THEOREM AnswersAreOwn == Spec => []OwnAnswer
<1>1. IInv => OwnAnswer
  BY DEF IInv
<1> QED  BY Invariance, <1>1, PTL

(* ErrorsHaveCauses: requests side by side never cause one another's       *)
(* errors.                                                                 *)
THEOREM ErrorsHaveCauses == Spec => []ErrorHasCause
<1>1. IInv => ErrorHasCause
  BY DEF IInv
<1> QED  BY Invariance, <1>1, PTL
=============================================================================
