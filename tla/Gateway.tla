------------------------------- MODULE Gateway -------------------------------
(***************************************************************************)
(* The daemon's two front doors, the control API (http_host.rs) and the    *)
(* ingress proxy (proxy.rs), and the one way behind both: a dispatch into  *)
(* the fzy control plane through environment variables and scratch files   *)
(* (ffi.rs).                                                               *)
(*                                                                         *)
(* A request is a task on a pool of worker threads.  A task gives its      *)
(* worker back where it awaits: the dispatch lock and the body.  From      *)
(* there on it keeps the worker, also while it waits for FZY_LOCK.         *)
(***************************************************************************)
EXTENDS Naturals, FiniteSets

CONSTANTS
    Control,     \* requests to the control API
    Ingress,     \* requests to the proxy
    Workers,     \* the number of worker threads
    Fragile,     \* the requests whose files may fail to be made or written
    Absent,      \* what is read of a file that is missing or empty
    Complaint,   \* the payload "control input missing"
    MaxSlots,    \* bound: the dispatches of one life of the daemon
    MaxRestarts  \* bound: how often the daemon is restarted

Requests == Control \cup Ingress
Slots    == 1 .. MaxSlots

ASSUME GatewayAssumption ==
    /\ Control \cap Ingress = {}
    /\ Absent \notin Requests /\ Complaint \notin Requests
    /\ Absent # Complaint
    /\ Workers \in Nat \ {0}
    /\ MaxSlots \in Nat /\ MaxRestarts \in Nat

VARIABLES
    client,   \* each client: away, sending its body, sent, or gone
    task,     \* the step each request's task is at
    slot,     \* the number of its scratch directory
    next,     \* FZY_SCRATCH_COUNTER
    dlock,    \* who holds dispatch_lock
    flock,    \* who holds FZY_LOCK
    env,      \* the scratch directory the environment variables name
    dir,      \* the scratch directories: control input and output, host files
    answer,   \* the answer to each request: its code and whose output it holds
    broke,    \* history: the requests whose files have failed
    restarts  \* how often the daemon has been restarted

vars == <<client, task, slot, next, dlock, flock, env, dir, answer, broke, restarts>>

Contents == Requests \cup {Absent, Complaint}
Empty    == [input |-> Absent, output |-> Absent, host |-> FALSE]
Unsaid   == [code |-> 0, of |-> Absent]

Inside == {"env", "prepare", "call", "read"}
Synchronous == Inside \cup {"enter", "respond"}
Steps  == Synchronous \cup {"none", "lock", "body", "new", "done"}

(* TypeOK: locks name requests, and files, answers and steps keep their    *)
(* types; no other code is answered than those of the two handlers.        *)
TypeOK ==
    /\ client \in [Requests -> {"away", "sending", "sent", "gone"}]
    /\ task \in [Requests -> Steps]
    /\ slot \in [Requests -> Slots \cup {0}]
    /\ next \in 1 .. MaxSlots + 1
    /\ dlock \in Requests \cup {Absent}
    /\ flock \in Requests \cup {Absent}
    /\ env \in Slots \cup {0}
    /\ dir \in [Slots -> [input : Contents, output : Contents, host : BOOLEAN]]
    /\ answer \in [Requests -> [code : {0, 200, 400, 500, 502}, of : Contents]]
    /\ broke \subseteq Requests
    /\ restarts \in Nat

Init ==
    /\ client = [r \in Requests |-> "away"]
    /\ task = [r \in Requests |-> "none"]
    /\ slot = [r \in Requests |-> 0]
    /\ next = 1
    /\ dlock = Absent /\ flock = Absent
    /\ env = 0
    /\ dir = [d \in Slots |-> Empty]
    /\ answer = [r \in Requests |-> Unsaid]
    /\ broke = {}
    /\ restarts = 0

------------------------------------------------------------------------------
(* The clients *)

daemon == <<slot, next, dlock, flock, env, dir, answer, broke, restarts>>

(* Mutant of Arrive: the proxy takes the dispatch lock, too.               *)
ArriveLocked(r) ==
    /\ client[r] = "away"
    /\ client' = [client EXCEPT ![r] = "sending"]
    /\ task' = [task EXCEPT ![r] = "lock"]
    /\ UNCHANGED daemon

(* A request to the control API waits for the dispatch lock before its     *)
(* body is read; the proxy makes its plan from the headers alone.          *)
Arrive(r) ==
    /\ client[r] = "away"
    /\ client' = [client EXCEPT ![r] = "sending"]
    /\ task' = [task EXCEPT ![r] = IF r \in Control THEN "lock" ELSE "new"]
    /\ UNCHANGED daemon

Send(r) ==
    /\ client[r] = "sending"
    /\ client' = [client EXCEPT ![r] = "sent"]
    /\ UNCHANGED <<task, daemon>>

Leave(r) ==
    /\ client[r] \in {"sending", "sent"} /\ task[r] # "done"
    /\ client' = [client EXCEPT ![r] = "gone"]
    /\ UNCHANGED <<task, daemon>>

------------------------------------------------------------------------------
(* The handlers: handle_fzy_http and proxy_request *)

Goto(r, step) == task' = [task EXCEPT ![r] = step]
Say(r, code, of) == answer' = [answer EXCEPT ![r] = [code |-> code, of |-> of]]
FreeDispatch(r) == dlock' = IF dlock = r THEN Absent ELSE dlock

WorkerFree == Cardinality({r \in Requests : task[r] \in Synchronous}) < Workers

Lock(r) ==
    /\ task[r] = "lock"
    /\ WorkerFree
    /\ dlock = Absent
    /\ dlock' = r
    /\ Goto(r, "body")
    /\ UNCHANGED <<client, slot, next, flock, env, dir, answer, broke, restarts>>

(* Mutant of Drop: the lock is given back by hand, on the way out at the   *)
(* end only.                                                               *)
DropLocked(r) ==
    /\ task[r] \in {"lock", "body", "new"} /\ client[r] = "gone"
    /\ WorkerFree
    /\ Goto(r, "done")
    /\ UNCHANGED <<client, slot, next, dlock, flock, env, dir, answer, broke, restarts>>

(* The handler of a client that has gone ends where it awaits, and the     *)
(* guard of the lock with it.                                              *)
Drop(r) ==
    /\ task[r] \in {"lock", "body", "new"} /\ client[r] = "gone"
    /\ WorkerFree
    /\ FreeDispatch(r)
    /\ Goto(r, "done")
    /\ UNCHANGED <<client, slot, next, flock, env, dir, answer, broke, restarts>>

(* A body that is not text                                                 *)
Refuse(r) ==
    /\ task[r] = "body" /\ client[r] = "sent"
    /\ WorkerFree
    /\ Say(r, 400, Absent)
    /\ FreeDispatch(r)
    /\ Goto(r, "done")
    /\ UNCHANGED <<client, slot, next, flock, env, dir, broke, restarts>>

(* The body is there, or none is needed: the dispatch begins.              *)
Ready(r) == \/ task[r] = "body" /\ client[r] = "sent"
            \/ task[r] = "new"

Respond(r) ==
    /\ task[r] = "respond"
    /\ FreeDispatch(r)
    /\ Goto(r, "done")
    /\ UNCHANGED <<client, slot, next, flock, env, dir, answer, broke, restarts>>

------------------------------------------------------------------------------
(* dispatch_control *)

(* The directory is named by the process and the counter, and may be there *)
(* already when an earlier life of the daemon had the same process id.     *)
Begin(r) ==
    /\ Ready(r) /\ WorkerFree
    /\ next \in Slots
    /\ slot' = [slot EXCEPT ![r] = next]
    /\ next' = next + 1
    /\ Goto(r, "enter")
    /\ UNCHANGED <<client, dlock, flock, env, dir, answer, broke, restarts>>

Fails(r) ==
    /\ r \in Fragile
    /\ broke' = broke \cup {r}

(* An error becomes code 500 for the one handler and the other.            *)
GivesUp(r) ==
    /\ Fails(r)
    /\ Say(r, 500, Absent)
    /\ Goto(r, "respond")

NoDirectory(r) ==
    /\ task[r] = "enter"
    /\ GivesUp(r)
    /\ UNCHANGED <<client, slot, next, dlock, flock, env, dir, restarts>>

(* Mutant of Enter: the depth of FZY_DEPTH is that of all threads.         *)
EnterNested(r) ==
    /\ task[r] = "enter"
    /\ flock' = IF flock = Absent THEN r ELSE flock
    /\ Goto(r, "env")
    /\ UNCHANGED <<client, slot, next, dlock, env, dir, answer, broke, restarts>>

Enter(r) ==
    /\ task[r] = "enter"
    /\ flock = Absent
    /\ flock' = r
    /\ Goto(r, "env")
    /\ UNCHANGED <<client, slot, next, dlock, env, dir, answer, broke, restarts>>

SetEnv(r) ==
    /\ task[r] = "env"
    /\ env' = slot[r]
    /\ Goto(r, "prepare")
    /\ UNCHANGED <<client, slot, next, dlock, flock, dir, answer, broke, restarts>>

(* Mutant of Prepare: the output stays.                                    *)
PrepareDirty(r) ==
    /\ task[r] = "prepare"
    /\ dir' = [dir EXCEPT ![slot[r]].input = r]
    /\ Goto(r, "call")
    /\ UNCHANGED <<client, slot, next, dlock, flock, env, answer, broke, restarts>>

(* The input is written, and what an earlier life left is removed.         *)
Prepare(r) ==
    /\ task[r] = "prepare"
    /\ dir' = [dir EXCEPT ![slot[r]] = [Empty EXCEPT !.input = r]]
    /\ Goto(r, "call")
    /\ UNCHANGED <<client, slot, next, dlock, flock, env, answer, broke, restarts>>

PrepareFails(r) ==
    /\ task[r] = "prepare"
    /\ GivesUp(r)
    /\ flock' = Absent
    /\ UNCHANGED <<client, slot, next, dlock, env, dir, restarts>>

(* dispatch_host of the fzy control plane finds its files by the           *)
(* environment and writes what it has read, and ignores that it could not. *)
Echo == IF dir[env].input = Absent THEN Complaint ELSE dir[env].input

Call(r) ==
    /\ task[r] = "call"
    /\ \/ dir' = [dir EXCEPT ![env].output = Echo] /\ UNCHANGED broke
       \/ Fails(r) /\ UNCHANGED dir
    /\ Goto(r, "read")
    /\ UNCHANGED <<client, slot, next, dlock, flock, env, answer, restarts>>

(* Mutant of Code: the proxy reports a plan it cannot use as not found.    *)
CodeNotFound(r, out) ==
    CASE out = Absent  -> 500
      [] out # Absent /\ r \in Control -> 200
      [] out # Absent /\ r \notin Control -> 404

(* The output is not a plan, which needs an upstream_port, and has no      *)
(* http_status: the proxy answers 502 and the control API 200.             *)
Code(r, out) ==
    CASE out = Absent  -> 500
      [] out # Absent /\ r \in Control -> 200
      [] out # Absent /\ r \notin Control -> 502

Read(r) ==
    /\ task[r] = "read"
    /\ LET out == dir[slot[r]].output IN Say(r, Code(r, out), out)
    /\ flock' = Absent
    /\ Goto(r, "respond")
    /\ UNCHANGED <<client, slot, next, dlock, env, dir, broke, restarts>>

------------------------------------------------------------------------------
(* The daemon is killed and started again: its files stay, under the same  *)
(* names when the new process has the same id.                             *)
Restart ==
    /\ restarts < MaxRestarts
    /\ restarts' = restarts + 1
    /\ client' = [r \in Requests |-> IF client[r] = "away" THEN "away" ELSE "gone"]
    /\ task' = [r \in Requests |-> IF client[r] = "away" THEN "none" ELSE "done"]
    /\ next' = 1 /\ env' = 0
    /\ dlock' = Absent /\ flock' = Absent
    /\ dir' \in {dir, [d \in Slots |-> Empty]}
    /\ UNCHANGED <<slot, answer, broke>>

Handle(r) == Lock(r) \/ Drop(r) \/ Refuse(r) \/ Respond(r)

Dispatch(r) ==
    \/ Begin(r) \/ NoDirectory(r) \/ Enter(r) \/ SetEnv(r)
    \/ Prepare(r) \/ PrepareFails(r) \/ Call(r) \/ Read(r)

Next ==
    \/ \E r \in Requests :
          Arrive(r) \/ Send(r) \/ Leave(r) \/ Handle(r) \/ Dispatch(r)
    \/ Restart

Spec == Init /\ [][Next]_vars

(* Every task that can run is run; no client need send or leave.           *)
FairSpec == Spec /\ \A r \in Requests : WF_vars(Handle(r) \/ Dispatch(r))

------------------------------------------------------------------------------
(* Properties *)

(* OwnAnswer: no request is answered with the output of another, not even  *)
(* with one that an earlier life of the daemon left under the same name    *)
(* when its own could not be written: dispatch_control clears the output   *)
(* before the call.                                                        *)
OwnAnswer == \A r \in Requests : answer[r].of \in {r, Absent}

(* ErrorHasCause: a request is answered 500, or with a complaint about its *)
(* input, only when its own files failed: FZY_LOCK keeps the environment   *)
(* of a dispatch until the call has read it.                               *)
ErrorHasCause ==
    \A r \in Requests :
        answer[r].code = 500 \/ answer[r].of = Complaint => r \in broke

(* IngressAnswered: no client of the control API keeps the proxy from      *)
(* answering, by a body it never ends or otherwise: the proxy does not     *)
(* take the dispatch lock, and FZY_LOCK is never held across an await.     *)
IngressAnswered ==
    \A r \in Ingress : client[r] # "away" ~> task[r] = "done"

(* ControlAnswered: if every client ends its body or leaves, every request *)
(* to the control API is served or dropped: on each way out of the handler *)
(* the dispatch lock is free again.                                        *)
ControlAnswered ==
    (\A r \in Control : client[r] = "sending" ~> client[r] # "sending")
    => \A r \in Control : client[r] # "away" ~> task[r] = "done"

(* HostReached, as the test at ffi.rs:185 has it: "nested host dispatch    *)
(* should materialize host input beside control input" when the dispatch   *)
(* of a request has succeeded.                                             *)
HostReached ==
    \A r \in Requests :
        task[r] = "respond" /\ answer[r].of = r => dir[slot[r]].host

=============================================================================
