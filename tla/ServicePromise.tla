--------------------------- MODULE ServicePromise ---------------------------
(***************************************************************************)
(* What the lifecycle operations promise of a service: it is registered    *)
(* before it runs, at most one instance of it runs, an instance is a new   *)
(* process, and its name is given up only while nothing runs.              *)
(***************************************************************************)
EXTENDS Naturals

CONSTANTS Services, Pids, NoPid

VARIABLES
    registered,  \* the services that exist
    instance,    \* the running process of each service
    used         \* the processes launched so far

promise == <<registered, instance, used>>

Init ==
    /\ registered = {}
    /\ instance = [s \in Services |-> NoPid]
    /\ used = {}

Register(s) ==
    /\ registered' = registered \cup {s}
    /\ UNCHANGED <<instance, used>>

Launch(s) ==
    /\ s \in registered /\ instance[s] = NoPid
    /\ \E p \in Pids \ used :
        /\ instance' = [instance EXCEPT ![s] = p]
        /\ used' = used \cup {p}
    /\ UNCHANGED registered

End(s) ==
    /\ instance[s] # NoPid
    /\ instance' = [instance EXCEPT ![s] = NoPid]
    /\ UNCHANGED <<registered, used>>

Deregister(s) ==
    /\ s \in registered /\ instance[s] = NoPid
    /\ registered' = registered \ {s}
    /\ UNCHANGED <<instance, used>>

Next == \E s \in Services : Register(s) \/ Launch(s) \/ End(s) \/ Deregister(s)

Spec == Init /\ [][Next]_promise
=============================================================================
