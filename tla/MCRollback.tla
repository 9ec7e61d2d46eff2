------------------------------ MODULE MCRollback ------------------------------
(* Instances of Rollback for TLC: a release, and its successor, which adds *)
(* a volume.                                                               *)
EXTENDS Rollback, TLC

CONSTANTS r1, r2, data, extra

ListsOf == (r1 :> {data}) @@ (r2 :> {data, extra})
AddsOne == (r1 :> {}) @@ (r2 :> {data})
===============================================================================
