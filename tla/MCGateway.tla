------------------------------ MODULE MCGateway ------------------------------
(* Instances of Gateway for TLC: requests that differ in their door and in *)
(* whether their files may fail.                                           *)
EXTENDS Gateway, TLC

CONSTANTS c1, c2, i1
===============================================================================
