------------------------------ MODULE MCReaper ------------------------------
(* A claim and a shared database, on the same backend.                     *)
EXTENDS Reaper, TLC

CONSTANTS c1, s1

MCTogether == {[t \in Tenant |-> b] : b \in Backend}
=============================================================================
