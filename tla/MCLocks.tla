------------------------------ MODULE MCLocks ------------------------------
(* Locks on a small instance: main, init, one more process and idle, and   *)
(* the kernel pool's lock.                                                 *)
EXTENDS Locks

MCPriority == [t \in Thread |-> 1]
=============================================================================
