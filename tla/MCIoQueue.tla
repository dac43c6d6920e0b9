----------------------------- MODULE MCIoQueue -----------------------------
(* IoQueue on a small instance: init and two more processes share a queue. *)
(* The two others are interchangeable: all threads have the same priority. *)
EXTENDS IoQueue, TLC

MCNests == {}
MCPriority == [t \in Thread |-> 0]
MCSymmetry == Permutations(Process \ {init_process})
=============================================================================
