----------------------------- MODULE MCProcLife -----------------------------
(* ProcLife with init and three more processes, which are interchangeable. *)
EXTENDS ProcLife

MCNests == {}
MCPriority == [t \in Thread |-> 0]
MCSymmetry == Permutations(Process \ {init_process})
=============================================================================
