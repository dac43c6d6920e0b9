------------------------------- MODULE MCIde -------------------------------
(* Ide on a small instance: main and one process share the channel.        *)
EXTENDS Ide

MCNests == {}
MCPriority == [t \in Thread |-> 0]
=============================================================================
