------------------------------- MODULE MCIpc -------------------------------
(* Ipc on a small instance: interrupts are notified to a, the process that *)
(* receives most; b sends twice; c completes a cycle.                      *)
EXTENDS Ipc, TLC

CONSTANTS a, b, c

MCSends    == (a :> 1) @@ (b :> 2) @@ (c :> 1)
MCReceives == (a :> 3) @@ (b :> 1) @@ (c :> 1)
=============================================================================
