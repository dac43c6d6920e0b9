---------------------------- MODULE MCCompositor ----------------------------
(***************************************************************************)
(* Two clients, a screen of four rows and a hash map of two buckets.       *)
(***************************************************************************)
EXTENDS Compositor

CONSTANTS c1, c2

ShapesDef == {<<0, 2>>, <<1, 2>>}
MovesDef == {2, -2}
MaxCallsDef == (c1 :> 2) @@ (c2 :> 1)
=============================================================================
