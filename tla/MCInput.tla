------------------------------ MODULE MCInput -------------------------------
(***************************************************************************)
(* Two processes that read the mouse, of which one also reads the keyboard *)
(* and waits for the keyboard and for the raw bytes of the mouse.          *)
(***************************************************************************)
EXTENDS Input

CONSTANTS p1, p2

ReadsDef == (p1 :> {"kbd", "mouse"}) @@ (p2 :> {"mouse"})
PollsDef == (p1 :> {"kbd", "aux"}) @@ (p2 :> {})
SizeDef == [kbd |-> 3, mouse |-> 3, aux |-> 3]
\* The letter a, a shift key, the control key on the right and F1.
KeysDef ==
  {[ext |-> FALSE, code |-> c] : c \in {30, 42, 59}} \cup {[ext |-> TRUE, code |-> 29]}
\* Deltas whose bytes look like the start of a report, and one whose last does not.
ReportsDef == {[buttons |-> 1, x |-> 8, y |-> -248], [buttons |-> 0, x |-> 8, y |-> 1]}
\* Many keys, many reports, or some of both.
BudgetsDef == {<<3, 0>>, <<1, 1>>, <<0, 3>>}
=============================================================================
