--------------------------- MODULE RecursiveLock ---------------------------
(***************************************************************************)
(* What a struct lock promises: a thread may fetch it as often as it likes *)
(* while no other thread has it, and gives it up by as many releases.      *)
(***************************************************************************)
EXTENDS Naturals

CONSTANTS Thread, Lock

VARIABLE count   \* count[t][l]: the fetches of l that t has still to undo

Free(t, l) == \A u \in Thread \ {t} : count[u][l] = 0

Init == count = [t \in Thread |-> [l \in Lock |-> 0]]

Fetch(t, l) ==
  /\ Free(t, l)
  /\ count' = [count EXCEPT ![t][l] = @ + 1]

Release(t, l) ==
  /\ count[t][l] > 0
  /\ count' = [count EXCEPT ![t][l] = @ - 1]

Next == \E t \in Thread, l \in Lock : Fetch(t, l) \/ Release(t, l)

Spec == Init /\ [][Next]_count
=============================================================================
