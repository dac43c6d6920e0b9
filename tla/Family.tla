------------------------------- MODULE Family -------------------------------
(***************************************************************************)
(* What fork, exit and wait promise: a family tree of processes, without   *)
(* process identifiers.  The children of a process that exits pass to the  *)
(* first process; what it leaves is kept until its parent asks for it.     *)
(***************************************************************************)
CONSTANTS Process, first, Nobody, ExitStatus

VARIABLES parent,    \* Nobody for the processes that the kernel has started
          state,     \* "free", "alive" or "zombie"
          left,      \* the exit status of a zombie
          answer     \* the last answer of wait: a child and its exit status

family == <<parent, state, left, answer>>

NoAnswer == <<Nobody, Nobody>>
NoChildren == <<Nobody, "no children">>

Init ==
  /\ parent = [p \in Process |-> Nobody]
  /\ state = [p \in Process |-> IF p = first THEN "alive" ELSE "free"]
  /\ left = [p \in Process |-> Nobody]
  /\ answer = [p \in Process |-> NoAnswer]

Born(c, p) ==
  /\ state[c] = "free"
  /\ state' = [state EXCEPT ![c] = "alive"]
  /\ parent' = [parent EXCEPT ![c] = p]
  /\ UNCHANGED <<left, answer>>

Fork(p, c) == state[p] = "alive" /\ Born(c, p)

Exit(p, status) ==
  /\ state[p] = "alive" /\ parent[p] # Nobody
  /\ state' = [state EXCEPT ![p] = "zombie"]
  /\ left' = [left EXCEPT ![p] = status]
  /\ parent' = [c \in Process |-> IF parent[c] = p THEN first ELSE parent[c]]
  /\ UNCHANGED answer

\* The zombie c is told to its parent p and forgotten.
Wait(p, c) ==
  /\ state[p] = "alive" /\ state[c] = "zombie" /\ parent[c] = p
  /\ answer' = [answer EXCEPT ![p] = <<c, left[c]>>]
  /\ state' = [state EXCEPT ![c] = "free"]
  /\ parent' = [parent EXCEPT ![c] = Nobody]
  /\ left' = [left EXCEPT ![c] = Nobody]

WaitInVain(p) ==
  /\ state[p] = "alive" /\ \A c \in Process : parent[c] # p
  /\ answer' = [answer EXCEPT ![p] = NoChildren]
  /\ UNCHANGED <<parent, state, left>>

Forget(p) ==
  /\ answer' = [answer EXCEPT ![p] = NoAnswer]
  /\ UNCHANGED <<parent, state, left>>

Next ==
  \E p \in Process :
    \/ Born(p, Nobody) \/ WaitInVain(p) \/ Forget(p)
    \/ \E c \in Process : Fork(p, c) \/ Wait(p, c)
    \/ \E status \in ExitStatus : Exit(p, status)

Spec == Init /\ [][Next]_family
=============================================================================
