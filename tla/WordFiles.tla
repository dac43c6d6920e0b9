----------------------------- MODULE WordFiles -----------------------------
(* What the file system promises: every file is an array of words with a   *)
(* size and a position.                                                    *)
EXTENDS Integers, FiniteSetsExt

CONSTANTS File, MaxSize, Counts,
          Buf     \* what a process may write: functions from 0 .. MaxSize

VARIABLES exists,  \* the files there are
          words, size, pos,
          read     \* how many words the last call has read, and which

vars == <<exists, words, size, pos, read>>

NoWords == [i \in 0 .. MaxSize - 1 |-> 0]
NoRead == [n |-> 0, words |-> <<>>]

Init ==
  /\ exists = {} /\ words = [f \in File |-> NoWords]
  /\ size = [f \in File |-> 0] /\ pos = [f \in File |-> 0] /\ read = NoRead

Create(f) ==
  /\ f \notin exists /\ exists' = exists \cup {f}
  /\ pos' = [pos EXCEPT ![f] = 0] /\ read' = NoRead
  /\ UNCHANGED <<words, size>>

Remove(f) ==
  /\ f \in exists /\ exists' = exists \ {f}
  /\ words' = [words EXCEPT ![f] = NoWords] /\ size' = [size EXCEPT ![f] = 0]
  /\ read' = NoRead /\ UNCHANGED pos

\* lseek, and opening and closing, which start at 0.
Seek(f, p) ==
  /\ p \in 0 .. size[f] /\ pos' = [pos EXCEPT ![f] = p] /\ read' = NoRead
  /\ UNCHANGED <<exists, words, size>>

\* n words of the buffer go to the positions from pos on.
Put(f, n, b) ==
  /\ words' = [words EXCEPT ![f] = [i \in DOMAIN @ |->
                 IF i \in pos[f] .. pos[f] + n - 1 THEN b[i - pos[f]] ELSE @[i]]]
  /\ pos' = [pos EXCEPT ![f] = @ + n]
  /\ read' = NoRead /\ UNCHANGED exists

Write(f, count, b) ==
  LET n == Min({count, MaxSize - pos[f]})
  IN  f \in exists /\ Put(f, n, b) /\ size' = [size EXCEPT ![f] = Max({@, pos[f] + n})]

\* No space is left: the file does not grow.
WriteFails(f, count, b) ==
  /\ f \in exists
  /\ \E n \in 0 .. count - 1 : n <= MaxSize - pos[f] /\ Put(f, n, b)
  /\ UNCHANGED size

Read(f, count) ==
  LET n == Min({count, size[f] - pos[f]})
  IN  /\ f \in exists /\ pos[f] <= size[f]
      /\ read' = [n |-> n, words |-> [j \in 1 .. n |-> words[f][pos[f] + j - 1]]]
      /\ pos' = [pos EXCEPT ![f] = @ + n]
      /\ UNCHANGED <<exists, words, size>>

\* A call that is refused.
Refuse == read' = NoRead /\ UNCHANGED <<exists, words, size, pos>>

Next ==
  \/ Refuse
  \/ \E f \in File :
       \/ Create(f) \/ Remove(f) \/ \E p \in 0 .. MaxSize : Seek(f, p)
       \/ \E count \in Counts :
            Read(f, count) \/ \E b \in Buf : Write(f, count, b) \/ WriteFails(f, count, b)

Spec == Init /\ [][Next]_vars
=============================================================================
