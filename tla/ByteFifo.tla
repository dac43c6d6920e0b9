------------------------------ MODULE ByteFifo ------------------------------
(***************************************************************************)
(* What an I/O queue promises: a bounded sequence of bytes.  The bytes of  *)
(* one put stay together, a get takes the oldest bytes.                    *)
(***************************************************************************)
EXTENDS Naturals, Sequences

CONSTANTS Thread,
          Capacity,
          Record(_, _)   \* Record(t, n): the n bytes that thread t writes

VARIABLES fifo,
          out     \* out[t]: the bytes that t's last get returned

Init == fifo = << >> /\ out = [t \in Thread |-> << >>]

Put(t, n) ==
  /\ Len(fifo) + n <= Capacity
  /\ fifo' = fifo \o Record(t, n)
  /\ UNCHANGED out

Get(t, n) ==
  /\ n <= Len(fifo)
  /\ out' = [out EXCEPT ![t] = SubSeq(fifo, 1, n)]
  /\ fifo' = SubSeq(fifo, n + 1, Len(fifo))

\* A caller is done with what it got.
Forget(t) == out' = [out EXCEPT ![t] = << >>] /\ UNCHANGED fifo

Next == \E t \in Thread : Forget(t) \/ \E n \in 1 .. Capacity : Put(t, n) \/ Get(t, n)

Spec == Init /\ [][Next]_<<fifo, out>>
=============================================================================
