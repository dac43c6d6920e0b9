---------------------------- MODULE IoQueueProofs ----------------------------
(***************************************************************************)
(* The I/O queue, for every set of processes, every size of the buffer and *)
(* every size of puts and gets: IoInv is an inductive invariant, so no     *)
(* assertion fails, no wake-up is lost and producers and consumers never   *)
(* sleep at the same time; and the ring buffer implements ByteFifo.        *)
(***************************************************************************)
EXTENDS IoQueue, LocksProofs, DataProofs, FiniteSetTheorems

-----------------------------------------------------------------------------
(* The waiting lists.                                                      *)

\* list_add_tail of a tag that is on no list to the list of a semaphore.
LEMMA AddTailLemma ==
  ASSUME NEW h, NEW cls, Sched(h, cls), NEW s \in Sem, NEW t \in Thread, cls[t] = t,
         h.status[t] # READY, NEW r, r = list_add_tail(h, t, s)
  PROVE  /\ Sched(r, [cls EXCEPT ![t] = s]) /\ r.status = h.status
         /\ r.cur = h.cur /\ Objects(r) = Objects(h)
<1> DEFINE nx == [h.nx EXCEPT ![h.pv[s]] = t, ![t] = s]
           pv == [h.pv EXCEPT ![t] = h.pv[s], ![s] = t]
           c == [cls EXCEPT ![t] = s]
<1>0. /\ h \in KernelState /\ h.nx \in Pointers /\ h.pv \in Pointers
      /\ cls \in Classes /\ t \in Node
      /\ s \in Node \ Thread /\ s # thread_ready_list
  BY KernelObjects DEF Sched, KernelState, Pointers
<1>1. r = Relinked(h, nx, pv) /\ nx \in Pointers /\ pv \in Pointers
  BY <1>0, AddTailFields DEF Pointers
<1> HIDE DEF nx, pv
<1>2. /\ r \in KernelState /\ r.nx = nx /\ r.pv = pv
      /\ r.status = h.status /\ r.ticks = h.ticks /\ r.cur = h.cur
      /\ r.value = h.value /\ r.holder = h.holder /\ r.repeat = h.repeat
      /\ r.panic = h.panic
  <2>1. h \in KernelState /\ nx \in Pointers /\ pv \in Pointers /\ r = Relinked(h, nx, pv)
    BY <1>0, <1>1
  <2> QED BY <2>1, RelinkedFields
<1>3. Linked(nx, pv, c)
  BY <1>0, InsertTail DEF Sched, nx, pv
<1>4. c \in Classes /\ \A u \in Thread : c[u] = IF u = t THEN s ELSE cls[u]
  BY <1>0 DEF Classes
<1> HIDE DEF nx, pv, c
<1>5. \A u \in Thread : r.status[u] = READY <=> c[u] = thread_ready_list
  BY <1>0, <1>2, <1>4 DEF Sched
<1>6. Sched(r, c)
  BY <1>2, <1>3, <1>4, <1>5 DEF Sched, Halted
<1> QED BY <1>2, <1>6 DEF Objects, c

\* g is h after the threads of W were moved from their list to the ready list.
Moved(cls, W) == [n \in Node |-> IF n \in W THEN thread_ready_list ELSE cls[n]]
Readied(st, W) == [t \in Thread |-> IF t \in W THEN READY ELSE st[t]]

WokenAll(h, cls, W, g) ==
  /\ Sched(g, Moved(cls, W)) /\ g.status = Readied(h.status, W)
  /\ g.cur = h.cur /\ Objects(g) = Objects(h)

\* One pass of the loop of ____wake_up wakes one more of the waiters.
LEMMA WakeNext ==
  ASSUME NEW h, NEW cls, Sched(h, cls), NEW list \in Sem,
         \A t \in Thread : cls[t] = list => h.status[t] \in Asleep,
         NEW W, W \subseteq {t \in Thread : cls[t] = list},
         NEW g, WokenAll(h, cls, W, g), ~NobodyWaits(g, list),
         NEW r, r = thread_unblock(list_pop(g, list), list_first(g, list))
  PROVE  \E t \in Thread \ W : cls[t] = list /\ WokenAll(h, cls, W \cup {t}, r)
<1> DEFINE m == Moved(cls, W)
<1>0. /\ cls \in Classes /\ list \in Node \ Thread /\ list # thread_ready_list
      /\ Thread \subseteq Node /\ h.status \in [Thread -> Status]
  BY KernelObjects DEF Sched, KernelState
<1>1. Sched(g, m) /\ \A n \in Node : m[n] = IF n \in W THEN thread_ready_list ELSE cls[n]
  BY DEF WokenAll, Moved
<1>2. \A t \in Thread : m[t] = list => t \notin W /\ cls[t] = list
  BY <1>0, <1>1
<1>3. g.status = Readied(h.status, W) /\ g.cur = h.cur /\ Objects(g) = Objects(h)
  BY DEF WokenAll
<1>4. \A t \in Thread : m[t] = list => g.status[t] \in Asleep
  BY <1>2, <1>3 DEF Readied
<1>5. g.nx[list] # list
  <2> SUFFICES ASSUME g.nx[list] = list PROVE FALSE
    OBVIOUS
  <2>1. g.pv[list] = list
    BY <1>0, <1>1 DEF Sched, Linked
  <2> QED BY <2>1 DEF NobodyWaits
<1> HIDE DEF m
<1>6. /\ r.cur = g.cur /\ Objects(r) = Objects(g)
      /\ \E t \in Thread : Woken(g, m, list, r, t)
  BY <1>1, <1>4, <1>5, WakeOne
<1>7. PICK t \in Thread : Woken(g, m, list, r, t)
  BY <1>6
<1>8. /\ m[t] = list /\ Sched(r, [m EXCEPT ![t] = thread_ready_list])
      /\ r.status = [g.status EXCEPT ![t] = READY]
  BY <1>7 DEF Woken
<1>9. t \in Thread \ W /\ cls[t] = list
  BY <1>2, <1>8
<1>10. [m EXCEPT ![t] = thread_ready_list] = Moved(cls, W \cup {t})
  BY <1>0, <1>9 DEF Moved, m
<1>11. [g.status EXCEPT ![t] = READY] = Readied(h.status, W \cup {t})
  BY <1>3, <1>9 DEF Readied
<1>12. WokenAll(h, cls, W \cup {t}, r)
  BY <1>3, <1>6, <1>8, <1>10, <1>11 DEF WokenAll
<1> QED BY <1>9, <1>12

\* f gives the state after every pass, as the recursion of ____wake_up.
IsWakeUp(f, h, list, n) == f = [i \in 0 .. n |-> IF i = 0 THEN h ELSE wake_waiter(f[i - 1], list)]

\* There is such a function.
LEMMA WakeUpExists ==
  ASSUME NEW h, NEW list, NEW n \in Nat
  PROVE  \E f : IsWakeUp(f, h, list, n)
<1> DEFINE Is(f, m) == f = [i \in 0 .. m |-> IF i = 0 THEN h ELSE wake_waiter(f[i - 1], list)]
           T == {m \in Nat : ~\E f : Is(f, m)}
<1> SUFFICES ASSUME T # {} PROVE FALSE
  BY DEF IsWakeUp
<1>1. PICK m \in T : \A l \in T : m <= l
  BY LeastElement
<1>2. CASE m = 0
  <2>1. Is([i \in 0 .. 0 |-> h], 0)
    OBVIOUS
  <2> QED BY <1>1, <1>2, <2>1
<1>3. CASE m # 0
  <2>0. m \in Nat
    OBVIOUS
  <2>1. m - 1 \in Nat /\ m - 1 \notin T
    <3> HIDE DEF T
    <3> QED BY <1>1, <1>3, <2>0
  <2>2. PICK f : Is(f, m - 1)
    BY <2>1
  <2> DEFINE g == [i \in 0 .. m |-> IF i = m THEN wake_waiter(f[m - 1], list) ELSE f[i]]
  <2>3. \A i \in 0 .. m - 1 : f[i] = IF i = 0 THEN h ELSE wake_waiter(f[i - 1], list)
    BY <2>2
  <2>4. \A i \in 0 .. m : g[i] = IF i = 0 THEN h ELSE wake_waiter(g[i - 1], list)
    BY <1>3, <2>1, <2>3
  <2>5. g = [i \in 0 .. m |-> g[i]]
    OBVIOUS
  <2> HIDE DEF g
  <2>6. Is(g, m)
    BY <2>4, <2>5
  <2> QED BY <1>1, <2>6
<1> QED BY <1>2, <1>3

\* g is a state in which i waiters of the list, or all of them, are woken.
AfterPasses(h, cls, list, i, g) ==
  \E W \in SUBSET {t \in Thread : cls[t] = list} :
    /\ WokenAll(h, cls, W, g)
    /\ W = {t \in Thread : cls[t] = list} \/ Cardinality(W) = i

\* One more pass of the loop.
LEMMA OnePass ==
  ASSUME NEW h, NEW cls, Sched(h, cls), NEW list \in Sem,
         \A t \in Thread : cls[t] = list => h.status[t] \in Asleep,
         NEW i \in Nat, NEW g, AfterPasses(h, cls, list, i, g)
  PROVE  AfterPasses(h, cls, list, i + 1, wake_waiter(g, list))
<1> DEFINE All == {t \in Thread : cls[t] = list}
           r == wake_waiter(g, list)
<1>1. PICK W \in SUBSET All : WokenAll(h, cls, W, g) /\ (W = All \/ Cardinality(W) = i)
  BY DEF AfterPasses
<1>2. ~Halted(g) /\ Sched(g, Moved(cls, W))
  BY <1>1 DEF WokenAll, Sched
<1>3. cls \in Classes /\ list \in Node \ Thread /\ list # thread_ready_list /\ Thread \subseteq Node
  BY KernelObjects DEF Sched
<1>4. CASE NobodyWaits(g, list)
  <2>1. r = g
    BY <1>4 DEF wake_waiter
  <2>2. g.nx[list] = list
    BY <1>4 DEF NobodyWaits
  <2> DEFINE m == Moved(cls, W)
  <2>3. Sched(g, m)
    BY <1>2
  <2>4. \A t \in Thread : m[t] = IF t \in W THEN thread_ready_list ELSE cls[t]
    BY <1>3 DEF Moved
  <2> HIDE DEF m
  <2>5. \A t \in Thread : m[t] # list
    BY <1>3, <2>2, <2>3, EmptyList DEF Sched, KernelState, Pointers
  <2>6. W = All
    BY <1>1, <2>4, <2>5
  <2> QED BY <1>1, <2>1, <2>6 DEF AfterPasses
<1>5. CASE ~NobodyWaits(g, list)
  <2>1. r = thread_unblock(list_pop(g, list), list_first(g, list))
    BY <1>2, <1>5 DEF wake_waiter
  <2> HIDE DEF r
  <2>2. PICK t \in Thread \ W : cls[t] = list /\ WokenAll(h, cls, W \cup {t}, r)
    BY <1>1, <1>5, <2>1, WakeNext
  <2>3. W \cup {t} \in SUBSET All /\ W # All
    BY <2>2
  <2>4. IsFiniteSet(W)
    BY QueueObjects, FS_Subset
  <2>5. Cardinality(W \cup {t}) = i + 1
    BY <1>1, <2>2, <2>3, <2>4, FS_AddElement
  <2> QED BY <2>2, <2>3, <2>5 DEF AfterPasses, r
<1> QED BY <1>4, <1>5

\* wake_up_consumors and wake_up_producers ready every thread on the list: as
\* many passes as there are threads empty it.
LEMMA WakeUpLemma ==
  ASSUME NEW h, NEW cls, Sched(h, cls), NEW list \in Sem,
         \A t \in Thread : cls[t] = list => h.status[t] \in Asleep,
         NEW r, r = ____wake_up(h, list)
  PROVE  WokenAll(h, cls, {t \in Thread : cls[t] = list}, r)
<1> DEFINE All == {t \in Thread : cls[t] = list}
           N == Cardinality(Thread)
           w == CHOOSE f : f = [i \in 0 .. N |-> IF i = 0 THEN h ELSE wake_waiter(f[i - 1], list)]
<1>0. /\ N \in Nat /\ cls \in Classes /\ h.status \in [Thread -> Status] /\ h \in KernelState
      /\ list \in Node \ Thread
  BY QueueObjects, FS_CardinalityType, KernelObjects DEF Sched, KernelState
<1>1. r = IF list_is_empty(h, list) THEN h ELSE w[N]
  BY DEF ____wake_up
<1>2. WokenAll(h, cls, {}, h)
  <2>1. Moved(cls, {}) = cls /\ Readied(h.status, {}) = h.status
    BY <1>0 DEF Moved, Readied, Classes
  <2> QED BY <2>1 DEF WokenAll
<1>3. CASE list_is_empty(h, list)
  <2>1. All = {}
    BY <1>0, <1>3, EmptyList DEF Sched, KernelState, Pointers, list_is_empty
  <2> QED BY <1>1, <1>2, <1>3, <2>1
<1>4. CASE ~list_is_empty(h, list)
  <2>0. r = w[N]
    BY <1>1, <1>4
  <2>1. w = [i \in 0 .. N |-> IF i = 0 THEN h ELSE wake_waiter(w[i - 1], list)]
    <3> HIDE DEF N
    <3>1. N \in Nat
      BY <1>0
    <3>2. \E f : IsWakeUp(f, h, list, N)
      BY <3>1, WakeUpExists
    <3> QED BY <3>2 DEF IsWakeUp
  <2> HIDE DEF w, N
  <2>2. w[0] = h /\ \A i \in 1 .. N : w[i] = wake_waiter(w[i - 1], list)
    BY <1>0, <2>1
  <2> DEFINE Good(i) == AfterPasses(h, cls, list, i, w[i])
             T == {i \in 0 .. N : ~Good(i)}
  <2>3. T = {}
    <3> SUFFICES ASSUME T # {} PROVE FALSE
      OBVIOUS
    <3>0. T \in SUBSET Nat
      BY <1>0
    <3>1. PICK m \in T : \A l \in T : m <= l
      BY <3>0, LeastElement
    <3>2. m # 0
      <4>1. Good(0)
        BY <1>2, <2>2, FS_EmptySet DEF AfterPasses
      <4> QED BY <3>1, <4>1
    <3>3. m \in 1 .. N /\ m - 1 \in Nat /\ m - 1 \notin T /\ m - 1 \in 0 .. N
      BY <1>0, <3>1, <3>2
    <3>4. Good(m - 1) /\ w[m] = wake_waiter(w[m - 1], list) /\ (m - 1) + 1 = m
      BY <1>0, <2>2, <3>3
    <3> HIDE DEF T
    <3>5. AfterPasses(h, cls, list, (m - 1) + 1, wake_waiter(w[m - 1], list))
      BY <3>3, <3>4, OnePass
    <3>6. Good(m)
      BY <3>4, <3>5
    <3> QED BY <3>1, <3>6 DEF T
  <2>4. AfterPasses(h, cls, list, N, r)
    BY <1>0, <2>0, <2>3
  <2>5. PICK W \in SUBSET All : WokenAll(h, cls, W, r) /\ (W = All \/ Cardinality(W) = N)
    BY <2>4 DEF AfterPasses
  <2>6. W = All
    <3> SUFFICES ASSUME Cardinality(W) = N PROVE W = All
      BY <2>5
    <3>1. IsFiniteSet(Thread) /\ W \in SUBSET Thread
      BY QueueObjects
    <3>2. W = Thread
      BY <3>1, FS_Subset DEF N
    <3> QED BY <3>2
  <2> QED BY <2>5, <2>6
<1> QED BY <1>3, <1>4

-----------------------------------------------------------------------------
(* The ring buffer.                                                        *)

ContentOf(r) == Fetched(r, ioqueue_unread(r))

\* The slot of the i-th unread byte.
Slot(r, i) ==
  IF r.consumor_p + i - 1 < size THEN r.consumor_p + i - 1 ELSE r.consumor_p + i - 1 - size

\* A buffer that fits in the pages of its queue has all its slots there.
LEMMA AllSlots == Slots = 0 .. size - 1
<1> DEFINE room == pg_count * PG_SIZE
<1>1. size \in Nat \ {0} /\ HEADER \in Nat /\ HEADER + size <= room
  BY QueueObjects, BufferFits
<1>2. room \in Int
  <2>1. PG_SIZE + HEADER \in Nat \ {0} /\ size + (PG_SIZE + HEADER) - 1 \in Int /\ PG_SIZE \in Int
    BY QueueObjects, BufferFits
  <2>2. (size + (PG_SIZE + HEADER) - 1) \div (PG_SIZE + HEADER) \in Int
    BY <2>1
  <2>3. pg_count \in Int
    BY <2>2 DEF pg_count
  <2> QED BY <2>1, <2>3
<1>3. Slots = {i \in 0 .. size - 1 : HEADER + i < room}
  BY DEF Slots
<1> HIDE DEF room
<1> QED BY <1>1, <1>2, <1>3

\* The fields of a queue.
LEMMA QueueFields ==
  ASSUME NEW r, IsQueue(r)
  PROVE  /\ r = [buf |-> r.buf, producer_p |-> r.producer_p, consumor_p |-> r.consumor_p]
         /\ r.buf \in [0 .. size - 1 -> Byte \cup {NULL}]
         /\ r.producer_p \in 0 .. size - 1 /\ r.consumor_p \in 0 .. size - 1
         /\ size \in Nat \ {0, 1}
BY QueueObjects, AllSlots DEF IsQueue

\* The number of unread bytes, and of those there is room for.
LEMMA UnreadIs ==
  ASSUME NEW r, IsQueue(r)
  PROVE  /\ ioqueue_unread(r) \in 0 .. size - 1
         /\ ioqueue_unread(r) = IF r.producer_p >= r.consumor_p THEN r.producer_p - r.consumor_p
                                ELSE r.producer_p - r.consumor_p + size
         /\ ioqueue_avaliable(r) = size - 1 - ioqueue_unread(r)
BY QueueFields DEF ioqueue_unread, ioqueue_avaliable

\* Reading n bytes reads them from these slots, and none is the free one.
LEMMA FetchedIs ==
  ASSUME NEW r, IsQueue(r), NEW n \in 0 .. ioqueue_unread(r)
  PROVE  /\ Fetched(r, n) = [i \in 1 .. n |-> r.buf[Slot(r, i)]]
         /\ \A i \in 1 .. n : Slot(r, i) \in 0 .. size - 1 /\ Slot(r, i) # r.producer_p
<1> DEFINE c == r.consumor_p
           U == ioqueue_unread(r)
<1>1. /\ r.producer_p \in 0 .. size - 1 /\ c \in 0 .. size - 1 /\ size \in Nat \ {0}
      /\ U \in 0 .. size - 1 /\ n \in Nat /\ n <= U
      /\ U = IF r.producer_p >= c THEN r.producer_p - c ELSE r.producer_p - c + size
  BY QueueFields, UnreadIs
<1> HIDE DEF U
<1>2. ASSUME NEW i \in 1 .. n
      PROVE  /\ (r.consumor_p + i - 1) % size = Slot(r, i)
             /\ Slot(r, i) \in 0 .. size - 1 /\ Slot(r, i) # r.producer_p
  <2> DEFINE j == i - 1
  <2>1. j \in 0 .. size /\ r.consumor_p + i - 1 = c + j
    BY <1>1
  <2>2. Slot(r, i) = IF c + j < size THEN c + j ELSE c + j - size
    BY <2>1 DEF Slot
  <2>3. Slot(r, i) \in 0 .. size - 1 /\ Slot(r, i) # r.producer_p
    BY <1>1, <2>2
  <2> HIDE DEF j, c
  <2>4. (c + j) % size = IF c + j < size THEN c + j ELSE c + j - size
    BY <1>1, <2>1, RingIndex
  <2> QED BY <2>1, <2>2, <2>3, <2>4
<1>3. \A i \in 1 .. n : r.buf[(r.consumor_p + i - 1) % size] = r.buf[Slot(r, i)]
  BY <1>2
<1>4. Fetched(r, n) = [i \in 1 .. n |-> r.buf[(r.consumor_p + i - 1) % size]]
  BY Zenon DEF Fetched
<1>5. Fetched(r, n) = [i \in 1 .. n |-> r.buf[Slot(r, i)]]
  BY <1>3, <1>4, Zenon
<1> QED BY <1>2, <1>5

\* They are a sequence.
LEMMA FetchedSeq ==
  ASSUME NEW r, IsQueue(r), NEW n \in 0 .. ioqueue_unread(r)
  PROVE  /\ Fetched(r, n) \in Seq(Byte \cup {NULL}) /\ Len(Fetched(r, n)) = n
         /\ \A i \in 1 .. n : Fetched(r, n)[i] = r.buf[Slot(r, i)]
<1> DEFINE f == Fetched(r, n)
           X == Byte \cup {NULL}
<1>0. n \in Nat
  BY UnreadIs, QueueFields
<1>1. /\ f = [i \in 1 .. n |-> r.buf[Slot(r, i)]]
      /\ \A i \in 1 .. n : Slot(r, i) \in 0 .. size - 1
  BY FetchedIs
<1>2. r.buf \in [0 .. size - 1 -> X]
  BY QueueFields
<1> HIDE DEF f, X
<1>3. f \in [1 .. n -> X] /\ \A i \in 1 .. n : f[i] = r.buf[Slot(r, i)]
  BY <1>1, <1>2
<1>4. f \in Seq(X) /\ Len(f) = n
  BY <1>0, <1>3
<1> QED BY <1>3, <1>4 DEF f, X

\* n is r with one more byte at the end.
OneByteMore(n, r, byte) ==
  /\ IsQueue(n) /\ ioqueue_unread(n) = ioqueue_unread(r) + 1
  /\ \A i \in 1 .. ioqueue_unread(r) : ContentOf(n)[i] = ContentOf(r)[i]
  /\ ContentOf(n)[ioqueue_unread(r) + 1] = byte

\* Storing a byte for which there is room.
LEMMA PutByte ==
  ASSUME NEW r, IsQueue(r), NEW byte \in Byte, ioqueue_avaliable(r) > 0,
         NEW n, n = ioqueue_put_byte(r, byte)
  PROVE  OneByteMore(n, r, byte)
<1> DEFINE p == IF r.producer_p + 1 < size THEN r.producer_p + 1 ELSE 0
           b == [r.buf EXCEPT ![r.producer_p] = byte]
           U == ioqueue_unread(r)
<1>0. /\ r = [buf |-> r.buf, producer_p |-> r.producer_p, consumor_p |-> r.consumor_p]
      /\ r.buf \in [0 .. size - 1 -> Byte \cup {NULL}]
      /\ r.producer_p \in 0 .. size - 1 /\ r.consumor_p \in 0 .. size - 1
      /\ size \in Nat \ {0, 1}
  BY QueueFields
<1>1. /\ U \in 0 .. size - 1
      /\ U = IF r.producer_p >= r.consumor_p THEN r.producer_p - r.consumor_p
             ELSE r.producer_p - r.consumor_p + size
      /\ U < size - 1
  BY <1>0, UnreadIs
<1>2. next_index(r.producer_p) = p
  <2>1. (r.producer_p + 1) % size
          = IF r.producer_p + 1 < size THEN r.producer_p + 1 ELSE r.producer_p + 1 - size
    <3>1. 1 \in 0 .. size /\ size \in Nat \ {0} /\ r.producer_p \in 0 .. size - 1
      BY <1>0
    <3> QED BY <3>1, RingIndex
  <2> QED BY <1>0, <2>1 DEF next_index
<1>3. n = [buf |-> b, producer_p |-> p, consumor_p |-> r.consumor_p]
  <2>1. n = [r EXCEPT !.buf[r.producer_p] = byte, !.producer_p = next_index(@)]
    BY DEF ioqueue_put_byte
  <2> QED BY <1>0, <1>2, <2>1
<1>4. /\ b \in [0 .. size - 1 -> Byte \cup {NULL}] /\ p \in 0 .. size - 1
      /\ b[r.producer_p] = byte /\ \A j \in 0 .. size - 1 : j # r.producer_p => b[j] = r.buf[j]
  BY <1>0
<1> HIDE DEF b
<1>5. IsQueue(n) /\ n.buf = b /\ n.producer_p = p /\ n.consumor_p = r.consumor_p
  BY <1>0, <1>3, <1>4, AllSlots DEF IsQueue
<1>6. ioqueue_unread(n) = U + 1
  <2>1. ioqueue_unread(n) = IF n.producer_p >= n.consumor_p THEN n.producer_p - n.consumor_p
                            ELSE n.producer_p - n.consumor_p + size
    BY <1>5, UnreadIs
  <2> HIDE DEF U
  <2> QED BY <1>0, <1>1, <1>5, <2>1
<1>7. \A i : Slot(n, i) = Slot(r, i)
  BY <1>5 DEF Slot
<1>8. \A i \in 1 .. U + 1 : ContentOf(n)[i] = n.buf[Slot(n, i)]
  <2>1. U + 1 \in 0 .. ioqueue_unread(n)
    BY <1>1, <1>6
  <2> QED BY <1>5, <1>6, <2>1, FetchedSeq DEF ContentOf
<1>9. /\ \A i \in 1 .. U : ContentOf(r)[i] = r.buf[Slot(r, i)]
      /\ \A i \in 1 .. U : Slot(r, i) \in 0 .. size - 1 /\ Slot(r, i) # r.producer_p
  <2>1. U \in 0 .. ioqueue_unread(r)
    BY <1>1
  <2> QED BY <2>1, FetchedIs, FetchedSeq DEF ContentOf
<1>10. Slot(r, U + 1) = r.producer_p
  BY <1>0, <1>1 DEF Slot
<1> HIDE DEF U
<1>11. 1 .. U \subseteq 1 .. U + 1 /\ U + 1 \in 1 .. U + 1
  BY <1>1
<1>12. \A i \in 1 .. U : ContentOf(n)[i] = ContentOf(r)[i]
  BY <1>4, <1>5, <1>7, <1>8, <1>9, <1>11
<1>13. ContentOf(n)[U + 1] = byte
  BY <1>4, <1>5, <1>7, <1>8, <1>10, <1>11
<1> QED BY <1>5, <1>6, <1>12, <1>13 DEF OneByteMore, U

\* f gives the queue after every byte of the record, as the recursion of Store.
IsStore(f, r, record, n) ==
  f = [i \in 0 .. n |-> IF i = 0 THEN r ELSE ioqueue_put_byte(f[i - 1], record[i])]

\* There is such a function.
LEMMA StoreExists ==
  ASSUME NEW r, NEW record, NEW n \in Nat
  PROVE  \E f : IsStore(f, r, record, n)
<1> DEFINE Is(f, m) ==
             f = [i \in 0 .. m |-> IF i = 0 THEN r ELSE ioqueue_put_byte(f[i - 1], record[i])]
           T == {m \in Nat : ~\E f : Is(f, m)}
<1> SUFFICES ASSUME T # {} PROVE FALSE
  BY DEF IsStore
<1>1. PICK m \in T : \A l \in T : m <= l
  BY LeastElement
<1>2. CASE m = 0
  <2>1. Is([i \in 0 .. 0 |-> r], 0)
    OBVIOUS
  <2> QED BY <1>1, <1>2, <2>1
<1>3. CASE m # 0
  <2>0. m \in Nat
    OBVIOUS
  <2>1. m - 1 \in Nat /\ m - 1 \notin T
    <3> HIDE DEF T
    <3> QED BY <1>1, <1>3, <2>0
  <2>2. PICK f : Is(f, m - 1)
    BY <2>1
  <2> DEFINE g == [i \in 0 .. m |-> IF i = m THEN ioqueue_put_byte(f[m - 1], record[m]) ELSE f[i]]
  <2>3. \A i \in 0 .. m - 1 : f[i] = IF i = 0 THEN r ELSE ioqueue_put_byte(f[i - 1], record[i])
    BY <2>2
  <2>4. \A i \in 0 .. m : g[i] = IF i = 0 THEN r ELSE ioqueue_put_byte(g[i - 1], record[i])
    BY <1>3, <2>1, <2>3
  <2>5. g = [i \in 0 .. m |-> g[i]]
    OBVIOUS
  <2> HIDE DEF g
  <2>6. Is(g, m)
    BY <2>4, <2>5
  <2> QED BY <1>1, <2>6
<1> QED BY <1>2, <1>3

\* n is r with the first i bytes of the record at the end.
BytesMore(n, r, record, i) ==
  /\ IsQueue(n) /\ ioqueue_unread(n) = ioqueue_unread(r) + i
  /\ \A j \in 1 .. ioqueue_unread(r) : ContentOf(n)[j] = ContentOf(r)[j]
  /\ \A j \in 1 .. i : ContentOf(n)[ioqueue_unread(r) + j] = record[j]

\* One more byte.
LEMMA NextByte ==
  ASSUME NEW r, IsQueue(r), NEW record, NEW i \in Nat, record[i + 1] \in Byte,
         ioqueue_unread(r) + i < size - 1,
         NEW a, BytesMore(a, r, record, i), NEW n, n = ioqueue_put_byte(a, record[i + 1])
  PROVE  BytesMore(n, r, record, i + 1)
<1> DEFINE U == ioqueue_unread(r)
           byte == record[i + 1]
<1>1. /\ IsQueue(a) /\ ioqueue_unread(a) = U + i
      /\ \A j \in 1 .. U : ContentOf(a)[j] = ContentOf(r)[j]
      /\ \A j \in 1 .. i : ContentOf(a)[U + j] = record[j]
  BY DEF BytesMore
<1>2. U \in Nat /\ size \in Nat /\ U + i < size - 1
  BY UnreadIs, QueueFields
<1>3. ioqueue_avaliable(a) = size - 1 - ioqueue_unread(a)
  BY <1>1, UnreadIs
<1> HIDE DEF U, byte
<1>4. ioqueue_avaliable(a) > 0
  BY <1>1, <1>2, <1>3
<1>5. OneByteMore(n, a, byte)
  BY <1>1, <1>4, PutByte DEF byte
<1>6. /\ IsQueue(n) /\ ioqueue_unread(n) = U + i + 1
      /\ \A j \in 1 .. U + i : ContentOf(n)[j] = ContentOf(a)[j]
      /\ ContentOf(n)[U + i + 1] = byte
  BY <1>1, <1>5 DEF OneByteMore
<1>7. /\ 1 .. U \subseteq 1 .. U + i /\ \A j \in 1 .. i : U + j \in 1 .. U + i
      /\ \A j \in 1 .. i + 1 : j = i + 1 \/ j \in 1 .. i
      /\ U + i + 1 = U + (i + 1)
  BY <1>2
<1>8. \A j \in 1 .. U : ContentOf(n)[j] = ContentOf(r)[j]
  BY <1>1, <1>6, <1>7
<1>9. ASSUME NEW j \in 1 .. i + 1 PROVE ContentOf(n)[U + j] = record[j]
  <2>1. CASE j = i + 1
    BY <1>6, <1>7, <2>1 DEF byte
  <2>2. CASE j \in 1 .. i
    BY <1>1, <1>6, <1>7, <2>2
  <2> QED BY <1>7, <2>1, <2>2
<1> QED BY <1>6, <1>7, <1>8, <1>9 DEF BytesMore, U

\* ioqueue_put_data with room for the record appends it.
LEMMA StoreLemma ==
  ASSUME NEW r, IsQueue(r), NEW record \in Seq(Byte), Len(record) <= ioqueue_avaliable(r),
         NEW n, n = Store(r, record)
  PROVE  /\ IsQueue(n) /\ ioqueue_unread(n) = ioqueue_unread(r) + Len(record)
         /\ ContentOf(n) = ContentOf(r) \o record
<1> DEFINE N == Len(record)
           U == ioqueue_unread(r)
           w == CHOOSE f : f = [i \in 0 .. N |-> IF i = 0 THEN r
                                                 ELSE ioqueue_put_byte(f[i - 1], record[i])]
<1>0. N \in Nat /\ \A i \in 1 .. N : record[i] \in Byte
  OBVIOUS
<1>1. U \in Nat /\ size \in Nat /\ U + N <= size - 1
  BY <1>0, UnreadIs, QueueFields
<1>2. n = w[N]
  BY DEF Store
<1>3. w = [i \in 0 .. N |-> IF i = 0 THEN r ELSE ioqueue_put_byte(w[i - 1], record[i])]
  <2> HIDE DEF N
  <2>1. N \in Nat
    BY <1>0
  <2>2. \E f : IsStore(f, r, record, N)
    BY <2>1, StoreExists
  <2> QED BY <2>2 DEF IsStore
<1> HIDE DEF w, N
<1>4. w[0] = r /\ \A i \in 1 .. N : w[i] = ioqueue_put_byte(w[i - 1], record[i])
  BY <1>0, <1>3
<1> DEFINE Good(i) == BytesMore(w[i], r, record, i)
           T == {i \in 0 .. N : ~Good(i)}
<1>5. T = {}
  <2> SUFFICES ASSUME T # {} PROVE FALSE
    OBVIOUS
  <2>0. T \in SUBSET Nat
    BY <1>0
  <2>1. PICK m \in T : \A l \in T : m <= l
    BY <2>0, LeastElement
  <2>2. m # 0
    <3>1. Good(0)
      <4>1. U + 0 = U /\ 1 .. 0 = {}
        BY <1>1
      <4> QED BY <1>4, <4>1 DEF BytesMore
    <3> QED BY <2>1, <3>1
  <2>3. m \in 1 .. N /\ m - 1 \in Nat /\ m - 1 \in 0 .. N /\ m - 1 \notin T
    BY <1>0, <2>1, <2>2
  <2> DEFINE i == m - 1
  <2>4. /\ Good(i) /\ i \in Nat /\ m = i + 1 /\ w[m] = ioqueue_put_byte(w[i], record[m])
        /\ record[m] \in Byte /\ U + i < size - 1
    BY <1>0, <1>1, <1>4, <2>3
  <2> HIDE DEF T, i
  <2>5. BytesMore(w[m], r, record, i + 1)
    BY <2>4, NextByte
  <2>6. Good(m)
    BY <2>4, <2>5
  <2> QED BY <2>1, <2>6 DEF T
<1>6. BytesMore(n, r, record, N)
  BY <1>0, <1>2, <1>5
<1>7. /\ IsQueue(n) /\ ioqueue_unread(n) = U + N
      /\ \A j \in 1 .. U : ContentOf(n)[j] = ContentOf(r)[j]
      /\ \A j \in 1 .. N : ContentOf(n)[U + j] = record[j]
  BY <1>6 DEF BytesMore
<1> DEFINE X == Byte \cup {NULL}
           a == ContentOf(r)
           b == ContentOf(n)
           e == a \o record
<1> HIDE DEF X, a, b, e, U
<1>8. a \in Seq(X) /\ Len(a) = U
  <2>1. U \in 0 .. ioqueue_unread(r)
    BY <1>1 DEF U
  <2> QED BY <2>1, FetchedSeq DEF a, X, U, ContentOf
<1>9. b \in Seq(X) /\ Len(b) = U + N
  <2>1. U + N \in 0 .. ioqueue_unread(n)
    BY <1>0, <1>1, <1>7
  <2> QED BY <1>7, <2>1, FetchedSeq DEF b, X, ContentOf
<1>10. record \in Seq(X)
  BY DEF X
<1>11. /\ e \in Seq(X) /\ Len(e) = U + N
       /\ \A i \in 1 .. U + N : e[i] = IF i <= U THEN a[i] ELSE record[i - U]
  BY <1>8, <1>10, ConcatFields DEF e, N
<1>12. ASSUME NEW i \in 1 .. U + N PROVE b[i] = e[i]
  <2>1. CASE i <= U
    <3>1. i \in 1 .. U
      BY <1>0, <1>1, <2>1
    <3> QED BY <1>7, <1>11, <2>1, <3>1 DEF a, b
  <2>2. CASE ~(i <= U)
    <3> DEFINE j == i - U
    <3>1. j \in 1 .. N /\ i = U + j
      BY <1>0, <1>1, <2>2
    <3>2. e[i] = record[j]
      BY <1>11, <2>2
    <3> HIDE DEF j
    <3> QED BY <1>7, <3>1, <3>2 DEF b
  <2> QED BY <2>1, <2>2
<1>13. b = e
  BY <1>9, <1>11, <1>12
<1> QED BY <1>7, <1>13 DEF a, b, e, U, N

\* ioqueue_get_data takes the n oldest bytes.
LEMMA UnloadLemma ==
  ASSUME NEW r, IsQueue(r), NEW n \in 0 .. ioqueue_unread(r), NEW u, u = Unload(r, n)
  PROVE  /\ IsQueue(u) /\ ioqueue_unread(u) = ioqueue_unread(r) - n
         /\ Fetched(r, n) = SubSeq(ContentOf(r), 1, n)
         /\ ContentOf(u) = SubSeq(ContentOf(r), n + 1, Len(ContentOf(r)))
<1> DEFINE c == r.consumor_p
           U == ioqueue_unread(r)
           at == IF c + n < size THEN c + n ELSE c + n - size
           Gone(i) == \E j \in 0 .. n - 1 : i = (c + j) % size
           b == [i \in 0 .. size - 1 |-> IF Gone(i) THEN NULL ELSE r.buf[i]]
           X == Byte \cup {NULL}
<1>0. /\ r = [buf |-> r.buf, producer_p |-> r.producer_p, consumor_p |-> c]
      /\ r.buf \in [0 .. size - 1 -> X]
      /\ r.producer_p \in 0 .. size - 1 /\ c \in 0 .. size - 1
      /\ size \in Nat \ {0, 1} /\ size \in Nat \ {0}
  BY QueueFields
<1>1. /\ U \in 0 .. size - 1 /\ n \in Nat /\ n <= U /\ n \in 0 .. size
      /\ U = IF r.producer_p >= c THEN r.producer_p - c ELSE r.producer_p - c + size
  BY <1>0, UnreadIs
<1>2. (c + n) % size = at
  <2> HIDE DEF c, U
  <2> QED BY <1>0, <1>1, RingIndex
<1>3. u = [buf |-> b, producer_p |-> r.producer_p, consumor_p |-> at]
  <2>1. DOMAIN r.buf = 0 .. size - 1
    BY <1>0
  <2>2. u = [r EXCEPT !.consumor_p = (c + n) % size,
                      !.buf = [i \in DOMAIN r.buf |-> IF Gone(i) THEN NULL ELSE r.buf[i]]]
    BY DEF Unload
  <2>3. u = [r EXCEPT !.consumor_p = at, !.buf = b]
    BY <1>2, <2>1, <2>2
  <2> HIDE DEF b, at, c
  <2> QED BY <1>0, <2>3
<1>4. b \in [0 .. size - 1 -> X] /\ \A i \in 0 .. size - 1 : ~Gone(i) => b[i] = r.buf[i]
  <2> HIDE DEF Gone
  <2> QED BY <1>0
<1>5. at \in 0 .. size - 1
  BY <1>0, <1>1
<1> HIDE DEF b, Gone
<1>6. IsQueue(u) /\ u.buf = b /\ u.producer_p = r.producer_p /\ u.consumor_p = at
  BY <1>0, <1>3, <1>4, <1>5, AllSlots DEF IsQueue
<1>7. ioqueue_unread(u) = U - n
  <2>1. ioqueue_unread(u) = IF u.producer_p >= u.consumor_p THEN u.producer_p - u.consumor_p
                            ELSE u.producer_p - u.consumor_p + size
    BY <1>6, UnreadIs
  <2> HIDE DEF U
  <2> QED BY <1>0, <1>1, <1>6, <2>1
<1> HIDE DEF U
<1>8. \A j \in 0 .. n - 1 : (c + j) % size = Slot(r, j + 1)
  <2> SUFFICES ASSUME NEW j \in 0 .. n - 1 PROVE (c + j) % size = Slot(r, j + 1)
    OBVIOUS
  <2>1. j \in 0 .. size
    BY <1>0, <1>1
  <2>2. Slot(r, j + 1) = IF c + j < size THEN c + j ELSE c + j - size
    BY <1>0, <1>1 DEF Slot
  <2> HIDE DEF c
  <2> QED BY <1>0, <2>1, <2>2, RingIndex
<1>9. ASSUME NEW i \in 1 .. U - n
      PROVE  /\ i + n \in 1 .. U /\ Slot(u, i) = Slot(r, i + n) /\ Slot(r, i + n) \in 0 .. size - 1
             /\ ~Gone(Slot(r, i + n))
  <2> DEFINE x == i + n
             S == size
  <2>0. /\ i \in Nat /\ n \in Nat /\ U \in Nat /\ c \in Nat /\ S \in Nat
        /\ i >= 1 /\ i + n <= U /\ U <= S - 1 /\ c <= S - 1
    <3>1. U \in Nat /\ n \in Nat /\ U <= S - 1 /\ c \in Nat /\ c <= S - 1 /\ S \in Nat
      BY <1>0, <1>1
    <3> HIDE DEF c, S
    <3> QED BY <3>1
  <2>1. Slot(r, x) = IF c + x - 1 < S THEN c + x - 1 ELSE c + x - 1 - S
    BY DEF Slot
  <2>2. Slot(u, i) = IF at + i - 1 < S THEN at + i - 1 ELSE at + i - 1 - S
    BY <1>6 DEF Slot
  <2>3. \A j \in 0 .. n - 1 : Slot(r, j + 1) = IF c + (j + 1) - 1 < S THEN c + (j + 1) - 1
                                             ELSE c + (j + 1) - 1 - S
    BY DEF Slot
  <2>4. at = IF c + n < S THEN c + n ELSE c + n - S
    OBVIOUS
  <2> HIDE DEF c, S, at
  <2>5. x \in 1 .. U /\ Slot(r, x) \in 0 .. S - 1
    BY <2>0, <2>1
  <2>6. Slot(u, i) = Slot(r, x)
    BY <2>0, <2>1, <2>2, <2>4
  <2>7. \A j \in 0 .. n - 1 : Slot(r, x) # Slot(r, j + 1)
    BY <2>0, <2>1, <2>3
  <2>8. ~Gone(Slot(r, x))
    BY <1>8, <2>7 DEF Gone
  <2> QED BY <2>5, <2>6, <2>8 DEF S
<1> DEFINE a == ContentOf(r)
           f == Fetched(r, n)
           v == ContentOf(u)
<1>10. a \in Seq(X) /\ Len(a) = U /\ \A i \in 1 .. U : a[i] = r.buf[Slot(r, i)]
  <2>1. U \in 0 .. ioqueue_unread(r)
    BY <1>1 DEF U
  <2> QED BY <2>1, FetchedSeq DEF U, ContentOf
<1>11. f \in Seq(X) /\ Len(f) = n /\ \A i \in 1 .. n : f[i] = r.buf[Slot(r, i)]
  BY FetchedSeq
<1>12. v \in Seq(X) /\ Len(v) = U - n /\ \A i \in 1 .. U - n : v[i] = u.buf[Slot(u, i)]
  <2>1. U - n \in 0 .. ioqueue_unread(u)
    BY <1>1, <1>7
  <2> QED BY <1>6, <1>7, <2>1, FetchedSeq DEF ContentOf
<1> HIDE DEF a, f, v, X
<1>13. f = SubSeq(a, 1, n)
  <2>1. \A i \in 1 .. n : i \in 1 .. U
    BY <1>1
  <2>2. \A i \in 1 .. n : f[i] = a[i]
    BY <1>10, <1>11, <2>1
  <2> DEFINE s == SubSeq(a, 1, n)
  <2>3. s \in Seq(X) /\ Len(s) = n /\ \A i \in 1 .. n : s[i] = a[i]
    BY <1>1, <1>10
  <2> HIDE DEF s
  <2>4. f = s
    BY <1>11, <2>2, <2>3
  <2> QED BY <2>4 DEF s
<1>14. v = SubSeq(a, n + 1, U)
  <2>1. \A i \in 1 .. U - n : v[i] = a[i + n]
    BY <1>4, <1>6, <1>9, <1>10, <1>12
  <2> DEFINE s == SubSeq(a, n + 1, U)
  <2>2. s \in Seq(X) /\ Len(s) = U - n /\ \A i \in 1 .. U - n : s[i] = a[i + n]
    BY <1>1, <1>10
  <2> HIDE DEF s
  <2>3. v = s
    BY <1>12, <2>1, <2>2
  <2> QED BY <2>3 DEF s
<1> QED BY <1>6, <1>7, <1>10, <1>13, <1>14 DEF a, f, v, U

-----------------------------------------------------------------------------
(* The invariant holds initially.                                          *)

\* A fresh queue is empty, and no thread is inside it.
LEMMA IoInitInv == IoInit => IoInv
<1> SUFFICES ASSUME IoInit PROVE IoInv
  OBVIOUS
<1>1. Init /\ Inv
  BY InitInv DEF IoInit
<1>2. TypeOK /\ Sched(k, Cls) /\ StatusInv
  BY <1>1 DEF Inv
<1>3. /\ io = [t \in Thread |-> "none"] /\ op = [t \in Thread |-> "put"]
      /\ count = [t \in Thread |-> 0]
  BY DEF IoInit
<1>4. k.status = [t \in Thread |-> CASE t = main_thread -> RUNNING
                       [] t \in {init_process, idle_thread} -> READY
                       [] OTHER -> NONE]
      /\ k.cur = main_thread
      /\ k.value = [s \in Sem |-> IF s \in Lock THEN 1 ELSE 0]
      /\ k.holder = [l \in Lock |-> NULL] /\ k.repeat = [l \in Lock |-> 0]
  BY <1>1 DEF Init, thread_init
<1>5. \A t \in Thread : k.status[t] \in {RUNNING, READY, NONE} /\ ~Queued(t)
  BY <1>3, <1>4 DEF Queued, RUNNING, READY, NONE, WAITING
<1>6. IsQueue(q)
  <2>1. q = [buf |-> [i \in 0 .. size - 1 |-> NULL], producer_p |-> 0, consumor_p |-> 0]
    BY AllSlots DEF IoInit
  <2>2. [i \in 0 .. size - 1 |-> NULL] \in [0 .. size - 1 -> Byte \cup {NULL}]
    OBVIOUS
  <2>3. 0 \in 0 .. size - 1
    BY QueueObjects
  <2> QED BY <2>1, <2>2, <2>3, AllSlots DEF IsQueue
<1>7. IoTypeOK
  BY <1>2, <1>3, <1>6 DEF IoTypeOK, Where
<1>8. IoCls = Cls
  <2>1. \A n \in Node : IoClass(n) = Class(n)
    BY <1>5 DEF IoClass, Class, RUNNING, READY, NONE, BLOCKED
  <2> QED BY <2>1 DEF IoCls, Cls
<1>9. StatusFits
  BY <1>2, <1>3, <1>5 DEF StatusInv, StatusFits, RUNNING, READY, NONE, BLOCKED, WAITING
<1>10. PlacesFit
  <2>1. pc = [t \in Thread |-> CASE t = main_thread -> "kernel"
                                 [] t = idle_thread -> "block"
                                 [] OTHER -> "user"]
    BY <1>1 DEF Init
  <2> QED BY <1>3, <2>1, KernelObjects DEF PlacesFit, PlaceFits, Away, Process
<1>11. LockFits
  <2>1. \A t \in Thread : ~Owns(t)
    BY <1>1, <1>3, KernelObjects DEF Init, Owns
  <2>2. queue_lock \in Lock /\ queue_lock \in Sem /\ k.cur \in Thread
    BY <1>4, KernelObjects, QueueObjects
  <2>3. \A u \in Thread, l \in Lock : held[u][l] = 0
    BY <1>1 DEF Init
  <2> QED BY <1>4, <2>1, <2>2, <2>3 DEF LockFits, LockAt, HeldFits
<1>12. WaitersFit
  BY <1>5 DEF WaitersFit
<1> QED BY <1>2, <1>7, <1>8, <1>9, <1>10, <1>11, <1>12 DEF IoInv

-----------------------------------------------------------------------------
(* What the invariant says of the running thread.                          *)

\* The running thread is on no list unless it is about to sleep, idle can be
\* woken when another thread runs, and only sleeping threads and the running
\* one are on waiting lists.
LEMMA IoCurrent ==
  ASSUME IoInv
  PROVE  /\ k \in KernelState /\ k.cur \in Thread /\ k.cur \in Node
         /\ k.status \in [Thread -> Status] /\ k.status[k.cur] = RUNNING
         /\ IoCls \in Classes /\ Sched(k, IoCls)
         /\ ~Queued(k.cur) => IoCls[k.cur] = k.cur
         /\ Queued(k.cur) => IoCls[k.cur] = WaitingList(op[k.cur])
         /\ k.cur # idle_thread => IdleAvailable(k, IoCls)
<1>1. /\ k \in KernelState /\ k.cur \in Thread /\ k.status[k.cur] = RUNNING
      /\ k.cur \in Node /\ IoCls \in Classes /\ k.status \in [Thread -> Status]
  BY KernelObjects DEF IoInv, Sched, StatusFits, KernelState
<1>2. IoCls[k.cur] = IF Queued(k.cur) THEN WaitingList(op[k.cur]) ELSE k.cur
  BY <1>1 DEF IoCls, IoClass, RUNNING, READY
<1>3. k.cur # idle_thread => IdleAvailable(k, IoCls)
  <2> SUFFICES ASSUME k.cur # idle_thread PROVE IdleAvailable(k, IoCls)
    OBVIOUS
  <2>0. idle_thread \in Thread /\ idle_thread \in Node /\ io[idle_thread] = "none"
    BY KernelObjects DEF IoInv, PlacesFit
  <2>1. k.status[idle_thread] \in {READY, BLOCKED}
    BY <2>0 DEF IoInv, StatusFits, Process
  <2>2. k.status[idle_thread] = BLOCKED => IoCls[idle_thread] = idle_thread
    BY <2>0 DEF IoCls, IoClass, Queued, READY, BLOCKED, WAITING
  <2> QED BY <2>1, <2>2, StatusType DEF IdleAvailable
<1> QED BY <1>1, <1>2, <1>3 DEF IoInv

\* A thread that does not run is not about to sleep.
LEMMA OthersAway ==
  ASSUME IoInv, NEW t \in Thread, t # k.cur
  PROVE  ~Owns(t) /\ io[t] \in {"none", "again"} /\ (Queued(t) <=> k.status[t] = WAITING)
BY DEF IoInv, PlacesFit, Away, Owns, Queued, Process

-----------------------------------------------------------------------------
(* Steps of the running process that leave the scheduler alone.            *)

\* Nothing but the running process t has moved.
OthersStay(t) ==
  \A u \in Thread \ {t} :
    /\ pc'[u] = pc[u] /\ arg'[u] = arg[u] /\ held'[u] = held[u]
    /\ io'[u] = io[u] /\ op'[u] = op[u] /\ count'[u] = count[u]

\* t neither joins nor leaves a waiting list, and asks for the same.
SameRequest(t) ==
  /\ Queued(t)' <=> Queued(t)
  /\ Queued(t) => op'[t] = op[t] /\ count'[t] = count[t]

\* Such a step keeps the invariant if its own place and the fields of the lock
\* fit each other afterwards.
LEMMA LocalStep ==
  ASSUME IoInv, NEW t \in Process, t = k.cur, Quiet, IoTypeOK', q' = q,
         OthersStay(t), SameRequest(t), PlaceFits(t)', LockAt(t)', HeldFits(t)'
  PROVE  IoInv'
<1>0. /\ t \in Thread /\ t # main_thread /\ t # idle_thread /\ k'.status = k.status /\ k'.cur = k.cur
      /\ main_thread \in Thread /\ idle_thread \in Thread /\ k.status[t] = RUNNING
  BY IoCurrent, KernelObjects DEF Process, Quiet
<1>1. \A u \in Thread : /\ Queued(u)' <=> Queued(u)
                        /\ Queued(u) => op'[u] = op[u] /\ count'[u] = count[u]
  BY <1>0 DEF OthersStay, SameRequest, Queued
<1>2. \A n \in Node : IoClass(n)' = IoClass(n)
  BY <1>0, <1>1 DEF IoClass, WaitingList
<1>3. IoCls' = IoCls
  BY <1>2 DEF IoCls
<1>4. Sched(k', IoCls)
  BY SchedFrame DEF IoInv, Quiet
<1>5. StatusFits'
  BY <1>0 DEF IoInv, StatusFits, OthersStay, RUNNING, NONE, WAITING
<1>6. PlacesFit'
  BY <1>0 DEF IoInv, PlacesFit, PlaceFits, Away, OthersStay, Process
<1>7. LockFits'
  <2>1. ASSUME NEW u \in Thread \ {t} PROVE HeldFits(u)'
    <3>1. HeldFits(u)
      BY DEF IoInv, LockFits
    <3> QED BY <3>1 DEF HeldFits, Owns, OthersStay
  <2> QED BY <1>0, <2>1 DEF LockFits
<1>8. WaitersFit'
  <2>1. \A u \in Thread : Queued(u)' => Queued(u) /\ op'[u] = op[u] /\ count'[u] = count[u]
    BY <1>1
  <2>2. \A u \in Thread : Queued(u)' => Short(u)'
    BY <2>1 DEF IoInv, WaitersFit, Short
  <2> QED BY <2>1, <2>2 DEF IoInv, WaitersFit
<1> QED BY <1>3, <1>4, <1>5, <1>6, <1>7, <1>8 DEF IoInv

\* The process that runs.
LEMMA Runs ==
  ASSUME IoInv, NEW t \in Process, t = k.cur
  PROVE  /\ t \in Thread /\ k \in KernelState /\ k.status[t] = RUNNING /\ ~Halted(k)
         /\ pc \in [Thread -> PC] /\ arg \in [Thread -> Lock \cup {NULL}]
         /\ held \in [Thread -> [Lock -> Nat]] /\ IsQueue(q)
         /\ io \in [Thread -> Where] /\ op \in [Thread -> {"put", "get"}]
         /\ count \in [Thread -> Counts \cup {0}]
         /\ \A u \in Thread : io[u] # "none" => count[u] \in Counts
         /\ PlaceFits(t) /\ LockAt(t) /\ HeldFits(t)
         /\ (Queued(t) <=> io[t] \in {"wait", "block"})
         /\ queue_lock \in Lock /\ queue_lock \in Sem
<1>1. t \in Thread /\ k.status[t] = RUNNING /\ k \in KernelState
  BY IoCurrent DEF Process
<1>2. Queued(t) <=> io[t] \in {"wait", "block"}
  BY <1>1 DEF Queued, RUNNING, WAITING
<1>3. PlaceFits(t) /\ LockAt(t) /\ HeldFits(t)
  BY <1>1 DEF IoInv, PlacesFit, LockFits
<1>4. queue_lock \in Lock /\ queue_lock \in Sem
  BY QueueObjects, KernelObjects
<1> QED BY <1>1, <1>2, <1>3, <1>4 DEF IoInv, IoTypeOK, TypeOK, Sched

\* A kernel state that does not change is quiet.
LEMMA SameQuiet ==
  ASSUME k \in KernelState, k' = k
  PROVE  Quiet
BY DEF Quiet

\* Entering and leaving a system call.
LEMMA EnterStep ==
  ASSUME IoInv, NEW t \in Process, enter_syscall(t), UNCHANGED queueVars
  PROVE  IoInv'
<1>1. /\ t = k.cur /\ pc[t] = "user" /\ pc' = [pc EXCEPT ![t] = "kernel"]
      /\ k' = k /\ arg' = arg /\ held' = held
      /\ q' = q /\ io' = io /\ op' = op /\ count' = count
  BY DEF enter_syscall, OnCpu, Goto, queueVars
<1>2. io[t] = "none" /\ pc'[t] = "kernel" /\ t \in Thread
  BY <1>1, Runs DEF PlaceFits
<1>3. Quiet
  BY <1>1, Runs, SameQuiet
<1>4. IoTypeOK'
  BY <1>1, Runs DEF IoTypeOK, TypeOK, PC
<1>5. OthersStay(t)
  BY <1>1, Runs DEF OthersStay
<1>6. SameRequest(t)
  BY <1>1, <1>2 DEF SameRequest, Queued
<1>7. PlaceFits(t)' /\ LockAt(t)' /\ HeldFits(t)'
  BY <1>1, <1>2, Runs DEF PlaceFits, LockAt, HeldFits, Owns
<1> QED BY <1>1, <1>3, <1>4, <1>5, <1>6, <1>7, LocalStep

\* The same for the way back.
LEMMA LeaveStep ==
  ASSUME IoInv, NEW t \in Process, return_to_user(t)
  PROVE  IoInv'
<1>1. /\ t = k.cur /\ pc[t] = "kernel" /\ pc' = [pc EXCEPT ![t] = "user"] /\ io[t] = "none"
      /\ k' = k /\ arg' = arg /\ held' = held
      /\ q' = q /\ io' = io /\ op' = op /\ count' = count
  BY DEF return_to_user, leave_syscall, OnCpu, Goto
<1>2. pc'[t] = "user" /\ t \in Thread
  BY <1>1, Runs
<1>3. Quiet
  BY <1>1, Runs, SameQuiet
<1>4. IoTypeOK'
  BY <1>1, Runs DEF IoTypeOK, TypeOK, PC
<1>5. OthersStay(t)
  BY <1>1, Runs DEF OthersStay
<1>6. SameRequest(t)
  BY <1>1, <1>2 DEF SameRequest, Queued
<1>7. PlaceFits(t)' /\ LockAt(t)' /\ HeldFits(t)'
  BY <1>1, <1>2, Runs DEF PlaceFits, LockAt, HeldFits, Owns
<1> QED BY <1>1, <1>3, <1>4, <1>5, <1>6, <1>7, LocalStep

\* lock_fetch at the start of a put or a get, and after a sleep.
LEMMA FetchStep ==
  ASSUME IoInv, NEW t \in Process,
         again(t) \/ \E o \in {"put", "get"}, n \in Counts : call(t, o, n)
  PROVE  IoInv'
<1>1. /\ t = k.cur /\ pc[t] = "kernel" /\ io[t] \in {"none", "again"}
      /\ pc' = [pc EXCEPT ![t] = "down"] /\ arg' = [arg EXCEPT ![t] = queue_lock]
      /\ io' = [io EXCEPT ![t] = "round"]
      /\ k' = k /\ held' = held /\ q' = q
  BY DEF again, call, At, Step, lock_fetch, OnCpu, Goto
<1>2. \/ op' = op /\ count' = count /\ io[t] = "again"
      \/ \E o \in {"put", "get"}, n \in Counts :
           op' = [op EXCEPT ![t] = o] /\ count' = [count EXCEPT ![t] = n]
  BY DEF again, call, At
<1>3. pc'[t] = "down" /\ io'[t] = "round" /\ arg'[t] = queue_lock /\ t \in Thread
  BY <1>1, Runs
<1>4. Quiet
  BY <1>1, Runs, SameQuiet
<1>5. IoTypeOK'
  <2>1. op' \in [Thread -> {"put", "get"}] /\ count' \in [Thread -> Counts \cup {0}]
        /\ \A u \in Thread : io'[u] # "none" => count'[u] \in Counts
    <3>1. CASE op' = op /\ count' = count /\ io[t] = "again"
      BY <1>1, <3>1, Runs
    <3>2. ASSUME NEW o \in {"put", "get"}, NEW n \in Counts,
                 op' = [op EXCEPT ![t] = o], count' = [count EXCEPT ![t] = n]
          PROVE  /\ op' \in [Thread -> {"put", "get"}] /\ count' \in [Thread -> Counts \cup {0}]
                 /\ \A u \in Thread : io'[u] # "none" => count'[u] \in Counts
      BY <1>1, <3>2, Runs
    <3> QED BY <1>2, <3>1, <3>2
  <2> QED BY <1>1, <2>1, Runs DEF IoTypeOK, TypeOK, PC, Where
<1>6. OthersStay(t)
  BY <1>1, <1>2, Runs DEF OthersStay
<1>7. SameRequest(t)
  BY <1>1, <1>3, Runs DEF SameRequest, Queued
<1>8. PlaceFits(t)' /\ LockAt(t)' /\ HeldFits(t)'
  BY <1>1, <1>3, Runs DEF PlaceFits, LockAt, HeldFits, Owns
<1> QED BY <1>1, <1>4, <1>5, <1>6, <1>7, <1>8, LocalStep

\* semaphore_down: the lock is free.
LEMMA DownStep ==
  ASSUME IoInv, NEW t \in Process, lock_fetch_down(t, queue_lock), UNCHANGED queueVars
  PROVE  IoInv'
<1> DEFINE l == queue_lock
<1>0. /\ t = k.cur /\ pc[t] \in {"down", "queued"} /\ arg' = arg /\ arg[t] = l
      /\ q' = q /\ io' = io /\ op' = op /\ count' = count
  BY DEF lock_fetch_down, OnCpu, queueVars
<1>1. /\ pc[t] = "down" /\ io[t] = "round" /\ ~Owns(t)
      /\ k.value[l] = 1 /\ k.holder[l] = NULL /\ k.repeat[l] = 0 /\ held[t][l] = 0
  BY <1>0, Runs DEF PlaceFits, LockAt, HeldFits, Owns
<1>2. k' = WithValue(k, l, 0)
  BY <1>0, <1>1 DEF lock_fetch_down, semaphore_down, WithValue
<1>3. /\ Quiet /\ k'.value = [k.value EXCEPT ![l] = 0]
      /\ k'.holder = k.holder /\ k'.repeat = k.repeat
  BY <1>0, <1>2, Runs, SetValue DEF Quiet
<1>4. /\ pc' = [pc EXCEPT ![t] = "taken"]
      /\ held' = [held EXCEPT ![t] = [held[t] EXCEPT ![l] = 1]]
  BY <1>0, <1>1, Runs DEF lock_fetch_down, Goto, Count
<1>5. pc'[t] = "taken" /\ t \in Thread /\ k'.value[l] = 0
      /\ \A m \in Lock : held'[t][m] = IF m = l THEN 1 ELSE held[t][m]
  BY <1>0, <1>3, <1>4, Runs DEF KernelState
<1>6. IoTypeOK'
  BY <1>0, <1>3, <1>4, Runs DEF IoTypeOK, TypeOK, PC, Quiet
<1>7. OthersStay(t)
  BY <1>0, <1>4, Runs DEF OthersStay
<1>8. SameRequest(t)
  BY <1>0, <1>3 DEF SameRequest, Queued, Quiet
<1>9. PlaceFits(t)' /\ LockAt(t)' /\ HeldFits(t)'
  BY <1>0, <1>1, <1>3, <1>5, Runs DEF PlaceFits, LockAt, HeldFits, Owns
<1> QED BY <1>0, <1>3, <1>6, <1>7, <1>8, <1>9, LocalStep

\* The assignments of lock_fetch, and the second one of lock_release.
LEMMA FieldStep ==
  ASSUME IoInv, NEW t \in Process, UNCHANGED queueVars,
         \/ lock_fetch_holder(t, queue_lock) \/ lock_fetch_repeat(t, queue_lock)
         \/ lock_release_repeat(t, queue_lock)
  PROVE  IoInv'
<1> DEFINE l == queue_lock
<1>0. /\ t = k.cur /\ arg' = arg /\ arg[t] = l /\ held' = held
      /\ q' = q /\ io' = io /\ op' = op /\ count' = count
  BY DEF lock_fetch_holder, lock_fetch_repeat, lock_release_repeat, OnCpu, queueVars
<1>1. SUFFICES /\ Quiet /\ \E p \in PC : pc' = [pc EXCEPT ![t] = p]
               /\ PlaceFits(t)' /\ LockAt(t)' /\ HeldFits(t)'
  <2>1. IoTypeOK'
    BY <1>0, <1>1, Runs DEF IoTypeOK, TypeOK, Quiet
  <2>2. OthersStay(t)
    BY <1>0, <1>1, Runs DEF OthersStay
  <2>3. SameRequest(t)
    BY <1>0, <1>1 DEF SameRequest, Queued, Quiet
  <2> QED BY <1>0, <1>1, <2>1, <2>2, <2>3, LocalStep
<1>2. CASE lock_fetch_holder(t, l)
  <2>1. pc[t] = "taken" /\ pc' = [pc EXCEPT ![t] = "held"] /\ k' = WithHolder(k, l, t)
    BY <1>2 DEF lock_fetch_holder, OnCpu, Goto, WithHolder
  <2>2. /\ Quiet /\ k'.value = k.value /\ k'.repeat = k.repeat
        /\ k'.holder = [k.holder EXCEPT ![l] = t]
    BY <1>0, <2>1, Runs, SetHolder DEF Quiet
  <2>3. pc'[t] = "held" /\ "held" \in PC /\ k'.holder[l] = t
    BY <1>0, <2>1, <2>2, Runs DEF PC, KernelState
  <2>4. PlaceFits(t)' /\ LockAt(t)' /\ HeldFits(t)'
    BY <1>0, <2>1, <2>2, <2>3, Runs DEF PlaceFits, LockAt, HeldFits, Owns
  <2> QED BY <2>1, <2>2, <2>3, <2>4
<1>3. CASE lock_fetch_repeat(t, l)
  <2>0. pc[t] = "held" /\ pc' = [pc EXCEPT ![t] = "kernel"]
    BY <1>3 DEF lock_fetch_repeat, OnCpu, Goto
  <2>1. io[t] = "round" /\ k.repeat[l] = 0 /\ k.holder[l] = t /\ k.value[l] = 0
    BY <1>0, <2>0, Runs DEF PlaceFits, LockAt, Owns
  <2>2. k' = WithRepeat(k, l, 1)
    BY <1>3, <2>1 DEF lock_fetch_repeat, WithRepeat
  <2>3. /\ Quiet /\ k'.value = k.value /\ k'.holder = k.holder
        /\ k'.repeat = [k.repeat EXCEPT ![l] = 1]
    BY <1>0, <2>2, Runs, SetRepeat DEF Quiet
  <2>4. pc'[t] = "kernel" /\ "kernel" \in PC /\ k'.repeat[l] = 1
    BY <1>0, <2>0, <2>3, Runs DEF PC, KernelState
  <2>5. PlaceFits(t)' /\ LockAt(t)' /\ HeldFits(t)'
    BY <1>0, <2>0, <2>1, <2>3, <2>4, Runs DEF PlaceFits, LockAt, HeldFits, Owns
  <2> QED BY <2>0, <2>3, <2>4, <2>5
<1>4. CASE lock_release_repeat(t, l)
  <2>1. pc[t] = "freed" /\ pc' = [pc EXCEPT ![t] = "zeroed"] /\ k' = WithRepeat(k, l, 0)
    BY <1>4 DEF lock_release_repeat, OnCpu, Goto, WithRepeat
  <2>2. /\ Quiet /\ k'.value = k.value /\ k'.holder = k.holder
        /\ k'.repeat = [k.repeat EXCEPT ![l] = 0]
    BY <1>0, <2>1, Runs, SetRepeat DEF Quiet
  <2>3. pc'[t] = "zeroed" /\ "zeroed" \in PC /\ k'.repeat[l] = 0
    BY <1>0, <2>1, <2>2, Runs DEF PC, KernelState
  <2>4. PlaceFits(t)' /\ LockAt(t)' /\ HeldFits(t)'
    BY <1>0, <2>1, <2>2, <2>3, Runs DEF PlaceFits, LockAt, HeldFits, Owns
  <2> QED BY <2>1, <2>2, <2>3, <2>4
<1> QED BY <1>2, <1>3, <1>4

\* lock_release, up to its first assignment.
LEMMA GiveUpStep ==
  ASSUME IoInv, NEW t \in Process, release(t)
  PROVE  IoInv'
<1> DEFINE l == queue_lock
           done == io[t] = "release"
<1>0. /\ t = k.cur /\ pc[t] = "kernel" /\ io[t] \in {"release", "wait"} /\ q' = q /\ held' = held
      /\ pc' = [pc EXCEPT ![t] = "freed"] /\ arg' = [arg EXCEPT ![t] = l]
      /\ io' = [io EXCEPT ![t] = IF done THEN "none" ELSE "block"]
      /\ count' = [count EXCEPT ![t] = IF done THEN 0 ELSE count[t]]
      /\ op' = [op EXCEPT ![t] = IF done THEN "put" ELSE op[t]]
  BY DEF release, At, OnCpu, lock_release, Goto, Step
<1>1. Owns(t) /\ k.value[l] = 0 /\ k.repeat[l] = 1
  BY <1>0, Runs DEF LockAt, Owns
<1>2. k' = WithHolder(k, l, NULL)
  BY <1>1 DEF release, lock_release, WithHolder
<1>3. /\ Quiet /\ k'.value = k.value /\ k'.repeat = k.repeat
      /\ k'.holder = [k.holder EXCEPT ![l] = NULL]
  <2>1. k \in KernelState /\ l \in Lock /\ NULL \in Thread \cup {NULL}
    BY <1>0, Runs
  <2> QED BY <1>2, <2>1, SetHolder DEF Quiet
<1>4. /\ pc'[t] = "freed" /\ arg'[t] = l /\ t \in Thread /\ k'.holder[l] = NULL
      /\ io'[t] = IF done THEN "none" ELSE "block"
      /\ count'[t] = IF done THEN 0 ELSE count[t]
      /\ op'[t] = IF done THEN "put" ELSE op[t]
  BY <1>0, <1>3, Runs DEF KernelState
<1>5. IoTypeOK'
  <2>1. /\ io' \in [Thread -> Where] /\ op' \in [Thread -> {"put", "get"}]
        /\ count' \in [Thread -> Counts \cup {0}]
    BY <1>0, Runs DEF Where
  <2>2. \A u \in Thread : io'[u] # "none" => count'[u] \in Counts
    BY <1>0, <1>4, Runs
  <2> QED BY <1>0, <1>3, <2>1, <2>2, Runs DEF IoTypeOK, TypeOK, PC, Quiet
<1>6. OthersStay(t)
  BY <1>0, Runs DEF OthersStay
<1>7. SameRequest(t)
  BY <1>0, <1>3, <1>4, Runs DEF SameRequest, Queued, Quiet
<1>8. PlaceFits(t)' /\ LockAt(t)' /\ HeldFits(t)'
  BY <1>0, <1>1, <1>3, <1>4, Runs DEF PlaceFits, LockAt, HeldFits, Owns
<1> QED BY <1>0, <1>3, <1>5, <1>6, <1>7, <1>8, LocalStep

\* semaphore_up: nobody waits for the lock.
LEMMA UpStep ==
  ASSUME IoInv, NEW t \in Process, lock_release_up(t, queue_lock), UNCHANGED queueVars
  PROVE  IoInv'
<1> DEFINE l == queue_lock
<1>0. /\ t = k.cur /\ pc[t] = "zeroed" /\ arg' = arg /\ arg[t] = l
      /\ q' = q /\ io' = io /\ op' = op /\ count' = count /\ k' = semaphore_up(k, l)
      /\ pc' = [pc EXCEPT ![t] = "kernel"]
      /\ held' = [held EXCEPT ![t] = [held[t] EXCEPT ![l] = held[t][l] - 1]]
  BY DEF lock_release_up, OnCpu, queueVars, Goto, Count
<1>1. /\ Owns(t) /\ io[t] \in {"none", "block"}
      /\ k.value[l] = 0 /\ k.holder[l] = NULL /\ k.repeat[l] = 0 /\ held[t][l] = 1
  BY <1>0, Runs DEF PlaceFits, LockAt, HeldFits, Owns
<1>2. k.nx[l] = l
  <2> SUFFICES ASSUME k.nx[l] # l PROVE FALSE
    OBVIOUS
  <2>1. /\ k.nx \in Pointers /\ k.pv \in Pointers /\ IoCls \in Classes
        /\ Linked(k.nx, k.pv, IoCls) /\ l \in Node \ Thread
    BY QueueObjects, KernelObjects DEF IoInv, Sched, KernelState, Pointers
  <2>2. k.nx[l] \in Thread /\ IoCls[k.nx[l]] = l
    BY <2>1, FirstElement
  <2> DEFINE u == k.nx[l]
  <2>3. IoCls[u] = IoClass(u) /\ u \in Thread
    BY <2>2, KernelObjects DEF IoCls
  <2>4. IoClass(u) \in {thread_ready_list, producer_waiting_list, consumor_waiting_list, u}
    BY DEF IoClass, WaitingList
  <2> HIDE DEF u
  <2>5. IoCls[u] = l
    BY <2>2 DEF u
  <2> QED BY <2>3, <2>4, <2>5, QueueObjects, KernelObjects
<1>3. k' = WithValue(k, l, 1)
  <2>1. wake_first(k, l) = k
    BY <1>2 DEF wake_first, list_is_empty
  <2>2. k \in KernelState /\ ~Halted(k) /\ l \in Lock /\ k.value[l] = 0 /\ k' = semaphore_up(k, l)
    BY <1>0, <1>1, Runs
  <2>3. k' = [k EXCEPT !.value[l] = k.value[l] + 1]
    BY <2>1, <2>2 DEF semaphore_up
  <2>4. k.value[l] + 1 = 1
    BY <2>2
  <2> QED BY <2>3, <2>4 DEF WithValue
<1>4. /\ Quiet /\ k'.value = [k.value EXCEPT ![l] = 1]
      /\ k'.holder = k.holder /\ k'.repeat = k.repeat
  <2>1. k \in KernelState /\ l \in Lock /\ 1 \in Nat
    BY <1>0, Runs
  <2> QED BY <1>3, <2>1, SetValue DEF Quiet
<1>5. held' = [held EXCEPT ![t] = [held[t] EXCEPT ![l] = 0]]
  BY <1>0, <1>1
<1>6. pc'[t] = "kernel" /\ t \in Thread /\ k'.value[l] = 1
      /\ \A m \in Lock : held'[t][m] = IF m = l THEN 0 ELSE held[t][m]
  BY <1>0, <1>4, <1>5, Runs DEF KernelState
<1>7. IoTypeOK'
  BY <1>0, <1>4, <1>5, Runs DEF IoTypeOK, TypeOK, PC, Quiet
<1>8. OthersStay(t)
  BY <1>0, <1>5, Runs DEF OthersStay
<1>9. SameRequest(t)
  BY <1>0, <1>4 DEF SameRequest, Queued, Quiet
<1>10. PlaceFits(t)' /\ LockAt(t)' /\ HeldFits(t)'
  BY <1>0, <1>1, <1>4, <1>6, Runs DEF PlaceFits, LockAt, HeldFits, Owns
<1> QED BY <1>0, <1>4, <1>7, <1>8, <1>9, <1>10, LocalStep

-----------------------------------------------------------------------------
(* A round of a put or a get.                                              *)

\* The list of those who wait for what a thread that puts or gets changes.
OtherList(o) == IF o = "put" THEN consumor_waiting_list ELSE producer_waiting_list

\* The threads asleep on the other side.
OtherSide(o) == {u \in Thread : IoCls[u] = OtherList(o)}

\* The two waiting lists.
LEMMA TwoLists ==
  ASSUME NEW o \in {"put", "get"}
  PROVE  /\ WaitingList(o) \in Sem /\ OtherList(o) \in Sem /\ WaitingList(o) # OtherList(o)
         /\ WaitingList(o) \in Node \ Thread /\ OtherList(o) \in Node \ Thread
         /\ WaitingList(o) # thread_ready_list /\ OtherList(o) # thread_ready_list
         /\ \A p \in {"put", "get"} : WaitingList(p) = OtherList(o) <=> p # o
BY QueueObjects, KernelObjects DEF WaitingList, OtherList

\* They are the sleepers with the other request; the running thread, which is
\* inside the loop, is not one of them.
LEMMA OtherSideIs ==
  ASSUME IoInv, NEW t \in Process, At(t, "round"), NEW o \in {"put", "get"}, op[t] = o
  PROVE  /\ OtherSide(o) = {u \in Thread : k.status[u] = WAITING /\ op[u] # o}
         /\ t \in Thread /\ t = k.cur /\ ~Queued(t) /\ t \notin OtherSide(o) /\ IoCls[t] = t
<1>1. t = k.cur /\ io[t] = "round" /\ t \in Thread /\ t \in Node
  BY KernelObjects DEF At, OnCpu, Process
<1>2. ~Queued(t) /\ k.status[t] = RUNNING /\ op \in [Thread -> {"put", "get"}]
  BY <1>1, Runs
<1>3. IoCls[t] = t
  BY <1>1, <1>2, IoCurrent
<1>4. ASSUME NEW u \in Thread
      PROVE  IoCls[u] = OtherList(o) <=> (k.status[u] = WAITING /\ op[u] # o)
  <2>1. IoCls[u] = IoClass(u) /\ u \in Thread
    BY KernelObjects DEF IoCls
  <2>2. Queued(u) <=> k.status[u] = WAITING
    BY <1>1, <1>2, OthersAway DEF RUNNING, WAITING
  <2>3. op[u] \in {"put", "get"}
    BY <1>2
  <2>4. WaitingList(op[u]) = OtherList(o) <=> op[u] # o
    BY <2>3, TwoLists
  <2>5. OtherList(o) \notin {u, thread_ready_list}
    BY TwoLists
  <2>6. IoClass(u) = IF k.status[u] = READY THEN thread_ready_list
                     ELSE IF Queued(u) THEN WaitingList(op[u]) ELSE u
    BY DEF IoClass
  <2> QED BY <2>1, <2>2, <2>4, <2>5, <2>6 DEF READY, WAITING
<1>5. OtherSide(o) = {u \in Thread : k.status[u] = WAITING /\ op[u] # o}
  BY <1>4 DEF OtherSide
<1> QED BY <1>1, <1>2, <1>3, <1>5 DEF RUNNING, WAITING

\* The kernel state after a round.
LEMMA RoundState ==
  ASSUME IoInv, NEW t \in Process, At(t, "round"), NEW o \in {"put", "get"}, op[t] = o,
         NEW served \in BOOLEAN,
         EndRound(t, ____wake_up(k, OtherList(o)), served, WaitingList(o))
  PROVE  /\ k'.status = Readied(k.status, OtherSide(o)) /\ k'.cur = t /\ Objects(k') = Objects(k)
         /\ Sched(k', IF served THEN Moved(IoCls, OtherSide(o))
                      ELSE [Moved(IoCls, OtherSide(o)) EXCEPT ![t] = WaitingList(o)])
<1> DEFINE h == ____wake_up(k, OtherList(o))
           W == OtherSide(o)
           m == Moved(IoCls, W)
           list == WaitingList(o)
<1>1. /\ W = {u \in Thread : k.status[u] = WAITING /\ op[u] # o}
      /\ t \in Thread /\ t = k.cur /\ t \notin W /\ IoCls[t] = t /\ k.status[t] = RUNNING
      /\ Sched(k, IoCls) /\ k.status \in [Thread -> Status]
  BY OtherSideIs, IoCurrent
<1>2. WokenAll(k, IoCls, W, h)
  <2>1. \A u \in Thread : IoCls[u] = OtherList(o) => k.status[u] \in Asleep
    BY <1>1 DEF OtherSide, Asleep
  <2>2. OtherList(o) \in Sem
    BY TwoLists
  <2> HIDE DEF h
  <2>3. h = ____wake_up(k, OtherList(o))
    BY DEF h
  <2> QED BY <1>1, <2>1, <2>2, <2>3, WakeUpLemma DEF OtherSide
<1>3. k' = IF served THEN h ELSE add_to_waiting_list(h, list)
  BY DEF EndRound
<1> HIDE DEF h, W
<1>4. /\ Sched(h, m) /\ h.status = Readied(k.status, W) /\ h.cur = t /\ Objects(h) = Objects(k)
  BY <1>1, <1>2 DEF WokenAll
<1>5. CASE served
  BY <1>3, <1>4, <1>5 DEF W
<1>6. CASE ~served
  <2>1. m[t] = t /\ t \in Node
    BY <1>1, KernelObjects DEF Moved
  <2>2. h.status[t] # READY
    BY <1>1, <1>4 DEF Readied, RUNNING, READY
  <2> HIDE DEF m, list
  <2>3. /\ h.nx \in Pointers /\ h.pv \in Pointers /\ m \in Classes /\ Linked(h.nx, h.pv, m)
        /\ ~Halted(h)
    BY <1>4 DEF Sched, KernelState, Pointers
  <2>4. list \in Sem /\ list \in Node \ Thread
    BY TwoLists DEF list
  <2>5. ~list_find_element(h, t, list)
    BY <1>1, <2>1, <2>3, <2>4, NotFound
  <2>6. k' = list_add_tail(h, t, list)
    BY <1>3, <1>4, <1>6, <2>3, <2>5 DEF add_to_waiting_list
  <2>7. Sched(h, m) /\ t \in Thread
    BY <1>1, <1>4
  <2>8. /\ Sched(k', [m EXCEPT ![t] = list]) /\ k'.status = h.status
        /\ k'.cur = h.cur /\ Objects(k') = Objects(h)
    BY <2>1, <2>2, <2>4, <2>6, <2>7, AddTailLemma
  <2> QED BY <1>4, <1>6, <2>8 DEF m, list, W
<1> QED BY <1>5, <1>6

\* A round keeps the invariant when it leaves its own side's sleepers without
\* what they wait for.
LEMMA RoundStep ==
  ASSUME IoInv, NEW t \in Process, At(t, "round"), NEW o \in {"put", "get"}, op[t] = o,
         NEW served \in BOOLEAN,
         EndRound(t, ____wake_up(k, OtherList(o)), served, WaitingList(o)), IsQueue(q'),
         served => \A u \in Thread : Queued(u) /\ op[u] = o => Short(u)',
         ~served => q' = q /\ Short(t)
  PROVE  IoInv'
<1> DEFINE W == OtherSide(o)
           c == IF served THEN Moved(IoCls, W) ELSE [Moved(IoCls, W) EXCEPT ![t] = WaitingList(o)]
<1>1. /\ W = {u \in Thread : k.status[u] = WAITING /\ op[u] # o}
      /\ t \in Thread /\ t = k.cur /\ ~Queued(t) /\ t \notin W /\ IoCls[t] = t
  BY OtherSideIs
<1>2. /\ k'.status = Readied(k.status, W) /\ k'.cur = t /\ Objects(k') = Objects(k)
      /\ Sched(k', c)
  BY RoundState
<1>3. /\ io' = [io EXCEPT ![t] = IF served THEN "release" ELSE "wait"]
      /\ pc' = pc /\ arg' = arg /\ held' = held /\ op' = op /\ count' = count
  BY DEF EndRound, Step
<1>4. /\ pc[t] = "kernel" /\ io[t] = "round"
  BY DEF At, OnCpu
<1>5. /\ pc \in [Thread -> PC] /\ arg \in [Thread -> Lock \cup {NULL}]
      /\ held \in [Thread -> [Lock -> Nat]] /\ k.status[t] = RUNNING
      /\ io \in [Thread -> Where] /\ op \in [Thread -> {"put", "get"}]
      /\ count \in [Thread -> Counts \cup {0}]
      /\ \A u \in Thread : io[u] # "none" => count[u] \in Counts
      /\ PlaceFits(t) /\ LockAt(t)
  BY <1>1, Runs
<1>6. /\ io'[t] = IF served THEN "release" ELSE "wait"
      /\ \A u \in Thread \ {t} : io'[u] = io[u]
      /\ \A u \in Thread : k'.status[u] = IF u \in W THEN READY ELSE k.status[u]
  BY <1>1, <1>2, <1>3, <1>5 DEF Readied
<1>7. \A u \in Thread : Queued(u)' <=> ((Queued(u) /\ u \notin W) \/ (u = t /\ ~served))
  <2> SUFFICES ASSUME NEW u \in Thread
               PROVE  Queued(u)' <=> ((Queued(u) /\ u \notin W) \/ (u = t /\ ~served))
    OBVIOUS
  <2>1. CASE u = t
    BY <1>1, <1>5, <1>6, <2>1 DEF Queued, RUNNING, READY, WAITING
  <2>2. CASE u # t
    <3>1. io[u] \in {"none", "again"}
      BY <1>1, <2>2, OthersAway
    <3> QED BY <1>1, <1>6, <2>2, <3>1 DEF Queued, READY, WAITING
  <2> QED BY <2>1, <2>2
<1>8. \A n \in Node : IoClass(n)' = c[n]
  <2> SUFFICES ASSUME NEW n \in Node PROVE IoClass(n)' = c[n]
    OBVIOUS
  <2>1. c[n] = IF ~served /\ n = t THEN WaitingList(o)
               ELSE IF n \in W THEN thread_ready_list ELSE IoClass(n)
    BY DEF Moved, IoCls
  <2>2. CASE n \notin Thread
    BY <1>1, <2>1, <2>2 DEF IoClass
  <2>3. CASE n \in Thread
    <3>1. IoClass(n)' = IF k'.status[n] = READY THEN thread_ready_list
                        ELSE IF Queued(n)' THEN WaitingList(op[n]) ELSE n
      BY <1>3, <2>3 DEF IoClass, WaitingList
    <3>2. IoClass(n) = IF k.status[n] = READY THEN thread_ready_list
                       ELSE IF Queued(n) THEN WaitingList(op[n]) ELSE n
      BY <2>3 DEF IoClass
    <3> HIDE DEF c, W
    <3> QED BY <1>1, <1>5, <1>6, <1>7, <2>1, <2>3, <3>1, <3>2 DEF RUNNING, READY
  <2> QED BY <2>2, <2>3
<1>9. c \in Classes
  BY <1>2 DEF Sched
<1> HIDE DEF c, W
<1>10. IoCls' = c
  BY <1>8, <1>9 DEF IoCls, Classes
<1>11. IoTypeOK'
  <2>1. k' \in KernelState
    BY <1>2 DEF Sched
  <2>2. io' \in [Thread -> Where] /\ \A u \in Thread : io'[u] # "none" => count'[u] \in Counts
    BY <1>3, <1>4, <1>5 DEF Where
  <2> QED BY <1>3, <1>5, <2>1, <2>2 DEF IoTypeOK, TypeOK
<1>12. StatusFits'
  <2>1. \A u \in Thread : k'.status[u] # READY => k'.status[u] = k.status[u] /\ u \notin W
    BY <1>6
  <2>2. \A u \in Thread : u # t /\ k'.status[u] # READY => io'[u] = io[u]
    BY <1>6
  <2>3. k'.status[t] = RUNNING
    BY <1>1, <1>5, <1>6
  <2> QED BY <1>1, <1>2, <2>1, <2>2, <2>3
          DEF IoInv, StatusFits, RUNNING, READY, BLOCKED, WAITING, NONE
<1>13. PlacesFit'
  <2>1. t # main_thread /\ t # idle_thread /\ main_thread \in Thread /\ idle_thread \in Thread
    BY KernelObjects DEF Process
  <2>2. PlaceFits(t)'
    BY <1>3, <1>4 DEF PlaceFits
  <2>3. \A u \in Process : u # t => PlaceFits(u)' /\ Away(u)'
    BY <1>1, <1>3, <1>6 DEF IoInv, PlacesFit, PlaceFits, Away, Process
  <2> QED BY <1>2, <1>3, <1>6, <2>1, <2>2, <2>3 DEF IoInv, PlacesFit
<1>14. LockFits'
  <2>1. \A u \in Thread : Owns(u)' <=> Owns(u)
    BY <1>3, <1>4, <1>6 DEF Owns
  <2>2. k'.value = k.value /\ k'.holder = k.holder /\ k'.repeat = k.repeat
    BY <1>2 DEF Objects
  <2>3. LockAt(t)'
    BY <1>1, <1>3, <1>5, <2>1, <2>2 DEF LockAt
  <2>4. \A u \in Thread : HeldFits(u)'
    BY <1>3, <2>1 DEF IoInv, LockFits, HeldFits
  <2> QED BY <1>2, <2>3, <2>4 DEF LockFits
<1>15. WaitersFit'
  <2>1. \A u \in Thread : Queued(u)' => op[u] = o
    <3> SUFFICES ASSUME NEW u \in Thread, Queued(u)' PROVE op[u] = o
      OBVIOUS
    <3>1. CASE u = t
      BY <3>1
    <3>2. CASE u # t
      <4>1. Queued(u) /\ u \notin W
        BY <1>7, <3>2
      <4>2. k.status[u] = WAITING
        BY <1>1, <3>2, <4>1, OthersAway
      <4> QED BY <1>1, <4>1, <4>2
    <3> QED BY <3>1, <3>2
  <2>2. \A u \in Thread : Queued(u)' => Short(u)'
    <3> SUFFICES ASSUME NEW u \in Thread, Queued(u)' PROVE Short(u)'
      OBVIOUS
    <3>1. CASE served
      BY <1>7, <2>1, <3>1
    <3>2. CASE ~served
      <4>1. Short(u)
        BY <1>7, <3>2 DEF IoInv, WaitersFit
      <4>2. q' = q
        BY <3>2
      <4> QED BY <1>3, <4>1, <4>2 DEF Short
    <3> QED BY <3>1, <3>2
  <2> QED BY <1>3, <2>1, <2>2 DEF WaitersFit
<1> QED BY <1>2, <1>10, <1>11, <1>12, <1>13, <1>14, <1>15 DEF IoInv

\* The sizes of puts and gets.
LEMMA CountsType ==
  size \in Nat /\ \A n \in Counts : n \in 1 .. size - 2 /\ n \in Nat
<1>1. size \in Nat /\ Counts \subseteq 1 .. size - 2
  BY QueueObjects
<1>2. \A n \in 1 .. size - 2 : n \in Nat
  BY <1>1
<1>3. \A n \in Counts : n \in 1 .. size - 2
  BY <1>1, Zenon
<1> QED BY <1>1, <1>2, <1>3

\* The bytes of a put.
LEMMA RecordType ==
  ASSUME NEW t \in Thread, NEW n \in Nat
  PROVE  Record(t, n) \in Seq(Byte) /\ Len(Record(t, n)) = n
<1> DEFINE f == Record(t, n)
<1>1. f = [i \in 1 .. n |-> [from |-> t, nr |-> i, of |-> n]]
  BY DEF Record
<1>2. \A i \in 1 .. n : [from |-> t, nr |-> i, of |-> n] \in Byte
  BY DEF Byte
<1> HIDE DEF f
<1>3. f \in [1 .. n -> Byte]
  BY <1>1, <1>2
<1>4. f \in Seq(Byte) /\ Len(f) = n
  BY <1>3
<1> QED BY <1>4 DEF f

\* A put that is served appends its record, and there is less room then.
LEMMA PutEffect ==
  ASSUME IoInv, NEW t \in Process, ioqueue_put_data(t), ioqueue_avaliable(q) > count[t]
  PROVE  /\ IsQueue(q') /\ ContentOf(q') = ContentOf(q) \o Record(t, count[t])
         /\ ioqueue_unread(q') = ioqueue_unread(q) + count[t]
         /\ ioqueue_unread(q) + count[t] <= size - 1 /\ count[t] \in 1 .. size - 1
         /\ data' = data
<1>0. t = k.cur /\ io[t] = "round" /\ t \in Thread
  BY DEF ioqueue_put_data, At, OnCpu, Process
<1>1. IsQueue(q) /\ count[t] \in Counts
  BY <1>0, Runs
<1>2. count[t] \in 1 .. size - 2 /\ size \in Nat /\ count[t] \in Nat
  BY <1>1, CountsType
<1>3. q' = Store(q, Record(t, count[t])) /\ data' = data
  BY DEF ioqueue_put_data
<1> DEFINE n == count[t]
           r == Record(t, n)
           U == ioqueue_unread(q)
<1>4. r \in Seq(Byte) /\ Len(r) = n
  BY <1>0, <1>2, RecordType
<1>5. U \in 0 .. size - 1 /\ ioqueue_avaliable(q) = size - 1 - U
  BY <1>1, UnreadIs
<1>6. n <= ioqueue_avaliable(q) /\ U + n <= size - 1 /\ n \in 1 .. size - 1
  <2> HIDE DEF U, n
  <2>1. n \in Nat /\ n \in 1 .. size - 2 /\ ioqueue_avaliable(q) > n
    BY <1>2 DEF n
  <2> QED BY <1>2, <1>5, <2>1
<1> HIDE DEF r, n
<1>7. /\ IsQueue(q') /\ ioqueue_unread(q') = ioqueue_unread(q) + Len(r)
      /\ ContentOf(q') = ContentOf(q) \o r
  <2>1. q' = Store(q, r) /\ r \in Seq(Byte) /\ Len(r) <= ioqueue_avaliable(q) /\ IsQueue(q)
    BY <1>1, <1>3, <1>4, <1>6 DEF r, n
  <2> QED BY <2>1, StoreLemma
<1> QED BY <1>3, <1>4, <1>6, <1>7 DEF r, n

\* A get that is served takes the oldest bytes.
LEMMA GetEffect ==
  ASSUME IoInv, NEW t \in Process, ioqueue_get_data(t), ioqueue_unread(q) >= count[t]
  PROVE  /\ IsQueue(q') /\ count[t] \in 1 .. size - 1 /\ count[t] <= ioqueue_unread(q)
         /\ ioqueue_unread(q') = ioqueue_unread(q) - count[t]
         /\ data' = [data EXCEPT ![t] = SubSeq(ContentOf(q), 1, count[t])]
         /\ ContentOf(q') = SubSeq(ContentOf(q), count[t] + 1, Len(ContentOf(q)))
<1>0. t = k.cur /\ io[t] = "round" /\ t \in Thread
  BY DEF ioqueue_get_data, At, OnCpu, Process
<1>1. IsQueue(q) /\ count[t] \in Counts
  BY <1>0, Runs
<1>2. count[t] \in 1 .. size - 2 /\ size \in Nat /\ count[t] \in Nat
  BY <1>1, CountsType
<1>3. q' = Unload(q, count[t]) /\ data' = [data EXCEPT ![t] = Fetched(q, count[t])]
  BY DEF ioqueue_get_data
<1> DEFINE n == count[t]
           U == ioqueue_unread(q)
<1>4. U \in 0 .. size - 1
  BY <1>1, UnreadIs
<1>5. n \in 0 .. U /\ n \in 1 .. size - 1 /\ n <= U
  <2> HIDE DEF U, n
  <2>1. n \in Nat /\ n \in 1 .. size - 2 /\ U >= n
    BY <1>2 DEF n, U
  <2> QED BY <1>2, <1>4, <2>1
<1> HIDE DEF n
<1>6. /\ IsQueue(q') /\ ioqueue_unread(q') = ioqueue_unread(q) - n
      /\ Fetched(q, n) = SubSeq(ContentOf(q), 1, n)
      /\ ContentOf(q') = SubSeq(ContentOf(q), n + 1, Len(ContentOf(q)))
  <2>1. q' = Unload(q, n) /\ n \in 0 .. ioqueue_unread(q) /\ IsQueue(q)
    BY <1>1, <1>3, <1>5 DEF n
  <2> QED BY <2>1, UnloadLemma
<1> QED BY <1>3, <1>5, <1>6 DEF n

\* One round of ioqueue_put_data.
LEMMA PutStep ==
  ASSUME IoInv, NEW t \in Process, ioqueue_put_data(t)
  PROVE  IoInv'
<1> DEFINE served == ioqueue_avaliable(q) > count[t]
<1>0. At(t, "round") /\ op[t] = "put" /\ t = k.cur /\ t \in Thread
  BY DEF ioqueue_put_data, At, OnCpu, Process
<1>1. EndRound(t, ____wake_up(k, OtherList("put")), served, WaitingList("put"))
  BY DEF ioqueue_put_data, OtherList, WaitingList
<1>2. IsQueue(q) /\ count \in [Thread -> Counts \cup {0}]
  BY <1>0, Runs
<1>3. \A u \in Thread : count[u] \in Nat
  BY <1>2, CountsType
<1>4. ~served => q' = q /\ Short(t)
  <2>1. ioqueue_avaliable(q) \in Nat
    BY <1>2, UnreadIs, QueueFields
  <2>2. ~served => q' = q
    BY DEF ioqueue_put_data
  <2> QED BY <1>0, <1>3, <2>1, <2>2 DEF Short
<1>5. op' = op /\ count' = count
  BY <1>1 DEF EndRound
<1>6. IsQueue(q')
  BY <1>2, <1>4, PutEffect
<1>7. ASSUME served, NEW u \in Thread, Queued(u), op[u] = "put" PROVE Short(u)'
  <2>1. ioqueue_avaliable(q) <= count[u]
    BY <1>7 DEF IoInv, WaitersFit, Short
  <2>2. ioqueue_unread(q') = ioqueue_unread(q) + count[t]
    BY <1>7, PutEffect
  <2>3. /\ ioqueue_avaliable(q) = size - 1 - ioqueue_unread(q)
        /\ ioqueue_avaliable(q') = size - 1 - ioqueue_unread(q')
        /\ ioqueue_unread(q) \in 0 .. size - 1 /\ size \in Nat
    BY <1>2, <1>6, UnreadIs, QueueObjects
  <2>4. count[t] \in Nat /\ count[u] \in Nat
    BY <1>0, <1>3
  <2>5. ioqueue_avaliable(q') <= count[u]
    BY <2>1, <2>2, <2>3, <2>4
  <2> QED BY <1>5, <1>7, <2>5 DEF Short, ioqueue_avaliable
<1> HIDE DEF served
<1>8. served => \A u \in Thread : Queued(u) /\ op[u] = "put" => Short(u)'
  BY <1>7
<1>9. served \in BOOLEAN
  BY DEF served
<1> QED BY <1>0, <1>1, <1>4, <1>6, <1>8, <1>9, RoundStep

\* One round of ioqueue_get_data.
LEMMA GetStep ==
  ASSUME IoInv, NEW t \in Process, ioqueue_get_data(t)
  PROVE  IoInv'
<1> DEFINE served == ioqueue_unread(q) >= count[t]
<1>0. At(t, "round") /\ op[t] = "get" /\ t = k.cur /\ t \in Thread
  BY DEF ioqueue_get_data, At, OnCpu, Process
<1>1. EndRound(t, ____wake_up(k, OtherList("get")), served, WaitingList("get"))
  BY DEF ioqueue_get_data, OtherList, WaitingList
<1>2. IsQueue(q) /\ count \in [Thread -> Counts \cup {0}]
  BY <1>0, Runs
<1>3. \A u \in Thread : count[u] \in Nat
  BY <1>2, CountsType
<1>4. ~served => q' = q /\ Short(t)
  <2>1. ioqueue_unread(q) \in Nat
    BY <1>2, UnreadIs, QueueFields
  <2>2. ~served => q' = q
    BY DEF ioqueue_get_data
  <2> QED BY <1>0, <1>3, <2>1, <2>2 DEF Short
<1>5. op' = op /\ count' = count
  BY <1>1 DEF EndRound
<1>6. IsQueue(q')
  BY <1>2, <1>4, GetEffect
<1>7. ASSUME served, NEW u \in Thread, Queued(u), op[u] = "get" PROVE Short(u)'
  <2>1. ioqueue_unread(q) < count[u]
    BY <1>7 DEF IoInv, WaitersFit, Short
  <2>2. ioqueue_unread(q') = ioqueue_unread(q) - count[t]
    BY <1>7, GetEffect
  <2>3. ioqueue_unread(q) \in 0 .. size - 1 /\ size \in Nat
    BY <1>2, UnreadIs, QueueObjects
  <2>4. count[t] \in Nat /\ count[u] \in Nat
    BY <1>0, <1>3
  <2>5. ioqueue_unread(q') < count[u]
    BY <2>1, <2>2, <2>3, <2>4
  <2> QED BY <1>5, <1>7, <2>5 DEF Short, ioqueue_unread
<1> HIDE DEF served
<1>8. served => \A u \in Thread : Queued(u) /\ op[u] = "get" => Short(u)'
  BY <1>7
<1>9. served \in BOOLEAN
  BY DEF served
<1> QED BY <1>0, <1>1, <1>4, <1>6, <1>8, <1>9, RoundStep

-----------------------------------------------------------------------------
(* Steps that switch threads.                                              *)

\* The thread x leaves the CPU with status s, and n gets it.
Left(f, x, s, n, r) == [[f EXCEPT ![x] = s] EXCEPT ![n] = r]

Switched(x, s, n) ==
  /\ k.cur = x /\ k'.cur = n /\ n \in Thread /\ Objects(k') = Objects(k)
  /\ k'.status = Left(k.status, x, s, n, RUNNING)
  /\ Sched(k', Left(IoCls, x, IF s = READY THEN thread_ready_list ELSE IoCls[x], n, n))

\* Where the thread that leaves the CPU stands: outside the queue, or asleep
\* because the queue has not what it asks for.
Leaving(x, s, n) ==
  \/ s \in {READY, BLOCKED} /\ io[x] = "none" /\ io'[x] = "none" /\ (s = BLOCKED => x = idle_thread)
  \/ s = WAITING /\ n # x /\ io[x] = "block" /\ io'[x] = "again"

\* It does not hold the queue's lock, and it may lose the CPU there.
LeavesLock(x) ==
  /\ ~Owns(x) /\ ~Owns(x)'
  /\ x \in Process => Away(x)'
  /\ x = main_thread => pc'[x] = "kernel"
  /\ x = idle_thread => pc'[x] \in {"block", "hlt"}

\* Such a step keeps the invariant.
LEMMA SwitchStep ==
  ASSUME IoInv, NEW x \in Thread, NEW s, NEW n \in Thread,
         Switched(x, s, n), Leaving(x, s, n), LeavesLock(x), OthersStay(x),
         pc' \in [Thread -> PC], io' \in [Thread -> Where],
         UNCHANGED <<arg, held, q, op, count>>
  PROVE  IoInv'
<1> DEFINE c == Left(IoCls, x, IF s = READY THEN thread_ready_list ELSE IoCls[x], n, n)
<1>0. /\ k.cur = x /\ k'.cur = n /\ Objects(k') = Objects(k) /\ Sched(k', c)
      /\ k'.status = Left(k.status, x, s, n, RUNNING)
  BY DEF Switched
<1>1. /\ k.status \in [Thread -> Status] /\ k.status[x] = RUNNING /\ IoCls \in Classes
      /\ ~Queued(x) => IoCls[x] = x
      /\ Queued(x) => IoCls[x] = WaitingList(op[x])
  BY <1>0, IoCurrent
<1>2. \A u \in Thread : k'.status[u] = IF u = n THEN RUNNING ELSE IF u = x THEN s ELSE k.status[u]
  BY <1>0, <1>1 DEF Left
<1>3. /\ arg' = arg /\ held' = held /\ q' = q /\ op' = op /\ count' = count
      /\ \A u \in Thread \ {x} : pc'[u] = pc[u] /\ io'[u] = io[u]
  BY DEF OthersStay
<1>4. \A u \in Thread \ {x} : ~Owns(u) /\ io[u] \in {"none", "again"}
                              /\ (Queued(u) <=> k.status[u] = WAITING)
  BY <1>0, OthersAway
<1>5. Queued(x) <=> s = WAITING
  BY <1>1 DEF Leaving, Queued, RUNNING, READY, BLOCKED, WAITING
<1>6. ~Queued(n)'
  BY <1>2, <1>3, <1>4 DEF Queued, Leaving, RUNNING, WAITING
<1>7. x # n => (Queued(x)' <=> s = WAITING)
  BY <1>2 DEF Queued, Leaving, READY, BLOCKED, WAITING
<1>8. \A u \in Thread \ {x, n} : Queued(u)' <=> Queued(u)
  BY <1>2, <1>3 DEF Queued
<1>9. \A u \in Node : IoClass(u)' = c[u]
  <2> SUFFICES ASSUME NEW u \in Node PROVE IoClass(u)' = c[u]
    OBVIOUS
  <2>1. c[u] = IF u = n THEN n ELSE IF u = x THEN IF s = READY THEN thread_ready_list ELSE IoCls[x]
               ELSE IoClass(u)
    BY <1>1 DEF Left, IoCls, Classes
  <2>2. CASE u \notin Thread
    BY <2>1, <2>2 DEF IoClass
  <2>3. CASE u \in Thread
    <3>1. IoClass(u)' = IF k'.status[u] = READY THEN thread_ready_list
                        ELSE IF Queued(u)' THEN WaitingList(op[u]) ELSE u
      BY <1>3, <2>3 DEF IoClass, WaitingList
    <3>2. IoClass(u) = IF k.status[u] = READY THEN thread_ready_list
                       ELSE IF Queued(u) THEN WaitingList(op[u]) ELSE u
      BY <2>3 DEF IoClass
    <3> HIDE DEF c
    <3>3. CASE u = n
      BY <1>2, <1>6, <2>1, <2>3, <3>1, <3>3 DEF RUNNING, READY
    <3>4. CASE u # n /\ u = x
      BY <1>1, <1>2, <1>5, <1>7, <2>1, <2>3, <3>1, <3>4
    <3>5. CASE u # n /\ u # x
      BY <1>2, <1>8, <2>1, <2>3, <3>1, <3>2, <3>5
    <3> QED BY <3>3, <3>4, <3>5
  <2> QED BY <2>2, <2>3
<1>10. c \in Classes
  BY <1>0 DEF Sched
<1> HIDE DEF c
<1>11. IoCls' = c
  BY <1>9, <1>10 DEF IoCls, Classes
<1>12. IoTypeOK'
  <2>1. k' \in KernelState
    BY <1>0 DEF Sched
  <2>2. \A u \in Thread : io'[u] # "none" => count[u] \in Counts
    BY <1>3 DEF IoInv, IoTypeOK, Leaving
  <2> QED BY <1>3, <2>1, <2>2 DEF IoInv, IoTypeOK, TypeOK
<1>13. StatusFits'
  <2>1. \A u \in Thread : u # n /\ u # x => k'.status[u] = k.status[u] /\ io'[u] = io[u]
    BY <1>2, <1>3
  <2>2. k'.status[n] = RUNNING /\ (x # n => k'.status[x] = s)
    BY <1>2
  <2>3. x # n => s # RUNNING /\ s \in {READY, BLOCKED, WAITING} /\ (s = BLOCKED => x = idle_thread)
                 /\ (s = WAITING => io'[x] = "again") /\ s # NONE
    BY DEF Leaving, RUNNING, READY, BLOCKED, WAITING, NONE
  <2>4. ASSUME NEW u \in Thread
        PROVE  /\ k'.status[u] = RUNNING <=> u = n
               /\ k'.status[u] \in {RUNNING, READY, BLOCKED, WAITING, NONE}
               /\ k'.status[u] = BLOCKED => u = idle_thread
               /\ k'.status[u] = NONE => u \in Process /\ io'[u] = "none"
               /\ k'.status[u] = WAITING => io'[u] = "again"
    <3>1. CASE u = n
      BY <2>2, <3>1 DEF RUNNING, READY, BLOCKED, WAITING, NONE
    <3>2. CASE u # n /\ u = x
      BY <2>2, <2>3, <3>2 DEF RUNNING, READY, BLOCKED, WAITING, NONE
    <3>3. CASE u # n /\ u # x
      BY <1>0, <2>1, <3>3 DEF IoInv, StatusFits
    <3> QED BY <3>1, <3>2, <3>3
  <2> QED BY <1>0, <2>4 DEF StatusFits
<1>14. PlacesFit'
  <2>1. \A u \in Process : Away(u)'
    BY <1>0, <1>3 DEF IoInv, PlacesFit, LeavesLock, Away, Process
  <2>2. \A u \in Process : PlaceFits(u)'
    BY <2>1 DEF Away, PlaceFits
  <2>3. main_thread \in Thread /\ idle_thread \in Thread /\ main_thread # idle_thread
    BY KernelObjects
  <2>4. \A u \in {main_thread, idle_thread} : io'[u] = "none"
    BY <1>3, <2>3 DEF IoInv, PlacesFit, Leaving
  <2>5. pc'[main_thread] = "kernel" /\ pc'[idle_thread] \in {"block", "hlt"}
    BY <1>3, <2>3 DEF IoInv, PlacesFit, LeavesLock
  <2> QED BY <2>1, <2>2, <2>4, <2>5 DEF PlacesFit
<1>15. LockFits'
  <2>1. \A u \in Thread : ~Owns(u) /\ ~Owns(u)'
    BY <1>3, <1>4 DEF LeavesLock, Owns
  <2>2. k'.value = k.value /\ k'.holder = k.holder /\ k'.repeat = k.repeat
    BY <1>0 DEF Objects
  <2>3. LockAt(n)'
    BY <1>0, <2>1, <2>2 DEF IoInv, LockFits, LockAt
  <2>4. \A u \in Thread : HeldFits(u)'
    BY <1>3, <2>1 DEF IoInv, LockFits, HeldFits
  <2> QED BY <1>0, <2>3, <2>4 DEF LockFits
<1>16. WaitersFit'
  <2>1. \A u \in Thread : Queued(u)' => Queued(u)
    BY <1>5, <1>6, <1>7, <1>8
  <2>2. \A u \in Thread : Queued(u)' => Short(u)'
    BY <1>3, <2>1 DEF IoInv, WaitersFit, Short
  <2> QED BY <1>3, <2>1, <2>2 DEF IoInv, WaitersFit
<1> QED BY <1>0, <1>11, <1>12, <1>13, <1>14, <1>15, <1>16 DEF IoInv

\* The timer interrupt, which takes the CPU only from user code, main and idle.
LEMMA TickStep ==
  ASSUME IoInv, timer, UNCHANGED queueVars
  PROVE  IoInv'
<1> DEFINE n == k'.cur
<1> SUFFICES ASSUME NEW x, x = k.cur PROVE IoInv'
  OBVIOUS
<1>0. /\ x \in Thread /\ x \in Node /\ k \in KernelState /\ Sched(k, IoCls) /\ IoCls \in Classes
      /\ k.status \in [Thread -> Status] /\ k.status[x] = RUNNING
      /\ x # idle_thread => IdleAvailable(k, IoCls)
      /\ pc \in [Thread -> PC] /\ io \in [Thread -> Where]
  BY IoCurrent DEF IoInv, IoTypeOK, TypeOK
<1>1. /\ arg' = arg /\ held' = held /\ q' = q /\ io' = io /\ op' = op /\ count' = count
      /\ InterruptsOn(x) /\ k' = inthandler20(k)
      /\ pc' = [pc EXCEPT ![idle_thread] = IF x = idle_thread THEN "block" ELSE pc[idle_thread]]
  BY DEF timer, queueVars
<1>2. io[x] = "none" /\ ~Owns(x)
  <2>1. CASE x \in {main_thread, idle_thread}
    BY <2>1 DEF IoInv, PlacesFit, Owns
  <2>2. CASE x \in Process
    BY <1>1, <2>2 DEF IoInv, PlacesFit, PlaceFits, InterruptsOn, Owns, Process
  <2> QED BY <1>0, <2>1, <2>2 DEF Process
<1>3. pc' \in [Thread -> PC] /\ OthersStay(x) /\ Leaving(x, READY, n)
  BY <1>0, <1>1, <1>2 DEF PC, OthersStay, Leaving, READY, BLOCKED
<1>4. LeavesLock(x)
  <2>1. x \in Process => pc[x] = "user" /\ pc'[x] = "user"
    BY <1>0, <1>1 DEF InterruptsOn, Process
  <2>2. x = main_thread => pc'[x] = "kernel"
    BY <1>0, <1>1, KernelObjects DEF IoInv, PlacesFit
  <2>3. x = idle_thread => pc'[x] = "block"
    BY <1>0, <1>1
  <2>4. ~Owns(x)'
    BY <1>0, <1>1, <1>2, <2>1, <2>2, <2>3 DEF Owns, Process
  <2> QED BY <1>1, <1>2, <2>1, <2>2, <2>3, <2>4 DEF LeavesLock, Away
<1>5. IoCls[x] = x
  BY <1>0, <1>2, IoCurrent DEF Queued, RUNNING, WAITING
<1>6. Switched(x, READY, n) /\ n \in Thread
  <2>1. CASE k.ticks[x] # 0
    <3> DEFINE y == k.ticks[x] - 1
    <3>1. y \in Nat /\ k' = [k EXCEPT !.ticks = [k.ticks EXCEPT ![x] = y]]
      BY <1>0, <1>1, <2>1 DEF inthandler20, KernelState
    <3>2. [k.ticks EXCEPT ![x] = y] \in [Thread -> Nat]
      BY <1>0, <3>1 DEF KernelState
    <3> HIDE DEF y
    <3>3. Quiet /\ Objects(k') = Objects(k)
      BY <1>0, <3>1, <3>2 DEF Quiet, Objects, KernelState
    <3>4. Sched(k', IoCls)
      BY <1>0, <3>3, SchedFrame DEF Quiet
    <3>5. n = x /\ k'.status = k.status
      BY <3>3 DEF Quiet
    <3>6. Left(IoCls, x, thread_ready_list, x, x) = IoCls
      BY <1>0, <1>5 DEF Left, Classes
    <3>7. Left(k.status, x, READY, x, RUNNING) = k.status
      BY <1>0 DEF Left
    <3> QED BY <1>0, <3>3, <3>4, <3>5, <3>6, <3>7 DEF Switched
  <2>2. CASE k.ticks[x] = 0
    <3>1. k' = schedule(k)
      BY <1>1, <2>2 DEF inthandler20
    <3>2. IdleAvailable(k, IoCls) \/ (k.cur = idle_thread /\ k.status[k.cur] = RUNNING)
      BY <1>0
    <3>3. Sched(k, IoCls) /\ k.status[k.cur] = RUNNING /\ IoCls[k.cur] = k.cur
      BY <1>0, <1>5
    <3>4. /\ k'.cur \in Thread /\ Objects(k') = Objects(k)
          /\ Sched(k', [Requeued(k, IoCls, thread_ready_list) EXCEPT ![k'.cur] = k'.cur])
          /\ k'.status = [Requeued(k, k.status, READY) EXCEPT ![k'.cur] = RUNNING]
      BY <3>1, <3>2, <3>3, ScheduleLemma
    <3>5. /\ Requeued(k, IoCls, thread_ready_list) = [IoCls EXCEPT ![x] = thread_ready_list]
          /\ Requeued(k, k.status, READY) = [k.status EXCEPT ![x] = READY]
      BY <1>0 DEF Requeued
    <3> QED BY <3>4, <3>5 DEF Switched, Left
  <2> QED BY <2>1, <2>2
<1> HIDE DEF n
<1> QED BY <1>0, <1>1, <1>3, <1>4, <1>6, SwitchStep

\* thread_block of idle().
LEMMA IdleBlocks ==
  ASSUME IoInv, idle, UNCHANGED queueVars
  PROVE  IoInv'
<1> DEFINE x == idle_thread
           n == k'.cur
<1>0. /\ x = k.cur /\ x \in Thread /\ x \in Node /\ Sched(k, IoCls) /\ IoCls \in Classes
      /\ k.status \in [Thread -> Status] /\ k.status[x] = RUNNING
      /\ pc \in [Thread -> PC] /\ io \in [Thread -> Where]
  BY IoCurrent DEF IoInv, IoTypeOK, TypeOK, idle, OnCpu
<1>1. /\ arg' = arg /\ held' = held /\ q' = q /\ io' = io /\ op' = op /\ count' = count
      /\ k' = thread_block(k, BLOCKED) /\ pc' = [pc EXCEPT ![x] = "hlt"] /\ pc[x] = "block"
  BY DEF idle, queueVars, OnCpu, Goto
<1>2. io[x] = "none" /\ pc'[x] = "hlt" /\ pc' \in [Thread -> PC]
  BY <1>0, <1>1 DEF IoInv, PlacesFit, PC
<1>3. OthersStay(x) /\ Leaving(x, BLOCKED, n)
  BY <1>0, <1>1, <1>2 DEF OthersStay, Leaving
<1>4. LeavesLock(x)
  BY <1>1, <1>2, KernelObjects DEF LeavesLock, Owns, Process
<1>5. IoCls[x] = x
  BY <1>0, <1>2, IoCurrent DEF Queued, RUNNING, WAITING
<1>6. Switched(x, BLOCKED, n) /\ n \in Thread
  <2>1. /\ Sched(k, IoCls) /\ k.status[k.cur] = RUNNING /\ IoCls[k.cur] = k.cur
        /\ k.cur # idle_thread => IdleAvailable(k, IoCls)
    BY <1>0, <1>5
  <2>2. /\ k'.cur \in Thread /\ Objects(k') = Objects(k)
        /\ Sched(k', [IoCls EXCEPT ![k'.cur] = k'.cur])
        /\ k'.status = [[k.status EXCEPT ![k.cur] = BLOCKED] EXCEPT ![k'.cur] = RUNNING]
    BY <1>1, <2>1, StatusType, BlockLemma
  <2>3. [IoCls EXCEPT ![x] = IoCls[x]] = IoCls /\ BLOCKED # READY
    BY <1>0 DEF Classes, BLOCKED, READY
  <2> QED BY <1>0, <2>2, <2>3 DEF Switched, Left
<1> HIDE DEF x, n
<1> QED BY <1>0, <1>1, <1>2, <1>3, <1>4, <1>6, SwitchStep

\* thread_block in a put or a get that was not served.
LEMMA BlockStep ==
  ASSUME IoInv, NEW t \in Process, block(t)
  PROVE  IoInv'
<1> DEFINE n == k'.cur
<1>0. /\ t = k.cur /\ t \in Thread /\ t # idle_thread /\ t # main_thread
      /\ Sched(k, IoCls) /\ IoCls \in Classes
      /\ k.status \in [Thread -> Status] /\ k.status[t] = RUNNING
      /\ pc \in [Thread -> PC] /\ io \in [Thread -> Where] /\ IdleAvailable(k, IoCls)
  BY IoCurrent DEF IoInv, IoTypeOK, TypeOK, block, At, OnCpu, Process
<1>1. /\ arg' = arg /\ held' = held /\ q' = q /\ pc' = pc /\ op' = op /\ count' = count
      /\ k' = thread_block(k, WAITING) /\ io' = [io EXCEPT ![t] = "again"]
      /\ pc[t] = "kernel" /\ io[t] = "block"
  BY DEF block, At, OnCpu, Step
<1>2. io'[t] = "again" /\ io' \in [Thread -> Where]
  BY <1>0, <1>1 DEF Where
<1>3. OthersStay(t)
  BY <1>0, <1>1 DEF OthersStay
<1>4. LeavesLock(t)
  BY <1>0, <1>1, <1>2 DEF LeavesLock, Owns, Away
<1>5. IoCls[t] = WaitingList(op[t]) /\ op[t] \in {"put", "get"}
  BY <1>0, <1>1, IoCurrent, Runs DEF Queued
<1>6. Switched(t, WAITING, n) /\ n \in Thread /\ n # t
  <2>1. /\ Sched(k, IoCls) /\ k.status[k.cur] = RUNNING /\ IoCls[k.cur] # thread_ready_list
        /\ k.cur # idle_thread /\ IdleAvailable(k, IoCls) /\ WAITING \in Asleep
    BY <1>0, <1>5, TwoLists DEF Asleep
  <2>2. /\ k'.cur \in Thread /\ Objects(k') = Objects(k)
        /\ Sched(k', [IoCls EXCEPT ![k'.cur] = k'.cur])
        /\ k'.status = [[k.status EXCEPT ![k.cur] = WAITING] EXCEPT ![k'.cur] = RUNNING]
        /\ \/ k'.cur # k.cur /\ k.status[k'.cur] = READY
           \/ k'.cur = idle_thread /\ (k'.cur = k.cur \/ k.status[k'.cur] \in Asleep)
    BY <1>1, <2>1, SleepLemma
  <2>3. [IoCls EXCEPT ![t] = IoCls[t]] = IoCls /\ WAITING # READY
    BY <1>0 DEF Classes, WAITING, READY
  <2> QED BY <1>0, <2>2, <2>3 DEF Switched, Left
<1>7. Leaving(t, WAITING, n)
  BY <1>1, <1>2, <1>6 DEF Leaving
<1> HIDE DEF n
<1> QED BY <1>0, <1>1, <1>2, <1>3, <1>4, <1>6, <1>7, SwitchStep

\* main starts a process, which is on no list.
LEMMA StartsProcess ==
  ASSUME IoInv, NEW child \in Process, spawn(main_thread, child), UNCHANGED queueVars
  PROVE  IoInv'
<1> DEFINE c == [IoCls EXCEPT ![child] = thread_ready_list]
<1>0. /\ child \in Thread /\ child # idle_thread /\ child # main_thread /\ child \in Node
      /\ k.status[child] = NONE /\ pc' = pc /\ arg' = arg /\ held' = held
      /\ q' = q /\ io' = io /\ op' = op /\ count' = count /\ k.cur = main_thread
      /\ k' = start_thread(k, child)
  BY KernelObjects DEF spawn, OnCpu, Process, queueVars
<1>1. /\ k.nx \in Pointers /\ k.pv \in Pointers /\ IoCls \in Classes
      /\ Linked(k.nx, k.pv, IoCls) /\ k.status \in [Thread -> Status] /\ Sched(k, IoCls)
  BY DEF IoInv, Sched, KernelState, Pointers
<1>2. ~Queued(child)
  BY <1>0, OthersAway DEF WAITING, NONE
<1>3. IoCls[child] = child
  BY <1>0, <1>2 DEF IoCls, IoClass, READY, NONE
<1>4. k' = join_ready(k, child)
  <2>1. ~OnReadyList(k, child)
    BY <1>0, <1>1, <1>3, NotFound, ReadyListIsNoThread DEF OnReadyList
  <2> QED BY <1>0, <2>1 DEF start_thread
<1>5. /\ Sched(k', c) /\ k'.status = [k.status EXCEPT ![child] = READY]
      /\ k'.cur = k.cur /\ Objects(k') = Objects(k)
  BY <1>0, <1>1, <1>3, <1>4, JoinLemma
<1>6. \A u \in Thread : k'.status[u] = IF u = child THEN READY ELSE k.status[u]
  BY <1>1, <1>5
<1>7. \A u \in Thread : Queued(u)' <=> Queued(u)
  BY <1>0, <1>2, <1>6 DEF Queued, READY, WAITING
<1>8. \A n \in Node : IoClass(n)' = c[n]
  <2> SUFFICES ASSUME NEW n \in Node PROVE IoClass(n)' = c[n]
    OBVIOUS
  <2>1. c[n] = IF n = child THEN thread_ready_list ELSE IoClass(n)
    BY <1>1 DEF IoCls, Classes
  <2> HIDE DEF c
  <2> QED BY <1>0, <1>6, <1>7, <2>1 DEF IoClass, WaitingList
<1>9. c \in Classes
  BY <1>5 DEF Sched
<1> HIDE DEF c
<1>10. IoCls' = c
  BY <1>8, <1>9 DEF IoCls, Classes
<1>11. IoTypeOK'
  <2>1. k' \in KernelState
    BY <1>5 DEF Sched
  <2> QED BY <1>0, <2>1 DEF IoInv, IoTypeOK, TypeOK
<1>12. StatusFits'
  BY <1>0, <1>5, <1>6 DEF IoInv, StatusFits, RUNNING, READY, BLOCKED, WAITING, NONE
<1>13. PlacesFit'
  BY <1>0, <1>5 DEF IoInv, PlacesFit, PlaceFits, Away
<1>14. LockFits'
  <2>1. \A u \in Thread : Owns(u)' <=> Owns(u)
    BY <1>0 DEF Owns
  <2>2. k'.value = k.value /\ k'.holder = k.holder /\ k'.repeat = k.repeat
    BY <1>5 DEF Objects
  <2>3. main_thread \in Thread
    BY KernelObjects
  <2>4. LockAt(main_thread)'
    BY <1>0, <2>1, <2>2, <2>3 DEF IoInv, LockFits, LockAt
  <2>5. \A u \in Thread : HeldFits(u)'
    BY <1>0, <2>1 DEF IoInv, LockFits, HeldFits
  <2> QED BY <1>0, <1>5, <2>4, <2>5 DEF LockFits
<1>15. WaitersFit'
  BY <1>0, <1>7 DEF IoInv, WaitersFit, Short
<1> QED BY <1>5, <1>10, <1>11, <1>12, <1>13, <1>14, <1>15 DEF IoInv

-----------------------------------------------------------------------------
(* The theorems.                                                           *)

\* Every step keeps the invariant.
LEMMA IoNextInv == IoInv /\ [IoNext]_allVars => IoInv'
<1> SUFFICES ASSUME IoInv, [IoNext]_allVars PROVE IoInv'
  OBVIOUS
<1>1. CASE timer /\ UNCHANGED queueVars
  BY <1>1, TickStep
<1>2. CASE idle /\ UNCHANGED queueVars
  BY <1>2, IdleBlocks
<1>3. ASSUME NEW child \in Process, spawn(main_thread, child) /\ UNCHANGED queueVars PROVE IoInv'
  BY <1>3, StartsProcess
<1>4. ASSUME NEW t \in Process,
             \/ enter_syscall(t) /\ UNCHANGED queueVars
             \/ return_to_user(t)
      PROVE  IoInv'
  BY <1>4, EnterStep, LeaveStep
<1>5. ASSUME NEW t \in Process,
             again(t) \/ \E o \in {"put", "get"}, n \in Counts : call(t, o, n)
      PROVE  IoInv'
  BY <1>5, FetchStep
<1>6. ASSUME NEW t \in Process, Continue(t, queue_lock) /\ UNCHANGED queueVars PROVE IoInv'
  BY <1>6, DownStep, FieldStep, UpStep DEF Continue
<1>7. ASSUME NEW t \in Process, release(t) \/ block(t) PROVE IoInv'
  BY <1>7, GiveUpStep, BlockStep
<1>8. ASSUME NEW t \in Process, ioqueue_put_data(t) \/ ioqueue_get_data(t) PROVE IoInv'
  BY <1>8, PutStep, GetStep
<1>9. CASE UNCHANGED allVars
  <2>1. /\ k' = k /\ pc' = pc /\ arg' = arg /\ held' = held
        /\ q' = q /\ io' = io /\ op' = op /\ count' = count
    BY <1>9 DEF allVars, vars, queueVars
  <2>2. IoCls' = IoCls
    BY <2>1 DEF IoCls, IoClass, WaitingList, Queued
  <2>3. IoTypeOK' /\ StatusFits'
    BY <2>1 DEF IoInv, IoTypeOK, TypeOK, StatusFits
  <2>4. PlacesFit'
    BY <2>1 DEF IoInv, PlacesFit, PlaceFits, Away
  <2>5. LockFits'
    BY <2>1 DEF IoInv, LockFits, LockAt, HeldFits, Owns
  <2>6. WaitersFit'
    BY <2>1 DEF IoInv, WaitersFit, Short, Queued
  <2> QED BY <2>1, <2>2, <2>3, <2>4, <2>5, <2>6 DEF IoInv
<1> QED BY <1>1, <1>2, <1>3, <1>4, <1>5, <1>6, <1>7, <1>8, <1>9 DEF IoNext, Transfer

\* IoInv holds in every reachable state: the lists of the scheduler agree with
\* the threads' status words, the waiting lists with where the threads stand
\* in ioqueue_put_data and ioqueue_get_data, the fields of the queue's lock
\* with who runs, and every thread on a waiting list is short of something.
THEOREM IoInvariance == IoSpec => []IoInv
<1>1. IoInit => IoInv
  BY IoInitInv
<1>2. IoInv /\ [IoNext]_allVars => IoInv'
  BY IoNextInv
<1> QED BY <1>1, <1>2, PTL DEF IoSpec

\* No assertion of the scheduler, the lock or the waiting lists fails under
\* puts and gets.
THEOREM QueuePanicFree == IoSpec => []NoPanic
<1>1. IoInv => NoPanic
  BY DEF IoInv, Sched, NoPanic
<1> QED BY <1>1, IoInvariance, PTL

\* No wake-up is lost: nobody sleeps for what the queue could give.
THEOREM NoLostSleep == IoSpec => []SleepersMustWait
<1>1. IoInv => SleepersMustWait
  BY DEF IoInv, WaitersFit, SleepersMustWait, Sleeping, Queued, Short
<1> QED BY <1>1, IoInvariance, PTL

\* Producers and consumers never sleep at the same time.
THEOREM SidesTakeTurns == IoSpec => []NoStandoff
<1>1. IoInv => NoStandoff
  BY DEF IoInv, WaitersFit, NoStandoff, Sleeping, Queued
<1> QED BY <1>1, IoInvariance, PTL

-----------------------------------------------------------------------------
(* Refinement.                                                             *)

\* A step is a put, a get or a forget of ByteFifo, or leaves the bytes alone.
LEMMA FifoStep == IoInv /\ [IoNext]_allVars => [AbstractFifo!Next]_<<Contents, data>>
<1> SUFFICES ASSUME IoInv, IoNext, ~UNCHANGED <<Contents, data>> PROVE AbstractFifo!Next
  BY DEF allVars, queueVars, Contents
<1>0. Contents = ContentOf(q) /\ Contents' = ContentOf(q') /\ IsQueue(q)
  BY DEF Contents, ContentOf, IoInv, IoTypeOK, Fetched, ioqueue_unread
<1>1. Len(ContentOf(q)) = ioqueue_unread(q)
  <2>1. ioqueue_unread(q) \in 0 .. ioqueue_unread(q)
    BY <1>0, UnreadIs
  <2> QED BY <1>0, <2>1, FetchedSeq DEF ContentOf
<1>2. ASSUME NEW t \in Process, ioqueue_put_data(t) PROVE AbstractFifo!Next
  <2>1. ioqueue_avaliable(q) > count[t]
    BY <1>0, <1>2 DEF ioqueue_put_data
  <2>2. /\ Contents' = Contents \o Record(t, count[t]) /\ data' = data
        /\ Len(Contents) + count[t] <= size - 1 /\ count[t] \in 1 .. size - 1
    BY <1>0, <1>1, <1>2, <2>1, PutEffect
  <2>3. AbstractFifo!Put(t, count[t])
    BY <2>2 DEF AbstractFifo!Put
  <2> QED BY <2>2, <2>3 DEF AbstractFifo!Next, Process
<1>3. ASSUME NEW t \in Process, ioqueue_get_data(t) PROVE AbstractFifo!Next
  <2>1. ioqueue_unread(q) >= count[t]
    BY <1>0, <1>3 DEF ioqueue_get_data
  <2>2. /\ Contents' = SubSeq(Contents, count[t] + 1, Len(Contents))
        /\ data' = [data EXCEPT ![t] = SubSeq(Contents, 1, count[t])]
        /\ count[t] <= Len(Contents) /\ count[t] \in 1 .. size - 1
    BY <1>0, <1>1, <1>3, <2>1, GetEffect
  <2>3. AbstractFifo!Get(t, count[t])
    BY <2>2 DEF AbstractFifo!Get
  <2> QED BY <2>2, <2>3 DEF AbstractFifo!Next, Process
<1>4. ASSUME NEW t \in Process, return_to_user(t) PROVE AbstractFifo!Next
  <2>1. AbstractFifo!Forget(t)
    BY <1>0, <1>4 DEF return_to_user, AbstractFifo!Forget
  <2> QED BY <2>1 DEF AbstractFifo!Next, Process
<1>5. \E t \in Process : ioqueue_put_data(t) \/ ioqueue_get_data(t) \/ return_to_user(t)
  BY <1>0 DEF IoNext, Transfer, queueVars, call, release, block, again
<1> QED BY <1>2, <1>3, <1>4, <1>5

\* The ring buffer under concurrent puts and gets implements ByteFifo, when the
\* pages that init_ioqueue takes hold all of it (BufferFits, as the package
\* queues' do and the pipes' do not): nothing is lost, doubled, reordered or
\* torn.
THEOREM FifoRefinement == IoSpec => ImplementsFifo
<1>1. IoInit => AbstractFifo!Init
  <2> SUFFICES ASSUME IoInit PROVE Contents = << >> /\ data = [t \in Thread |-> << >>]
    BY DEF AbstractFifo!Init
  <2>1. IsQueue(q) /\ ioqueue_unread(q) = 0
    BY IoInitInv DEF IoInit, IoInv, IoTypeOK, ioqueue_unread
  <2>2. 0 \in 0 .. ioqueue_unread(q)
    BY <2>1
  <2>3. Fetched(q, 0) \in Seq(Byte \cup {NULL}) /\ Len(Fetched(q, 0)) = 0
    BY <2>1, <2>2, FetchedSeq
  <2>4. Contents = << >>
    BY <2>1, <2>3 DEF Contents
  <2> QED BY <2>4 DEF IoInit
<1>2. IoInv /\ [IoNext]_allVars => [AbstractFifo!Next]_<<Contents, data>>
  BY FifoStep
<1> QED BY <1>1, <1>2, IoInvariance, PTL DEF IoSpec, ImplementsFifo, AbstractFifo!Spec
=============================================================================
