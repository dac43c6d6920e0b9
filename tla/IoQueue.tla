------------------------------ MODULE IoQueue ------------------------------
(***************************************************************************)
(* The I/O queues of core/lib/ioqueue.c, which carry the bytes of a pipe   *)
(* and the packets of the package file system, on top of the scheduler and *)
(* the locks.                                                              *)
(*                                                                         *)
(* Processes put and get in system calls, so the CPU is lost only where    *)
(* lock_fetch or thread_block gives it up; the timer preempts user code,   *)
(* main and idle.  The two waiting lists are members of Sem \ Lock.        *)
(*                                                                         *)
(* The buffer lies behind the header in the pages that init_ioqueue takes, *)
(* and only the slots there (Slots) are its own.  BufferFits says that all *)
(* are.  It is true of the 4000 bytes of the package queues; sys_pipe asks *)
(* for 4096, which with the header is more than the one page it gets: the  *)
(* last slots of a pipe are memory of somebody else, and what others write *)
(* there, or a pipe writes over theirs, is not modelled.                   *)
(*                                                                         *)
(* io[t] is where thread t stands, when pc[t] = "kernel":                  *)
(*   "none"     outside the queue                                          *)
(*   "round"    in the loop, with the lock                                 *)
(*   "release"  lock_release, its request served                           *)
(*   "wait"     lock_release, its request not served                       *)
(*   "block"    thread_block, and "again" once it returns                  *)
(***************************************************************************)
EXTENDS Locks

CONSTANTS queue_lock, producer_waiting_list, consumor_waiting_list,
          size,       \* the size of the buffer
          PG_SIZE, HEADER,   \* the bytes of a page and of a CircleQueue before buf
          Counts      \* the sizes of puts and gets

ASSUME QueueObjects ==
  /\ IsFiniteSet(Thread)
  /\ queue_lock \in Lock
  /\ {producer_waiting_list, consumor_waiting_list} \subseteq Sem \ Lock
  /\ producer_waiting_list # consumor_waiting_list
  /\ size \in Nat \ {0, 1} /\ Counts \subseteq 1 .. size - 2

\* What init_ioqueue asks of get_kernel_page.
pg_count ==
  IF size > PG_SIZE + HEADER THEN (size + (PG_SIZE + HEADER) - 1) \div (PG_SIZE + HEADER) ELSE 1

Slots == {i \in 0 .. size - 1 : HEADER + i < pg_count * PG_SIZE}

ASSUME BufferFits ==
  /\ PG_SIZE \in Nat \ {0} /\ HEADER \in Nat \ {0}
  /\ HEADER + size <= pg_count * PG_SIZE

VARIABLES q,       \* buf, producer_p, consumor_p
          io,
          op,      \* "put" or "get"
          count,
          data     \* what the last get of a thread returned, until it leaves

queueVars == <<q, io, op, count, data>>
allVars == <<vars, queueVars>>

Record(t, n) == [i \in 1 .. n |-> [from |-> t, nr |-> i, of |-> n]]

\* init_ioqueue, when get_kernel_page has a page: otherwise sys_pipe returns -1
\* and there is no queue.  The content of the fresh page does not matter.
IoInit ==
  /\ Init
  /\ q = [buf |-> [i \in Slots |-> NULL], producer_p |-> 0, consumor_p |-> 0]
  /\ io = [t \in Thread |-> "none"] /\ op = [t \in Thread |-> "put"]
  /\ count = [t \in Thread |-> 0] /\ data = [t \in Thread |-> << >>]

-----------------------------------------------------------------------------
ioqueue_avaliable(r) ==
  IF r.consumor_p = r.producer_p THEN size - 1
  ELSE IF r.consumor_p > r.producer_p THEN r.consumor_p - r.producer_p - 1
  ELSE (size - r.producer_p) + r.consumor_p - 1

ioqueue_unread(r) ==
  IF r.consumor_p = r.producer_p THEN 0
  ELSE IF r.consumor_p > r.producer_p THEN (size - r.consumor_p) + r.producer_p
  ELSE r.producer_p - r.consumor_p

next_index(i) == (i + 1) % size

ioqueue_put_byte(r, byte) ==
  IF ioqueue_avaliable(r) = 0 THEN r
  ELSE [r EXCEPT !.buf[r.producer_p] = byte, !.producer_p = next_index(@)]

\* The inner loop of ioqueue_put_data: stores the record as far as it fits.
Store(r, record) ==
  LET after[i \in 0 .. Len(record)] ==
        IF i = 0 THEN r ELSE ioqueue_put_byte(after[i - 1], record[i])
  IN  after[Len(record)]

\* The inner loop of ioqueue_get_data: the n bytes it reads, and the queue
\* that it leaves.  The slots it leaves are dead, and forgotten.
Fetched(r, n) == [i \in 1 .. n |-> r.buf[(r.consumor_p + i - 1) % size]]
Unload(r, n) ==
  [r EXCEPT !.consumor_p = (@ + n) % size,
            !.buf = [i \in DOMAIN r.buf |->
                       IF \E j \in 0 .. n - 1 : i = (r.consumor_p + j) % size THEN NULL ELSE @[i]]]

\* Fault: only the first is woken.
____wake_up_first(h, list) ==
  IF list_is_empty(h, list) THEN h
  ELSE thread_unblock(list_pop(h, list), list_first(h, list))

\* list_length(h, list) is 0: the case it tests first.  A length it counts is
\* at least 1.
NobodyWaits(h, list) == h.nx[list] = h.pv[list] /\ h.nx[list] = list

wake_waiter(h, list) ==
  IF Halted(h) \/ NobodyWaits(h, list) THEN h
  ELSE thread_unblock(list_pop(h, list), list_first(h, list))

\* wake_up_consumors and wake_up_producers, with their test before the loop.
____wake_up(h, list) ==
  LET after[i \in 0 .. Cardinality(Thread)] ==
        IF i = 0 THEN h ELSE wake_waiter(after[i - 1], list)
  IN  IF list_is_empty(h, list) THEN h ELSE after[Cardinality(Thread)]

add_to_waiting_list(h, list) ==
  IF Halted(h) THEN h
  ELSE IF list_find_element(h, h.cur, list) THEN PANIC(h, "add_to_waiting_list")
  ELSE list_add_tail(h, h.cur, list)

-----------------------------------------------------------------------------
At(t, where) == OnCpu(t, "kernel") /\ io[t] = where

Step(t, where) == io' = [io EXCEPT ![t] = where]

\* ioqueue_put_data and ioqueue_get_data, up to lock_fetch.
call(t, o, n) ==
  /\ At(t, "none") /\ t \in Process /\ data[t] = << >>
  /\ lock_fetch(t, queue_lock)
  /\ op' = [op EXCEPT ![t] = o] /\ count' = [count EXCEPT ![t] = n]
  /\ Step(t, "round")
  /\ UNCHANGED <<q, data>>

\* The rest of a round on state h: the request is served, or its thread joins
\* the waiting list.
EndRound(t, h, served, list) ==
  /\ k' = IF served THEN h ELSE add_to_waiting_list(h, list)
  /\ Step(t, IF served THEN "release" ELSE "wait")
  /\ UNCHANGED <<pc, arg, held, op, count>>

\* Fault: wakes the consumers only when it has written.
ioqueue_put_data_quiet(t) ==
  LET served == ioqueue_avaliable(q) > count[t]
  IN  /\ At(t, "round") /\ op[t] = "put"
      /\ q' = IF served THEN Store(q, Record(t, count[t])) ELSE q
      /\ EndRound(t, IF served THEN ____wake_up(k, consumor_waiting_list) ELSE k,
                  served, producer_waiting_list)
      /\ UNCHANGED data

\* Fault: writes what there is room for.
ioqueue_put_data_part(t) ==
  LET served == ioqueue_avaliable(q) > 0
  IN  /\ At(t, "round") /\ op[t] = "put"
      /\ q' = IF served THEN Store(q, Record(t, count[t])) ELSE q
      /\ EndRound(t, ____wake_up(k, consumor_waiting_list), served, producer_waiting_list)
      /\ UNCHANGED data

ioqueue_put_data(t) ==
  LET served == ioqueue_avaliable(q) > count[t]
  IN  /\ At(t, "round") /\ op[t] = "put"
      /\ q' = IF served THEN Store(q, Record(t, count[t])) ELSE q
      /\ EndRound(t, ____wake_up(k, consumor_waiting_list), served, producer_waiting_list)
      /\ UNCHANGED data

ioqueue_get_data(t) ==
  LET served == ioqueue_unread(q) >= count[t]
  IN  /\ At(t, "round") /\ op[t] = "get"
      /\ q' = IF served THEN Unload(q, count[t]) ELSE q
      /\ data' = IF served THEN [data EXCEPT ![t] = Fetched(q, count[t])] ELSE data
      /\ EndRound(t, ____wake_up(k, producer_waiting_list), served, consumor_waiting_list)

\* lock_release in both branches.
release(t) ==
  /\ At(t, "release") \/ At(t, "wait")
  /\ lock_release(t, queue_lock)
  /\ Step(t, IF io[t] = "release" THEN "none" ELSE "block")
  /\ count' = [count EXCEPT ![t] = IF io[t] = "release" THEN 0 ELSE @]
  /\ op' = [op EXCEPT ![t] = IF io[t] = "release" THEN "put" ELSE @]
  /\ UNCHANGED <<q, data>>

block(t) ==
  /\ At(t, "block")
  /\ k' = thread_block(k, WAITING)
  /\ Step(t, "again")
  /\ UNCHANGED <<pc, arg, held, q, op, count, data>>

again(t) ==
  /\ At(t, "again")
  /\ lock_fetch(t, queue_lock)
  /\ Step(t, "round")
  /\ UNCHANGED <<q, op, count, data>>

Transfer(t) ==
  \/ ioqueue_put_data(t) \/ ioqueue_get_data(t) \/ release(t) \/ block(t) \/ again(t)
  \/ Continue(t, queue_lock) /\ UNCHANGED queueVars

\* The caller is done with its data.
return_to_user(t) ==
  /\ io[t] = "none" /\ leave_syscall(t)
  /\ data' = [data EXCEPT ![t] = << >>]
  /\ UNCHANGED <<q, io, op, count>>

IoNext ==
  \/ (timer \/ idle) /\ UNCHANGED queueVars
  \/ \E child \in Process : spawn(main_thread, child) /\ UNCHANGED queueVars
  \/ \E t \in Process :
       \/ enter_syscall(t) /\ UNCHANGED queueVars
       \/ \E o \in {"put", "get"}, n \in Counts : call(t, o, n)
       \/ Transfer(t) \/ return_to_user(t)

IoSpec == IoInit /\ [][IoNext]_allVars

-----------------------------------------------------------------------------
(* Properties.                                                             *)

Sleeping(t, o) == k.status[t] = WAITING /\ op[t] = o

\* No wake-up is lost: nobody sleeps for what the queue could give.
SleepersMustWait ==
  \A t \in Thread : /\ Sleeping(t, "put") => ioqueue_avaliable(q) <= count[t]
                    /\ Sleeping(t, "get") => ioqueue_unread(q) < count[t]

\* Producers and consumers never sleep at the same time, even when a put and
\* a get together ask for more than the buffer has: whoever goes to sleep
\* last has woken the other side.  (Such a pair then polls in turns.)
NoStandoff == \A t, u \in Thread : ~(Sleeping(t, "put") /\ Sleeping(u, "get"))

\* The bytes in the buffer, oldest first.
Contents == Fetched(q, ioqueue_unread(q))

\* The ring buffer under concurrent puts and gets, in memory of its own
\* (BufferFits), is a bounded queue of bytes: nothing is lost, doubled,
\* reordered or torn.
AbstractFifo == INSTANCE ByteFifo WITH fifo <- Contents, out <- data, Capacity <- size - 1
ImplementsFifo == AbstractFifo!Spec

-----------------------------------------------------------------------------
(* The inductive invariant.  A process holds the queue's lock only with    *)
(* interrupts off and never blocks with it, so the lock is never found     *)
(* taken, and at most the running thread is inside the queue.              *)

WaitingList(o) == IF o = "put" THEN producer_waiting_list ELSE consumor_waiting_list

\* t is on a waiting list: asleep, or about to be.
Queued(t) == k.status[t] = WAITING \/ io[t] \in {"wait", "block"}

IoClass(n) ==
  IF n \notin Thread THEN n
  ELSE IF k.status[n] = READY THEN thread_ready_list
  ELSE IF Queued(n) THEN WaitingList(op[n])
  ELSE n

IoCls == [n \in Node |-> IoClass(n)]

Byte == [from : Thread, nr : Nat, of : Nat]

IsQueue(r) ==
  r \in [buf : [Slots -> Byte \cup {NULL}],
         producer_p : 0 .. size - 1, consumor_p : 0 .. size - 1]

Where == {"none", "round", "release", "wait", "block", "again"}

IoTypeOK ==
  /\ TypeOK /\ IsQueue(q)
  /\ io \in [Thread -> Where] /\ op \in [Thread -> {"put", "get"}]
  /\ count \in [Thread -> Counts \cup {0}]
  /\ \A t \in Thread : io[t] # "none" => count[t] \in Counts

StatusFits ==
  /\ \A t \in Thread : k.status[t] = RUNNING <=> t = k.cur
  /\ \A t \in Thread : k.status[t] \in {RUNNING, READY, BLOCKED, WAITING, NONE}
  /\ \A t \in Thread : k.status[t] = BLOCKED => t = idle_thread
  /\ \A t \in Thread : k.status[t] = NONE => t \in Process /\ io[t] = "none"
  /\ \A t \in Thread : k.status[t] = WAITING => io[t] = "again"

PlaceFits(t) ==
  \/ pc[t] = "user" /\ io[t] = "none"
  \/ pc[t] = "kernel"
  \/ pc[t] \in {"down", "taken", "held"} /\ io[t] = "round" /\ arg[t] = queue_lock
  \/ pc[t] \in {"freed", "zeroed"} /\ io[t] \in {"none", "block"} /\ arg[t] = queue_lock

\* Where a process can lose the CPU.
Away(t) == (pc[t] = "user" /\ io[t] = "none") \/ (pc[t] = "kernel" /\ io[t] = "again")

PlacesFit ==
  /\ pc[idle_thread] \in {"block", "hlt"} /\ io[idle_thread] = "none"
  /\ pc[main_thread] = "kernel" /\ io[main_thread] = "none"
  /\ \A t \in Process : PlaceFits(t) /\ (t # k.cur => Away(t))

\* t is between semaphore_down and semaphore_up of the lock.
Owns(t) ==
  \/ pc[t] \in {"taken", "held", "freed", "zeroed"}
  \/ pc[t] = "kernel" /\ io[t] \in {"round", "release", "wait"}

\* The fields of the lock, when t runs.
LockAt(t) ==
  /\ k.value[queue_lock] = IF Owns(t) THEN 0 ELSE 1
  /\ k.holder[queue_lock] = IF Owns(t) /\ pc[t] \in {"held", "kernel"} THEN t ELSE NULL
  /\ k.repeat[queue_lock] = IF Owns(t) /\ pc[t] \in {"freed", "kernel"} THEN 1 ELSE 0

HeldFits(t) == \A l \in Lock : held[t][l] = IF l = queue_lock /\ Owns(t) THEN 1 ELSE 0

LockFits == LockAt(k.cur) /\ \A t \in Thread : HeldFits(t)

\* The queue has not what t asks for.
Short(t) ==
  IF op[t] = "put" THEN ioqueue_avaliable(q) <= count[t] ELSE ioqueue_unread(q) < count[t]

WaitersFit ==
  /\ \A t \in Thread : Queued(t) => Short(t)
  /\ \A t, u \in Thread : Queued(t) /\ Queued(u) => op[t] = op[u]

IoInv ==
  /\ IoTypeOK /\ Sched(k, IoCls)
  /\ StatusFits /\ PlacesFit /\ LockFits /\ WaitersFit
=============================================================================
