------------------------------ MODULE Threads ------------------------------
(***************************************************************************)
(* The scheduler and the sleeping primitives of core/thread: threads.c,    *)
(* semaphore.c and the wake-up half of sched.c, as operators from kernel   *)
(* state to kernel state.                                                  *)
(*                                                                         *)
(* A kernel state k is a list heap (nx, pv) with                           *)
(*   status, ticks   the fields of every TCB                               *)
(*   cur             running_thread()                                      *)
(*   value           the counter of every semaphore                        *)
(*   holder, repeat  the fields holder and holder_repeat_nr of every lock  *)
(*   panic           "none", or the ASSERT/PANIC that stopped the machine  *)
(*                                                                         *)
(* A thread stands for its own general_tag, a semaphore for its            *)
(* waiting_queue, a lock for the semaphore inside it.  An operator models  *)
(* the code between two points at which the CPU can be lost, which is the  *)
(* code the C runs with interrupts disabled; schedule() is such a point,   *)
(* so what a function does after schedule() returns is the caller's next   *)
(* action.  A failed ASSERT stops the operator there, as panic_print()     *)
(* stops the machine (cli; hlt).                                           *)
(***************************************************************************)
EXTENDS KernelList

CONSTANTS Thread,             \* every TCB
          Sem,                \* every struct semaphore
          Lock,               \* the semaphores that sit inside a struct lock
          thread_ready_list,
          main_thread, idle_thread, init_process,
          Priority            \* TCB field priority, in timer ticks

ASSUME KernelObjects ==
  /\ Node = Thread \cup Sem \cup {thread_ready_list}
  /\ Thread \cap Sem = {}
  /\ thread_ready_list \notin Thread \cup Sem
  /\ Lock \subseteq Sem
  /\ {main_thread, idle_thread, init_process} \subseteq Thread
  /\ main_thread # idle_thread
  /\ main_thread # init_process
  /\ idle_thread # init_process

ASSUME PriorityType == Priority \in [Thread -> Nat]

\* NONE: no TCB has been set up there yet.
RUNNING == "running"
READY   == "ready"
BLOCKED == "blocked"
WAITING == "waiting"
HANGING == "hanging"
NONE    == "none"

Status == {RUNNING, READY, BLOCKED, WAITING, HANGING, NONE}
Asleep == {BLOCKED, WAITING, HANGING}

\* The assertions, by the function they are in.
Panics == {"none", "start_thread", "thread_unblock_awake", "thread_unblock_ready",
           "schedule", "thread_yield", "semaphore_down_queued", "semaphore_down",
           "semaphore_up", "lock_fetch", "lock_release", "ide_write_sector",
           "add_to_waiting_list", "sys_exit", "no_parent"}

KernelState ==
  [nx     : [Node -> Node \cup {NULL}],
   pv     : [Node -> Node \cup {NULL}],
   status : [Thread -> Status],
   ticks  : [Thread -> Nat],
   cur    : Thread,
   value  : [Sem -> Nat],
   holder : [Lock -> Thread \cup {NULL}],
   repeat : [Lock -> Nat],
   panic  : Panics]

PANIC(k, why) == [k EXCEPT !.panic = why]
Halted(k) == k.panic # "none"

OnReadyList(k, t) == list_find_element(k, t, thread_ready_list)

\* Fault: the head of the list instead of its tail.
join_ready_first(k, t) ==
  [list_add(k, t, thread_ready_list) EXCEPT
     !.ticks[t] = Priority[t], !.status[t] = READY]

\* To the tail of the ready list with a full time slice.
join_ready(k, t) ==
  [list_add_tail(k, t, thread_ready_list) EXCEPT
     !.ticks[t] = Priority[t], !.status[t] = READY]

\* init_thread with the end of process_execute, thread_start and sys_fork.
start_thread(k, t) ==
  IF OnReadyList(k, t) THEN PANIC(k, "start_thread")
  ELSE join_ready(k, t)

thread_unblock(k, t) ==
  IF k.status[t] \notin Asleep THEN PANIC(k, "thread_unblock_awake")
  ELSE IF OnReadyList(k, t) THEN PANIC(k, "thread_unblock_ready")
  ELSE [list_add(k, t, thread_ready_list) EXCEPT !.status[t] = READY]

\* The first half of schedule(): what becomes of the thread that is leaving.
requeue(k) ==
  LET t == k.cur
  IN  IF k.status[t] = RUNNING
      THEN IF OnReadyList(k, t) THEN PANIC(k, "schedule")
           ELSE join_ready(k, t)
      ELSE IF k.status[t] = READY /\ ~OnReadyList(k, t)
      THEN list_add_tail(k, t, thread_ready_list)
      ELSE k

\* The last half: process_activate and switch_to.
switch_to_first(k) ==
  LET next == list_first(k, thread_ready_list)
  IN  [list_pop(k, thread_ready_list) EXCEPT
         !.status[next] = RUNNING, !.cur = next]

wake_idle(k) ==
  IF list_is_empty(k, thread_ready_list) THEN thread_unblock(k, idle_thread)
  ELSE k

schedule(k) ==
  LET left == requeue(k)
      some == wake_idle(left)
  IN  IF Halted(left) THEN left
      ELSE IF Halted(some) THEN some
      ELSE switch_to_first(some)

thread_block(k, status) == schedule([k EXCEPT !.status[k.cur] = status])

thread_yield(k) ==
  IF OnReadyList(k, k.cur) THEN PANIC(k, "thread_yield")
  ELSE schedule([list_add_tail(k, k.cur, thread_ready_list) EXCEPT
                   !.status[k.cur] = READY])

\* The timer interrupt, without the timers that timer_bh() runs.
inthandler20(k) ==
  IF k.ticks[k.cur] = 0 THEN schedule(k)
  ELSE [k EXCEPT !.ticks[k.cur] = @ - 1]

-----------------------------------------------------------------------------
(* Semaphores and locks.                                                   *)

\* Fault: blocks without joining the waiting queue.
semaphore_down_unqueued(k, s) ==
  IF k.value[s] = 0 THEN thread_block(k, BLOCKED) ELSE [k EXCEPT !.value[s] = @ - 1]

\* One pass of the loop of semaphore_down: take the semaphore, or queue up
\* and block.  The thread that is woken makes another pass.
semaphore_down(k, s) ==
  IF k.value[s] = 0
  THEN IF list_find_element(k, k.cur, s) THEN PANIC(k, "semaphore_down_queued")
       ELSE thread_block(list_add_tail(k, k.cur, s), BLOCKED)
  ELSE IF k.value[s] # 1 THEN PANIC(k, "semaphore_down")
  ELSE [k EXCEPT !.value[s] = @ - 1]

\* Fault: nobody is woken.
wake_first_never(k, s) == k

wake_first(k, s) ==
  IF list_is_empty(k, s) THEN k
  ELSE thread_unblock(list_pop(k, s), list_first(k, s))

semaphore_up(k, s) ==
  LET woken == wake_first(k, s)
  IN  IF Halted(woken) THEN woken
      ELSE IF k.value[s] # 0 THEN PANIC(woken, "semaphore_up")
      ELSE [woken EXCEPT !.value[s] = @ + 1]

-----------------------------------------------------------------------------
(* The list invariant.  cls names for every node the list it is on: a list *)
(* head is on its own list, and so, by convention, is a tag that is on no  *)
(* list.  The forward and the backward links are inverse, a link never     *)
(* leaves a list, and a tag is reached from the head of its list, that is, *)
(* it lies in every set that contains the head and is closed under next.   *)

Pointers == [Node -> Node \cup {NULL}]
Classes == [Node -> Node]

Closed(nx, S) == \A m \in S : nx[m] \in S \cup {NULL}

Reached(nx, head, n) == \A S \in SUBSET Node : head \in S /\ Closed(nx, S) => n \in S

Linked(nx, pv, cls) ==
  /\ \A n \in Node : nx[n] \in Node => pv[nx[n]] = n /\ cls[nx[n]] = cls[n]
  /\ \A n \in Node : pv[n] \in Node => nx[pv[n]] = n
  /\ \A n \in Node : nx[n] = NULL <=> pv[n] = NULL
  /\ \A n \in Node \ Thread : cls[n] = n /\ nx[n] \in Node
  /\ \A n \in Node : cls[n] # n => cls[n] \in Node \ Thread
  /\ \A n \in Node : Reached(nx, cls[n], n)

\* What every function of the scheduler relies on and restores: the machine
\* runs, the lists are in order, and the ready list is that of the ready
\* threads.
Sched(k, cls) ==
  /\ k \in KernelState /\ ~Halted(k)
  /\ cls \in Classes /\ Linked(k.nx, k.pv, cls)
  /\ \A t \in Thread : k.status[t] = READY <=> cls[t] = thread_ready_list
=============================================================================
