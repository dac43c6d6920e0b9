------------------------------- MODULE Locks -------------------------------
(***************************************************************************)
(* Threads that fetch and release the kernel's recursive locks while the   *)
(* timer preempts them: core/thread/semaphore.c on top of the scheduler of *)
(* Threads.                                                                *)
(*                                                                         *)
(* One CPU.  main_thread and idle_thread are kernel threads and run with   *)
(* interrupts enabled, so between any two C statements of lock_fetch and   *)
(* lock_release the timer may take the CPU from main_thread.  Every other  *)
(* thread is a process: user code runs with interrupts enabled, a system   *)
(* call (an interrupt gate, protect.c) with interrupts disabled, and only  *)
(* blocking takes the CPU from it there.  semaphore_down and semaphore_up  *)
(* disable interrupts in both.                                             *)
(*                                                                         *)
(* pc[t] is where thread t stands:                                         *)
(*   "user"     in user mode (processes only)                              *)
(*   "kernel"   in kernel code, outside the lock functions                 *)
(*   "down"     lock_fetch, before semaphore_down                          *)
(*   "queued"   semaphore_down, interrupts off, blocked or about to look   *)
(*              at the counter again                                       *)
(*   "taken", "held", "freed", "zeroed"                                    *)
(*              between the assignments of lock_fetch and lock_release     *)
(*   "block", "hlt"   the two statements of idle()                         *)
(***************************************************************************)
EXTENDS Threads

CONSTANTS Nests,      \* <<l, m>>: some function fetches m while it holds l
          MaxRepeat   \* bound: how often one thread fetches one lock

ASSUME NestsType == Nests \subseteq Lock \X Lock
ASSUME MaxRepeatType == MaxRepeat \in Nat \ {0}

VARIABLES k,      \* the kernel state of Threads
          pc,
          arg,    \* the lock of the call of lock_fetch or lock_release
          held    \* held[t][l]: fetches of l that t has not undone (history)

vars == <<k, pc, arg, held>>

Process == Thread \ {main_thread, idle_thread}

PC == {"user", "kernel", "down", "queued", "taken", "held", "freed", "zeroed",
       "block", "hlt"}

TypeOK ==
  /\ k \in KernelState
  /\ pc \in [Thread -> PC]
  /\ arg \in [Thread -> Lock \cup {NULL}]
  /\ held \in [Thread -> [Lock -> Nat]]

-----------------------------------------------------------------------------
(* The state thread_init() leaves: main runs, its tag never linked; init   *)
(* and idle wait on the ready list in the order of their creation.         *)

BootNext == [n \in Node |->
  CASE n = thread_ready_list -> init_process
    [] n = init_process      -> idle_thread
    [] n = idle_thread       -> thread_ready_list
    [] n \in Sem             -> n
    [] OTHER                 -> NULL]

BootPrev == [n \in Node |->
  CASE n = thread_ready_list -> idle_thread
    [] n = init_process      -> thread_ready_list
    [] n = idle_thread       -> init_process
    [] n \in Sem             -> n
    [] OTHER                 -> NULL]

thread_init ==
  [nx     |-> BootNext,
   pv     |-> BootPrev,
   status |-> [t \in Thread |->
                 CASE t = main_thread -> RUNNING
                   [] t \in {init_process, idle_thread} -> READY
                   [] OTHER -> NONE],
   ticks  |-> Priority,
   cur    |-> main_thread,
   value  |-> [s \in Sem |-> IF s \in Lock THEN 1 ELSE 0],
   holder |-> [l \in Lock |-> NULL],
   repeat |-> [l \in Lock |-> 0],
   panic  |-> "none"]

Init ==
  /\ k = thread_init
  /\ pc = [t \in Thread |-> CASE t = main_thread -> "kernel"
                              [] t = idle_thread -> "block"
                              [] OTHER -> "user"]
  /\ arg = [t \in Thread |-> NULL]
  /\ held = [t \in Thread |-> [l \in Lock |-> 0]]

-----------------------------------------------------------------------------
OnCpu(t, where) == k.cur = t /\ pc[t] = where /\ ~Halted(k)

Goto(t, where) == pc' = [pc EXCEPT ![t] = where]

Count(t, l, n) == held' = [held EXCEPT ![t][l] = n]

Holds(t, l) == held[t][l] > 0

\* What the callers of lock_fetch do: nesting follows Nests.
MayFetch(t, l) ==
  /\ held[t][l] < MaxRepeat
  /\ Holds(t, l) \/ \A m \in Lock : Holds(t, m) => <<m, l>> \in Nests

enter_syscall(t) ==
  /\ OnCpu(t, "user") /\ Goto(t, "kernel") /\ UNCHANGED <<k, arg, held>>

leave_syscall(t) ==
  /\ OnCpu(t, "kernel") /\ t \in Process /\ \A l \in Lock : ~Holds(t, l)
  /\ Goto(t, "user") /\ UNCHANGED <<k, arg, held>>

\* process_execute by main, sys_fork by a process.
spawn(t, child) ==
  /\ OnCpu(t, "kernel") /\ k.status[child] = NONE
  /\ k' = start_thread(k, child)
  /\ UNCHANGED <<pc, arg, held>>

\* Fault: tests that the lock has a holder, not who it is.
lock_fetch_again_any(t, l) ==
  /\ OnCpu(t, "kernel") /\ MayFetch(t, l) /\ k.holder[l] # NULL
  /\ k' = [k EXCEPT !.repeat[l] = @ + 1]
  /\ Count(t, l, held[t][l] + 1)
  /\ UNCHANGED <<pc, arg>>

lock_fetch_again(t, l) ==
  /\ OnCpu(t, "kernel") /\ MayFetch(t, l) /\ k.holder[l] = t
  /\ k' = [k EXCEPT !.repeat[l] = @ + 1]
  /\ Count(t, l, held[t][l] + 1)
  /\ UNCHANGED <<pc, arg>>

lock_fetch(t, l) ==
  /\ OnCpu(t, "kernel") /\ MayFetch(t, l) /\ k.holder[l] # t
  /\ arg' = [arg EXCEPT ![t] = l]
  /\ Goto(t, "down")
  /\ UNCHANGED <<k, held>>

\* Fault: "if" for the "while" of semaphore_down, so that a woken thread does
\* not look at the counter again.
lock_fetch_down_once(t, l) ==
  /\ OnCpu(t, "down") \/ OnCpu(t, "queued")
  /\ arg[t] = l
  /\ IF pc[t] = "down" /\ k.value[l] = 0
     THEN k' = semaphore_down(k, l) /\ Goto(t, "queued") /\ UNCHANGED held
     ELSE k' = [k EXCEPT !.value[l] = 0] /\ Goto(t, "taken") /\ Count(t, l, held[t][l] + 1)
  /\ UNCHANGED arg

lock_fetch_down(t, l) ==
  /\ OnCpu(t, "down") \/ OnCpu(t, "queued")
  /\ arg[t] = l
  /\ k' = semaphore_down(k, l)
  /\ IF k.value[l] = 0
     THEN Goto(t, "queued") /\ UNCHANGED held
     ELSE Goto(t, "taken") /\ Count(t, l, held[t][l] + 1)
  /\ UNCHANGED arg

lock_fetch_holder(t, l) ==
  /\ OnCpu(t, "taken") /\ arg[t] = l
  /\ k' = [k EXCEPT !.holder[l] = t]
  /\ Goto(t, "held")
  /\ UNCHANGED <<arg, held>>

lock_fetch_repeat(t, l) ==
  /\ OnCpu(t, "held") /\ arg[t] = l
  /\ k' = IF k.repeat[l] # 0 THEN PANIC(k, "lock_fetch")
          ELSE [k EXCEPT !.repeat[l] = 1]
  /\ Goto(t, "kernel")
  /\ UNCHANGED <<arg, held>>

lock_release_again(t, l) ==
  /\ OnCpu(t, "kernel") /\ Holds(t, l) /\ k.repeat[l] > 1
  /\ k' = [k EXCEPT !.repeat[l] = @ - 1]
  /\ Count(t, l, held[t][l] - 1)
  /\ UNCHANGED <<pc, arg>>

lock_release(t, l) ==
  /\ OnCpu(t, "kernel") /\ Holds(t, l) /\ k.repeat[l] <= 1
  /\ k' = IF k.repeat[l] # 1 THEN PANIC(k, "lock_release")
          ELSE [k EXCEPT !.holder[l] = NULL]
  /\ arg' = [arg EXCEPT ![t] = l]
  /\ Goto(t, "freed")
  /\ UNCHANGED held

\* Fault: holder_repeat_nr is not reset.
lock_release_repeat_kept(t, l) ==
  /\ OnCpu(t, "freed") /\ arg[t] = l
  /\ Goto(t, "zeroed")
  /\ UNCHANGED <<k, arg, held>>

lock_release_repeat(t, l) ==
  /\ OnCpu(t, "freed") /\ arg[t] = l
  /\ k' = [k EXCEPT !.repeat[l] = 0]
  /\ Goto(t, "zeroed")
  /\ UNCHANGED <<arg, held>>

lock_release_up(t, l) ==
  /\ OnCpu(t, "zeroed") /\ arg[t] = l
  /\ k' = semaphore_up(k, l)
  /\ Count(t, l, held[t][l] - 1)
  /\ Goto(t, "kernel")
  /\ UNCHANGED arg

idle == 
  /\ OnCpu(idle_thread, "block")
  /\ k' = thread_block(k, BLOCKED)
  /\ Goto(idle_thread, "hlt")
  /\ UNCHANGED <<arg, held>>

\* main and idle are preempted anywhere.  So is the first run of a process, from the
\* sti of kernel_thread through start_process to intr_exit: it calls nothing of
\* this module and counts as "user" here (its page allocations are in Memory).
InterruptsOn(t) ==
  \/ pc[t] = "user"
  \/ t \in {main_thread, idle_thread} /\ pc[t] # "queued"

\* An interrupt also ends the hlt of idle().
timer ==
  /\ ~Halted(k) /\ InterruptsOn(k.cur)
  /\ k' = inthandler20(k)
  /\ pc' = [pc EXCEPT ![idle_thread] = IF k.cur = idle_thread THEN "block" ELSE @]
  /\ UNCHANGED <<arg, held>>

\* The rest of a lock function, once it is entered.
Continue(t, l) ==
  \/ lock_fetch_down(t, l) \/ lock_fetch_holder(t, l) \/ lock_fetch_repeat(t, l)
  \/ lock_release_repeat(t, l) \/ lock_release_up(t, l)

Release(t, l) == lock_release_again(t, l) \/ lock_release(t, l)

Finish(t) == \E l \in Lock : Continue(t, l) \/ Release(t, l)

Next ==
  \/ timer \/ idle
  \/ \E t \in Thread :
       \/ enter_syscall(t) \/ leave_syscall(t)
       \/ \E child \in Process : spawn(t, child)
       \/ \E l \in Lock : lock_fetch_again(t, l) \/ lock_fetch(t, l)
       \/ Finish(t)

Spec == Init /\ [][Next]_vars

(***************************************************************************)
(* Fairness.  A thread that is given the CPU again and again executes its  *)
(* instructions: a time slice is many instructions long.  A timer          *)
(* interrupt stays pending in the 8259A until interrupts are enabled.  A   *)
(* system call performs finitely many lock operations, releases what it    *)
(* fetched and returns.                                                    *)
(***************************************************************************)
Fairness ==
  /\ SF_vars(timer)
  /\ \A t \in Process \cup {main_thread} :
       SF_vars(Finish(t)) /\ \A l \in Lock : SF_vars(lock_release(t, l))
  /\ \A t \in Process : SF_vars(leave_syscall(t))

FairSpec == Spec /\ Fairness

-----------------------------------------------------------------------------
(* Properties.                                                             *)

\* The list that a thread's general_tag belongs on, given the thread's
\* status; a running thread and the blocked idle thread are on none.
Class(n) ==
  IF n \notin Thread THEN n
  ELSE IF k.status[n] = READY THEN thread_ready_list
  ELSE IF k.status[n] = BLOCKED /\ n # idle_thread THEN arg[n]
  ELSE n

Cls == [n \in Node |-> Class(n)]

\* No ASSERT and no PANIC of threads.c or semaphore.c ever fires.
NoPanic == ~Halted(k)

\* A lock is owned by at most one thread, from the return of semaphore_down
\* in lock_fetch to the call of semaphore_up in lock_release.
MutualExclusion ==
  \A l \in Lock : \A t, u \in Thread : Holds(t, l) /\ Holds(u, l) => t = u

\* lock_fetch and lock_release, statement by statement and under preemption,
\* behave as the recursive lock that their callers take them for.
AbstractLock == INSTANCE RecursiveLock WITH count <- held
ImplementsLock == AbstractLock!Spec

Coming(t, l) == pc[t] = "queued" /\ arg[t] = l /\ k.status[t] \in {READY, RUNNING}

\* semaphore_up wakes one waiter and the woken thread may find the counter
\* at 0 again; still no waiter sleeps beside a free lock without another
\* thread awake that is on its way to taking it.
NoLostWakeup ==
  \A l \in Lock :
    k.value[l] = 1 /\ ~list_is_empty(k, l) => \E t \in Thread : Coming(t, l)

\* No ready thread is starved, although thread_unblock lets the woken thread
\* overtake everyone on the ready list.
ReadyRuns == \A t \in Thread : k.status[t] = READY ~> k.cur = t

\* A thread queued on a lock is woken again.
QueuedIsWoken ==
  \A t \in Process \cup {main_thread} : k.status[t] = BLOCKED ~> k.status[t] = READY

-----------------------------------------------------------------------------
(* The inductive invariant.                                                *)

StatusInv ==
  /\ \A t \in Thread : k.status[t] = RUNNING <=> t = k.cur
  /\ \A t \in Thread : k.status[t] \in {RUNNING, READY, BLOCKED, NONE}
  /\ \A t \in Thread : k.status[t] = NONE => t \in Process
  /\ \A t \in Thread \ {idle_thread} : k.status[t] = BLOCKED => pc[t] = "queued"

PcInv ==
  /\ pc[idle_thread] \in {"block", "hlt"}
  /\ \A t \in Thread \ {idle_thread} : pc[t] \notin {"block", "hlt"}
  /\ \A t \in Thread : pc[t] \in {"down", "queued", "taken", "held", "freed", "zeroed"} =>
                         arg[t] \in Lock

\* Between the statements of lock_fetch and lock_release, the fields of the
\* lock that thread t owns.
Stage(t, l) ==
  CASE arg[t] = l /\ pc[t] = "taken"  -> held[t][l] = 1 /\ k.holder[l] = NULL /\ k.repeat[l] = 0
    [] arg[t] = l /\ pc[t] = "held"   -> held[t][l] = 1 /\ k.holder[l] = t /\ k.repeat[l] = 0
    [] arg[t] = l /\ pc[t] = "freed"  -> held[t][l] = 1 /\ k.holder[l] = NULL /\ k.repeat[l] = 1
    [] arg[t] = l /\ pc[t] = "zeroed" -> held[t][l] = 1 /\ k.holder[l] = NULL /\ k.repeat[l] = 0
    [] OTHER -> k.holder[l] = t /\ k.repeat[l] = held[t][l]

LockInv ==
  /\ \A l \in Lock : k.value[l] \in {0, 1}
  /\ \A l \in Lock : k.value[l] = 1 => k.holder[l] = NULL /\ k.repeat[l] = 0
  /\ \A l \in Lock : k.value[l] = 0 => \E t \in Thread : Holds(t, l)
  /\ \A t \in Thread, l \in Lock : Holds(t, l) => k.value[l] = 0 /\ Stage(t, l)
  /\ \A t \in Thread : pc[t] \in {"taken", "held", "freed", "zeroed"} => Holds(t, arg[t])
  /\ \A t \in Thread : pc[t] \in {"down", "queued"} => ~Holds(t, arg[t])

WakeInv ==
  \A l \in Lock : k.value[l] = 1 /\ (\E t \in Thread : Class(t) = l) =>
                    \E t \in Thread : Coming(t, l)

Inv ==
  /\ TypeOK /\ Sched(k, Cls) /\ StatusInv /\ PcInv
  /\ LockInv /\ MutualExclusion /\ WakeInv
=============================================================================
