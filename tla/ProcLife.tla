------------------------------ MODULE ProcLife ------------------------------
(***************************************************************************)
(* The life of a process: process_execute, sys_fork, sys_exit, sys_wait    *)
(* and thread_exit (core/thread) on the scheduler of Threads.              *)
(*                                                                         *)
(* A system call loses the CPU only in thread_block.  The locks of the pid *)
(* map and of the page pools are free whenever a process needs them: no    *)
(* process blocks with one of them, and process_execute is an action.      *)
(* Pages are left out but for the places where fork finds none.  A thread  *)
(* stands for its TCB and for both of its list nodes; thread_all_list is   *)
(* the sequence `all', as no node of it is ever misused.                   *)
(***************************************************************************)
EXTENDS Locks, Integers, SequencesExt

CONSTANTS ExitStatus,
          MaxPid     \* bound: fork is not tried when all pids to here are in use

\* thread_init takes the first three pids.
ASSUME LifeBounds == MaxPid \in Nat /\ MaxPid >= 3

VARIABLES all, pid, parent_pid,
          pid_bm,       \* the pids in use
          exit_status,
          in_wait,      \* the threads inside sys_wait
          answer        \* what sys_wait returned, until the process leaves

lifeVars == <<all, pid, parent_pid, pid_bm, exit_status, in_wait, answer>>

NO_PID == -1
INIT_PID == 1

NoAnswer == <<NULL, NULL>>
NoChildren == <<NULL, "no children">>

\* thread_init: init is 1; main takes 2 and is then called 0; idle is 3.
LifeInit ==
  /\ Init
  /\ all = <<init_process, main_thread, idle_thread>>
  /\ pid = [t \in Thread |-> CASE t = init_process -> INIT_PID [] t = idle_thread -> 3 [] OTHER -> 0]
  /\ parent_pid = [t \in Thread |-> NO_PID]
  /\ pid_bm = {1, 2, 3}
  /\ exit_status = [t \in Thread |-> NULL]
  /\ in_wait = {} /\ answer = [t \in Thread |-> NoAnswer]

-----------------------------------------------------------------------------
\* find_block_bitmap: the first free pid.
FreePid == CHOOSE n \in 1 .. MaxPid : n \notin pid_bm /\ \A m \in 1 .. n - 1 : m \in pid_bm

allocate_pid == pid_bm # 1 .. MaxPid /\ pid_bm' = pid_bm \cup {FreePid}
release_pid(n) == pid_bm' = pid_bm \ {n}

\* list_walker(&thread_all_list, ...): the first thread of S, or NULL.
Walk(S) ==
  LET hits == {i \in DOMAIN all : all[i] \in S} IN IF hits = {} THEN NULL ELSE all[Min(hits)]

pid2thread(n) == Walk({t \in Thread : pid[t] = n})
find_child(n) == Walk({t \in Thread : parent_pid[t] = n})

\* Fault: any zombie will do.
find_hanging_any(n) == Walk({t \in Thread : k.status[t] = HANGING})

find_hanging_child(n) ==
  Walk({t \in Thread : parent_pid[t] = n /\ k.status[t] = HANGING})

\* The tags of a new TCB have no list; it starts in user mode.
Appear(child, ppid) ==
  /\ k.status[child] = NONE
  /\ allocate_pid
  /\ pid' = [pid EXCEPT ![child] = FreePid]
  /\ parent_pid' = [parent_pid EXCEPT ![child] = ppid]
  /\ k' = start_thread([k EXCEPT !.nx[child] = NULL, !.pv[child] = NULL], child)
  /\ all' = Append(all, child)
  /\ pc' = [pc EXCEPT ![child] = "user"]
  /\ UNCHANGED <<arg, held, exit_status, in_wait, answer>>

process_execute(child) ==
  OnCpu(main_thread, "kernel") /\ Appear(child, NO_PID)

\* A process that starts a system call.
Calls(t) == OnCpu(t, "kernel") /\ t \in Process /\ t \notin in_wait /\ answer[t] = NoAnswer

sys_fork(t, child) == Calls(t) /\ Appear(child, pid[t])

\* No page: the pid is kept when it is the page of the address bitmap or of
\* the page directory that is missing.
sys_fork_fails(t) ==
  /\ Calls(t)
  /\ allocate_pid \/ UNCHANGED pid_bm
  /\ UNCHANGED <<vars, all, pid, parent_pid, exit_status, in_wait, answer>>

proc_init_adopt_a_child(p) ==
  parent_pid' = [t \in Thread |-> IF t \in ToSet(all) /\ parent_pid[t] = p THEN INIT_PID
                                  ELSE parent_pid[t]]

\* Fault: the parent is not woken.
wake_parent_never(h, parent) == h

wake_parent(h, parent) ==
  IF h.status[parent] = WAITING THEN thread_unblock(h, parent) ELSE h

sys_exit(t, status) ==
  LET parent == pid2thread(parent_pid[t])
      woken  == wake_parent(k, parent)
  IN  /\ Calls(t)
      /\ exit_status' = [exit_status EXCEPT ![t] = status]
      /\ IF parent_pid[t] = NO_PID THEN k' = PANIC(k, "sys_exit") /\ UNCHANGED parent_pid
         ELSE /\ proc_init_adopt_a_child(pid[t])
              /\ k' = IF parent = NULL THEN PANIC(k, "no_parent")
                      ELSE IF Halted(woken) THEN woken
                      ELSE thread_block(woken, HANGING)
      /\ UNCHANGED <<pc, arg, held, all, pid, pid_bm, in_wait, answer>>

\* The pid is read from the TCB after its page is freed; nobody can have got
\* the page in between.
thread_exit(t) ==
  /\ k' = IF OnReadyList(k, t) THEN list_del_init([k EXCEPT !.status[t] = NONE], t)
          ELSE [k EXCEPT !.status[t] = NONE]
  /\ all' = RemoveFirst(all, t)
  /\ release_pid(pid[t])

\* One pass of the loop of sys_wait.
Waits(t) == Calls(t) \/ (OnCpu(t, "kernel") /\ t \in in_wait)

Return(t, what) ==
  /\ answer' = [answer EXCEPT ![t] = what]
  /\ in_wait' = in_wait \ {t}

sys_wait_child(t) ==
  LET child == find_hanging_child(pid[t])
  IN  /\ Waits(t) /\ child # NULL
      /\ Return(t, <<child, exit_status[child]>>)
      /\ thread_exit(child)
      /\ pid' = [pid EXCEPT ![child] = 0]
      /\ parent_pid' = [parent_pid EXCEPT ![child] = NO_PID]
      /\ exit_status' = [exit_status EXCEPT ![child] = NULL]
      /\ UNCHANGED <<pc, arg, held>>

sys_wait_none(t) ==
  /\ Waits(t) /\ find_child(pid[t]) = NULL
  /\ Return(t, NoChildren)
  /\ UNCHANGED <<vars, all, pid, parent_pid, pid_bm, exit_status>>

sys_wait_block(t) ==
  /\ Waits(t) /\ find_hanging_child(pid[t]) = NULL /\ find_child(pid[t]) # NULL
  /\ k' = thread_block(k, WAITING)
  /\ in_wait' = in_wait \cup {t}
  /\ UNCHANGED <<pc, arg, held, all, pid, parent_pid, pid_bm, exit_status, answer>>

\* The process has taken the answer.
return_from_wait(t) ==
  /\ t \notin in_wait /\ leave_syscall(t)
  /\ answer' = [answer EXCEPT ![t] = NoAnswer]
  /\ UNCHANGED <<all, pid, parent_pid, pid_bm, exit_status, in_wait>>

WaitPass(t) == sys_wait_child(t) \/ sys_wait_none(t) \/ sys_wait_block(t)

ProcessLife ==
  \/ \E child \in Process : process_execute(child)
  \/ \E t \in Process :
       \/ \E child \in Process : sys_fork(t, child)
       \/ sys_fork_fails(t) \/ WaitPass(t) \/ return_from_wait(t)
       \/ \E status \in ExitStatus : sys_exit(t, status)

LifeNext ==
  \/ (timer \/ idle) /\ UNCHANGED lifeVars
  \/ \E t \in Process : enter_syscall(t) /\ UNCHANGED lifeVars
  \/ ProcessLife

LifeSpec == LifeInit /\ [][LifeNext]_<<vars, lifeVars>>

-----------------------------------------------------------------------------
(* Properties.                                                             *)

Zombie(t) == k.status[t] = HANGING

\* Who sleeps in sys_wait has a child, and no child that has exited already.
\* (init may: the zombies that it adopts do not wake it.)
WaitersHaveToWait ==
  \A t \in in_wait :
    k.status[t] = WAITING =>
      /\ find_child(pid[t]) # NULL
      /\ t # init_process => find_hanging_child(pid[t]) = NULL

\* The family as Family sees it.
FamilyParent ==
  [t \in Process |-> IF parent_pid[t] = NO_PID THEN NULL ELSE pid2thread(parent_pid[t])]
FamilyState ==
  [t \in Process |-> IF k.status[t] = NONE THEN "free" ELSE IF Zombie(t) THEN "zombie" ELSE "alive"]
FamilyLeft == [t \in Process |-> IF Zombie(t) THEN exit_status[t] ELSE NULL]
FamilyAnswer == [t \in Process |-> answer[t]]

AbstractFamily ==
  INSTANCE Family WITH
    first <- init_process, Nobody <- NULL, parent <- FamilyParent, state <- FamilyState,
    left <- FamilyLeft, answer <- FamilyAnswer

\* Although pids are used again, fork, exit and wait keep the family tree:
\* wait answers with a child of the caller and with that child's status, each
\* child once, and -1 only to a process without children.
ImplementsFamily == AbstractFamily!Spec

-----------------------------------------------------------------------------
(* The inductive invariant.  A thread lives while it is on thread_all_list.*)

Lives(t) == k.status[t] # NONE

\* The list that a thread's general_tag is on.
LifeClass(h) ==
  [n \in Node |-> IF n \in Thread /\ h.status[n] = READY THEN thread_ready_list ELSE n]

LifeTypes ==
  /\ k \in KernelState
  /\ all \in Seq(Thread)
  /\ pid \in [Thread -> Nat]
  /\ parent_pid \in [Thread -> Nat \cup {NO_PID}]
  /\ pid_bm \subseteq 1 .. MaxPid
  /\ exit_status \in [Thread -> ExitStatus \cup {NULL}]
  /\ in_wait \subseteq Process
  /\ answer \in [Thread -> {NoAnswer, NoChildren} \cup (Thread \X ExitStatus)]

LifeStatus ==
  /\ \A t \in Thread : k.status[t] = RUNNING <=> t = k.cur
  /\ \A t \in Thread \ Process : k.status[t] \notin {NONE, HANGING}
  /\ Lives(init_process)
  /\ \A t \in Thread : Zombie(t) => parent_pid[t] # NO_PID /\ exit_status[t] \in ExitStatus

AllThreads ==
  /\ IsInjective(all)
  /\ \A t \in Thread : Lives(t) <=> \E i \in DOMAIN all : all[i] = t

Pids ==
  /\ \A t, u \in Thread : Lives(t) /\ Lives(u) /\ pid[t] = pid[u] => t = u
  /\ \A t \in Process : Lives(t) => pid[t] \in pid_bm
  /\ pid[idle_thread] \in pid_bm /\ pid[main_thread] = 0
  /\ pid[init_process] = INIT_PID

\* No pid of a parent is dangling: who has a parent has one that lives and
\* has not exited.
Parents ==
  /\ parent_pid[init_process] = NO_PID
  /\ \A t \in Thread : parent_pid[t] # NO_PID =>
       /\ Lives(t)
       /\ \E u \in Process : Lives(u) /\ ~Zombie(u) /\ pid[u] = parent_pid[t]

Waiters ==
  \A t \in in_wait : k.status[t] = WAITING =>
    /\ \E u \in Thread : parent_pid[u] = pid[t]
    /\ t # init_process => \A u \in Thread : parent_pid[u] = pid[t] => ~Zombie(u)

\* The only assertion that can fail is that of sys_exit, for a process that
\* no process has forked.
OnlyOrphansPanic == k.panic \in {"none", "sys_exit"}

LifeInv ==
  /\ LifeTypes /\ LifeStatus /\ AllThreads /\ Pids /\ Parents /\ Waiters
  /\ OnlyOrphansPanic /\ (~Halted(k) => Sched(k, LifeClass(k)))
=============================================================================
