--------------------------- MODULE ProcLifeProofs ---------------------------
(***************************************************************************)
(* LifeInv is an inductive invariant of ProcLife, for every set of         *)
(* threads and every number of pids.  It gives that who sleeps in sys_wait *)
(* has to, that sys_exit always finds the parent it looks for, and that    *)
(* fork, exit and wait implement the family tree of Family.                *)
(***************************************************************************)
EXTENDS ProcLife, LocksProofs, DataProofs

-----------------------------------------------------------------------------
(* The scheduler, seen from ProcLife: a thread is on the ready list or on  *)
(* no list.                                                                *)

\* The machine runs and only the running thread has status RUNNING.
Fit(h) ==
  /\ Sched(h, LifeClass(h))
  /\ \A t \in Thread : h.status[t] = RUNNING <=> t = h.cur
  /\ h.status[idle_thread] # NONE

\* From h to r, thread t has at most been given the CPU or lost it.
Kept(h, r, t) ==
  \/ r.status[t] = h.status[t]
  \/ r.status[t] \in {RUNNING, READY} /\ h.status[t] \in {RUNNING, READY}
  \/ t = idle_thread /\ r.status[t] \in {RUNNING, READY, BLOCKED}

\* The lists that Sched speaks of are those of LifeClass.
LEMMA ClassIsLifeClass ==
  ASSUME NEW r, NEW cls, Sched(r, cls),
         \A t \in Thread : cls[t] \in {t, thread_ready_list}
  PROVE  Sched(r, LifeClass(r))
<1>0. cls \in Classes /\ Linked(r.nx, r.pv, cls)
  BY DEF Sched
<1>1. \A n \in Node : cls[n] = IF n \in Thread /\ r.status[n] = READY THEN thread_ready_list ELSE n
  BY <1>0, KernelObjects DEF Sched, Linked
<1>2. cls = LifeClass(r)
  BY <1>0, <1>1 DEF LifeClass, Classes
<1> QED BY <1>2

\* What LifeClass says of a thread.
LEMMA LifeClassOf ==
  ASSUME NEW h, NEW t \in Thread
  PROVE  /\ h.status[t] = READY => LifeClass(h)[t] = thread_ready_list
         /\ h.status[t] # READY => LifeClass(h)[t] = t
BY KernelObjects DEF LifeClass

\* The running thread of a fit machine.
LEMMA FitCurrent ==
  ASSUME NEW h, Fit(h)
  PROVE  /\ h \in KernelState /\ h.cur \in Thread /\ h.status[h.cur] = RUNNING
         /\ LifeClass(h)[h.cur] = h.cur /\ LifeClass(h) \in Classes
         /\ h.cur # idle_thread => IdleAvailable(h, LifeClass(h))
         /\ h.panic = "none"
<1>1. /\ h \in KernelState /\ h.cur \in Thread /\ h.status[h.cur] = RUNNING
      /\ LifeClass(h) \in Classes /\ h.panic = "none"
  BY DEF Fit, Sched, KernelState, Halted
<1>2. LifeClass(h)[h.cur] = h.cur
  BY <1>1, LifeClassOf, StatusType
<1>3. ASSUME h.cur # idle_thread PROVE IdleAvailable(h, LifeClass(h))
  <2>1. h.status[idle_thread] \in Status \ {RUNNING, NONE}
    BY <1>1, <1>3, KernelObjects DEF Fit, KernelState
  <2>2. h.status[idle_thread] \in Asleep \cup {READY}
    BY <2>1 DEF Status, Asleep, RUNNING, READY, BLOCKED, WAITING, HANGING, NONE
  <2>3. h.status[idle_thread] \in Asleep => LifeClass(h)[idle_thread] = idle_thread
    BY LifeClassOf, KernelObjects, StatusType
  <2> QED BY <2>2, <2>3 DEF IdleAvailable
<1> QED BY <1>1, <1>2, <1>3

\* thread_unblock of a sleeping thread.
LEMMA FitUnblock ==
  ASSUME NEW h, Fit(h), NEW t \in Thread, h.status[t] \in Asleep,
         NEW r, r = thread_unblock(h, t)
  PROVE  Fit(r) /\ r.cur = h.cur /\ r.status = [h.status EXCEPT ![t] = READY]
<1> DEFINE c == LifeClass(h)
<1>0. h \in KernelState /\ h.status \in [Thread -> Status] /\ Sched(h, c) /\ c \in Classes
  BY FitCurrent DEF Fit, KernelState
<1>1. c[t] = t
  BY LifeClassOf, StatusType
<1> HIDE DEF c
<1>2. /\ Sched(r, [c EXCEPT ![t] = thread_ready_list])
      /\ r.status = [h.status EXCEPT ![t] = READY]
      /\ r.cur = h.cur
  BY <1>0, <1>1, UnblockLemma
<1>3. \A u \in Thread : [c EXCEPT ![t] = thread_ready_list][u] \in {u, thread_ready_list}
  BY <1>0, LifeClassOf, KernelObjects DEF Classes, c
<1>4. Sched(r, LifeClass(r))
  BY <1>2, <1>3, ClassIsLifeClass
<1>5. (\A u \in Thread : r.status[u] = RUNNING <=> u = r.cur) /\ r.status[idle_thread] # NONE
  BY <1>0, <1>2, KernelObjects, StatusType DEF Fit
<1> QED BY <1>2, <1>4, <1>5 DEF Fit

\* thread_block of the running thread.
LEMMA FitBlock ==
  ASSUME NEW h, Fit(h), NEW st \in Asleep, NEW r, r = thread_block(h, st)
  PROVE  /\ Fit(r)
         /\ \A t \in Thread \ {h.cur} : Kept(h, r, t)
         /\ r.status[h.cur] = st \/ (h.cur = idle_thread /\ r.cur = idle_thread)
<1> DEFINE c == LifeClass(h)
<1>0. /\ h \in KernelState /\ h.status \in [Thread -> Status] /\ Sched(h, c) /\ c \in Classes
      /\ h.cur \in Thread /\ h.status[h.cur] = RUNNING /\ c[h.cur] = h.cur
      /\ h.cur # idle_thread => IdleAvailable(h, c)
  BY FitCurrent DEF Fit, KernelState
<1>1. \A u \in Thread : c[u] \in {u, thread_ready_list}
  BY LifeClassOf
<1> HIDE DEF c
<1>2. /\ r.cur \in Thread
      /\ Sched(r, [c EXCEPT ![r.cur] = r.cur])
      /\ r.status = [[h.status EXCEPT ![h.cur] = st] EXCEPT ![r.cur] = RUNNING]
      /\ \/ r.cur # h.cur /\ h.status[r.cur] = READY
         \/ r.cur = idle_thread /\ (r.cur = h.cur \/ h.status[r.cur] \in Asleep)
  BY <1>0, BlockLemma
<1>3. \A u \in Thread : r.status[u] = IF u = r.cur THEN RUNNING ELSE IF u = h.cur THEN st ELSE h.status[u]
  BY <1>0, <1>2
<1>4. \A u \in Thread : [c EXCEPT ![r.cur] = r.cur][u] \in {u, thread_ready_list}
  BY <1>0, <1>1, <1>2, KernelObjects DEF Classes
<1>5. Sched(r, LifeClass(r))
  BY <1>2, <1>4, ClassIsLifeClass
<1>6. (\A u \in Thread : r.status[u] = RUNNING <=> u = r.cur) /\ r.status[idle_thread] # NONE
  BY <1>0, <1>2, <1>3, KernelObjects, StatusType DEF Fit
<1>7. \A u \in Thread \ {h.cur} : Kept(h, r, u)
  BY <1>2, <1>3 DEF Kept
<1>8. r.status[h.cur] = st \/ (h.cur = idle_thread /\ r.cur = idle_thread)
  BY <1>0, <1>2, <1>3
<1> QED BY <1>5, <1>6, <1>7, <1>8 DEF Fit

\* The timer interrupt.
LEMMA FitTick ==
  ASSUME NEW h, Fit(h), NEW r, r = inthandler20(h)
  PROVE  Fit(r) /\ \A t \in Thread : Kept(h, r, t)
<1> DEFINE c == LifeClass(h)
<1>0. /\ h \in KernelState /\ h.status \in [Thread -> Status] /\ Sched(h, c) /\ c \in Classes
      /\ h.cur \in Thread /\ h.status[h.cur] = RUNNING /\ c[h.cur] = h.cur
      /\ h.cur # idle_thread => IdleAvailable(h, c)
  BY FitCurrent DEF Fit, KernelState
<1>1. \A u \in Thread : c[u] \in {u, thread_ready_list}
  BY LifeClassOf
<1> HIDE DEF c
<1>2. CASE h.ticks[h.cur] = 0
  <2>1. r = schedule(h)
    BY <1>2 DEF inthandler20
  <2> DEFINE d == [c EXCEPT ![h.cur] = thread_ready_list]
             new == [h.status EXCEPT ![h.cur] = READY]
  <2>2. Requeued(h, c, thread_ready_list) = d /\ Requeued(h, h.status, READY) = new
    BY <1>0 DEF Requeued
  <2>3. \A u \in Thread : /\ d[u] = IF u = h.cur THEN thread_ready_list ELSE c[u]
                          /\ new[u] = IF u = h.cur THEN READY ELSE h.status[u]
    BY <1>0, KernelObjects DEF Classes
  <2>4. d \in Classes /\ new \in [Thread -> Status]
    BY <1>0, KernelObjects, StatusType DEF Classes
  <2> HIDE DEF d, new
  <2>5. /\ r.cur \in Thread
        /\ Sched(r, [d EXCEPT ![r.cur] = r.cur])
        /\ r.status = [new EXCEPT ![r.cur] = RUNNING]
        /\ new[r.cur] = READY \/ (r.cur = idle_thread /\ h.status[r.cur] \in Asleep)
    BY <1>0, <2>1, <2>2, ScheduleLemma
  <2>6. \A u \in Thread : r.status[u] = IF u = r.cur THEN RUNNING
                                        ELSE IF u = h.cur THEN READY ELSE h.status[u]
    BY <2>3, <2>4, <2>5
  <2>7. \A u \in Thread : [d EXCEPT ![r.cur] = r.cur][u] \in {u, thread_ready_list}
    BY <1>1, <2>3, <2>4, <2>5, KernelObjects DEF Classes
  <2>8. Sched(r, LifeClass(r))
    BY <2>5, <2>7, ClassIsLifeClass
  <2>9. (\A u \in Thread : r.status[u] = RUNNING <=> u = r.cur) /\ r.status[idle_thread] # NONE
    BY <1>0, <2>5, <2>6, KernelObjects, StatusType DEF Fit
  <2>10. \A u \in Thread : Kept(h, r, u)
    BY <1>0, <2>3, <2>5, <2>6 DEF Kept
  <2> QED BY <2>8, <2>9, <2>10 DEF Fit
<1>3. CASE h.ticks[h.cur] # 0
  <2> DEFINE new == [h.ticks EXCEPT ![h.cur] = h.ticks[h.cur] - 1]
  <2>1. new \in [Thread -> Nat]
    BY <1>0, <1>3 DEF KernelState
  <2>2. r = [h EXCEPT !.ticks = new]
    BY <1>0, <1>3 DEF inthandler20, KernelState
  <2> HIDE DEF new
  <2>3. /\ r \in KernelState /\ r.nx = h.nx /\ r.pv = h.pv /\ r.status = h.status
        /\ r.panic = h.panic /\ r.cur = h.cur
    BY <1>0, <2>1, <2>2 DEF KernelState
  <2>4. Sched(r, c)
    BY <1>0, <2>3, SchedFrame
  <2>5. Sched(r, LifeClass(r))
    BY <1>1, <2>4, ClassIsLifeClass
  <2> QED BY <2>3, <2>5 DEF Fit, Kept
<1> QED BY <1>2, <1>3

\* A new thread is made ready.
LEMMA FitStart ==
  ASSUME NEW h, Fit(h), NEW t \in Thread, h.status[t] = NONE,
         NEW r, r = start_thread(WithClearTag(h, t), t)
  PROVE  Fit(r) /\ r.cur = h.cur /\ r.status = [h.status EXCEPT ![t] = READY]
<1> DEFINE c == LifeClass(h)
<1>0. h \in KernelState /\ h.status \in [Thread -> Status] /\ Sched(h, c) /\ c \in Classes
  BY FitCurrent DEF Fit, KernelState
<1>1. c[t] = t
  BY LifeClassOf, StatusType
<1> HIDE DEF c
<1>2. /\ Sched(r, [c EXCEPT ![t] = thread_ready_list])
      /\ r.status = [h.status EXCEPT ![t] = READY]
      /\ r.cur = h.cur
  BY <1>0, <1>1, StartLemma
<1>3. \A u \in Thread : [c EXCEPT ![t] = thread_ready_list][u] \in {u, thread_ready_list}
  BY <1>0, LifeClassOf, KernelObjects DEF Classes, c
<1>4. Sched(r, LifeClass(r))
  BY <1>2, <1>3, ClassIsLifeClass
<1>5. (\A u \in Thread : r.status[u] = RUNNING <=> u = r.cur) /\ r.status[idle_thread] # NONE
  BY <1>0, <1>2, KernelObjects, StatusType DEF Fit
<1> QED BY <1>2, <1>4, <1>5 DEF Fit

\* The part of thread_exit that concerns the scheduler, for a zombie.
LEMMA FitExit ==
  ASSUME NEW h, Fit(h), NEW t \in Process, h.status[t] = HANGING,
         NEW r, r = IF OnReadyList(h, t) THEN list_del_init(WithStatus(h, t, NONE), t)
                    ELSE WithStatus(h, t, NONE)
  PROVE  Fit(r) /\ r.cur = h.cur /\ r.status = [h.status EXCEPT ![t] = NONE]
<1> DEFINE c == LifeClass(h)
<1>0. /\ h \in KernelState /\ h.status \in [Thread -> Status] /\ Sched(h, c) /\ c \in Classes
      /\ t \in Thread /\ t # idle_thread /\ h.status[t] # RUNNING
  BY FitCurrent DEF Fit, KernelState, Process, HANGING, RUNNING
<1>1. c[t] = t /\ c[t] # thread_ready_list
  BY <1>0, LifeClassOf, ReadyListIsNoThread DEF HANGING, READY
<1>2. \A u \in Thread : c[u] \in {u, thread_ready_list}
  BY LifeClassOf
<1> HIDE DEF c
<1>3. ~OnReadyList(h, t)
  BY <1>0, <1>1, NotFound, ReadyListIsNoThread DEF Sched, OnReadyList, KernelState, Pointers
<1>4. r = WithStatus(h, t, NONE)
  BY <1>3
<1>5. Sched(r, c) /\ r.status = [h.status EXCEPT ![t] = NONE] /\ r.cur = h.cur
  BY <1>0, <1>1, <1>4, StatusFrame, StatusType
<1>6. Sched(r, LifeClass(r))
  BY <1>2, <1>5, ClassIsLifeClass
<1>7. (\A u \in Thread : r.status[u] = RUNNING <=> u = r.cur) /\ r.status[idle_thread] # NONE
  BY <1>0, <1>5, KernelObjects, StatusType DEF Fit
<1> QED BY <1>5, <1>6, <1>7 DEF Fit

-----------------------------------------------------------------------------
(* thread_all_list and the pids.                                           *)

\* A walk over thread_all_list finds a thread of S if one lives.
LEMMA WalkFinds ==
  ASSUME LifeInv, NEW S \in SUBSET Thread
  PROVE  /\ Walk(S) = NULL <=> \A t \in S : ~Lives(t)
         /\ Walk(S) # NULL => Walk(S) \in S /\ Lives(Walk(S))
<1> DEFINE hits == {i \in DOMAIN all : all[i] \in S}
<1>0. /\ all \in Seq(Thread) /\ DOMAIN all \subseteq Nat /\ NULL \notin Thread
      /\ \A t \in Thread : Lives(t) <=> \E i \in DOMAIN all : all[i] = t
  BY NullIsNoNode, KernelObjects DEF LifeInv, LifeTypes, AllThreads
<1>1. CASE hits = {}
  <2>1. Walk(S) = NULL
    BY <1>1 DEF Walk
  <2> QED BY <1>0, <1>1, <2>1
<1>2. CASE hits # {}
  <2>1. Walk(S) = all[Min(hits)]
    BY <1>2 DEF Walk
  <2>2. Min(hits) \in hits
    BY <1>0, <1>2, MinIsLeast
  <2> QED BY <1>0, <2>1, <2>2
<1> QED BY <1>1, <1>2

\* pid2thread finds the thread that has the pid.
LEMMA PidFinds == LifeInv => \A u \in Thread : Lives(u) => pid2thread(pid[u]) = u
<1> SUFFICES ASSUME LifeInv, NEW u \in Thread, Lives(u) PROVE pid2thread(pid[u]) = u
  OBVIOUS
<1> DEFINE S == {t \in Thread : pid[t] = pid[u]}
<1>1. S \in SUBSET Thread /\ u \in S
  OBVIOUS
<1>2. Walk(S) \in S /\ Lives(Walk(S))
  BY <1>1, WalkFinds
<1> QED BY <1>2 DEF LifeInv, Pids, pid2thread

\* A walk is for the children or for the zombies among them.
LEMMA ChildrenFound ==
  ASSUME LifeInv, NEW t \in Process, Lives(t)
  PROVE  /\ find_child(pid[t]) = NULL <=> \A u \in Thread : parent_pid[u] # pid[t]
         /\ find_hanging_child(pid[t]) = NULL <=>
              \A u \in Thread : parent_pid[u] = pid[t] => ~Zombie(u)
         /\ find_hanging_child(pid[t]) # NULL =>
              /\ find_hanging_child(pid[t]) \in Thread
              /\ parent_pid[find_hanging_child(pid[t])] = pid[t]
              /\ Zombie(find_hanging_child(pid[t]))
<1>0. pid[t] # NO_PID /\ \A u \in Thread : parent_pid[u] = pid[t] => Lives(u)
  BY DEF LifeInv, LifeTypes, Process, NO_PID, Parents
<1>1. find_child(pid[t]) = NULL <=> \A u \in Thread : parent_pid[u] # pid[t]
  BY <1>0, WalkFinds DEF find_child
<1> DEFINE S == {u \in Thread : parent_pid[u] = pid[t] /\ k.status[u] = HANGING}
<1>2. S \in SUBSET Thread /\ find_hanging_child(pid[t]) = Walk(S)
  BY DEF find_hanging_child
<1>3. /\ Walk(S) = NULL <=> \A u \in S : ~Lives(u)
      /\ Walk(S) # NULL => Walk(S) \in S
  BY <1>2, WalkFinds
<1> QED BY <1>0, <1>1, <1>2, <1>3 DEF Zombie

\* allocate_pid takes a pid that is free.
LEMMA FreshPid ==
  ASSUME LifeInv, pid_bm # 1 .. MaxPid
  PROVE  FreePid \in 1 .. MaxPid /\ FreePid \notin pid_bm
<1> DEFINE T == {n \in 1 .. MaxPid : n \notin pid_bm}
<1>1. T # {} /\ T \in SUBSET Nat
  <2>1. pid_bm \subseteq 1 .. MaxPid
    BY DEF LifeInv, LifeTypes
  <2>2. T # {}
    BY <2>1
  <2> QED BY <2>2, LifeBounds
<1>2. PICK n \in T : \A m \in T : n <= m
  BY <1>1, LeastElement
<1>3. n \in 1 .. MaxPid /\ n \notin pid_bm /\ \A m \in 1 .. n - 1 : m \in pid_bm
  BY <1>2, LifeBounds
<1> QED BY <1>3 DEF FreePid

-----------------------------------------------------------------------------
(* The steps.                                                              *)

\* LifeInv while the machine runs.
LEMMA LifeIsFit == ASSUME LifeInv, ~Halted(k) PROVE Fit(k)
BY KernelObjects DEF LifeInv, LifeStatus, Fit, Process

\* A fit machine satisfies what LifeInv says of the scheduler.
LEMMA FitIsLife ==
  ASSUME NEW h, Fit(h)
  PROVE  /\ h \in KernelState /\ h.panic \in {"none", "sys_exit"}
         /\ ~Halted(h) => Sched(h, LifeClass(h))
BY FitCurrent DEF Fit

\* Which threads live, are zombies or sleep in sys_wait.
SameLife(t) ==
  /\ k'.status[t] = NONE <=> k.status[t] = NONE
  /\ k'.status[t] = HANGING <=> k.status[t] = HANGING
  /\ t \in Process => (k'.status[t] = WAITING <=> k.status[t] = WAITING)

\* A thread that only got or lost the CPU leads the same life.
LEMMA KeptLife ==
  ASSUME LifeInv, NEW t \in Thread, Kept(k, k', t)
  PROVE  SameLife(t)
BY KernelObjects
   DEF LifeInv, LifeStatus, Kept, SameLife, Process, RUNNING, READY, BLOCKED, WAITING, HANGING, NONE

\* A step that changes none of the variables of ProcLife.
LEMMA KeptInv ==
  ASSUME LifeInv, Fit(k'), UNCHANGED lifeVars, \A t \in Thread : Kept(k, k', t)
  PROVE  LifeInv'
<1>0. \A t \in Thread : SameLife(t)
  BY KeptLife
<1>1. UNCHANGED <<all, pid, parent_pid, pid_bm, exit_status, in_wait, answer>>
  BY DEF lifeVars
<1>2. LifeTypes'
  BY <1>1, FitIsLife DEF LifeInv, LifeTypes
<1>3. LifeStatus'
  BY <1>0, <1>1, KernelObjects DEF LifeInv, LifeStatus, SameLife, Fit, Lives, Zombie, Process
<1>4. AllThreads'
  BY <1>0, <1>1 DEF LifeInv, AllThreads, SameLife, Lives
<1>5. Pids'
  BY <1>0, <1>1 DEF LifeInv, Pids, SameLife, Lives, Process
<1>6. Parents'
  BY <1>0, <1>1 DEF LifeInv, Parents, SameLife, Lives, Zombie, Process
<1>7. Waiters'
  BY <1>0, <1>1 DEF LifeInv, LifeTypes, Waiters, SameLife, Zombie, Process
<1> QED BY <1>2, <1>3, <1>4, <1>5, <1>6, <1>7, FitIsLife DEF LifeInv, OnlyOrphansPanic

\* timer, idle, enter_syscall and a step that changes nothing.
LEMMA QuietLife ==
  ASSUME LifeInv, UNCHANGED lifeVars,
         timer \/ idle \/ k' = k
  PROVE  LifeInv'
<1>1. CASE timer
  <2>1. Fit(k) /\ k' = inthandler20(k)
    BY <1>1, LifeIsFit DEF timer
  <2> QED BY <2>1, FitTick, KeptInv
<1>2. CASE idle
  <2>1. Fit(k) /\ k.cur = idle_thread /\ k' = thread_block(k, BLOCKED)
    BY <1>2, LifeIsFit DEF idle, OnCpu
  <2>2. /\ Fit(k') /\ \A t \in Thread \ {k.cur} : Kept(k, k', t)
        /\ k'.status[idle_thread] = BLOCKED \/ k'.cur = idle_thread
    BY <2>1, StatusType, FitBlock
  <2>3. k'.status[idle_thread] \in {RUNNING, BLOCKED}
    BY <2>2, KernelObjects DEF Fit
  <2>4. \A t \in Thread : Kept(k, k', t)
    BY <2>1, <2>2, <2>3 DEF Kept
  <2> QED BY <2>2, <2>4, KeptInv
<1>3. CASE k' = k
  <2>1. UNCHANGED <<all, pid, parent_pid, pid_bm, exit_status, in_wait, answer>>
    BY DEF lifeVars
  <2>2. /\ LifeTypes' = LifeTypes /\ LifeStatus' = LifeStatus /\ AllThreads' = AllThreads
        /\ Pids' = Pids
    BY <1>3, <2>1 DEF LifeTypes, LifeStatus, AllThreads, Pids, Lives, Zombie
  <2>3. Parents' = Parents /\ Waiters' = Waiters /\ OnlyOrphansPanic' = OnlyOrphansPanic
    BY <1>3, <2>1 DEF Parents, Waiters, Lives, Zombie, OnlyOrphansPanic
  <2>4. (~Halted(k) => Sched(k, LifeClass(k)))' = (~Halted(k) => Sched(k, LifeClass(k)))
    BY <1>3
  <2> QED BY <2>2, <2>3, <2>4 DEF LifeInv
<1> QED BY <1>1, <1>2, <1>3

\* A new process: process_execute and sys_fork.
LEMMA AppearStep ==
  ASSUME LifeInv, ~Halted(k), NEW child \in Process, NEW ppid, Appear(child, ppid),
         \/ ppid = NO_PID
         \/ \E u \in Process : k.cur = u /\ pid[u] = ppid
  PROVE  LifeInv'
<1> DEFINE n == FreePid
<1>0. /\ Fit(k) /\ child \in Thread /\ k.status[child] = NONE /\ child # init_process
      /\ child \notin {main_thread, idle_thread}
      /\ k \in KernelState /\ k.status \in [Thread -> Status] /\ k.cur \in Thread
  BY LifeIsFit, FitCurrent DEF Appear, Process, LifeInv, LifeStatus, Lives, KernelState
<1>1. n \in 1 .. MaxPid /\ n \notin pid_bm /\ pid_bm' = pid_bm \cup {n}
  BY FreshPid DEF Appear, allocate_pid
<1>2. /\ pid' = [pid EXCEPT ![child] = n] /\ parent_pid' = [parent_pid EXCEPT ![child] = ppid]
      /\ all' = Append(all, child) /\ UNCHANGED <<exit_status, in_wait, answer>>
      /\ k' = start_thread(WithClearTag(k, child), child)
  BY DEF Appear, WithClearTag
<1> HIDE DEF n
<1>3. Fit(k') /\ k'.cur = k.cur /\ k'.status = [k.status EXCEPT ![child] = READY]
  BY <1>0, <1>2, FitStart
<1>4. /\ k'.status[child] = READY
      /\ \A t \in Thread \ {child} : k'.status[t] = k.status[t]
  BY <1>0, <1>3
<1>5. /\ \A t \in Thread : Lives(t)' <=> Lives(t) \/ t = child
      /\ \A t \in Thread : Zombie(t)' <=> Zombie(t)
      /\ ~Lives(child) /\ ~Zombie(child)
  BY <1>0, <1>4 DEF Lives, Zombie, NONE, READY, HANGING
<1>6. /\ pid \in [Thread -> Nat] /\ parent_pid \in [Thread -> Nat \cup {NO_PID}]
      /\ pid_bm \subseteq 1 .. MaxPid /\ n \in Nat
  BY <1>1 DEF LifeInv, LifeTypes
<1>7. ppid \in Nat \cup {NO_PID}
  BY <1>6 DEF Process
<1>8. /\ pid'[child] = n /\ \A t \in Thread \ {child} : pid'[t] = pid[t]
      /\ parent_pid'[child] = ppid
      /\ \A t \in Thread \ {child} : parent_pid'[t] = parent_pid[t]
  BY <1>0, <1>2, <1>6
<1>9. LifeTypes'
  <2>1. pid' \in [Thread -> Nat] /\ parent_pid' \in [Thread -> Nat \cup {NO_PID}]
    BY <1>0, <1>2, <1>6, <1>7
  <2>2. all' \in Seq(Thread)
    BY <1>0, <1>2 DEF LifeInv, LifeTypes
  <2>3. pid_bm' \subseteq 1 .. MaxPid
    BY <1>1, <1>6
  <2>4. k' \in KernelState
    BY <1>3, FitCurrent
  <2> QED BY <1>2, <2>1, <2>2, <2>3, <2>4 DEF LifeInv, LifeTypes
<1>10. LifeStatus'
  <2>1. \A t \in Thread : k'.status[t] = RUNNING <=> t = k'.cur
    BY <1>3 DEF Fit
  <2>2. \A t \in Thread \ Process : k'.status[t] \notin {NONE, HANGING}
    BY <1>4 DEF LifeInv, LifeStatus
  <2>3. Lives(init_process)'
    BY <1>5, KernelObjects DEF LifeInv, LifeStatus
  <2>4. \A t \in Thread : Zombie(t)' => parent_pid'[t] # NO_PID /\ exit_status'[t] \in ExitStatus
    BY <1>2, <1>5, <1>8 DEF LifeInv, LifeStatus
  <2> QED BY <2>1, <2>2, <2>3, <2>4 DEF LifeStatus
<1>11. AllThreads'
  <2>1. all \in Seq(Thread) /\ DOMAIN all = 1 .. Len(all) /\ Len(all) \in Nat
    BY DEF LifeInv, LifeTypes
  <2>2. /\ DOMAIN all' = 1 .. Len(all) + 1 /\ all'[Len(all) + 1] = child
        /\ \A i \in DOMAIN all : all'[i] = all[i]
    BY <1>0, <1>2, <2>1
  <2>3. \A i \in DOMAIN all : all[i] # child
    BY <1>0, <1>5 DEF LifeInv, AllThreads
  <2>4. DOMAIN all' = DOMAIN all \cup {Len(all) + 1}
    BY <2>1, <2>2
  <2>5. IsInjective(all')
    BY <2>2, <2>3, <2>4 DEF LifeInv, AllThreads, IsInjective
  <2>6. ASSUME NEW t \in Thread PROVE Lives(t)' <=> \E i \in DOMAIN all' : all'[i] = t
    <3>1. Lives(t) <=> \E i \in DOMAIN all : all[i] = t
      BY DEF LifeInv, AllThreads
    <3>2. (\E i \in DOMAIN all' : all'[i] = t) <=> t = child \/ \E i \in DOMAIN all : all[i] = t
      BY <2>2, <2>4
    <3> QED BY <1>5, <3>1, <3>2
  <2> QED BY <2>5, <2>6 DEF AllThreads
<1>12. Pids'
  <2>1. \A t \in Thread : Lives(t) => pid[t] # n
    <3>1. n # 0
      BY <1>1
    <3> QED BY <1>1, <3>1, KernelObjects DEF LifeInv, Pids, Process
  <2>2. \A t, u \in Thread : Lives(t)' /\ Lives(u)' /\ pid'[t] = pid'[u] => t = u
    BY <1>5, <1>8, <2>1 DEF LifeInv, Pids
  <2>3. \A t \in Process : Lives(t)' => pid'[t] \in pid_bm'
    BY <1>1, <1>5, <1>8 DEF LifeInv, Pids, Process
  <2>4. pid'[idle_thread] \in pid_bm' /\ pid'[main_thread] = 0 /\ pid'[init_process] = INIT_PID
    BY <1>0, <1>1, <1>8, KernelObjects DEF LifeInv, Pids
  <2> QED BY <2>2, <2>3, <2>4 DEF Pids
<1>13. Parents'
  <2>1. ppid # NO_PID => \E u \in Process : Lives(u) /\ ~Zombie(u) /\ pid[u] = ppid
    BY <1>0 DEF LifeInv, LifeStatus, Lives, Zombie, RUNNING, NONE, HANGING, Process
  <2>2. \A u \in Process : Lives(u) => Lives(u)' /\ pid'[u] = pid[u] /\ (Zombie(u)' <=> Zombie(u))
    BY <1>5, <1>8 DEF Process
  <2>3. parent_pid'[init_process] = NO_PID
    BY <1>0, <1>8, KernelObjects DEF LifeInv, Parents
  <2>4. ASSUME NEW t \in Thread, parent_pid'[t] # NO_PID
        PROVE  /\ Lives(t)'
               /\ \E u \in Process : Lives(u)' /\ ~Zombie(u)' /\ pid'[u] = parent_pid'[t]
    <3>1. CASE t = child
      BY <1>5, <1>8, <2>1, <2>2, <2>4, <3>1
    <3>2. CASE t # child
      BY <1>5, <1>8, <2>2, <2>4, <3>2 DEF LifeInv, Parents
    <3> QED BY <3>1, <3>2
  <2> QED BY <2>3, <2>4 DEF Parents
<1>14. Waiters'
  <2> SUFFICES ASSUME NEW t \in in_wait', k'.status[t] = WAITING
               PROVE  /\ \E u \in Thread : parent_pid'[u] = pid'[t]
                      /\ t # init_process =>
                           \A u \in Thread : parent_pid'[u] = pid'[t] => ~Zombie(u)'
    BY DEF Waiters
  <2>1. t \in in_wait /\ t \in Thread /\ t # child /\ k.status[t] = WAITING /\ pid'[t] = pid[t]
    BY <1>2, <1>4, <1>8 DEF LifeInv, LifeTypes, Process, WAITING, READY
  <2>2. PICK u \in Thread : parent_pid[u] = pid[t]
    BY <2>1 DEF LifeInv, Waiters
  <2>3. u # child
    BY <1>5, <1>6, <2>1, <2>2 DEF LifeInv, Parents, NO_PID
  <2> QED BY <1>5, <1>8, <2>1, <2>2, <2>3 DEF LifeInv, Waiters
<1> QED BY <1>3, <1>9, <1>10, <1>11, <1>12, <1>13, <1>14, FitIsLife
        DEF LifeInv, OnlyOrphansPanic

\* A process on the CPU lives and neither waits nor hangs.
LEMMA Caller ==
  ASSUME LifeInv, NEW t \in Process, k.cur = t, ~Halted(k)
  PROVE  /\ Fit(k) /\ k \in KernelState /\ k.status \in [Thread -> Status] /\ t \in Thread
         /\ t # idle_thread /\ t # main_thread /\ k.status[t] = RUNNING /\ Lives(t) /\ ~Zombie(t)
         /\ pid[t] \in Nat /\ pid[t] # NO_PID
<1>1. Fit(k) /\ k \in KernelState /\ t \in Thread /\ t # idle_thread /\ t # main_thread
  BY LifeIsFit, FitCurrent DEF Process
<1>2. k.status \in [Thread -> Status] /\ k.status[t] = RUNNING
  BY <1>1 DEF KernelState, Fit
<1>3. pid[t] \in Nat /\ pid[t] # NO_PID
  BY <1>1 DEF LifeInv, LifeTypes, NO_PID
<1> QED BY <1>1, <1>2, <1>3 DEF Lives, Zombie, RUNNING, NONE, HANGING

\* sys_exit wakes a parent that waits, and the thread hangs.
LEMMA ExitStatusWord ==
  ASSUME LifeInv, NEW t \in Process, k.cur = t, ~Halted(k), NEW parent \in Process,
         Lives(parent), NEW w, w = wake_parent(k, parent)
  PROVE  /\ ~Halted(w) /\ Fit(thread_block(w, HANGING))
         /\ thread_block(w, HANGING).status[t] = HANGING
         /\ parent # t => thread_block(w, HANGING).status[parent] # WAITING
         /\ \A u \in Thread \ {t, parent} : Kept(k, thread_block(w, HANGING), u)
         /\ parent # t => \/ Kept(k, thread_block(w, HANGING), parent)
                          \/ /\ k.status[parent] = WAITING
                             /\ thread_block(w, HANGING).status[parent] \in {READY, RUNNING}
<1> DEFINE r == thread_block(w, HANGING)
<1>0. /\ Fit(k) /\ k \in KernelState /\ k.status \in [Thread -> Status] /\ t \in Thread
      /\ t # idle_thread /\ k.status[t] = RUNNING /\ parent \in Thread /\ parent # idle_thread
  BY Caller DEF Process
<1>1. /\ Fit(w) /\ w.cur = t
      /\ \A u \in Thread \ {parent} : w.status[u] = k.status[u]
      /\ k.status[parent] = WAITING => w.status[parent] = READY
      /\ k.status[parent] # WAITING => w.status[parent] = k.status[parent]
  <2>1. CASE k.status[parent] = WAITING
    <3>1. w = thread_unblock(k, parent) /\ k.status[parent] \in Asleep
      BY <2>1 DEF wake_parent, Asleep
    <3>2. Fit(w) /\ w.cur = k.cur /\ w.status = [k.status EXCEPT ![parent] = READY]
      BY <1>0, <3>1, FitUnblock
    <3> QED BY <1>0, <2>1, <3>2
  <2>2. CASE k.status[parent] # WAITING
    <3>1. w = k
      BY <2>2 DEF wake_parent
    <3> QED BY <1>0, <2>2, <3>1
  <2> QED BY <2>1, <2>2
<1>2. ~Halted(w)
  BY <1>1 DEF Fit, Sched
<1>3. HANGING \in Asleep
  BY DEF Asleep
<1>4. /\ Fit(r) /\ \A u \in Thread \ {w.cur} : Kept(w, r, u)
      /\ r.status[w.cur] = HANGING \/ (w.cur = idle_thread /\ r.cur = idle_thread)
  BY <1>1, <1>3, FitBlock
<1> HIDE DEF r
<1>5. r.status[t] = HANGING /\ \A u \in Thread \ {t} : Kept(w, r, u)
  BY <1>0, <1>1, <1>4
<1>6. \A u \in Thread \ {t, parent} : Kept(k, r, u)
  BY <1>1, <1>5 DEF Kept
<1>7. ASSUME parent # t
      PROVE  /\ r.status[parent] # WAITING
             /\ \/ Kept(k, r, parent)
                \/ k.status[parent] = WAITING /\ r.status[parent] \in {READY, RUNNING}
  <2>1. Kept(w, r, parent)
    BY <1>0, <1>5, <1>7
  <2>2. CASE k.status[parent] = WAITING
    BY <1>0, <1>1, <2>1, <2>2 DEF Kept, READY, RUNNING, WAITING, BLOCKED
  <2>3. CASE k.status[parent] # WAITING
    BY <1>0, <1>1, <2>1, <2>3 DEF Kept, READY, RUNNING, WAITING, BLOCKED
  <2> QED BY <2>2, <2>3
<1> QED BY <1>2, <1>4, <1>5, <1>6, <1>7 DEF r

\* sys_exit.
LEMMA ExitStep ==
  ASSUME LifeInv, NEW t \in Process, NEW status \in ExitStatus, sys_exit(t, status)
  PROVE  LifeInv'
<1>0. /\ k.cur = t /\ ~Halted(k) /\ Calls(t) /\ t \notin in_wait
      /\ exit_status' = [exit_status EXCEPT ![t] = status]
      /\ UNCHANGED <<all, pid, pid_bm, in_wait, answer>>
  BY DEF sys_exit, Calls, OnCpu
<1>1. /\ Fit(k) /\ k \in KernelState /\ k.status \in [Thread -> Status] /\ t \in Thread
      /\ t # idle_thread /\ t # main_thread /\ k.status[t] = RUNNING /\ Lives(t) /\ ~Zombie(t)
      /\ pid[t] \in Nat /\ pid[t] # NO_PID
  BY <1>0, Caller
<1>2. /\ exit_status' \in [Thread -> ExitStatus \cup {NULL}] /\ exit_status'[t] = status
      /\ \A u \in Thread \ {t} : exit_status'[u] = exit_status[u]
  BY <1>0, <1>1 DEF LifeInv, LifeTypes
<1>3. CASE parent_pid[t] = NO_PID
  <2>1. k' = PANIC(k, "sys_exit") /\ parent_pid' = parent_pid
    BY <1>3 DEF sys_exit
  <2>2. /\ k' \in KernelState /\ k'.status = k.status /\ k'.cur = k.cur
        /\ k'.panic = "sys_exit"
    BY <1>1, <2>1 DEF PANIC, KernelState, Panics
  <2>3. LifeTypes'
    BY <1>0, <1>2, <2>1, <2>2 DEF LifeInv, LifeTypes
  <2>4. LifeStatus'
    BY <1>0, <1>1, <1>2, <2>1, <2>2 DEF LifeInv, LifeStatus, Lives, Zombie
  <2>5. AllThreads' /\ Pids'
    BY <1>0, <2>2 DEF LifeInv, AllThreads, Pids, Lives
  <2>6. Parents' /\ Waiters'
    BY <1>0, <2>1, <2>2 DEF LifeInv, Parents, Waiters, Lives, Zombie
  <2> QED BY <2>2, <2>3, <2>4, <2>5, <2>6 DEF LifeInv, OnlyOrphansPanic, Halted
<1>4. CASE parent_pid[t] # NO_PID
  <2>1. PICK p \in Process : Lives(p) /\ ~Zombie(p) /\ pid[p] = parent_pid[t]
    BY <1>1, <1>4 DEF LifeInv, Parents
  <2>2. p \in Thread /\ p # NULL /\ pid2thread(parent_pid[t]) = p
    BY <2>1, PidFinds, NullIsNoNode, KernelObjects DEF Process
  <2> DEFINE w == wake_parent(k, p)
             r == thread_block(w, HANGING)
  <2>3. /\ ~Halted(w) /\ Fit(r) /\ r.status[t] = HANGING
        /\ p # t => r.status[p] # WAITING
        /\ \A u \in Thread \ {t, p} : Kept(k, r, u)
        /\ p # t => \/ Kept(k, r, p)
                    \/ k.status[p] = WAITING /\ r.status[p] \in {READY, RUNNING}
    BY <1>0, <2>1, ExitStatusWord
  <2>4. /\ k' = r /\ proc_init_adopt_a_child(pid[t])
    BY <1>4, <2>2, <2>3 DEF sys_exit
  <2> HIDE DEF w, r
  <2>5. \A u \in Thread : /\ u # t => (Lives(u)' <=> Lives(u)) /\ (Zombie(u)' <=> Zombie(u))
                          /\ k'.status[u] = WAITING /\ u \in Process => k.status[u] = WAITING /\ u # p
                          /\ u # t /\ u \notin Process => k'.status[u] \notin {NONE, HANGING}
    <3> SUFFICES ASSUME NEW u \in Thread
                 PROVE  /\ u # t => (Lives(u)' <=> Lives(u)) /\ (Zombie(u)' <=> Zombie(u))
                        /\ k'.status[u] = WAITING /\ u \in Process => k.status[u] = WAITING /\ u # p
                        /\ u # t /\ u \notin Process => k'.status[u] \notin {NONE, HANGING}
      OBVIOUS
    <3>1. CASE u = t
      BY <2>3, <2>4, <3>1 DEF HANGING, WAITING
    <3>2. CASE u # t /\ Kept(k, r, u)
      BY <2>3, <2>4, <3>2, KeptLife DEF SameLife, Lives, Zombie, LifeInv, LifeStatus
    <3>3. CASE u = p /\ u # t /\ k.status[p] = WAITING /\ r.status[p] \in {READY, RUNNING}
      BY <2>4, <3>3, <2>1 DEF Lives, Zombie, READY, RUNNING, WAITING, NONE, HANGING
    <3> QED BY <2>3, <3>1, <3>2, <3>3
  <2>6. Lives(t)' /\ Zombie(t)'
    BY <2>3, <2>4 DEF Lives, Zombie, HANGING, NONE
  <2>7. t # init_process
    BY <1>4 DEF LifeInv, Parents
  <2>8. /\ parent_pid' \in [Thread -> Nat \cup {NO_PID}]
        /\ \A u \in Thread : parent_pid'[u] = IF parent_pid[u] = pid[t] THEN INIT_PID ELSE parent_pid[u]
    <3>1. \A u \in Thread : parent_pid[u] = pid[t] => u \in ToSet(all)
      BY <1>1 DEF LifeInv, Parents, AllThreads, ToSet
    <3>2. parent_pid' = [u \in Thread |-> IF u \in ToSet(all) /\ parent_pid[u] = pid[t] THEN INIT_PID
                                          ELSE parent_pid[u]]
      BY <2>4 DEF proc_init_adopt_a_child
    <3> QED BY <3>1, <3>2 DEF LifeInv, LifeTypes, INIT_PID
  <2>9. LifeTypes'
    BY <1>0, <1>2, <2>3, <2>4, <2>8, FitCurrent DEF LifeInv, LifeTypes
  <2>10. LifeStatus'
    <3>1. \A u \in Thread : k'.status[u] = RUNNING <=> u = k'.cur
      BY <2>3, <2>4 DEF Fit
    <3>2. \A u \in Thread \ Process : k'.status[u] \notin {NONE, HANGING}
      BY <2>5
    <3>3. Lives(init_process)'
      BY <2>5, <2>7, KernelObjects DEF LifeInv, LifeStatus
    <3>4. \A u \in Thread : Zombie(u)' => parent_pid'[u] # NO_PID /\ exit_status'[u] \in ExitStatus
      BY <1>2, <1>4, <2>5, <2>8 DEF LifeInv, LifeStatus, NO_PID, INIT_PID
    <3> QED BY <3>1, <3>2, <3>3, <3>4 DEF LifeStatus
  <2>11. AllThreads'
    <3>1. \A u \in Thread : Lives(u)' <=> Lives(u)
      BY <1>1, <2>5, <2>6
    <3> QED BY <1>0, <3>1 DEF LifeInv, AllThreads
  <2>12. Pids'
    <3>1. \A u \in Thread : Lives(u)' <=> Lives(u)
      BY <1>1, <2>5, <2>6
    <3> QED BY <1>0, <3>1 DEF LifeInv, Pids, Process
  <2>13. Parents'
    <3>1. parent_pid'[init_process] = NO_PID
      BY <1>1, <2>8, KernelObjects DEF LifeInv, Parents
    <3>2. /\ init_process \in Process /\ Lives(init_process)' /\ ~Zombie(init_process)'
          /\ pid'[init_process] = INIT_PID
      <4>1. init_process \in Process /\ init_process \in Thread
        BY KernelObjects DEF Process
      <4>2. ~Zombie(init_process) /\ Lives(init_process)
        BY <4>1 DEF LifeInv, LifeStatus, Parents
      <4> QED BY <1>0, <2>5, <2>7, <4>1, <4>2 DEF LifeInv, Pids
    <3>3. ASSUME NEW u \in Thread, parent_pid'[u] # NO_PID
          PROVE  /\ Lives(u)'
                 /\ \E v \in Process : Lives(v)' /\ ~Zombie(v)' /\ pid'[v] = parent_pid'[u]
      <4>1. parent_pid[u] # NO_PID /\ Lives(u)'
        BY <1>1, <2>5, <2>6, <2>8, <3>3 DEF LifeInv, Parents
      <4>2. CASE parent_pid[u] = pid[t]
        BY <2>8, <3>2, <4>1, <4>2
      <4>3. CASE parent_pid[u] # pid[t]
        <5>1. PICK v \in Process : Lives(v) /\ ~Zombie(v) /\ pid[v] = parent_pid[u]
          BY <4>1 DEF LifeInv, Parents
        <5>2. v # t /\ v \in Thread
          BY <4>3, <5>1 DEF Process
        <5> QED BY <1>0, <2>5, <2>8, <4>1, <4>3, <5>1, <5>2
      <4> QED BY <4>2, <4>3
    <3> QED BY <3>1, <3>3 DEF Parents
  <2>14. Waiters'
    <3> SUFFICES ASSUME NEW v \in in_wait', k'.status[v] = WAITING
                 PROVE  /\ \E u \in Thread : parent_pid'[u] = pid'[v]
                        /\ v # init_process =>
                             \A u \in Thread : parent_pid'[u] = pid'[v] => ~Zombie(u)'
      BY DEF Waiters
    <3>1. /\ v \in in_wait /\ v \in Process /\ v \in Thread /\ v # t /\ v # p
          /\ k.status[v] = WAITING /\ Lives(v) /\ pid'[v] = pid[v]
      BY <1>0, <2>5 DEF LifeInv, LifeTypes, Process, Lives, WAITING, NONE
    <3>2. pid[v] # pid[t] /\ pid[v] # pid[p]
      BY <1>1, <2>1, <2>2, <3>1 DEF LifeInv, Pids
    <3>3. \E u \in Thread : parent_pid'[u] = pid'[v]
      BY <2>8, <3>1, <3>2 DEF LifeInv, Waiters
    <3>4. ASSUME v # init_process, NEW u \in Thread, parent_pid'[u] = pid'[v] PROVE ~Zombie(u)'
      <4>1. pid[v] # INIT_PID
        BY <3>1, <3>4, KernelObjects DEF LifeInv, Pids, LifeStatus
      <4>2. parent_pid[u] = pid[v]
        BY <2>8, <3>1, <3>4, <4>1
      <4>3. u # t
        BY <2>1, <3>2, <4>2
      <4> QED BY <2>5, <3>1, <3>4, <4>2, <4>3 DEF LifeInv, Waiters
    <3> QED BY <3>3, <3>4
  <2> QED BY <2>3, <2>4, <2>9, <2>10, <2>11, <2>12, <2>13, <2>14, FitIsLife
          DEF LifeInv, OnlyOrphansPanic
<1> QED BY <1>3, <1>4

\* sys_wait finds a zombie and buries it.
LEMMA BuryStep ==
  ASSUME LifeInv, NEW t \in Process, sys_wait_child(t)
  PROVE  LifeInv'
<1> DEFINE c == find_hanging_child(pid[t])
<1>0. k.cur = t /\ ~Halted(k)
  BY DEF sys_wait_child, Waits, Calls, OnCpu
<1>1. /\ Fit(k) /\ k \in KernelState /\ k.status \in [Thread -> Status] /\ t \in Thread
      /\ k.status[t] = RUNNING /\ Lives(t) /\ ~Zombie(t) /\ pid[t] \in Nat /\ pid[t] # NO_PID
  BY <1>0, Caller
<1>2. c # NULL /\ c \in Thread /\ parent_pid[c] = pid[t] /\ Zombie(c)
  <2>1. c # NULL
    BY DEF sys_wait_child
  <2> HIDE DEF c
  <2>2. c = find_hanging_child(pid[t])
    BY DEF c
  <2> QED BY <1>1, <2>1, <2>2, ChildrenFound
<1>3. /\ k' = IF OnReadyList(k, c) THEN list_del_init(WithStatus(k, c, NONE), c)
              ELSE WithStatus(k, c, NONE)
      /\ all' = RemoveFirst(all, c) /\ pid_bm' = pid_bm \ {pid[c]}
      /\ answer' = [answer EXCEPT ![t] = <<c, exit_status[c]>>] /\ in_wait' = in_wait \ {t}
      /\ pid' = [pid EXCEPT ![c] = 0] /\ parent_pid' = [parent_pid EXCEPT ![c] = NO_PID]
      /\ exit_status' = [exit_status EXCEPT ![c] = NULL]
  BY DEF sys_wait_child, Return, thread_exit, release_pid, WithStatus
<1> HIDE DEF c
<1>4. /\ c \in Process /\ c # init_process /\ c # t /\ Lives(c) /\ k.status[c] = HANGING
      /\ exit_status[c] \in ExitStatus
  BY <1>1, <1>2 DEF LifeInv, LifeStatus, Parents, Zombie, Lives, HANGING, NONE
<1>5. Fit(k') /\ k'.cur = k.cur /\ k'.status = [k.status EXCEPT ![c] = NONE]
  BY <1>1, <1>3, <1>4, FitExit
<1>6. k'.status[c] = NONE /\ \A u \in Thread \ {c} : k'.status[u] = k.status[u]
  BY <1>1, <1>2, <1>5
<1>7. \A u \in Thread : (Lives(u)' <=> Lives(u) /\ u # c) /\ (Zombie(u)' <=> Zombie(u) /\ u # c)
  BY <1>6 DEF Lives, Zombie, NONE, HANGING
<1>8. /\ pid' \in [Thread -> Nat] /\ parent_pid' \in [Thread -> Nat \cup {NO_PID}]
      /\ exit_status' \in [Thread -> ExitStatus \cup {NULL}]
      /\ \A u \in Thread \ {c} : /\ pid'[u] = pid[u] /\ parent_pid'[u] = parent_pid[u]
                                 /\ exit_status'[u] = exit_status[u]
      /\ parent_pid'[c] = NO_PID
  BY <1>2, <1>3 DEF LifeInv, LifeTypes
<1>9. all' \in Seq(Thread) /\ IsInjective(all') /\ MembersWithout(all, c, all')
  <2>1. all \in Seq(Thread) /\ IsInjective(all)
    BY DEF LifeInv, LifeTypes, AllThreads
  <2>2. \E i \in DOMAIN all : all[i] = c
    BY <1>2, <1>4 DEF LifeInv, AllThreads
  <2> QED BY <1>3, <2>1, <2>2, RemoveMember
<1>10. LifeTypes'
  <2>1. answer' \in [Thread -> {NoAnswer, NoChildren} \cup (Thread \X ExitStatus)]
    BY <1>1, <1>2, <1>3, <1>4 DEF LifeInv, LifeTypes
  <2>2. pid_bm' \subseteq 1 .. MaxPid /\ in_wait' \subseteq Process
    BY <1>3 DEF LifeInv, LifeTypes
  <2>3. k' \in KernelState
    BY <1>5, FitCurrent
  <2> QED BY <1>8, <1>9, <2>1, <2>2, <2>3 DEF LifeTypes
<1>11. LifeStatus'
  <2>1. \A u \in Thread : k'.status[u] = RUNNING <=> u = k'.cur
    BY <1>5 DEF Fit
  <2>2. \A u \in Thread \ Process : k'.status[u] \notin {NONE, HANGING}
    BY <1>4, <1>6 DEF LifeInv, LifeStatus
  <2>3. Lives(init_process)'
    BY <1>4, <1>7, KernelObjects DEF LifeInv, LifeStatus
  <2>4. \A u \in Thread : Zombie(u)' => parent_pid'[u] # NO_PID /\ exit_status'[u] \in ExitStatus
    BY <1>7, <1>8 DEF LifeInv, LifeStatus
  <2> QED BY <2>1, <2>2, <2>3, <2>4 DEF LifeStatus
<1>12. AllThreads'
  BY <1>7, <1>9 DEF LifeInv, AllThreads, MembersWithout
<1>13. Pids'
  <2>1. \A u \in Thread : Lives(u)' => u # c /\ Lives(u) /\ pid'[u] = pid[u] /\ pid[u] # pid[c]
    BY <1>2, <1>4, <1>7, <1>8 DEF LifeInv, Pids
  <2>2. \A u, v \in Thread : Lives(u)' /\ Lives(v)' /\ pid'[u] = pid'[v] => u = v
    BY <2>1 DEF LifeInv, Pids
  <2>3. \A u \in Process : Lives(u)' => pid'[u] \in pid_bm'
    BY <1>3, <2>1 DEF LifeInv, Pids, Process
  <2>4. {idle_thread, main_thread, init_process} \subseteq Thread \ {c}
    BY <1>4, KernelObjects DEF Process
  <2>5. Lives(idle_thread)'
    BY <1>5, <2>4 DEF Fit, Lives
  <2>6. pid'[idle_thread] \in pid_bm' /\ pid'[main_thread] = 0 /\ pid'[init_process] = INIT_PID
    BY <1>3, <1>8, <2>1, <2>4, <2>5 DEF LifeInv, Pids
  <2> QED BY <2>2, <2>3, <2>6 DEF Pids
<1>14. Parents'
  <2>1. parent_pid'[init_process] = NO_PID
    BY <1>4, <1>8, KernelObjects DEF LifeInv, Parents
  <2>2. ASSUME NEW u \in Thread, parent_pid'[u] # NO_PID
        PROVE  /\ Lives(u)'
               /\ \E v \in Process : Lives(v)' /\ ~Zombie(v)' /\ pid'[v] = parent_pid'[u]
    <3>1. u # c /\ parent_pid'[u] = parent_pid[u]
      BY <1>8, <2>2
    <3>2. PICK v \in Process : Lives(v) /\ ~Zombie(v) /\ pid[v] = parent_pid[u]
      BY <2>2, <3>1 DEF LifeInv, Parents
    <3>3. v # c /\ v \in Thread
      BY <1>2, <3>2 DEF Process
    <3> QED BY <1>7, <1>8, <2>2, <3>1, <3>2, <3>3 DEF LifeInv, Parents
  <2> QED BY <2>1, <2>2 DEF Parents
<1>15. Waiters'
  <2> SUFFICES ASSUME NEW v \in in_wait', k'.status[v] = WAITING
               PROVE  /\ \E u \in Thread : parent_pid'[u] = pid'[v]
                      /\ v # init_process =>
                           \A u \in Thread : parent_pid'[u] = pid'[v] => ~Zombie(u)'
    BY DEF Waiters
  <2>1. v \in in_wait /\ v \in Thread /\ v # t /\ v # c
    BY <1>3, <1>6 DEF LifeInv, LifeTypes, Process, WAITING, NONE
  <2>2. k.status[v] = WAITING /\ pid'[v] = pid[v] /\ Lives(v)
    BY <1>6, <1>8, <2>1 DEF Lives, WAITING, NONE
  <2>3. pid[v] # pid[t] /\ pid[v] # NO_PID
    BY <1>1, <2>1, <2>2 DEF LifeInv, LifeTypes, Pids, NO_PID
  <2>4. \A u \in Thread : parent_pid'[u] = pid[v] <=> parent_pid[u] = pid[v]
    BY <1>2, <1>8, <2>3
  <2> QED BY <1>7, <2>1, <2>2, <2>4 DEF LifeInv, Waiters
<1> QED BY <1>5, <1>10, <1>11, <1>12, <1>13, <1>14, <1>15, FitIsLife
        DEF LifeInv, OnlyOrphansPanic

\* sys_wait finds children but no zombie and blocks.
LEMMA WaitBlockStep ==
  ASSUME LifeInv, NEW t \in Process, sys_wait_block(t)
  PROVE  LifeInv'
<1>0. /\ k.cur = t /\ ~Halted(k) /\ k' = thread_block(k, WAITING) /\ in_wait' = in_wait \cup {t}
      /\ find_hanging_child(pid[t]) = NULL /\ find_child(pid[t]) # NULL
      /\ UNCHANGED <<all, pid, parent_pid, pid_bm, exit_status, answer>>
  BY DEF sys_wait_block, Waits, Calls, OnCpu
<1>1. /\ Fit(k) /\ t \in Thread /\ t # idle_thread
      /\ k.status[t] = RUNNING /\ Lives(t) /\ ~Zombie(t)
  BY <1>0, Caller
<1>2. /\ Fit(k') /\ \A u \in Thread \ {t} : Kept(k, k', u)
      /\ k'.status[t] = WAITING
  <2>1. WAITING \in Asleep
    BY DEF Asleep
  <2> QED BY <1>0, <1>1, <2>1, FitBlock
<1>3. /\ \E u \in Thread : parent_pid[u] = pid[t]
      /\ \A u \in Thread : parent_pid[u] = pid[t] => ~Zombie(u)
  BY <1>0, <1>1, ChildrenFound
<1>4. \A u \in Thread : /\ (Lives(u)' <=> Lives(u)) /\ (Zombie(u)' <=> Zombie(u))
                        /\ u \in Process \ {t} => (k'.status[u] = WAITING <=> k.status[u] = WAITING)
                        /\ u \notin Process => k'.status[u] \notin {NONE, HANGING}
  <2> SUFFICES ASSUME NEW u \in Thread
               PROVE  /\ (Lives(u)' <=> Lives(u)) /\ (Zombie(u)' <=> Zombie(u))
                      /\ u \in Process \ {t} => (k'.status[u] = WAITING <=> k.status[u] = WAITING)
                      /\ u \notin Process => k'.status[u] \notin {NONE, HANGING}
    OBVIOUS
  <2>1. CASE u = t
    BY <1>1, <1>2, <2>1 DEF Lives, Zombie, WAITING, NONE, HANGING
  <2>2. CASE u # t
    BY <1>2, <2>2, KeptLife DEF SameLife, Lives, Zombie, LifeInv, LifeStatus
  <2> QED BY <2>1, <2>2
<1>5. LifeTypes'
  BY <1>0, <1>2, FitCurrent DEF LifeInv, LifeTypes
<1>6. LifeStatus'
  BY <1>0, <1>2, <1>4, KernelObjects DEF LifeInv, LifeStatus, Fit
<1>7. AllThreads' /\ Pids'
  BY <1>0, <1>4 DEF LifeInv, AllThreads, Pids, Process
<1>8. Parents'
  BY <1>0, <1>4 DEF LifeInv, Parents, Process
<1>9. Waiters'
  BY <1>0, <1>3, <1>4 DEF LifeInv, LifeTypes, Waiters, Process
<1> QED BY <1>2, <1>5, <1>6, <1>7, <1>8, <1>9, FitIsLife DEF LifeInv, OnlyOrphansPanic

\* The steps that leave the scheduler alone: a fork that fails, a wait
\* without children, the return to user mode.
LEMMA AnswerStep ==
  ASSUME LifeInv, NEW t \in Process,
         sys_fork_fails(t) \/ sys_wait_none(t) \/ return_from_wait(t)
  PROVE  LifeInv'
<1>0. t \in Thread
  BY DEF Process
<1>1. /\ k' = k /\ UNCHANGED <<all, pid, parent_pid, exit_status>>
      /\ in_wait' \subseteq in_wait
  BY DEF sys_fork_fails, sys_wait_none, return_from_wait, leave_syscall, Return, vars
<1>2. pid_bm \subseteq pid_bm' /\ pid_bm' \subseteq 1 .. MaxPid
  <2>1. pid_bm \subseteq 1 .. MaxPid
    BY DEF LifeInv, LifeTypes
  <2>2. CASE allocate_pid
    BY <2>1, <2>2, FreshPid DEF allocate_pid
  <2>3. CASE pid_bm' = pid_bm
    BY <2>1, <2>3
  <2> QED BY <2>2, <2>3 DEF sys_fork_fails, sys_wait_none, return_from_wait
<1>3. answer' \in [Thread -> {NoAnswer, NoChildren} \cup (Thread \X ExitStatus)]
  <2>1. \/ answer' = answer \/ answer' = [answer EXCEPT ![t] = NoAnswer]
        \/ answer' = [answer EXCEPT ![t] = NoChildren]
    BY DEF sys_fork_fails, sys_wait_none, return_from_wait, Return
  <2>2. answer \in [Thread -> {NoAnswer, NoChildren} \cup (Thread \X ExitStatus)]
    BY DEF LifeInv, LifeTypes
  <2> QED BY <1>0, <2>1, <2>2
<1>4. LifeTypes'
  BY <1>1, <1>2, <1>3 DEF LifeInv, LifeTypes
<1>5. LifeStatus' /\ AllThreads'
  BY <1>1 DEF LifeInv, LifeStatus, AllThreads, Lives, Zombie
<1>6. Pids'
  BY <1>1, <1>2 DEF LifeInv, Pids, Lives
<1>7. Parents' /\ Waiters'
  BY <1>1 DEF LifeInv, Parents, Waiters, Lives, Zombie
<1>8. OnlyOrphansPanic' /\ (~Halted(k') => Sched(k', LifeClass(k')))
  BY <1>1 DEF LifeInv, OnlyOrphansPanic
<1> QED BY <1>4, <1>5, <1>6, <1>7, <1>8 DEF LifeInv

\* thread_init() establishes the invariant.
LEMMA LifeInitInv == LifeInit => LifeInv
<1> SUFFICES ASSUME LifeInit PROVE LifeInv
  OBVIOUS
<1>1. Inv /\ Init
  BY InitInv DEF LifeInit
<1>2. k \in KernelState /\ Sched(k, Cls)
  BY <1>1 DEF Inv, TypeOK
<1>10. /\ k.cur = main_thread /\ k.panic = "none"
       /\ k.status = [t \in Thread |-> CASE t = main_thread -> RUNNING
                                        [] t \in {init_process, idle_thread} -> READY
                                        [] OTHER -> NONE]
  BY <1>1 DEF Init, thread_init
<1>11. \A t \in Thread : /\ t = main_thread => k.status[t] = RUNNING
                         /\ t \in {init_process, idle_thread} => k.status[t] = READY
                         /\ t \notin {main_thread, init_process, idle_thread} => k.status[t] = NONE
  BY <1>10, KernelObjects
<1>3. Sched(k, LifeClass(k))
  <2>1. \A t \in Thread : Cls[t] \in {t, thread_ready_list}
    BY <1>11, KernelObjects DEF Cls, Class, RUNNING, READY, BLOCKED, NONE
  <2> QED BY <1>2, <2>1, ClassIsLifeClass
<1>4. /\ all = <<init_process, main_thread, idle_thread>>
      /\ pid = [t \in Thread |-> CASE t = init_process -> INIT_PID [] t = idle_thread -> 3 [] OTHER -> 0]
      /\ parent_pid = [t \in Thread |-> NO_PID] /\ pid_bm = {1, 2, 3}
      /\ exit_status = [t \in Thread |-> NULL]
      /\ in_wait = {} /\ answer = [t \in Thread |-> NoAnswer]
  BY DEF LifeInit
<1>5. LifeTypes
  <2>1. {1, 2, 3} \subseteq 1 .. MaxPid
    BY LifeBounds
  <2>2. pid \in [Thread -> Nat]
    BY <1>4 DEF INIT_PID
  <2>3. all \in Seq(Thread)
    BY <1>4, KernelObjects
  <2> QED BY <1>2, <1>4, <2>1, <2>2, <2>3 DEF LifeTypes
<1>6. LifeStatus
  BY <1>10, <1>11, KernelObjects DEF LifeStatus, Lives, Zombie, Process, RUNNING, READY, NONE, HANGING
<1>7. AllThreads
  <2>1. /\ DOMAIN all = {1, 2, 3} /\ all[1] = init_process /\ all[2] = main_thread
        /\ all[3] = idle_thread
    BY <1>4
  <2>2. \A t \in Thread : Lives(t) <=> t \in {init_process, main_thread, idle_thread}
    BY <1>11 DEF Lives, RUNNING, READY, NONE
  <2> QED BY <2>1, <2>2, KernelObjects DEF AllThreads, IsInjective
<1>8. Pids
  <2>1. \A t \in Thread : Lives(t) <=> t \in {init_process, main_thread, idle_thread}
    BY <1>11 DEF Lives, RUNNING, READY, NONE
  <2>2. pid[init_process] = 1 /\ pid[main_thread] = 0 /\ pid[idle_thread] = 3
    BY <1>4, KernelObjects DEF INIT_PID
  <2> QED BY <1>4, <2>1, <2>2, KernelObjects DEF Pids, Process, INIT_PID
<1>9. Parents /\ Waiters
  BY <1>4, KernelObjects DEF Parents, Waiters
<1> QED BY <1>3, <1>5, <1>6, <1>7, <1>8, <1>9, <1>10 DEF LifeInv, OnlyOrphansPanic

\* Every step keeps the invariant.
LEMMA LifeNextInv == LifeInv /\ [LifeNext]_<<vars, lifeVars>> => LifeInv'
<1> SUFFICES ASSUME LifeInv, [LifeNext]_<<vars, lifeVars>> PROVE LifeInv'
  OBVIOUS
<1>1. CASE (timer \/ idle) /\ UNCHANGED lifeVars
  BY <1>1, QuietLife
<1>2. ASSUME NEW t \in Process, enter_syscall(t) /\ UNCHANGED lifeVars PROVE LifeInv'
  BY <1>2, QuietLife DEF enter_syscall
<1>3. ASSUME NEW child \in Process, process_execute(child) PROVE LifeInv'
  BY <1>3, AppearStep DEF process_execute, OnCpu
<1>4. ASSUME NEW t \in Process, NEW child \in Process, sys_fork(t, child) PROVE LifeInv'
  BY <1>4, AppearStep DEF sys_fork, Calls, OnCpu
<1>5. ASSUME NEW t \in Process, sys_fork_fails(t) \/ sys_wait_none(t) \/ return_from_wait(t)
      PROVE  LifeInv'
  BY <1>5, AnswerStep
<1>6. ASSUME NEW t \in Process, sys_wait_child(t) PROVE LifeInv'
  BY <1>6, BuryStep
<1>7. ASSUME NEW t \in Process, sys_wait_block(t) PROVE LifeInv'
  BY <1>7, WaitBlockStep
<1>8. ASSUME NEW t \in Process, NEW status \in ExitStatus, sys_exit(t, status) PROVE LifeInv'
  BY <1>8, ExitStep
<1>9. CASE UNCHANGED <<vars, lifeVars>>
  BY <1>9, QuietLife DEF vars
<1> QED BY <1>1, <1>2, <1>3, <1>4, <1>5, <1>6, <1>7, <1>8, <1>9
        DEF LifeNext, ProcessLife, WaitPass

-----------------------------------------------------------------------------
(* The theorems.                                                           *)

\* LifeInv holds in every reachable state: pids are unique although they are
\* used again, thread_all_list holds exactly the threads that live, and no
\* parent pid is dangling.
THEOREM LifeInvariance == LifeSpec => []LifeInv
<1>1. LifeInit => LifeInv
  BY LifeInitInv
<1>2. LifeInv /\ [LifeNext]_<<vars, lifeVars>> => LifeInv'
  BY LifeNextInv
<1> QED BY <1>1, <1>2, PTL DEF LifeSpec

\* Who sleeps in sys_wait has a child, and no child that has exited already
\* (but for init, which the zombies that it adopts do not wake).
THEOREM WaitersTheorem == LifeSpec => []WaitersHaveToWait
<1>1. LifeInv => WaitersHaveToWait
  <2> SUFFICES ASSUME LifeInv, NEW t \in in_wait, k.status[t] = WAITING
               PROVE  /\ find_child(pid[t]) # NULL
                      /\ t # init_process => find_hanging_child(pid[t]) = NULL
    BY DEF WaitersHaveToWait
  <2>1. t \in Process /\ Lives(t)
    BY DEF LifeInv, LifeTypes, Lives, WAITING, NONE
  <2>2. /\ \E u \in Thread : parent_pid[u] = pid[t]
        /\ t # init_process => \A u \in Thread : parent_pid[u] = pid[t] => ~Zombie(u)
    BY DEF LifeInv, Waiters
  <2> QED BY <2>1, <2>2, ChildrenFound
<1> QED BY <1>1, LifeInvariance, PTL

\* thread_unblock, schedule and start_thread fail no assertion, and sys_exit
\* always finds the parent whose pid the thread has: only the exit of a
\* process that the kernel has started stops the machine.
THEOREM LifePanics == LifeSpec => []OnlyOrphansPanic
<1>1. LifeInv => OnlyOrphansPanic
  BY DEF LifeInv
<1> QED BY <1>1, LifeInvariance, PTL

-----------------------------------------------------------------------------
(* Refinement.                                                             *)

\* What the family tree shows of a process.
FamilyFacts ==
  /\ \A t \in Process : parent_pid[t] = NO_PID => FamilyParent[t] = NULL
  /\ \A t \in Process, u \in Thread :
       parent_pid[t] # NO_PID /\ Lives(u) /\ pid[u] = parent_pid[t] => FamilyParent[t] = u
  /\ \A t \in Process, u \in Process : FamilyParent[t] = u => parent_pid[t] = pid[u]

\* Parents are found by their pids.
LEMMA FamilyTree == LifeInv => FamilyFacts
<1> SUFFICES ASSUME LifeInv PROVE FamilyFacts
  OBVIOUS
<1>1. \A t \in Process : parent_pid[t] = NO_PID => FamilyParent[t] = NULL
  BY DEF FamilyParent
<1>2. \A t \in Process, u \in Thread :
       parent_pid[t] # NO_PID /\ Lives(u) /\ pid[u] = parent_pid[t] => FamilyParent[t] = u
  BY PidFinds DEF FamilyParent
<1>3. ASSUME NEW t \in Process, NEW u \in Process, FamilyParent[t] = u
      PROVE  parent_pid[t] = pid[u]
  <2>1. u # NULL
    BY NullIsNoNode, KernelObjects DEF Process
  <2>2. parent_pid[t] # NO_PID
    BY <1>1, <1>3, <2>1
  <2>3. PICK v \in Process : Lives(v) /\ pid[v] = parent_pid[t]
    BY <2>2 DEF LifeInv, Parents, Process
  <2>4. v \in Thread
    BY DEF Process
  <2> QED BY <1>2, <1>3, <2>2, <2>3, <2>4
<1> QED BY <1>1, <1>2, <1>3 DEF FamilyFacts

\* The same after a step.
LEMMA FamilyTreeNext == LifeInv' => FamilyFacts'
BY FamilyTree, PTL

\* A process whose parent pid stays, and whose parent lives on, keeps its
\* parent.
LEMMA SameParent ==
  ASSUME LifeInv, LifeInv', NEW t \in Process, parent_pid'[t] = parent_pid[t],
         \A u \in Process : Lives(u) /\ ~Zombie(u) => Lives(u)' /\ pid'[u] = pid[u]
  PROVE  FamilyParent'[t] = FamilyParent[t]
<1>1. FamilyFacts /\ FamilyFacts'
  BY FamilyTree, FamilyTreeNext
<1>2. CASE parent_pid[t] = NO_PID
  BY <1>1, <1>2 DEF FamilyFacts
<1>3. CASE parent_pid[t] # NO_PID
  <2>1. PICK u \in Process : Lives(u) /\ ~Zombie(u) /\ pid[u] = parent_pid[t]
    BY <1>3 DEF LifeInv, Parents, Process
  <2>2. u \in Thread
    BY DEF Process
  <2> QED BY <1>1, <1>3, <2>1, <2>2 DEF FamilyFacts
<1> QED BY <1>2, <1>3

\* A step that is no event of the family.
LEMMA NoEvent ==
  ASSUME LifeInv, LifeInv', parent_pid' = parent_pid, pid' = pid,
         \A t \in Process : Lives(t)' = Lives(t) /\ Zombie(t)' = Zombie(t),
         \A t \in Process : Zombie(t) => exit_status'[t] = exit_status[t],
         answer' = answer
  PROVE  UNCHANGED AbstractFamily!family
<1>1. \A t \in Process : FamilyParent'[t] = FamilyParent[t]
  BY SameParent
<1>2. FamilyParent' = FamilyParent
  BY <1>1 DEF FamilyParent
<1>3. FamilyState' = FamilyState
  BY DEF FamilyState, Lives
<1>4. FamilyLeft' = FamilyLeft
  BY DEF FamilyLeft
<1>5. FamilyAnswer' = FamilyAnswer
  BY DEF FamilyAnswer
<1> QED BY <1>2, <1>3, <1>4, <1>5 DEF AbstractFamily!family

\* process_execute and sys_fork: a process is born.
LEMMA BornEvent ==
  ASSUME LifeInv, LifeInv', ~Halted(k), NEW child \in Process, NEW ppid, Appear(child, ppid),
         NEW p, \/ ppid = NO_PID /\ p = NULL
                \/ p \in Process /\ k.cur = p /\ pid[p] = ppid
  PROVE  AbstractFamily!Born(child, p)
<1>0. /\ Fit(k) /\ child \in Thread /\ k.status[child] = NONE /\ k.status \in [Thread -> Status]
      /\ Process \subseteq Thread
  BY LifeIsFit, FitCurrent DEF Appear, Process, KernelState
<1>1. /\ pid' = [pid EXCEPT ![child] = FreePid] /\ parent_pid' = [parent_pid EXCEPT ![child] = ppid]
      /\ UNCHANGED <<exit_status, answer>>
      /\ k' = start_thread(WithClearTag(k, child), child)
  BY DEF Appear, WithClearTag
<1>2. k'.status = [k.status EXCEPT ![child] = READY]
  BY <1>0, <1>1, FitStart
<1>3. k'.status[child] = READY /\ \A t \in Thread \ {child} : k'.status[t] = k.status[t]
  BY <1>0, <1>2
<1>4. /\ parent_pid'[child] = ppid
      /\ \A t \in Thread \ {child} : pid'[t] = pid[t] /\ parent_pid'[t] = parent_pid[t]
  BY <1>0, <1>1 DEF LifeInv, LifeTypes
<1>5. \A u \in Process : Lives(u) => Lives(u)' /\ pid'[u] = pid[u]
  BY <1>0, <1>3, <1>4 DEF Lives
<1>6. \A t \in Process \ {child} : FamilyParent'[t] = FamilyParent[t]
  BY <1>0, <1>4, <1>5, SameParent
<1>7. FamilyParent'[child] = p
  <2>1. FamilyFacts'
    BY FamilyTreeNext
  <2>2. CASE ppid = NO_PID /\ p = NULL
    BY <1>4, <2>1, <2>2 DEF FamilyFacts
  <2>3. CASE p \in Process /\ k.cur = p /\ pid[p] = ppid
    <3>1. Lives(p) /\ ppid # NO_PID
      BY <2>3, Caller
    <3> QED BY <1>0, <1>4, <1>5, <2>1, <2>3, <3>1 DEF FamilyFacts
  <2> QED BY <2>2, <2>3
<1>8. FamilyParent' = [FamilyParent EXCEPT ![child] = p]
  BY <1>6, <1>7 DEF FamilyParent
<1>9. FamilyState[child] = "free" /\ FamilyState' = [FamilyState EXCEPT ![child] = "alive"]
  BY <1>0, <1>3 DEF FamilyState, Zombie, NONE, READY, HANGING
<1>10. FamilyLeft' = FamilyLeft
  BY <1>0, <1>1, <1>3 DEF FamilyLeft, Zombie, NONE, READY, HANGING
<1>11. FamilyAnswer' = FamilyAnswer
  BY <1>1 DEF FamilyAnswer
<1> QED BY <1>8, <1>9, <1>10, <1>11 DEF AbstractFamily!Born

\* sys_exit: the process becomes a zombie and init adopts its children; or it
\* has no parent and the machine stops.
LEMMA ExitEvent ==
  ASSUME LifeInv, LifeInv', NEW t \in Process, NEW status \in ExitStatus, sys_exit(t, status)
  PROVE  AbstractFamily!Exit(t, status) \/ UNCHANGED AbstractFamily!family
<1>0. /\ k.cur = t /\ ~Halted(k) /\ exit_status' = [exit_status EXCEPT ![t] = status]
      /\ UNCHANGED <<all, pid, answer>>
  BY DEF sys_exit, Calls, OnCpu
<1>1. /\ k \in KernelState /\ t \in Thread /\ Lives(t) /\ ~Zombie(t) /\ pid[t] \in Nat
      /\ pid[t] # NO_PID /\ Process \subseteq Thread
  BY <1>0, Caller DEF Process
<1>2. /\ exit_status'[t] = status
      /\ \A u \in Thread \ {t} : exit_status'[u] = exit_status[u]
  BY <1>0, <1>1 DEF LifeInv, LifeTypes
<1>3. CASE parent_pid[t] = NO_PID
  <2>1. k' = PANIC(k, "sys_exit") /\ parent_pid' = parent_pid
    BY <1>3 DEF sys_exit
  <2>2. k'.status = k.status
    BY <1>1, <2>1 DEF PANIC, KernelState
  <2>3. /\ \A u \in Process : Lives(u)' = Lives(u) /\ Zombie(u)' = Zombie(u)
        /\ \A u \in Process : Zombie(u) => exit_status'[u] = exit_status[u]
    BY <1>1, <1>2, <2>2 DEF Lives, Zombie
  <2> QED BY <1>0, <2>1, <2>3, NoEvent
<1>4. CASE parent_pid[t] # NO_PID
  <2>1. PICK p \in Process : Lives(p) /\ ~Zombie(p) /\ pid[p] = parent_pid[t]
    BY <1>1, <1>4 DEF LifeInv, Parents
  <2>2. p \in Thread /\ p # NULL /\ pid2thread(parent_pid[t]) = p
    BY <2>1, PidFinds, NullIsNoNode, KernelObjects DEF Process
  <2> DEFINE w == wake_parent(k, p)
             r == thread_block(w, HANGING)
  <2>3. /\ ~Halted(w) /\ Fit(r) /\ r.status[t] = HANGING
        /\ \A u \in Thread \ {t, p} : Kept(k, r, u)
        /\ p # t => \/ Kept(k, r, p)
                    \/ k.status[p] = WAITING /\ r.status[p] \in {READY, RUNNING}
    BY <1>0, <2>1, ExitStatusWord
  <2>4. /\ k' = r /\ proc_init_adopt_a_child(pid[t])
    BY <1>4, <2>2, <2>3 DEF sys_exit
  <2> HIDE DEF w, r
  <2>5. \A u \in Process \ {t} : Lives(u)' = Lives(u) /\ Zombie(u)' = Zombie(u)
    <3> SUFFICES ASSUME NEW u \in Process \ {t}
                 PROVE  Lives(u)' = Lives(u) /\ Zombie(u)' = Zombie(u)
      OBVIOUS
    <3>1. CASE Kept(k, r, u)
      BY <1>1, <2>4, <3>1, KeptLife DEF SameLife, Lives, Zombie
    <3>2. CASE u = p /\ k.status[p] = WAITING /\ r.status[p] \in {READY, RUNNING}
      BY <2>4, <3>2 DEF Lives, Zombie, READY, RUNNING, WAITING, NONE, HANGING
    <3> QED BY <1>1, <2>3, <3>1, <3>2
  <2>6. Lives(t)' /\ Zombie(t)'
    BY <2>3, <2>4 DEF Lives, Zombie, HANGING, NONE
  <2>7. \A u \in Thread : parent_pid'[u] = IF parent_pid[u] = pid[t] THEN INIT_PID ELSE parent_pid[u]
    <3>1. \A u \in Thread : parent_pid[u] = pid[t] => u \in ToSet(all)
      BY <1>1 DEF LifeInv, Parents, AllThreads, ToSet
    <3>2. parent_pid' = [u \in Thread |-> IF u \in ToSet(all) /\ parent_pid[u] = pid[t] THEN INIT_PID
                                          ELSE parent_pid[u]]
      BY <2>4 DEF proc_init_adopt_a_child
    <3> QED BY <3>1, <3>2 DEF LifeInv, LifeTypes
  <2>8. FamilyFacts /\ FamilyFacts'
    BY FamilyTree, FamilyTreeNext
  <2>9. \A c \in Process : FamilyParent'[c] = IF FamilyParent[c] = t THEN init_process ELSE FamilyParent[c]
    <3> SUFFICES ASSUME NEW c \in Process
                 PROVE  FamilyParent'[c] = IF FamilyParent[c] = t THEN init_process ELSE FamilyParent[c]
      OBVIOUS
    <3>1. CASE parent_pid[c] = pid[t]
      <4>1. FamilyParent[c] = t
        BY <1>1, <2>8, <3>1 DEF FamilyFacts
      <4>2. Lives(init_process)' /\ pid'[init_process] = INIT_PID /\ init_process \in Thread
        BY KernelObjects DEF LifeInv, LifeStatus, Pids
      <4>3. parent_pid'[c] = INIT_PID /\ INIT_PID # NO_PID
        BY <1>1, <2>7, <3>1 DEF INIT_PID, NO_PID
      <4>4. FamilyParent'[c] = init_process
        BY <2>8, <4>2, <4>3 DEF FamilyFacts
      <4> QED BY <4>1, <4>4
    <3>2. CASE parent_pid[c] # pid[t]
      <4>1. FamilyParent[c] # t
        BY <2>8, <3>2 DEF FamilyFacts
      <4>2. parent_pid'[c] = parent_pid[c]
        BY <1>1, <2>7, <3>2
      <4>3. \A u \in Process : Lives(u) /\ ~Zombie(u) => Lives(u)' /\ pid'[u] = pid[u]
        BY <1>0, <2>5, <2>6
      <4>4. FamilyParent'[c] = FamilyParent[c]
        BY <4>2, <4>3, SameParent
      <4> QED BY <4>1, <4>4
    <3> QED BY <3>1, <3>2
  <2>10. FamilyParent' = [c \in Process |-> IF FamilyParent[c] = t THEN init_process ELSE FamilyParent[c]]
    <3>1. FamilyParent' = [c \in Process |-> FamilyParent'[c]]
      BY DEF FamilyParent
    <3> QED BY <2>9, <3>1
  <2>11. FamilyParent[t] # NULL
    BY <1>4, <2>1, <2>2, <2>8 DEF FamilyFacts
  <2>12. FamilyState[t] = "alive" /\ FamilyState' = [FamilyState EXCEPT ![t] = "zombie"]
    BY <1>1, <2>5, <2>6 DEF FamilyState, Lives
  <2>13. FamilyLeft' = [FamilyLeft EXCEPT ![t] = status]
    BY <1>1, <1>2, <2>5, <2>6 DEF FamilyLeft
  <2>14. FamilyAnswer' = FamilyAnswer
    BY <1>0 DEF FamilyAnswer
  <2> QED BY <2>10, <2>11, <2>12, <2>13, <2>14 DEF AbstractFamily!Exit
<1> QED BY <1>3, <1>4

\* sys_wait: the zombie is told to its parent and forgotten.
LEMMA WaitEvent ==
  ASSUME LifeInv, LifeInv', NEW t \in Process, sys_wait_child(t)
  PROVE  \E c \in Process : AbstractFamily!Wait(t, c)
<1> DEFINE c == find_hanging_child(pid[t])
<1>0. k.cur = t /\ ~Halted(k)
  BY DEF sys_wait_child, Waits, Calls, OnCpu
<1>1. /\ Fit(k) /\ k \in KernelState /\ k.status \in [Thread -> Status] /\ t \in Thread
      /\ Lives(t) /\ ~Zombie(t) /\ pid[t] \in Nat /\ pid[t] # NO_PID /\ Process \subseteq Thread
  BY <1>0, Caller DEF Process
<1>2. c # NULL /\ c \in Thread /\ parent_pid[c] = pid[t] /\ Zombie(c)
  <2>1. c # NULL
    BY DEF sys_wait_child
  <2> HIDE DEF c
  <2>2. c = find_hanging_child(pid[t])
    BY DEF c
  <2> QED BY <1>1, <2>1, <2>2, ChildrenFound
<1>3. /\ k' = IF OnReadyList(k, c) THEN list_del_init(WithStatus(k, c, NONE), c)
              ELSE WithStatus(k, c, NONE)
      /\ answer' = [answer EXCEPT ![t] = <<c, exit_status[c]>>]
      /\ pid' = [pid EXCEPT ![c] = 0] /\ parent_pid' = [parent_pid EXCEPT ![c] = NO_PID]
      /\ exit_status' = [exit_status EXCEPT ![c] = NULL]
  BY DEF sys_wait_child, Return, thread_exit, WithStatus
<1> HIDE DEF c
<1>4. c \in Process /\ c # t /\ Lives(c) /\ k.status[c] = HANGING
  BY <1>1, <1>2 DEF LifeInv, LifeStatus, Zombie, Lives, HANGING, NONE
<1>5. k'.status = [k.status EXCEPT ![c] = NONE]
  BY <1>1, <1>3, <1>4, FitExit
<1>6. k'.status[c] = NONE /\ \A u \in Thread \ {c} : k'.status[u] = k.status[u]
  BY <1>1, <1>2, <1>5
<1>7. /\ parent_pid'[c] = NO_PID
      /\ \A u \in Thread \ {c} : /\ pid'[u] = pid[u] /\ parent_pid'[u] = parent_pid[u]
                                 /\ exit_status'[u] = exit_status[u]
  BY <1>2, <1>3 DEF LifeInv, LifeTypes
<1>8. FamilyFacts /\ FamilyFacts'
  BY FamilyTree, FamilyTreeNext
<1>9. FamilyParent[c] = t /\ FamilyParent'[c] = NULL
  BY <1>1, <1>2, <1>4, <1>7, <1>8 DEF FamilyFacts
<1>10. \A u \in Process : Lives(u) /\ ~Zombie(u) => Lives(u)' /\ pid'[u] = pid[u]
  BY <1>1, <1>2, <1>6, <1>7 DEF Lives
<1>11. \A u \in Process \ {c} : FamilyParent'[u] = FamilyParent[u]
  BY <1>1, <1>7, <1>10, SameParent
<1>12. FamilyParent' = [FamilyParent EXCEPT ![c] = NULL]
  BY <1>9, <1>11 DEF FamilyParent
<1>13. /\ FamilyState[t] = "alive" /\ FamilyState[c] = "zombie"
       /\ FamilyState' = [FamilyState EXCEPT ![c] = "free"]
  BY <1>1, <1>2, <1>4, <1>6 DEF FamilyState, Zombie, Lives
<1>14. FamilyLeft[c] = exit_status[c] /\ FamilyLeft' = [FamilyLeft EXCEPT ![c] = NULL]
  BY <1>1, <1>2, <1>4, <1>6, <1>7 DEF FamilyLeft, Zombie, NONE, HANGING
<1>15. FamilyAnswer' = [FamilyAnswer EXCEPT ![t] = <<c, FamilyLeft[c]>>]
  <2>1. answer \in [Thread -> {NoAnswer, NoChildren} \cup (Thread \X ExitStatus)]
    BY DEF LifeInv, LifeTypes
  <2> QED BY <1>1, <1>3, <1>14, <2>1 DEF FamilyAnswer
<1> QED BY <1>4, <1>9, <1>12, <1>13, <1>14, <1>15 DEF AbstractFamily!Wait

\* The answers of sys_wait that concern no child, and a fork that fails.
LEMMA AnswerEvent ==
  ASSUME LifeInv, LifeInv', NEW t \in Process,
         sys_fork_fails(t) \/ sys_wait_none(t) \/ return_from_wait(t)
  PROVE  AbstractFamily!WaitInVain(t) \/ AbstractFamily!Forget(t) \/ UNCHANGED AbstractFamily!family
<1>0. /\ k.cur = t /\ ~Halted(k)
      /\ k' = k /\ UNCHANGED <<pid, parent_pid, exit_status>>
  BY DEF sys_fork_fails, sys_wait_none, return_from_wait, leave_syscall, Return, vars, Waits, Calls, OnCpu
<1>1. /\ Lives(t) /\ ~Zombie(t) /\ t \in Thread /\ pid[t] # NO_PID
  BY <1>0, Caller
<1>2. \A u \in Process : FamilyParent'[u] = FamilyParent[u]
  BY <1>0, SameParent DEF Lives
<1>3. FamilyParent' = FamilyParent /\ FamilyState' = FamilyState /\ FamilyLeft' = FamilyLeft
  BY <1>0, <1>2 DEF FamilyParent, FamilyState, FamilyLeft, Zombie
<1>4. answer \in [Thread -> {NoAnswer, NoChildren} \cup (Thread \X ExitStatus)]
  BY DEF LifeInv, LifeTypes
<1>5. ASSUME NEW x, answer' = [answer EXCEPT ![t] = x]
      PROVE  FamilyAnswer' = [FamilyAnswer EXCEPT ![t] = x]
  <2>1. \A u \in Process : u \in Thread
    BY DEF Process
  <2>2. \A u \in Process : answer'[u] = IF u = t THEN x ELSE answer[u]
    BY <1>1, <1>4, <1>5, <2>1
  <2> QED BY <2>2 DEF FamilyAnswer
<1>6. CASE sys_fork_fails(t)
  <2>1. FamilyAnswer' = FamilyAnswer
    BY <1>6 DEF sys_fork_fails, FamilyAnswer
  <2> QED BY <1>3, <2>1 DEF AbstractFamily!family
<1>7. CASE sys_wait_none(t)
  <2>1. answer' = [answer EXCEPT ![t] = NoChildren] /\ find_child(pid[t]) = NULL
    BY <1>7 DEF sys_wait_none, Return
  <2>2. FamilyAnswer' = [FamilyAnswer EXCEPT ![t] = NoChildren]
    BY <1>5, <2>1
  <2>3. FamilyState[t] = "alive"
    BY <1>1 DEF FamilyState, Lives
  <2>4. \A c \in Process : FamilyParent[c] # t
    <3>1. \A u \in Thread : parent_pid[u] # pid[t]
      BY <1>1, <2>1, ChildrenFound
    <3>2. FamilyFacts /\ Process \subseteq Thread
      BY FamilyTree DEF Process
    <3> QED BY <3>1, <3>2 DEF FamilyFacts
  <2>5. AbstractFamily!WaitInVain(t)
    BY <1>3, <2>2, <2>3, <2>4 DEF AbstractFamily!WaitInVain, AbstractFamily!NoChildren, NoChildren
  <2> QED BY <2>5
<1>8. CASE return_from_wait(t)
  <2>1. answer' = [answer EXCEPT ![t] = NoAnswer]
    BY <1>8 DEF return_from_wait
  <2>2. FamilyAnswer' = [FamilyAnswer EXCEPT ![t] = NoAnswer]
    BY <1>5, <2>1
  <2>3. AbstractFamily!Forget(t)
    BY <1>3, <2>2 DEF AbstractFamily!Forget, AbstractFamily!NoAnswer, NoAnswer
  <2> QED BY <2>3
<1> QED BY <1>6, <1>7, <1>8

\* Every step of ProcLife is a step of Family or leaves the family alone.
LEMMA FamilyStep ==
  LifeInv /\ LifeInv' /\ [LifeNext]_<<vars, lifeVars>> => [AbstractFamily!Next]_(AbstractFamily!family)
<1> SUFFICES ASSUME LifeInv, LifeInv', [LifeNext]_<<vars, lifeVars>>
             PROVE  AbstractFamily!Next \/ UNCHANGED AbstractFamily!family
  OBVIOUS
<1>1. ASSUME UNCHANGED lifeVars, \A u \in Thread : Kept(k, k', u)
      PROVE  UNCHANGED AbstractFamily!family
  <2>1. UNCHANGED <<pid, parent_pid, exit_status, answer>>
    BY <1>1 DEF lifeVars
  <2>2. \A u \in Process : Lives(u)' = Lives(u) /\ Zombie(u)' = Zombie(u)
    BY <1>1, KeptLife DEF SameLife, Lives, Zombie, Process
  <2> QED BY <2>1, <2>2, NoEvent
<1>2. CASE (timer \/ idle) /\ UNCHANGED lifeVars
  <2>1. CASE timer
    <3>1. Fit(k) /\ k' = inthandler20(k)
      BY <2>1, LifeIsFit DEF timer
    <3> QED BY <1>1, <1>2, <3>1, FitTick
  <2>2. CASE idle
    <3>1. Fit(k) /\ k.cur = idle_thread /\ k' = thread_block(k, BLOCKED)
      BY <2>2, LifeIsFit DEF idle, OnCpu
    <3>2. /\ Fit(k') /\ \A t \in Thread \ {k.cur} : Kept(k, k', t)
          /\ k'.status[idle_thread] = BLOCKED \/ k'.cur = idle_thread
      BY <3>1, StatusType, FitBlock
    <3>3. k'.status[idle_thread] \in {RUNNING, BLOCKED}
      BY <3>2, KernelObjects DEF Fit
    <3>4. \A t \in Thread : Kept(k, k', t)
      BY <3>1, <3>2, <3>3 DEF Kept
    <3> QED BY <1>1, <1>2, <3>4
  <2> QED BY <1>2, <2>1, <2>2
<1>3. ASSUME NEW t \in Process, enter_syscall(t) /\ UNCHANGED lifeVars
      PROVE  UNCHANGED AbstractFamily!family
  BY <1>1, <1>3 DEF enter_syscall, Kept
<1>4. ASSUME NEW child \in Process, process_execute(child) PROVE AbstractFamily!Next
  <2>1. AbstractFamily!Born(child, NULL)
    BY <1>4, BornEvent DEF process_execute, OnCpu
  <2> QED BY <2>1 DEF AbstractFamily!Next
<1>5. ASSUME NEW t \in Process, NEW child \in Process, sys_fork(t, child) PROVE AbstractFamily!Next
  <2>1. k.cur = t /\ ~Halted(k) /\ Appear(child, pid[t])
    BY <1>5 DEF sys_fork, Calls, OnCpu
  <2>2. AbstractFamily!Born(child, t)
    BY <2>1, BornEvent
  <2>3. FamilyState[t] = "alive"
    BY <2>1, Caller DEF FamilyState, Lives
  <2> QED BY <2>2, <2>3 DEF AbstractFamily!Next, AbstractFamily!Fork
<1>6. ASSUME NEW t \in Process, sys_fork_fails(t) \/ sys_wait_none(t) \/ return_from_wait(t)
      PROVE  AbstractFamily!Next \/ UNCHANGED AbstractFamily!family
  BY <1>6, AnswerEvent DEF AbstractFamily!Next
<1>7. ASSUME NEW t \in Process, sys_wait_child(t) PROVE AbstractFamily!Next
  BY <1>7, WaitEvent DEF AbstractFamily!Next
<1>8. ASSUME NEW t \in Process, sys_wait_block(t) PROVE UNCHANGED AbstractFamily!family
  <2>1. /\ k.cur = t /\ ~Halted(k) /\ k' = thread_block(k, WAITING)
        /\ UNCHANGED <<pid, parent_pid, exit_status, answer>>
    BY <1>8 DEF sys_wait_block, Waits, Calls, OnCpu
  <2>2. Fit(k) /\ t \in Thread /\ t # idle_thread /\ Lives(t) /\ ~Zombie(t) /\ WAITING \in Asleep
    BY <2>1, Caller DEF Asleep
  <2>3. (\A u \in Thread \ {t} : Kept(k, k', u)) /\ k'.status[t] = WAITING
    BY <2>1, <2>2, FitBlock
  <2>4. \A u \in Process : Lives(u)' = Lives(u) /\ Zombie(u)' = Zombie(u)
    <3> SUFFICES ASSUME NEW u \in Process PROVE Lives(u)' = Lives(u) /\ Zombie(u)' = Zombie(u)
      OBVIOUS
    <3>1. CASE u = t
      BY <2>2, <2>3, <3>1 DEF Lives, Zombie, WAITING, NONE, HANGING
    <3>2. CASE u # t
      BY <2>3, <3>2, KeptLife DEF SameLife, Lives, Zombie, Process
    <3> QED BY <3>1, <3>2
  <2> QED BY <2>1, <2>4, NoEvent
<1>9. ASSUME NEW t \in Process, NEW status \in ExitStatus, sys_exit(t, status)
      PROVE  AbstractFamily!Next \/ UNCHANGED AbstractFamily!family
  BY <1>9, ExitEvent DEF AbstractFamily!Next
<1>10. CASE UNCHANGED <<vars, lifeVars>>
  BY <1>1, <1>10 DEF vars, Kept
<1> QED BY <1>2, <1>3, <1>4, <1>5, <1>6, <1>7, <1>8, <1>9, <1>10
        DEF LifeNext, ProcessLife, WaitPass

\* Although pids are used again, fork, exit and wait keep the family tree.
THEOREM FamilyRefinement == LifeSpec => ImplementsFamily
<1>1. LifeInit => AbstractFamily!Init
  <2> SUFFICES ASSUME LifeInit PROVE AbstractFamily!Init
    OBVIOUS
  <2>1. k.status = [t \in Thread |-> CASE t = main_thread -> RUNNING
                                      [] t \in {init_process, idle_thread} -> READY
                                      [] OTHER -> NONE]
    BY DEF LifeInit, Init, thread_init
  <2>2. /\ parent_pid = [t \in Thread |-> NO_PID] /\ answer = [t \in Thread |-> NoAnswer]
        /\ Process \subseteq Thread
    BY DEF LifeInit, Process
  <2>3. FamilyParent = [p \in Process |-> NULL]
    BY <2>2 DEF FamilyParent
  <2>4. \A t \in Process : k.status[t] = IF t = init_process THEN READY ELSE NONE
    BY <2>1, KernelObjects DEF Process
  <2>5. FamilyState = [p \in Process |-> IF p = init_process THEN "alive" ELSE "free"]
    BY <2>4 DEF FamilyState, Zombie, READY, NONE, HANGING
  <2>6. FamilyLeft = [p \in Process |-> NULL]
    BY <2>4 DEF FamilyLeft, Zombie, READY, NONE, HANGING
  <2>7. FamilyAnswer = [p \in Process |-> NoAnswer]
    BY <2>2 DEF FamilyAnswer
  <2> QED BY <2>3, <2>5, <2>6, <2>7 DEF AbstractFamily!Init, AbstractFamily!NoAnswer, NoAnswer
<1>2. LifeInv /\ LifeInv' /\ [LifeNext]_<<vars, lifeVars>> =>
        [AbstractFamily!Next]_(AbstractFamily!family)
  BY FamilyStep
<1> QED BY <1>1, <1>2, LifeInvariance, PTL DEF LifeSpec, ImplementsFamily, AbstractFamily!Spec
=============================================================================
