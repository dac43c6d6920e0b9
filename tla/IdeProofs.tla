----------------------------- MODULE IdeProofs -----------------------------
(***************************************************************************)
(* Proofs about the ATA driver: a thread moves the data of its own         *)
(* request, no signal of an earlier one is left behind, and the lists of   *)
(* the scheduler and of the semaphores stay exact.                         *)
(***************************************************************************)
EXTENDS Ide, LocksProofs, DataProofs, FiniteSetTheorems

LEMMA DriverObjects ==
  /\ channel \in Lock /\ channel \in Sem /\ disk_done \in Sem /\ disk_done # channel
  /\ disk_done \notin Lock /\ idle_thread \in Thread /\ main_thread \in Thread
  /\ init_process \in Thread /\ idle_thread # main_thread /\ idle_thread # init_process
BY IdeObjects, KernelObjects

-----------------------------------------------------------------------------
(* The scheduler does not touch the counters.                              *)

Fields == {"nx", "pv", "status", "ticks", "cur", "value", "holder", "repeat", "panic"}

LEMMA InitialFields == DOMAIN thread_init = Fields
BY DEF thread_init, Fields

\* n is the state a after a step that changes no counter.
SameCounters(a, n) == DOMAIN n = Fields /\ n.value = a.value

LEMMA CountersThen ==
  ASSUME NEW a, NEW b, SameCounters(a, b), NEW c, SameCounters(b, c)
  PROVE  SameCounters(a, c)
BY DEF SameCounters

LEMMA CountersSame ==
  ASSUME NEW a, DOMAIN a = Fields
  PROVE  SameCounters(a, a)
BY DEF SameCounters

LEMMA AddCounters ==
  ASSUME NEW a, DOMAIN a = Fields, NEW node, NEW head
  PROVE  SameCounters(a, list_add(a, node, head)) /\ SameCounters(a, list_add_tail(a, node, head))
BY DEF SameCounters, Fields, list_add, list_add_tail

LEMMA PopCounters ==
  ASSUME NEW a, DOMAIN a = Fields, NEW head
  PROVE  SameCounters(a, list_pop(a, head))
<1> DEFINE x == list_first(a, head)
           d == list_del(a, x)
<1>1. SameCounters(a, d)
  BY DEF SameCounters, Fields, list_del
<1> HIDE DEF d, x
<1>2. SameCounters(d, INIT_LIST_HEAD(d, x))
  BY <1>1 DEF SameCounters, Fields, INIT_LIST_HEAD
<1> QED BY <1>1, <1>2, CountersThen DEF list_pop, list_del_init, d, x

LEMMA StatusCounters ==
  ASSUME NEW a, DOMAIN a = Fields, NEW t, NEW st
  PROVE  /\ SameCounters(a, [a EXCEPT !.status[t] = st])
         /\ \A n : SameCounters(a, [a EXCEPT !.ticks[t] = n, !.status[t] = st])
         /\ SameCounters(a, [a EXCEPT !.status[t] = st, !.cur = t])
         /\ \A n : SameCounters(a, [a EXCEPT !.ticks[t] = n])
         /\ \A why : SameCounters(a, PANIC(a, why))
BY DEF SameCounters, Fields, PANIC

LEMMA JoinCounters ==
  ASSUME NEW a, DOMAIN a = Fields, NEW t
  PROVE  SameCounters(a, join_ready(a, t))
<1> DEFINE b == list_add_tail(a, t, thread_ready_list)
<1>1. SameCounters(a, b) /\ DOMAIN b = Fields
  BY AddCounters DEF SameCounters
<1> HIDE DEF b
<1>2. SameCounters(b, [b EXCEPT !.ticks[t] = Priority[t], !.status[t] = READY])
  BY <1>1, StatusCounters
<1> QED BY <1>1, <1>2, CountersThen DEF join_ready, b

LEMMA UnblockCounters ==
  ASSUME NEW a, DOMAIN a = Fields, NEW t
  PROVE  SameCounters(a, thread_unblock(a, t))
<1> DEFINE b == list_add(a, t, thread_ready_list)
<1>1. SameCounters(a, b) /\ DOMAIN b = Fields
  BY AddCounters DEF SameCounters
<1> HIDE DEF b
<1>2. SameCounters(b, [b EXCEPT !.status[t] = READY])
  BY <1>1, StatusCounters
<1>3. SameCounters(a, [b EXCEPT !.status[t] = READY])
  BY <1>1, <1>2, CountersThen
<1> QED BY <1>3, StatusCounters DEF thread_unblock, b

LEMMA ScheduleCounters ==
  ASSUME NEW a, DOMAIN a = Fields
  PROVE  SameCounters(a, schedule(a))
<1> DEFINE after == requeue(a)
           some == wake_idle(after)
           b    == list_pop(some, thread_ready_list)
           next == list_first(some, thread_ready_list)
<1>1. SameCounters(a, after)
  <2>1. SameCounters(a, join_ready(a, a.cur))
        /\ SameCounters(a, list_add_tail(a, a.cur, thread_ready_list))
        /\ SameCounters(a, PANIC(a, "schedule")) /\ SameCounters(a, a)
    BY JoinCounters, AddCounters, StatusCounters, CountersSame
  <2> QED BY <2>1 DEF requeue
<1>2. DOMAIN after = Fields
  BY <1>1 DEF SameCounters
<1> HIDE DEF after
<1>3. SameCounters(after, some)
  BY <1>2, UnblockCounters, CountersSame DEF wake_idle
<1>4. DOMAIN some = Fields
  BY <1>3 DEF SameCounters
<1> HIDE DEF some
<1>5. SameCounters(some, b)
  BY <1>4, PopCounters
<1>6. DOMAIN b = Fields
  BY <1>5 DEF SameCounters
<1> HIDE DEF b, next
<1>7. SameCounters(b, [b EXCEPT !.status[next] = RUNNING, !.cur = next])
  BY <1>6, StatusCounters
<1>8. SameCounters(some, switch_to_first(some))
  BY <1>5, <1>7, CountersThen DEF switch_to_first, b, next
<1>9. SameCounters(a, some) /\ SameCounters(a, switch_to_first(some))
  BY <1>1, <1>3, <1>8, CountersThen
<1> QED BY <1>1, <1>9 DEF schedule, after, some

LEMMA BlockCounters ==
  ASSUME NEW a, DOMAIN a = Fields
  PROVE  /\ \A st : SameCounters(a, thread_block(a, st))
         /\ SameCounters(a, thread_yield(a)) /\ SameCounters(a, inthandler20(a))
<1>1. ASSUME NEW st PROVE SameCounters(a, thread_block(a, st))
  <2> DEFINE b == [a EXCEPT !.status[a.cur] = st]
  <2>1. SameCounters(a, b) /\ DOMAIN b = Fields
    BY StatusCounters DEF SameCounters
  <2> HIDE DEF b
  <2>2. SameCounters(b, schedule(b))
    BY <2>1, ScheduleCounters
  <2> QED BY <2>1, <2>2, CountersThen DEF thread_block, b
<1>2. SameCounters(a, thread_yield(a))
  <2> DEFINE c == list_add_tail(a, a.cur, thread_ready_list)
             b == [c EXCEPT !.status[a.cur] = READY]
  <2>1. SameCounters(a, c) /\ DOMAIN c = Fields
    BY AddCounters DEF SameCounters
  <2> HIDE DEF c
  <2>2. SameCounters(c, b) /\ DOMAIN b = Fields
    BY <2>1, StatusCounters DEF SameCounters
  <2> HIDE DEF b
  <2>3. SameCounters(b, schedule(b))
    BY <2>2, ScheduleCounters
  <2>4. SameCounters(a, schedule(b))
    BY <2>1, <2>2, <2>3, CountersThen
  <2> QED BY <2>4, StatusCounters DEF thread_yield, b, c
<1>3. SameCounters(a, inthandler20(a))
  <2>1. SameCounters(a, [a EXCEPT !.ticks[a.cur] = @ - 1])
    BY DEF SameCounters, Fields
  <2> QED BY <2>1, ScheduleCounters DEF inthandler20
<1> QED BY <1>1, <1>2, <1>3

\* A counter that is 0 stays 0, the caller is queued; another is counted down.
LEMMA DownCounters ==
  ASSUME NEW a, DOMAIN a = Fields, NEW s \in Sem, a.value \in [Sem -> {0, 1}]
  PROVE  /\ a.value[s] = 0 => SameCounters(a, semaphore_down(a, s))
         /\ a.value[s] = 1 => /\ DOMAIN semaphore_down(a, s) = Fields
                              /\ semaphore_down(a, s).value = [a.value EXCEPT ![s] = 0]
<1>1. ASSUME a.value[s] = 0 PROVE SameCounters(a, semaphore_down(a, s))
  <2> DEFINE b == list_add_tail(a, a.cur, s)
  <2>1. SameCounters(a, b) /\ DOMAIN b = Fields
    BY AddCounters DEF SameCounters
  <2> HIDE DEF b
  <2>2. SameCounters(a, thread_block(b, BLOCKED))
    BY <2>1, BlockCounters, CountersThen
  <2> QED BY <1>1, <2>2, StatusCounters DEF semaphore_down, b
<1>2. ASSUME a.value[s] = 1
      PROVE  /\ DOMAIN semaphore_down(a, s) = Fields
             /\ semaphore_down(a, s).value = [a.value EXCEPT ![s] = 0]
  BY <1>2 DEF semaphore_down, Fields
<1> QED BY <1>1, <1>2

\* The counter goes to 1, or the machine stops.
LEMMA UpCounters ==
  ASSUME NEW a, DOMAIN a = Fields, NEW s \in Sem, a.value \in [Sem -> {0, 1}]
  PROVE  LET n == semaphore_up(a, s)
         IN  \/ Halted(n) /\ SameCounters(a, n)
             \/ DOMAIN n = Fields /\ a.value[s] = 0 /\ n.value = [a.value EXCEPT ![s] = 1]
<1> DEFINE p == list_pop(a, s)
           woken == wake_first(a, s)
<1>1. SameCounters(a, woken)
  <2>1. SameCounters(a, p) /\ DOMAIN p = Fields
    BY PopCounters DEF SameCounters
  <2> HIDE DEF p
  <2>2. SameCounters(a, thread_unblock(p, list_first(a, s)))
    BY <2>1, UnblockCounters, CountersThen
  <2> QED BY <2>2, CountersSame DEF wake_first, p
<1>2. DOMAIN woken = Fields /\ woken.value = a.value
  BY <1>1 DEF SameCounters
<1> HIDE DEF woken
<1>3. Halted(PANIC(woken, "semaphore_up")) /\ SameCounters(a, PANIC(woken, "semaphore_up"))
  <2>1. SameCounters(woken, PANIC(woken, "semaphore_up"))
    BY <1>2, StatusCounters
  <2>2. Halted(PANIC(woken, "semaphore_up"))
    BY <1>2 DEF Halted, PANIC, Fields
  <2> QED BY <1>1, <2>1, <2>2, CountersThen
<1>4. CASE Halted(woken)
  BY <1>1, <1>4 DEF semaphore_up, woken
<1>5. CASE ~Halted(woken) /\ a.value[s] # 0
  BY <1>3, <1>5 DEF semaphore_up, woken
<1>6. CASE ~Halted(woken) /\ a.value[s] = 0
  <2> DEFINE n == [woken EXCEPT !.value[s] = @ + 1]
  <2>1. DOMAIN n = Fields /\ n.value = [a.value EXCEPT ![s] = 1]
    BY <1>2, <1>6 DEF Fields
  <2>2. semaphore_up(a, s) = n
    BY <1>6 DEF semaphore_up, woken
  <2> QED BY <1>6, <2>1, <2>2
<1> QED BY <1>4, <1>5, <1>6

-----------------------------------------------------------------------------
(* What holds of the owner.                                                *)

LEMMA InvFacts ==
  ASSUME IdeInv
  PROVE  /\ DOMAIN k = Fields /\ k.value \in [Sem -> {0, 1}]
         /\ \A t \in Thread : Fits(t)
         /\ \A t, u \in Thread : Owner(t) /\ Owner(u) => t = u
         /\ \A t \in Thread : Owner(t) => Requested(t) /\ k.value[channel] = 0 /\ t # idle_thread
         /\ (\A t \in Thread : ~Owner(t)) => NoSignal /\ DriveRests
<1>1. DOMAIN k = Fields /\ k.value \in [Sem -> {0, 1}]
  BY InitialFields DEF IdeInv, IdeTypeOK
<1>2. k.value[channel] \in {0, 1}
  BY <1>1, DriverObjects
<1>3. \A t \in Thread : Owner(t) => t # idle_thread
  BY DEF IdeInv, PlacesFit, Owner, InRelease
<1> QED BY <1>1, <1>2, <1>3 DEF IdeInv, PlacesFit, Owned

LEMMA InvImplies == IdeInv => OwnData /\ NoStaleSignal
<1> SUFFICES ASSUME IdeInv PROVE OwnData /\ NoStaleSignal
  OBVIOUS
<1>1. ASSUME NEW t \in Thread, io[t] = "data"
      PROVE  drive = [st |-> "drq", of |-> t, cmd |-> op[t]]
  <2>1. Owner(t) /\ Requested(t)
    BY <1>1, InvFacts DEF Fits, Owner
  <2>2. drive.of = t /\ drive.cmd = op[t] /\ drive.st = "drq"
    BY <1>1, <2>1 DEF Requested, Reads, Writes
  <2>3. drive \in [st : DriveState, of : Thread \cup {NULL}, cmd : Command]
    BY DEF IdeInv, IdeTypeOK
  <2> QED BY <2>2, <2>3
<1>2. ASSUME k.value[channel] = 1 PROVE k.value[disk_done] = 0 /\ ~expecting_intr
  BY <1>2, InvFacts DEF IdeInv, Owned, NoSignal, Signal
<1> QED BY <1>1, <1>2 DEF OwnData, NoStaleSignal

\* Nobody enters or leaves the driver.
LEMMA OutsideStep ==
  ASSUME IdeInv, SameCounters(k, k'),
         UNCHANGED <<arg, held, io, op, dev, sect, drive, irq, expecting_intr>>,
         pc' \in [Thread -> PC], pc'[idle_thread] \in {"block", "hlt"},
         \A t \in Thread : \/ pc'[t] = pc[t]
                           \/ /\ io[t] = "none" /\ pc[t] \notin InFetch \cup InRelease
                              /\ pc'[t] \notin InFetch \cup InRelease
  PROVE  IdeInv'
<1>1. DOMAIN k' = DOMAIN thread_init /\ k'.value = k.value
  BY InitialFields DEF SameCounters
<1>2. \A t \in Thread : Owner(t)' <=> Owner(t)
  BY DEF Owner, InFetch, InRelease
<1>3. \A t \in Thread : Fits(t)'
  BY DEF IdeInv, PlacesFit, Fits
<1>4. \A t \in Thread : Requested(t) => Requested(t)'
  BY <1>1 DEF Requested, Reads, Writes, NoSignal, Expected, Sent, Signal, DriveRests
<1>5. NoSignal /\ DriveRests => NoSignal' /\ DriveRests'
  BY <1>1 DEF NoSignal, Signal, DriveRests
<1>6. IdeTypeOK'
  BY <1>1, InitialFields DEF IdeInv, IdeTypeOK
<1>7. Owned'
  BY <1>1, <1>2 DEF IdeInv, Owned
<1>8. PlacesFit'
  BY <1>3 DEF PlacesFit
<1> QED BY <1>2, <1>4, <1>5, <1>6, <1>7, <1>8 DEF IdeInv

\* A step of the owner, of the drive or of the handler.
LEMMA OwnerStep ==
  ASSUME IdeInv, NEW t \in Thread, Owner(t), Owner(t)', Fits(t)', Requested(t)',
         DOMAIN k' = Fields, k'.value \in [Sem -> {0, 1}], k'.value[channel] = k.value[channel],
         pc' \in [Thread -> PC], pc'[idle_thread] \in {"block", "hlt"},
         \A u \in Thread \ {t, idle_thread} : pc'[u] = pc[u],
         arg' \in [Thread -> Lock \cup {NULL}], io' \in [Thread -> Place],
         op' \in [Thread -> Command],
         \A u \in Thread \ {t} : arg'[u] = arg[u] /\ io'[u] = io[u] /\ op'[u] = op[u],
         drive' \in [st : DriveState, of : Thread \cup {NULL}, cmd : Command],
         irq' \in BOOLEAN, expecting_intr' \in BOOLEAN, held' = held
  PROVE  IdeInv'
<1>1. t # idle_thread
  BY InvFacts
<1>2. ASSUME NEW u \in Thread, u # t PROVE Fits(u)' /\ ~Owner(u)'
  <2>1. ~Owner(u) /\ Fits(u)
    BY <1>2, InvFacts
  <2>2. CASE u = idle_thread
    <3>1. pc[u] \in {"block", "hlt"}
      BY <2>2 DEF IdeInv, PlacesFit
    <3> QED BY <1>2, <2>1, <2>2, <3>1 DEF Fits, Owner, InFetch, InRelease
  <2>3. CASE u # idle_thread
    BY <1>2, <2>1, <2>3 DEF Fits, Owner
  <2> QED BY <2>2, <2>3
<1>3. PlacesFit'
  BY <1>2 DEF PlacesFit
<1>4. k.value[channel] = 0
  BY InvFacts
<1>5. \A u \in Thread : ~Owner(u) => ~Owner(u)'
  BY <1>2
<1>6. Owned'
  BY <1>2, <1>4 DEF IdeInv, Owned
<1>7. IdeTypeOK'
  BY InitialFields DEF IdeInv, IdeTypeOK
<1> QED BY <1>2, <1>3, <1>6, <1>7 DEF IdeInv

\* The common case: the owner goes on to the next statement.
LEMMA PlaceStep ==
  ASSUME IdeInv, NEW t \in Thread, pc[t] = "kernel", io[t] # "none",
         NEW w \in Place \ {"none"}, io' = [io EXCEPT ![t] = w],
         DOMAIN k' = Fields, k'.value \in [Sem -> {0, 1}], k'.value[channel] = k.value[channel],
         UNCHANGED <<pc, arg, op, held>>, Requested(t)',
         drive' \in [st : DriveState, of : Thread \cup {NULL}, cmd : Command],
         irq' \in BOOLEAN, expecting_intr' \in BOOLEAN
  PROVE  IdeInv'
<1>1. io \in [Thread -> Place] /\ pc \in [Thread -> PC] /\ op \in [Thread -> Command]
      /\ arg \in [Thread -> Lock \cup {NULL}] /\ pc[idle_thread] \in {"block", "hlt"}
  BY DEF IdeInv, IdeTypeOK, PlacesFit
<1>2. io' \in [Thread -> Place] /\ io'[t] = w /\ \A u \in Thread \ {t} : io'[u] = io[u]
  BY <1>1
<1>3. Owner(t) /\ Owner(t)'
  BY <1>2 DEF Owner
<1>4. Fits(t)'
  BY <1>2 DEF Fits, InFetch, InRelease
<1> QED BY <1>1, <1>2, <1>3, <1>4, OwnerStep

-----------------------------------------------------------------------------
(* The threads outside the driver, and the timer.                          *)

LEMMA Types ==
  ASSUME IdeInv
  PROVE  /\ pc \in [Thread -> PC] /\ arg \in [Thread -> Lock \cup {NULL}]
         /\ held \in [Thread -> [Lock -> Nat]]
         /\ io \in [Thread -> Place] /\ op \in [Thread -> Command]
         /\ drive \in [st : DriveState, of : Thread \cup {NULL}, cmd : Command]
         /\ irq \in BOOLEAN /\ expecting_intr \in BOOLEAN
         /\ pc[idle_thread] \in {"block", "hlt"}
BY DEF IdeInv, IdeTypeOK, PlacesFit

LEMMA StopCounters ==
  ASSUME IdeInv, NEW why
  PROVE  SameCounters(k, PANIC(k, why)) /\ SameCounters(k, k)
BY InvFacts, StatusCounters, CountersSame

\* The places in and outside the lock functions.
LEMMA PlacesApart ==
  /\ {"user", "kernel", "block", "hlt"} \cap (InFetch \cup InRelease) = {}
  /\ PC = {"user", "kernel", "block", "hlt"} \cup InFetch \cup InRelease
BY DEF PC, InFetch, InRelease

LEMMA SyscallPreserves ==
  ASSUME IdeInv, NEW t \in Thread, UNCHANGED ideVars,
         enter_syscall(t) \/ (io[t] = "none" /\ leave_syscall(t))
  PROVE  IdeInv'
<1>1. pc[t] \in {"user", "kernel"} /\ io[t] = "none"
  <2>1. CASE enter_syscall(t)
    BY <2>1, InvFacts DEF enter_syscall, OnCpu, Fits, InFetch
  <2>2. CASE leave_syscall(t) /\ io[t] = "none"
    BY <2>2 DEF leave_syscall, OnCpu
  <2> QED BY <2>1, <2>2
<1>2. PICK w \in {"user", "kernel"} : pc' = [pc EXCEPT ![t] = w]
  BY DEF enter_syscall, leave_syscall, Goto
<1>3. k' = k /\ UNCHANGED <<arg, held>>
  BY DEF enter_syscall, leave_syscall
<1>4. SameCounters(k, k')
  BY <1>3, StopCounters
<1>5. t # idle_thread /\ pc' \in [Thread -> PC] /\ pc'[idle_thread] \in {"block", "hlt"}
  BY <1>1, <1>2, Types, DriverObjects DEF PC
<1>6. \A u \in Thread : \/ pc'[u] = pc[u]
                        \/ /\ io[u] = "none" /\ pc[u] \notin InFetch \cup InRelease
                           /\ pc'[u] \notin InFetch \cup InRelease
  BY <1>1, <1>2, Types, PlacesApart
<1> QED BY <1>3, <1>4, <1>5, <1>6, OutsideStep DEF ideVars

LEMMA SpawnPreserves ==
  ASSUME IdeInv, NEW t \in Thread, NEW child \in Thread, spawn(t, child), UNCHANGED ideVars
  PROVE  IdeInv'
<1>1. SameCounters(k, start_thread(k, child))
  BY InvFacts, JoinCounters, StatusCounters DEF start_thread
<1>2. SameCounters(k, k') /\ UNCHANGED <<pc, arg, held>>
  BY <1>1 DEF spawn
<1> QED BY <1>2, Types, OutsideStep DEF ideVars

LEMMA IdlePreserves ==
  ASSUME IdeInv, idle, UNCHANGED ideVars
  PROVE  IdeInv'
<1>1. SameCounters(k, k') /\ UNCHANGED <<arg, held>>
  BY InvFacts, BlockCounters DEF idle
<1>2. pc' = [pc EXCEPT ![idle_thread] = "hlt"]
  BY DEF idle, Goto
<1>3. pc' \in [Thread -> PC] /\ pc'[idle_thread] \in {"block", "hlt"}
  BY <1>2, Types, DriverObjects DEF PC
<1>4. io[idle_thread] = "none" /\ pc[idle_thread] \notin InFetch \cup InRelease
  BY Types, InvFacts, DriverObjects DEF Fits, InFetch, InRelease
<1>5. \A u \in Thread : \/ pc'[u] = pc[u]
                        \/ /\ io[u] = "none" /\ pc[u] \notin InFetch \cup InRelease
                           /\ pc'[u] \notin InFetch \cup InRelease
  BY <1>2, <1>4, Types, PlacesApart
<1> QED BY <1>1, <1>3, <1>5, OutsideStep DEF ideVars

LEMMA TimerPreserves ==
  ASSUME IdeInv, ide_timer
  PROVE  IdeInv'
<1>1. SameCounters(k, k') /\ UNCHANGED <<arg, held>>
  BY InvFacts, BlockCounters DEF ide_timer, timer
<1>2. PICK w \in {"block", pc[idle_thread]} : pc' = [pc EXCEPT ![idle_thread] = w]
  BY DEF ide_timer, timer
<1>3. pc' \in [Thread -> PC] /\ pc'[idle_thread] \in {"block", "hlt"}
  BY <1>2, Types, DriverObjects DEF PC
<1>4. io[idle_thread] = "none" /\ pc[idle_thread] \notin InFetch \cup InRelease
  BY Types, InvFacts, DriverObjects DEF Fits, InFetch, InRelease
<1>5. \A u \in Thread : \/ pc'[u] = pc[u]
                        \/ /\ io[u] = "none" /\ pc[u] \notin InFetch \cup InRelease
                           /\ pc'[u] \notin InFetch \cup InRelease
  BY <1>2, <1>3, <1>4, Types, PlacesApart
<1> QED BY <1>1, <1>3, <1>5, OutsideStep DEF ide_timer

LEMMA StutterPreserves ==
  ASSUME IdeInv, UNCHANGED allVars
  PROVE  IdeInv'
BY StopCounters, Types, OutsideStep DEF allVars, vars, ideVars

-----------------------------------------------------------------------------
(* The lock of the channel.                                                *)

\* A step of a thread that is not yet, or no longer, the owner.
LEMMA WaiterStep ==
  ASSUME IdeInv, NEW t \in Thread, ~Owner(t), ~Owner(t)', Fits(t)', t # idle_thread,
         SameCounters(k, k'), pc' \in [Thread -> PC],
         arg' \in [Thread -> Lock \cup {NULL}], io' \in [Thread -> Place],
         op' \in [Thread -> Command],
         \A u \in Thread \ {t} : pc'[u] = pc[u] /\ arg'[u] = arg[u] /\ io'[u] = io[u]
                                 /\ op'[u] = op[u],
         UNCHANGED <<held, dev, sect, drive, irq, expecting_intr>>
  PROVE  IdeInv'
<1>1. DOMAIN k' = DOMAIN thread_init /\ k'.value = k.value
  BY InitialFields DEF SameCounters
<1>2. \A u \in Thread : Owner(u)' <=> Owner(u)
  BY DEF Owner
<1>3. \A u \in Thread : Fits(u)'
  BY InvFacts DEF Fits
<1>4. \A u \in Thread : Owner(u) /\ Requested(u) => Requested(u)'
  BY <1>1 DEF Requested, Reads, Writes, NoSignal, Expected, Sent, Signal, DriveRests
<1>5. NoSignal /\ DriveRests => NoSignal' /\ DriveRests'
  BY <1>1 DEF NoSignal, Signal, DriveRests
<1>6. IdeTypeOK'
  BY <1>1, InitialFields DEF IdeInv, IdeTypeOK
<1>7. Owned'
  BY <1>1, <1>2 DEF IdeInv, Owned
<1>8. PlacesFit'
  BY <1>3, Types, DriverObjects DEF PlacesFit
<1> QED BY <1>2, <1>4, <1>5, <1>6, <1>7, <1>8 DEF IdeInv

LEMMA FetchPreserves ==
  ASSUME IdeInv, NEW t \in Thread, At(t, "none"), lock_fetch(t, channel), Step(t, "disk"),
         op' \in [Thread -> Command], \A u \in Thread \ {t} : op'[u] = op[u],
         UNCHANGED <<dev, sect, drive, irq, expecting_intr>>
  PROVE  IdeInv'
<1>1. /\ pc[t] = "kernel" /\ io[t] = "none" /\ k' = k /\ held' = held
      /\ pc' = [pc EXCEPT ![t] = "down"] /\ arg' = [arg EXCEPT ![t] = channel]
      /\ io' = [io EXCEPT ![t] = "disk"]
  BY DEF At, OnCpu, lock_fetch, Goto, Step
<1>2. t # idle_thread
  BY <1>1, Types
<1>3. pc' \in [Thread -> PC] /\ arg' \in [Thread -> Lock \cup {NULL}] /\ io' \in [Thread -> Place]
  BY <1>1, Types, DriverObjects DEF PC, Place
<1>4. pc'[t] = "down" /\ arg'[t] = channel /\ io'[t] = "disk"
  BY <1>1, Types
<1>5. ~Owner(t) /\ ~Owner(t)' /\ Fits(t)'
  BY <1>1, <1>4 DEF Owner, Fits, InFetch, InRelease
<1>6. \A u \in Thread \ {t} : pc'[u] = pc[u] /\ arg'[u] = arg[u] /\ io'[u] = io[u]
  BY <1>1, Types
<1>7. SameCounters(k, k')
  BY <1>1, StopCounters
<1> QED BY <1>1, <1>2, <1>3, <1>5, <1>6, <1>7, WaiterStep

LEMMA DownPreserves ==
  ASSUME IdeInv, NEW t \in Thread, lock_fetch_down(t, channel), UNCHANGED ideVars
  PROVE  IdeInv'
<1>1. /\ pc[t] \in {"down", "queued"} /\ k' = semaphore_down(k, channel) /\ arg' = arg
      /\ UNCHANGED <<io, op, dev, sect, drive, irq, expecting_intr>>
  BY DEF lock_fetch_down, OnCpu, ideVars
<1>2. t # idle_thread /\ io[t] = "disk" /\ arg[t] = channel /\ ~Owner(t)
  BY <1>1, InvFacts, Types DEF Fits, Owner, InFetch, InRelease
<1>3. k.value[channel] \in {0, 1}
  BY InvFacts, DriverObjects
<1>4. CASE k.value[channel] = 0
  <2>1. pc' = [pc EXCEPT ![t] = "queued"] /\ held' = held
    BY <1>4 DEF lock_fetch_down, Goto
  <2>2. SameCounters(k, k')
    BY <1>1, <1>4, InvFacts, DriverObjects, DownCounters
  <2>3. pc' \in [Thread -> PC] /\ pc'[t] = "queued" /\ \A u \in Thread \ {t} : pc'[u] = pc[u]
    BY <2>1, Types DEF PC
  <2>4. ~Owner(t)' /\ Fits(t)'
    BY <1>1, <1>2, <2>3 DEF Owner, Fits, InFetch, InRelease
  <2> QED BY <1>1, <1>2, <2>1, <2>2, <2>3, <2>4, Types, WaiterStep
<1>5. CASE k.value[channel] = 1
  <2>1. /\ pc' = [pc EXCEPT ![t] = "taken"]
        /\ held' = [held EXCEPT ![t][channel] = held[t][channel] + 1]
    BY <1>5 DEF lock_fetch_down, Goto, Count
  <2>2. DOMAIN k' = Fields /\ k'.value = [k.value EXCEPT ![channel] = 0]
    BY <1>1, <1>5, InvFacts, DriverObjects, DownCounters
  <2>3. /\ k'.value \in [Sem -> {0, 1}] /\ k'.value[channel] = 0
        /\ k'.value[disk_done] = k.value[disk_done]
    BY <2>2, InvFacts, DriverObjects
  <2>4. pc' \in [Thread -> PC] /\ pc'[t] = "taken" /\ \A u \in Thread \ {t} : pc'[u] = pc[u]
    BY <2>1, Types DEF PC
  <2>5. \A u \in Thread : ~Owner(u)
    BY <1>5 DEF IdeInv, Owned
  <2>6. Owner(t)' /\ Fits(t)' /\ \A u \in Thread \ {t} : ~Owner(u)' /\ Fits(u)'
    BY <1>1, <1>2, <2>4, <2>5, InvFacts DEF Owner, Fits, InFetch, InRelease
  <2>7. held[t][channel] = 0 /\ \A u \in Thread : held[u][channel] = 0
    BY <2>5 DEF IdeInv, Owned
  <2>8. held' \in [Thread -> [Lock -> Nat]]
    BY <2>1, Types, DriverObjects
  <2>9. held'[t][channel] = 1 /\ \A u \in Thread \ {t} : held'[u][channel] = 0
    BY <2>1, <2>7, Types, DriverObjects
  <2>10. NoSignal' /\ DriveRests'
    <3>1. NoSignal /\ DriveRests
      BY <2>5, InvFacts
    <3> QED BY <1>1, <2>3, <3>1 DEF NoSignal, Signal, DriveRests
  <2>11. Requested(t)'
    BY <1>1, <1>2, <2>10 DEF Requested
  <2>12. PlacesFit'
    BY <1>2, <2>4, <2>6, Types, DriverObjects DEF PlacesFit
  <2>13. Owned'
    BY <2>3, <2>6, <2>9 DEF Owned
  <2>14. IdeTypeOK'
    BY <1>1, <2>2, <2>3, <2>4, <2>8, Types, InitialFields DEF IdeTypeOK
  <2> QED BY <2>6, <2>11, <2>12, <2>13, <2>14 DEF IdeInv
<1> QED BY <1>3, <1>4, <1>5

LEMMA HolderCounters ==
  ASSUME NEW a, DOMAIN a = Fields, NEW l, NEW x
  PROVE  SameCounters(a, [a EXCEPT !.holder[l] = x]) /\ SameCounters(a, [a EXCEPT !.repeat[l] = x])
BY DEF SameCounters, Fields

\* A counter step leaves what the owner finds as it is.
LEMMA SameRequest ==
  ASSUME NEW t \in Thread, Requested(t), SameCounters(k, k'),
         UNCHANGED <<io, op, dev, sect, drive, irq, expecting_intr>>
  PROVE  Requested(t)'
<1>1. k'.value = k.value
  BY DEF SameCounters
<1> QED BY <1>1 DEF Requested, Reads, Writes, NoSignal, Expected, Sent, Signal, DriveRests

\* The owner inside a lock function.
LEMMA OwnerLockStep ==
  ASSUME IdeInv, NEW t \in Thread, Owner(t), NEW w \in {"held", "kernel", "zeroed"},
         w = "kernel" => io[t] # "none", w = "held" => io[t] = "disk",
         w = "zeroed" => io[t] = "none", arg[t] = channel,
         SameCounters(k, k'), pc' = [pc EXCEPT ![t] = w], UNCHANGED <<arg, held>>,
         UNCHANGED ideVars
  PROVE  IdeInv'
<1>1. t # idle_thread
  BY InvFacts
<1>2. pc' \in [Thread -> PC] /\ pc'[t] = w /\ \A u \in Thread \ {t} : pc'[u] = pc[u]
  BY Types DEF PC
<1>3. Owner(t)' /\ Fits(t)'
  BY <1>2 DEF Owner, Fits, InFetch, InRelease, ideVars
<1>4. Requested(t)'
  BY InvFacts, SameRequest DEF ideVars
<1>5. DOMAIN k' = Fields /\ k'.value = k.value /\ k'.value \in [Sem -> {0, 1}]
  BY InvFacts DEF SameCounters
<1>6. pc'[idle_thread] \in {"block", "hlt"}
  BY <1>1, <1>2, Types, DriverObjects
<1>7. UNCHANGED <<io, op, dev, sect, drive, irq, expecting_intr>>
  BY DEF ideVars
<1> QED BY <1>2, <1>3, <1>4, <1>5, <1>6, <1>7, Types, OwnerStep

LEMMA LockPreserves ==
  ASSUME IdeInv, NEW t \in Thread, UNCHANGED ideVars,
         \/ lock_fetch_holder(t, channel) \/ lock_fetch_repeat(t, channel)
         \/ lock_release_repeat(t, channel)
  PROVE  IdeInv'
<1>1. CASE lock_fetch_holder(t, channel)
  <2>1. pc[t] = "taken" /\ arg[t] = channel
    BY <1>1 DEF lock_fetch_holder, OnCpu
  <2>2. Owner(t) /\ io[t] = "disk"
    BY <2>1, InvFacts DEF Owner, Fits, InFetch
  <2>3. SameCounters(k, k')
    BY <1>1, InvFacts, HolderCounters DEF lock_fetch_holder
  <2> QED BY <1>1, <2>1, <2>2, <2>3, OwnerLockStep DEF lock_fetch_holder, Goto
<1>2. CASE lock_fetch_repeat(t, channel)
  <2>1. pc[t] = "held" /\ arg[t] = channel
    BY <1>2 DEF lock_fetch_repeat, OnCpu
  <2>2. Owner(t) /\ io[t] = "disk"
    BY <2>1, InvFacts DEF Owner, Fits, InFetch
  <2>3. SameCounters(k, k')
    BY <1>2, InvFacts, HolderCounters, StopCounters DEF lock_fetch_repeat
  <2> QED BY <1>2, <2>1, <2>2, <2>3, OwnerLockStep DEF lock_fetch_repeat, Goto
<1>3. CASE lock_release_repeat(t, channel)
  <2>1. pc[t] = "freed" /\ arg[t] = channel
    BY <1>3 DEF lock_release_repeat, OnCpu
  <2>2. Owner(t) /\ io[t] = "none"
    BY <2>1, InvFacts DEF Owner, Fits, InRelease
  <2>3. SameCounters(k, k')
    BY <1>3, InvFacts, HolderCounters DEF lock_release_repeat
  <2> QED BY <1>3, <2>1, <2>2, <2>3, OwnerLockStep DEF lock_release_repeat, Goto
<1> QED BY <1>1, <1>2, <1>3

\* The end of lock_release: nobody owns the channel, and no signal is left.
LEMMA UpPreserves ==
  ASSUME IdeInv, NEW t \in Thread, lock_release_up(t, channel), UNCHANGED ideVars
  PROVE  IdeSafe'
<1>1. /\ pc[t] = "zeroed" /\ k' = semaphore_up(k, channel) /\ arg' = arg
      /\ pc' = [pc EXCEPT ![t] = "kernel"]
      /\ held' = [held EXCEPT ![t][channel] = held[t][channel] - 1]
      /\ UNCHANGED <<io, op, dev, sect, drive, irq, expecting_intr>>
  BY DEF lock_release_up, OnCpu, Goto, Count, ideVars
<1>2. Owner(t) /\ io[t] = "none" /\ t # idle_thread
  BY <1>1, InvFacts DEF Owner, Fits, InRelease
<1>3. CASE Halted(k') /\ SameCounters(k, k')
  <2>1. OwnData /\ NoStaleSignal
    BY InvImplies
  <2>2. k'.value = k.value
    BY <1>3 DEF SameCounters
  <2>3. OwnData'
    BY <1>1, <2>1 DEF OwnData
  <2>4. NoStaleSignal'
    BY <1>1, <2>1, <2>2 DEF NoStaleSignal
  <2> QED BY <1>3, <2>3, <2>4 DEF IdeSafe
<1>4. CASE DOMAIN k' = Fields /\ k'.value = [k.value EXCEPT ![channel] = 1]
  <2>1. k'.value \in [Sem -> {0, 1}] /\ k'.value[disk_done] = k.value[disk_done]
    BY <1>4, InvFacts, DriverObjects
  <2>2. pc' \in [Thread -> PC] /\ pc'[t] = "kernel" /\ \A u \in Thread \ {t} : pc'[u] = pc[u]
    BY <1>1, Types DEF PC
  <2>3. \A u \in Thread \ {t} : ~Owner(u)
    BY <1>2, InvFacts
  <2>4. \A u \in Thread : ~Owner(u)' /\ Fits(u)'
    BY <1>1, <1>2, <2>2, <2>3, InvFacts DEF Owner, Fits, InFetch, InRelease
  <2>5. held[t][channel] = 1 /\ \A u \in Thread \ {t} : held[u][channel] = 0
    BY <1>2, <2>3 DEF IdeInv, Owned
  <2>6. held' \in [Thread -> [Lock -> Nat]]
    <3>1. [held[t] EXCEPT ![channel] = 0] \in [Lock -> Nat]
      BY Types, DriverObjects
    <3>2. held[t][channel] - 1 = 0
      BY <2>5
    <3>3. held' = [held EXCEPT ![t] = [held[t] EXCEPT ![channel] = 0]]
      BY <1>1, <3>2, Types
    <3> QED BY <3>1, <3>3, Types
  <2>7. \A u \in Thread : held'[u][channel] = 0
    BY <1>1, <2>5, Types, DriverObjects
  <2>8. NoSignal' /\ DriveRests'
    <3>1. NoSignal /\ DriveRests
      BY <1>2, InvFacts DEF Requested
    <3> QED BY <1>1, <2>1, <3>1 DEF NoSignal, Signal, DriveRests
  <2>9. PlacesFit'
    BY <1>2, <2>2, <2>4, Types, DriverObjects DEF PlacesFit
  <2>10. Owned'
    BY <2>4, <2>7 DEF Owned
  <2>11. IdeTypeOK'
    BY <1>1, <1>4, <2>1, <2>2, <2>6, Types, InitialFields DEF IdeTypeOK
  <2> QED BY <2>4, <2>8, <2>9, <2>10, <2>11 DEF IdeInv, IdeSafe
<1> QED BY <1>1, <1>3, <1>4, InvFacts, DriverObjects, UpCounters

\* The start of lock_release, and the end of a sector.
LEMMA ReleasePreserves ==
  ASSUME IdeInv, NEW t \in Thread, ide_release(t)
  PROVE  IdeInv'
<1>1. /\ pc[t] = "kernel" /\ io[t] = "release" /\ arg' = [arg EXCEPT ![t] = channel]
      /\ pc' = [pc EXCEPT ![t] = "freed"] /\ io' = [io EXCEPT ![t] = "none"] /\ held' = held
      /\ UNCHANGED <<dev, sect, drive, irq, expecting_intr>>
  BY DEF ide_release, At, OnCpu, lock_release, Goto, Step
<1>2. SameCounters(k, k')
  BY InvFacts, HolderCounters, StopCounters DEF ide_release, lock_release
<1>3. DOMAIN k' = Fields /\ k'.value = k.value /\ k'.value \in [Sem -> {0, 1}]
  BY <1>2, InvFacts DEF SameCounters
<1>4. Owner(t) /\ Requested(t) /\ t # idle_thread
  BY <1>1, InvFacts DEF Owner
<1>5. PICK o \in {"read", op[t]} : op' = [op EXCEPT ![t] = o]
  BY DEF ide_release
<1>6. op' \in [Thread -> Command] /\ \A u \in Thread \ {t} : op'[u] = op[u]
  BY <1>5, Types DEF Command
<1>7. /\ pc' \in [Thread -> PC] /\ pc'[t] = "freed" /\ \A u \in Thread \ {t} : pc'[u] = pc[u]
      /\ arg' \in [Thread -> Lock \cup {NULL}] /\ arg'[t] = channel
      /\ \A u \in Thread \ {t} : arg'[u] = arg[u]
      /\ io' \in [Thread -> Place] /\ io'[t] = "none" /\ \A u \in Thread \ {t} : io'[u] = io[u]
  BY <1>1, Types, DriverObjects DEF PC, Place
<1>8. Owner(t)' /\ Fits(t)'
  BY <1>7 DEF Owner, Fits, InFetch, InRelease
<1>9. NoSignal /\ DriveRests
  BY <1>1, <1>4 DEF Requested
<1>10. Requested(t)'
  BY <1>1, <1>3, <1>7, <1>9 DEF Requested, NoSignal, Signal, DriveRests
<1>11. pc'[idle_thread] \in {"block", "hlt"}
  BY <1>4, <1>7, Types, DriverObjects
<1> QED BY <1>1, <1>3, <1>4, <1>6, <1>7, <1>8, <1>10, <1>11, Types, OwnerStep

-----------------------------------------------------------------------------
(* The statements of ide_read_sector and ide_write_sector.                 *)

\* What a place in the driver says.
LEMMA AtPlace ==
  ASSUME IdeInv, NEW t \in Thread, NEW w \in Place \ {"none"}, At(t, w)
  PROVE  pc[t] = "kernel" /\ io[t] = w /\ ~Halted(k) /\ Owner(t) /\ Requested(t)
         /\ k.value[channel] = 0 /\ t # idle_thread
BY InvFacts DEF At, OnCpu, Owner

\* The registers of the drive, the flag of the handler.
LEMMA SelectPreserves ==
  ASSUME IdeInv, NEW t \in Thread,
         select_disk(t) \/ select_sector(t) \/ cmd_out_expect(t) \/ cmd_out(t)
  PROVE  IdeInv'
<1>1. PICK w \in {"disk", "sector", "expect", "cmd"} : At(t, w)
  BY DEF select_disk, select_sector, cmd_out_expect, cmd_out
<1>2. pc[t] = "kernel" /\ io[t] = w /\ Requested(t)
  BY <1>1, AtPlace DEF Place
<1>3. k' = k /\ UNCHANGED <<pc, arg, held, op, irq>>
  BY DEF select_disk, select_sector, cmd_out_expect, cmd_out, vars
<1>4. PICK v \in Place \ {"none"} : io' = [io EXCEPT ![t] = v]
  BY DEF select_disk, select_sector, cmd_out_expect, cmd_out, Step, Place
<1>5. io'[t] = v
  BY <1>4, Types
<1>6. op[t] \in Command
  BY Types
<1>7. /\ drive' \in [st : DriveState, of : Thread \cup {NULL}, cmd : Command]
      /\ expecting_intr' \in BOOLEAN /\ Requested(t)'
  <2>1. CASE select_disk(t)
    <3>1. io[t] = "disk" /\ io'[t] = "sector" /\ dev' = t
          /\ UNCHANGED <<sect, drive, expecting_intr>>
      BY <2>1, Types DEF select_disk, At, Step, Place
    <3> QED BY <1>2, <1>3, <3>1, Types DEF Requested, NoSignal, Signal, DriveRests
  <2>2. CASE select_sector(t)
    <3>1. io[t] = "sector" /\ io'[t] = "expect" /\ dev' = t /\ sect' = t
          /\ UNCHANGED <<drive, expecting_intr>>
      BY <2>2, Types DEF select_sector, At, Step, Place
    <3> QED BY <1>2, <1>3, <3>1, Types DEF Requested, NoSignal, Signal, DriveRests
  <2>3. CASE cmd_out_expect(t)
    <3>1. io[t] = "expect" /\ io'[t] = "cmd" /\ expecting_intr' = TRUE
          /\ UNCHANGED <<dev, sect, drive>>
      BY <2>3, Types DEF cmd_out_expect, At, Step, Place
    <3> QED BY <1>2, <1>3, <3>1, Types DEF Requested, NoSignal, Expected, Signal, DriveRests
  <2>4. CASE cmd_out(t)
    <3>1. io[t] = "cmd" /\ io'[t] = IF op[t] = "read" THEN "down" ELSE "poll"
      BY <2>4, Types DEF cmd_out, At, Step, Place
    <3>2. dev = t /\ sect = t /\ Expected
      BY <1>2, <3>1 DEF Requested
    <3>3. drive' = [st |-> "busy", of |-> t, cmd |-> op[t]]
          /\ UNCHANGED <<dev, sect, expecting_intr>>
      BY <2>4, <3>2 DEF cmd_out
    <3>4. Expected'
      BY <1>3, <3>2, <3>3 DEF Expected, Signal
    <3>5. Requested(t)'
      BY <1>3, <3>1, <3>3, <3>4 DEF Requested, Reads, Writes
    <3> QED BY <1>6, <3>3, <3>5, Types DEF DriveState
  <2> QED BY <2>1, <2>2, <2>3, <2>4
<1>8. DOMAIN k' = Fields /\ k'.value \in [Sem -> {0, 1}] /\ k'.value[channel] = k.value[channel]
  BY <1>3, InvFacts
<1>9. irq' \in BOOLEAN
  BY <1>3, Types
<1>10. io[t] # "none"
  BY <1>2
<1> QED BY <1>2, <1>3, <1>4, <1>7, <1>8, <1>9, <1>10, PlaceStep

\* semaphore_down(&disk_done): a signal is taken, or the thread sleeps until the handler
\* has sent it.
LEMMA DonePreserves ==
  ASSUME IdeInv, NEW t \in Thread, semaphore_down_done(t)
  PROVE  IdeInv'
<1>1. PICK w \in {"down", "queued"} : At(t, w)
  BY DEF semaphore_down_done
<1>2. pc[t] = "kernel" /\ io[t] = w /\ Requested(t) /\ io[t] # "none"
  BY <1>1, AtPlace DEF Place
<1>3. /\ k' = semaphore_down(k, disk_done)
      /\ UNCHANGED <<pc, arg, held, op, dev, sect, drive, irq, expecting_intr>>
  BY DEF semaphore_down_done
<1>4. k.value[disk_done] \in {0, 1}
  BY InvFacts, DriverObjects
<1>5. drive.of = t /\ drive.cmd = op[t] /\ IF op[t] = "read" THEN Reads(t) ELSE Writes(t)
  BY <1>2 DEF Requested
<1>6. CASE k.value[disk_done] = 0
  <2>1. io' = [io EXCEPT ![t] = "queued"]
    BY <1>6 DEF semaphore_down_done, Step
  <2>2. DOMAIN k' = Fields /\ k'.value = k.value
    BY <1>3, <1>6, InvFacts, DriverObjects, DownCounters DEF SameCounters
  <2>3. io'[t] = "queued"
    BY <2>1, Types
  <2>4. Requested(t)'
    BY <1>2, <1>3, <1>5, <2>2, <2>3 DEF Requested, Reads, Writes, Expected, Sent, Signal
  <2> QED BY <1>2, <1>3, <2>1, <2>2, <2>4, InvFacts, Types, PlaceStep DEF Place
<1>7. CASE k.value[disk_done] = 1
  <2>1. PICK v \in {"poll", "release"} : io' = [io EXCEPT ![t] = v]
                                         /\ v = IF op[t] = "read" THEN "poll" ELSE "release"
    BY <1>7 DEF semaphore_down_done, Step
  <2>2. DOMAIN k' = Fields /\ k'.value = [k.value EXCEPT ![disk_done] = 0]
    BY <1>3, <1>7, InvFacts, DriverObjects, DownCounters
  <2>3. /\ k'.value \in [Sem -> {0, 1}] /\ k'.value[channel] = k.value[channel]
        /\ k'.value[disk_done] = 0
    BY <2>2, InvFacts, DriverObjects
  <2>4. io'[t] = v
    BY <2>1, Types
  <2>5. Signal(1, FALSE, FALSE)
        /\ IF op[t] = "read" THEN drive.st \in {"drq", "err"} ELSE drive.st = "ready"
    BY <1>2, <1>5, <1>7 DEF Reads, Writes, Expected, Sent, Signal
  <2>6. NoSignal'
    BY <1>3, <2>3, <2>5 DEF NoSignal, Signal
  <2>7. Requested(t)'
    BY <1>3, <1>5, <2>1, <2>4, <2>5, <2>6 DEF Requested, Reads, DriveRests
  <2>8. v \in Place \ {"none"}
    BY DEF Place
  <2>9. drive' \in [st : DriveState, of : Thread \cup {NULL}, cmd : Command]
        /\ irq' \in BOOLEAN /\ expecting_intr' \in BOOLEAN
    BY <1>3, Types
  <2> QED BY <1>2, <1>3, <2>1, <2>2, <2>3, <2>7, <2>8, <2>9, PlaceStep
<1> QED BY <1>4, <1>6, <1>7

\* A step that changes neither a counter nor the drive.
LEMMA OwnerQuietStep ==
  ASSUME IdeInv, NEW t \in Thread, pc[t] = "kernel", io[t] # "none", SameCounters(k, k'),
         NEW v \in Place \ {"none"}, io' = [io EXCEPT ![t] = v], Requested(t)',
         UNCHANGED <<pc, arg, held, op, drive, irq, expecting_intr>>
  PROVE  IdeInv'
<1>1. DOMAIN k' = Fields /\ k'.value \in [Sem -> {0, 1}] /\ k'.value[channel] = k.value[channel]
  BY InvFacts DEF SameCounters
<1>2. /\ drive' \in [st : DriveState, of : Thread \cup {NULL}, cmd : Command]
      /\ irq' \in BOOLEAN /\ expecting_intr' \in BOOLEAN
  BY Types
<1> QED BY <1>1, <1>2, PlaceStep

LEMMA SleepPreserves ==
  ASSUME IdeInv, NEW t \in Thread, tick_to_sleep(t)
  PROVE  IdeInv'
<1>1. pc[t] = "kernel" /\ io[t] = "sleep" /\ Requested(t)
  BY AtPlace DEF tick_to_sleep, Place
<1>2. UNCHANGED <<pc, arg, held, op, dev, sect, drive, irq, expecting_intr>>
  BY DEF tick_to_sleep
<1>3. SameCounters(k, k')
  BY InvFacts, BlockCounters, StopCounters DEF tick_to_sleep
<1>4. PICK v \in {"sleep", "poll"} : io' = [io EXCEPT ![t] = v]
  <2>1. io = [io EXCEPT ![t] = "sleep"]
    BY <1>1, Types
  <2> QED BY <2>1 DEF tick_to_sleep, Step
<1>5. io'[t] = v
  BY <1>4, Types
<1>6. op[t] = "write" /\ Writes(t) /\ drive.of = t /\ drive.cmd = op[t]
  BY <1>1, Types DEF Requested, Reads, Command
<1>7. k'.value = k.value
  BY <1>3 DEF SameCounters
<1>8. Requested(t)'
  BY <1>1, <1>2, <1>5, <1>6, <1>7 DEF Requested, Writes, Expected, Sent, Signal
<1>9. v \in Place \ {"none"} /\ io[t] # "none"
  BY <1>1 DEF Place
<1> QED BY <1>1, <1>2, <1>3, <1>4, <1>8, <1>9, OwnerQuietStep

\* busy_wait: a read that fails is given up, a write that fails stops the machine.
LEMMA PollPreserves ==
  ASSUME IdeInv, NEW t \in Thread, busy_wait(t)
  PROVE  IdeSafe'
<1>1. pc[t] = "kernel" /\ io[t] = "poll" /\ Requested(t) /\ io[t] # "none"
  BY AtPlace DEF busy_wait, Place
<1>2. UNCHANGED <<pc, arg, held, op, dev, sect, drive, irq, expecting_intr>>
  BY DEF busy_wait
<1>3. drive.of = t /\ drive.cmd = op[t] /\ IF op[t] = "read" THEN Reads(t) ELSE Writes(t)
  BY <1>1 DEF Requested
<1>4. CASE busy_wait_failed(t) /\ op[t] = "read"
  <2>1. io' = [io EXCEPT ![t] = "release"] /\ k' = k
    BY <1>4 DEF busy_wait_failed, Step
  <2>2. io'[t] = "release"
    BY <2>1, Types
  <2>3. NoSignal /\ DriveRests
    BY <1>1, <1>3, <1>4 DEF Reads, DriveRests
  <2>4. Requested(t)'
    BY <1>2, <2>1, <2>2, <2>3 DEF Requested, NoSignal, Signal, DriveRests
  <2>5. IdeInv'
    BY <1>1, <1>2, <2>1, <2>4, StopCounters, OwnerQuietStep DEF Place
  <2> QED BY <2>5 DEF IdeSafe
<1>5. CASE busy_wait_failed(t) /\ op[t] # "read"
  <2>1. k' = PANIC(k, "ide_write_sector") /\ io' = io
    BY <1>5 DEF busy_wait_failed
  <2>2. k'.value = k.value
    BY <2>1, StopCounters DEF SameCounters
  <2>3. Halted(k')
    BY <2>1, InvFacts DEF Halted, PANIC, Fields
  <2>4. OwnData' /\ NoStaleSignal'
    BY <1>2, <2>1, <2>2, InvImplies DEF OwnData, NoStaleSignal
  <2> QED BY <2>3, <2>4 DEF IdeSafe
<1>6. CASE /\ k' = k
           /\ \/ Step(t, "sleep") /\ drive.st \in {"busy", "storing"}
              \/ Step(t, "data") /\ drive.st = "drq"
  <2>1. PICK v \in {"sleep", "data"} : /\ io' = [io EXCEPT ![t] = v]
                                       /\ v = "sleep" => drive.st \in {"busy", "storing"}
                                       /\ v = "data" => drive.st = "drq"
    BY <1>6 DEF Step
  <2>2. io'[t] = v
    BY <2>1, Types
  <2>3. IF op[t] = "read" THEN v = "data" /\ NoSignal ELSE drive.st \in {"busy", "drq"} /\ Expected
    BY <1>1, <1>3, <2>1 DEF Reads, Writes
  <2>4. Requested(t)'
    BY <1>2, <1>3, <1>6, <2>1, <2>2, <2>3
       DEF Requested, Reads, Writes, NoSignal, Expected, Signal
  <2>5. v \in Place \ {"none"}
    BY DEF Place
  <2>6. IdeInv'
    BY <1>1, <1>2, <1>6, <2>1, <2>4, <2>5, StopCounters, OwnerQuietStep
  <2> QED BY <2>6 DEF IdeSafe
<1> QED BY <1>4, <1>5, <1>6 DEF busy_wait

LEMMA DataPreserves ==
  ASSUME IdeInv, NEW t \in Thread, read_from_sector(t) \/ write_to_sector(t)
  PROVE  IdeInv'
<1>1. pc[t] = "kernel" /\ io[t] = "data" /\ Requested(t) /\ io[t] # "none"
  BY AtPlace DEF read_from_sector, write_to_sector, Place
<1>2. k' = k /\ UNCHANGED <<pc, arg, held, op, dev, sect, irq, expecting_intr>>
  BY DEF read_from_sector, write_to_sector, vars
<1>3. drive.of = t /\ drive.cmd = op[t] /\ IF op[t] = "read" THEN Reads(t) ELSE Writes(t)
  BY <1>1 DEF Requested
<1>4. PICK v \in {"release", "down"}, s \in {"ready", "storing"} :
        /\ io' = [io EXCEPT ![t] = v] /\ drive' = [drive EXCEPT !.st = s]
        /\ IF op[t] = "read" THEN v = "release" /\ s = "ready" ELSE v = "down" /\ s = "storing"
  BY DEF read_from_sector, write_to_sector, Step
<1>5. io'[t] = v /\ drive'.st = s /\ drive'.of = drive.of /\ drive'.cmd = drive.cmd
      /\ drive' \in [st : DriveState, of : Thread \cup {NULL}, cmd : Command]
  BY <1>4, Types DEF DriveState
<1>6. IF op[t] = "read" THEN NoSignal ELSE Expected
  BY <1>1, <1>3 DEF Reads, Writes
<1>7. Requested(t)'
  BY <1>2, <1>3, <1>4, <1>5, <1>6
     DEF Requested, Reads, Writes, NoSignal, Expected, Signal, DriveRests
<1>8. v \in Place \ {"none"}
  BY DEF Place
<1>9. DOMAIN k' = Fields /\ k'.value \in [Sem -> {0, 1}] /\ k'.value[channel] = k.value[channel]
  BY <1>2, InvFacts
<1>10. irq' \in BOOLEAN /\ expecting_intr' \in BOOLEAN
  BY <1>2, Types
<1> QED BY <1>1, <1>2, <1>4, <1>5, <1>7, <1>8, <1>9, <1>10, PlaceStep

-----------------------------------------------------------------------------
(* The handler and the drive.                                              *)

\* Between the threads: somebody owns the channel, and stands where he stood.
LEMMA DeviceStep ==
  ASSUME IdeInv, NEW t \in Thread, Owner(t), Requested(t)',
         DOMAIN k' = Fields, k'.value \in [Sem -> {0, 1}], k'.value[channel] = k.value[channel],
         pc' = pc \/ EndHalt,
         UNCHANGED <<arg, held, io, op>>,
         drive' \in [st : DriveState, of : Thread \cup {NULL}, cmd : Command],
         irq' \in BOOLEAN, expecting_intr' \in BOOLEAN
  PROVE  IdeInv'
<1>1. t # idle_thread
  BY InvFacts
<1>2. PICK w \in {"block", pc[idle_thread]} : pc' = [pc EXCEPT ![idle_thread] = w]
  <2>1. pc = [pc EXCEPT ![idle_thread] = pc[idle_thread]]
    BY Types
  <2> QED BY <2>1 DEF EndHalt
<1>3. pc' \in [Thread -> PC] /\ pc'[idle_thread] \in {"block", "hlt"}
      /\ \A u \in Thread \ {idle_thread} : pc'[u] = pc[u]
  BY <1>2, Types, DriverObjects DEF PC
<1>4. Owner(t)' /\ Fits(t)'
  BY <1>1, <1>3, InvFacts DEF Owner, Fits
<1> QED BY <1>3, <1>4, Types, OwnerStep

LEMMA HandlerPreserves ==
  ASSUME IdeInv, intr_hd_handler
  PROVE  IdeSafe'
<1>1. irq /\ irq' = FALSE /\ expecting_intr' = FALSE /\ EndHalt
      /\ UNCHANGED <<arg, held, io, op, dev, sect, drive>>
  BY DEF intr_hd_handler
<1>2. PICK t \in Thread : Owner(t)
  BY <1>1, InvFacts DEF NoSignal, Signal
<1>3. Requested(t) /\ k.value[channel] = 0
  BY <1>2, InvFacts
<1>4. Signal(0, TRUE, TRUE) /\ drive.of = t /\ drive.cmd = op[t]
      /\ IF op[t] = "read" THEN io[t] \in {"down", "queued"} /\ drive.st \in {"drq", "err"}
         ELSE \/ io[t] \in {"poll", "sleep"} /\ drive.st = "err"
              \/ io[t] \in {"down", "queued"} /\ drive.st = "ready"
  BY <1>1, <1>3 DEF Requested, Reads, Writes, NoSignal, Expected, Sent, Signal
<1>5. k' = semaphore_up(k, disk_done)
  BY <1>4 DEF intr_hd_handler, Signal
<1>6. CASE Halted(k') /\ SameCounters(k, k')
  <2>1. k'.value = k.value
    BY <1>6 DEF SameCounters
  <2>2. OwnData' /\ NoStaleSignal'
    BY <1>1, <1>3, <2>1, InvImplies DEF OwnData, NoStaleSignal
  <2> QED BY <1>6, <2>2 DEF IdeSafe
<1>7. CASE DOMAIN k' = Fields /\ k'.value = [k.value EXCEPT ![disk_done] = 1]
  <2>1. k'.value \in [Sem -> {0, 1}] /\ k'.value[channel] = k.value[channel]
        /\ k'.value[disk_done] = 1
    BY <1>7, InvFacts, DriverObjects
  <2>2. Sent'
    BY <1>1, <2>1 DEF Sent, Signal
  <2>3. Requested(t)'
    BY <1>1, <1>4, <2>2 DEF Requested, Reads, Writes
  <2>4. drive' \in [st : DriveState, of : Thread \cup {NULL}, cmd : Command]
        /\ irq' \in BOOLEAN /\ expecting_intr' \in BOOLEAN
    BY <1>1, Types
  <2>5. IdeInv'
    BY <1>1, <1>2, <1>7, <2>1, <2>3, <2>4, DeviceStep
  <2> QED BY <2>5 DEF IdeSafe
<1> QED BY <1>5, <1>6, <1>7, InvFacts, DriverObjects, UpCounters

LEMMA DrivePreserves ==
  ASSUME IdeInv, drive_answers \/ drive_stored
  PROVE  IdeInv'
<1>1. drive.st \in {"busy", "storing"} /\ k' = k
      /\ UNCHANGED <<pc, arg, held, io, op, dev, sect, expecting_intr>>
  BY DEF drive_answers, drive_stored, Answer, vars
<1>2. PICK t \in Thread : Owner(t)
  BY <1>1, InvFacts DEF DriveRests
<1>3. Requested(t)
  BY <1>2, InvFacts
<1>4. Expected /\ drive.of = t /\ drive.cmd = op[t]
      /\ IF op[t] = "read" THEN io[t] \in {"down", "queued"} /\ drive.st = "busy"
         ELSE \/ io[t] \in {"poll", "sleep"} /\ drive.st = "busy"
              \/ io[t] \in {"down", "queued"} /\ drive.st = "storing"
  BY <1>1, <1>3 DEF Requested, Reads, Writes, DriveRests
<1>5. PICK s \in {"drq", "err", "ready"}, n \in BOOLEAN :
        /\ drive' = [drive EXCEPT !.st = s] /\ irq' = n
        /\ \/ drive.st = "busy" /\ s = "drq" /\ n = (drive.cmd = "read")
           \/ drive.st = "busy" /\ s = "err" /\ n = TRUE
           \/ drive.st = "storing" /\ s = "ready" /\ n = TRUE
  BY <1>4 DEF drive_answers, drive_stored, Answer, Expected, Signal
<1>6. drive'.st = s /\ drive'.of = drive.of /\ drive'.cmd = drive.cmd
      /\ drive' \in [st : DriveState, of : Thread \cup {NULL}, cmd : Command]
  BY <1>5, Types DEF DriveState
<1>7. IF n THEN Sent' ELSE Expected'
  BY <1>1, <1>4, <1>5 DEF Expected, Sent, Signal
<1>8. Requested(t)'
  BY <1>1, <1>4, <1>5, <1>6, <1>7 DEF Requested, Reads, Writes
<1>9. DOMAIN k' = Fields /\ k'.value \in [Sem -> {0, 1}] /\ k'.value[channel] = k.value[channel]
  BY <1>1, InvFacts
<1>10. irq' \in BOOLEAN /\ expecting_intr' \in BOOLEAN /\ pc' = pc
       /\ UNCHANGED <<arg, held, io, op>>
  BY <1>1, <1>5, Types
<1> QED BY <1>2, <1>6, <1>8, <1>9, <1>10, DeviceStep

-----------------------------------------------------------------------------
(* The invariant.                                                          *)

LEMMA IdeStarts == IdeInit => IdeInv
<1> SUFFICES ASSUME IdeInit PROVE IdeInv
  OBVIOUS
<1>1. /\ k = thread_init /\ io = [t \in Thread |-> "none"] /\ op = [t \in Thread |-> "read"]
      /\ pc = [t \in Thread |-> CASE t = main_thread -> "kernel"
                                  [] t = idle_thread -> "block"
                                  [] OTHER -> "user"]
      /\ arg = [t \in Thread |-> NULL] /\ held = [t \in Thread |-> [l \in Lock |-> 0]]
      /\ drive = [st |-> "ready", of |-> NULL, cmd |-> "read"]
      /\ irq = FALSE /\ expecting_intr = FALSE
  BY DEF IdeInit, Init
<1>2. k.value = [s \in Sem |-> IF s \in Lock THEN 1 ELSE 0]
  BY <1>1 DEF thread_init
<1>3. k.value \in [Sem -> {0, 1}] /\ k.value[disk_done] = 0
  BY <1>2, DriverObjects
<1>4. \A t \in Thread : pc[t] \in {"kernel", "block", "user"} /\ io[t] = "none"
                        /\ held[t][channel] = 0
  BY <1>1, DriverObjects
<1>5. pc[idle_thread] = "block"
  BY <1>1, DriverObjects
<1>6. IdeTypeOK
  BY <1>1, <1>3 DEF IdeTypeOK, PC, Place, Command, DriveState
<1>7. \A t \in Thread : ~Owner(t) /\ Fits(t)
  BY <1>4 DEF Owner, Fits, InFetch, InRelease
<1>8. PlacesFit /\ Owned
  BY <1>4, <1>5, <1>7 DEF PlacesFit, Owned
<1>9. NoSignal /\ DriveRests
  BY <1>1, <1>3 DEF NoSignal, Signal, DriveRests
<1> QED BY <1>6, <1>7, <1>8, <1>9 DEF IdeInv

\* A machine that has stopped takes no step.
LEMMA HaltedStays == ASSUME IdeNext PROVE ~Halted(k)
<1>1. ASSUME NEW t \in Client, Driver(t) PROVE ~Halted(k)
  <2>1. CASE Continue(t, channel)
    BY <2>1 DEF Continue, lock_fetch_down, lock_fetch_holder, lock_fetch_repeat,
                lock_release_repeat, lock_release_up, OnCpu
  <2>2. CASE ~Continue(t, channel)
    BY <1>1, <2>2 DEF Driver, select_disk, select_sector, cmd_out_expect, cmd_out,
         semaphore_down_done, busy_wait, tick_to_sleep, read_from_sector, write_to_sector,
         ide_release, ide_next_sector, At, OnCpu
  <2> QED BY <2>1, <2>2
<1>2. ASSUME NEW t \in Client, Outside(t) PROVE ~Halted(k)
  BY <1>2 DEF Outside, enter_syscall, leave_syscall, spawn, ide_call, At, OnCpu
<1> QED BY <1>1, <1>2 DEF IdeNext, ide_timer, timer, intr_hd_handler, drive_answers,
                          drive_stored, idle, OnCpu

LEMMA DriverPreserves ==
  ASSUME IdeInv, NEW t \in Thread, Driver(t)
  PROVE  IdeSafe'
<1>1. CASE select_disk(t) \/ select_sector(t) \/ cmd_out_expect(t) \/ cmd_out(t)
  BY <1>1, SelectPreserves DEF IdeSafe
<1>2. CASE semaphore_down_done(t) \/ tick_to_sleep(t)
  BY <1>2, DonePreserves, SleepPreserves DEF IdeSafe
<1>3. CASE busy_wait(t)
  BY <1>3, PollPreserves
<1>4. CASE read_from_sector(t) \/ write_to_sector(t)
  BY <1>4, DataPreserves DEF IdeSafe
<1>5. CASE ide_release(t)
  BY <1>5, ReleasePreserves DEF IdeSafe
<1>6. CASE ide_next_sector(t)
  <2>1. op' = op
    BY <1>6 DEF ide_next_sector
  <2> QED BY <1>6, <2>1, FetchPreserves, Types DEF ide_next_sector, IdeSafe
<1>7. CASE Continue(t, channel) /\ UNCHANGED ideVars
  <2>1. CASE lock_fetch_down(t, channel)
    BY <1>7, <2>1, DownPreserves DEF IdeSafe
  <2>2. CASE lock_release_up(t, channel)
    BY <1>7, <2>2, UpPreserves
  <2>3. CASE \/ lock_fetch_holder(t, channel) \/ lock_fetch_repeat(t, channel)
             \/ lock_release_repeat(t, channel)
    BY <1>7, <2>3, LockPreserves DEF IdeSafe
  <2> QED BY <1>7, <2>1, <2>2, <2>3 DEF Continue
<1> QED BY <1>1, <1>2, <1>3, <1>4, <1>5, <1>6, <1>7 DEF Driver

LEMMA OutsidePreserves ==
  ASSUME IdeInv, NEW t \in Thread, Outside(t)
  PROVE  IdeInv'
<1>1. CASE UNCHANGED ideVars /\ (enter_syscall(t) \/ (io[t] = "none" /\ leave_syscall(t)))
  BY <1>1, SyscallPreserves
<1>2. CASE UNCHANGED ideVars /\ \E child \in Process : spawn(t, child)
  BY <1>2, SpawnPreserves DEF Process
<1>3. CASE \E o \in {"read", "write"}, n \in 1 .. SectorCount : ide_call(t, o, n)
  <2>1. PICK o \in Command, n \in 1 .. SectorCount : ide_call(t, o, n)
    BY <1>3 DEF Command
  <2>2. op' \in [Thread -> Command] /\ \A u \in Thread \ {t} : op'[u] = op[u]
    BY <2>1, Types DEF ide_call
  <2> QED BY <2>1, <2>2, FetchPreserves DEF ide_call
<1> QED BY <1>1, <1>2, <1>3 DEF Outside

LEMMA IdeSteps == IdeSafe /\ [IdeNext]_allVars => IdeSafe'
<1> SUFFICES ASSUME IdeSafe, [IdeNext]_allVars PROVE IdeSafe'
  OBVIOUS
<1>1. CASE ~IdeInv
  <2>1. Halted(k) /\ OwnData /\ NoStaleSignal
    BY <1>1 DEF IdeSafe
  <2>2. UNCHANGED allVars
    BY <2>1, HaltedStays
  <2> QED BY <2>1, <2>2 DEF IdeSafe, Halted, OwnData, NoStaleSignal, allVars, vars, ideVars
<1>2. CASE IdeInv
  <2>1. CASE UNCHANGED allVars
    BY <1>2, <2>1, StutterPreserves DEF IdeSafe
  <2>2. ASSUME NEW t \in Client, Driver(t) \/ Outside(t) PROVE IdeSafe'
    <3>1. t \in Thread
      BY DEF Client
    <3> QED BY <1>2, <2>2, <3>1, DriverPreserves, OutsidePreserves DEF IdeSafe
  <2>3. CASE ide_timer \/ (idle /\ UNCHANGED ideVars)
    BY <1>2, <2>3, TimerPreserves, IdlePreserves DEF IdeSafe
  <2>4. CASE intr_hd_handler
    BY <1>2, <2>4, HandlerPreserves
  <2>5. CASE drive_answers \/ drive_stored
    BY <1>2, <2>5, DrivePreserves DEF IdeSafe
  <2> QED BY <2>1, <2>2, <2>3, <2>4, <2>5 DEF IdeNext
<1> QED BY <1>1, <1>2

\* Every statement of ide_read_sector, ide_write_sector and intr_hd_handler keeps the
\* invariant, under preemption and for every answer of the drive, until an assertion
\* stops the machine.
THEOREM IdeInvariance == IdeSpec => []IdeSafe
<1>1. IdeInit => IdeSafe
  BY IdeStarts DEF IdeSafe
<1> QED BY <1>1, IdeSteps, PTL DEF IdeSpec

\* ide_read and ide_write: a thread that runs insw or outsw moves the data of its own
\* request, whoever else waits for the channel, and however the drive, the interrupt and
\* busy_wait interleave.
THEOREM OwnDataTheorem == IdeSpec => []OwnData
<1>1. IdeSafe => OwnData
  BY InvImplies DEF IdeSafe
<1> QED BY <1>1, IdeInvariance, PTL

\* When lock_release has freed the channel, intr_hd_handler expects nothing and disk_done
\* is 0: the semaphore_down of the next request waits for its own interrupt.
THEOREM NoStaleSignalTheorem == IdeSpec => []NoStaleSignal
<1>1. IdeSafe => NoStaleSignal
  BY InvImplies DEF IdeSafe
<1> QED BY <1>1, IdeInvariance, PTL

-----------------------------------------------------------------------------
(* The lists.  r is h with its back pointers mended; every function of the *)
(* scheduler does the same to both.                                        *)

Like(h, r) ==
  /\ h \in KernelState /\ r \in KernelState
  /\ h.nx = r.nx /\ h.status = r.status /\ h.ticks = r.ticks /\ h.cur = r.cur
  /\ h.value = r.value /\ h.holder = r.holder /\ h.repeat = r.repeat /\ h.panic = r.panic

\* A ready thread that is not the first.
Rear(r, cls, n) == n \in Thread /\ cls[n] = thread_ready_list /\ n # r.nx[thread_ready_list]

Twin(h, r, cls) ==
  /\ Sched(r, cls) /\ Like(h, r)
  /\ \A n \in Node : h.pv[n] = r.pv[n] \/ Rear(r, cls, n)

LEMMA TwinFacts ==
  ASSUME NEW h, NEW r, NEW cls, Twin(h, r, cls)
  PROVE  /\ h \in KernelState /\ h.nx \in Pointers /\ h.pv \in Pointers /\ h.nx = r.nx
         /\ r \in KernelState /\ r.nx \in Pointers /\ r.pv \in Pointers
         /\ cls \in Classes /\ Linked(r.nx, r.pv, cls) /\ h.cur \in Thread
         /\ ~Halted(h) /\ ~Halted(r)
         /\ \A n \in Node \ Thread : h.pv[n] = r.pv[n] /\ h.pv[n] \in Node /\ h.nx[n] \in Node
         /\ \A n \in Thread : cls[n] # thread_ready_list => h.pv[n] = r.pv[n]
BY KernelObjects, NullIsNoNode
   DEF Twin, Like, Sched, KernelState, Pointers, Rear, Linked, Halted, Classes

\* list_find_element goes forward only, up to the last element.
LEMMA TwinFind ==
  ASSUME NEW h, NEW r, NEW cls, Twin(h, r, cls), NEW t, NEW head \in Node \ Thread
  PROVE  list_find_element(h, t, head) <=> list_find_element(r, t, head)
<1>1. h.nx = r.nx /\ h.pv[head] = r.pv[head]
  BY TwinFacts
<1> QED BY <1>1 DEF list_find_element

LEMMA TwinNotReady ==
  ASSUME NEW h, NEW r, NEW cls, Twin(h, r, cls), NEW t \in Thread, cls[t] # thread_ready_list
  PROVE  ~OnReadyList(h, t) /\ ~OnReadyList(r, t)
BY TwinFacts, TwinFind, NotFound, ReadyListIsNoThread DEF OnReadyList

LEMMA TwinEmpty ==
  ASSUME NEW h, NEW r, NEW cls, Twin(h, r, cls), h.nx[thread_ready_list] = thread_ready_list
  PROVE  h = r
<1>1. \A n \in Node : h.pv[n] = r.pv[n]
  BY TwinFacts, EmptyList, ReadyListIsNoThread DEF Twin, Rear
<1>2. h.pv = r.pv
  BY <1>1, TwinFacts DEF Pointers
<1> QED BY <1>2 DEF Twin, Like, KernelState

LEMMA TwinSelf ==
  ASSUME NEW r, NEW cls, Sched(r, cls)
  PROVE  Twin(r, r, cls)
BY DEF Twin, Like, Sched

\* A change of a field that is not of the lists.
LEMMA TwinStatus ==
  ASSUME NEW h, NEW r, NEW cls, Twin(h, r, cls), NEW t \in Thread,
         cls[t] # thread_ready_list, NEW st \in Status, st # READY
  PROVE  Twin(WithStatus(h, t, st), WithStatus(r, t, st), cls)
<1>1. Sched(WithStatus(r, t, st), cls)
  BY StatusFrame DEF Twin
<1>2. [h.status EXCEPT ![t] = st] \in [Thread -> Status]
  BY TwinFacts DEF KernelState
<1>3. WithStatus(h, t, st) = [h EXCEPT !.status = [h.status EXCEPT ![t] = st]]
      /\ WithStatus(r, t, st) = [r EXCEPT !.status = [h.status EXCEPT ![t] = st]]
  BY DEF WithStatus, Twin, Like, KernelState
<1>4. Like(WithStatus(h, t, st), WithStatus(r, t, st))
      /\ WithStatus(h, t, st).pv = h.pv /\ WithStatus(r, t, st).pv = r.pv
      /\ WithStatus(r, t, st).nx = r.nx
  BY <1>2, <1>3 DEF Twin, Like, KernelState
<1> QED BY <1>1, <1>4 DEF Twin, Rear

LEMMA TwinUnblock ==
  ASSUME NEW h, NEW r, NEW cls, Twin(h, r, cls), NEW t \in Thread,
         r.status[t] \in Asleep, cls[t] = t
  PROVE  Twin(thread_unblock(h, t), thread_unblock(r, t), [cls EXCEPT ![t] = thread_ready_list])
<1> DEFINE R == thread_ready_list
           nx == [h.nx EXCEPT ![t] = h.nx[R], ![R] = t]
           pv == [h.pv EXCEPT ![h.nx[R]] = t, ![t] = R]
           qv == [r.pv EXCEPT ![h.nx[R]] = t, ![t] = R]
           st == [h.status EXCEPT ![t] = READY]
           a == list_add(h, t, R)
           b == list_add(r, t, R)
           c == [cls EXCEPT ![t] = R]
<1>1. Sched(thread_unblock(r, t), c)
  BY UnblockLemma DEF Twin
<1>2. h.nx = r.nx /\ h.status = r.status /\ t \in Node /\ R \in Node \ Thread
  BY TwinFacts, ReadyListIsNoThread DEF Twin, Like
<1>3. a = Relinked(h, nx, pv) /\ b = Relinked(r, nx, qv)
      /\ nx \in Pointers /\ pv \in Pointers /\ qv \in Pointers
  BY <1>2, TwinFacts, AddFields DEF Pointers
<1>4. /\ a \in KernelState /\ a.nx = nx /\ a.pv = pv
      /\ a.status = h.status /\ a.ticks = h.ticks /\ a.cur = h.cur
      /\ a.value = h.value /\ a.holder = h.holder /\ a.repeat = h.repeat
      /\ a.panic = h.panic
  BY <1>3, TwinFacts, RelinkedFields
<1>5. /\ b \in KernelState /\ b.nx = nx /\ b.pv = qv
      /\ b.status = r.status /\ b.ticks = r.ticks /\ b.cur = r.cur
      /\ b.value = r.value /\ b.holder = r.holder /\ b.repeat = r.repeat
      /\ b.panic = r.panic
  BY <1>3, TwinFacts, RelinkedFields
<1>6. st \in [Thread -> Status]
  BY TwinFacts, StatusType DEF KernelState
<1>7. nx[R] = t /\ \A n \in Node : pv[n] = qv[n] \/ (n # t /\ h.pv[n] = pv[n] /\ r.pv[n] = qv[n])
  BY <1>2, TwinFacts DEF Pointers
<1>8. \A n \in Thread \ {t} : c[n] = cls[n]
  BY <1>2, TwinFacts DEF Classes
<1> HIDE DEF a, b, nx, pv, qv, c
<1>9. /\ thread_unblock(h, t) = [a EXCEPT !.status = st]
      /\ thread_unblock(r, t) = [b EXCEPT !.status = st]
  <2>1. ~OnReadyList(h, t) /\ ~OnReadyList(r, t)
    BY TwinNotReady, ReadyListIsNoThread
  <2>2. thread_unblock(h, t) = [a EXCEPT !.status[t] = READY]
        /\ thread_unblock(r, t) = [b EXCEPT !.status[t] = READY]
    BY <1>2, <2>1 DEF thread_unblock, a, b
  <2> QED BY <1>2, <1>4, <1>5, <2>2 DEF KernelState
<1> HIDE DEF st
<1>10. Like(thread_unblock(h, t), thread_unblock(r, t))
       /\ thread_unblock(h, t).pv = pv /\ thread_unblock(r, t).pv = qv
       /\ thread_unblock(r, t).nx = nx
  BY <1>4, <1>5, <1>6, <1>9 DEF Twin, Like, KernelState
<1>11. \A n \in Node : pv[n] = qv[n] \/ Rear(thread_unblock(r, t), c, n)
  BY <1>7, <1>8, <1>10 DEF Twin, Rear
<1> QED BY <1>1, <1>10, <1>11 DEF Twin, c

LEMMA TwinJoin ==
  ASSUME NEW h, NEW r, NEW cls, Twin(h, r, cls), NEW t \in Thread, cls[t] = t
  PROVE  Twin(join_ready(h, t), join_ready(r, t), [cls EXCEPT ![t] = thread_ready_list])
<1> DEFINE R == thread_ready_list
           last == h.pv[R]
           nx == [h.nx EXCEPT ![last] = t, ![t] = R]
           pv == [h.pv EXCEPT ![t] = last, ![R] = t]
           qv == [r.pv EXCEPT ![t] = last, ![R] = t]
           st == [h.status EXCEPT ![t] = READY]
           ti == [h.ticks EXCEPT ![t] = Priority[t]]
           a == list_add_tail(h, t, R)
           b == list_add_tail(r, t, R)
           c == [cls EXCEPT ![t] = R]
<1>1. Sched(join_ready(r, t), c)
  BY JoinLemma DEF Twin
<1>2. h.nx = r.nx /\ h.status = r.status /\ h.ticks = r.ticks /\ t \in Node /\ R \in Node \ Thread
      /\ r.pv[R] = last /\ last \in Node
  BY TwinFacts, ReadyListIsNoThread DEF Twin, Like
<1>3. a = Relinked(h, nx, pv) /\ b = Relinked(r, nx, qv)
      /\ nx \in Pointers /\ pv \in Pointers /\ qv \in Pointers
  <2>1. a = Relinked(h, nx, pv)
    BY <1>2, TwinFacts, AddTailFields
  <2>2. b = Relinked(r, nx, qv)
    BY <1>2, TwinFacts, AddTailFields
  <2> QED BY <1>2, <2>1, <2>2, TwinFacts DEF Pointers
<1>4. /\ a \in KernelState /\ a.nx = nx /\ a.pv = pv
      /\ a.status = h.status /\ a.ticks = h.ticks /\ a.cur = h.cur
      /\ a.value = h.value /\ a.holder = h.holder /\ a.repeat = h.repeat
      /\ a.panic = h.panic
  BY <1>3, TwinFacts, RelinkedFields
<1>5. /\ b \in KernelState /\ b.nx = nx /\ b.pv = qv
      /\ b.status = r.status /\ b.ticks = r.ticks /\ b.cur = r.cur
      /\ b.value = r.value /\ b.holder = r.holder /\ b.repeat = r.repeat
      /\ b.panic = r.panic
  BY <1>3, TwinFacts, RelinkedFields
<1>6. st \in [Thread -> Status] /\ ti \in [Thread -> Nat]
  BY TwinFacts, StatusType, PriorityType DEF KernelState
<1>7. \A n \in Node : pv[n] = qv[n] \/ (n # t /\ h.pv[n] = pv[n] /\ r.pv[n] = qv[n])
  BY <1>2, TwinFacts DEF Pointers
<1>8. \A n \in Thread \ {t} : c[n] = cls[n]
  BY <1>2, TwinFacts DEF Classes
<1>9. ASSUME NEW n \in Thread, n # t, Rear(r, cls, n) PROVE nx[R] # n
  <2>1. r.nx[R] # R
    BY <1>9, <1>2, TwinFacts, EmptyList DEF Rear
  <2>2. last # R
    BY <1>2, <2>1, TwinFacts DEF Linked
  <2>3. nx[R] = r.nx[R]
    BY <1>2, <2>2, TwinFacts DEF Pointers
  <2> QED BY <1>9, <2>3 DEF Rear
<1> HIDE DEF a, b, nx, pv, qv, c, last
<1>10. join_ready(h, t) = [a EXCEPT !.ticks = ti, !.status = st]
       /\ join_ready(r, t) = [b EXCEPT !.ticks = ti, !.status = st]
  <2>1. join_ready(h, t) = [a EXCEPT !.ticks[t] = Priority[t], !.status[t] = READY]
        /\ join_ready(r, t) = [b EXCEPT !.ticks[t] = Priority[t], !.status[t] = READY]
    BY DEF join_ready, a, b
  <2> QED BY <1>2, <1>4, <1>5, <2>1 DEF KernelState
<1> HIDE DEF st, ti
<1>11. Like(join_ready(h, t), join_ready(r, t))
       /\ join_ready(h, t).pv = pv /\ join_ready(r, t).pv = qv /\ join_ready(r, t).nx = nx
  <2> DEFINE x == join_ready(h, t)
             y == join_ready(r, t)
  <2>1. /\ x \in KernelState /\ x.nx = nx /\ x.pv = pv /\ x.status = st /\ x.ticks = ti
        /\ x.cur = h.cur /\ x.value = h.value /\ x.holder = h.holder
        /\ x.repeat = h.repeat /\ x.panic = h.panic
    BY <1>4, <1>6, <1>10 DEF KernelState
  <2>2. /\ y \in KernelState /\ y.nx = nx /\ y.pv = qv /\ y.status = st /\ y.ticks = ti
        /\ y.cur = r.cur /\ y.value = r.value /\ y.holder = r.holder
        /\ y.repeat = r.repeat /\ y.panic = r.panic
    BY <1>5, <1>6, <1>10 DEF KernelState
  <2> QED BY <2>1, <2>2 DEF Twin, Like
<1>12. \A n \in Node : pv[n] = qv[n] \/ Rear(join_ready(r, t), c, n)
  BY <1>7, <1>8, <1>9, <1>11 DEF Twin, Rear
<1> QED BY <1>1, <1>11, <1>12 DEF Twin, c

LEMMA TwinSwitch ==
  ASSUME NEW h, NEW r, NEW cls, Twin(h, r, cls),
         h.nx[thread_ready_list] # thread_ready_list, NEW t, t = h.nx[thread_ready_list]
  PROVE  Twin(switch_to_first(h), switch_to_first(r), [cls EXCEPT ![t] = t])
<1> DEFINE R == thread_ready_list
           nx == [h.nx EXCEPT ![R] = h.nx[t], ![t] = t]
           pv == [h.pv EXCEPT ![h.nx[t]] = R, ![t] = t]
           qv == [r.pv EXCEPT ![h.nx[t]] = R, ![t] = t]
           st == [h.status EXCEPT ![t] = RUNNING]
           a == list_pop(h, R)
           b == list_pop(r, R)
           c == [cls EXCEPT ![t] = t]
<1>1. Sched(switch_to_first(r), c)
  <2>1. h.nx = r.nx
    BY TwinFacts
  <2> QED BY <2>1, SwitchLemma DEF Twin
<1>2. h.nx = r.nx /\ h.status = r.status /\ R \in Node \ Thread
  BY TwinFacts, ReadyListIsNoThread DEF Twin, Like
<1>3. /\ t \in Thread /\ t \in Node /\ t # R /\ cls[t] = R
      /\ h.nx[t] \in Node /\ h.nx[t] # t /\ r.pv[t] = R
  BY <1>2, TwinFacts, FirstElement, ReadyListIsNoThread
<1>4. h.pv[t] = R
  BY <1>2, <1>3 DEF Twin, Rear
<1>5. a = Relinked(h, nx, pv) /\ b = Relinked(r, nx, qv)
      /\ nx \in Pointers /\ pv \in Pointers /\ qv \in Pointers
  <2>1. a = Relinked(h, nx, pv)
    BY <1>2, <1>3, <1>4, TwinFacts, PopFields
  <2>2. b = Relinked(r, nx, qv)
    BY <1>2, <1>3, TwinFacts, PopFields
  <2> QED BY <1>2, <1>3, <2>1, <2>2, TwinFacts DEF Pointers
<1>6. /\ a \in KernelState /\ a.nx = nx /\ a.pv = pv
      /\ a.status = h.status /\ a.ticks = h.ticks /\ a.cur = h.cur
      /\ a.value = h.value /\ a.holder = h.holder /\ a.repeat = h.repeat
      /\ a.panic = h.panic
  BY <1>5, TwinFacts, RelinkedFields
<1>7. /\ b \in KernelState /\ b.nx = nx /\ b.pv = qv
      /\ b.status = r.status /\ b.ticks = r.ticks /\ b.cur = r.cur
      /\ b.value = r.value /\ b.holder = r.holder /\ b.repeat = r.repeat
      /\ b.panic = r.panic
  BY <1>5, TwinFacts, RelinkedFields
<1>8. st \in [Thread -> Status]
  BY TwinFacts, StatusType DEF KernelState
<1>9. nx[R] = h.nx[t]
      /\ \A n \in Node :
           pv[n] = qv[n] \/ (n # t /\ n # h.nx[t] /\ h.pv[n] = pv[n] /\ r.pv[n] = qv[n])
  BY <1>2, <1>3, TwinFacts DEF Pointers
<1>10. \A n \in Thread \ {t} : c[n] = cls[n]
  BY <1>2, TwinFacts DEF Classes
<1>11. list_first(h, R) = t /\ list_first(r, R) = t
  BY <1>2 DEF list_first
<1> HIDE DEF a, b, nx, pv, qv, c
<1>12. switch_to_first(h) = [a EXCEPT !.status = st, !.cur = t]
       /\ switch_to_first(r) = [b EXCEPT !.status = st, !.cur = t]
  <2>1. switch_to_first(h) = [a EXCEPT !.status[t] = RUNNING, !.cur = t]
        /\ switch_to_first(r) = [b EXCEPT !.status[t] = RUNNING, !.cur = t]
    BY <1>11 DEF switch_to_first, a, b
  <2> QED BY <1>2, <1>6, <1>7, <2>1 DEF KernelState
<1> HIDE DEF st
<1>13. Like(switch_to_first(h), switch_to_first(r))
       /\ switch_to_first(h).pv = pv /\ switch_to_first(r).pv = qv
       /\ switch_to_first(r).nx = nx
  <2> DEFINE x == switch_to_first(h)
             y == switch_to_first(r)
  <2>1. /\ x \in KernelState /\ x.nx = nx /\ x.pv = pv /\ x.status = st /\ x.ticks = h.ticks
        /\ x.cur = t /\ x.value = h.value /\ x.holder = h.holder
        /\ x.repeat = h.repeat /\ x.panic = h.panic
    BY <1>3, <1>6, <1>8, <1>12 DEF KernelState
  <2>2. /\ y \in KernelState /\ y.nx = nx /\ y.pv = qv /\ y.status = st /\ y.ticks = r.ticks
        /\ y.cur = t /\ y.value = r.value /\ y.holder = r.holder
        /\ y.repeat = r.repeat /\ y.panic = r.panic
    BY <1>3, <1>7, <1>8, <1>12 DEF KernelState
  <2> QED BY <2>1, <2>2 DEF Twin, Like
<1>14. \A n \in Node : pv[n] = qv[n] \/ Rear(switch_to_first(r), c, n)
  BY <1>9, <1>10, <1>13 DEF Twin, Rear
<1> QED BY <1>1, <1>13, <1>14 DEF Twin, c

LEMMA JoinNotEmpty ==
  ASSUME NEW h, NEW cls, Sched(h, cls), NEW t \in Thread, cls[t] = t
  PROVE  join_ready(h, t).nx[thread_ready_list] # thread_ready_list
<1>1. PICK r : r = join_ready(h, t)
  OBVIOUS
<1>2. /\ Sched(r, [cls EXCEPT ![t] = thread_ready_list])
      /\ r.status = [h.status EXCEPT ![t] = READY]
      /\ r.cur = h.cur /\ Objects(r) = Objects(h)
      /\ r.nx[thread_ready_list] # thread_ready_list
  BY <1>1, JoinLemma
<1> QED BY <1>1, <1>2

LEMMA UnblockFields ==
  ASSUME NEW h, NEW cls, Sched(h, cls), NEW t \in Thread, h.status[t] \in Asleep, cls[t] = t
  PROVE  /\ thread_unblock(h, t).status = [h.status EXCEPT ![t] = READY]
         /\ thread_unblock(h, t).cur = h.cur
         /\ Objects(thread_unblock(h, t)) = Objects(h)
<1>1. PICK r : r = thread_unblock(h, t)
  OBVIOUS
<1>2. /\ Sched(r, [cls EXCEPT ![t] = thread_ready_list])
      /\ r.status = [h.status EXCEPT ![t] = READY]
      /\ r.cur = h.cur /\ r.ticks = h.ticks /\ Objects(r) = Objects(h)
      /\ r.nx[thread_ready_list] = t
  BY <1>1, UnblockLemma
<1> QED BY <1>1, <1>2

LEMMA AddTailIs ==
  ASSUME NEW h \in KernelState, NEW t \in Node, NEW head \in Node, NEW last, h.pv[head] = last
  PROVE  list_add_tail(h, t, head) =
           Relinked(h, [h.nx EXCEPT ![last] = t, ![t] = head],
                       [h.pv EXCEPT ![t] = last, ![head] = t])
BY AddTailFields

LEMMA TwinSchedule ==
  ASSUME NEW h, NEW r, NEW cls, Twin(h, r, cls),
         \/ r.status[r.cur] = RUNNING /\ cls[r.cur] = r.cur
         \/ r.status[r.cur] \in Asleep,
         \/ IdleAvailable(r, cls)
         \/ r.cur = idle_thread /\ r.status[r.cur] = RUNNING,
         NEW x, x = schedule(r).cur
  PROVE  Twin(schedule(h), schedule(r), [Requeued(r, cls, thread_ready_list) EXCEPT ![x] = x])
<1> DEFINE R == thread_ready_list
           t == r.cur
           c == Requeued(r, cls, R)
           a == requeue(h)
           b == requeue(r)
<1>1. Sched(schedule(r), [c EXCEPT ![x] = x])
  BY ScheduleLemma DEF Twin
<1>2. h.cur = r.cur /\ h.status = r.status /\ h.nx = r.nx /\ t \in Thread
  BY TwinFacts DEF Twin, Like
<1>3. CASE h = r
  BY <1>1, <1>3, TwinSelf
<1>4. CASE h # r
  <2>1. h.nx[R] # R
    BY <1>4, TwinEmpty
  <2>2. Twin(a, b, c) /\ b.nx[R] # R
    <3>1. CASE r.status[t] = RUNNING /\ cls[t] = t
      <4>1. ~OnReadyList(h, t) /\ ~OnReadyList(r, t)
        BY <1>2, <3>1, TwinNotReady, ReadyListIsNoThread
      <4>2. a = join_ready(h, t) /\ b = join_ready(r, t) /\ c = [cls EXCEPT ![t] = R]
        BY <1>2, <3>1, <4>1 DEF requeue, Requeued
      <4>3. Twin(join_ready(h, t), join_ready(r, t), [cls EXCEPT ![t] = R])
        BY <1>2, <3>1, TwinJoin
      <4>4. join_ready(r, t).nx[R] # R
        <5>1. Sched(r, cls)
          BY DEF Twin
        <5> QED BY <1>2, <3>1, <5>1, JoinNotEmpty
      <4> QED BY <4>2, <4>3, <4>4
    <3>2. CASE r.status[t] \in Asleep
      <4>1. a = h /\ b = r /\ c = cls
        BY <1>2, <3>2, StatusType DEF requeue, Requeued
      <4> QED BY <1>2, <2>1, <4>1
    <3> QED BY <3>1, <3>2
  <2> HIDE DEF a, b, c
  <2>3. a.nx = b.nx /\ ~Halted(a) /\ ~Halted(b)
    BY <2>2, TwinFacts
  <2>4. wake_idle(a) = a /\ wake_idle(b) = b
    BY <2>2, <2>3 DEF wake_idle, list_is_empty
  <2>5. schedule(h) = switch_to_first(a) /\ schedule(r) = switch_to_first(b)
    BY <2>3, <2>4 DEF schedule, a, b
  <2>6. x = a.nx[R]
    <3>1. Sched(b, c) /\ b.nx[R] # R
      BY <2>2 DEF Twin
    <3>2. PICK y : y = switch_to_first(b)
      OBVIOUS
    <3>3. y.cur = b.nx[R]
      BY <3>1, <3>2, SwitchLemma
    <3> QED BY <2>3, <2>5, <3>2, <3>3
  <2>7. Twin(switch_to_first(a), switch_to_first(b), [c EXCEPT ![x] = x])
    BY <2>2, <2>3, <2>6, TwinSwitch
  <2> QED BY <2>5, <2>7 DEF c
<1> QED BY <1>3, <1>4

LEMMA TwinBlock ==
  ASSUME NEW h, NEW r, NEW cls, Twin(h, r, cls), r.status[r.cur] = RUNNING,
         cls[r.cur] # thread_ready_list, NEW st \in Asleep,
         \/ r.cur = idle_thread /\ cls[r.cur] = r.cur
         \/ r.cur # idle_thread /\ IdleAvailable(r, cls),
         NEW x, x = thread_block(r, st).cur
  PROVE  Twin(thread_block(h, st), thread_block(r, st), [cls EXCEPT ![x] = x])
<1> DEFINE t == r.cur
           a == WithStatus(h, t, st)
           b == WithStatus(r, t, st)
<1>1. h.cur = t /\ t \in Thread /\ st \in Status /\ st # READY /\ st # RUNNING
      /\ r.status \in [Thread -> Status]
  BY TwinFacts, StatusType DEF Twin, Like, KernelState
<1>2. Twin(a, b, cls)
  BY <1>1, TwinStatus
<1>3. b.cur = t /\ b.status = [r.status EXCEPT ![t] = st]
  BY <1>1, StatusFrame DEF Twin
<1>4. thread_block(h, st) = schedule(a) /\ thread_block(r, st) = schedule(b)
  BY <1>1 DEF thread_block, WithStatus
<1> HIDE DEF a, b
<1>5. b.status[b.cur] \in Asleep /\ b.status[b.cur] # RUNNING
  BY <1>1, <1>3
<1>6. IdleAvailable(b, cls)
  BY <1>1, <1>3, KernelObjects DEF IdleAvailable
<1>7. Requeued(b, cls, thread_ready_list) = cls
  BY <1>5 DEF Requeued
<1> QED BY <1>2, <1>4, <1>5, <1>6, <1>7, TwinSchedule

\* A thread joins the queue of a semaphore.
LEMMA TwinAdd ==
  ASSUME NEW h, NEW r, NEW cls, Twin(h, r, cls), NEW t \in Thread, cls[t] = t, NEW s \in Sem
  PROVE  LET a == list_add_tail(h, t, s)
             b == list_add_tail(r, t, s)
         IN  /\ Twin(a, b, [cls EXCEPT ![t] = s])
             /\ b.status = r.status /\ b.cur = r.cur /\ Objects(b) = Objects(r)
<1> DEFINE R == thread_ready_list
           last == h.pv[s]
           nx == [h.nx EXCEPT ![last] = t, ![t] = s]
           pv == [h.pv EXCEPT ![t] = last, ![s] = t]
           qv == [r.pv EXCEPT ![t] = last, ![s] = t]
           a == list_add_tail(h, t, s)
           b == list_add_tail(r, t, s)
           c == [cls EXCEPT ![t] = s]
<1>1. h.nx = r.nx /\ t \in Node /\ s \in Node \ Thread /\ s # R /\ R \in Node \ Thread
      /\ r.pv[s] = last /\ last \in Node
  BY TwinFacts, KernelObjects, ReadyListIsNoThread
<1>2. a = Relinked(h, nx, pv) /\ b = Relinked(r, nx, qv)
      /\ nx \in Pointers /\ pv \in Pointers /\ qv \in Pointers
  <2>1. a = Relinked(h, nx, pv)
    BY <1>1, TwinFacts, AddTailFields
  <2>2. b = Relinked(r, nx, qv)
    <3>1. r \in KernelState /\ r.pv[s] = last
      BY <1>1, TwinFacts
    <3>2. b = Relinked(r, [r.nx EXCEPT ![last] = t, ![t] = s],
                          [r.pv EXCEPT ![t] = last, ![s] = t])
      BY <1>1, <3>1, AddTailIs
    <3> QED BY <1>1, <3>2
  <2> QED BY <1>1, <2>1, <2>2, TwinFacts DEF Pointers
<1>3. /\ a \in KernelState /\ a.nx = nx /\ a.pv = pv
      /\ a.status = h.status /\ a.ticks = h.ticks /\ a.cur = h.cur
      /\ a.value = h.value /\ a.holder = h.holder /\ a.repeat = h.repeat
      /\ a.panic = h.panic
  BY <1>2, TwinFacts, RelinkedFields
<1>4. /\ b \in KernelState /\ b.nx = nx /\ b.pv = qv
      /\ b.status = r.status /\ b.ticks = r.ticks /\ b.cur = r.cur
      /\ b.value = r.value /\ b.holder = r.holder /\ b.repeat = r.repeat
      /\ b.panic = r.panic
  BY <1>2, TwinFacts, RelinkedFields
<1>5. Linked(nx, qv, c)
  BY <1>1, TwinFacts, InsertTail
<1>6. c \in Classes /\ \A u \in Thread : c[u] = IF u = t THEN s ELSE cls[u]
  BY <1>1, TwinFacts DEF Classes
<1>7. last # R
  BY <1>1, TwinFacts DEF Linked
<1>8. nx[R] = h.nx[R]
      /\ \A n \in Node : pv[n] = qv[n] \/ (n # t /\ h.pv[n] = pv[n] /\ r.pv[n] = qv[n])
  BY <1>1, <1>7, TwinFacts DEF Pointers
<1> HIDE DEF nx, pv, qv, a, b, c
<1>9. Like(a, b)
  BY <1>3, <1>4 DEF Twin, Like
<1>10. Sched(b, c)
  <2>1. \A u \in Thread : b.status[u] = READY <=> c[u] = R
    BY <1>1, <1>4, <1>6 DEF Twin, Sched
  <2> QED BY <1>4, <1>5, <1>6, <2>1, TwinFacts DEF Sched, Halted
<1>11. \A n \in Node : a.pv[n] = b.pv[n] \/ Rear(b, c, n)
  BY <1>1, <1>3, <1>4, <1>6, <1>8 DEF Twin, Rear
<1>12. Twin(a, b, c)
  BY <1>9, <1>10, <1>11 DEF Twin
<1> QED BY <1>4, <1>12 DEF a, b, c, Objects

\* The first thread leaves the queue of a semaphore and is readied.
LEMMA TwinWake ==
  ASSUME NEW h, NEW r, NEW cls, Twin(h, r, cls), NEW s \in Sem, h.nx[s] # s,
         \A t \in Thread : cls[t] = s => r.status[t] \in Asleep
  PROVE  LET t == h.nx[s]
         IN  /\ t \in Thread /\ cls[t] = s
             /\ Twin(thread_unblock(list_pop(h, s), list_first(h, s)),
                     thread_unblock(list_pop(r, s), list_first(r, s)),
                     [cls EXCEPT ![t] = thread_ready_list])
             /\ LET w == thread_unblock(list_pop(r, s), list_first(r, s))
                IN  w.status = [r.status EXCEPT ![t] = READY] /\ w.cur = r.cur
                    /\ Objects(w) = Objects(r)
<1> DEFINE R == thread_ready_list
           t == h.nx[s]
           nx == [h.nx EXCEPT ![s] = h.nx[t], ![t] = t]
           pv == [h.pv EXCEPT ![h.nx[t]] = s, ![t] = t]
           qv == [r.pv EXCEPT ![h.nx[t]] = s, ![t] = t]
           a == list_pop(h, s)
           b == list_pop(r, s)
           c == [cls EXCEPT ![t] = t]
<1>1. h.nx = r.nx /\ s \in Node \ Thread /\ s # R /\ R \in Node \ Thread
  BY TwinFacts, KernelObjects, ReadyListIsNoThread
<1>2. /\ t \in Thread /\ t \in Node /\ t # s /\ cls[t] = s
      /\ h.nx[t] \in Node /\ h.nx[t] # t /\ r.pv[t] = s /\ cls[R] = R
  BY <1>1, TwinFacts, FirstElement, ReadyListIsNoThread DEF Linked
<1>3. h.pv[t] = s
  BY <1>1, <1>2 DEF Twin, Rear
<1>4. a = Relinked(h, nx, pv) /\ b = Relinked(r, nx, qv)
      /\ nx \in Pointers /\ pv \in Pointers /\ qv \in Pointers
  <2>1. a = Relinked(h, nx, pv)
    BY <1>1, <1>2, <1>3, TwinFacts, PopFields
  <2>2. b = Relinked(r, nx, qv)
    BY <1>1, <1>2, TwinFacts, PopFields
  <2> QED BY <1>1, <1>2, <2>1, <2>2, TwinFacts DEF Pointers
<1>5. /\ a \in KernelState /\ a.nx = nx /\ a.pv = pv
      /\ a.status = h.status /\ a.ticks = h.ticks /\ a.cur = h.cur
      /\ a.value = h.value /\ a.holder = h.holder /\ a.repeat = h.repeat
      /\ a.panic = h.panic
  BY <1>4, TwinFacts, RelinkedFields
<1>6. /\ b \in KernelState /\ b.nx = nx /\ b.pv = qv
      /\ b.status = r.status /\ b.ticks = r.ticks /\ b.cur = r.cur
      /\ b.value = r.value /\ b.holder = r.holder /\ b.repeat = r.repeat
      /\ b.panic = r.panic
  BY <1>4, TwinFacts, RelinkedFields
<1>7. Linked(nx, qv, c)
  BY <1>1, TwinFacts, UnlinkFirst
<1>8. c \in Classes /\ \A u \in Thread : c[u] = IF u = t THEN t ELSE cls[u]
  BY <1>1, <1>2, TwinFacts DEF Classes
<1>9. nx[R] = h.nx[R]
      /\ \A n \in Node : pv[n] = qv[n] \/ (n # t /\ h.pv[n] = pv[n] /\ r.pv[n] = qv[n])
  BY <1>1, <1>2, TwinFacts DEF Pointers
<1>10. [c EXCEPT ![t] = R] = [cls EXCEPT ![t] = R]
  BY <1>1, <1>2, TwinFacts DEF Classes
<1>11. list_first(h, s) = t /\ list_first(r, s) = t
  BY <1>1 DEF list_first
<1> HIDE DEF nx, pv, qv, a, b, c, t
<1>12. Like(a, b)
  BY <1>5, <1>6 DEF Twin, Like
<1>13. Sched(b, c)
  <2>1. \A u \in Thread : b.status[u] = READY <=> c[u] = R
    BY <1>1, <1>2, <1>6, <1>8 DEF Twin, Sched
  <2> QED BY <1>6, <1>7, <1>8, <2>1, TwinFacts DEF Sched, Halted
<1>14. \A n \in Node : a.pv[n] = b.pv[n] \/ Rear(b, c, n)
  BY <1>1, <1>5, <1>6, <1>8, <1>9 DEF Twin, Rear
<1>15. Twin(a, b, c)
  BY <1>12, <1>13, <1>14 DEF Twin
<1>16. b.status[t] \in Asleep /\ c[t] = t
  BY <1>2, <1>6, <1>8
<1>17. Twin(thread_unblock(a, t), thread_unblock(b, t), [c EXCEPT ![t] = R])
  BY <1>2, <1>15, <1>16, TwinUnblock
<1>18. /\ thread_unblock(b, t).status = [b.status EXCEPT ![t] = READY]
       /\ thread_unblock(b, t).cur = b.cur /\ Objects(thread_unblock(b, t)) = Objects(b)
  BY <1>2, <1>13, <1>16, UnblockFields
<1>19. Objects(b) = Objects(r)
  BY <1>6 DEF Objects
<1> QED BY <1>2, <1>6, <1>10, <1>11, <1>17, <1>18, <1>19 DEF a, b, t

\* There is one way to mend the back pointers.
LEMMA TwinIsMended ==
  ASSUME NEW h, NEW r, NEW cls, Twin(h, r, cls)
  PROVE  r = Mended(h)
<1>1. \A n \in Node : r.pv[n] = Back(h.nx)[n]
  <2> SUFFICES ASSUME NEW n \in Node PROVE r.pv[n] = Back(h.nx)[n]
    OBVIOUS
  <2>1. CASE h.nx[n] = NULL
    BY <2>1, TwinFacts DEF Back, Linked
  <2>2. CASE h.nx[n] # NULL
    <3>1. r.pv[n] \in Node /\ h.nx[r.pv[n]] = n
      BY <2>2, TwinFacts DEF Linked, Pointers
    <3>2. \A m \in Node : h.nx[m] = n => m = r.pv[n]
      BY TwinFacts DEF Linked
    <3>3. (CHOOSE m \in Node : h.nx[m] = n) = r.pv[n]
      BY <3>1, <3>2
    <3> QED BY <2>2, <3>3 DEF Back
  <2> QED BY <2>1, <2>2
<1>2. Back(h.nx) = r.pv
  <2>1. DOMAIN r.pv = Node /\ r.pv = [n \in Node |-> r.pv[n]]
    BY TwinFacts DEF Pointers
  <2>2. Back(h.nx) = [n \in Node |-> Back(h.nx)[n]]
    BY DEF Back
  <2> QED BY <1>1, <2>1, <2>2
<1>3. Mended(h) = [h EXCEPT !.pv = r.pv]
  BY <1>2 DEF Mended
<1> QED BY <1>3 DEF Twin, Like, KernelState

LEMMA OrderTwin ==
  ASSUME NEW h, NEW cls
  PROVE  InOrder(h, cls) <=> \E r : Twin(h, r, cls)
<1>1. ASSUME InOrder(h, cls) PROVE Twin(h, Mended(h), cls)
  <2> DEFINE r == Mended(h)
  <2>1. h \in KernelState /\ Sched(r, cls)
    BY <1>1 DEF InOrder
  <2>2. r \in KernelState
    BY <2>1 DEF Sched
  <2>3. /\ r.nx = h.nx /\ r.status = h.status /\ r.ticks = h.ticks /\ r.cur = h.cur
        /\ r.value = h.value /\ r.holder = h.holder /\ r.repeat = h.repeat /\ r.panic = h.panic
        /\ r.pv = Back(h.nx)
    BY <2>1 DEF Mended, KernelState
  <2>4. \A n \in Node : h.pv[n] = r.pv[n] \/ n \in Bent(h)
    BY <2>3 DEF Bent
  <2>5. \A n \in Bent(h) : Rear(r, cls, n)
    BY <1>1, <2>3 DEF InOrder, Rear
  <2> HIDE DEF r
  <2>6. Like(h, r)
    BY <2>1, <2>2, <2>3 DEF Like
  <2>7. \A n \in Node : h.pv[n] = r.pv[n] \/ Rear(r, cls, n)
    BY <2>4, <2>5
  <2>8. Twin(h, r, cls)
    BY <2>1, <2>6, <2>7 DEF Twin
  <2> QED BY <2>8 DEF r
<1>2. ASSUME NEW r, Twin(h, r, cls) PROVE InOrder(h, cls)
  <2>1. r = Mended(h)
    BY <1>2, TwinIsMended
  <2>2. h \in KernelState /\ Sched(r, cls) /\ h.nx = r.nx
        /\ \A n \in Node : h.pv[n] = r.pv[n] \/ Rear(r, cls, n)
    BY <1>2 DEF Twin, Like
  <2>3. r.pv = Back(h.nx)
    BY <2>1, <2>2 DEF Mended, KernelState
  <2>4. \A n \in Bent(h) : Rear(r, cls, n)
    BY <2>2, <2>3 DEF Bent
  <2> QED BY <2>1, <2>2, <2>4 DEF InOrder, Rear
<1> QED BY <1>1, <1>2

\* A change of fields that are not of the lists.
LEMMA OrderFrame ==
  ASSUME NEW h, NEW cls, InOrder(h, cls), NEW w \in KernelState,
         w.nx = h.nx, w.pv = h.pv, w.status = h.status, w.panic = h.panic
  PROVE  InOrder(w, cls)
<1> DEFINE r == Mended(h)
           y == Mended(w)
<1>1. h \in KernelState /\ Sched(r, cls) /\ r \in KernelState
  BY DEF InOrder, Sched
<1>2. Back(h.nx) = r.pv /\ Back(h.nx) \in [Node -> Node \cup {NULL}]
  BY <1>1 DEF Mended, KernelState
<1>3. /\ y \in KernelState /\ y.nx = h.nx /\ y.pv = Back(h.nx) /\ y.status = h.status
      /\ y.panic = h.panic
  BY <1>2 DEF Mended, KernelState
<1>4. r.nx = h.nx /\ r.status = h.status /\ r.panic = h.panic
  BY <1>1 DEF Mended, KernelState
<1> HIDE DEF r, y
<1>5. Sched(y, cls)
  BY <1>1, <1>2, <1>3, <1>4, SchedFrame
<1>6. Bent(w) = Bent(h)
  BY DEF Bent
<1> QED BY <1>5, <1>6 DEF InOrder, y

\* What a thread finds that is about to give the CPU away.
Runs(h, cls) ==
  /\ InOrder(h, cls) /\ h.status[h.cur] = RUNNING /\ cls[h.cur] = h.cur
  /\ h.cur # idle_thread => IdleAvailable(h, cls)

\* The thread w.cur has got the CPU from h.cur, which now has the status st; c are the
\* lists before w.cur was removed from its own.
Switched(h, c, w, st) ==
  /\ w.cur \in Thread /\ InOrder(w, [c EXCEPT ![w.cur] = w.cur])
  /\ w.status = [[h.status EXCEPT ![h.cur] = st] EXCEPT ![w.cur] = RUNNING]
  /\ \/ w.cur = h.cur \/ h.status[w.cur] = READY
     \/ w.cur = idle_thread /\ h.status[w.cur] \in Asleep
  /\ Objects(w) = Objects(h)

LEMMA OrderBlock ==
  ASSUME NEW h, NEW cls, Runs(h, cls), NEW st \in Asleep, NEW w, w = thread_block(h, st)
  PROVE  Switched(h, cls, w, st)
<1>1. PICK r : Twin(h, r, cls)
  BY OrderTwin DEF Runs
<1>2. h.cur = r.cur /\ h.status = r.status /\ Sched(r, cls) /\ r.cur \in Thread
      /\ Objects(h) = Objects(r)
  BY <1>1, TwinFacts DEF Twin, Like, Objects
<1>3. cls[r.cur] # thread_ready_list
  BY <1>2, ReadyListIsNoThread DEF Runs
<1>4. PICK y : y = thread_block(r, st)
  OBVIOUS
<1>5. r.cur # idle_thread => IdleAvailable(r, cls)
  BY <1>2 DEF Runs, IdleAvailable
<1>6. r.status[r.cur] = RUNNING /\ cls[r.cur] = r.cur
  BY <1>2 DEF Runs
<1>7. /\ y.cur \in Thread
      /\ Sched(y, [cls EXCEPT ![y.cur] = y.cur])
      /\ y.status = [[r.status EXCEPT ![r.cur] = st] EXCEPT ![y.cur] = RUNNING]
      /\ \/ y.cur # r.cur /\ r.status[y.cur] = READY
         \/ y.cur = idle_thread /\ (y.cur = r.cur \/ r.status[y.cur] \in Asleep)
      /\ Objects(y) = Objects(r)
  BY <1>2, <1>4, <1>5, <1>6, BlockLemma
<1>8. Twin(w, y, [cls EXCEPT ![y.cur] = y.cur])
  BY <1>1, <1>3, <1>4, <1>5, <1>6, TwinBlock
<1>9. w.cur = y.cur /\ w.status = y.status /\ Objects(w) = Objects(y)
  BY <1>8 DEF Twin, Like, Objects
<1>10. InOrder(w, [cls EXCEPT ![w.cur] = w.cur])
  BY <1>8, <1>9, OrderTwin
<1> QED BY <1>2, <1>7, <1>9, <1>10 DEF Switched

LEMMA OrderDown ==
  ASSUME NEW h, NEW cls, Runs(h, cls), h.cur # idle_thread, NEW s \in Sem, h.value[s] = 0,
         NEW w, w = semaphore_down(h, s)
  PROVE  Switched(h, [cls EXCEPT ![h.cur] = s], w, BLOCKED)
<1>1. PICK r : Twin(h, r, cls)
  BY OrderTwin DEF Runs
<1>2. h.cur = r.cur /\ h.status = r.status /\ Sched(r, cls) /\ r.cur \in Thread
      /\ Objects(h) = Objects(r) /\ cls \in Classes /\ r.cur \in Node
  BY <1>1, TwinFacts, KernelObjects DEF Twin, Like, Objects
<1>3. r.status[r.cur] = RUNNING /\ cls[r.cur] = r.cur /\ IdleAvailable(r, cls)
      /\ r.cur # idle_thread
  BY <1>2 DEF Runs, IdleAvailable
<1>4. s \in Node \ Thread /\ s # thread_ready_list /\ cls[r.cur] # s
  BY <1>2, <1>3, KernelObjects
<1>5. ~list_find_element(h, h.cur, s)
  <2>1. ~list_find_element(r, r.cur, s)
    BY <1>1, <1>2, <1>4, TwinFacts, NotFound
  <2> QED BY <1>1, <1>2, <1>4, <2>1, TwinFind
<1> DEFINE a == list_add_tail(h, r.cur, s)
           b == list_add_tail(r, r.cur, s)
           c == [cls EXCEPT ![r.cur] = s]
<1>6. w = thread_block(a, BLOCKED)
  BY <1>2, <1>5 DEF semaphore_down
<1>7. Twin(a, b, c) /\ b.status = r.status /\ b.cur = r.cur /\ Objects(b) = Objects(r)
  BY <1>1, <1>2, <1>3, TwinAdd
<1>8. PICK y : y = thread_block(b, BLOCKED)
  OBVIOUS
<1>9. /\ y.cur \in Thread /\ y.cur # r.cur
      /\ Sched(y, [[cls EXCEPT ![r.cur] = s] EXCEPT ![y.cur] = y.cur])
      /\ y.status = [[r.status EXCEPT ![r.cur] = BLOCKED] EXCEPT ![y.cur] = RUNNING]
      /\ \/ r.status[y.cur] = READY
         \/ y.cur = idle_thread /\ r.status[y.cur] \in Asleep
      /\ Objects(y) = Objects(r)
  BY <1>2, <1>3, <1>8, QueueLemma
<1>10. c[r.cur] = s /\ c[idle_thread] = cls[idle_thread]
  BY <1>2, <1>3, KernelObjects DEF Classes
<1> HIDE DEF a, b, c
<1>11. IdleAvailable(b, c) /\ b.status[b.cur] = RUNNING /\ b.cur # idle_thread
       /\ c[b.cur] # thread_ready_list /\ BLOCKED \in Asleep
  BY <1>3, <1>4, <1>7, <1>10, StatusType DEF IdleAvailable
<1>12. Twin(w, y, [c EXCEPT ![y.cur] = y.cur])
  BY <1>6, <1>7, <1>8, <1>11, TwinBlock
<1>13. w.cur = y.cur /\ w.status = y.status /\ Objects(w) = Objects(y)
  BY <1>12 DEF Twin, Like, Objects
<1>14. InOrder(w, [c EXCEPT ![w.cur] = w.cur])
  BY <1>12, <1>13, OrderTwin
<1> QED BY <1>2, <1>9, <1>13, <1>14 DEF c, Switched

LEMMA OrderStart ==
  ASSUME NEW h, NEW cls, InOrder(h, cls), NEW t \in Thread, cls[t] = t,
         NEW w, w = start_thread(h, t)
  PROVE  /\ InOrder(w, [cls EXCEPT ![t] = thread_ready_list])
         /\ w.status = [h.status EXCEPT ![t] = READY]
         /\ w.cur = h.cur /\ Objects(w) = Objects(h)
<1>1. PICK r : Twin(h, r, cls)
  BY OrderTwin
<1>2. ~OnReadyList(h, t)
  BY <1>1, TwinNotReady, ReadyListIsNoThread
<1>3. w = join_ready(h, t)
  BY <1>2 DEF start_thread
<1>4. PICK y : y = join_ready(r, t)
  OBVIOUS
<1>5. Sched(r, cls)
  BY <1>1 DEF Twin
<1>6. /\ Sched(y, [cls EXCEPT ![t] = thread_ready_list])
      /\ y.status = [r.status EXCEPT ![t] = READY]
      /\ y.cur = r.cur /\ Objects(y) = Objects(r)
      /\ y.nx[thread_ready_list] # thread_ready_list
  BY <1>4, <1>5, JoinLemma
<1>7. Twin(w, y, [cls EXCEPT ![t] = thread_ready_list])
  BY <1>1, <1>3, <1>4, TwinJoin
<1>8. w.cur = y.cur /\ w.status = y.status /\ Objects(w) = Objects(y)
  BY <1>7 DEF Twin, Like, Objects
<1>9. r.status = h.status /\ r.cur = h.cur /\ Objects(r) = Objects(h)
  BY <1>1 DEF Twin, Like, Objects
<1>10. InOrder(w, [cls EXCEPT ![t] = thread_ready_list])
  BY <1>7, OrderTwin
<1> QED BY <1>6, <1>8, <1>9, <1>10

\* The timer interrupt; it leaves the lists as they are, or switches.
LEMMA OrderTimer ==
  ASSUME NEW h, NEW cls, Runs(h, cls), NEW w, w = inthandler20(h)
  PROVE  \/ /\ InOrder(w, cls) /\ w.status = h.status /\ w.cur = h.cur
            /\ Objects(w) = Objects(h)
         \/ Switched(h, [cls EXCEPT ![h.cur] = thread_ready_list], w, READY)
<1>0. h \in KernelState /\ h.cur \in Thread
  BY DEF Runs, InOrder, KernelState
<1>1. CASE h.ticks[h.cur] # 0
  <2> DEFINE ti == [h.ticks EXCEPT ![h.cur] = h.ticks[h.cur] - 1]
  <2>1. ti \in [Thread -> Nat]
    BY <1>0, <1>1 DEF KernelState
  <2>2. w = [h EXCEPT !.ticks = ti]
    BY <1>0, <1>1 DEF inthandler20, KernelState
  <2> HIDE DEF ti
  <2>3. /\ w \in KernelState /\ w.nx = h.nx /\ w.pv = h.pv /\ w.status = h.status
        /\ w.cur = h.cur /\ w.panic = h.panic /\ w.value = h.value /\ w.holder = h.holder
        /\ w.repeat = h.repeat
    BY <1>0, <2>1, <2>2 DEF KernelState
  <2>4. InOrder(w, cls)
    BY <2>3, OrderFrame DEF Runs
  <2> QED BY <2>3, <2>4 DEF Objects
<1>2. CASE h.ticks[h.cur] = 0
  <2>1. w = schedule(h)
    BY <1>2 DEF inthandler20
  <2>2. PICK r : Twin(h, r, cls)
    BY OrderTwin DEF Runs
  <2>3. h.cur = r.cur /\ h.status = r.status /\ Sched(r, cls) /\ Objects(h) = Objects(r)
    BY <2>2 DEF Twin, Like, Objects
  <2>4. r.status[r.cur] = RUNNING /\ cls[r.cur] = r.cur
        /\ (r.cur # idle_thread => IdleAvailable(r, cls))
    BY <2>3 DEF Runs, IdleAvailable
  <2>5. PICK y : y = schedule(r)
    OBVIOUS
  <2>6. /\ y.cur \in Thread
        /\ Sched(y, [Requeued(r, cls, thread_ready_list) EXCEPT ![y.cur] = y.cur])
        /\ y.status = [Requeued(r, r.status, READY) EXCEPT ![y.cur] = RUNNING]
        /\ \/ Requeued(r, r.status, READY)[y.cur] = READY
           \/ y.cur = idle_thread /\ r.status[y.cur] \in Asleep
        /\ Objects(y) = Objects(r)
    BY <2>3, <2>4, <2>5, ScheduleLemma
  <2>7. Requeued(r, cls, thread_ready_list) = [cls EXCEPT ![r.cur] = thread_ready_list]
        /\ Requeued(r, r.status, READY) = [r.status EXCEPT ![r.cur] = READY]
    BY <2>4 DEF Requeued
  <2> DEFINE c == Requeued(r, cls, thread_ready_list)
  <2>8. Twin(w, y, [c EXCEPT ![y.cur] = y.cur])
    BY <2>1, <2>2, <2>4, <2>5, TwinSchedule
  <2>9. w.cur = y.cur /\ w.status = y.status /\ Objects(w) = Objects(y)
    BY <2>8 DEF Twin, Like, Objects
  <2>10. InOrder(w, [c EXCEPT ![w.cur] = w.cur])
    BY <2>8, <2>9, OrderTwin
  <2>11. \/ w.cur = h.cur \/ h.status[w.cur] = READY
         \/ w.cur = idle_thread /\ h.status[w.cur] \in Asleep
    <3>1. h.status \in [Thread -> Status]
      BY <1>0 DEF KernelState
    <3> QED BY <2>3, <2>6, <2>7, <2>9, <3>1
  <2> HIDE DEF c
  <2>12. c = [cls EXCEPT ![h.cur] = thread_ready_list]
    BY <2>3, <2>7 DEF c
  <2> QED BY <2>3, <2>6, <2>7, <2>9, <2>10, <2>11, <2>12 DEF Switched
<1> QED BY <1>1, <1>2

\* semaphore_up on a semaphore at 0: nobody waits, or the first waiter is readied.
Signalled(h, w, cls, s) ==
  /\ w.cur = h.cur /\ w.holder = h.holder /\ w.repeat = h.repeat
  /\ \/ InOrder(w, cls) /\ w.status = h.status
     \/ \E t \in Thread :
          /\ cls[t] = s /\ InOrder(w, [cls EXCEPT ![t] = thread_ready_list])
          /\ w.status = [h.status EXCEPT ![t] = READY]

LEMMA OrderUp ==
  ASSUME NEW h, NEW cls, InOrder(h, cls), ~Halted(h), NEW s \in Sem, h.value[s] = 0,
         \A t \in Thread : cls[t] = s => h.status[t] \in Asleep,
         NEW w, w = semaphore_up(h, s)
  PROVE  Signalled(h, w, cls, s)
<1> DEFINE v == wake_first(h, s)
<1>0. h \in KernelState
  BY DEF InOrder
<1>1. ASSUME v \in KernelState, ~Halted(v), v.value = h.value
      PROVE  /\ w \in KernelState /\ w.nx = v.nx /\ w.pv = v.pv /\ w.status = v.status
             /\ w.cur = v.cur /\ w.holder = v.holder /\ w.repeat = v.repeat
             /\ w.panic = v.panic
  <2>1. w = [v EXCEPT !.value[s] = @ + 1]
    BY <1>1 DEF semaphore_up
  <2> HIDE DEF v
  <2>2. w = [v EXCEPT !.value = [h.value EXCEPT ![s] = 1]]
    BY <2>1, <1>1, <1>0 DEF KernelState
  <2>3. [h.value EXCEPT ![s] = 1] \in [Sem -> Nat]
    BY <1>0 DEF KernelState
  <2> QED BY <2>2, <2>3, <1>1 DEF KernelState
<1>2. CASE h.nx[s] = s
  <2>1. v = h
    BY <1>2 DEF wake_first, list_is_empty
  <2> HIDE DEF v
  <2>2. /\ w \in KernelState /\ w.nx = h.nx /\ w.pv = h.pv /\ w.status = h.status
        /\ w.cur = h.cur /\ w.holder = h.holder /\ w.repeat = h.repeat /\ w.panic = h.panic
    BY <1>0, <1>1, <2>1
  <2>3. InOrder(w, cls)
    BY <2>2, OrderFrame
  <2> QED BY <2>2, <2>3 DEF Signalled
<1>3. CASE h.nx[s] # s
  <2>1. v = thread_unblock(list_pop(h, s), list_first(h, s))
    BY <1>3 DEF wake_first, list_is_empty
  <2>2. PICK r : Twin(h, r, cls)
    BY OrderTwin
  <2>3. h.status = r.status /\ h.cur = r.cur /\ Objects(h) = Objects(r)
    BY <2>2 DEF Twin, Like, Objects
  <2>4. PICK t : t = h.nx[s]
    OBVIOUS
  <2>5. PICK y : y = thread_unblock(list_pop(r, s), list_first(r, s))
    OBVIOUS
  <2> HIDE DEF v
  <2>6. \A u \in Thread : cls[u] = s => r.status[u] \in Asleep
    BY <2>3
  <2>7. /\ t \in Thread /\ cls[t] = s /\ Twin(v, y, [cls EXCEPT ![t] = thread_ready_list])
        /\ y.status = [r.status EXCEPT ![t] = READY] /\ y.cur = r.cur
        /\ Objects(y) = Objects(r)
    BY <1>3, <2>1, <2>2, <2>4, <2>5, <2>6, TwinWake
  <2>8. /\ v.status = [h.status EXCEPT ![t] = READY] /\ v.cur = h.cur
        /\ Objects(v) = Objects(h) /\ v \in KernelState /\ ~Halted(v)
    BY <2>3, <2>7, TwinFacts DEF Twin, Like, Objects
  <2>9. InOrder(v, [cls EXCEPT ![t] = thread_ready_list])
    BY <2>7, OrderTwin
  <2>10. v.value = h.value /\ v.holder = h.holder /\ v.repeat = h.repeat
    BY <2>8 DEF Objects
  <2>11. /\ w \in KernelState /\ w.nx = v.nx /\ w.pv = v.pv /\ w.status = v.status
         /\ w.cur = v.cur /\ w.holder = v.holder /\ w.repeat = v.repeat /\ w.panic = v.panic
    BY <1>1, <2>8, <2>10
  <2>12. InOrder(w, [cls EXCEPT ![t] = thread_ready_list])
    BY <2>9, <2>11, OrderFrame
  <2> QED BY <2>7, <2>8, <2>10, <2>11, <2>12 DEF Signalled
<1> QED BY <1>2, <1>3

\* thread_yield adds the thread to the ready list, and schedule() adds it once more: its
\* tag then points back to itself.  It is not the first of the list.
LEMMA TwinYield ==
  ASSUME NEW h, NEW r, NEW cls, Twin(h, r, cls), NEW t, t = h.cur, cls[t] = t,
         h.nx[thread_ready_list] # thread_ready_list,
         NEW x, x = h.nx[thread_ready_list]
  PROVE  \E y : /\ Twin(thread_yield(h), y, [[cls EXCEPT ![t] = thread_ready_list] EXCEPT ![x] = x])
                /\ x \in Thread /\ x # t /\ h.status[x] = READY /\ y.cur = x
                /\ y.status = [[h.status EXCEPT ![t] = READY] EXCEPT ![x] = RUNNING]
                /\ Objects(y) = Objects(h)
<1> DEFINE R == thread_ready_list
           last == h.pv[R]
           nx == [h.nx EXCEPT ![last] = t, ![t] = R]
           pv == [h.pv EXCEPT ![t] = last, ![R] = t]
           pw == [pv EXCEPT ![t] = t]
           qv == [r.pv EXCEPT ![t] = last, ![R] = t]
           st == [h.status EXCEPT ![t] = READY]
           c == [cls EXCEPT ![t] = R]
           a0 == Relinked(h, nx, pv)
           b0 == Relinked(r, nx, qv)
           a == [a0 EXCEPT !.status = st]
           b == [b0 EXCEPT !.status = st]
           g == list_add_tail(a, t, R)
<1>1. h.nx = r.nx /\ t \in Thread /\ t \in Node /\ R \in Node \ Thread /\ r.pv[R] = last
      /\ last \in Node /\ h.status = r.status /\ h.status \in [Thread -> Status]
  <2>1. h.nx = r.nx /\ t \in Thread /\ t \in Node /\ R \in Node \ Thread
    BY TwinFacts, ReadyListIsNoThread
  <2>2. r.pv[R] = last /\ last \in Node
    BY <2>1, TwinFacts
  <2>3. h.status = r.status /\ h.status \in [Thread -> Status]
    BY TwinFacts DEF Twin, Like, KernelState
  <2> QED BY <2>1, <2>2, <2>3
<1>2. last # R /\ last # t /\ h.nx[last] = R
  BY <1>1, TwinFacts, KernelObjects DEF Linked
<1>3. x \in Thread /\ cls[x] = R /\ x # t /\ h.status[x] = READY
  <2>1. x \in Thread /\ cls[x] = R
    BY <1>1, TwinFacts, FirstElement
  <2> QED BY <1>1, <2>1 DEF Twin, Sched
<1>4. /\ nx \in Pointers /\ pv \in Pointers /\ pw \in Pointers /\ qv \in Pointers
      /\ st \in [Thread -> Status] /\ c \in Classes
  BY <1>1, TwinFacts, StatusType DEF Pointers, Classes
<1>5. nx[R] = x /\ nx[t] = R /\ pv[R] = t /\ pw[R] = t
      /\ \A n \in Node : pw[n] = qv[n] \/ n = t
                         \/ (n # R /\ n # t /\ h.pv[n] = pw[n] /\ r.pv[n] = qv[n])
  BY <1>1, <1>2, TwinFacts DEF Pointers
<1>6. [nx EXCEPT ![t] = t, ![t] = R] = nx /\ [pv EXCEPT ![t] = t, ![R] = t] = pw
  BY <1>1, <1>2, <1>5, TwinFacts DEF Pointers
<1>7. Linked(nx, qv, c)
  BY <1>1, TwinFacts, InsertTail
<1>8. \A u \in Thread : st[u] = READY <=> c[u] = R
  BY <1>1, TwinFacts DEF Twin, Sched, Classes
<1>9. \A n \in Node \ {t} : c[n] = cls[n]
  BY <1>1, TwinFacts DEF Classes
<1>10. c[t] = R
  BY <1>1, TwinFacts DEF Classes
<1>11. ~OnReadyList(h, t)
  BY <1>1, TwinNotReady
<1>12. list_add_tail(h, t, R) = a0
  <2> HIDE DEF last
  <2>1. h.pv[R] = last
    BY DEF last
  <2> QED BY <1>1, <2>1, TwinFacts, AddTailIs
<1> HIDE DEF nx, pv, pw, qv, c, last
<1>13. /\ a0 \in KernelState /\ a0.nx = nx /\ a0.pv = pv
       /\ a0.status = h.status /\ a0.ticks = h.ticks /\ a0.cur = h.cur
       /\ a0.value = h.value /\ a0.holder = h.holder /\ a0.repeat = h.repeat
       /\ a0.panic = h.panic
  BY <1>4, TwinFacts, RelinkedFields
<1>14. /\ b0 \in KernelState /\ b0.nx = nx /\ b0.pv = qv
       /\ b0.status = r.status /\ b0.ticks = r.ticks /\ b0.cur = r.cur
       /\ b0.value = r.value /\ b0.holder = r.holder /\ b0.repeat = r.repeat
       /\ b0.panic = r.panic
  BY <1>4, TwinFacts, RelinkedFields
<1> HIDE DEF a0, b0
<1>32. thread_yield(h) = schedule(a)
  <2>1. thread_yield(h) = schedule([a0 EXCEPT !.status[t] = READY])
    BY <1>11, <1>12 DEF thread_yield
  <2>2. [a0 EXCEPT !.status[t] = READY] = a
    BY <1>1, <1>13 DEF KernelState
  <2> QED BY <2>1, <2>2
<1>33. st[t] = READY
  BY <1>1
<1> HIDE DEF st
<1>15. /\ a \in KernelState /\ a.nx = nx /\ a.pv = pv /\ a.status = st /\ a.ticks = h.ticks
       /\ a.cur = t /\ a.value = h.value /\ a.holder = h.holder /\ a.repeat = h.repeat
       /\ a.panic = h.panic
  BY <1>4, <1>13 DEF KernelState
<1>16. /\ b \in KernelState /\ b.nx = nx /\ b.pv = qv /\ b.status = st /\ b.ticks = r.ticks
       /\ b.cur = r.cur /\ b.value = r.value /\ b.holder = r.holder /\ b.repeat = r.repeat
       /\ b.panic = r.panic
  BY <1>4, <1>14 DEF KernelState
<1> HIDE DEF a, b
<1>17. g = Relinked(a, nx, pw)
  <2>1. a.pv[R] = t
    BY <1>5, <1>15
  <2>2. g = Relinked(a, [a.nx EXCEPT ![t] = t, ![t] = R], [a.pv EXCEPT ![t] = t, ![R] = t])
    BY <1>1, <1>15, <2>1, AddTailIs
  <2> QED BY <1>6, <1>15, <2>2
<1> HIDE DEF g
<1>18. /\ g \in KernelState /\ g.nx = nx /\ g.pv = pw /\ g.status = a.status
       /\ g.ticks = a.ticks /\ g.cur = a.cur /\ g.value = a.value /\ g.holder = a.holder
       /\ g.repeat = a.repeat /\ g.panic = a.panic
  <2>1. a \in KernelState /\ nx \in Pointers /\ pw \in Pointers
    BY <1>4, <1>15
  <2>2. PICK z : z = Relinked(a, nx, pw)
    OBVIOUS
  <2>3. /\ z \in KernelState /\ z.nx = nx /\ z.pv = pw
        /\ z.status = a.status /\ z.ticks = a.ticks /\ z.cur = a.cur
        /\ z.value = a.value /\ z.holder = a.holder /\ z.repeat = a.repeat
        /\ z.panic = a.panic
    BY <2>1, <2>2, RelinkedFields
  <2> QED BY <1>17, <2>2, <2>3
<1>19. requeue(a) = g
  <2>1. st[t] = READY /\ READY # RUNNING
    BY <1>33, StatusType
  <2>2. ~OnReadyList(a, t)
    BY <1>5, <1>15 DEF OnReadyList, list_find_element
  <2> QED BY <1>15, <2>1, <2>2 DEF requeue, g
<1>20. Sched(b, c)
  BY <1>4, <1>7, <1>8, <1>16, TwinFacts DEF Sched, Halted
<1>21. Like(g, b)
  BY <1>15, <1>16, <1>18 DEF Twin, Like
<1>22. \A n \in Node : g.pv[n] = b.pv[n] \/ Rear(b, c, n)
  BY <1>1, <1>3, <1>5, <1>9, <1>10, <1>16, <1>18 DEF Twin, Rear
<1>23. Twin(g, b, c)
  BY <1>20, <1>21, <1>22 DEF Twin
<1>24. g.nx[R] = x /\ b.nx[R] = x /\ x # R
  BY <1>3, <1>5, <1>16, <1>18, ReadyListIsNoThread
<1>25. thread_yield(h) = switch_to_first(g)
  <2>1. ~Halted(g)
    BY <1>23, TwinFacts
  <2>2. wake_idle(g) = g
    BY <1>24 DEF wake_idle, list_is_empty
  <2> QED BY <1>19, <1>32, <2>1, <2>2 DEF schedule
<1>26. PICK y : y = switch_to_first(b)
  OBVIOUS
<1>27. Twin(thread_yield(h), y, [c EXCEPT ![x] = x])
  BY <1>23, <1>24, <1>25, <1>26, TwinSwitch
<1>28. /\ y.cur = b.nx[R] /\ y.cur \in Thread /\ b.status[y.cur] = READY
       /\ Sched(y, [c EXCEPT ![y.cur] = y.cur])
       /\ y.status = [b.status EXCEPT ![y.cur] = RUNNING]
       /\ Objects(y) = Objects(b)
  BY <1>20, <1>24, <1>26, SwitchLemma
<1>29. Objects(b) = Objects(h)
  BY <1>16 DEF Twin, Like, Objects
<1>30. Twin(thread_yield(h), y, [[cls EXCEPT ![t] = R] EXCEPT ![x] = x])
  BY <1>27 DEF c
<1>31. y.cur = x /\ y.status = [[h.status EXCEPT ![t] = READY] EXCEPT ![x] = RUNNING]
  BY <1>16, <1>24, <1>28 DEF st
<1> QED BY <1>3, <1>28, <1>29, <1>30, <1>31

\* thread_yield, when another thread is ready.
LEMMA OrderYield ==
  ASSUME NEW h, NEW cls, Runs(h, cls), NEW u \in Thread, h.status[u] = READY,
         NEW w, w = thread_yield(h)
  PROVE  Switched(h, [cls EXCEPT ![h.cur] = thread_ready_list], w, READY)
<1> DEFINE R == thread_ready_list
<1>1. PICK r : Twin(h, r, cls)
  BY OrderTwin DEF Runs
<1>2. PICK t, x : t = h.cur /\ x = h.nx[R]
  OBVIOUS
<1>3. h.nx[R] # R
  <2>1. cls[u] = R
    BY <1>1 DEF Twin, Like, Sched
  <2> QED BY <1>1, <2>1, TwinFacts, EmptyList, ReadyListIsNoThread
<1>4. cls[t] = t
  BY <1>2 DEF Runs
<1>5. PICK y : /\ Twin(thread_yield(h), y, [[cls EXCEPT ![t] = R] EXCEPT ![x] = x])
               /\ x \in Thread /\ x # t /\ h.status[x] = READY /\ y.cur = x
               /\ y.status = [[h.status EXCEPT ![t] = READY] EXCEPT ![x] = RUNNING]
               /\ Objects(y) = Objects(h)
  BY <1>1, <1>2, <1>3, <1>4, TwinYield
<1>6. w.cur = y.cur /\ w.status = y.status /\ Objects(w) = Objects(y)
  BY <1>5 DEF Twin, Like, Objects
<1>7. InOrder(w, [[cls EXCEPT ![t] = R] EXCEPT ![x] = x])
  BY <1>5, OrderTwin
<1> QED BY <1>2, <1>5, <1>6, <1>7 DEF Switched

-----------------------------------------------------------------------------
(* The steps of the driver.                                                *)

\* ListInv of a machine that runs.
ListsOK == InOrder(k, IdeCls) /\ IdeStatusInv /\ ChannelInv

LEMMA RunningLists ==
  /\ ListInv /\ ~Halted(k) => ListsOK
  /\ ListsOK /\ ~Halted(k) => ListInv
<1>1. ASSUME k.panic = "none", k \in KernelState PROVE [k EXCEPT !.panic = "none"] = k
  BY <1>1 DEF KernelState
<1> QED BY <1>1 DEF ListInv, ListsOK, Halted, InOrder

LEMMA OrderFacts ==
  ASSUME NEW h, NEW cls, InOrder(h, cls)
  PROVE  /\ h \in KernelState /\ cls \in Classes /\ ~Halted(h) /\ h.cur \in Thread
         /\ h.status \in [Thread -> Status]
         /\ \A t \in Thread : h.status[t] = READY <=> cls[t] = thread_ready_list
<1>1. PICK r : Twin(h, r, cls)
  BY OrderTwin
<1>2. h \in KernelState /\ cls \in Classes /\ ~Halted(h) /\ h.cur \in Thread
  BY <1>1, TwinFacts
<1> QED BY <1>1, <1>2 DEF Twin, Like, Sched, KernelState

LEMMA ClassFacts ==
  /\ IdeCls \in Classes /\ \A n \in Node : IdeCls[n] = IdeClass(n)
  /\ \A t \in Thread : IdeCls[t] = IdeClass(t)
<1>1. \A n \in Node : IdeClass(n) \in Node
  BY DriverObjects, KernelObjects DEF IdeClass
<1> QED BY <1>1, KernelObjects DEF IdeCls, Classes

\* The thread on the CPU is on no list; another can take its place.
LEMMA CurrentRuns ==
  ASSUME IdeInv, ListsOK
  PROVE  /\ Runs(k, IdeCls) /\ k.cur \in Thread /\ k.status[k.cur] = RUNNING
         /\ k.status \in [Thread -> Status] /\ k \in KernelState /\ ~Halted(k)
         /\ io[idle_thread] # "queued" /\ pc[idle_thread] # "queued"
<1>1. k.cur \in Thread /\ k.status[k.cur] = RUNNING /\ k.status \in [Thread -> Status]
      /\ k \in KernelState /\ ~Halted(k)
  BY OrderFacts DEF ListsOK, IdeStatusInv
<1>2. IdeCls[k.cur] = k.cur
  BY <1>1, ClassFacts, StatusType DEF IdeClass, RUNNING, BLOCKED
<1>3. io[idle_thread] # "queued" /\ pc[idle_thread] # "queued"
  BY Types, InvFacts, DriverObjects DEF Fits, InFetch
<1>4. ASSUME k.cur # idle_thread PROVE IdleAvailable(k, IdeCls)
  <2>1. k.status[idle_thread] \in {READY, BLOCKED}
    BY <1>4, DriverObjects DEF ListsOK, IdeStatusInv, Process
  <2>2. k.status[idle_thread] = BLOCKED => IdeCls[idle_thread] = idle_thread
    BY <1>3, ClassFacts, DriverObjects DEF IdeClass, READY, BLOCKED
  <2> QED BY <2>1, <2>2, StatusType DEF IdleAvailable
<1> QED BY <1>1, <1>2, <1>3, <1>4 DEF Runs, ListsOK

\* A step leaves the places of the threads that do not run alone; idle_thread is in
\* no queue.
OthersStay ==
  /\ \A u \in Thread \ {k.cur, idle_thread} : pc'[u] = pc[u] /\ io'[u] = io[u]
  /\ pc'[idle_thread] # "queued" /\ io'[idle_thread] # "queued"

\* Where a thread with the status st belongs after the step.
Next_list(t, st) ==
  IF st = READY THEN thread_ready_list
  ELSE IF io'[t] = "queued" THEN disk_done
  ELSE IF pc'[t] = "queued" THEN channel
  ELSE t

LEMMA SwitchKeepsLists ==
  ASSUME IdeInv, ListsOK, OthersStay, NEW st \in {READY, BLOCKED},
         Switched(k, [IdeCls EXCEPT ![k.cur] = Next_list(k.cur, st)], k', st),
         st = BLOCKED => /\ k.cur # init_process
                         /\ \/ k.cur = idle_thread
                            \/ pc'[k.cur] = "queued" \/ io'[k.cur] = "queued"
  PROVE  InOrder(k', IdeCls') /\ IdeStatusInv'
<1> DEFINE t == k.cur
           x == k'.cur
           z == Next_list(t, st)
           c == [[IdeCls EXCEPT ![t] = z] EXCEPT ![x] = x]
<1>1. /\ t \in Thread /\ t \in Node /\ k.status \in [Thread -> Status] /\ k.status[t] = RUNNING
      /\ k \in KernelState /\ io[idle_thread] # "queued" /\ pc[idle_thread] # "queued"
  BY CurrentRuns, KernelObjects
<1>2. /\ x \in Thread /\ x \in Node /\ InOrder(k', c)
      /\ k'.status = [[k.status EXCEPT ![t] = st] EXCEPT ![x] = RUNNING]
      /\ \/ x = t \/ k.status[x] = READY
         \/ x = idle_thread /\ k.status[x] \in Asleep
  BY KernelObjects DEF Switched
<1>3. z \in Node
  BY <1>1, DriverObjects, KernelObjects DEF Next_list
<1>4. \A u \in Thread : k'.status[u] = IF u = x THEN RUNNING ELSE IF u = t THEN st ELSE k.status[u]
  BY <1>1, <1>2
<1>5. c \in Classes /\ \A n \in Node : c[n] = IF n = x THEN x ELSE IF n = t THEN z ELSE IdeClass(n)
  BY <1>1, <1>2, <1>3, ClassFacts DEF Classes
<1> HIDE DEF c, z
<1>6. \A n \in Node : IdeClass(n)' = c[n]
  <2> SUFFICES ASSUME NEW n \in Node PROVE IdeClass(n)' = c[n]
    OBVIOUS
  <2>1. CASE n \notin Thread
    BY <1>1, <1>2, <1>5, <2>1 DEF IdeClass
  <2>2. CASE n = x
    BY <1>2, <1>4, <1>5, <2>2 DEF IdeClass, RUNNING, READY, BLOCKED
  <2>3. CASE n = t /\ n # x
    BY <1>1, <1>4, <1>5, <2>3 DEF IdeClass, Next_list, READY, BLOCKED, z
  <2>4. CASE n \in Thread \ {t, x}
    <3>1. k'.status[n] = k.status[n] /\ c[n] = IdeClass(n)
      BY <1>4, <1>5, <2>4
    <3>2. (io'[n] = "queued" <=> io[n] = "queued") /\ (pc'[n] = "queued" <=> pc[n] = "queued")
      BY <1>1, <2>4 DEF OthersStay
    <3> QED BY <2>4, <3>1, <3>2 DEF IdeClass
  <2> QED BY <2>1, <2>2, <2>3, <2>4
<1>7. IdeCls' = c
  <2>1. c = [n \in Node |-> c[n]]
    BY <1>5 DEF Classes
  <2>2. IdeCls' = [n \in Node |-> IdeClass(n)']
    BY DEF IdeCls
  <2> QED BY <1>6, <2>1, <2>2
<1>8. IdeStatusInv'
  <2>1. IdeStatusInv
    BY DEF ListsOK
  <2>2. \A u \in Thread : k'.status[u] = RUNNING <=> u = x
    BY <1>1, <1>4, <2>1 DEF IdeStatusInv, RUNNING, READY, BLOCKED
  <2>3. \A u \in Thread : k'.status[u] \in {RUNNING, READY, BLOCKED, NONE}
    BY <1>4, <2>1 DEF IdeStatusInv
  <2>4. \A u \in Thread : k'.status[u] = NONE => u \in Process \ {init_process}
    BY <1>4, <2>1 DEF IdeStatusInv, RUNNING, READY, BLOCKED, NONE
  <2>5. ASSUME NEW u \in Thread \ {idle_thread}, k'.status[u] = BLOCKED
        PROVE  pc'[u] = "queued" \/ io'[u] = "queued"
    BY <1>4, <2>1, <2>5 DEF IdeStatusInv, OthersStay, RUNNING, READY, BLOCKED
  <2>6. k'.status[init_process] # BLOCKED
    BY <1>4, <2>1, DriverObjects DEF IdeStatusInv, RUNNING, READY, BLOCKED
  <2> QED BY <2>2, <2>3, <2>4, <2>5, <2>6 DEF IdeStatusInv
<1> QED BY <1>2, <1>7, <1>8 DEF c, z

\* A step that moves no thread, or one that readies the thread u.
LEMMA StayKeepsLists ==
  ASSUME IdeInv, ListsOK, OthersStay, k'.cur = k.cur,
         InOrder(k', IdeCls), k'.status = k.status
  PROVE  InOrder(k', IdeCls') /\ IdeStatusInv'
<1>1. /\ k.cur \in Thread /\ k.status[k.cur] = RUNNING
      /\ io[idle_thread] # "queued" /\ pc[idle_thread] # "queued"
  BY CurrentRuns
<1>2. \A n \in Node : IdeClass(n)' = IdeClass(n)
  BY <1>1 DEF IdeClass, OthersStay, RUNNING, READY, BLOCKED
<1>3. IdeCls' = IdeCls
  BY <1>2 DEF IdeCls
<1>4. IdeStatusInv'
  BY <1>1, DriverObjects DEF IdeStatusInv, ListsOK, OthersStay, RUNNING, READY, BLOCKED
<1> QED BY <1>3, <1>4

LEMMA ReadyKeepsLists ==
  ASSUME IdeInv, ListsOK, OthersStay, k'.cur = k.cur, NEW u \in Thread, u # k.cur,
         InOrder(k', [IdeCls EXCEPT ![u] = thread_ready_list]),
         k'.status = [k.status EXCEPT ![u] = READY]
  PROVE  InOrder(k', IdeCls') /\ IdeStatusInv'
<1> DEFINE c == [IdeCls EXCEPT ![u] = thread_ready_list]
<1>1. /\ k.cur \in Thread /\ k.status[k.cur] = RUNNING /\ k.status \in [Thread -> Status]
      /\ io[idle_thread] # "queued" /\ pc[idle_thread] # "queued"
  BY CurrentRuns
<1>2. \A t \in Thread : k'.status[t] = IF t = u THEN READY ELSE k.status[t]
  BY <1>1
<1>3. c \in Classes /\ \A n \in Node : c[n] = IF n = u THEN thread_ready_list ELSE IdeClass(n)
  BY ClassFacts, KernelObjects DEF Classes
<1> HIDE DEF c
<1>4. \A n \in Node : IdeClass(n)' = c[n]
  BY <1>1, <1>2, <1>3 DEF IdeClass, OthersStay, RUNNING, READY, BLOCKED
<1>5. IdeCls' = c
  <2>1. c = [n \in Node |-> c[n]]
    BY <1>3 DEF Classes
  <2>2. IdeCls' = [n \in Node |-> IdeClass(n)']
    BY DEF IdeCls
  <2> QED BY <1>4, <2>1, <2>2
<1>6. IdeStatusInv'
  BY <1>1, <1>2, DriverObjects
     DEF IdeStatusInv, ListsOK, OthersStay, RUNNING, READY, BLOCKED, NONE
<1> QED BY <1>5, <1>6 DEF c

\* A step that leaves the fields of the lock and its owner's place in the lock functions
\* alone.
LEMMA ChannelFrame ==
  ASSUME IdeInv, ListsOK, k'.holder = k.holder, k'.repeat = k.repeat, held' = held,
         \A u \in Thread : Owner(u)' <=> Owner(u),
         \A u \in Thread : Owner(u) => pc'[u] = pc[u] /\ arg'[u] = arg[u]
  PROVE  ChannelInv'
<1>1. ChannelInv
  BY DEF ListsOK
<1>2. ASSUME NEW u \in Thread, Owner(u)' PROVE Stage(u, channel)'
  <2>1. Owner(u) /\ Stage(u, channel)
    BY <1>1, <1>2 DEF ChannelInv
  <2>2. pc'[u] = pc[u] /\ arg'[u] = arg[u]
    BY <2>1
  <2> QED BY <2>1, <2>2 DEF Stage
<1> QED BY <1>1, <1>2 DEF ChannelInv

\* A step that goes on to the next statement.
LEMMA PlaceKeepsLists ==
  ASSUME IdeInv, ListsOK, k' = k, held' = held, NEW t \in Thread, t = k.cur, t # idle_thread,
         \A u \in Thread \ {t} : pc'[u] = pc[u] /\ io'[u] = io[u] /\ arg'[u] = arg[u],
         \/ Owner(t) /\ Owner(t)' /\ pc'[t] = pc[t] /\ arg'[t] = arg[t]
         \/ ~Owner(t) /\ ~Owner(t)'
  PROVE  ListsOK'
<1>1. OthersStay
  BY CurrentRuns, DriverObjects DEF OthersStay
<1>2. InOrder(k', IdeCls)
  BY DEF ListsOK
<1>3. InOrder(k', IdeCls') /\ IdeStatusInv'
  BY <1>1, <1>2, StayKeepsLists
<1>4. \A u \in Thread : Owner(u)' <=> Owner(u)
  BY DEF Owner
<1>5. ChannelInv'
  BY <1>4, ChannelFrame
<1> QED BY <1>3, <1>5 DEF ListsOK

\* The owner's place changes in the driver only.
LEMMA IoKeepsLists ==
  ASSUME IdeInv, ListsOK, k' = k, UNCHANGED <<pc, arg, held>>, NEW t \in Thread,
         NEW w \in Place \ {"none"}, At(t, w), NEW v \in Place \ {"none"},
         io' = [io EXCEPT ![t] = v]
  PROVE  ListsOK'
<1>1. t = k.cur /\ Owner(t) /\ pc[t] = "kernel" /\ t # idle_thread
  BY AtPlace DEF At, OnCpu
<1>2. io'[t] = v /\ \A u \in Thread \ {t} : io'[u] = io[u]
  BY Types
<1>3. Owner(t)'
  BY <1>1, <1>2 DEF Owner
<1> QED BY <1>1, <1>2, <1>3, PlaceKeepsLists

LEMMA SelectKeepsLists ==
  ASSUME IdeInv, ListsOK, NEW t \in Thread,
         \/ select_disk(t) \/ select_sector(t) \/ cmd_out_expect(t) \/ cmd_out(t)
         \/ read_from_sector(t) \/ write_to_sector(t)
  PROVE  ListsOK'
<1>1. k' = k /\ UNCHANGED <<pc, arg, held>>
  BY DEF select_disk, select_sector, cmd_out_expect, cmd_out, read_from_sector,
         write_to_sector, vars
<1>2. PICK w \in Place \ {"none"}, v \in Place \ {"none"} :
        At(t, w) /\ io' = [io EXCEPT ![t] = v]
  BY DEF select_disk, select_sector, cmd_out_expect, cmd_out, read_from_sector,
         write_to_sector, Step, Place
<1> QED BY <1>1, <1>2, IoKeepsLists

\* The PANIC of ide_write_sector.
Failed == k' = PANIC(k, "ide_write_sector") /\ UNCHANGED <<pc, arg, held>> /\ io' = io

LEMMA PollKeepsLists ==
  ASSUME IdeInv, ListsOK, NEW t \in Thread, busy_wait(t)
  PROVE  ListsOK' \/ Failed
<1>1. CASE k' = k
  <2>1. PICK v \in Place \ {"none"} : io' = [io EXCEPT ![t] = v]
    <3>1. io = [io EXCEPT ![t] = io[t]] /\ io[t] = "poll"
      BY Types DEF busy_wait, At
    <3> QED BY <1>1, <3>1 DEF busy_wait, busy_wait_failed, Step, Place
  <2>2. At(t, "poll") /\ UNCHANGED <<pc, arg, held>>
    BY DEF busy_wait
  <2> QED BY <1>1, <2>1, <2>2, IoKeepsLists DEF Place
<1>2. CASE k' # k
  BY <1>2 DEF busy_wait, busy_wait_failed, Failed
<1> QED BY <1>1, <1>2

\* lock_fetch from outside the driver.
LEMMA FetchKeepsLists ==
  ASSUME IdeInv, ListsOK, NEW t \in Thread, At(t, "none"), lock_fetch(t, channel),
         Step(t, "disk")
  PROVE  ListsOK'
<1>1. /\ pc[t] = "kernel" /\ io[t] = "none" /\ k' = k /\ held' = held /\ t = k.cur
      /\ pc' = [pc EXCEPT ![t] = "down"] /\ arg' = [arg EXCEPT ![t] = channel]
      /\ io' = [io EXCEPT ![t] = "disk"]
  BY DEF At, OnCpu, lock_fetch, Goto, Step
<1>2. t # idle_thread
  BY <1>1, Types
<1>3. \A u \in Thread \ {t} : pc'[u] = pc[u] /\ io'[u] = io[u] /\ arg'[u] = arg[u]
  BY <1>1, Types
<1>4. pc'[t] = "down"
  BY <1>1, Types
<1>5. ~Owner(t) /\ ~Owner(t)'
  BY <1>1, <1>4 DEF Owner, InRelease
<1> QED BY <1>1, <1>2, <1>3, <1>5, PlaceKeepsLists

LEMMA SyscallKeepsLists ==
  ASSUME IdeInv, ListsOK, NEW t \in Thread, UNCHANGED ideVars,
         enter_syscall(t) \/ (io[t] = "none" /\ leave_syscall(t))
  PROVE  ListsOK'
<1>1. pc[t] \in {"user", "kernel"} /\ io[t] = "none" /\ t = k.cur
  <2>1. CASE enter_syscall(t)
    BY <2>1, InvFacts DEF enter_syscall, OnCpu, Fits, InFetch
  <2>2. CASE leave_syscall(t) /\ io[t] = "none"
    BY <2>2 DEF leave_syscall, OnCpu
  <2> QED BY <2>1, <2>2
<1>2. PICK w \in {"user", "kernel"} : pc' = [pc EXCEPT ![t] = w]
  BY DEF enter_syscall, leave_syscall, Goto
<1>3. k' = k /\ UNCHANGED <<arg, held, io>>
  BY DEF enter_syscall, leave_syscall, ideVars
<1>4. t # idle_thread
  BY <1>1, Types
<1>5. pc'[t] = w /\ \A u \in Thread \ {t} : pc'[u] = pc[u]
  BY <1>2, Types
<1>6. ~Owner(t) /\ ~Owner(t)'
  BY <1>1, <1>3, <1>5 DEF Owner, InRelease
<1> QED BY <1>1, <1>3, <1>4, <1>5, <1>6, PlaceKeepsLists

LEMMA StutterKeepsLists ==
  ASSUME ListsOK, UNCHANGED <<k, pc, arg, held, io>>
  PROVE  ListsOK'
BY DEF ListsOK, IdeCls, IdeClass, IdeStatusInv, ChannelInv, Owner, Stage

LEMMA DriveKeepsLists ==
  ASSUME ListsOK, drive_answers \/ drive_stored
  PROVE  ListsOK'
BY StutterKeepsLists DEF drive_answers, drive_stored, Answer, vars

-----------------------------------------------------------------------------
(* Steps that give the CPU away.                                           *)

\* The sleep of busy_wait.  init_process is ready.
LEMMA SleepKeepsLists ==
  ASSUME IdeInv, ListsOK, NEW t \in Client, tick_to_sleep(t)
  PROVE  ListsOK'
<1>1. t \in Thread /\ t # init_process /\ t # idle_thread /\ t = k.cur /\ io[t] = "sleep"
      /\ UNCHANGED <<pc, arg, held>>
  BY DEF Client, tick_to_sleep, At, OnCpu
<1>2. CASE slept[t] < SleepTicks
  <2>1. k' = thread_yield(k) /\ io' = io
    BY <1>2 DEF tick_to_sleep
  <2>2. k.status[init_process] = READY
    BY <1>1, DriverObjects DEF ListsOK, IdeStatusInv
  <2>3. Switched(k, [IdeCls EXCEPT ![k.cur] = thread_ready_list], k', READY)
    BY <2>1, <2>2, CurrentRuns, DriverObjects, OrderYield
  <2>4. Next_list(k.cur, READY) = thread_ready_list
    BY DEF Next_list
  <2>5. OthersStay
    BY <1>1, <2>1, CurrentRuns DEF OthersStay
  <2>6. InOrder(k', IdeCls') /\ IdeStatusInv'
    BY <2>3, <2>4, <2>5, SwitchKeepsLists, StatusType DEF READY, BLOCKED
  <2>7. ChannelInv'
    BY <1>1, <2>1, <2>3, ChannelFrame DEF Switched, Objects, Owner
  <2> QED BY <2>6, <2>7 DEF ListsOK
<1>3. CASE ~(slept[t] < SleepTicks)
  <2>1. At(t, "sleep") /\ k' = k /\ io' = [io EXCEPT ![t] = "poll"]
    BY <1>3 DEF tick_to_sleep, Step
  <2> QED BY <1>1, <2>1, IoKeepsLists DEF Place
<1> QED BY <1>2, <1>3

LEMMA IdleKeepsLists ==
  ASSUME IdeInv, ListsOK, idle, UNCHANGED ideVars
  PROVE  ListsOK'
<1> DEFINE i == idle_thread
<1>1. k.cur = i /\ k' = thread_block(k, BLOCKED) /\ pc' = [pc EXCEPT ![i] = "hlt"]
      /\ UNCHANGED <<arg, held, io>> /\ i \in Thread /\ i # init_process
  BY DriverObjects DEF idle, OnCpu, Goto, ideVars
<1>2. pc'[i] = "hlt" /\ \A u \in Thread \ {i} : pc'[u] = pc[u]
  BY <1>1, Types
<1>3. Runs(k, IdeCls) /\ io[i] # "queued" /\ IdeCls[i] = i /\ IdeCls \in Classes
  BY <1>1, CurrentRuns, ClassFacts DEF Runs
<1>4. Switched(k, IdeCls, k', BLOCKED)
  BY <1>1, <1>3, StatusType, OrderBlock
<1>5. Next_list(k.cur, BLOCKED) = i /\ [IdeCls EXCEPT ![i] = i] = IdeCls
  BY <1>1, <1>2, <1>3 DEF Next_list, READY, BLOCKED, Classes
<1>6. OthersStay
  BY <1>1, <1>2, <1>3 DEF OthersStay
<1>7. InOrder(k', IdeCls') /\ IdeStatusInv'
  BY <1>1, <1>4, <1>5, <1>6, SwitchKeepsLists
<1>8. \A u \in Thread : Owner(u)' <=> Owner(u)
  BY <1>1, <1>2, Types, PlacesApart DEF Owner, InRelease
<1>9. \A u \in Thread : Owner(u) => u # i
  BY InvFacts
<1>10. ChannelInv'
  BY <1>1, <1>2, <1>4, <1>8, <1>9, ChannelFrame DEF Switched, Objects
<1> QED BY <1>7, <1>10 DEF ListsOK

LEMMA TimerKeepsLists ==
  ASSUME IdeInv, ListsOK, ide_timer
  PROVE  ListsOK'
<1>1. k' = inthandler20(k) /\ UNCHANGED <<arg, held, io>>
  BY DEF ide_timer, timer
<1>2. PICK w \in {"block", pc[idle_thread]} : pc' = [pc EXCEPT ![idle_thread] = w]
  BY DEF ide_timer, timer
<1>3. /\ pc'[idle_thread] \in {"block", "hlt"} /\ pc[idle_thread] \in {"block", "hlt"}
      /\ \A u \in Thread \ {idle_thread} : pc'[u] = pc[u]
  BY <1>2, Types, DriverObjects
<1>4. OthersStay
  BY <1>1, <1>3, CurrentRuns DEF OthersStay
<1>5. \A u \in Thread : (Owner(u)' <=> Owner(u)) /\ (Owner(u) => u # idle_thread)
  BY <1>1, <1>3, InvFacts DEF Owner, InRelease
<1>6. Runs(k, IdeCls)
  BY CurrentRuns
<1>7. CASE InOrder(k', IdeCls) /\ k'.status = k.status /\ k'.cur = k.cur /\ Objects(k') = Objects(k)
  <2>1. InOrder(k', IdeCls') /\ IdeStatusInv'
    BY <1>4, <1>7, StayKeepsLists
  <2>2. ChannelInv'
    BY <1>1, <1>3, <1>5, <1>7, ChannelFrame DEF Objects
  <2> QED BY <2>1, <2>2 DEF ListsOK
<1>8. CASE Switched(k, [IdeCls EXCEPT ![k.cur] = thread_ready_list], k', READY)
  <2>1. Next_list(k.cur, READY) = thread_ready_list
    BY DEF Next_list
  <2>2. InOrder(k', IdeCls') /\ IdeStatusInv'
    BY <1>4, <1>8, <2>1, SwitchKeepsLists DEF READY, BLOCKED
  <2>3. ChannelInv'
    BY <1>1, <1>3, <1>5, <1>8, ChannelFrame DEF Switched, Objects
  <2> QED BY <2>2, <2>3 DEF ListsOK
<1> QED BY <1>1, <1>6, <1>7, <1>8, OrderTimer

LEMMA SpawnKeepsLists ==
  ASSUME IdeInv, ListsOK, NEW t \in Thread, NEW child \in Thread, spawn(t, child),
         UNCHANGED ideVars
  PROVE  ListsOK'
<1>1. k' = start_thread(k, child) /\ k.status[child] = NONE /\ UNCHANGED <<pc, arg, held, io>>
  BY DEF spawn, ideVars
<1>2. InOrder(k, IdeCls) /\ k.status[k.cur] = RUNNING /\ child # k.cur
  BY <1>1, CurrentRuns, StatusType DEF ListsOK
<1>3. IdeCls[child] = child
  BY <1>1, ClassFacts DEF IdeClass, READY, BLOCKED, NONE
<1>4. /\ InOrder(k', [IdeCls EXCEPT ![child] = thread_ready_list])
      /\ k'.status = [k.status EXCEPT ![child] = READY]
      /\ k'.cur = k.cur /\ Objects(k') = Objects(k)
  BY <1>1, <1>2, <1>3, OrderStart
<1>5. OthersStay
  BY <1>1, CurrentRuns DEF OthersStay
<1>6. InOrder(k', IdeCls') /\ IdeStatusInv'
  BY <1>2, <1>4, <1>5, ReadyKeepsLists
<1>7. ChannelInv'
  BY <1>1, <1>4, ChannelFrame DEF Objects, Owner
<1> QED BY <1>6, <1>7 DEF ListsOK

-----------------------------------------------------------------------------
(* The semaphores.                                                         *)

\* A counter that is 1 is taken; the lists stay.
LEMMA OrderTake ==
  ASSUME NEW h, NEW cls, InOrder(h, cls), NEW s \in Sem, h.value[s] = 1,
         NEW w, w = semaphore_down(h, s)
  PROVE  /\ InOrder(w, cls) /\ w.status = h.status /\ w.cur = h.cur
         /\ w.holder = h.holder /\ w.repeat = h.repeat
<1>1. h \in KernelState
  BY OrderFacts
<1>2. [h.value EXCEPT ![s] = 0] \in [Sem -> Nat]
  BY <1>1 DEF KernelState
<1>3. w = [h EXCEPT !.value = [h.value EXCEPT ![s] = 0]]
  BY <1>1 DEF semaphore_down, KernelState
<1>4. /\ w \in KernelState /\ w.nx = h.nx /\ w.pv = h.pv /\ w.status = h.status
      /\ w.cur = h.cur /\ w.holder = h.holder /\ w.repeat = h.repeat /\ w.panic = h.panic
  BY <1>1, <1>2, <1>3 DEF KernelState
<1> QED BY <1>4, OrderFrame

\* semaphore_down(&disk_done).
LEMMA DoneKeepsLists ==
  ASSUME IdeInv, ListsOK, NEW t \in Client, semaphore_down_done(t)
  PROVE  ListsOK'
<1>1. PICK w \in {"down", "queued"} : At(t, w)
  BY DEF semaphore_down_done
<1>2. /\ t \in Thread /\ t # idle_thread /\ t # init_process /\ t = k.cur /\ Owner(t)
      /\ pc[t] = "kernel" /\ k' = semaphore_down(k, disk_done) /\ UNCHANGED <<pc, arg, held>>
  BY <1>1, AtPlace DEF Client, semaphore_down_done, At, OnCpu, Place
<1>3. k.value[disk_done] \in {0, 1} /\ disk_done \in Sem
  BY InvFacts, DriverObjects
<1>4. CASE k.value[disk_done] = 0
  <2>1. io' = [io EXCEPT ![t] = "queued"]
    BY <1>4 DEF semaphore_down_done, Step
  <2>2. io'[t] = "queued" /\ \A u \in Thread \ {t} : io'[u] = io[u]
    BY <1>2, <2>1, Types
  <2>3. Switched(k, [IdeCls EXCEPT ![k.cur] = disk_done], k', BLOCKED)
    BY <1>2, <1>3, <1>4, CurrentRuns, OrderDown
  <2>4. Next_list(k.cur, BLOCKED) = disk_done
    BY <1>2, <2>2 DEF Next_list, READY, BLOCKED
  <2>5. OthersStay
    BY <1>2, <2>2, CurrentRuns, DriverObjects DEF OthersStay
  <2>6. InOrder(k', IdeCls') /\ IdeStatusInv'
    BY <1>2, <2>2, <2>3, <2>4, <2>5, SwitchKeepsLists
  <2>7. \A u \in Thread : Owner(u)' <=> Owner(u)
    BY <1>2, <2>2 DEF Owner
  <2>8. ChannelInv'
    BY <1>2, <2>3, <2>7, ChannelFrame DEF Switched, Objects
  <2> QED BY <2>6, <2>8 DEF ListsOK
<1>5. CASE k.value[disk_done] = 1
  <2>1. PICK v \in {"poll", "release"} : io' = [io EXCEPT ![t] = v]
    BY <1>5 DEF semaphore_down_done, Step
  <2>2. io'[t] = v /\ \A u \in Thread \ {t} : io'[u] = io[u]
    BY <1>2, <2>1, Types
  <2>3. /\ InOrder(k', IdeCls) /\ k'.status = k.status /\ k'.cur = k.cur
        /\ k'.holder = k.holder /\ k'.repeat = k.repeat
    BY <1>2, <1>3, <1>5, OrderTake DEF ListsOK
  <2>4. OthersStay
    BY <1>2, <2>2, CurrentRuns, DriverObjects DEF OthersStay
  <2>5. InOrder(k', IdeCls') /\ IdeStatusInv'
    BY <2>3, <2>4, StayKeepsLists
  <2>6. \A u \in Thread : Owner(u)' <=> Owner(u)
    BY <1>2, <2>2 DEF Owner
  <2>7. ChannelInv'
    BY <1>2, <2>3, <2>6, ChannelFrame
  <2> QED BY <2>5, <2>7 DEF ListsOK
<1> QED BY <1>3, <1>4, <1>5

\* semaphore_down of lock_fetch.
LEMMA DownKeepsLists ==
  ASSUME IdeInv, ListsOK, NEW t \in Client, lock_fetch_down(t, channel), UNCHANGED ideVars
  PROVE  ListsOK'
<1>1. /\ t \in Thread /\ t # idle_thread /\ t # init_process /\ t = k.cur
      /\ pc[t] \in {"down", "queued"} /\ k' = semaphore_down(k, channel)
      /\ arg[t] = channel /\ UNCHANGED <<arg, io>>
  BY DEF Client, lock_fetch_down, OnCpu, ideVars
<1>2. io[t] = "disk" /\ ~Owner(t)
  BY <1>1, InvFacts DEF Fits, Owner, InFetch, InRelease
<1>3. k.value[channel] \in {0, 1} /\ channel \in Sem
  BY InvFacts, DriverObjects
<1>4. CASE k.value[channel] = 0
  <2>1. pc' = [pc EXCEPT ![t] = "queued"] /\ held' = held
    BY <1>4 DEF lock_fetch_down, Goto
  <2>2. pc'[t] = "queued" /\ \A u \in Thread \ {t} : pc'[u] = pc[u]
    BY <1>1, <2>1, Types DEF PC
  <2>3. Switched(k, [IdeCls EXCEPT ![k.cur] = channel], k', BLOCKED)
    BY <1>1, <1>3, <1>4, CurrentRuns, OrderDown
  <2>4. Next_list(k.cur, BLOCKED) = channel
    BY <1>1, <1>2, <2>2 DEF Next_list, READY, BLOCKED
  <2>5. OthersStay
    BY <1>1, <2>2, CurrentRuns, DriverObjects DEF OthersStay
  <2>6. InOrder(k', IdeCls') /\ IdeStatusInv'
    BY <1>1, <2>2, <2>3, <2>4, <2>5, SwitchKeepsLists
  <2>7. \A u \in Thread : Owner(u)' <=> Owner(u)
    BY <1>1, <1>2, <2>2 DEF Owner, InRelease
  <2>8. ChannelInv'
    BY <1>1, <1>2, <2>1, <2>2, <2>3, <2>7, ChannelFrame DEF Switched, Objects
  <2> QED BY <2>6, <2>8 DEF ListsOK
<1>5. CASE k.value[channel] = 1
  <2>1. pc' = [pc EXCEPT ![t] = "taken"]
        /\ held' = [held EXCEPT ![t][channel] = held[t][channel] + 1]
    BY <1>5 DEF lock_fetch_down, Goto, Count
  <2>2. pc'[t] = "taken" /\ \A u \in Thread \ {t} : pc'[u] = pc[u]
    BY <1>1, <2>1, Types DEF PC
  <2>3. /\ InOrder(k', IdeCls) /\ k'.status = k.status /\ k'.cur = k.cur
        /\ k'.holder = k.holder /\ k'.repeat = k.repeat
    BY <1>1, <1>3, <1>5, OrderTake DEF ListsOK
  <2>4. OthersStay
    BY <1>1, <2>2, CurrentRuns, DriverObjects DEF OthersStay
  <2>5. InOrder(k', IdeCls') /\ IdeStatusInv'
    BY <2>3, <2>4, StayKeepsLists
  <2>6. \A u \in Thread : ~Owner(u)
    BY <1>5 DEF IdeInv, Owned
  <2>7. k'.holder[channel] = NULL /\ k'.repeat[channel] = 0
    BY <2>3, <2>6 DEF ListsOK, ChannelInv
  <2>8. held'[t][channel] = 1
    <3>1. held[t][channel] = 0
      BY <1>1, <2>6 DEF IdeInv, Owned
    <3> QED BY <1>1, <2>1, <3>1, Types, DriverObjects
  <2>9. \A u \in Thread : Owner(u)' <=> u = t
    BY <1>1, <2>2, <2>6 DEF Owner
  <2>10. Stage(t, channel)'
    BY <1>1, <2>2, <2>7, <2>8 DEF Stage
  <2>11. ChannelInv'
    BY <1>1, <2>9, <2>10 DEF ChannelInv
  <2> QED BY <2>5, <2>11 DEF ListsOK
<1> QED BY <1>3, <1>4, <1>5

\* One owner before and after, who goes on in the lock functions.
LEMMA OwnerKeepsLists ==
  ASSUME IdeInv, ListsOK, NEW t \in Thread, Owner(t), t = k.cur, NEW w, pc'[t] = w, Owner(t)',
         w # "queued", \A u \in Thread \ {t} : pc'[u] = pc[u] /\ io'[u] = io[u],
         io'[t] # "queued",
         k' \in KernelState, k'.nx = k.nx, k'.pv = k.pv, k'.status = k.status,
         k'.cur = k.cur, k'.panic = k.panic, Stage(t, channel)'
  PROVE  ListsOK'
<1>1. InOrder(k', IdeCls)
  BY OrderFrame DEF ListsOK
<1>2. OthersStay
  BY InvFacts, CurrentRuns, DriverObjects DEF OthersStay
<1>3. InOrder(k', IdeCls') /\ IdeStatusInv'
  BY <1>1, <1>2, StayKeepsLists
<1>4. \A u \in Thread : Owner(u)' => u = t
  BY InvFacts DEF Owner
<1>5. ChannelInv'
  BY <1>4 DEF ChannelInv
<1> QED BY <1>3, <1>5 DEF ListsOK

\* The statements between semaphore_down and semaphore_up.  No assertion fires.
LEMMA LockKeepsLists ==
  ASSUME IdeInv, ListsOK, NEW t \in Thread, UNCHANGED ideVars,
         \/ lock_fetch_holder(t, channel) \/ lock_fetch_repeat(t, channel)
         \/ lock_release_repeat(t, channel)
  PROVE  ListsOK'
<1>0. k \in KernelState /\ channel \in Lock /\ k.repeat[channel] \in Nat /\ io' = io
  BY CurrentRuns, DriverObjects DEF KernelState, ideVars
<1>1. CASE lock_fetch_holder(t, channel)
  <2>1. /\ pc[t] = "taken" /\ arg[t] = channel /\ t = k.cur /\ pc' = [pc EXCEPT ![t] = "held"]
        /\ UNCHANGED <<arg, held>> /\ k' = WithHolder(k, channel, t)
    BY <1>1 DEF lock_fetch_holder, OnCpu, Goto, WithHolder
  <2>2. pc'[t] = "held" /\ \A u \in Thread \ {t} : pc'[u] = pc[u]
    BY <2>1, Types DEF PC
  <2>3. Owner(t) /\ io[t] = "disk" /\ Owner(t)'
    BY <2>1, <2>2, InvFacts DEF Owner, Fits, InFetch
  <2>4. Stage(t, channel)
    BY <2>3 DEF ListsOK, ChannelInv
  <2>5. /\ k' \in KernelState /\ k'.nx = k.nx /\ k'.pv = k.pv /\ k'.status = k.status
        /\ k'.cur = k.cur /\ k'.holder = [k.holder EXCEPT ![channel] = t]
        /\ k'.repeat = k.repeat /\ k'.panic = k.panic
    BY <1>0, <2>1, SetHolder
  <2>6. k'.holder[channel] = t
    BY <1>0, <2>5 DEF KernelState
  <2>7. Stage(t, channel)'
    BY <2>1, <2>2, <2>4, <2>5, <2>6 DEF Stage
  <2> QED BY <1>0, <2>1, <2>2, <2>3, <2>5, <2>7, OwnerKeepsLists
<1>2. CASE lock_fetch_repeat(t, channel)
  <2>1. /\ pc[t] = "held" /\ arg[t] = channel /\ t = k.cur /\ pc' = [pc EXCEPT ![t] = "kernel"]
        /\ UNCHANGED <<arg, held>>
    BY <1>2 DEF lock_fetch_repeat, OnCpu, Goto
  <2>2. pc'[t] = "kernel" /\ \A u \in Thread \ {t} : pc'[u] = pc[u]
    BY <2>1, Types DEF PC
  <2>3. Owner(t) /\ io[t] = "disk" /\ Owner(t)'
    BY <1>0, <2>1, <2>2, InvFacts DEF Owner, Fits, InFetch
  <2>4. Stage(t, channel)
    BY <2>3 DEF ListsOK, ChannelInv
  <2>5. k.repeat[channel] = 0 /\ k.holder[channel] = t /\ held[t][channel] = 1
    BY <2>1, <2>4 DEF Stage
  <2>6. k' = WithRepeat(k, channel, 1)
    BY <1>2, <2>5 DEF lock_fetch_repeat, WithRepeat
  <2>7. /\ k' \in KernelState /\ k'.nx = k.nx /\ k'.pv = k.pv /\ k'.status = k.status
        /\ k'.cur = k.cur /\ k'.repeat = [k.repeat EXCEPT ![channel] = 1]
        /\ k'.holder = k.holder /\ k'.panic = k.panic
    BY <1>0, <2>6, SetRepeat
  <2>8. k'.repeat[channel] = 1
    BY <1>0, <2>7 DEF KernelState
  <2>9. Stage(t, channel)'
    BY <2>1, <2>2, <2>5, <2>7, <2>8 DEF Stage
  <2> QED BY <1>0, <2>1, <2>2, <2>3, <2>7, <2>9, OwnerKeepsLists
<1>3. CASE lock_release_repeat(t, channel)
  <2>1. /\ pc[t] = "freed" /\ arg[t] = channel /\ t = k.cur /\ pc' = [pc EXCEPT ![t] = "zeroed"]
        /\ UNCHANGED <<arg, held>> /\ k' = WithRepeat(k, channel, 0)
    BY <1>3 DEF lock_release_repeat, OnCpu, Goto, WithRepeat
  <2>2. pc'[t] = "zeroed" /\ \A u \in Thread \ {t} : pc'[u] = pc[u]
    BY <2>1, Types DEF PC
  <2>3. Owner(t) /\ io[t] = "none" /\ Owner(t)'
    BY <2>1, <2>2, InvFacts DEF Owner, Fits, InRelease
  <2>4. Stage(t, channel)
    BY <2>3 DEF ListsOK, ChannelInv
  <2>5. k.holder[channel] = NULL /\ held[t][channel] = 1
    BY <2>1, <2>4 DEF Stage
  <2>6. /\ k' \in KernelState /\ k'.nx = k.nx /\ k'.pv = k.pv /\ k'.status = k.status
        /\ k'.cur = k.cur /\ k'.repeat = [k.repeat EXCEPT ![channel] = 0]
        /\ k'.holder = k.holder /\ k'.panic = k.panic
    BY <1>0, <2>1, SetRepeat
  <2>7. k'.repeat[channel] = 0
    BY <1>0, <2>6 DEF KernelState
  <2>8. Stage(t, channel)'
    BY <2>1, <2>2, <2>5, <2>6, <2>7 DEF Stage
  <2> QED BY <1>0, <2>1, <2>2, <2>3, <2>6, <2>8, OwnerKeepsLists
<1> QED BY <1>1, <1>2, <1>3

\* The start of lock_release.
LEMMA ReleaseKeepsLists ==
  ASSUME IdeInv, ListsOK, NEW t \in Thread, ide_release(t)
  PROVE  ListsOK'
<1>1. /\ pc[t] = "kernel" /\ io[t] = "release" /\ t = k.cur /\ arg' = [arg EXCEPT ![t] = channel]
      /\ pc' = [pc EXCEPT ![t] = "freed"] /\ io' = [io EXCEPT ![t] = "none"] /\ held' = held
  BY DEF ide_release, At, OnCpu, lock_release, Goto, Step
<1>2. k \in KernelState /\ channel \in Lock
  BY CurrentRuns, DriverObjects
<1>3. /\ pc'[t] = "freed" /\ \A u \in Thread \ {t} : pc'[u] = pc[u] /\ io'[u] = io[u]
      /\ arg'[t] = channel /\ io'[t] = "none"
  BY <1>1, Types
<1>4. Owner(t) /\ Owner(t)' /\ Stage(t, channel) /\ held[t][channel] = 1
  BY <1>1, <1>3 DEF Owner, InRelease, ListsOK, ChannelInv, IdeInv, Owned
<1>5. k.repeat[channel] = 1
  BY <1>1, <1>4 DEF Stage
<1>6. k' = WithHolder(k, channel, NULL)
  BY <1>5 DEF ide_release, lock_release, WithHolder
<1>7. /\ k' \in KernelState /\ k'.nx = k.nx /\ k'.pv = k.pv /\ k'.status = k.status
      /\ k'.cur = k.cur /\ k'.holder = [k.holder EXCEPT ![channel] = NULL]
      /\ k'.repeat = k.repeat /\ k'.panic = k.panic
  BY <1>2, <1>6, SetHolder
<1>8. k'.holder[channel] = NULL
  BY <1>2, <1>7 DEF KernelState
<1>9. Stage(t, channel)'
  BY <1>1, <1>3, <1>4, <1>5, <1>7, <1>8 DEF Stage
<1> QED BY <1>1, <1>3, <1>4, <1>7, <1>9, OwnerKeepsLists

\* The threads in the queue of a semaphore are blocked.
LEMMA QueuedSleep ==
  ASSUME IdeInv, ListsOK, NEW s \in {channel, disk_done}, NEW t \in Thread, IdeCls[t] = s
  PROVE  k.status[t] = BLOCKED /\ k.status[t] \in Asleep /\ t # k.cur
BY ClassFacts, CurrentRuns, DriverObjects, KernelObjects, StatusType
   DEF IdeClass, RUNNING, BLOCKED

\* semaphore_up of lock_release.
LEMMA UpKeepsLists ==
  ASSUME IdeInv, ListsOK, NEW t \in Thread, lock_release_up(t, channel), UNCHANGED ideVars
  PROVE  ListsOK'
<1>1. /\ pc[t] = "zeroed" /\ arg[t] = channel /\ t = k.cur /\ k' = semaphore_up(k, channel)
      /\ pc' = [pc EXCEPT ![t] = "kernel"] /\ UNCHANGED <<arg, io>>
  BY DEF lock_release_up, OnCpu, Goto, ideVars
<1>2. Owner(t) /\ io[t] = "none" /\ k.value[channel] = 0 /\ t # idle_thread
  BY <1>1, InvFacts DEF Owner, Fits, InRelease
<1>3. pc'[t] = "kernel" /\ \A u \in Thread \ {t} : pc'[u] = pc[u]
  BY <1>1, Types DEF PC
<1>4. k.holder[channel] = NULL /\ k.repeat[channel] = 0
  BY <1>1, <1>2 DEF ListsOK, ChannelInv, Stage
<1>5. OthersStay
  BY <1>1, <1>2, <1>3, CurrentRuns, DriverObjects DEF OthersStay
<1>6. Signalled(k, k', IdeCls, channel)
  <2>1. InOrder(k, IdeCls)
    BY DEF ListsOK
  <2>2. ~Halted(k) /\ channel \in Sem
    BY CurrentRuns, DriverObjects
  <2>3. \A u \in Thread : IdeCls[u] = channel => k.status[u] \in Asleep
    BY QueuedSleep
  <2>4. k.value[channel] = 0 /\ k' = semaphore_up(k, channel)
    BY <1>1, <1>2
  <2> QED BY <2>1, <2>2, <2>3, <2>4, OrderUp
<1>7. InOrder(k', IdeCls') /\ IdeStatusInv'
  BY <1>5, <1>6, QueuedSleep, StayKeepsLists, ReadyKeepsLists DEF Signalled
<1>8. \A u \in Thread : ~Owner(u)'
  BY <1>1, <1>2, <1>3, InvFacts DEF Owner, InRelease
<1>9. ChannelInv'
  BY <1>4, <1>6, <1>8 DEF ChannelInv, Signalled
<1> QED BY <1>7, <1>9 DEF ListsOK

LEMMA HandlerKeepsLists ==
  ASSUME IdeInv, ListsOK, intr_hd_handler
  PROVE  ListsOK'
<1>1. irq /\ EndHalt /\ UNCHANGED <<arg, held, io>>
  BY DEF intr_hd_handler
<1>2. PICK t \in Thread : Owner(t)
  BY <1>1, InvFacts DEF NoSignal, Signal
<1>3. expecting_intr /\ k.value[disk_done] = 0
  BY <1>1, <1>2, InvFacts DEF Requested, Reads, Writes, NoSignal, Expected, Sent, Signal
<1>4. k' = semaphore_up(k, disk_done)
  BY <1>3 DEF intr_hd_handler
<1>5. PICK w \in {"block", pc[idle_thread]} : pc' = [pc EXCEPT ![idle_thread] = w]
  BY <1>1 DEF EndHalt
<1>6. /\ pc'[idle_thread] \in {"block", "hlt"} /\ pc[idle_thread] \in {"block", "hlt"}
      /\ \A u \in Thread \ {idle_thread} : pc'[u] = pc[u]
  BY <1>5, Types, DriverObjects
<1>7. OthersStay
  BY <1>1, <1>6, CurrentRuns DEF OthersStay
<1>8. Signalled(k, k', IdeCls, disk_done)
  <2>1. InOrder(k, IdeCls)
    BY DEF ListsOK
  <2>2. ~Halted(k) /\ disk_done \in Sem
    BY CurrentRuns, DriverObjects
  <2>3. \A u \in Thread : IdeCls[u] = disk_done => k.status[u] \in Asleep
    BY QueuedSleep
  <2>4. k.value[disk_done] = 0 /\ k' = semaphore_up(k, disk_done)
    BY <1>3, <1>4
  <2> QED BY <2>1, <2>2, <2>3, <2>4, OrderUp
<1>9. InOrder(k', IdeCls') /\ IdeStatusInv'
  BY <1>7, <1>8, QueuedSleep, StayKeepsLists, ReadyKeepsLists DEF Signalled
<1>10. \A u \in Thread : (Owner(u)' <=> Owner(u)) /\ (Owner(u) => u # idle_thread)
  BY <1>1, <1>6, InvFacts DEF Owner, InRelease
<1>11. ChannelInv'
  BY <1>1, <1>6, <1>8, <1>10, ChannelFrame DEF Signalled
<1> QED BY <1>9, <1>11 DEF ListsOK

-----------------------------------------------------------------------------
(* The lists stay in order.                                                *)

LEMMA ListsStart ==
  ASSUME IdeInit
  PROVE  ListsOK
<1>1. /\ Init /\ k = thread_init /\ io = [t \in Thread |-> "none"]
      /\ pc = [t \in Thread |-> CASE t = main_thread -> "kernel"
                                  [] t = idle_thread -> "block"
                                  [] OTHER -> "user"]
  BY DEF IdeInit, Init
<1>2. /\ k.cur = main_thread
      /\ k.status = [t \in Thread |-> CASE t = main_thread -> RUNNING
                       [] t \in {init_process, idle_thread} -> READY
                       [] OTHER -> NONE]
      /\ k.holder = [l \in Lock |-> NULL] /\ k.repeat = [l \in Lock |-> 0]
  BY <1>1 DEF thread_init
<1>3. \A t \in Thread : /\ t = main_thread => k.status[t] = RUNNING
                        /\ t \in {init_process, idle_thread} => k.status[t] = READY
                        /\ t \notin {main_thread, init_process, idle_thread} => k.status[t] = NONE
                        /\ io[t] = "none" /\ pc[t] \in {"kernel", "block", "user"}
  BY <1>1, <1>2, KernelObjects
<1>4. Sched(k, Cls)
  BY <1>1, InitInv DEF Inv
<1>5. \A n \in Node : IdeClass(n) = Class(n)
  BY <1>3, KernelObjects DEF IdeClass, Class, RUNNING, READY, BLOCKED, NONE
<1>6. IdeCls = Cls
  BY <1>5 DEF IdeCls, Cls
<1>7. InOrder(k, IdeCls)
  BY <1>4, <1>6, TwinSelf, OrderTwin
<1>8. IdeStatusInv
  BY <1>2, <1>3, KernelObjects DEF IdeStatusInv, Process, RUNNING, READY, BLOCKED, NONE
<1>9. \A t \in Thread : ~Owner(t)
  BY <1>3 DEF Owner, InRelease
<1>10. ChannelInv
  BY <1>2, <1>9, DriverObjects DEF ChannelInv
<1> QED BY <1>7, <1>8, <1>10 DEF ListsOK

LEMMA DriverKeepsLists ==
  ASSUME IdeInv, ListsOK, NEW t \in Client, Driver(t)
  PROVE  ListsOK' \/ Failed
<1>0. t \in Thread
  BY DEF Client
<1>1. CASE \/ select_disk(t) \/ select_sector(t) \/ cmd_out_expect(t) \/ cmd_out(t)
           \/ read_from_sector(t) \/ write_to_sector(t)
  BY <1>0, <1>1, SelectKeepsLists
<1>2. CASE semaphore_down_done(t) \/ tick_to_sleep(t)
  BY <1>2, DoneKeepsLists, SleepKeepsLists
<1>3. CASE busy_wait(t)
  BY <1>0, <1>3, PollKeepsLists
<1>4. CASE ide_release(t)
  BY <1>0, <1>4, ReleaseKeepsLists
<1>5. CASE ide_next_sector(t)
  BY <1>0, <1>5, FetchKeepsLists DEF ide_next_sector
<1>6. CASE Continue(t, channel) /\ UNCHANGED ideVars
  <2>1. CASE lock_fetch_down(t, channel)
    BY <1>6, <2>1, DownKeepsLists
  <2>2. CASE lock_release_up(t, channel)
    BY <1>0, <1>6, <2>2, UpKeepsLists
  <2>3. CASE \/ lock_fetch_holder(t, channel) \/ lock_fetch_repeat(t, channel)
             \/ lock_release_repeat(t, channel)
    BY <1>0, <1>6, <2>3, LockKeepsLists
  <2> QED BY <1>6, <2>1, <2>2, <2>3 DEF Continue
<1> QED BY <1>1, <1>2, <1>3, <1>4, <1>5, <1>6 DEF Driver

LEMMA OutsideKeepsLists ==
  ASSUME IdeInv, ListsOK, NEW t \in Thread, Outside(t)
  PROVE  ListsOK'
<1>1. CASE UNCHANGED ideVars /\ (enter_syscall(t) \/ (io[t] = "none" /\ leave_syscall(t)))
  BY <1>1, SyscallKeepsLists
<1>2. CASE UNCHANGED ideVars /\ \E child \in Process : spawn(t, child)
  BY <1>2, SpawnKeepsLists DEF Process
<1>3. CASE \E o \in {"read", "write"}, n \in 1 .. SectorCount : ide_call(t, o, n)
  BY <1>3, FetchKeepsLists DEF ide_call
<1> QED BY <1>1, <1>2, <1>3 DEF Outside

LEMMA StepKeepsLists ==
  ASSUME IdeInv, ListsOK, [IdeNext]_allVars
  PROVE  ListsOK' \/ Failed
<1>1. CASE UNCHANGED allVars
  BY <1>1, StutterKeepsLists DEF allVars, vars, ideVars
<1>2. ASSUME NEW t \in Client, Driver(t) \/ Outside(t)
      PROVE  ListsOK' \/ Failed
  BY <1>2, DriverKeepsLists, OutsideKeepsLists DEF Client
<1>3. CASE ide_timer \/ (idle /\ UNCHANGED ideVars)
  BY <1>3, TimerKeepsLists, IdleKeepsLists
<1>4. CASE intr_hd_handler
  BY <1>4, HandlerKeepsLists
<1>5. CASE drive_answers \/ drive_stored
  BY <1>5, DriveKeepsLists
<1> QED BY <1>1, <1>2, <1>3, <1>4, <1>5 DEF IdeNext

LEMMA ListsStay == IdeListSafe /\ [IdeNext]_allVars => IdeListSafe'
<1> SUFFICES ASSUME IdeListSafe, [IdeNext]_allVars PROVE IdeListSafe'
  OBVIOUS
<1>1. IdeSafe'
  BY IdeSteps DEF IdeListSafe
<1>2. CASE Halted(k)
  <2>1. UNCHANGED <<k, pc, arg, held, io>>
    BY <1>2, HaltedStays DEF allVars, vars, ideVars
  <2>2. IdeCls' = IdeCls /\ (IdeStatusInv' <=> IdeStatusInv) /\ (ChannelInv' <=> ChannelInv)
    BY <2>1 DEF IdeCls, IdeClass, IdeStatusInv, ChannelInv, Owner, Stage
  <2>3. ListInv'
    BY <2>1, <2>2 DEF IdeListSafe, ListInv
  <2>4. PlacesFit'
    BY <2>1 DEF IdeListSafe, PlacesFit, Fits
  <2> QED BY <1>1, <2>3, <2>4 DEF IdeListSafe
<1>3. CASE ~Halted(k)
  <2>1. IdeInv /\ ListsOK
    BY <1>3, RunningLists DEF IdeListSafe, IdeSafe
  <2>2. CASE ListsOK'
    <3>1. k' \in KernelState /\ ~Halted(k')
      BY <2>2, OrderFacts DEF ListsOK
    <3>2. IdeInv'
      BY <1>1, <3>1 DEF IdeSafe
    <3>3. ListInv'
      <4>1. k'.panic = "none"
        BY <3>1 DEF Halted
      <4>2. [k' EXCEPT !.panic = "none"] = k'
        BY <3>1, <4>1 DEF KernelState
      <4> QED BY <2>2, <3>1, <4>1, <4>2 DEF ListInv, ListsOK
    <3> QED BY <1>1, <3>2, <3>3 DEF IdeListSafe, IdeInv
  <2>3. CASE Failed
    <3>1. k \in KernelState /\ k.panic = "none"
      BY <1>3 DEF IdeListSafe, ListInv, Halted
    <3>2. k' = [k EXCEPT !.panic = "ide_write_sector"]
      BY <2>3 DEF Failed, PANIC
    <3>3. /\ k' \in KernelState /\ k'.panic = "ide_write_sector" /\ k'.status = k.status
          /\ k'.cur = k.cur /\ k'.holder = k.holder /\ k'.repeat = k.repeat
      BY <3>1, <3>2 DEF KernelState, Panics
    <3>4. [k' EXCEPT !.panic = "none"] = k
      BY <3>1, <3>2 DEF KernelState
    <3>5. UNCHANGED <<pc, arg, held, io>>
      BY <2>3 DEF Failed
    <3>6. IdeCls' = IdeCls /\ (IdeStatusInv' <=> IdeStatusInv) /\ (ChannelInv' <=> ChannelInv)
      BY <3>3, <3>5 DEF IdeCls, IdeClass, IdeStatusInv, ChannelInv, Owner, Stage
    <3>7. ListInv'
      BY <2>1, <3>3, <3>4, <3>6 DEF ListInv, ListsOK
    <3>8. PlacesFit'
      BY <3>5 DEF IdeListSafe, PlacesFit, Fits
    <3> QED BY <1>1, <3>7, <3>8 DEF IdeListSafe
  <2> QED BY <2>1, <2>2, <2>3, StepKeepsLists
<1> QED BY <1>2, <1>3

\* Every step of the threads, the timer and the handler leaves the kernel's lists in order,
\* the ready list with the stale links back of a thread that thread_yield queued twice.
THEOREM IdeListInvariance == IdeSpec => []IdeListSafe
<1>1. IdeInit => IdeListSafe
  <2> SUFFICES ASSUME IdeInit PROVE IdeListSafe
    OBVIOUS
  <2>1. IdeInv /\ ListsOK
    BY IdeStarts, ListsStart
  <2>2. ~Halted(k)
    BY <2>1, OrderFacts DEF ListsOK
  <2> QED BY <2>1, <2>2, RunningLists DEF IdeListSafe, IdeSafe, IdeInv
<1> QED BY <1>1, ListsStay, PTL DEF IdeSpec

-----------------------------------------------------------------------------
(* What a loop over a list visits.                                         *)

LEMMA StepsAreNumbers ==
  /\ Cardinality(Node) \in Nat /\ Steps \subseteq Nat
  /\ \A i \in Steps \ {0} : i - 1 \in Steps
<1>1. Cardinality(Node) \in Nat
  BY IdeObjects, FS_CardinalityType
<1> QED BY <1>1 DEF Steps

\* f is the walk of n hops that starts with x.
Walk(f, nx, x, n) ==
  f = [i \in 0 .. n |-> IF i = 0 THEN x ELSE IF f[i - 1] = NULL THEN NULL ELSE nx[f[i - 1]]]

\* There is a walk of every length.
LEMMA WalkExists ==
  ASSUME NEW nx, NEW x, NEW n \in Nat
  PROVE  \E f : Walk(f, nx, x, n)
<1> DEFINE after(v) == IF v = NULL THEN NULL ELSE nx[v]
           T == {m \in Nat : ~\E f : Walk(f, nx, x, m)}
<1>0. /\ T \subseteq Nat /\ \A m \in Nat \ T : \E f : Walk(f, nx, x, m)
      /\ \A m \in T : ~\E f : Walk(f, nx, x, m)
  OBVIOUS
<1> HIDE DEF T
<1> SUFFICES ASSUME T # {} PROVE FALSE
  BY <1>0
<1>1. PICK m \in T : \A l \in T : m <= l
  BY <1>0, LeastElement
<1>2. /\ m \in Nat
      /\ \A f : Walk(f, nx, x, m)
                <=> f = [i \in 0 .. m |-> IF i = 0 THEN x ELSE after(f[i - 1])]
  BY <1>0, <1>1 DEF Walk
<1>3. CASE m = 0
  <2>1. [i \in 0 .. 0 |-> x]
          = [i \in 0 .. m |-> IF i = 0 THEN x ELSE after([j \in 0 .. 0 |-> x][i - 1])]
    BY <1>3
  <2> QED BY <1>0, <1>1, <1>2, <2>1
<1>4. CASE m # 0
  <2>1. m - 1 \in Nat /\ m - 1 \notin T
    BY <1>1, <1>2, <1>4
  <2>2. PICK f : Walk(f, nx, x, m - 1)
    BY <1>0, <2>1
  <2>3. \A i \in 0 .. m - 1 : f[i] = IF i = 0 THEN x ELSE after(f[i - 1])
    BY <2>2 DEF Walk
  <2> HIDE DEF after
  <2> DEFINE g == [i \in 0 .. m |-> IF i = m THEN after(f[m - 1]) ELSE f[i]]
  <2>4. ASSUME NEW i \in 0 .. m PROVE g[i] = IF i = 0 THEN x ELSE after(g[i - 1])
    <3>1. CASE i = m
      <4>1. g[i] = after(f[m - 1]) /\ g[m - 1] = f[m - 1]
        BY <1>2, <1>4, <2>1, <3>1
      <4> QED BY <1>4, <3>1, <4>1
    <3>2. CASE i # m
      <4>1. i \in 0 .. m - 1 /\ g[i] = f[i] /\ (i # 0 => g[i - 1] = f[i - 1])
        BY <1>2, <2>1, <3>2
      <4> QED BY <2>3, <4>1
    <3> QED BY <3>1, <3>2
  <2>5. g = [i \in 0 .. m |-> g[i]]
    OBVIOUS
  <2> HIDE DEF g
  <2>6. g = [i \in 0 .. m |-> IF i = 0 THEN x ELSE after(g[i - 1])]
    BY <2>4, <2>5
  <2> QED BY <1>0, <1>1, <1>2, <2>6
<1> QED BY <1>3, <1>4

LEMMA ChainSteps ==
  ASSUME NEW h, NEW list
  PROVE  /\ Chain(h, list)[0] = h.nx[list]
         /\ \A i \in Steps \ {0} :
              Chain(h, list)[i] = IF Chain(h, list)[i - 1] = NULL THEN NULL
                                  ELSE h.nx[Chain(h, list)[i - 1]]
<1> DEFINE at == CHOOSE f : f = [i \in Steps |-> IF i = 0 THEN h.nx[list]
                                   ELSE IF f[i - 1] = NULL THEN NULL ELSE h.nx[f[i - 1]]]
           n == Cardinality(Node)
           walk == CHOOSE f : Walk(f, h.nx, h.nx[list], n)
<1>1. Chain(h, list) = at
  BY DEF Chain
<1>2. at = walk
  BY DEF Walk, Steps
<1>3. Walk(walk, h.nx, h.nx[list], n)
  <2> HIDE DEF n
  <2>1. n \in Nat
    BY StepsAreNumbers DEF n
  <2> QED BY <2>1, WalkExists
<1> HIDE DEF at, walk
<1>4. at = [i \in Steps |-> IF i = 0 THEN h.nx[list]
                            ELSE IF at[i - 1] = NULL THEN NULL ELSE h.nx[at[i - 1]]]
  BY <1>2, <1>3 DEF Walk, Steps
<1> QED BY <1>1, <1>4, StepsAreNumbers DEF Steps

\* The loop stays on its list, and the links back lead the way it came.
OnList(h, pv, cls, list, c) ==
  /\ c[0] = h.nx[list] /\ cls[list] = list
  /\ \A i \in Steps : c[i] \in Node /\ cls[c[i]] = list
  /\ \A i \in Steps : pv[c[i]] = IF i = 0 THEN list ELSE c[i - 1]
  /\ \A i \in Steps \ {0} : c[i] = h.nx[c[i - 1]]

LEMMA ChainOnList ==
  ASSUME NEW h, NEW pv \in Pointers, NEW cls, h.nx \in Pointers, Linked(h.nx, pv, cls),
         NEW list \in Node \ Thread, NEW c, c = Chain(h, list)
  PROVE  OnList(h, pv, cls, list, c)
<1>1. c[0] = h.nx[list]
      /\ \A i \in Steps \ {0} : c[i] = IF c[i - 1] = NULL THEN NULL ELSE h.nx[c[i - 1]]
  BY ChainSteps
<1>2. h.nx[list] \in Node /\ cls[list] = list
  BY DEF Linked
<1> DEFINE Fine(i) == /\ c[i] \in Node /\ cls[c[i]] = list
                      /\ pv[c[i]] = IF i = 0 THEN list ELSE c[i - 1]
                      /\ pv[c[i]] \in Node
           T == {i \in Steps : ~Fine(i)}
<1>3. T = {}
  <2> SUFFICES ASSUME T # {} PROVE FALSE
    OBVIOUS
  <2>1. PICK i \in T : \A j \in T : i <= j
    BY StepsAreNumbers, LeastElement
  <2>2. CASE i = 0
    <3>1. pv[c[0]] = list /\ cls[c[0]] = list /\ c[0] \in Node
      BY <1>1, <1>2 DEF Linked
    <3> QED BY <2>1, <2>2, <3>1
  <2>3. CASE i # 0
    <3>1. i - 1 \in Steps /\ i \in Nat /\ i - 1 \notin T
      BY <2>1, <2>3, StepsAreNumbers
    <3>2. PICK n : n = c[i - 1]
      OBVIOUS
    <3>3. n \in Node /\ cls[n] = list /\ pv[n] \in Node
      BY <3>1, <3>2
    <3>4. h.nx[n] \in Node /\ c[i] = h.nx[n]
      BY <1>1, <2>1, <2>3, <3>2, <3>3, NullIsNoNode DEF Linked, Pointers
    <3>5. pv[c[i]] = n /\ cls[c[i]] = list
      BY <3>3, <3>4 DEF Linked
    <3> QED BY <2>1, <2>3, <3>2, <3>3, <3>4, <3>5
  <2> QED BY <2>2, <2>3
<1>4. \A i \in Steps \ {0} : c[i] = h.nx[c[i - 1]]
  BY <1>1, <1>3, StepsAreNumbers, NullIsNoNode
<1> QED BY <1>1, <1>2, <1>3, <1>4 DEF OnList

\* There are more steps than nodes, and the first node that the loop meets twice is the
\* head: the links back are unique.
LEMMA ChainReturns ==
  ASSUME NEW h, NEW pv \in Pointers, NEW cls, h.nx \in Pointers, Linked(h.nx, pv, cls),
         NEW list \in Node \ Thread
  PROVE  Ends(Chain(h, list), {list})
<1>1. PICK c : c = Chain(h, list)
  OBVIOUS
<1>2. /\ \A i \in Steps : c[i] \in Node
      /\ \A i \in Steps : pv[c[i]] = IF i = 0 THEN list ELSE c[i - 1]
  <2>1. OnList(h, pv, cls, list, c)
    BY <1>1, ChainOnList
  <2> QED BY <2>1 DEF OnList
<1> DEFINE size == Cardinality(Node)
           Twice == {i \in Steps : \E j \in Steps : i < j /\ c[i] = c[j]}
<1>3. size \in Nat /\ Steps = 0 .. size
  BY StepsAreNumbers DEF Steps
<1> HIDE DEF size
<1>4. PICK m, n \in Steps : m # n /\ c[m] = c[n]
  <2> DEFINE f == [i \in Steps |-> c[i]]
  <2>1. f \in [Steps -> Node] /\ \A i \in Steps : f[i] = c[i]
    BY <1>2
  <2>2. IsFiniteSet(Steps) /\ Cardinality(Steps) = size + 1
    BY <1>3, FS_Interval
  <2>3. IsFiniteSet(Node) /\ Cardinality(Node) < Cardinality(Steps)
    BY <1>3, <2>2, IdeObjects DEF size
  <2> HIDE DEF f
  <2> QED BY <2>1, <2>2, <2>3, FS_PigeonHole
<1>5. Twice # {} /\ Twice \in SUBSET Nat
  BY <1>3, <1>4
<1>6. PICK i \in Twice : \A j \in Twice : i <= j
  BY <1>5, LeastElement
<1>7. PICK j \in Steps : i < j /\ c[i] = c[j]
  BY <1>6
<1>8. i \in Steps /\ j \in Steps /\ j # 0 /\ j - 1 \in Steps
  BY <1>3, <1>6, <1>7
<1>9. pv[c[i]] = c[j - 1]
  BY <1>2, <1>7, <1>8
<1>10. CASE i = 0
  <2>1. c[j - 1] = list
    BY <1>2, <1>8, <1>9, <1>10
  <2> QED BY <1>1, <1>8, <2>1 DEF Ends
<1>11. CASE i # 0
  <2>1. c[i - 1] = c[j - 1] /\ i - 1 \in Steps /\ i - 1 < j - 1
    BY <1>2, <1>3, <1>7, <1>8, <1>9, <1>11
  <2>2. i - 1 \in Twice
    BY <1>8, <2>1
  <2>3. i <= i - 1 /\ i \in Nat
    BY <1>3, <1>6, <1>8, <2>2
  <2> QED BY <2>3
<1> QED BY <1>10, <1>11

\* Where the loop stops.
LEMMA StopFacts ==
  ASSUME NEW c, NEW stop, Ends(c, stop), NEW n, n = StopIndex(c, stop)
  PROVE  n \in Steps /\ c[n] \in stop /\ \A j \in 0 .. n - 1 : c[j] \notin stop
<1> DEFINE T == {i \in Steps : c[i] \in stop}
<1>1. T # {} /\ T \in SUBSET Nat
  BY StepsAreNumbers DEF Ends
<1>2. PICK i \in T : \A j \in T : i <= j
  BY <1>1, LeastElement
<1>3. \A j \in 0 .. i - 1 : j \in Steps /\ j < i
  BY <1>2, StepsAreNumbers DEF Steps
<1>4. \A j \in 0 .. i - 1 : c[j] \notin stop
  <2> SUFFICES ASSUME NEW j \in 0 .. i - 1, c[j] \in stop PROVE FALSE
    OBVIOUS
  <2>1. j \in T /\ j < i /\ i \in Nat /\ j \in Nat
    BY <1>1, <1>2, <1>3
  <2>2. i <= j
    BY <1>2, <2>1
  <2> QED BY <2>1, <2>2
<1>5. i \in Steps /\ c[i] \in stop
  BY <1>2
<1> HIDE DEF T
<1> QED BY <1>4, <1>5 DEF StopIndex

\* A loop over a list visits the threads of its class.
LEMMA MembersAre ==
  ASSUME NEW h, NEW pv \in Pointers, NEW cls, h.nx \in Pointers, Linked(h.nx, pv, cls),
         NEW list \in Node \ Thread
  PROVE  Members(h, list) = {t \in Thread : cls[t] = list}
<1>1. PICK c, n : c = Chain(h, list) /\ n = StopIndex(c, {list})
  OBVIOUS
<1>2. n \in Steps /\ c[n] = list /\ \A j \in 0 .. n - 1 : c[j] # list
  <2>1. Ends(c, {list})
    BY <1>1, ChainReturns
  <2>2. n \in Steps /\ c[n] \in {list} /\ \A j \in 0 .. n - 1 : c[j] \notin {list}
    BY <1>1, <2>1, StopFacts
  <2> QED BY <2>2
<1>3. /\ c[0] = h.nx[list] /\ \A i \in Steps : c[i] \in Node /\ cls[c[i]] = list
      /\ \A i \in Steps \ {0} : c[i] = h.nx[c[i - 1]]
  <2>1. OnList(h, pv, cls, list, c)
    BY <1>1, ChainOnList
  <2> QED BY <2>1 DEF OnList
<1>4. n \in Nat /\ \A j \in 0 .. n : j \in Steps
  BY <1>2, StepsAreNumbers DEF Steps
<1> DEFINE M == {c[j] : j \in 0 .. n - 1}
<1>5. Members(h, list) = M
  <2>1. Elements(h, list) = [i \in 1 .. n |-> c[i - 1]]
    BY <1>1 DEF Elements
  <2>2. Members(h, list) = {c[i - 1] : i \in 1 .. n}
    BY <2>1 DEF Members
  <2>3. \A j \in 0 .. n - 1 : j + 1 \in 1 .. n /\ (j + 1) - 1 = j
    BY <1>4
  <2>4. \A i \in 1 .. n : i - 1 \in 0 .. n - 1
    BY <1>4
  <2> QED BY <2>2, <2>3, <2>4
<1>6. ASSUME NEW j \in 0 .. n - 1 PROVE c[j] \in Thread /\ cls[c[j]] = list
  <2>1. c[j] \in Node /\ cls[c[j]] = list /\ c[j] # list
    BY <1>2, <1>3, <1>4
  <2> QED BY <2>1 DEF Linked
<1>7. ASSUME NEW t \in Thread, cls[t] = list PROVE t \in M
  <2> DEFINE S == M \cup {list}
  <2>1. h.nx[list] \in S
    BY <1>2, <1>3, <1>4
  <2>2. ASSUME NEW j \in 0 .. n - 1 PROVE h.nx[c[j]] \in S
    <3>1. j + 1 \in Steps \ {0} /\ (j + 1) - 1 = j /\ (j + 1 = n \/ j + 1 \in 0 .. n - 1)
      BY <1>4
    <3>2. h.nx[c[j]] = c[j + 1]
      BY <1>3, <3>1
    <3> QED BY <1>2, <3>1, <3>2
  <2>3. Closed(h.nx, S)
    BY <2>1, <2>2 DEF Closed
  <2>4. S \in SUBSET Node /\ list \in S
    BY <1>6, KernelObjects
  <2>5. Reached(h.nx, list, t)
    BY <1>7, KernelObjects DEF Linked
  <2>6. t \in S
    BY <2>3, <2>4, <2>5 DEF Reached
  <2> QED BY <2>6
<1> QED BY <1>5, <1>6, <1>7

\* What a loop finds on a list in order.
LEMMA OrderMembers ==
  ASSUME NEW h, NEW cls, InOrder(h, cls), NEW list \in Node \ Thread
  PROVE  /\ Ends(Chain(h, list), {list})
         /\ Members(h, list) = {t \in Thread : cls[t] = list}
<1>1. PICK r : Twin(h, r, cls)
  BY OrderTwin
<1>2. h.nx \in Pointers /\ r.pv \in Pointers /\ Linked(h.nx, r.pv, cls)
  BY <1>1, TwinFacts
<1> QED BY <1>2, ChainReturns, MembersAre

LEMMA ListsAreExact == IdeListSafe => QueuesExact
<1> SUFFICES ASSUME IdeListSafe PROVE QueuesExact
  OBVIOUS
<1>1. PICK h : h = [k EXCEPT !.panic = "none"]
  OBVIOUS
<1>2. InOrder(h, IdeCls) /\ k \in KernelState /\ IdeStatusInv /\ PlacesFit
  BY <1>1 DEF IdeListSafe, ListInv
<1>3. h.nx = k.nx
  BY <1>1, <1>2 DEF KernelState
<1>4. \A list \in Node : Chain(k, list) = Chain(h, list) /\ Members(k, list) = Members(h, list)
  BY <1>3 DEF Members, Elements, Chain
<1>5. /\ thread_ready_list \in Node \ Thread /\ channel \in Node \ Thread
      /\ disk_done \in Node \ Thread
      /\ thread_ready_list # channel /\ thread_ready_list # disk_done /\ channel # disk_done
  BY DriverObjects, KernelObjects
<1>6. ASSUME NEW list \in {thread_ready_list, channel, disk_done}
      PROVE  /\ Ends(Chain(k, list), {list})
             /\ Members(k, list) = {t \in Thread : IdeCls[t] = list}
  <2>1. list \in Node \ Thread
    BY <1>5
  <2>2. Ends(Chain(h, list), {list}) /\ Members(h, list) = {t \in Thread : IdeCls[t] = list}
    BY <1>2, <2>1, OrderMembers
  <2> QED BY <1>4, <2>1, <2>2
<1>7. \A t \in Thread : io[t] = "queued" => pc[t] # "queued"
  BY <1>2 DEF PlacesFit, Fits, InFetch
<1>8. \A t \in Thread :
        /\ IdeCls[t] = thread_ready_list <=> k.status[t] = READY
        /\ IdeCls[t] = disk_done <=> k.status[t] = BLOCKED /\ io[t] = "queued"
        /\ IdeCls[t] = channel <=> k.status[t] = BLOCKED /\ pc[t] = "queued"
  BY <1>5, <1>7, ClassFacts DEF IdeClass, READY, BLOCKED
<1> QED BY <1>5, <1>6, <1>8 DEF QueuesExact

\* The walk of list_for_each over the ready list, the waiters of the channel's lock and
\* those of disk_done ends, and finds exactly the threads that their status says are
\* there, although thread_yield leaves stale links back.
THEOREM QueuesExactTheorem == IdeSpec => []QueuesExact
BY IdeListInvariance, ListsAreExact, PTL
=============================================================================
