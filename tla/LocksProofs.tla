---------------------------- MODULE LocksProofs ----------------------------
(***************************************************************************)
(* First lemmas about the list operations and the scheduler, for every set *)
(* of threads and semaphores: the list invariant Linked survives insertion *)
(* and removal, no search for a tag finds it on a list it is not on, and   *)
(* schedule() moves exactly the threads it should.                         *)
(*                                                                         *)
(* Then Inv, an inductive invariant of Locks, for every set of threads and *)
(* locks.  It gives that no assertion of the scheduler, the semaphores and *)
(* the locks ever fails, mutual exclusion, and that no wake-up is lost.    *)
(***************************************************************************)
EXTENDS Locks, TLAPS

\* Nothing points at a tag that is on no list, except that tag.
LEMMA Unlinked ==
  ASSUME NEW nx \in Pointers, NEW pv \in Pointers, NEW cls \in Classes,
         Linked(nx, pv, cls), NEW t \in Thread, cls[t] = t
  PROVE  /\ nx[t] \in {t, NULL} /\ pv[t] \in {t, NULL}
         /\ \A m \in Node \ {t} : nx[m] # t /\ pv[m] # t
BY NullIsNoNode, KernelObjects DEF Linked, Pointers, Classes

\* The first element of a list that is not empty is a thread of that list.
LEMMA FirstElement ==
  ASSUME NEW nx \in Pointers, NEW pv \in Pointers, NEW cls \in Classes,
         Linked(nx, pv, cls), NEW head \in Node \ Thread, nx[head] # head
  PROVE  /\ nx[head] \in Thread /\ cls[nx[head]] = head
         /\ nx[nx[head]] \in Node /\ pv[nx[head]] = head
         /\ nx[nx[head]] # nx[head]
BY NullIsNoNode, KernelObjects DEF Linked, Pointers, Classes

\* The list is empty only if no thread is on it.
LEMMA EmptyList ==
  ASSUME NEW nx \in Pointers, NEW pv \in Pointers, NEW cls \in Classes,
         Linked(nx, pv, cls), NEW head \in Node \ Thread, nx[head] = head
  PROVE  \A t \in Thread : cls[t] # head
<1> SUFFICES ASSUME NEW t \in Thread, cls[t] = head PROVE FALSE
  OBVIOUS
<1>1. Closed(nx, {head})
  BY DEF Closed
<1>2. t \in {head}
  BY <1>1, KernelObjects DEF Linked, Reached
<1> QED BY <1>2

\* list_find_element does not find a tag that is on another list or on none.
LEMMA NotFound ==
  ASSUME NEW h, h.nx \in Pointers, h.pv \in Pointers, NEW cls \in Classes,
         Linked(h.nx, h.pv, cls), NEW head \in Node \ Thread,
         NEW t \in Thread, cls[t] # head
  PROVE  ~list_find_element(h, t, head)
<1> DEFINE S == {n \in Node : cls[n] = head}
<1>1. h.nx[head] \in S
  BY DEF Linked, Classes
<1>2. \A m \in S : h.nx[m] \in S \cup {NULL}
  BY DEF Linked, Classes, Pointers
<1>3. t \notin S
  OBVIOUS
<1>4. S \in SUBSET Node
  OBVIOUS
<1> HIDE DEF S
<1> QED BY <1>1, <1>2, <1>3, <1>4 DEF list_find_element

\* list_add_tail of an unlinked tag keeps the list invariant; the tag joins
\* the class of the head.
LEMMA InsertTail ==
  ASSUME NEW nx \in Pointers, NEW pv \in Pointers, NEW cls \in Classes,
         Linked(nx, pv, cls), NEW head \in Node \ Thread,
         NEW t \in Thread, cls[t] = t
  PROVE  Linked([nx EXCEPT ![pv[head]] = t, ![t] = head],
                [pv EXCEPT ![t] = pv[head], ![head] = t],
                [cls EXCEPT ![t] = head])
<1> DEFINE nx2 == [nx EXCEPT ![pv[head]] = t, ![t] = head]
           pv2 == [pv EXCEPT ![t] = pv[head], ![head] = t]
           cls2 == [cls EXCEPT ![t] = head]
<1>0. /\ pv[head] \in Node /\ pv[head] # t /\ nx[pv[head]] = head
      /\ cls[pv[head]] = head /\ t # head /\ t \in Node
  BY Unlinked, NullIsNoNode, KernelObjects DEF Linked, Pointers, Classes
<1>1. \A n \in Node : nx2[n] \in Node => pv2[nx2[n]] = n /\ cls2[nx2[n]] = cls2[n]
  BY <1>0, Unlinked, NullIsNoNode, KernelObjects DEF Linked, Pointers, Classes
<1>2. \A n \in Node : pv2[n] \in Node => nx2[pv2[n]] = n
  BY <1>0, Unlinked, NullIsNoNode, KernelObjects DEF Linked, Pointers, Classes
<1>3. \A n \in Node : nx2[n] = NULL <=> pv2[n] = NULL
  BY <1>0, NullIsNoNode, KernelObjects DEF Linked, Pointers, Classes
<1>4. \A n \in Node \ Thread : cls2[n] = n /\ nx2[n] \in Node
  BY <1>0, NullIsNoNode, KernelObjects DEF Linked, Pointers, Classes
<1>5. \A n \in Node : cls2[n] # n => cls2[n] \in Node \ Thread
  BY <1>0 DEF Linked, Classes
<1>6. ASSUME NEW n \in Node PROVE Reached(nx2, cls2[n], n)
  <2> SUFFICES ASSUME NEW S \in SUBSET Node, cls2[n] \in S, Closed(nx2, S)
               PROVE  n \in S
    BY DEF Reached
  <2>1. Closed(nx, S \ {t})
    <3> SUFFICES ASSUME NEW m \in S, m # t PROVE nx[m] \in (S \ {t}) \cup {NULL}
      BY DEF Closed
    <3>1. nx[m] # t
      BY Unlinked
    <3>2. CASE m = pv[head]
      <4>1. nx2[m] = t /\ nx2[t] = head
        BY <3>2, <1>0 DEF Pointers
      <4>2. t \in S
        BY <4>1, <1>0, NullIsNoNode DEF Closed
      <4> QED BY <4>1, <4>2, <3>2, <1>0, NullIsNoNode DEF Closed
    <3>3. CASE m # pv[head]
      BY <3>1, <3>3, <1>0 DEF Closed, Pointers
    <3> QED BY <3>2, <3>3
  <2>2. CASE n # t
    BY <2>1, <2>2, <1>0, KernelObjects DEF Linked, Reached, Classes
  <2>3. CASE n = t
    <3>1. head \in S \ {t}
      BY <2>3, <1>0 DEF Classes
    <3>2. pv[head] \in S
      BY <2>1, <3>1, <1>0 DEF Linked, Reached
    <3>3. nx2[pv[head]] = t
      BY <1>0 DEF Pointers
    <3> QED BY <3>2, <3>3, <2>3, NullIsNoNode, <1>0 DEF Closed
  <2> QED BY <2>2, <2>3
<1> QED BY <1>1, <1>2, <1>3, <1>4, <1>5, <1>6 DEF Linked

\* list_add of an unlinked tag keeps the list invariant likewise.
LEMMA InsertHead ==
  ASSUME NEW nx \in Pointers, NEW pv \in Pointers, NEW cls \in Classes,
         Linked(nx, pv, cls), NEW head \in Node \ Thread,
         NEW t \in Thread, cls[t] = t
  PROVE  Linked([nx EXCEPT ![t] = nx[head], ![head] = t],
                [pv EXCEPT ![nx[head]] = t, ![t] = head],
                [cls EXCEPT ![t] = head])
<1> DEFINE nx2 == [nx EXCEPT ![t] = nx[head], ![head] = t]
           pv2 == [pv EXCEPT ![nx[head]] = t, ![t] = head]
           cls2 == [cls EXCEPT ![t] = head]
<1>0. /\ nx[head] \in Node /\ nx[head] # t /\ pv[nx[head]] = head
      /\ cls[nx[head]] = head /\ t # head /\ t \in Node
  BY Unlinked, NullIsNoNode, KernelObjects DEF Linked, Pointers, Classes
<1>1. \A n \in Node : nx2[n] \in Node => pv2[nx2[n]] = n /\ cls2[nx2[n]] = cls2[n]
  BY <1>0, Unlinked, NullIsNoNode, KernelObjects DEF Linked, Pointers, Classes
<1>2. \A n \in Node : pv2[n] \in Node => nx2[pv2[n]] = n
  BY <1>0, Unlinked, NullIsNoNode, KernelObjects DEF Linked, Pointers, Classes
<1>3. \A n \in Node : nx2[n] = NULL <=> pv2[n] = NULL
  BY <1>0, NullIsNoNode, KernelObjects DEF Linked, Pointers, Classes
<1>4. \A n \in Node \ Thread : cls2[n] = n /\ nx2[n] \in Node
  BY <1>0, NullIsNoNode, KernelObjects DEF Linked, Pointers, Classes
<1>5. \A n \in Node : cls2[n] # n => cls2[n] \in Node \ Thread
  BY <1>0 DEF Linked, Classes
<1>6. ASSUME NEW n \in Node PROVE Reached(nx2, cls2[n], n)
  <2> SUFFICES ASSUME NEW S \in SUBSET Node, cls2[n] \in S, Closed(nx2, S)
               PROVE  n \in S
    BY DEF Reached
  <2>1. CASE head \in S
    <3>1. t \in S /\ nx[head] \in S
      BY <2>1, <1>0, NullIsNoNode DEF Closed, Pointers
    <3>2. Closed(nx, S \ {t})
      BY <3>1, <1>0, Unlinked, KernelObjects DEF Closed, Pointers
    <3> QED BY <3>1, <3>2, <2>1, <1>0, KernelObjects DEF Linked, Reached, Classes
  <2>2. CASE head \notin S
    <3>1. n # t
      BY <2>2 DEF Classes
    <3>2. Closed(nx, S \ {t})
      BY <2>2, <1>0, Unlinked, KernelObjects DEF Closed, Pointers
    <3> QED BY <3>1, <3>2, <1>0, KernelObjects DEF Linked, Reached, Classes
  <2> QED BY <2>1, <2>2
<1> QED BY <1>1, <1>2, <1>3, <1>4, <1>5, <1>6 DEF Linked

\* list_pop keeps the list invariant; the popped tag is alone in its class.
LEMMA UnlinkFirst ==
  ASSUME NEW nx \in Pointers, NEW pv \in Pointers, NEW cls \in Classes,
         Linked(nx, pv, cls), NEW head \in Node \ Thread, nx[head] # head,
         NEW t, t = nx[head]
  PROVE  Linked([nx EXCEPT ![head] = nx[t], ![t] = t],
                [pv EXCEPT ![nx[t]] = head, ![t] = t],
                [cls EXCEPT ![t] = t])
<1> DEFINE nx2 == [nx EXCEPT ![head] = nx[t], ![t] = t]
           pv2 == [pv EXCEPT ![nx[t]] = head, ![t] = t]
           cls2 == [cls EXCEPT ![t] = t]
<1>0. /\ t \in Thread /\ t \in Node /\ t # head /\ cls[t] = head
      /\ nx[t] \in Node /\ nx[t] # t /\ pv[t] = head /\ pv[nx[t]] = t
      /\ cls[nx[t]] = head
  BY FirstElement, NullIsNoNode, KernelObjects DEF Linked, Pointers, Classes
<1>1. \A n \in Node : nx2[n] \in Node => pv2[nx2[n]] = n /\ cls2[nx2[n]] = cls2[n]
  BY <1>0, NullIsNoNode, KernelObjects DEF Linked, Pointers, Classes
<1>2. \A n \in Node : pv2[n] \in Node => nx2[pv2[n]] = n
  BY <1>0, NullIsNoNode, KernelObjects DEF Linked, Pointers, Classes
<1>3. \A n \in Node : nx2[n] = NULL <=> pv2[n] = NULL
  BY <1>0, NullIsNoNode, KernelObjects DEF Linked, Pointers, Classes
<1>4. \A n \in Node \ Thread : cls2[n] = n /\ nx2[n] \in Node
  BY <1>0, NullIsNoNode, KernelObjects DEF Linked, Pointers, Classes
<1>5. \A n \in Node : cls2[n] # n => cls2[n] \in Node \ Thread
  BY <1>0 DEF Linked, Classes
<1>6. ASSUME NEW n \in Node PROVE Reached(nx2, cls2[n], n)
  <2> SUFFICES ASSUME NEW S \in SUBSET Node, cls2[n] \in S, Closed(nx2, S)
               PROVE  n \in S
    BY DEF Reached
  <2>1. CASE n = t
    BY <2>1, <1>0 DEF Classes
  <2>2. CASE n # t /\ head \in S
    <3>1. Closed(nx, S \cup {t})
      BY <2>2, <1>0 DEF Closed, Pointers
    <3>2. cls[n] \in S \cup {t} /\ S \cup {t} \in SUBSET Node
      BY <2>2, <1>0 DEF Classes
    <3> QED BY <3>1, <3>2, <2>2 DEF Linked, Reached
  <2>3. CASE n # t /\ head \notin S
    <3>0. cls[n] \in S \ {t}
      BY <2>3, <1>0, KernelObjects DEF Linked, Classes
    <3>1. \A m \in Node : nx[m] = t => m = head
      BY <1>0 DEF Linked
    <3>2. Closed(nx, S \ {t})
      BY <2>3, <3>1, <1>0 DEF Closed, Pointers
    <3> QED BY <3>0, <3>2, <2>3 DEF Linked, Reached
  <2> QED BY <2>1, <2>2, <2>3
<1> QED BY <1>1, <1>2, <1>3, <1>4, <1>5, <1>6 DEF Linked

-----------------------------------------------------------------------------
(* What the list operations do to a kernel state.                          *)

Relinked(h, nx, pv) == [h EXCEPT !.nx = nx, !.pv = pv]

\* Relinking changes the two pointer functions and nothing else.
LEMMA RelinkedFields ==
  ASSUME NEW h \in KernelState, NEW nx \in Pointers, NEW pv \in Pointers,
         NEW r, r = Relinked(h, nx, pv)
  PROVE  /\ r \in KernelState
         /\ r.nx = nx /\ r.pv = pv
         /\ r.status = h.status /\ r.ticks = h.ticks /\ r.cur = h.cur
         /\ r.value = h.value /\ r.holder = h.holder /\ r.repeat = h.repeat
         /\ r.panic = h.panic
<1>1. r = [nx |-> nx, pv |-> pv, status |-> h.status, ticks |-> h.ticks,
           cur |-> h.cur, value |-> h.value, holder |-> h.holder,
           repeat |-> h.repeat, panic |-> h.panic]
  BY DEF Relinked, KernelState
<1> QED BY <1>1 DEF KernelState, Pointers

\* Of two relinkings the second remains.
LEMMA RelinkedTwice ==
  ASSUME NEW h \in KernelState, NEW nx \in Pointers, NEW pv \in Pointers,
         NEW nx2 \in Pointers, NEW pv2 \in Pointers
  PROVE  Relinked(Relinked(h, nx, pv), nx2, pv2) = Relinked(h, nx2, pv2)
BY DEF Relinked, KernelState

\* list_add_tail as one relinking.
LEMMA AddTailFields ==
  ASSUME NEW h \in KernelState, NEW t \in Node, NEW head \in Node
  PROVE  list_add_tail(h, t, head) =
           Relinked(h, [h.nx EXCEPT ![h.pv[head]] = t, ![t] = head],
                       [h.pv EXCEPT ![t] = h.pv[head], ![head] = t])
BY DEF list_add_tail, KernelState, Relinked

\* list_add as one relinking.
LEMMA AddFields ==
  ASSUME NEW h \in KernelState, NEW t \in Node, NEW head \in Node
  PROVE  list_add(h, t, head) =
           Relinked(h, [h.nx EXCEPT ![t] = h.nx[head], ![head] = t],
                       [h.pv EXCEPT ![h.nx[head]] = t, ![t] = head])
BY DEF list_add, KernelState, Relinked

\* list_pop as one relinking.
LEMMA PopFields ==
  ASSUME NEW h \in KernelState, NEW head \in Node, NEW t \in Node,
         t = h.nx[head], t # head, h.pv[t] = head, h.nx[t] \in Node, h.nx[t] # t
  PROVE  list_pop(h, head) =
           Relinked(h, [h.nx EXCEPT ![head] = h.nx[t], ![t] = t],
                       [h.pv EXCEPT ![h.nx[t]] = head, ![t] = t])
<1> DEFINE d == list_del(h, t)
           nx1 == [h.nx EXCEPT ![head] = h.nx[t], ![t] = NULL]
           pv1 == [h.pv EXCEPT ![h.nx[t]] = head, ![t] = NULL]
           nx2 == [h.nx EXCEPT ![head] = h.nx[t], ![t] = t]
           pv2 == [h.pv EXCEPT ![h.nx[t]] = head, ![t] = t]
<1>0. nx1 \in Pointers /\ pv1 \in Pointers /\ nx2 \in Pointers /\ pv2 \in Pointers
  BY DEF KernelState, Pointers
<1>1. d = Relinked(h, nx1, pv1)
  BY DEF list_del, KernelState, Relinked
<1>2. d \in KernelState /\ d.nx = nx1 /\ d.pv = pv1
  BY <1>0, <1>1, RelinkedFields
<1>3. [nx1 EXCEPT ![t] = t] = nx2 /\ [pv1 EXCEPT ![t] = t] = pv2
  BY DEF KernelState
<1>4. list_pop(h, head) = INIT_LIST_HEAD(d, t)
  BY DEF list_pop, list_first, list_del_init
<1> HIDE DEF d, nx1, pv1, nx2, pv2
<1>5. INIT_LIST_HEAD(d, t) = Relinked(d, nx2, pv2)
  BY <1>2, <1>3 DEF INIT_LIST_HEAD, KernelState, Relinked
<1>6. list_pop(h, head) = Relinked(h, nx2, pv2)
  BY <1>0, <1>1, <1>4, <1>5, RelinkedTwice
<1> QED BY <1>6 DEF nx2, pv2
-----------------------------------------------------------------------------
(* The scheduler.                                                          *)

Objects(h) == <<h.value, h.holder, h.repeat>>

\* The values of status differ.
LEMMA StatusType ==
  /\ {RUNNING, READY, BLOCKED, WAITING, HANGING, NONE} = Status
  /\ RUNNING # READY /\ RUNNING # NONE /\ READY # NONE
  /\ RUNNING \notin Asleep /\ READY \notin Asleep /\ NONE \notin Asleep
  /\ BLOCKED \in Asleep /\ Asleep \subseteq Status
BY DEF Status, Asleep, RUNNING, READY, BLOCKED, WAITING, HANGING, NONE

\* The head of the ready list is a node and no thread's tag.
LEMMA ReadyListIsNoThread ==
  thread_ready_list \in Node \ Thread /\ Thread \subseteq Node
BY KernelObjects

\* thread_unblock puts a sleeping thread at the head of the ready list.
LEMMA UnblockLemma ==
  ASSUME NEW h, NEW cls, Sched(h, cls), NEW t \in Thread,
         h.status[t] \in Asleep, cls[t] = t,
         NEW r, r = thread_unblock(h, t)
  PROVE  /\ Sched(r, [cls EXCEPT ![t] = thread_ready_list])
         /\ r.status = [h.status EXCEPT ![t] = READY]
         /\ r.cur = h.cur /\ r.ticks = h.ticks /\ Objects(r) = Objects(h)
         /\ r.nx[thread_ready_list] = t
<1> DEFINE R == thread_ready_list
           nx == [h.nx EXCEPT ![t] = h.nx[R], ![R] = t]
           pv == [h.pv EXCEPT ![h.nx[R]] = t, ![t] = R]
           a == list_add(h, t, R)
           c == [cls EXCEPT ![t] = R]
<1>0. h \in KernelState /\ h.nx \in Pointers /\ h.pv \in Pointers /\ cls \in Classes
  BY DEF Sched, KernelState, Pointers
<1>1. ~OnReadyList(h, t)
  BY <1>0, NotFound, ReadyListIsNoThread DEF Sched, OnReadyList
<1>2. a = Relinked(h, nx, pv) /\ nx \in Pointers /\ pv \in Pointers
  BY <1>0, AddFields, ReadyListIsNoThread DEF Pointers
<1>3. /\ a \in KernelState /\ a.nx = nx /\ a.pv = pv
      /\ a.status = h.status /\ a.ticks = h.ticks /\ a.cur = h.cur
      /\ a.value = h.value /\ a.holder = h.holder /\ a.repeat = h.repeat
      /\ a.panic = h.panic
  BY <1>0, <1>2, RelinkedFields
<1>4. Linked(nx, pv, c)
  BY <1>0, InsertHead, ReadyListIsNoThread DEF Sched
<1>5. nx[R] = t
  BY <1>0, ReadyListIsNoThread DEF Pointers
<1>6. c \in Classes /\ \A u \in Thread : c[u] = IF u = t THEN R ELSE cls[u]
  BY <1>0, ReadyListIsNoThread DEF Classes
<1> HIDE DEF a, nx, pv, c
<1>7. r = [a EXCEPT !.status = [h.status EXCEPT ![t] = READY]]
  BY <1>1, <1>3 DEF thread_unblock, a, KernelState
<1>8. [h.status EXCEPT ![t] = READY] \in [Thread -> Status]
  BY <1>0, StatusType DEF KernelState
<1>9. /\ r \in KernelState /\ r.nx = nx /\ r.pv = pv
      /\ r.status = [h.status EXCEPT ![t] = READY]
      /\ r.ticks = h.ticks /\ r.cur = h.cur /\ r.value = h.value
      /\ r.holder = h.holder /\ r.repeat = h.repeat /\ r.panic = h.panic
  BY <1>3, <1>7, <1>8 DEF KernelState
<1>10. \A u \in Thread : r.status[u] = READY <=> c[u] = R
  BY <1>0, <1>6, <1>9 DEF Sched, KernelState
<1> QED BY <1>4, <1>5, <1>6, <1>9, <1>10 DEF Sched, Objects, Halted, c

\* A thread that is on no list joins the tail of the ready list.
LEMMA JoinLemma ==
  ASSUME NEW h, NEW cls, Sched(h, cls), NEW t \in Thread, cls[t] = t,
         NEW r, r = join_ready(h, t)
  PROVE  /\ Sched(r, [cls EXCEPT ![t] = thread_ready_list])
         /\ r.status = [h.status EXCEPT ![t] = READY]
         /\ r.cur = h.cur /\ Objects(r) = Objects(h)
         /\ r.nx[thread_ready_list] # thread_ready_list
<1> DEFINE R == thread_ready_list
           nx == [h.nx EXCEPT ![h.pv[R]] = t, ![t] = R]
           pv == [h.pv EXCEPT ![t] = h.pv[R], ![R] = t]
           a == list_add_tail(h, t, R)
           c == [cls EXCEPT ![t] = R]
<1>0. h \in KernelState /\ h.nx \in Pointers /\ h.pv \in Pointers /\ cls \in Classes
  BY DEF Sched, KernelState, Pointers
<1>2. a = Relinked(h, nx, pv) /\ nx \in Pointers /\ pv \in Pointers
  BY <1>0, AddTailFields, ReadyListIsNoThread DEF Pointers
<1>3. /\ a \in KernelState /\ a.nx = nx /\ a.pv = pv
      /\ a.status = h.status /\ a.ticks = h.ticks /\ a.cur = h.cur
      /\ a.value = h.value /\ a.holder = h.holder /\ a.repeat = h.repeat
      /\ a.panic = h.panic
  BY <1>0, <1>2, RelinkedFields
<1>4. Linked(nx, pv, c)
  BY <1>0, InsertTail, ReadyListIsNoThread DEF Sched
<1>6. c \in Classes /\ \A u \in Thread : c[u] = IF u = t THEN R ELSE cls[u]
  BY <1>0, ReadyListIsNoThread DEF Classes
<1> HIDE DEF a, nx, pv, c
<1>5. nx[R] # R
  <2> SUFFICES ASSUME nx[R] = R PROVE FALSE
    OBVIOUS
  <2>1. c[t] # R
    BY <1>2, <1>4, <1>6, EmptyList, ReadyListIsNoThread
  <2> QED BY <2>1, <1>6
<1>7. r = [a EXCEPT !.status = [h.status EXCEPT ![t] = READY],
                    !.ticks = [h.ticks EXCEPT ![t] = Priority[t]]]
  BY <1>3 DEF join_ready, a, KernelState
<1>8. /\ [h.status EXCEPT ![t] = READY] \in [Thread -> Status]
      /\ [h.ticks EXCEPT ![t] = Priority[t]] \in [Thread -> Nat]
  BY <1>0, StatusType, PriorityType DEF KernelState
<1>9. /\ r \in KernelState /\ r.nx = nx /\ r.pv = pv
      /\ r.status = [h.status EXCEPT ![t] = READY]
      /\ r.cur = h.cur /\ r.value = h.value
      /\ r.holder = h.holder /\ r.repeat = h.repeat /\ r.panic = h.panic
  BY <1>3, <1>7, <1>8 DEF KernelState
<1>10. \A u \in Thread : r.status[u] = READY <=> c[u] = R
  BY <1>0, <1>6, <1>9 DEF Sched, KernelState
<1> QED BY <1>4, <1>5, <1>6, <1>9, <1>10 DEF Sched, Objects, Halted, c

\* The first ready thread leaves the ready list and gets the CPU.
LEMMA SwitchLemma ==
  ASSUME NEW h, NEW cls, Sched(h, cls),
         h.nx[thread_ready_list] # thread_ready_list,
         NEW r, r = switch_to_first(h)
  PROVE  /\ r.cur = h.nx[thread_ready_list] /\ r.cur \in Thread
         /\ h.status[r.cur] = READY
         /\ Sched(r, [cls EXCEPT ![r.cur] = r.cur])
         /\ r.status = [h.status EXCEPT ![r.cur] = RUNNING]
         /\ Objects(r) = Objects(h)
<1> DEFINE R == thread_ready_list
           t == h.nx[R]
           nx == [h.nx EXCEPT ![R] = h.nx[t], ![t] = t]
           pv == [h.pv EXCEPT ![h.nx[t]] = R, ![t] = t]
           a == list_pop(h, R)
           c == [cls EXCEPT ![t] = t]
<1>0. h \in KernelState /\ h.nx \in Pointers /\ h.pv \in Pointers /\ cls \in Classes
  BY DEF Sched, KernelState, Pointers
<1>1. /\ t \in Thread /\ t \in Node /\ t # R /\ cls[t] = R
      /\ h.nx[t] \in Node /\ h.nx[t] # t /\ h.pv[t] = R
  BY <1>0, FirstElement, ReadyListIsNoThread DEF Sched
<1>2. a = Relinked(h, nx, pv) /\ nx \in Pointers /\ pv \in Pointers
  BY <1>0, <1>1, PopFields, ReadyListIsNoThread DEF Pointers
<1>3. /\ a \in KernelState /\ a.nx = nx /\ a.pv = pv
      /\ a.status = h.status /\ a.ticks = h.ticks /\ a.cur = h.cur
      /\ a.value = h.value /\ a.holder = h.holder /\ a.repeat = h.repeat
      /\ a.panic = h.panic
  BY <1>0, <1>2, RelinkedFields
<1>4. Linked(nx, pv, c)
  BY <1>0, UnlinkFirst, ReadyListIsNoThread DEF Sched
<1>6. c \in Classes /\ \A u \in Thread : c[u] = IF u = t THEN t ELSE cls[u]
  BY <1>0, <1>1 DEF Classes
<1>5. h.status[t] = READY
  BY <1>1 DEF Sched
<1>7. list_first(h, R) = t
  BY DEF list_first
<1> HIDE DEF a, nx, pv, c, t
<1>8. r = [a EXCEPT !.status = [h.status EXCEPT ![t] = RUNNING], !.cur = t]
  BY <1>3, <1>7 DEF switch_to_first, a, KernelState
<1>9. [h.status EXCEPT ![t] = RUNNING] \in [Thread -> Status]
  BY <1>0, StatusType DEF KernelState
<1>10. /\ r \in KernelState /\ r.nx = nx /\ r.pv = pv
      /\ r.status = [h.status EXCEPT ![t] = RUNNING]
      /\ r.cur = t /\ r.value = h.value
      /\ r.holder = h.holder /\ r.repeat = h.repeat /\ r.panic = h.panic
  BY <1>1, <1>3, <1>8, <1>9 DEF KernelState
<1>11. \A u \in Thread : r.status[u] = READY <=> c[u] = R
  BY <1>0, <1>1, <1>6, <1>10, StatusType DEF Sched, KernelState
<1>12. r.cur = h.nx[thread_ready_list]
  BY <1>10 DEF t
<1> QED BY <1>1, <1>4, <1>5, <1>6, <1>10, <1>11, <1>12 DEF Sched, Objects, Halted, c
\* idle_thread can be handed the CPU when the ready list runs empty.
IdleAvailable(h, cls) ==
  \/ h.status[idle_thread] \in Asleep /\ cls[idle_thread] = idle_thread
  \/ h.status[idle_thread] = READY

Requeued(h, f, list) == IF h.status[h.cur] = RUNNING THEN [f EXCEPT ![h.cur] = list] ELSE f

\* schedule() fails no assertion.  A running thread is moved to the tail of
\* the ready list, a thread that went to sleep stays where it is, and the
\* thread that gets the CPU was ready or is idle_thread.
LEMMA ScheduleLemma ==
  ASSUME NEW h, NEW cls, Sched(h, cls),
         \/ h.status[h.cur] = RUNNING /\ cls[h.cur] = h.cur
         \/ h.status[h.cur] \in Asleep,
         \/ IdleAvailable(h, cls)
         \/ h.cur = idle_thread /\ h.status[h.cur] = RUNNING,
         NEW r, r = schedule(h)
  PROVE  /\ r.cur \in Thread
         /\ Sched(r, [Requeued(h, cls, thread_ready_list) EXCEPT ![r.cur] = r.cur])
         /\ r.status = [Requeued(h, h.status, READY) EXCEPT ![r.cur] = RUNNING]
         /\ \/ Requeued(h, h.status, READY)[r.cur] = READY
            \/ r.cur = idle_thread /\ h.status[r.cur] \in Asleep
         /\ Objects(r) = Objects(h)
<1> DEFINE R == thread_ready_list
           left == requeue(h)
           some == wake_idle(left)
           c == Requeued(h, cls, R)
           st == Requeued(h, h.status, READY)
<1>0. h \in KernelState /\ h.cur \in Thread /\ h.status \in [Thread -> Status]
  BY DEF Sched, KernelState
<1>1. /\ Sched(left, c) /\ left.status = st /\ Objects(left) = Objects(h)
      /\ IdleAvailable(left, c)
  <2>1. CASE h.status[h.cur] = RUNNING /\ cls[h.cur] = h.cur
    <3>1. ~OnReadyList(h, h.cur)
      BY <2>1, <1>0, NotFound, ReadyListIsNoThread DEF Sched, OnReadyList, KernelState, Pointers
    <3>2. left = join_ready(h, h.cur)
      BY <2>1, <3>1 DEF requeue
    <3>3. c = [cls EXCEPT ![h.cur] = R] /\ st = [h.status EXCEPT ![h.cur] = READY]
      BY <2>1 DEF Requeued
    <3> HIDE DEF left, c, st
    <3>6. /\ Sched(left, [cls EXCEPT ![h.cur] = R])
          /\ left.status = [h.status EXCEPT ![h.cur] = READY]
          /\ Objects(left) = Objects(h)
      BY <2>1, <3>2, <1>0, JoinLemma
    <3>4. Sched(left, c) /\ left.status = st /\ Objects(left) = Objects(h)
      BY <3>6, <3>3
    <3>5. IdleAvailable(left, c)
      BY <3>3, <3>4, <2>1, <1>0, StatusType, KernelObjects
         DEF IdleAvailable, Sched, Classes
    <3> QED BY <3>4, <3>5
  <2>2. CASE h.status[h.cur] \in Asleep
    <3>1. left = h /\ c = cls /\ st = h.status
      BY <2>2, StatusType DEF requeue, Requeued
    <3> QED BY <3>1, <2>2, StatusType
  <2> QED BY <2>1, <2>2
<1> HIDE DEF left, c, st
<1>2. CASE ~list_is_empty(left, R)
  <2>1. r = switch_to_first(left)
    BY <1>1, <1>2 DEF schedule, wake_idle, Sched, left
  <2>2. left.nx[R] # R
    BY <1>2 DEF list_is_empty
  <2> QED BY <1>1, <2>1, <2>2, SwitchLemma DEF c, st
<1>3. CASE list_is_empty(left, R)
  <2>1. left.nx[R] = R
    BY <1>3 DEF list_is_empty
  <2>2. \A t \in Thread : c[t] # R
    BY <2>1, <1>1, EmptyList, ReadyListIsNoThread DEF Sched, KernelState, Pointers
  <2>3. left.status[idle_thread] \in Asleep /\ c[idle_thread] = idle_thread
    BY <2>2, <1>1, KernelObjects DEF IdleAvailable, Sched
  <2>4. some = thread_unblock(left, idle_thread)
    BY <1>3 DEF wake_idle
  <2> HIDE DEF some
  <2>5. /\ Sched(some, [c EXCEPT ![idle_thread] = R])
        /\ some.status = [st EXCEPT ![idle_thread] = READY]
        /\ Objects(some) = Objects(h) /\ some.nx[R] = idle_thread
    BY <1>1, <2>3, <2>4, UnblockLemma, KernelObjects
  <2>6. r = switch_to_first(some)
    BY <1>1, <2>5 DEF schedule, Sched, left, some
  <2>7. /\ r.cur = idle_thread
        /\ Sched(r, [[c EXCEPT ![idle_thread] = R] EXCEPT ![idle_thread] = idle_thread])
        /\ r.status = [[st EXCEPT ![idle_thread] = READY] EXCEPT ![idle_thread] = RUNNING]
        /\ Objects(r) = Objects(h)
    <3> DEFINE woken == [c EXCEPT ![idle_thread] = R]
               ready == [st EXCEPT ![idle_thread] = READY]
    <3>1. Sched(some, woken) /\ some.nx[R] = idle_thread /\ some.nx[R] # R
      BY <2>5, ReadyListIsNoThread, KernelObjects
    <3>2. some.status = ready /\ Objects(some) = Objects(h)
      BY <2>5
    <3> HIDE DEF woken, ready
    <3>3. /\ r.cur = idle_thread /\ Sched(r, [woken EXCEPT ![idle_thread] = idle_thread])
          /\ r.status = [some.status EXCEPT ![idle_thread] = RUNNING]
          /\ Objects(r) = Objects(some)
      BY <3>1, <2>6, SwitchLemma
    <3> QED BY <3>2, <3>3 DEF woken, ready
  <2>8. /\ [[c EXCEPT ![idle_thread] = R] EXCEPT ![idle_thread] = idle_thread]
             = [c EXCEPT ![idle_thread] = idle_thread]
        /\ [[st EXCEPT ![idle_thread] = READY] EXCEPT ![idle_thread] = RUNNING]
             = [st EXCEPT ![idle_thread] = RUNNING]
    BY <1>1, KernelObjects DEF Sched, Classes, KernelState
  <2>9. st[idle_thread] \in Asleep /\ h.status[idle_thread] \in Asleep
    BY <1>0, <1>1, <2>3, StatusType, KernelObjects DEF st, Requeued
  <2> QED BY <2>7, <2>8, <2>9, KernelObjects DEF c, st
<1> QED BY <1>2, <1>3

\* A change of fields other than the links and the status keeps Sched.
LEMMA SchedFrame ==
  ASSUME NEW h, NEW cls, Sched(h, cls), NEW r \in KernelState,
         r.nx = h.nx, r.pv = h.pv, r.status = h.status, r.panic = h.panic
  PROVE  Sched(r, cls)
BY DEF Sched, Halted

\* Assignments to the status of a thread and to its tag.
WithStatus(h, t, st) == [h EXCEPT !.status[t] = st]
WithClearTag(h, t) == [h EXCEPT !.nx[t] = NULL, !.pv[t] = NULL]

\* A thread that is not ready may take another status that is not READY.
LEMMA StatusFrame ==
  ASSUME NEW h, NEW cls, Sched(h, cls), NEW t \in Thread, cls[t] # thread_ready_list,
         NEW st \in Status, st # READY, NEW r, r = WithStatus(h, t, st)
  PROVE  /\ Sched(r, cls) /\ r.status = [h.status EXCEPT ![t] = st]
         /\ r.cur = h.cur /\ Objects(r) = Objects(h)
<1> DEFINE new == [h.status EXCEPT ![t] = st]
<1>0. h \in KernelState
  BY DEF Sched
<1>1. new \in [Thread -> Status] /\ \A u \in Thread : new[u] = IF u = t THEN st ELSE h.status[u]
  BY <1>0 DEF KernelState
<1>2. r = [h EXCEPT !.status = new]
  BY <1>0 DEF KernelState, WithStatus
<1> HIDE DEF new
<1>3. /\ r \in KernelState /\ r.nx = h.nx /\ r.pv = h.pv /\ r.status = new
      /\ r.cur = h.cur /\ r.value = h.value /\ r.holder = h.holder
      /\ r.repeat = h.repeat /\ r.panic = h.panic
  BY <1>0, <1>1, <1>2 DEF KernelState
<1>4. \A u \in Thread : r.status[u] = READY <=> cls[u] = thread_ready_list
  BY <1>1, <1>3 DEF Sched
<1> QED BY <1>3, <1>4 DEF Sched, Halted, Objects, new

\* thread_block puts the running thread to sleep, on the list it is on, and
\* gives the CPU to a thread that was ready or to idle_thread.
LEMMA SleepLemma ==
  ASSUME NEW h, NEW cls, Sched(h, cls), h.status[h.cur] = RUNNING,
         cls[h.cur] # thread_ready_list, NEW st \in Asleep,
         \/ h.cur = idle_thread /\ cls[h.cur] = h.cur
         \/ h.cur # idle_thread /\ IdleAvailable(h, cls),
         NEW r, r = thread_block(h, st)
  PROVE  /\ r.cur \in Thread
         /\ Sched(r, [cls EXCEPT ![r.cur] = r.cur])
         /\ r.status = [[h.status EXCEPT ![h.cur] = st] EXCEPT ![r.cur] = RUNNING]
         /\ \/ r.cur # h.cur /\ h.status[r.cur] = READY
            \/ r.cur = idle_thread /\ (r.cur = h.cur \/ h.status[r.cur] \in Asleep)
         /\ Objects(r) = Objects(h)
<1> DEFINE b == WithStatus(h, h.cur, st)
           new == [h.status EXCEPT ![h.cur] = st]
<1>0. /\ h.cur \in Thread /\ st \in Status /\ st # READY /\ st # RUNNING
      /\ cls[h.cur] # thread_ready_list /\ h.status \in [Thread -> Status]
  BY StatusType, ReadyListIsNoThread DEF Sched, KernelState
<1>1. r = schedule(b)
  BY DEF thread_block, WithStatus
<1>2. /\ Sched(b, cls) /\ b.status = [h.status EXCEPT ![h.cur] = st]
      /\ b.cur = h.cur /\ Objects(b) = Objects(h)
  BY <1>0, StatusFrame
<1>3. /\ new \in [Thread -> Status] /\ new[h.cur] = st
      /\ \A u \in Thread \ {h.cur} : new[u] = h.status[u]
  BY <1>0
<1> HIDE DEF b, new
<1>4. b.status = new
  BY <1>2 DEF new
<1>5. b.status[b.cur] \in Asleep /\ b.status[b.cur] # RUNNING
  BY <1>0, <1>2, <1>3, <1>4
<1>6. Sched(b, cls)
  BY <1>2
<1>7. IdleAvailable(b, cls)
  BY <1>0, <1>2, <1>3, <1>4, KernelObjects DEF IdleAvailable
<1>8. Requeued(b, cls, thread_ready_list) = cls /\ Requeued(b, b.status, READY) = new
  BY <1>5, <1>4 DEF Requeued
<1>9. /\ r.cur \in Thread
      /\ Sched(r, [cls EXCEPT ![r.cur] = r.cur])
      /\ r.status = [new EXCEPT ![r.cur] = RUNNING]
      /\ new[r.cur] = READY \/ (r.cur = idle_thread /\ b.status[r.cur] \in Asleep)
      /\ Objects(r) = Objects(b)
  BY <1>1, <1>6, <1>5, <1>7, <1>8, ScheduleLemma
<1>10. \/ r.cur # h.cur /\ h.status[r.cur] = READY
       \/ r.cur = idle_thread /\ (r.cur = h.cur \/ h.status[r.cur] \in Asleep)
  BY <1>0, <1>3, <1>4, <1>9
<1> QED BY <1>2, <1>9, <1>10 DEF new

\* The same for a thread that is on no list.
LEMMA BlockLemma ==
  ASSUME NEW h, NEW cls, Sched(h, cls), h.status[h.cur] = RUNNING, cls[h.cur] = h.cur,
         NEW st \in Asleep, h.cur # idle_thread => IdleAvailable(h, cls),
         NEW r, r = thread_block(h, st)
  PROVE  /\ r.cur \in Thread
         /\ Sched(r, [cls EXCEPT ![r.cur] = r.cur])
         /\ r.status = [[h.status EXCEPT ![h.cur] = st] EXCEPT ![r.cur] = RUNNING]
         /\ \/ r.cur # h.cur /\ h.status[r.cur] = READY
            \/ r.cur = idle_thread /\ (r.cur = h.cur \/ h.status[r.cur] \in Asleep)
         /\ Objects(r) = Objects(h)
<1>1. cls[h.cur] # thread_ready_list
  BY ReadyListIsNoThread DEF Sched, KernelState
<1> QED BY <1>1, SleepLemma

\* A tag that is on no list may be cleared.
LEMMA ClearTag ==
  ASSUME NEW nx \in Pointers, NEW pv \in Pointers, NEW cls \in Classes,
         Linked(nx, pv, cls), NEW t \in Thread, cls[t] = t
  PROVE  Linked([nx EXCEPT ![t] = NULL], [pv EXCEPT ![t] = NULL], cls)
<1> DEFINE nx2 == [nx EXCEPT ![t] = NULL]
           pv2 == [pv EXCEPT ![t] = NULL]
<1>0. /\ t \in Node /\ nx[t] \in {t, NULL} /\ pv[t] \in {t, NULL}
      /\ \A m \in Node \ {t} : nx[m] # t /\ pv[m] # t
  BY Unlinked, KernelObjects
<1>1. /\ nx2 \in Pointers /\ pv2 \in Pointers /\ nx2[t] = NULL /\ pv2[t] = NULL
      /\ \A m \in Node \ {t} : nx2[m] = nx[m] /\ pv2[m] = pv[m]
  BY <1>0 DEF Pointers
<1> HIDE DEF nx2, pv2
<1>2. \A n \in Node : nx2[n] \in Node => pv2[nx2[n]] = n /\ cls[nx2[n]] = cls[n]
  BY <1>0, <1>1, NullIsNoNode DEF Linked
<1>3. \A n \in Node : pv2[n] \in Node => nx2[pv2[n]] = n
  BY <1>0, <1>1, NullIsNoNode DEF Linked
<1>4. \A n \in Node : nx2[n] = NULL <=> pv2[n] = NULL
  BY <1>0, <1>1 DEF Linked
<1>5. /\ \A n \in Node \ Thread : cls[n] = n /\ nx2[n] \in Node
      /\ \A n \in Node : cls[n] # n => cls[n] \in Node \ Thread
  BY <1>0, <1>1 DEF Linked
<1>6. ASSUME NEW n \in Node PROVE Reached(nx2, cls[n], n)
  <2> SUFFICES ASSUME NEW S \in SUBSET Node, cls[n] \in S, Closed(nx2, S)
               PROVE  n \in S
    BY DEF Reached
  <2>1. Closed(nx, S)
    BY <1>0, <1>1 DEF Closed
  <2> QED BY <2>1 DEF Linked, Reached
<1> QED BY <1>2, <1>3, <1>4, <1>5, <1>6 DEF Linked, nx2, pv2

\* A new thread, whose tag is on no list, is made ready.
LEMMA StartLemma ==
  ASSUME NEW h, NEW cls, Sched(h, cls), NEW t \in Thread, cls[t] = t,
         NEW r, r = start_thread(WithClearTag(h, t), t)
  PROVE  /\ Sched(r, [cls EXCEPT ![t] = thread_ready_list])
         /\ r.status = [h.status EXCEPT ![t] = READY]
         /\ r.cur = h.cur /\ Objects(r) = Objects(h)
<1> DEFINE a == WithClearTag(h, t)
           nx == [h.nx EXCEPT ![t] = NULL]
           pv == [h.pv EXCEPT ![t] = NULL]
<1>0. h \in KernelState /\ h.nx \in Pointers /\ h.pv \in Pointers /\ cls \in Classes
  BY DEF Sched, KernelState, Pointers
<1>1. a = Relinked(h, nx, pv) /\ nx \in Pointers /\ pv \in Pointers
  BY <1>0 DEF Relinked, Pointers, KernelState, WithClearTag
<1>2. Linked(nx, pv, cls)
  BY <1>0, ClearTag DEF Sched
<1>3. /\ a \in KernelState /\ a.nx = nx /\ a.pv = pv
      /\ a.status = h.status /\ a.ticks = h.ticks /\ a.cur = h.cur
      /\ a.value = h.value /\ a.holder = h.holder /\ a.repeat = h.repeat
      /\ a.panic = h.panic
  BY <1>0, <1>1, RelinkedFields
<1> HIDE DEF a, nx, pv
<1>4. Sched(a, cls) /\ Objects(a) = Objects(h)
  BY <1>2, <1>3 DEF Sched, Halted, Objects
<1>5. ~OnReadyList(a, t)
  BY <1>3, <1>4, NotFound, ReadyListIsNoThread DEF Sched, OnReadyList, KernelState, Pointers
<1>6. r = join_ready(a, t)
  BY <1>5 DEF start_thread, a
<1> QED BY <1>3, <1>4, <1>6, JoinLemma

-----------------------------------------------------------------------------
(* Semaphores.                                                             *)

\* The running thread joins the queue of a semaphore, blocks, and another
\* thread gets the CPU.
LEMMA QueueLemma ==
  ASSUME NEW h, NEW cls, Sched(h, cls), NEW s \in Sem,
         h.status[h.cur] = RUNNING, cls[h.cur] = h.cur,
         h.cur # idle_thread, IdleAvailable(h, cls),
         NEW r, r = thread_block(list_add_tail(h, h.cur, s), BLOCKED)
  PROVE  /\ r.cur \in Thread /\ r.cur # h.cur
         /\ Sched(r, [[cls EXCEPT ![h.cur] = s] EXCEPT ![r.cur] = r.cur])
         /\ r.status = [[h.status EXCEPT ![h.cur] = BLOCKED] EXCEPT ![r.cur] = RUNNING]
         /\ \/ h.status[r.cur] = READY
            \/ r.cur = idle_thread /\ h.status[r.cur] \in Asleep
         /\ Objects(r) = Objects(h)
<1> DEFINE t == h.cur
           nx == [h.nx EXCEPT ![h.pv[s]] = t, ![t] = s]
           pv == [h.pv EXCEPT ![t] = h.pv[s], ![s] = t]
           a == list_add_tail(h, t, s)
           b == [a EXCEPT !.status[a.cur] = BLOCKED]
           c == [cls EXCEPT ![t] = s]
           st == [h.status EXCEPT ![t] = BLOCKED]
<1>0. /\ h \in KernelState /\ h.nx \in Pointers /\ h.pv \in Pointers
      /\ cls \in Classes /\ t \in Thread /\ t \in Node
      /\ s \in Node \ Thread /\ s # thread_ready_list
  BY KernelObjects DEF Sched, KernelState, Pointers
<1>1. a = Relinked(h, nx, pv) /\ nx \in Pointers /\ pv \in Pointers
  BY <1>0, AddTailFields DEF Pointers
<1>2. /\ a \in KernelState /\ a.nx = nx /\ a.pv = pv
      /\ a.status = h.status /\ a.ticks = h.ticks /\ a.cur = h.cur
      /\ a.value = h.value /\ a.holder = h.holder /\ a.repeat = h.repeat
      /\ a.panic = h.panic
  BY <1>0, <1>1, RelinkedFields
<1>3. Linked(nx, pv, c)
  BY <1>0, InsertTail DEF Sched
<1>4. c \in Classes /\ \A u \in Thread : c[u] = IF u = t THEN s ELSE cls[u]
  BY <1>0 DEF Classes
<1>5. st \in [Thread -> Status] /\ st[t] = BLOCKED
      /\ \A u \in Thread \ {t} : st[u] = h.status[u]
  BY <1>0, StatusType DEF KernelState
<1>6. r = schedule(b)
  BY DEF thread_block
<1> HIDE DEF nx, pv, a, c, st
<1>7. b = [a EXCEPT !.status = st]
  BY <1>2 DEF st, KernelState
<1> HIDE DEF b
<1>8. /\ b \in KernelState /\ b.nx = nx /\ b.pv = pv /\ b.status = st
      /\ b.cur = t /\ b.value = h.value
      /\ b.holder = h.holder /\ b.repeat = h.repeat /\ b.panic = h.panic
  BY <1>2, <1>5, <1>7 DEF KernelState
<1>9. Sched(b, c)
  <2>1. \A u \in Thread : b.status[u] = READY <=> c[u] = thread_ready_list
    BY <1>0, <1>4, <1>5, <1>8, StatusType DEF Sched
  <2> QED BY <1>3, <1>4, <1>8, <2>1 DEF Sched, Halted
<1>10. b.status[b.cur] \in Asleep /\ b.status[b.cur] # RUNNING
  BY <1>5, <1>8, StatusType
<1>11. IdleAvailable(b, c)
  BY <1>4, <1>5, <1>8, KernelObjects DEF IdleAvailable
<1>12. Requeued(b, c, thread_ready_list) = c /\ Requeued(b, b.status, READY) = st
  BY <1>10, <1>8 DEF Requeued
<1>13. /\ r.cur \in Thread
       /\ Sched(r, [c EXCEPT ![r.cur] = r.cur])
       /\ r.status = [st EXCEPT ![r.cur] = RUNNING]
       /\ st[r.cur] = READY \/ (r.cur = idle_thread /\ b.status[r.cur] \in Asleep)
       /\ Objects(r) = Objects(b)
  BY <1>6, <1>9, <1>10, <1>11, <1>12, ScheduleLemma
<1>14. r.cur # t
  BY <1>13, <1>5, StatusType
<1>15. Objects(b) = Objects(h)
  BY <1>8 DEF Objects
<1> QED BY <1>5, <1>8, <1>13, <1>14, <1>15 DEF c, st

\* Thread t has been moved from the queue of s to the ready list.
Woken(h, cls, s, r, t) ==
  /\ cls[t] = s
  /\ Sched(r, [cls EXCEPT ![t] = thread_ready_list])
  /\ r.status = [h.status EXCEPT ![t] = READY]

\* The first thread in the queue of s is moved to the ready list.
LEMMA WakeOne ==
  ASSUME NEW h, NEW cls, Sched(h, cls), NEW s \in Sem, h.nx[s] # s,
         \A t \in Thread : cls[t] = s => h.status[t] \in Asleep,
         NEW r, r = thread_unblock(list_pop(h, s), list_first(h, s))
  PROVE  /\ r.cur = h.cur /\ Objects(r) = Objects(h)
         /\ \E t \in Thread : Woken(h, cls, s, r, t)
<1> DEFINE t == h.nx[s]
           nx == [h.nx EXCEPT ![s] = h.nx[t], ![t] = t]
           pv == [h.pv EXCEPT ![h.nx[t]] = s, ![t] = t]
           a == list_pop(h, s)
           c == [cls EXCEPT ![t] = t]
<1>0. /\ h \in KernelState /\ h.nx \in Pointers /\ h.pv \in Pointers
      /\ cls \in Classes /\ s \in Node \ Thread /\ s # thread_ready_list
  BY KernelObjects DEF Sched, KernelState, Pointers
<1>1. /\ t \in Thread /\ t \in Node /\ t # s /\ cls[t] = s
      /\ h.nx[t] \in Node /\ h.nx[t] # t /\ h.pv[t] = s
  BY <1>0, FirstElement, ReadyListIsNoThread DEF Sched
<1>2. a = Relinked(h, nx, pv) /\ nx \in Pointers /\ pv \in Pointers
  BY <1>0, <1>1, PopFields DEF Pointers
<1>3. /\ a \in KernelState /\ a.nx = nx /\ a.pv = pv
      /\ a.status = h.status /\ a.ticks = h.ticks /\ a.cur = h.cur
      /\ a.value = h.value /\ a.holder = h.holder /\ a.repeat = h.repeat
      /\ a.panic = h.panic
  BY <1>0, <1>2, RelinkedFields
<1>4. Linked(nx, pv, c)
  BY <1>0, UnlinkFirst DEF Sched
<1>5. c \in Classes /\ \A u \in Thread : c[u] = IF u = t THEN t ELSE cls[u]
  BY <1>0, <1>1 DEF Classes
<1>6. r = thread_unblock(a, t)
  BY DEF list_first
<1>7. [c EXCEPT ![t] = thread_ready_list] = [cls EXCEPT ![t] = thread_ready_list]
  BY <1>0, <1>1 DEF Classes
<1> HIDE DEF nx, pv, a, c, t
<1>8. Sched(a, c)
  <2>1. \A u \in Thread : a.status[u] = READY <=> c[u] = thread_ready_list
    BY <1>0, <1>1, <1>3, <1>5, StatusType, KernelObjects DEF Sched
  <2> QED BY <1>3, <1>4, <1>5, <2>1 DEF Sched, Halted
<1>9. /\ Sched(r, [c EXCEPT ![t] = thread_ready_list])
      /\ r.status = [a.status EXCEPT ![t] = READY]
      /\ r.cur = a.cur /\ Objects(r) = Objects(a)
  <2>1. a.status[t] \in Asleep /\ c[t] = t
    BY <1>1, <1>3, <1>5
  <2> QED BY <1>1, <1>6, <1>8, <2>1, UnblockLemma
<1>10. Objects(a) = Objects(h)
  BY <1>3 DEF Objects
<1>11. Woken(h, cls, s, r, t)
  BY <1>1, <1>3, <1>7, <1>9 DEF Woken
<1> QED BY <1>1, <1>3, <1>9, <1>10, <1>11

\* semaphore_up on a semaphore at 0 fails no assertion and readies the first
\* waiter, if there is one.
LEMMA UpLemma ==
  ASSUME NEW h, NEW cls, Sched(h, cls), NEW s \in Sem, h.value[s] = 0,
         \A t \in Thread : cls[t] = s => h.status[t] \in Asleep,
         NEW r, r = semaphore_up(h, s)
  PROVE  /\ r.cur = h.cur /\ r.holder = h.holder /\ r.repeat = h.repeat
         /\ r.value = [h.value EXCEPT ![s] = 1]
         /\ \/ /\ \A t \in Thread : cls[t] # s
               /\ Sched(r, cls) /\ r.status = h.status
            \/ \E t \in Thread : Woken(h, cls, s, r, t)
<1> DEFINE w == wake_first(h, s)
<1>0. /\ h \in KernelState /\ h.nx \in Pointers /\ h.pv \in Pointers
      /\ cls \in Classes /\ s \in Node \ Thread /\ s # thread_ready_list
  BY KernelObjects DEF Sched, KernelState, Pointers
<1>1. ASSUME w \in KernelState, ~Halted(w), w.value = h.value
      PROVE  /\ r \in KernelState /\ r.nx = w.nx /\ r.pv = w.pv /\ r.status = w.status
             /\ r.cur = w.cur /\ r.holder = w.holder /\ r.repeat = w.repeat
             /\ r.value = [h.value EXCEPT ![s] = 1] /\ r.panic = w.panic
  <2>1. r = [w EXCEPT !.value[s] = @ + 1]
    BY <1>1 DEF semaphore_up
  <2> HIDE DEF w
  <2>2. r = [w EXCEPT !.value = [h.value EXCEPT ![s] = 1]]
    BY <2>1, <1>1, <1>0 DEF KernelState
  <2>3. [h.value EXCEPT ![s] = 1] \in [Sem -> Nat]
    BY <1>0 DEF KernelState
  <2> QED BY <2>2, <2>3, <1>1 DEF KernelState
<1>2. CASE h.nx[s] = s
  <2>1. w = h
    BY <1>2 DEF wake_first, list_is_empty
  <2>2. \A t \in Thread : cls[t] # s
    BY <1>0, <1>2, EmptyList DEF Sched
  <2> HIDE DEF w
  <2>3. /\ r \in KernelState /\ r.nx = h.nx /\ r.pv = h.pv /\ r.status = h.status
        /\ r.cur = h.cur /\ r.holder = h.holder /\ r.repeat = h.repeat
        /\ r.value = [h.value EXCEPT ![s] = 1] /\ r.panic = h.panic
    BY <1>0, <1>1, <2>1 DEF Sched
  <2>4. Sched(r, cls)
    BY <2>3, SchedFrame
  <2> QED BY <2>2, <2>3, <2>4
<1>3. CASE h.nx[s] # s
  <2>1. w = thread_unblock(list_pop(h, s), list_first(h, s))
    BY <1>3 DEF wake_first, list_is_empty
  <2> HIDE DEF w
  <2>2. /\ w.cur = h.cur /\ Objects(w) = Objects(h)
        /\ \E t \in Thread : Woken(h, cls, s, w, t)
    BY <1>3, <2>1, WakeOne
  <2>3. PICK t \in Thread : Woken(h, cls, s, w, t)
    BY <2>2
  <2>4. w.value = h.value /\ w.holder = h.holder /\ w.repeat = h.repeat
    BY <2>2 DEF Objects
  <2>5. /\ cls[t] = s /\ Sched(w, [cls EXCEPT ![t] = thread_ready_list])
        /\ w.status = [h.status EXCEPT ![t] = READY]
    BY <2>3 DEF Woken
  <2>6. w \in KernelState /\ ~Halted(w)
    BY <2>5 DEF Sched
  <2>7. /\ r \in KernelState /\ r.nx = w.nx /\ r.pv = w.pv /\ r.status = w.status
        /\ r.cur = w.cur /\ r.holder = w.holder /\ r.repeat = w.repeat
        /\ r.value = [h.value EXCEPT ![s] = 1] /\ r.panic = w.panic
    BY <1>1, <2>4, <2>6
  <2>8. Sched(r, [cls EXCEPT ![t] = thread_ready_list])
    BY <2>5, <2>7, SchedFrame
  <2>9. Woken(h, cls, s, r, t)
    BY <2>5, <2>7, <2>8 DEF Woken
  <2> QED BY <2>2, <2>4, <2>7, <2>9
<1> QED BY <1>2, <1>3

-----------------------------------------------------------------------------
(* The locks.                                                              *)

\* Assignments to one field of the kernel state.
WithHolder(h, l, x) == [h EXCEPT !.holder[l] = x]
WithRepeat(h, l, x) == [h EXCEPT !.repeat[l] = x]
WithValue(h, l, x) == [h EXCEPT !.value[l] = x]

\* The effect of lock->holder = x.
LEMMA SetHolder ==
  ASSUME NEW h \in KernelState, NEW l \in Lock, NEW x \in Thread \cup {NULL},
         NEW r, r = WithHolder(h, l, x)
  PROVE  /\ r \in KernelState /\ r.nx = h.nx /\ r.pv = h.pv
         /\ r.status = h.status /\ r.cur = h.cur /\ r.value = h.value
         /\ r.holder = [h.holder EXCEPT ![l] = x]
         /\ r.repeat = h.repeat /\ r.panic = h.panic
<1>1. r = [h EXCEPT !.holder = [h.holder EXCEPT ![l] = x]]
  BY DEF KernelState, WithHolder
<1>2. [h.holder EXCEPT ![l] = x] \in [Lock -> Thread \cup {NULL}]
  BY DEF KernelState
<1> QED BY <1>1, <1>2 DEF KernelState

\* The effect of lock->holder_repeat_nr = x.
LEMMA SetRepeat ==
  ASSUME NEW h \in KernelState, NEW l \in Lock, NEW x \in Nat,
         NEW r, r = WithRepeat(h, l, x)
  PROVE  /\ r \in KernelState /\ r.nx = h.nx /\ r.pv = h.pv
         /\ r.status = h.status /\ r.cur = h.cur /\ r.value = h.value
         /\ r.holder = h.holder
         /\ r.repeat = [h.repeat EXCEPT ![l] = x] /\ r.panic = h.panic
<1>1. r = [h EXCEPT !.repeat = [h.repeat EXCEPT ![l] = x]]
  BY DEF KernelState, WithRepeat
<1>2. [h.repeat EXCEPT ![l] = x] \in [Lock -> Nat]
  BY DEF KernelState
<1> QED BY <1>1, <1>2 DEF KernelState

\* The effect of sema->value = x.
LEMMA SetValue ==
  ASSUME NEW h \in KernelState, NEW l \in Lock, NEW x \in Nat,
         NEW r, r = WithValue(h, l, x)
  PROVE  /\ r \in KernelState /\ r.nx = h.nx /\ r.pv = h.pv
         /\ r.status = h.status /\ r.cur = h.cur
         /\ r.value = [h.value EXCEPT ![l] = x]
         /\ r.holder = h.holder /\ r.repeat = h.repeat /\ r.panic = h.panic
<1>1. r = [h EXCEPT !.value = [h.value EXCEPT ![l] = x]]
  BY KernelObjects DEF KernelState, WithValue
<1>2. [h.value EXCEPT ![l] = x] \in [Sem -> Nat]
  BY KernelObjects DEF KernelState
<1> QED BY <1>1, <1>2 DEF KernelState

\* What an action that leaves the scheduler's part of the kernel state alone
\* must still show: its locks, its program counter, and the wake-up condition.
Quiet ==
  /\ k' \in KernelState /\ k'.nx = k.nx /\ k'.pv = k.pv
  /\ k'.status = k.status /\ k'.cur = k.cur /\ k'.panic = k.panic

\* A quiet step leaves every thread on the list it is on.
LEMMA QuietStep ==
  ASSUME Inv, Quiet, TypeOK', PcInv',
         \A u \in Thread \ {k.cur} : pc'[u] = pc[u] /\ arg'[u] = arg[u],
         k.cur # idle_thread
  PROVE  Sched(k, Cls)' /\ StatusInv' /\ Cls' = Cls
<1>1. \A n \in Node : Class(n)' = Class(n)
  BY StatusType DEF Inv, Quiet, Class, StatusInv, RUNNING, READY, BLOCKED
<1>2. Cls' = Cls
  BY <1>1 DEF Cls
<1>3. Sched(k', Cls)
  BY SchedFrame DEF Inv, Quiet
<1>4. Sched(k, Cls)'
  BY <1>2, <1>3
<1>5. StatusInv'
  BY DEF Inv, Quiet, StatusInv, RUNNING, BLOCKED
<1> QED BY <1>2, <1>4, <1>5

\* The same for the wake-up condition.
LEMMA QuietWake ==
  ASSUME Inv, Quiet, Cls' = Cls, k'.value = k.value,
         \A u \in Thread \ {k.cur} : pc'[u] = pc[u] /\ arg'[u] = arg[u],
         pc[k.cur] # "queued"
  PROVE  WakeInv'
<1>1. \A t \in Thread : Class(t)' = Class(t)
  BY KernelObjects DEF Cls
<1>2. \A t \in Thread, l \in Lock : Coming(t, l) => Coming(t, l)'
  BY DEF Inv, Quiet, Coming
<1> QED BY <1>1, <1>2 DEF Inv, WakeInv, Quiet

\* thread_init() establishes the invariant.
LEMMA InitInv == Init => Inv
<1> SUFFICES ASSUME Init PROVE Inv
  OBVIOUS
<1>1. TypeOK
  <2>1. BootNext \in [Node -> Node \cup {NULL}] /\ BootPrev \in [Node -> Node \cup {NULL}]
    BY KernelObjects DEF BootNext, BootPrev
  <2> DEFINE st == [t \in Thread |-> CASE t = main_thread -> RUNNING
                                      [] t \in {init_process, idle_thread} -> READY
                                      [] OTHER -> NONE]
             v == [s \in Sem |-> IF s \in Lock THEN 1 ELSE 0]
             o == [l \in Lock |-> NULL]
             n == [l \in Lock |-> 0]
  <2>2. /\ st \in [Thread -> Status] /\ v \in [Sem -> Nat]
        /\ o \in [Lock -> Thread \cup {NULL}] /\ n \in [Lock -> Nat]
    BY DEF Status
  <2>3. k = [nx |-> BootNext, pv |-> BootPrev, status |-> st, ticks |-> Priority,
             cur |-> main_thread, value |-> v, holder |-> o, repeat |-> n,
             panic |-> "none"]
    BY DEF Init, thread_init
  <2> HIDE DEF st, v, o, n
  <2>4. k \in KernelState
    <3>1. "none" \in Panics
      BY DEF Panics
    <3>2. main_thread \in Thread
      BY KernelObjects
    <3> QED BY <2>1, <2>2, <2>3, <3>1, <3>2, PriorityType DEF KernelState
  <2>5. pc \in [Thread -> PC]
    BY DEF Init, PC
  <2> QED BY <2>4, <2>5 DEF Init, TypeOK
<1>2. /\ k.nx = BootNext /\ k.pv = BootPrev /\ k.cur = main_thread
      /\ k.panic = "none"
      /\ k.status = [t \in Thread |-> CASE t = main_thread -> RUNNING
                       [] t \in {init_process, idle_thread} -> READY
                       [] OTHER -> NONE]
      /\ k.value = [s \in Sem |-> IF s \in Lock THEN 1 ELSE 0]
      /\ k.holder = [l \in Lock |-> NULL] /\ k.repeat = [l \in Lock |-> 0]
  BY DEF Init, thread_init
<1>3. \A t \in Thread : /\ t = main_thread => k.status[t] = RUNNING
                        /\ t \in {init_process, idle_thread} => k.status[t] = READY
                        /\ t \notin {main_thread, init_process, idle_thread} => k.status[t] = NONE
  BY <1>2, KernelObjects
<1>4. /\ StatusInv /\ PcInv
  BY <1>2, <1>3, KernelObjects
     DEF Init, StatusInv, PcInv, Process, RUNNING, READY, BLOCKED, NONE
<1>5. LockInv /\ MutualExclusion
  BY <1>2, KernelObjects, NullIsNoNode DEF Init, LockInv, MutualExclusion, Holds, Stage
<1>6. \A n \in Node : Cls[n] = CASE n \in {init_process, idle_thread} -> thread_ready_list
                                 [] OTHER -> n
  BY <1>3, KernelObjects DEF Cls, Class, RUNNING, READY, BLOCKED, NONE
<1>7. Cls \in Classes
  <2>1. \A n \in Node : Class(n) \in Node
    BY <1>6, KernelObjects DEF Cls
  <2> QED BY <2>1 DEF Cls, Classes
<1>8. WakeInv
  BY <1>3, KernelObjects DEF WakeInv, Class, RUNNING, READY, BLOCKED, NONE
<1>9. Linked(BootNext, BootPrev, Cls)
  <2> DEFINE c == Cls
  <2>0. \A n \in Node : c[n] = CASE n \in {init_process, idle_thread} -> thread_ready_list
                                 [] OTHER -> n
    BY <1>6
  <2> HIDE DEF c
  <2>1. /\ \A n \in Node : BootNext[n] \in Node => BootPrev[BootNext[n]] = n /\ c[BootNext[n]] = c[n]
        /\ \A n \in Node : BootPrev[n] \in Node => BootNext[BootPrev[n]] = n
    BY <2>0, KernelObjects, NullIsNoNode DEF BootNext, BootPrev
  <2>2. /\ \A n \in Node : BootNext[n] = NULL <=> BootPrev[n] = NULL
        /\ \A n \in Node \ Thread : c[n] = n /\ BootNext[n] \in Node
        /\ \A n \in Node : c[n] # n => c[n] \in Node \ Thread
    BY <2>0, KernelObjects, NullIsNoNode DEF BootNext, BootPrev
  <2>3. \A n \in Node : Reached(BootNext, c[n], n)
    <3> SUFFICES ASSUME NEW n \in Node, NEW S \in SUBSET Node,
                        c[n] \in S, Closed(BootNext, S)
                 PROVE  n \in S
      BY DEF Reached
    <3>1. CASE n \notin {init_process, idle_thread}
      BY <3>1, <2>0
    <3>2. CASE n \in {init_process, idle_thread}
      <4>1. thread_ready_list \in S
        BY <3>2, <2>0
      <4>2. /\ BootNext[thread_ready_list] = init_process
            /\ BootNext[init_process] = idle_thread
        BY KernelObjects DEF BootNext
      <4>3. init_process \in S
        BY <4>1, <4>2, KernelObjects, NullIsNoNode DEF Closed
      <4>4. idle_thread \in S
        BY <4>2, <4>3, KernelObjects, NullIsNoNode DEF Closed
      <4> QED BY <3>2, <4>3, <4>4
    <3> QED BY <3>1, <3>2
  <2> QED BY <2>1, <2>2, <2>3 DEF Linked, c
<1>10. \A t \in Thread : k.status[t] = READY <=> Cls[t] = thread_ready_list
  BY <1>3, <1>6, KernelObjects DEF RUNNING, READY, NONE
<1>11. Sched(k, Cls)
  BY <1>1, <1>2, <1>7, <1>9, <1>10 DEF Sched, Halted, TypeOK
<1> QED BY <1>1, <1>4, <1>5, <1>8, <1>11 DEF Inv
-----------------------------------------------------------------------------
(* The current thread.                                                     *)

\* The running thread is on no list, idle can be woken when another thread
\* runs, and only sleeping threads are in waiting queues.
LEMMA Current ==
  ASSUME Inv
  PROVE  /\ k \in KernelState /\ k.cur \in Thread /\ k.status[k.cur] = RUNNING
         /\ Cls[k.cur] = k.cur /\ Cls \in Classes
         /\ k.cur # idle_thread => IdleAvailable(k, Cls)
         /\ \A t \in Thread : Cls[t] \in Sem => k.status[t] \in Asleep
<1>1. /\ k \in KernelState /\ k.cur \in Thread /\ k.status[k.cur] = RUNNING
      /\ k.cur \in Node /\ Cls \in Classes
  BY KernelObjects DEF Inv, Sched, StatusInv, KernelState
<1>2. Cls[k.cur] = k.cur
  BY <1>1 DEF Cls, Class, RUNNING, READY, BLOCKED
<1>3. k.cur # idle_thread => IdleAvailable(k, Cls)
  <2> SUFFICES ASSUME k.cur # idle_thread PROVE IdleAvailable(k, Cls)
    OBVIOUS
  <2>1. k.status[idle_thread] \in {READY, BLOCKED}
    BY KernelObjects DEF Inv, StatusInv, Process
  <2>2. k.status[idle_thread] = BLOCKED => Cls[idle_thread] = idle_thread
    BY KernelObjects DEF Cls, Class, READY, BLOCKED
  <2> QED BY <2>1, <2>2, StatusType DEF IdleAvailable
<1>4. \A t \in Thread : Cls[t] \in Sem => k.status[t] \in Asleep
  BY KernelObjects, StatusType DEF Cls, Class
<1> QED BY <1>1, <1>2, <1>3, <1>4

\* The holder field never names a thread that does not own the lock.
LEMMA HolderOwns ==
  ASSUME Inv, NEW t \in Thread, NEW l \in Lock, k.holder[l] = t
  PROVE  Holds(t, l)
<1>0. t # NULL
  BY NullIsNoNode, KernelObjects
<1>1. k.value[l] = 0
  BY <1>0 DEF Inv, LockInv
<1>2. PICK u \in Thread : Holds(u, l)
  BY <1>1 DEF Inv, LockInv
<1>3. Stage(u, l)
  BY <1>2 DEF Inv, LockInv
<1>4. k.holder[l] \in {u, NULL}
  BY <1>3 DEF Stage
<1> QED BY <1>0, <1>2, <1>4

\* The actions that neither switch threads nor touch a semaphore.
LockFieldAction(t, l) ==
  \/ lock_fetch_again(t, l) \/ lock_fetch(t, l) \/ lock_fetch_holder(t, l)
  \/ lock_fetch_repeat(t, l) \/ lock_release_again(t, l)
  \/ lock_release(t, l) \/ lock_release_repeat(t, l)

\* The assignments of lock_fetch and lock_release keep the invariant.
LEMMA LockFieldSteps ==
  ASSUME Inv, NEW t \in Thread, NEW l \in Lock, LockFieldAction(t, l)
  PROVE  Inv'
<1>0. /\ t = k.cur /\ t # idle_thread /\ TypeOK /\ k \in KernelState
      /\ k.repeat[l] \in Nat /\ held[t][l] \in Nat /\ pc[t] # "queued"
  BY DEF Inv, OnCpu, PcInv, TypeOK, KernelState, LockFieldAction, lock_fetch_again, lock_fetch,
         lock_fetch_holder, lock_fetch_repeat, lock_release_again, lock_release,
         lock_release_repeat
<1>1. SUFFICES /\ Quiet /\ k'.value = k.value /\ TypeOK' /\ PcInv'
               /\ \A u \in Thread \ {k.cur} : pc'[u] = pc[u] /\ arg'[u] = arg[u]
               /\ LockInv' /\ MutualExclusion'
  BY <1>0, QuietStep, QuietWake DEF Inv
<1>2. CASE lock_fetch_again(t, l)
  <2> DEFINE x == k.repeat[l] + 1
  <2>1. k' = WithRepeat(k, l, x) /\ x \in Nat
    BY <1>0, <1>2 DEF lock_fetch_again, WithRepeat
  <2> HIDE DEF x
  <2>2. Quiet /\ k'.value = k.value /\ k'.holder = k.holder
        /\ k'.repeat = [k.repeat EXCEPT ![l] = x]
    BY <1>0, <2>1, SetRepeat DEF Quiet
  <2>3. TypeOK'
    BY <1>0, <1>2, <2>2 DEF TypeOK, Quiet, lock_fetch_again, Count
  <2>4. PcInv'
    BY <1>2 DEF Inv, PcInv, lock_fetch_again
  <2>5. Holds(t, l)
    BY <1>2, HolderOwns DEF lock_fetch_again
  <2>6. LockInv' /\ MutualExclusion'
    BY <1>0, <1>2, <2>2, <2>5
       DEF Inv, LockInv, MutualExclusion, Stage, Holds, lock_fetch_again, Count, OnCpu,
           TypeOK, KernelState, x
  <2> QED BY <1>2, <2>2, <2>3, <2>4, <2>6 DEF lock_fetch_again
<1>3. CASE lock_fetch(t, l)
  <2>1. Quiet /\ k' = k
    BY <1>0, <1>3 DEF lock_fetch, Quiet
  <2>2. TypeOK' /\ PcInv'
    BY <1>0, <1>3 DEF Inv, TypeOK, PcInv, lock_fetch, Goto, PC
  <2>3. ~Holds(t, l)
    BY <1>0, <1>3 DEF Inv, LockInv, Stage, lock_fetch, OnCpu
  <2>4. LockInv' /\ MutualExclusion'
    BY <1>0, <1>3, <2>1, <2>3
       DEF Inv, LockInv, MutualExclusion, Stage, Holds, lock_fetch, Goto, OnCpu, TypeOK
  <2> QED BY <1>0, <1>3, <2>1, <2>2, <2>4 DEF lock_fetch, Goto, TypeOK
<1>4. CASE lock_fetch_holder(t, l)
  <2>0. k' = WithHolder(k, l, t)
    BY <1>4 DEF lock_fetch_holder, WithHolder
  <2>1. Quiet /\ k'.value = k.value /\ k'.repeat = k.repeat
        /\ k'.holder = [k.holder EXCEPT ![l] = t]
    BY <1>0, <2>0, SetHolder DEF Quiet
  <2>2. TypeOK' /\ PcInv'
    BY <1>0, <1>4, <2>1 DEF Inv, TypeOK, PcInv, lock_fetch_holder, Goto, PC, Quiet
  <2>3. Holds(t, l)
    BY <1>0, <1>4 DEF Inv, LockInv, lock_fetch_holder, OnCpu
  <2>4. LockInv' /\ MutualExclusion'
    BY <1>0, <1>4, <2>1, <2>3
       DEF Inv, LockInv, MutualExclusion, Stage, Holds, lock_fetch_holder, Goto, OnCpu,
           TypeOK, KernelState
  <2> QED BY <1>0, <1>4, <2>1, <2>2, <2>4 DEF lock_fetch_holder, Goto, TypeOK
<1>5. CASE lock_fetch_repeat(t, l)
  <2>1. Holds(t, l) /\ k.repeat[l] = 0
    BY <1>0, <1>5 DEF Inv, LockInv, Stage, lock_fetch_repeat, OnCpu
  <2>0. k' = WithRepeat(k, l, 1)
    BY <1>5, <2>1 DEF lock_fetch_repeat, WithRepeat
  <2>2. Quiet /\ k'.value = k.value /\ k'.holder = k.holder
        /\ k'.repeat = [k.repeat EXCEPT ![l] = 1]
    BY <1>0, <2>0, SetRepeat DEF Quiet
  <2>3. TypeOK' /\ PcInv'
    BY <1>0, <1>5, <2>2 DEF Inv, TypeOK, PcInv, lock_fetch_repeat, Goto, PC, Quiet
  <2>4. LockInv' /\ MutualExclusion'
    BY <1>0, <1>5, <2>2, <2>1
       DEF Inv, LockInv, MutualExclusion, Stage, Holds, lock_fetch_repeat, Goto, OnCpu,
           TypeOK, KernelState
  <2> QED BY <1>0, <1>5, <2>2, <2>3, <2>4 DEF lock_fetch_repeat, Goto, TypeOK
<1>6. CASE lock_release_again(t, l)
  <2> DEFINE x == k.repeat[l] - 1
  <2>1. k' = WithRepeat(k, l, x) /\ x \in Nat
    BY <1>0, <1>6 DEF lock_release_again, WithRepeat
  <2> HIDE DEF x
  <2>2. Quiet /\ k'.value = k.value /\ k'.holder = k.holder
        /\ k'.repeat = [k.repeat EXCEPT ![l] = x]
    BY <1>0, <2>1, SetRepeat DEF Quiet
  <2>3. TypeOK' /\ PcInv'
    BY <1>0, <1>6, <2>2 DEF Inv, TypeOK, PcInv, Quiet, lock_release_again, Count, Holds
  <2>4. LockInv' /\ MutualExclusion'
    BY <1>0, <1>6, <2>2
       DEF Inv, LockInv, MutualExclusion, Stage, Holds, lock_release_again, Count, OnCpu,
           TypeOK, KernelState, x
  <2> QED BY <1>6, <2>2, <2>3, <2>4 DEF lock_release_again
<1>7. CASE lock_release(t, l)
  <2>1. Holds(t, l) /\ k.repeat[l] = 1 /\ held[t][l] = 1 /\ k.holder[l] = t
    BY <1>0, <1>7 DEF Inv, LockInv, Stage, Holds, lock_release, OnCpu
  <2>0. k' = WithHolder(k, l, NULL)
    BY <1>7, <2>1 DEF lock_release, WithHolder
  <2>2. Quiet /\ k'.value = k.value /\ k'.repeat = k.repeat
        /\ k'.holder = [k.holder EXCEPT ![l] = NULL]
    BY <1>0, <2>0, SetHolder DEF Quiet
  <2>3. TypeOK' /\ PcInv'
    BY <1>0, <1>7, <2>2 DEF Inv, TypeOK, PcInv, lock_release, Goto, PC, Quiet
  <2>4. LockInv' /\ MutualExclusion'
    BY <1>0, <1>7, <2>2, <2>1
       DEF Inv, LockInv, MutualExclusion, Stage, Holds, lock_release, Goto, OnCpu,
           TypeOK, KernelState
  <2> QED BY <1>0, <1>7, <2>2, <2>3, <2>4 DEF lock_release, Goto, TypeOK
<1>8. CASE lock_release_repeat(t, l)
  <2>1. Holds(t, l)
    BY <1>0, <1>8 DEF Inv, LockInv, lock_release_repeat, OnCpu
  <2>0. k' = WithRepeat(k, l, 0)
    BY <1>8 DEF lock_release_repeat, WithRepeat
  <2>2. Quiet /\ k'.value = k.value /\ k'.holder = k.holder
        /\ k'.repeat = [k.repeat EXCEPT ![l] = 0]
    BY <1>0, <2>0, SetRepeat DEF Quiet
  <2>3. TypeOK' /\ PcInv'
    BY <1>0, <1>8, <2>2 DEF Inv, TypeOK, PcInv, lock_release_repeat, Goto, PC, Quiet
  <2>4. LockInv' /\ MutualExclusion'
    BY <1>0, <1>8, <2>2, <2>1
       DEF Inv, LockInv, MutualExclusion, Stage, Holds, lock_release_repeat, Goto, OnCpu,
           TypeOK, KernelState
  <2> QED BY <1>0, <1>8, <2>2, <2>3, <2>4 DEF lock_release_repeat, Goto, TypeOK
<1> QED BY <1>2, <1>3, <1>4, <1>5, <1>6, <1>7, <1>8 DEF LockFieldAction
-----------------------------------------------------------------------------
(* Steps that leave the locks alone.                                       *)

\* pc may only move inside idle(), or stay before the counter is taken.
PcFrame ==
  /\ pc' \in [Thread -> PC] /\ pc'[idle_thread] \in {"block", "hlt"}
  /\ \A t \in Thread \ {idle_thread} :
       \/ pc'[t] = pc[t]
       \/ {pc[t], pc'[t]} \subseteq {"user", "kernel"}
       \/ {pc[t], pc'[t]} \subseteq {"down", "queued"}

\* A step that touches no lock and leaves lock functions only by blocking or
\* waking keeps what the invariant says of the locks.
LEMMA LockFrame ==
  ASSUME Inv, k' \in KernelState, Objects(k)' = Objects(k), PcFrame,
         UNCHANGED <<arg, held>>
  PROVE  TypeOK' /\ PcInv' /\ LockInv' /\ MutualExclusion'
<1>0. k'.value = k.value /\ k'.holder = k.holder /\ k'.repeat = k.repeat
  BY DEF Objects
<1>1. TypeOK'
  BY DEF Inv, TypeOK, PcFrame
<1>2. PcInv'
  BY KernelObjects DEF Inv, PcInv, PcFrame
<1>3. pc[idle_thread] \in {"block", "hlt"}
  BY DEF Inv, PcInv
<1>4. \A t \in Thread, l \in Lock : Stage(t, l)' <=> Stage(t, l)
  BY <1>0, <1>3 DEF Stage, PcFrame
<1>5. \A t \in Thread, l \in Lock : Holds(t, l)' <=> Holds(t, l)
  BY DEF Holds
<1>6. \A t \in Thread : /\ pc'[t] \in {"taken", "held", "freed", "zeroed"} => pc[t] = pc'[t]
                        /\ pc'[t] \in {"down", "queued"} => pc[t] \in {"down", "queued"}
  BY <1>3 DEF PcFrame
<1>7. LockInv'
  BY <1>0, <1>4, <1>5, <1>6 DEF Inv, LockInv, Holds
<1>8. MutualExclusion'
  BY <1>5 DEF Inv, MutualExclusion
<1> QED BY <1>1, <1>2, <1>7, <1>8

\* The wake-up condition survives when no thread joins the queue of a free
\* lock and the threads on their way to a lock stay so.
LEMMA WakeFrame ==
  ASSUME Inv, k'.value = k.value,
         \A t \in Thread, l \in Lock : Class(t)' = l => Class(t) = l \/ k.value[l] = 0,
         \A t \in Thread, l \in Lock : Coming(t, l) => Coming(t, l)' \/ k.value[l] = 0
  PROVE  WakeInv'
BY DEF Inv, WakeInv

\* Entering and leaving a system call keep the invariant.
LEMMA SyscallSteps ==
  ASSUME Inv, NEW t \in Thread, enter_syscall(t) \/ leave_syscall(t)
  PROVE  Inv'
<1>1. /\ t = k.cur /\ t # idle_thread /\ k \in KernelState /\ k' = k
      /\ pc[t] \in {"user", "kernel"} /\ UNCHANGED <<arg, held>>
  BY DEF Inv, OnCpu, PcInv, Sched, enter_syscall, leave_syscall
<1>2. \/ pc' = [pc EXCEPT ![t] = "kernel"]
      \/ pc' = [pc EXCEPT ![t] = "user"]
  BY DEF enter_syscall, leave_syscall, Goto
<1>3. PcFrame
  BY <1>1, <1>2, KernelObjects DEF Inv, TypeOK, PcInv, PcFrame, PC
<1>4. TypeOK' /\ PcInv' /\ LockInv' /\ MutualExclusion'
  BY <1>1, <1>3, LockFrame DEF Objects
<1>5. Quiet
  BY <1>1 DEF Quiet
<1>6. \A u \in Thread \ {k.cur} : pc'[u] = pc[u] /\ arg'[u] = arg[u]
  BY <1>1, <1>2 DEF Inv, TypeOK
<1>7. Sched(k, Cls)' /\ StatusInv' /\ Cls' = Cls
  BY <1>1, <1>4, <1>5, <1>6, QuietStep
<1>8. WakeInv'
  BY <1>1, <1>5, <1>6, <1>7, QuietWake
<1> QED BY <1>4, <1>7, <1>8 DEF Inv

\* Starting a process keeps the invariant.
LEMMA SpawnStep ==
  ASSUME Inv, NEW t \in Thread, NEW child \in Process, spawn(t, child)
  PROVE  Inv'
<1>1. /\ child \in Thread /\ child # idle_thread /\ child \in Node
      /\ k.status[child] = NONE /\ UNCHANGED <<pc, arg, held>>
      /\ k.nx \in Pointers /\ k.pv \in Pointers /\ Cls \in Classes
      /\ Linked(k.nx, k.pv, Cls) /\ k.status \in [Thread -> Status]
  BY KernelObjects DEF Inv, spawn, Process, Sched, KernelState, Pointers
<1>2. Cls[child] = child
  BY <1>1 DEF Cls, Class, READY, BLOCKED, NONE
<1>3. k' = join_ready(k, child)
  BY <1>1, <1>2, NotFound, ReadyListIsNoThread DEF spawn, start_thread, OnReadyList
<1> DEFINE c == [Cls EXCEPT ![child] = thread_ready_list]
<1>4. /\ Sched(k', c) /\ k'.status = [k.status EXCEPT ![child] = READY]
      /\ k'.cur = k.cur /\ Objects(k)' = Objects(k)
  BY <1>1, <1>2, <1>3, JoinLemma DEF Inv, Objects
<1>5. PcFrame
  BY <1>1 DEF Inv, TypeOK, PcInv, PcFrame
<1>6. TypeOK' /\ PcInv' /\ LockInv' /\ MutualExclusion'
  BY <1>1, <1>4, <1>5, LockFrame DEF Sched
<1>7. \A n \in Node : Class(n)' = c[n]
  BY <1>1, <1>4, KernelObjects DEF Cls, Class, Classes
<1>8. Cls' = c
  BY <1>1, <1>7 DEF Cls, Classes
<1>9. StatusInv'
  BY <1>1, <1>4, KernelObjects DEF Inv, StatusInv, RUNNING, READY, BLOCKED, NONE
<1>10. \A u \in Thread, l \in Lock : Class(u)' = l => Class(u) = l
  BY <1>1, <1>7, KernelObjects DEF Cls
<1>11. \A u \in Thread, l \in Lock : Coming(u, l) => Coming(u, l)'
  BY <1>1, <1>4 DEF Coming, READY, RUNNING, NONE
<1>12. WakeInv'
  BY <1>4, <1>10, <1>11, WakeFrame DEF Objects
<1> QED BY <1>4, <1>6, <1>8, <1>9, <1>12 DEF Inv
-----------------------------------------------------------------------------
(* Steps that give the CPU away.                                           *)

\* The timer interrupt.  The thread it stops stays runnable.
LEMMA TimerStep ==
  ASSUME Inv, timer
  PROVE  Inv'
<1> DEFINE t == k.cur
<1>0. /\ t \in Thread /\ t \in Node /\ k.status[t] = RUNNING /\ Cls[t] = t /\ Cls \in Classes
      /\ k \in KernelState /\ k.status \in [Thread -> Status] /\ Sched(k, Cls)
      /\ UNCHANGED <<arg, held>> /\ pc \in [Thread -> PC]
  BY Current, KernelObjects DEF Inv, timer, TypeOK, KernelState
<1>1. PcFrame
  BY <1>0, KernelObjects DEF Inv, PcInv, timer, PcFrame, PC
<1>2. \A u \in Thread \ {idle_thread} : pc'[u] = pc[u]
  BY <1>0 DEF timer
<1>3. CASE k.ticks[t] # 0
  <2> DEFINE x == k.ticks[t] - 1
  <2>1. x \in Nat /\ k' = [k EXCEPT !.ticks = [k.ticks EXCEPT ![t] = x]]
    BY <1>0, <1>3 DEF timer, inthandler20, KernelState
  <2>2. [k.ticks EXCEPT ![t] = x] \in [Thread -> Nat]
    BY <1>0, <2>1 DEF KernelState
  <2> HIDE DEF x
  <2>3. Quiet /\ Objects(k)' = Objects(k)
    BY <1>0, <2>1, <2>2 DEF Quiet, Objects, KernelState
  <2>4. TypeOK' /\ PcInv' /\ LockInv' /\ MutualExclusion'
    BY <1>0, <1>1, <2>3, LockFrame DEF Quiet
  <2>5. \A n \in Node : Class(n)' = Class(n)
    BY <1>0, <2>3 DEF Quiet, Class
  <2>6. Cls' = Cls
    BY <2>5 DEF Cls
  <2>7. Sched(k', Cls)
    BY <1>0, <2>3, SchedFrame DEF Quiet
  <2>8. StatusInv'
    BY <1>2, <2>3 DEF Inv, StatusInv, Quiet
  <2>9. \A u \in Thread, l \in Lock : Coming(u, l) => Coming(u, l)'
    BY <1>0, <1>2, <2>3 DEF Inv, PcInv, Coming, Quiet
  <2>10. WakeInv'
    BY <2>3, <2>5, <2>9, KernelObjects, WakeFrame DEF Objects
  <2> QED BY <2>4, <2>6, <2>7, <2>8, <2>10 DEF Inv
<1>4. CASE k.ticks[t] = 0
  <2> DEFINE r == k'
             next == r.cur
             c == [[Cls EXCEPT ![t] = thread_ready_list] EXCEPT ![next] = next]
  <2>1. k' = schedule(k)
    BY <1>4 DEF timer, inthandler20
  <2>2. IdleAvailable(k, Cls) \/ (k.cur = idle_thread /\ k.status[k.cur] = RUNNING)
    BY <1>0, Current
  <2>3. /\ next \in Thread /\ next \in Node /\ Objects(k)' = Objects(k)
        /\ Sched(k', [Requeued(k, Cls, thread_ready_list) EXCEPT ![next] = next])
        /\ k'.status = [Requeued(k, k.status, READY) EXCEPT ![next] = RUNNING]
        /\ \/ Requeued(k, k.status, READY)[next] = READY
           \/ next = idle_thread /\ k.status[next] \in Asleep
    BY <1>0, <2>1, <2>2, ScheduleLemma, KernelObjects DEF Objects
  <2>4. /\ Sched(k', c)
        /\ k'.status = [[k.status EXCEPT ![t] = READY] EXCEPT ![next] = RUNNING]
        /\ \/ k.status[next] = READY \/ next = t
           \/ next = idle_thread /\ k.status[next] \in Asleep
    BY <1>0, <2>3 DEF Requeued
  <2>5. TypeOK' /\ PcInv' /\ LockInv' /\ MutualExclusion'
    BY <1>0, <1>1, <2>3, LockFrame DEF Sched
  <2>6. \A n \in Node : Class(n)' = c[n]
    BY <1>0, <2>3, <2>4, KernelObjects DEF Cls, Class, Classes, RUNNING, READY, BLOCKED
  <2>7. Cls' = c
    BY <1>0, <2>3, <2>6 DEF Cls, Classes
  <2>8. StatusInv'
    BY <1>0, <1>2, <2>3, <2>4, KernelObjects DEF Inv, StatusInv, RUNNING, READY, BLOCKED, NONE
  <2>9. \A u \in Thread, l \in Lock : Class(u)' = l => Class(u) = l
    <3>1. \A u \in Thread : Class(u) = Cls[u] /\ u \in Node
      BY KernelObjects DEF Cls
    <3> QED BY <1>0, <2>3, <2>6, <3>1, KernelObjects DEF Classes
  <2>10. \A u \in Thread, l \in Lock : Coming(u, l) => Coming(u, l)'
    BY <1>0, <1>2, <2>3, <2>4 DEF Inv, PcInv, Coming, RUNNING, READY
  <2>11. WakeInv'
    BY <2>3, <2>9, <2>10, WakeFrame DEF Objects
  <2> QED BY <2>4, <2>5, <2>7, <2>8, <2>11 DEF Inv
<1> QED BY <1>3, <1>4

\* thread_block in idle(): the idle thread gives way, or finds itself alone
\* and is put back.
LEMMA IdleStep ==
  ASSUME Inv, idle
  PROVE  Inv'
<1> DEFINE i == idle_thread
           st == [k.status EXCEPT ![i] = BLOCKED]
           b == [k EXCEPT !.status = st]
           next == k'.cur
           c == [Cls EXCEPT ![next] = next]
<1>0. /\ i \in Thread /\ i \in Node /\ k.status[i] = RUNNING /\ Cls[i] = i /\ Cls \in Classes
      /\ k \in KernelState /\ k.status \in [Thread -> Status] /\ Sched(k, Cls)
      /\ UNCHANGED <<arg, held>> /\ pc \in [Thread -> PC] /\ k.cur = i
  BY Current, KernelObjects DEF Inv, idle, OnCpu, TypeOK, KernelState
<1>1. PcFrame /\ \A u \in Thread \ {i} : pc'[u] = pc[u]
  BY <1>0 DEF Inv, PcInv, idle, Goto, PcFrame, PC
<1>2. k' = schedule(b) /\ st \in [Thread -> Status]
  BY <1>0, StatusType DEF idle, thread_block, KernelState
<1>3. /\ b \in KernelState /\ b.status = st /\ b.cur = i /\ b.nx = k.nx /\ b.pv = k.pv
      /\ b.panic = k.panic /\ Objects(b) = Objects(k)
  BY <1>0, <1>2 DEF KernelState, Objects
<1> HIDE DEF b
<1>4. Sched(b, Cls)
  BY <1>0, <1>3, StatusType, ReadyListIsNoThread DEF Sched, Halted
<1>5. b.status[b.cur] \in Asleep /\ IdleAvailable(b, Cls)
  BY <1>0, <1>3, StatusType DEF IdleAvailable
<1>6. /\ next \in Thread /\ Objects(k') = Objects(b)
      /\ Sched(k', [Requeued(b, Cls, thread_ready_list) EXCEPT ![next] = next])
      /\ k'.status = [Requeued(b, b.status, READY) EXCEPT ![next] = RUNNING]
      /\ \/ Requeued(b, b.status, READY)[next] = READY
         \/ next = idle_thread /\ b.status[next] \in Asleep
  BY <1>2, <1>4, <1>5, ScheduleLemma
<1>7. b.status[b.cur] # RUNNING
  BY <1>5, StatusType
<1>8. /\ Sched(k', c) /\ k'.status = [st EXCEPT ![next] = RUNNING]
      /\ st[next] = READY \/ next = i
      /\ next \in Node
  BY <1>3, <1>6, <1>7, KernelObjects DEF Requeued
<1>9. Objects(k)' = Objects(k)
  BY <1>3, <1>6 DEF Objects
<1>10. TypeOK' /\ PcInv' /\ LockInv' /\ MutualExclusion'
  BY <1>0, <1>1, <1>8, <1>9, LockFrame DEF Sched
<1>11. \A n \in Node : Class(n)' = c[n]
  BY <1>0, <1>6, <1>8, KernelObjects DEF Cls, Class, Classes, RUNNING, READY, BLOCKED
<1>12. Cls' = c
  BY <1>0, <1>8, <1>11 DEF Cls, Classes
<1>13. StatusInv'
  BY <1>0, <1>1, <1>6, <1>8, KernelObjects DEF Inv, StatusInv, RUNNING, READY, BLOCKED, NONE
<1>14. \A u \in Thread, l \in Lock : Class(u)' = l => Class(u) = l
  <2>1. \A u \in Thread : Class(u) = Cls[u] /\ u \in Node
    BY KernelObjects DEF Cls
  <2> QED BY <1>0, <1>6, <1>8, <1>11, <2>1, KernelObjects DEF Classes
<1>15. \A u \in Thread, l \in Lock : Coming(u, l) => Coming(u, l)'
  BY <1>0, <1>1, <1>6, <1>8 DEF Inv, PcInv, Coming, RUNNING, READY
<1>16. WakeInv'
  BY <1>9, <1>14, <1>15, WakeFrame DEF Objects
<1> QED BY <1>8, <1>10, <1>12, <1>13, <1>16 DEF Inv
-----------------------------------------------------------------------------
(* The semaphore inside the lock.                                          *)

\* semaphore_down with the counter at 0: the thread queues up and sleeps.
LEMMA QueueStep ==
  ASSUME Inv, NEW t \in Thread, NEW l \in Lock, lock_fetch_down(t, l), k.value[l] = 0
  PROVE  Inv'
<1> DEFINE next == k'.cur
           c == [[Cls EXCEPT ![t] = l] EXCEPT ![next] = next]
<1>0. /\ t = k.cur /\ t \in Node /\ k.status[t] = RUNNING /\ Cls[t] = t /\ Cls \in Classes
      /\ k \in KernelState /\ k.status \in [Thread -> Status] /\ Sched(k, Cls)
      /\ k.nx \in Pointers /\ k.pv \in Pointers /\ Linked(k.nx, k.pv, Cls)
      /\ UNCHANGED <<arg, held>> /\ pc \in [Thread -> PC] /\ arg[t] = l
      /\ pc[t] \in {"down", "queued"} /\ l \in Node \ Thread /\ l \in Sem
  BY Current, KernelObjects DEF Inv, lock_fetch_down, OnCpu, TypeOK, KernelState, Sched, Pointers
<1>1. t # idle_thread /\ IdleAvailable(k, Cls)
  BY <1>0, Current DEF Inv, PcInv
<1>2. ~list_find_element(k, t, l)
  BY <1>0, NotFound
<1>3. k' = thread_block(list_add_tail(k, k.cur, l), BLOCKED)
  BY <1>0, <1>2 DEF lock_fetch_down, semaphore_down
<1>4. /\ next \in Thread /\ next # t /\ Sched(k', c)
      /\ k'.status = [[k.status EXCEPT ![t] = BLOCKED] EXCEPT ![next] = RUNNING]
      /\ k.status[next] = READY \/ (next = idle_thread /\ k.status[next] \in Asleep)
      /\ Objects(k') = Objects(k)
  <2>1. /\ k.status[k.cur] = RUNNING /\ Cls[k.cur] = k.cur /\ k.cur # idle_thread
        /\ IdleAvailable(k, Cls) /\ Sched(k, Cls) /\ l \in Sem
    BY <1>0, <1>1
  <2>2. /\ next \in Thread /\ next # k.cur
        /\ Sched(k', [[Cls EXCEPT ![k.cur] = l] EXCEPT ![next] = next])
        /\ k'.status = [[k.status EXCEPT ![k.cur] = BLOCKED] EXCEPT ![next] = RUNNING]
        /\ k.status[next] = READY \/ (next = idle_thread /\ k.status[next] \in Asleep)
        /\ Objects(k') = Objects(k)
    BY <1>3, <2>1, QueueLemma
  <2> QED BY <1>0, <2>2
<1>5. pc' = [pc EXCEPT ![t] = "queued"]
  BY DEF lock_fetch_down, Goto
<1>6. PcFrame
  BY <1>0, <1>1, <1>5, KernelObjects DEF Inv, PcInv, PcFrame, PC
<1>7. TypeOK' /\ PcInv' /\ LockInv' /\ MutualExclusion'
  BY <1>0, <1>4, <1>6, LockFrame DEF Sched, Objects
<1>8. \A n \in Node : Class(n)' = c[n]
  BY <1>0, <1>1, <1>4, KernelObjects DEF Cls, Class, Classes, RUNNING, READY, BLOCKED
<1>9. next \in Node /\ Cls' = c
  BY <1>0, <1>4, <1>8, KernelObjects DEF Cls, Classes
<1>10. StatusInv'
  BY <1>0, <1>1, <1>4, <1>5, KernelObjects DEF Inv, StatusInv, RUNNING, READY, BLOCKED, NONE
<1>11. \A u \in Thread, m \in Lock : Class(u)' = m => Class(u) = m \/ k.value[m] = 0
  <2>1. \A u \in Thread : Class(u) = Cls[u] /\ u \in Node
    BY KernelObjects DEF Cls
  <2> QED BY <1>0, <1>4, <1>8, <1>9, <2>1, KernelObjects DEF Classes
<1>12. \A u \in Thread, m \in Lock : Coming(u, m) => Coming(u, m)' \/ k.value[m] = 0
  BY <1>0, <1>4, <1>5 DEF Coming, RUNNING, READY
<1>13. WakeInv'
  BY <1>4, <1>11, <1>12, WakeFrame DEF Objects
<1> QED BY <1>4, <1>7, <1>9, <1>10, <1>13 DEF Inv

\* semaphore_down with the counter at 1: the thread takes the lock.
LEMMA TakeStep ==
  ASSUME Inv, NEW t \in Thread, NEW l \in Lock, lock_fetch_down(t, l), k.value[l] # 0
  PROVE  Inv'
<1>0. /\ t = k.cur /\ t # idle_thread /\ TypeOK /\ k \in KernelState /\ k.value[l] = 1
      /\ pc[t] \in {"down", "queued"} /\ arg[t] = l /\ arg' = arg /\ l \in Sem
  BY KernelObjects DEF Inv, lock_fetch_down, OnCpu, LockInv, PcInv, TypeOK
<1>1. k' = WithValue(k, l, 0)
  BY <1>0 DEF lock_fetch_down, semaphore_down, WithValue, KernelState
<1>2. /\ Quiet /\ k'.value = [k.value EXCEPT ![l] = 0]
      /\ k'.holder = k.holder /\ k'.repeat = k.repeat
  BY <1>0, <1>1, SetValue DEF Quiet
<1>3. held[t][l] = 0 /\ pc' = [pc EXCEPT ![t] = "taken"]
      /\ held' = [held EXCEPT ![t] = [held[t] EXCEPT ![l] = 1]]
  <2>1. held[t][l] = 0
    BY <1>0 DEF Inv, LockInv, Holds, TypeOK
  <2> QED BY <1>0, <2>1 DEF lock_fetch_down, Goto, Count, TypeOK
<1>4. TypeOK' /\ PcInv'
  BY <1>0, <1>2, <1>3 DEF Inv, TypeOK, PcInv, PC, Quiet
<1>5. \A u \in Thread \ {k.cur} : pc'[u] = pc[u] /\ arg'[u] = arg[u]
  BY <1>0, <1>3 DEF TypeOK
<1>6. Sched(k, Cls)' /\ StatusInv' /\ Cls' = Cls
  BY <1>0, <1>2, <1>4, <1>5, QuietStep
<1>7. \A u \in Thread : ~Holds(u, l)
  BY <1>0 DEF Inv, LockInv
<1>8. \A u \in Thread, m \in Lock :
        Holds(u, m)' <=> (Holds(u, m) \/ (u = t /\ m = l))
  BY <1>0, <1>3 DEF TypeOK, Holds
<1>9. MutualExclusion'
  BY <1>7, <1>8 DEF Inv, MutualExclusion
<1>10. \A u \in Thread, m \in Lock : Holds(u, m) => Stage(u, m)'
  <2> SUFFICES ASSUME NEW u \in Thread, NEW m \in Lock, Holds(u, m) PROVE Stage(u, m)'
    OBVIOUS
  <2>1. m # l /\ Stage(u, m)
    BY <1>7 DEF Inv, LockInv
  <2> QED BY <1>0, <1>2, <1>3, <2>1 DEF Stage, TypeOK
<1>11. Stage(t, l)'
  BY <1>0, <1>2, <1>3 DEF Inv, LockInv, Stage, TypeOK
<1>12. LockInv'
  <2>1. \A m \in Lock : /\ m = l => k'.value[m] = 0
                        /\ m # l => k'.value[m] = k.value[m]
    BY <1>0, <1>2, KernelObjects DEF KernelState
  <2>2. \A m \in Lock : k'.value[m] \in {0, 1}
    BY <2>1 DEF Inv, LockInv
  <2>3. \A m \in Lock : k'.value[m] = 1 => k'.holder[m] = NULL /\ k'.repeat[m] = 0
    BY <1>2, <2>1 DEF Inv, LockInv
  <2>4. \A m \in Lock : k'.value[m] = 0 => \E u \in Thread : Holds(u, m)'
    BY <1>8, <2>1 DEF Inv, LockInv
  <2>5. \A u \in Thread, m \in Lock : Holds(u, m)' => k'.value[m] = 0 /\ Stage(u, m)'
    BY <1>8, <1>10, <1>11, <2>1 DEF Inv, LockInv
  <2>6. \A u \in Thread : pc'[u] \in {"taken", "held", "freed", "zeroed"} => Holds(u, arg[u])'
    BY <1>0, <1>3, <1>8 DEF Inv, LockInv, PcInv, TypeOK
  <2>7. \A u \in Thread : pc'[u] \in {"down", "queued"} => ~Holds(u, arg[u])'
    BY <1>0, <1>3, <1>8 DEF Inv, LockInv, PcInv, TypeOK
  <2> QED BY <2>2, <2>3, <2>4, <2>5, <2>6, <2>7 DEF LockInv
<1>13. WakeInv'
  <2>1. \A u \in Thread : Class(u)' = Class(u)
    BY <1>6, KernelObjects DEF Cls
  <2>2. \A u \in Thread, m \in Lock : m # l /\ Coming(u, m) => Coming(u, m)'
    BY <1>0, <1>2, <1>3 DEF Coming, Quiet, TypeOK
  <2>3. \A m \in Lock : k'.value[m] = 1 => m # l /\ k.value[m] = 1
    BY <1>0, <1>2 DEF KernelState
  <2> QED BY <2>1, <2>2, <2>3 DEF Inv, WakeInv
<1> QED BY <1>4, <1>6, <1>9, <1>12, <1>13 DEF Inv

\* semaphore_up: the lock is free again and its first waiter is made ready.
LEMMA ReleaseStep ==
  ASSUME Inv, NEW t \in Thread, NEW l \in Lock, lock_release_up(t, l)
  PROVE  Inv'
<1>0. /\ t = k.cur /\ t \in Node /\ k \in KernelState /\ Sched(k, Cls) /\ Cls \in Classes
      /\ k.status \in [Thread -> Status] /\ k.status[t] = RUNNING
      /\ pc[t] = "zeroed" /\ arg[t] = l /\ arg' = arg /\ l \in Sem /\ l \in Node
      /\ pc \in [Thread -> PC] /\ held \in [Thread -> [Lock -> Nat]]
  BY Current, KernelObjects DEF Inv, lock_release_up, OnCpu, TypeOK, KernelState
<1>1. /\ Holds(t, l) /\ k.value[l] = 0 /\ held[t][l] = 1
      /\ k.holder[l] = NULL /\ k.repeat[l] = 0
  BY <1>0 DEF Inv, LockInv, Stage
<1>2. /\ pc' = [pc EXCEPT ![t] = "kernel"]
      /\ held' = [held EXCEPT ![t] = [held[t] EXCEPT ![l] = 0]]
      /\ k' = semaphore_up(k, l)
  BY <1>0, <1>1 DEF lock_release_up, Goto, Count
<1>3. t # idle_thread
  BY <1>0 DEF Inv, PcInv
<1>4. /\ k'.cur = k.cur /\ k'.holder = k.holder /\ k'.repeat = k.repeat
      /\ k'.value = [k.value EXCEPT ![l] = 1]
      /\ \/ /\ \A u \in Thread : Cls[u] # l
            /\ Sched(k', Cls) /\ k'.status = k.status
         \/ \E u \in Thread : Woken(k, Cls, l, k', u)
  <2>1. \A u \in Thread : Cls[u] = l => k.status[u] \in Asleep
    BY <1>0, Current
  <2>2. Sched(k, Cls) /\ l \in Sem /\ k.value[l] = 0 /\ k' = semaphore_up(k, l)
    BY <1>0, <1>1, <1>2
  <2> QED BY <2>1, <2>2, UpLemma
<1>5. TypeOK'
  <2>1. k' \in KernelState
    BY <1>4 DEF Sched, Woken
  <2> QED BY <1>0, <1>2, <2>1 DEF Inv, TypeOK, PC
<1>6. PcInv'
  BY <1>0, <1>2, <1>3, KernelObjects DEF Inv, PcInv
<1>7. \A u \in Thread, m \in Lock :
        Holds(u, m)' <=> (Holds(u, m) /\ m # l)
  <2>1. \A u \in Thread : Holds(u, l) => u = t
    BY <1>1 DEF Inv, MutualExclusion
  <2> QED BY <1>0, <1>2, <2>1 DEF Holds
<1>8. MutualExclusion'
  BY <1>7 DEF Inv, MutualExclusion
<1>9. LockInv'
  <2>1. \A m \in Lock : /\ m = l => k'.value[m] = 1
                        /\ m # l => k'.value[m] = k.value[m]
    BY <1>0, <1>4, KernelObjects DEF KernelState
  <2>2. \A m \in Lock : k'.value[m] \in {0, 1}
    BY <2>1 DEF Inv, LockInv
  <2>3. \A m \in Lock : k'.value[m] = 1 => k'.holder[m] = NULL /\ k'.repeat[m] = 0
    BY <1>1, <1>4, <2>1 DEF Inv, LockInv
  <2>4. \A m \in Lock : k'.value[m] = 0 => \E u \in Thread : Holds(u, m)'
    BY <1>7, <2>1 DEF Inv, LockInv
  <2>5. \A u \in Thread, m \in Lock : Holds(u, m)' => k'.value[m] = 0 /\ Stage(u, m)'
    <3> SUFFICES ASSUME NEW u \in Thread, NEW m \in Lock, Holds(u, m)'
                 PROVE  k'.value[m] = 0 /\ Stage(u, m)'
      OBVIOUS
    <3>1. Holds(u, m) /\ m # l /\ k.value[m] = 0 /\ Stage(u, m)
      BY <1>7 DEF Inv, LockInv
    <3> QED BY <1>0, <1>2, <1>4, <2>1, <3>1 DEF Stage
  <2>6. \A u \in Thread : pc'[u] \in {"taken", "held", "freed", "zeroed"} => Holds(u, arg[u])'
    <3> SUFFICES ASSUME NEW u \in Thread, pc'[u] \in {"taken", "held", "freed", "zeroed"}
                 PROVE  Holds(u, arg[u])'
      OBVIOUS
    <3>1. u # t /\ pc[u] = pc'[u] /\ arg'[u] = arg[u] /\ arg[u] \in Lock
      BY <1>0, <1>2 DEF Inv, PcInv
    <3>2. Holds(u, arg[u])
      BY <3>1 DEF Inv, LockInv
    <3>3. arg[u] # l
      BY <1>1, <3>1, <3>2 DEF Inv, MutualExclusion
    <3> QED BY <1>0, <1>7, <3>1, <3>2, <3>3
  <2>7. \A u \in Thread : pc'[u] \in {"down", "queued"} => ~Holds(u, arg[u])'
    BY <1>0, <1>2, <1>7 DEF Inv, LockInv, PcInv
  <2> QED BY <2>2, <2>3, <2>4, <2>5, <2>6, <2>7 DEF LockInv
<1>10. \A u \in Thread : Class(u) = Cls[u] /\ u \in Node
  BY KernelObjects DEF Cls
<1>11. CASE (\A u \in Thread : Cls[u] # l) /\ Sched(k', Cls) /\ k'.status = k.status
  <2>1. \A n \in Node : Class(n)' = Class(n)
    BY <1>0, <1>11 DEF Class
  <2>2. Cls' = Cls
    BY <2>1 DEF Cls
  <2>3. StatusInv'
    BY <1>0, <1>2, <1>4, <1>11 DEF Inv, StatusInv, RUNNING, BLOCKED
  <2>4. \A u \in Thread, m \in Lock : Coming(u, m) => Coming(u, m)'
    BY <1>0, <1>2, <1>11 DEF Coming
  <2>5. WakeInv'
    BY <1>0, <1>4, <1>10, <1>11, <2>1, <2>4 DEF Inv, WakeInv, KernelState
  <2> QED BY <1>5, <1>6, <1>8, <1>9, <1>11, <2>2, <2>3, <2>5 DEF Inv
<1>12. ASSUME NEW u \in Thread, Cls[u] = l,
              Sched(k', [Cls EXCEPT ![u] = thread_ready_list]),
              k'.status = [k.status EXCEPT ![u] = READY]
       PROVE  Inv'
  <2> DEFINE c == [Cls EXCEPT ![u] = thread_ready_list]
  <2>1. /\ k.status[u] = BLOCKED /\ u # idle_thread /\ arg[u] = l /\ u # t /\ pc[u] = "queued"
    BY <1>0, <1>10, <1>12, KernelObjects DEF Inv, Class, StatusInv, RUNNING, READY, BLOCKED
  <2>2. \A n \in Node : Class(n)' = c[n]
    BY <1>0, <1>12, KernelObjects DEF Cls, Class, Classes
  <2>3. Cls' = c
    BY <1>0, <1>10, <2>2 DEF Cls, Classes
  <2>4. StatusInv'
    BY <1>0, <1>2, <1>4, <1>12, <2>1, KernelObjects
       DEF Inv, StatusInv, RUNNING, READY, BLOCKED, NONE
  <2>5. Coming(u, l)'
    BY <1>0, <1>2, <1>12, <2>1 DEF Coming
  <2>6. \A v \in Thread, m \in Lock : Coming(v, m) => Coming(v, m)'
    BY <1>0, <1>2, <1>12 DEF Coming
  <2>7. \A v \in Thread, m \in Lock : Class(v)' = m => Class(v) = m
    BY <1>0, <1>10, <1>12, <2>2, KernelObjects DEF Classes
  <2>8. \A m \in Lock : k'.value[m] = 1 => m = l \/ k.value[m] = 1
    BY <1>0, <1>4 DEF KernelState
  <2>9. WakeInv'
    BY <2>5, <2>6, <2>7, <2>8 DEF Inv, WakeInv
  <2> QED BY <1>5, <1>6, <1>8, <1>9, <1>12, <2>3, <2>4, <2>9 DEF Inv
<1> QED BY <1>4, <1>11, <1>12 DEF Woken

-----------------------------------------------------------------------------
(* The theorems.                                                           *)

\* Every step keeps the invariant.
LEMMA NextInv == Inv /\ [Next]_vars => Inv'
<1> SUFFICES ASSUME Inv, [Next]_vars PROVE Inv'
  OBVIOUS
<1>1. CASE timer
  BY <1>1, TimerStep
<1>2. CASE idle
  BY <1>2, IdleStep
<1>3. ASSUME NEW t \in Thread, enter_syscall(t) \/ leave_syscall(t) PROVE Inv'
  BY <1>3, SyscallSteps
<1>4. ASSUME NEW t \in Thread, NEW child \in Process, spawn(t, child) PROVE Inv'
  BY <1>4, SpawnStep
<1>5. ASSUME NEW t \in Thread, NEW l \in Lock, LockFieldAction(t, l) PROVE Inv'
  BY <1>5, LockFieldSteps
<1>6. ASSUME NEW t \in Thread, NEW l \in Lock, lock_fetch_down(t, l) PROVE Inv'
  BY <1>6, QueueStep, TakeStep
<1>7. ASSUME NEW t \in Thread, NEW l \in Lock, lock_release_up(t, l) PROVE Inv'
  BY <1>7, ReleaseStep
<1>8. CASE UNCHANGED vars
  <2>1. UNCHANGED <<k, pc, arg, held>>
    BY <1>8 DEF vars
  <2>2. Cls' = Cls /\ Sched(k, Cls)' = Sched(k, Cls) /\ TypeOK' = TypeOK
    BY <2>1 DEF Cls, Class, TypeOK
  <2>3. /\ StatusInv' = StatusInv /\ PcInv' = PcInv /\ WakeInv' = WakeInv
        /\ MutualExclusion' = MutualExclusion
    BY <2>1 DEF StatusInv, PcInv, WakeInv, MutualExclusion, Class, Coming, Holds
  <2>4. LockInv' = LockInv
    BY <2>1 DEF LockInv, Holds, Stage
  <2> QED BY <2>2, <2>3, <2>4 DEF Inv
<1> QED BY <1>1, <1>2, <1>3, <1>4, <1>5, <1>6, <1>7, <1>8
        DEF Next, Finish, Continue, Release, LockFieldAction

\* Inv holds in every reachable state: the lists of the scheduler and of the
\* semaphores agree with the threads' status words, and the fields of every
\* lock with who owns it, at each point where the timer may interrupt.
THEOREM Invariance == Spec => []Inv
<1>1. Init => Inv
  BY InitInv
<1>2. Inv /\ [Next]_vars => Inv'
  BY NextInv
<1> QED BY <1>1, <1>2, PTL DEF Spec

\* No ASSERT or PANIC of schedule, thread_block, thread_unblock, start of a
\* thread, semaphore_down, semaphore_up, lock_fetch or lock_release fires.
THEOREM PanicFree == Spec => []NoPanic
<1>1. Inv => NoPanic
  BY DEF Inv, Sched, NoPanic
<1> QED BY <1>1, Invariance, PTL

\* No two threads own a lock at once.
THEOREM Exclusion == Spec => []MutualExclusion
<1>1. Inv => MutualExclusion
  BY DEF Inv
<1> QED BY <1>1, Invariance, PTL

\* No thread sleeps in the queue of a free lock unless another thread that
\* is awake is on its way to taking that lock.
THEOREM WakeUps == Spec => []NoLostWakeup
<1>1. Inv => NoLostWakeup
  <2> SUFFICES ASSUME Inv, NEW l \in Lock, k.value[l] = 1, ~list_is_empty(k, l)
               PROVE  \E t \in Thread : Coming(t, l)
    BY DEF NoLostWakeup
  <2>1. /\ k.nx \in Pointers /\ k.pv \in Pointers /\ Cls \in Classes
        /\ Linked(k.nx, k.pv, Cls) /\ l \in Node \ Thread /\ k.nx[l] # l
    BY KernelObjects DEF Inv, Sched, KernelState, Pointers, list_is_empty
  <2>2. k.nx[l] \in Thread /\ Cls[k.nx[l]] = l
    BY <2>1, FirstElement
  <2>3. Class(k.nx[l]) = l
    BY <2>2, KernelObjects DEF Cls
  <2> QED BY <2>2, <2>3 DEF Inv, WakeInv
<1> QED BY <1>1, Invariance, PTL

\* Every state is well typed.
THEOREM TypeCorrect == Spec => []TypeOK
<1>1. Inv => TypeOK
  BY DEF Inv
<1> QED BY <1>1, Invariance, PTL

-----------------------------------------------------------------------------
(* Refinement.                                                             *)

\* A step of Locks is a step of RecursiveLock on the history variable held,
\* or leaves it alone.
LEMMA LockStep == Inv /\ [Next]_vars => [AbstractLock!Next]_held
<1> SUFFICES ASSUME Inv, Next, held' # held PROVE AbstractLock!Next
  BY DEF vars
<1>0. held \in [Thread -> [Lock -> Nat]]
  BY DEF Inv, TypeOK
<1>1. ASSUME NEW t \in Thread, NEW l \in Lock, lock_fetch_again(t, l)
      PROVE  AbstractLock!Fetch(t, l)
  <2>1. Holds(t, l)
    BY <1>1, HolderOwns DEF lock_fetch_again
  <2>2. AbstractLock!Free(t, l)
    BY <1>0, <2>1 DEF Inv, MutualExclusion, Holds, AbstractLock!Free
  <2> QED BY <1>0, <1>1, <2>2 DEF lock_fetch_again, Count, AbstractLock!Fetch
<1>2. ASSUME NEW t \in Thread, NEW l \in Lock, lock_fetch_down(t, l)
      PROVE  AbstractLock!Fetch(t, l)
  <2>1. k.value[l] # 0 /\ held' = [held EXCEPT ![t] = [held[t] EXCEPT ![l] = held[t][l] + 1]]
    BY <1>2 DEF lock_fetch_down, Count
  <2>2. AbstractLock!Free(t, l)
    BY <1>0, <2>1 DEF Inv, LockInv, Holds, AbstractLock!Free
  <2> QED BY <1>0, <2>1, <2>2 DEF AbstractLock!Fetch
<1>3. ASSUME NEW t \in Thread, NEW l \in Lock, lock_release_again(t, l)
      PROVE  AbstractLock!Release(t, l)
  BY <1>0, <1>3 DEF lock_release_again, Holds, Count, AbstractLock!Release
<1>4. ASSUME NEW t \in Thread, NEW l \in Lock, lock_release_up(t, l)
      PROVE  AbstractLock!Release(t, l)
  <2>1. Holds(t, l)
    BY <1>4 DEF Inv, LockInv, lock_release_up, OnCpu
  <2> QED BY <1>0, <1>4, <2>1 DEF lock_release_up, Holds, Count, AbstractLock!Release
<1>5. \E t \in Thread, l \in Lock :
        \/ lock_fetch_again(t, l) \/ lock_fetch_down(t, l)
        \/ lock_release_again(t, l) \/ lock_release_up(t, l)
  BY DEF Next, Finish, Continue, Release, timer, idle, enter_syscall, leave_syscall, spawn,
         lock_fetch, lock_fetch_holder, lock_fetch_repeat, lock_release, lock_release_repeat
<1> QED BY <1>1, <1>2, <1>3, <1>4, <1>5 DEF AbstractLock!Next

\* Locks implements RecursiveLock.
THEOREM Refinement == Spec => ImplementsLock
<1>1. Init => AbstractLock!Init
  BY DEF Init, AbstractLock!Init
<1>2. Inv /\ [Next]_vars => [AbstractLock!Next]_held
  BY LockStep
<1> QED BY <1>1, <1>2, Invariance, PTL DEF Spec, ImplementsLock, AbstractLock!Spec
=============================================================================
