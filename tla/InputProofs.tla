---------------------------- MODULE InputProofs -----------------------------
(***************************************************************************)
(* For every set of processes, rings of any size and any keys and reports: *)
(* the ready list and the wait queues of Input are exact, nobody sleeps    *)
(* while there is something for him, and the rings hold what was typed and *)
(* reported.                                                               *)
(***************************************************************************)
EXTENDS Input, DataProofs, FiniteSetTheorems

-----------------------------------------------------------------------------
(* The scheduler.                                                          *)

SchedType ==
  [status : [Process -> {"READY", "RUNNING", "WAITING"}], ready : Seq(Process),
   cur : Process \cup {Idle}]

\* The ready list has no process twice, and only those that are ready.
ListFits(s) ==
  /\ s \in SchedType /\ IsInjective(s.ready)
  /\ \A p \in Process : Contains(s.ready, p) => s.status[p] = "READY"

\* Whoever does not wait runs or is on the ready list, and not both.
SchedFits(s) ==
  /\ ListFits(s) /\ ~ Contains(s.ready, s.cur)
  /\ s.cur \in Process => s.status[s.cur] # "WAITING"
  /\ \A p \in Process : s.status[p] # "WAITING" => s.cur = p \/ Contains(s.ready, p)

\* What it is to be on a list with one more member.
LEMMA ContainsAppend ==
  ASSUME NEW X, NEW l \in Seq(X), NEW e \in X, NEW x
  PROVE  Contains(Append(l, e), x) <=> Contains(l, x) \/ x = e
BY AppendFields, OneMore DEF Contains

\* A list without repetitions gets a new member.
LEMMA InjectiveAppend ==
  ASSUME NEW X, NEW l \in Seq(X), NEW e \in X, IsInjective(l), ~ Contains(l, e)
  PROVE  IsInjective(Append(l, e))
<1> DEFINE b == Append(l, e)
<1>1. /\ Len(l) \in Nat /\ DOMAIN l = 1 .. Len(l) /\ DOMAIN b = 1 .. Len(l) + 1
      /\ b[Len(l) + 1] = e /\ \A n \in 1 .. Len(l) : b[n] = l[n]
  BY AppendFields
<1>2. \A n \in 1 .. Len(l) : l[n] # e
  BY DEF Contains
<1> HIDE DEF b
<1>3. \A i, j \in DOMAIN b : b[i] = b[j] => i = j
  BY <1>1, <1>2, OneMore DEF IsInjective
<1> QED BY <1>3 DEF IsInjective, b

\* The members of the rest of a list without repetitions.
LEMMA TailMembers ==
  ASSUME NEW X, NEW l \in Seq(X), l # << >>, IsInjective(l)
  PROVE  /\ Tail(l) \in Seq(X) /\ IsInjective(Tail(l)) /\ Head(l) \in X
         /\ \A x : Contains(l, x) <=> Contains(Tail(l), x) \/ x = Head(l)
         /\ ~ Contains(Tail(l), Head(l))
<1> DEFINE t == Tail(l)
<1>1. /\ t \in Seq(X) /\ Len(l) \in Nat /\ Len(l) # 0 /\ Len(t) = Len(l) - 1 /\ Head(l) = l[1]
      /\ \A i \in 1 .. Len(l) - 1 : t[i] = l[i + 1]
  OBVIOUS
<1>2. DOMAIN t = 1 .. Len(l) - 1 /\ DOMAIN l = 1 .. Len(l) /\ l[1] \in X
  BY <1>1
<1> HIDE DEF t
<1>3. \A i, j \in 1 .. Len(l) : l[i] = l[j] => i = j
  BY <1>2 DEF IsInjective
<1>4. IsInjective(t)
  <2>1. \A i, j \in 1 .. Len(l) - 1 : t[i] = t[j] => i = j
    BY <1>1, <1>3
  <2> QED BY <1>2, <2>1 DEF IsInjective
<1>5. ~ Contains(t, l[1])
  BY <1>1, <1>3 DEF Contains
<1>6. ASSUME NEW x PROVE Contains(l, x) <=> Contains(t, x) \/ x = l[1]
  <2>1. ASSUME Contains(t, x) PROVE Contains(l, x)
    <3>1. PICK i \in 1 .. Len(l) - 1 : t[i] = x
      BY <1>1, <2>1 DEF Contains
    <3>2. i + 1 \in 1 .. Len(l) /\ l[i + 1] = x
      BY <1>1, <3>1
    <3> QED BY <3>2 DEF Contains
  <2>2. ASSUME Contains(l, x), x # l[1] PROVE Contains(t, x)
    <3>1. PICK i \in 1 .. Len(l) : l[i] = x
      BY <2>2 DEF Contains
    <3>2. i - 1 \in 1 .. Len(l) - 1 /\ t[i - 1] = l[(i - 1) + 1] /\ (i - 1) + 1 = i
      BY <1>1, <2>2, <3>1
    <3> QED BY <1>1, <3>1, <3>2 DEF Contains
  <2>3. Contains(l, l[1])
    BY <1>1 DEF Contains
  <2> QED BY <2>1, <2>2, <2>3
<1> QED BY <1>1, <1>2, <1>4, <1>5, <1>6 DEF t

\* Waking a process that does not run.
LEMMA WakeLemma ==
  ASSUME NEW s, SchedFits(s), NEW p \in Process, p # s.cur,
         NEW r, r = try_to_wake_up(s, p)
  PROVE  SchedFits(r) /\ r.cur = s.cur /\ r.status = [s.status EXCEPT ![p] = "READY"]
<1>0. s \in SchedType /\ s.status \in [Process -> {"READY", "RUNNING", "WAITING"}]
      /\ s.ready \in Seq(Process) /\ IsInjective(s.ready)
  BY DEF SchedFits, ListFits, SchedType
<1>1. /\ r \in SchedType /\ r.cur = s.cur /\ r.status = [s.status EXCEPT ![p] = "READY"]
      /\ r.ready = IF Contains(s.ready, p) THEN s.ready ELSE Append(s.ready, p)
  <2>1. /\ r = [s EXCEPT !.status = [s.status EXCEPT ![p] = "READY"],
                         !.ready = IF Contains(s.ready, p) THEN s.ready ELSE Append(s.ready, p)]
    BY DEF try_to_wake_up
  <2>2. /\ [s.status EXCEPT ![p] = "READY"] \in [Process -> {"READY", "RUNNING", "WAITING"}]
        /\ Append(s.ready, p) \in Seq(Process)
    BY <1>0
  <2> QED BY <1>0, <2>1, <2>2 DEF SchedType
<1>2. IsInjective(r.ready)
  BY <1>0, <1>1, InjectiveAppend
<1>3. \A x : Contains(r.ready, x) <=> Contains(s.ready, x) \/ x = p
  BY <1>0, <1>1, ContainsAppend
<1>4. \A u \in Process : r.status[u] = IF u = p THEN "READY" ELSE s.status[u]
  BY <1>0, <1>1
<1> QED BY <1>1, <1>2, <1>3, <1>4 DEF SchedFits, ListFits

\* The next process runs when everybody who does not wait is on the list.
LEMMA RunNextLemma ==
  ASSUME NEW s, ListFits(s),
         \A p \in Process : s.status[p] # "WAITING" => Contains(s.ready, p),
         NEW r, r = RunNext(s)
  PROVE  /\ SchedFits(r)
         /\ \A p \in Process : r.status[p] = "WAITING" <=> s.status[p] = "WAITING"
<1>0. /\ s \in SchedType /\ s.status \in [Process -> {"READY", "RUNNING", "WAITING"}]
      /\ s.ready \in Seq(Process) /\ IsInjective(s.ready)
  BY DEF ListFits, SchedType
<1>1. CASE s.ready = << >>
  <2>1. r \in SchedType /\ r.cur = Idle /\ r.status = s.status /\ r.ready = s.ready
    BY <1>0, <1>1 DEF RunNext, SchedType
  <2>2. \A x : ~ Contains(s.ready, x)
    BY <1>1 DEF Contains
  <2> QED BY <1>0, <2>1, <2>2, InputBounds DEF SchedFits, ListFits
<1>2. CASE s.ready # << >>
  <2> DEFINE n == Head(s.ready)
  <2>1. n \in Process /\ Tail(s.ready) \in Seq(Process)
    BY <1>0, <1>2, TailMembers
  <2>2. /\ r \in SchedType /\ r.cur = n /\ r.status = [s.status EXCEPT ![n] = "RUNNING"]
        /\ r.ready = Tail(s.ready)
    BY <1>0, <1>2, <2>1 DEF RunNext, SchedType
  <2> HIDE DEF n
  <2>3. /\ IsInjective(r.ready) /\ ~ Contains(r.ready, n)
        /\ \A x : Contains(s.ready, x) <=> Contains(r.ready, x) \/ x = n
    BY <1>0, <1>2, <2>2, TailMembers DEF n
  <2>4. \A u \in Process : r.status[u] = IF u = n THEN "RUNNING" ELSE s.status[u]
    BY <1>0, <2>1, <2>2
  <2> QED BY <2>1, <2>2, <2>3, <2>4 DEF SchedFits, ListFits
<1> QED BY <1>1, <1>2

\* schedule, called by whoever runs, or by a process that has just begun to wait.
LEMMA ScheduleLemma ==
  ASSUME NEW s, ListFits(s), ~ Contains(s.ready, s.cur),
         \A p \in Process : s.status[p] # "WAITING" => s.cur = p \/ Contains(s.ready, p),
         NEW r, r = schedule(s)
  PROVE  /\ SchedFits(r)
         /\ \A p \in Process : r.status[p] = "WAITING" <=> s.status[p] = "WAITING"
<1>0. /\ s \in SchedType /\ s.status \in [Process -> {"READY", "RUNNING", "WAITING"}]
      /\ s.ready \in Seq(Process) /\ IsInjective(s.ready) /\ s.cur \in Process \cup {Idle}
  BY DEF ListFits, SchedType
<1> DEFINE m == GiveUp(s)
<1>1. r = RunNext(m)
  BY DEF schedule
<1>2. /\ ListFits(m)
      /\ \A p \in Process : m.status[p] # "WAITING" => Contains(m.ready, p)
      /\ \A p \in Process : m.status[p] = "WAITING" <=> s.status[p] = "WAITING"
  <2>1. CASE s.cur # Idle /\ s.status[s.cur] \in {"RUNNING", "READY"}
    <3>0. s.cur \in Process
      BY <1>0, <2>1
    <3>1. /\ m \in SchedType /\ m.ready = Append(s.ready, s.cur)
          /\ m.status = [s.status EXCEPT ![s.cur] = "READY"]
      <4>1. /\ [s.status EXCEPT ![s.cur] = "READY"] \in [Process -> {"READY", "RUNNING", "WAITING"}]
            /\ Append(s.ready, s.cur) \in Seq(Process)
        BY <1>0, <3>0
      <4>2. m = [s EXCEPT !.ready = Append(s.ready, s.cur),
                          !.status = [s.status EXCEPT ![s.cur] = "READY"]]
        BY <2>1 DEF GiveUp
      <4> QED BY <1>0, <4>1, <4>2 DEF SchedType
    <3> HIDE DEF m
    <3>2. IsInjective(m.ready) /\ \A x : Contains(m.ready, x) <=> Contains(s.ready, x) \/ x = s.cur
      BY <1>0, <3>0, <3>1, InjectiveAppend, ContainsAppend
    <3>3. \A u \in Process : m.status[u] = IF u = s.cur THEN "READY" ELSE s.status[u]
      BY <1>0, <3>0, <3>1
    <3> QED BY <2>1, <3>0, <3>1, <3>2, <3>3 DEF ListFits
  <2>2. CASE ~ (s.cur # Idle /\ s.status[s.cur] \in {"RUNNING", "READY"})
    <3>1. m = s
      BY <2>2 DEF GiveUp
    <3>2. \A p \in Process : s.status[p] # "WAITING" => Contains(s.ready, p)
      BY <1>0, <2>2, InputBounds
    <3> QED BY <3>1, <3>2
  <2> QED BY <2>1, <2>2
<1> HIDE DEF m
<1> QED BY <1>1, <1>2, RunNextLemma

\* A running process that blocks.
LEMMA BlockLemma ==
  ASSUME NEW s, SchedFits(s), s.cur \in Process, NEW r, r = thread_block(s)
  PROVE  /\ SchedFits(r)
         /\ \A p \in Process : r.status[p] = "WAITING" <=> p = s.cur \/ s.status[p] = "WAITING"
<1> DEFINE m == [s EXCEPT !.status[s.cur] = "WAITING"]
<1>0. /\ s \in SchedType /\ s.status \in [Process -> {"READY", "RUNNING", "WAITING"}]
  BY DEF SchedFits, ListFits, SchedType
<1>1. r = schedule(m)
  BY DEF thread_block
<1>2. /\ m \in SchedType /\ m.ready = s.ready /\ m.cur = s.cur
      /\ m.status = [s.status EXCEPT ![s.cur] = "WAITING"]
  BY <1>0 DEF SchedType
<1> HIDE DEF m
<1>3. \A u \in Process : m.status[u] = IF u = s.cur THEN "WAITING" ELSE s.status[u]
  BY <1>0, <1>2
<1>4. /\ ListFits(m) /\ ~ Contains(m.ready, m.cur)
      /\ \A p \in Process : m.status[p] # "WAITING" => m.cur = p \/ Contains(m.ready, p)
  BY <1>2, <1>3 DEF SchedFits, ListFits
<1> QED BY <1>1, <1>3, <1>4, ScheduleLemma

-----------------------------------------------------------------------------
(* The rings.                                                              *)

IsRing(r, d) ==
  /\ r \in [head : 0 .. Size[d] - 1, tail : 0 .. Size[d] - 1, proc_list : Seq(Process),
            buf : {r.buf}]
  /\ r.buf = [i \in 0 .. Size[d] - 1 |-> r.buf[i]]

\* One slot of a ring is free, so that it has two at least.
LEMMA SizeType == \A d \in Device : Size[d] \in Nat \ {0, 1}
BY InputBounds

\* The number of entries between the two indices.
LEMMA LengthIs ==
  ASSUME NEW d \in Device, NEW r, IsRing(r, d)
  PROVE  /\ Length(r, d) = IF r.head >= r.tail THEN r.head - r.tail
                           ELSE r.head - r.tail + Size[d]
         /\ Length(r, d) \in 0 .. Size[d] - 1
         /\ Length(r, d) = 0 <=> r.head = r.tail
<1>1. /\ r.head \in 0 .. Size[d] - 1 /\ r.tail \in 0 .. Size[d] - 1 /\ Size[d] \in Nat \ {0}
  BY SizeType DEF IsRing
<1>2. (r.head - r.tail + Size[d]) % Size[d] =
        IF r.head >= r.tail THEN r.head - r.tail ELSE r.head - r.tail + Size[d]
  BY <1>1, RingDistance
<1>3. Length(r, d) = IF r.head >= r.tail THEN r.head - r.tail ELSE r.head - r.tail + Size[d]
  BY <1>2, Zenon DEF Length
<1> QED BY <1>1, <1>3

\* n is the ring r after put.
IsPut(n, r, d, x) == n = put(r, d, x)
Entered(n, r, d, x) ==
  /\ IsRing(n, d) /\ n.proc_list = r.proc_list /\ n.tail = r.tail
  /\ n.buf = [r.buf EXCEPT ![r.head] = x]
  /\ \/ n.head = r.head /\ Length(n, d) = Length(r, d) /\ Length(r, d) = Size[d] - 1
     \/ n.head # r.head /\ Length(n, d) = Length(r, d) + 1

\* put: the entry is added, unless one slot is left.
LEMMA PutLemma ==
  ASSUME NEW d \in Device, NEW r, IsRing(r, d), NEW x, NEW n, IsPut(n, r, d, x)
  PROVE  Entered(n, r, d, x)
<1>1. /\ r.head \in 0 .. Size[d] - 1 /\ r.tail \in 0 .. Size[d] - 1 /\ Size[d] \in Nat \ {0, 1}
  BY SizeType DEF IsRing
<1> DEFINE up == IF r.head + 1 = Size[d] THEN 0 ELSE r.head + 1
<1>2. (r.head + 1) % Size[d] = up
  <2>1. Size[d] \in Nat \ {0} /\ 1 \in 0 .. Size[d]
    BY <1>1
  <2>2. (r.head + 1) % Size[d] = IF r.head + 1 < Size[d] THEN r.head + 1 ELSE r.head + 1 - Size[d]
    BY <1>1, <2>1, RingIndex
  <2>3. (IF r.head + 1 < Size[d] THEN r.head + 1 ELSE r.head + 1 - Size[d]) = up
    BY <1>1
  <2> QED BY <2>2, <2>3, Zenon
<1>3. up \in 0 .. Size[d] - 1 /\ up # r.head
  BY <1>1
<1> DEFINE b == [r.buf EXCEPT ![r.head] = x]
           h == IF up = r.tail THEN r.head ELSE up
<1>4. n = [r EXCEPT !.buf = b, !.head = h]
  <2> HIDE DEF up
  <2> QED BY <1>2 DEF put, IsPut
<1>5. h \in 0 .. Size[d] - 1 /\ b = [i \in 0 .. Size[d] - 1 |-> b[i]]
  BY <1>1, <1>3 DEF IsRing
<1> HIDE DEF b, h
<1>6. /\ n.buf = b /\ n.head = h /\ n.tail = r.tail /\ n.proc_list = r.proc_list
      /\ n \in [head : 0 .. Size[d] - 1, tail : 0 .. Size[d] - 1, proc_list : Seq(Process),
                buf : {b}]
  BY <1>4, <1>5 DEF IsRing
<1>7. IsRing(n, d)
  BY <1>5, <1>6 DEF IsRing
<1>8. \/ n.head = r.head /\ Length(n, d) = Length(r, d) /\ Length(r, d) = Size[d] - 1
      \/ n.head # r.head /\ Length(n, d) = Length(r, d) + 1
  <2>1. /\ Length(r, d) = IF r.head >= r.tail THEN r.head - r.tail ELSE r.head - r.tail + Size[d]
        /\ Length(n, d) = IF n.head >= n.tail THEN n.head - n.tail ELSE n.head - n.tail + Size[d]
    BY <1>7, LengthIs
  <2>2. CASE up = r.tail
    <3>1. n.head = r.head /\ n.tail = r.tail
      BY <1>6, <2>2 DEF h
    <3> QED BY <1>1, <2>1, <2>2, <3>1
  <2>3. CASE up # r.tail
    <3>1. n.head = up /\ n.tail = r.tail
      BY <1>6, <2>3 DEF h
    <3> QED BY <1>1, <1>3, <2>1, <2>3, <3>1
  <2> QED BY <2>2, <2>3
<1> QED BY <1>6, <1>7, <1>8 DEF b, Entered

\* get_from_queue: k entries are taken away.
LEMMA GetLemma ==
  ASSUME NEW d \in Device, NEW r, IsRing(r, d), NEW k \in 0 .. Length(r, d),
         NEW n, n = get_from_queue(r, d, k)
  PROVE  /\ IsRing(n, d) /\ n.proc_list = r.proc_list /\ n.head = r.head /\ n.buf = r.buf
         /\ n.tail = IF r.tail + k < Size[d] THEN r.tail + k ELSE r.tail + k - Size[d]
         /\ Length(n, d) = Length(r, d) - k
<1>1. /\ r.head \in 0 .. Size[d] - 1 /\ r.tail \in 0 .. Size[d] - 1 /\ Size[d] \in Nat \ {0}
      /\ Length(r, d) \in 0 .. Size[d] - 1
      /\ Length(r, d) = IF r.head >= r.tail THEN r.head - r.tail ELSE r.head - r.tail + Size[d]
  BY SizeType, LengthIs DEF IsRing
<1> DEFINE t == IF r.tail + k < Size[d] THEN r.tail + k ELSE r.tail + k - Size[d]
<1>2. (r.tail + k) % Size[d] = t /\ t \in 0 .. Size[d] - 1
  <2>1. k \in 0 .. Size[d]
    BY <1>1
  <2>2. (r.tail + k) % Size[d] = t
    BY <1>1, <2>1, RingIndex
  <2> QED BY <1>1, <2>1, <2>2
<1>3. n = [r EXCEPT !.tail = t]
  BY <1>2 DEF get_from_queue
<1> HIDE DEF t
<1>4. /\ n.buf = r.buf /\ n.head = r.head /\ n.tail = t /\ n.proc_list = r.proc_list
      /\ IsRing(n, d)
  BY <1>2, <1>3 DEF IsRing
<1>5. Length(n, d) = IF n.head >= n.tail THEN n.head - n.tail ELSE n.head - n.tail + Size[d]
  BY <1>4, LengthIs
<1>6. Length(n, d) = Length(r, d) - k
  BY <1>1, <1>4, <1>5 DEF t
<1> QED BY <1>4, <1>6 DEF t

-----------------------------------------------------------------------------
(* The invariant.  It is stated of any values of dev, sched, proc and      *)
(* timer, because an interrupt of the mouse may fill two rings and wake    *)
(* two processes in one step.                                              *)

Call == [call : {"none", "read", "wait2"}, dev : Device, count : Nat]

\* p is in a call that waits for d.
Waits(c, d, p) ==
  \/ c[p].call = "read" /\ c[p].dev = d
  \/ c[p].call = "wait2" /\ d \in Polls[p]

QueueFits(r, d, c) ==
  /\ IsRing(r, d) /\ IsInjective(r.proc_list)
  /\ \A p \in Process : Contains(r.proc_list, p) <=> Waits(c, d, p)

Queues(D, c) ==
  D = [d \in Device |-> D[d]] /\ \A d \in Device : QueueFits(D[d], d, c)

CallFits(s, c, tm, p) ==
  /\ s.status[p] = "WAITING" => c[p].call # "none"
  /\ c[p].call = "read" => c[p].dev \in Reads[p] /\ c[p].count # 0
  /\ c[p].call # "wait2" => tm[p] < 0
  /\ c[p].call = "wait2" /\ s.status[p] = "WAITING" => tm[p] >= 0

Calls(s, c, tm) ==
  /\ c \in [Process -> Call] /\ tm \in [Process -> Int]
  /\ \A p \in Process : CallFits(s, c, tm, p)

\* When somebody sleeps for d, as many have been woken as its ring has entries.
Awake(s, c, d) == {o \in Process : Waits(c, d, o) /\ s.status[o] # "WAITING"}
Served(r, d, s, c) ==
  (\E p \in Process : Waits(c, d, p) /\ s.status[p] = "WAITING") =>
    Length(r, d) <= Cardinality(Awake(s, c, d))

\* What a process waits for with wait2 is for it alone.
PollsAlone ==
  \A p, o \in Process : p # o => Polls[p] \cap (Reads[o] \cup Polls[o]) = {}

Fits(D, s, c, tm) ==
  /\ SchedFits(s) /\ Queues(D, c) /\ Calls(s, c, tm)
  /\ PollsAlone => \A d \in Device : Served(D[d], d, s, c)

InputInv == Fits(dev, sched, proc, timer)

\* The number of those that are awake is a number.
LEMMA AwakeFinite ==
  ASSUME NEW s, NEW c, NEW d
  PROVE  IsFiniteSet(Awake(s, c, d)) /\ Cardinality(Awake(s, c, d)) \in Nat
<1>1. Awake(s, c, d) \subseteq Process
  BY DEF Awake
<1>2. IsFiniteSet(Awake(s, c, d))
  BY <1>1, FS_Subset, InputBounds
<1> QED BY <1>2, FS_CardinalityType

\* Fewer sleep, and there is no more to read.
LEMMA ServedFewer ==
  ASSUME NEW d, NEW s, NEW c, NEW r, Served(r, d, s, c), NEW n, NEW z,
         \A p \in Process : z.status[p] = "WAITING" => s.status[p] = "WAITING",
         Length(r, d) \in Nat, Length(n, d) \in Nat, Length(n, d) <= Length(r, d)
  PROVE  Served(n, d, z, c)
<1> DEFINE A == Awake(s, c, d)
           B == Awake(z, c, d)
<1>1. A \subseteq B
  BY DEF Awake
<1>2. IsFiniteSet(B) /\ Cardinality(A) \in Nat /\ Cardinality(B) \in Nat
  BY AwakeFinite
<1>3. Cardinality(A) <= Cardinality(B)
  <2> HIDE DEF A, B
  <2> QED BY <1>1, <1>2, FS_Subset
<1>4. ASSUME NEW p \in Process, Waits(c, d, p), z.status[p] = "WAITING"
      PROVE  Length(r, d) <= Cardinality(A)
  BY <1>4 DEF Served
<1> HIDE DEF A, B
<1>5. ASSUME NEW p \in Process, Waits(c, d, p), z.status[p] = "WAITING"
      PROVE  Length(n, d) <= Cardinality(B)
  BY <1>2, <1>3, <1>4, <1>5
<1> QED BY <1>5 DEF Served, B

\* There is nothing to read.
LEMMA ServedEmpty ==
  ASSUME NEW d, NEW s, NEW c, NEW r, Length(r, d) = 0
  PROVE  Served(r, d, s, c)
BY AwakeFinite DEF Served

\* The calls and the sleep of those that wait for d are the same.
SameWaiters(d, s, c, r, z, e, n) ==
  /\ Length(n, d) = Length(r, d)
  /\ \A o \in Process : Waits(e, d, o) <=> Waits(c, d, o)
  /\ \A o \in Process :
       Waits(c, d, o) => (z.status[o] = "WAITING" <=> s.status[o] = "WAITING")

\* Then they are served as they were.
LEMMA ServedSame ==
  ASSUME NEW d, NEW s, NEW c, NEW r, Served(r, d, s, c), NEW z, NEW e, NEW n,
         SameWaiters(d, s, c, r, z, e, n)
  PROVE  Served(n, d, z, e)
<1>1. Awake(z, e, d) = Awake(s, c, d)
  BY DEF Awake, SameWaiters
<1> QED BY <1>1 DEF Served, SameWaiters

\* One of those that sleep is woken, for one more entry.
LEMMA ServedWoken ==
  ASSUME NEW d, NEW s, NEW c, NEW r, Served(r, d, s, c), NEW n, NEW z, NEW w \in Process,
         Waits(c, d, w), s.status[w] = "WAITING", z.status[w] # "WAITING",
         \A p \in Process \ {w} : z.status[p] = s.status[p],
         Length(r, d) \in Nat, Length(n, d) = Length(r, d) + 1
  PROVE  Served(n, d, z, c)
<1> DEFINE A == Awake(s, c, d)
<1>1. Awake(z, c, d) = A \cup {w} /\ w \notin A
  BY DEF Awake
<1>2. IsFiniteSet(A) /\ Cardinality(A) \in Nat /\ Length(r, d) <= Cardinality(A)
  BY AwakeFinite DEF Served
<1> HIDE DEF A
<1>3. Cardinality(A \cup {w}) = Cardinality(A) + 1
  BY <1>1, <1>2, FS_AddElement
<1>4. Length(n, d) <= Cardinality(A \cup {w})
  BY <1>2, <1>3
<1> QED BY <1>1, <1>4 DEF Served

\* One of those that are awake leaves, with at least one entry if there was one.
Leaves(d, s, c, r, n, z, e, w) ==
  /\ Waits(c, d, w) /\ s.status[w] # "WAITING" /\ ~ Waits(e, d, w)
  /\ \A p \in Process \ {w} : (Waits(e, d, p) <=> Waits(c, d, p)) /\ z.status[p] = s.status[p]
  /\ Length(r, d) \in Nat /\ Length(n, d) \in Nat
  /\ Length(n, d) = 0 \/ Length(n, d) < Length(r, d)

\* The others are served as before.
LEMMA ServedLeaves ==
  ASSUME NEW d, NEW s, NEW c, NEW r, Served(r, d, s, c), NEW n, NEW z, NEW e,
         NEW w \in Process, Leaves(d, s, c, r, n, z, e, w)
  PROVE  Served(n, d, z, e)
<1> DEFINE A == Awake(s, c, d)
<1>1. Awake(z, e, d) = A \ {w} /\ w \in A
  BY DEF Awake, Leaves
<1>2. IsFiniteSet(A) /\ Cardinality(A) \in Nat
  BY AwakeFinite
<1>3. ASSUME NEW p \in Process, Waits(e, d, p), z.status[p] = "WAITING"
      PROVE  Length(r, d) <= Cardinality(A)
  BY <1>3 DEF Served, Leaves
<1> HIDE DEF A
<1>4. Cardinality(A \ {w}) = Cardinality(A) - 1 /\ Cardinality(A \ {w}) \in Nat
  BY <1>1, <1>2, FS_RemoveElement, FS_CardinalityType
<1>5. ASSUME NEW p \in Process, Waits(e, d, p), z.status[p] = "WAITING"
      PROVE  Length(n, d) <= Cardinality(A \ {w})
  BY <1>2, <1>3, <1>4, <1>5 DEF Leaves
<1> QED BY <1>1, <1>5 DEF Served

-----------------------------------------------------------------------------
(* What keeps the invariant.                                               *)

\* The scheduler has let others run or woken some.
LEMMA FewerSleep ==
  ASSUME NEW D, NEW s, NEW c, NEW tm, Fits(D, s, c, tm), NEW z, SchedFits(z),
         \A p \in Process : z.status[p] = "WAITING" => s.status[p] = "WAITING"
  PROVE  Fits(D, z, c, tm)
<1>1. Calls(z, c, tm)
  BY DEF Fits, Calls, CallFits
<1>2. ASSUME PollsAlone, NEW d \in Device PROVE Served(D[d], d, z, c)
  <2>1. Served(D[d], d, s, c) /\ IsRing(D[d], d)
    BY <1>2 DEF Fits, Queues, QueueFits
  <2>2. Length(D[d], d) \in Nat /\ Length(D[d], d) <= Length(D[d], d)
    BY <2>1, LengthIs, SizeType
  <2> QED BY <2>1, <2>2, ServedFewer
<1> QED BY <1>1, <1>2 DEF Fits

\* wake_up_interruptible finds the first that sleeps, if there is one.
LEMMA WakeUpLemma ==
  ASSUME NEW s, NEW l \in Seq(Process), NEW r, r = wake_up_interruptible(s, l)
  PROVE  \/ r = s /\ \A p : Contains(l, p) => s.status[p] # "WAITING"
         \/ \E w \in Process : /\ Contains(l, w) /\ s.status[w] = "WAITING"
                               /\ r = try_to_wake_up(s, w)
<1> DEFINE I == {i \in 1 .. Len(l) : s.status[l[i]] = "WAITING"}
<1>1. r = IF (IF I # {} THEN Min(I) ELSE 0) = 0 THEN s
          ELSE try_to_wake_up(s, l[IF I # {} THEN Min(I) ELSE 0])
  BY DEF wake_up_interruptible, SelectInSeq
<1>2. CASE I = {}
  BY <1>1, <1>2 DEF Contains
<1>3. CASE I # {}
  <2>0. I \in SUBSET Nat
    OBVIOUS
  <2>1. Min(I) \in I
    BY <1>3, <2>0, MinIsLeast
  <2>2. PICK i \in 1 .. Len(l) : i = Min(I) /\ s.status[l[i]] = "WAITING"
    BY <2>1
  <2> HIDE DEF I
  <2>3. i # 0 /\ l[i] \in Process /\ Contains(l, l[i])
    BY DEF Contains
  <2>4. r = try_to_wake_up(s, l[i])
    BY <1>1, <1>3, <2>2, <2>3
  <2> QED BY <2>2, <2>3, <2>4
<1> QED BY <1>2, <1>3

\* One device's queue changes.
IsChange(F, D, d, n) == F = [D EXCEPT ![d] = n]
\* The other queues, and what they are about, stay.
LEMMA QueueChange ==
  ASSUME NEW D, NEW c, Queues(D, c), NEW d \in Device, NEW n, QueueFits(n, d, c),
         NEW F, IsChange(F, D, d, n)
  PROVE  Queues(F, c) /\ F[d] = n /\ \A e \in Device \ {d} : F[e] = D[e]
<1>1. D = [e \in Device |-> D[e]]
  BY DEF Queues
<1>2. F = [e \in Device |-> IF e = d THEN n ELSE D[e]]
  BY <1>1 DEF IsChange
<1> QED BY <1>2 DEF Queues

\* z is the scheduler after the ring r has become n.
IsWake(z, s, n, r) == z = IF n.head = r.head THEN s ELSE wake_up_interruptible(s, r.proc_list)

\* An entry is stored, and somebody who waits for it is woken if it fits.
LEMMA StoreLemma ==
  ASSUME NEW D, NEW s, NEW c, NEW tm, Fits(D, s, c, tm), NEW d \in Device, NEW x,
         NEW n, IsPut(n, D[d], d, x), NEW F, IsChange(F, D, d, n),
         NEW z, IsWake(z, s, n, D[d])
  PROVE  Fits(F, z, c, tm)
<1>0. /\ QueueFits(D[d], d, c) /\ IsRing(D[d], d) /\ D[d].proc_list \in Seq(Process)
      /\ SchedFits(s) /\ Queues(D, c) /\ Calls(s, c, tm)
  BY DEF Fits, Queues, QueueFits, IsRing
<1>1. /\ IsRing(n, d) /\ n.proc_list = D[d].proc_list
      /\ \/ n.head = D[d].head /\ Length(n, d) = Length(D[d], d)
         \/ n.head # D[d].head /\ Length(n, d) = Length(D[d], d) + 1
  <2>1. Entered(n, D[d], d, x)
    BY <1>0, PutLemma
  <2> QED BY <2>1 DEF Entered
<1>2. QueueFits(n, d, c)
  BY <1>0, <1>1 DEF QueueFits
<1>3. Queues(F, c) /\ F[d] = n /\ \A e \in Device \ {d} : F[e] = D[e]
  BY <1>0, <1>2, QueueChange
<1>4. Length(D[d], d) \in Nat /\ Length(n, d) \in Nat
  BY <1>0, <1>1, LengthIs, SizeType
<1>5. CASE z = s /\ (n.head = D[d].head \/ \A p : Contains(D[d].proc_list, p) => s.status[p] # "WAITING")
  <2>1. ASSUME PollsAlone PROVE Served(n, d, s, c)
    <3>0. Served(D[d], d, s, c)
      BY <2>1 DEF Fits
    <3>1. CASE n.head = D[d].head
      BY <1>1, <1>4, <3>0, <3>1, ServedFewer
    <3>2. CASE \A p : Contains(D[d].proc_list, p) => s.status[p] # "WAITING"
      BY <1>0, <3>2 DEF Served, QueueFits
    <3> QED BY <1>5, <3>1, <3>2
  <2> QED BY <1>0, <1>3, <1>5, <2>1 DEF Fits
<1>6. CASE n.head # D[d].head /\ \E w \in Process :
             /\ Contains(D[d].proc_list, w) /\ s.status[w] = "WAITING"
             /\ z = try_to_wake_up(s, w)
  <2>1. PICK w \in Process : /\ Contains(D[d].proc_list, w) /\ s.status[w] = "WAITING"
                             /\ z = try_to_wake_up(s, w)
    BY <1>6
  <2>2. w # s.cur /\ Waits(c, d, w)
    BY <1>0, <2>1 DEF SchedFits, QueueFits
  <2>3. SchedFits(z) /\ z.status = [s.status EXCEPT ![w] = "READY"]
    BY <1>0, <2>1, <2>2, WakeLemma
  <2>4. s.status \in [Process -> {"READY", "RUNNING", "WAITING"}]
    BY <1>0 DEF SchedFits, ListFits, SchedType
  <2>5. z.status[w] # "WAITING" /\ \A p \in Process \ {w} : z.status[p] = s.status[p]
    BY <2>3, <2>4
  <2>6. Fits(D, z, c, tm)
    <3>1. \A p \in Process : z.status[p] = "WAITING" => s.status[p] = "WAITING"
      BY <2>5
    <3> QED BY <2>3, <3>1, FewerSleep
  <2>7. ASSUME PollsAlone PROVE Served(n, d, z, c)
    <3>1. Served(D[d], d, s, c)
      BY <2>7 DEF Fits
    <3>2. Length(n, d) = Length(D[d], d) + 1
      BY <1>1, <1>6
    <3> QED BY <1>4, <2>1, <2>2, <2>5, <3>1, <3>2, ServedWoken
  <2> QED BY <1>3, <2>6, <2>7 DEF Fits
<1>7. \/ z = s /\ (n.head = D[d].head \/ \A p : Contains(D[d].proc_list, p) => s.status[p] # "WAITING")
      \/ n.head # D[d].head /\ \E w \in Process :
             /\ Contains(D[d].proc_list, w) /\ s.status[w] = "WAITING"
             /\ z = try_to_wake_up(s, w)
  BY <1>0, WakeUpLemma DEF IsWake
<1> QED BY <1>5, <1>6, <1>7

\* A list with one more member in front.
IsPrepended(b, p, l) == b = <<p>> \o l
\* One more member in front of a list.
LEMMA PrependMember ==
  ASSUME NEW X, NEW l \in Seq(X), NEW p \in X, IsInjective(l), ~ Contains(l, p),
         NEW b, IsPrepended(b, p, l)
  PROVE  /\ b \in Seq(X) /\ IsInjective(b)
         /\ \A x : Contains(b, x) <=> Contains(l, x) \/ x = p
<1>1. /\ b \in Seq(X) /\ Len(l) \in Nat /\ Len(b) = Len(l) + 1 /\ b[1] = p
      /\ \A i \in 1 .. Len(l) : b[i + 1] = l[i]
  BY DEF IsPrepended
<1>2. DOMAIN b = 1 .. Len(l) + 1 /\ DOMAIN l = 1 .. Len(l)
  BY <1>1
<1>3. \A n \in 1 .. Len(l) + 1 : n = 1 \/ (n - 1 \in 1 .. Len(l) /\ b[n] = l[n - 1])
  <2> TAKE n \in 1 .. Len(l) + 1
  <2>1. ASSUME n # 1 PROVE n - 1 \in 1 .. Len(l) /\ b[n] = l[n - 1]
    <3>1. n - 1 \in 1 .. Len(l) /\ (n - 1) + 1 = n
      BY <1>1, <2>1
    <3>2. b[(n - 1) + 1] = l[n - 1]
      BY <1>1, <3>1
    <3> QED BY <3>1, <3>2
  <2> QED BY <2>1
<1>4. IsInjective(b)
  <2>1. \A n \in 1 .. Len(l) : l[n] # p
    BY DEF Contains
  <2>2. \A i, j \in 1 .. Len(l) + 1 : b[i] = b[j] => i = j
    <3> TAKE i, j \in 1 .. Len(l) + 1
    <3> HAVE b[i] = b[j]
    <3>1. CASE i = 1 /\ j = 1
      BY <3>1
    <3>2. CASE i = 1 /\ j # 1
      BY <1>1, <1>3, <2>1, <3>2
    <3>3. CASE i # 1 /\ j = 1
      BY <1>1, <1>3, <2>1, <3>3
    <3>4. CASE i # 1 /\ j # 1
      <4>1. i - 1 \in 1 .. Len(l) /\ j - 1 \in 1 .. Len(l) /\ l[i - 1] = l[j - 1]
        BY <1>3, <3>4
      <4>2. i - 1 = j - 1
        BY <1>2, <4>1 DEF IsInjective
      <4> QED BY <1>1, <4>2
    <3> QED BY <3>1, <3>2, <3>3, <3>4
  <2> QED BY <1>2, <2>2 DEF IsInjective
<1>5. ASSUME NEW x PROVE Contains(b, x) <=> Contains(l, x) \/ x = p
  <2>1. ASSUME Contains(l, x) PROVE Contains(b, x)
    <3>1. PICK i \in 1 .. Len(l) : l[i] = x
      BY <2>1 DEF Contains
    <3>2. i + 1 \in 1 .. Len(b) /\ b[i + 1] = x
      BY <1>1, <3>1
    <3> QED BY <3>2 DEF Contains
  <2>2. Contains(b, p)
    <3>1. 1 \in 1 .. Len(b)
      BY <1>1
    <3> QED BY <1>1, <3>1 DEF Contains
  <2>3. ASSUME Contains(b, x), x # p PROVE Contains(l, x)
    BY <1>1, <1>3, <2>3 DEF Contains
  <2> QED BY <2>1, <2>2, <2>3
<1> QED BY <1>1, <1>4, <1>5

\* All calls but that of p are the same.
OthersSame(c, e, p) == \A o \in Process \ {p} : e[o] = c[o]

\* p joins the wait queue of d.
LEMMA JoinQueue ==
  ASSUME NEW c, NEW e, NEW p \in Process, OthersSame(c, e, p), NEW d \in Device, NEW r,
         QueueFits(r, d, c), ~ Waits(c, d, p), Waits(e, d, p)
  PROVE  /\ QueueFits(add_wait_queue(r, p), d, e)
         /\ Length(add_wait_queue(r, p), d) = Length(r, d)
<1> DEFINE b == <<p>> \o r.proc_list
           n == add_wait_queue(r, p)
<1>0. r.proc_list \in Seq(Process) /\ IsInjective(r.proc_list) /\ ~ Contains(r.proc_list, p)
  BY DEF QueueFits, IsRing
<1>1. /\ b \in Seq(Process) /\ IsInjective(b)
      /\ \A x : Contains(b, x) <=> Contains(r.proc_list, x) \/ x = p
  <2>1. IsPrepended(b, p, r.proc_list)
    BY DEF IsPrepended
  <2> HIDE DEF b
  <2> QED BY <1>0, <2>1, PrependMember
<1>2. n = [r EXCEPT !.proc_list = b]
  BY DEF add_wait_queue
<1> HIDE DEF b, n
<1>3. IsRing(n, d) /\ n.proc_list = b /\ n.head = r.head /\ n.tail = r.tail
  BY <1>1, <1>2 DEF QueueFits, IsRing
<1>4. ASSUME NEW o \in Process PROVE Contains(b, o) <=> Waits(e, d, o)
  <2>1. CASE o = p
    BY <1>1, <2>1
  <2>2. CASE o # p
    <3>1. e[o] = c[o]
      BY <2>2 DEF OthersSame
    <3>2. Waits(e, d, o) <=> Waits(c, d, o)
      BY <3>1 DEF Waits
    <3> QED BY <1>1, <2>2, <3>2 DEF QueueFits
  <2> QED BY <2>1, <2>2
<1>5. Length(n, d) = Length(r, d)
  BY <1>3, Zenon DEF Length
<1> QED BY <1>1, <1>3, <1>4, <1>5 DEF QueueFits, n

\* p leaves the wait queue of d, or was not there.
LEMMA LeaveQueue ==
  ASSUME NEW c, NEW e, NEW p \in Process, OthersSame(c, e, p), NEW d \in Device, NEW r,
         QueueFits(r, d, c), ~ Waits(e, d, p)
  PROVE  /\ QueueFits(remove_wait_queue(r, p), d, e)
         /\ Length(remove_wait_queue(r, p), d) = Length(r, d)
         /\ remove_wait_queue(r, p).head = r.head /\ remove_wait_queue(r, p).tail = r.tail
         /\ remove_wait_queue(r, p).buf = r.buf
<1> DEFINE l == r.proc_list
           b == RemoveFirst(l, p)
           n == remove_wait_queue(r, p)
<1>0. l \in Seq(Process) /\ IsInjective(l) /\ DOMAIN l = 1 .. Len(l)
  BY DEF QueueFits, IsRing
<1>1. /\ b \in Seq(Process) /\ IsInjective(b)
      /\ \A x : Contains(b, x) <=> Contains(l, x) /\ x # p
  <2> HIDE DEF l
  <2>1. CASE \E i \in 1 .. Len(l) : l[i] = p
    <3>1. b \in Seq(Process) /\ IsInjective(b) /\ MembersWithout(l, p, b)
      BY <1>0, <2>1, RemoveMember
    <3>2. DOMAIN b = 1 .. Len(b)
      BY <3>1
    <3> HIDE DEF b
    <3> QED BY <1>0, <3>1, <3>2 DEF MembersWithout, Contains
  <2>2. CASE ~ \E i \in 1 .. Len(l) : l[i] = p
    <3>1. b = l
      BY <2>2 DEF RemoveFirst
    <3> QED BY <1>0, <2>2, <3>1 DEF Contains
  <2> QED BY <2>1, <2>2
<1>2. n = [r EXCEPT !.proc_list = b]
  BY DEF remove_wait_queue
<1> HIDE DEF b, n
<1>3. IsRing(n, d) /\ n.proc_list = b /\ n.head = r.head /\ n.tail = r.tail /\ n.buf = r.buf
  BY <1>1, <1>2 DEF QueueFits, IsRing
<1>4. ASSUME NEW o \in Process PROVE Contains(b, o) <=> Waits(e, d, o)
  <2>1. CASE o = p
    BY <1>1, <2>1
  <2>2. CASE o # p
    <3>1. e[o] = c[o]
      BY <2>2 DEF OthersSame
    <3>2. Waits(e, d, o) <=> Waits(c, d, o)
      BY <3>1 DEF Waits
    <3> QED BY <1>1, <2>2, <3>2 DEF QueueFits
  <2> QED BY <2>1, <2>2
<1>5. Length(n, d) = Length(r, d)
  BY <1>3, Zenon DEF Length
<1> QED BY <1>1, <1>3, <1>4, <1>5 DEF QueueFits, n

\* The call of p changes, but not whether it waits for d.
LEMMA StayQueue ==
  ASSUME NEW c, NEW e, NEW p \in Process, OthersSame(c, e, p), NEW d \in Device, NEW r,
         QueueFits(r, d, c), Waits(e, d, p) <=> Waits(c, d, p)
  PROVE  QueueFits(r, d, e) /\ \A o \in Process : Waits(e, d, o) <=> Waits(c, d, o)
<1>1. ASSUME NEW o \in Process PROVE Waits(e, d, o) <=> Waits(c, d, o)
  <2>1. CASE o = p
    BY <2>1
  <2>2. CASE o # p
    BY <2>2 DEF OthersSame, Waits
  <2> QED BY <2>1, <2>2
<1> QED BY <1>1 DEF QueueFits

-----------------------------------------------------------------------------
(* Calls.                                                                  *)

\* The smaller of two numbers.
LEMMA MinOfTwo ==
  ASSUME NEW a \in Nat, NEW b \in Nat
  PROVE  Min({a, b}) = IF a <= b THEN a ELSE b
<1>1. {a, b} \in SUBSET Nat /\ {a, b} # {}
  OBVIOUS
<1>2. Min({a, b}) \in {a, b} /\ \A y \in {a, b} : Min({a, b}) <= y
  BY <1>1, MinIsLeast
<1> QED BY <1>2

\* What a read takes out of the ring.
LEMMA TakenFrom ==
  ASSUME NEW d \in Device, NEW r, IsRing(r, d), NEW count \in Nat,
         NEW k, k = Min({count, Length(r, d)})
  PROVE  /\ k \in 0 .. Length(r, d)
         /\ count # 0 => Length(r, d) - k = 0 \/ Length(r, d) - k < Length(r, d)
<1>1. Length(r, d) \in Nat
  BY LengthIs, SizeType
<1>2. k = IF count <= Length(r, d) THEN count ELSE Length(r, d)
  BY <1>1, MinOfTwo
<1> QED BY <1>1, <1>2

\* From the first to the last four values, a process p that runs goes to sleep in
\* a call, and nothing that it waits for has come.
GoesToSleep(D, s, c, tm, p, F, z, e, um) ==
  /\ s.cur = p /\ z = thread_block(s)
  /\ OthersSame(c, e, p) /\ OthersSame(tm, um, p)
  /\ e \in [Process -> Call] /\ um \in [Process -> Int]
  /\ CallFits(z, e, um, p) /\ Queues(F, e)
  /\ \A d \in Device : /\ Waits(c, d, p) => Waits(e, d, p)
                       /\ Waits(e, d, p) => Length(F[d], d) = 0
                       /\ Length(F[d], d) = Length(D[d], d)

\* Then everything fits again.
LEMMA SleepLemma ==
  ASSUME NEW D, NEW s, NEW c, NEW tm, Fits(D, s, c, tm), NEW p \in Process,
         NEW F, NEW z, NEW e, NEW um, GoesToSleep(D, s, c, tm, p, F, z, e, um)
  PROVE  Fits(F, z, e, um)
<1>1. SchedFits(s) /\ Calls(s, c, tm) /\ Queues(D, c)
  BY DEF Fits
<1>2. /\ s.cur = p /\ z = thread_block(s)
      /\ OthersSame(c, e, p) /\ OthersSame(tm, um, p)
      /\ e \in [Process -> Call] /\ um \in [Process -> Int]
      /\ CallFits(z, e, um, p) /\ Queues(F, e)
  BY DEF GoesToSleep
<1>3. \A d \in Device : /\ Waits(c, d, p) => Waits(e, d, p)
                        /\ Waits(e, d, p) => Length(F[d], d) = 0
                        /\ Length(F[d], d) = Length(D[d], d)
  BY DEF GoesToSleep
<1>4. /\ SchedFits(z)
      /\ \A q \in Process : z.status[q] = "WAITING" <=> q = p \/ s.status[q] = "WAITING"
  BY <1>1, <1>2, BlockLemma
<1>5. Calls(z, e, um)
  <2>1. ASSUME NEW q \in Process PROVE CallFits(z, e, um, q)
    <3>1. CASE q = p
      BY <1>2, <3>1
    <3>2. CASE q # p
      <4>1. e[q] = c[q] /\ um[q] = tm[q]
        BY <1>2, <3>2 DEF OthersSame
      <4> QED BY <1>1, <1>4, <3>2, <4>1 DEF Calls, CallFits
    <3> QED BY <3>1, <3>2
  <2> QED BY <1>2, <2>1 DEF Calls
<1>6. ASSUME PollsAlone, NEW d \in Device PROVE Served(F[d], d, z, e)
  <2>1. CASE Waits(e, d, p)
    BY <1>3, <2>1, ServedEmpty
  <2>2. CASE ~ Waits(e, d, p)
    <3>1. Served(D[d], d, s, c) /\ QueueFits(D[d], d, c)
      BY <1>6 DEF Fits, Queues
    <3>2. \A o \in Process : Waits(e, d, o) <=> Waits(c, d, o)
      BY <1>2, <1>3, <2>2, <3>1, StayQueue
    <3>3. \A o \in Process : Waits(c, d, o) => (z.status[o] = "WAITING" <=> s.status[o] = "WAITING")
      BY <1>4, <1>3, <2>2
    <3>4. SameWaiters(d, s, c, D[d], z, e, F[d])
      BY <1>3, <3>2, <3>3 DEF SameWaiters
    <3> QED BY <3>1, <3>4, ServedSame
  <2> QED BY <2>1, <2>2
<1> QED BY <1>2, <1>4, <1>5, <1>6 DEF Fits

\* The running process sets its own status to one that does not wait.
LEMMA StatusLemma ==
  ASSUME NEW s, SchedFits(s), s.cur \in Process, NEW v \in {"READY", "RUNNING"},
         NEW z, z = [s EXCEPT !.status[s.cur] = v]
  PROVE  /\ SchedFits(z) /\ z.cur = s.cur /\ z.status[s.cur] = v
         /\ \A p \in Process \ {s.cur} : z.status[p] = s.status[p]
<1>0. /\ s \in SchedType /\ s.status \in [Process -> {"READY", "RUNNING", "WAITING"}]
  BY DEF SchedFits, ListFits, SchedType
<1>1. /\ z \in SchedType /\ z.ready = s.ready /\ z.cur = s.cur
      /\ z.status = [s.status EXCEPT ![s.cur] = v]
  BY <1>0 DEF SchedType
<1>2. \A u \in Process : z.status[u] = IF u = s.cur THEN v ELSE s.status[u]
  BY <1>0, <1>1
<1> QED BY <1>1, <1>2 DEF SchedFits, ListFits

-----------------------------------------------------------------------------
(* The clock.                                                              *)

\* A function as the recursion of WakeAll describes it exists.
LEMMA WakeAllExists ==
  ASSUME NEW s, NEW order, NEW n \in Nat
  PROVE  \E f : f = [i \in 0 .. n |-> IF i = 0 THEN s ELSE try_to_wake_up(f[i - 1], order[i])]
<1> DEFINE Is(f, m) ==
             f = [i \in 0 .. m |-> IF i = 0 THEN s ELSE try_to_wake_up(f[i - 1], order[i])]
           T == {m \in Nat : ~\E f : Is(f, m)}
<1> SUFFICES ASSUME T # {} PROVE FALSE
  OBVIOUS
<1>1. PICK m \in T : \A l \in T : m <= l
  BY LeastElement
<1>2. CASE m = 0
  <2>1. Is([i \in 0 .. 0 |-> s], 0)
    OBVIOUS
  <2> QED BY <1>1, <1>2, <2>1
<1>3. CASE m # 0
  <2>1. m - 1 \in Nat /\ m - 1 \notin T
    BY <1>1, <1>3
  <2>2. PICK f : Is(f, m - 1)
    BY <2>1
  <2> DEFINE g == [i \in 0 .. m |-> IF i = m THEN try_to_wake_up(f[m - 1], order[m]) ELSE f[i]]
  <2>3. \A i \in 0 .. m - 1 : f[i] = IF i = 0 THEN s ELSE try_to_wake_up(f[i - 1], order[i])
    BY <2>2
  <2>4. \A i \in 0 .. m : g[i] = IF i = 0 THEN s ELSE try_to_wake_up(g[i - 1], order[i])
    BY <1>3, <2>1, <2>3
  <2>5. g = [i \in 0 .. m |-> g[i]]
    OBVIOUS
  <2> HIDE DEF g
  <2>6. Is(g, m)
    BY <2>4, <2>5
  <2> QED BY <1>1, <2>6
<1> QED BY <1>2, <1>3

\* All of them are woken, and nothing else happens.
LEMMA WakeAllLemma ==
  ASSUME NEW s, SchedFits(s), NEW order \in Seq(Process), ~ Contains(order, s.cur),
         NEW r, r = WakeAll(s, order)
  PROVE  /\ SchedFits(r)
         /\ \A p \in Process :
              r.status[p] = IF Contains(order, p) THEN "READY" ELSE s.status[p]
<1> DEFINE N == Len(order)
           w == CHOOSE f : f = [i \in 0 .. N |-> IF i = 0 THEN s
                                                 ELSE try_to_wake_up(f[i - 1], order[i])]
<1>0. N \in Nat /\ \A i \in 1 .. N : order[i] \in Process /\ order[i] # s.cur
  BY DEF Contains
<1>1. r = w[N]
  BY DEF WakeAll
<1>2. w = [i \in 0 .. N |-> IF i = 0 THEN s ELSE try_to_wake_up(w[i - 1], order[i])]
  BY <1>0, WakeAllExists
<1> HIDE DEF w, N
<1>3. w[0] = s /\ \A i \in 1 .. N : w[i] = try_to_wake_up(w[i - 1], order[i])
  BY <1>0, <1>2
<1> DEFINE Good(m) ==
             /\ SchedFits(w[m]) /\ w[m].cur = s.cur
             /\ \A p \in Process :
                  w[m].status[p] = IF \E i \in 1 .. m : order[i] = p THEN "READY" ELSE s.status[p]
           T == {m \in 0 .. N : ~ Good(m)}
<1>4. T = {}
  <2> SUFFICES ASSUME T # {} PROVE FALSE
    OBVIOUS
  <2>0. T \in SUBSET Nat
    BY <1>0
  <2>1. PICK m \in T : \A l \in T : m <= l
    BY <2>0, LeastElement
  <2>2. m # 0
    <3>1. Good(0)
      BY <1>3
    <3> QED BY <2>1, <3>1
  <2>3. m \in 1 .. N /\ m - 1 \in 0 .. N /\ m - 1 \notin T
    BY <1>0, <2>1, <2>2
  <2>4. Good(m - 1)
    BY <2>3
  <2> DEFINE a == w[m - 1]
             b == w[m]
             o == order[m]
  <2>5. SchedFits(a) /\ a.cur = s.cur /\ o \in Process /\ o # a.cur /\ b = try_to_wake_up(a, o)
    BY <1>0, <1>3, <2>3, <2>4
  <2>6. a.status \in [Process -> {"READY", "RUNNING", "WAITING"}]
    BY <2>5 DEF SchedFits, ListFits, SchedType
  <2>7. \A p \in Process :
          a.status[p] = IF \E i \in 1 .. m - 1 : order[i] = p THEN "READY" ELSE s.status[p]
    BY <2>4
  <2>8. \A p : (\E i \in 1 .. m : order[i] = p) <=> (\E i \in 1 .. m - 1 : order[i] = p) \/ p = o
    <3>1. \A i \in 1 .. m : i = m \/ i \in 1 .. m - 1
      BY <2>3
    <3>2. 1 .. m - 1 \subseteq 1 .. m /\ m \in 1 .. m
      BY <2>3
    <3> QED BY <3>1, <3>2
  <2> HIDE DEF a, b, o, Good
  <2>9. SchedFits(b) /\ b.cur = a.cur /\ b.status = [a.status EXCEPT ![o] = "READY"]
    BY <2>5, WakeLemma
  <2>10. \A p \in Process : b.status[p] = IF p = o THEN "READY" ELSE a.status[p]
    BY <2>5, <2>6, <2>9
  <2>11. \A p \in Process :
           b.status[p] = IF \E i \in 1 .. m : order[i] = p THEN "READY" ELSE s.status[p]
    BY <2>7, <2>8, <2>10
  <2>12. Good(m)
    BY <2>5, <2>9, <2>11 DEF Good, b
  <2> QED BY <2>1, <2>12
<1>5. Good(N)
  BY <1>0, <1>4
<1> QED BY <1>1, <1>5 DEF N, Contains

\* The sequence of a finite set has its members.
LEMMA SequenceOf ==
  ASSUME NEW S, IsFiniteSet(S), NEW q, q = SetToSeq(S)
  PROVE  /\ q \in Seq(S) /\ IsInjective(q)
         /\ \A x : Contains(q, x) <=> x \in S
<1> DEFINE n == Cardinality(S)
<1>1. n \in Nat /\ ExistsBijection(1 .. n, S)
  BY FS_CardinalityType
<1>2. PICK f \in [1 .. n -> S] : IsInjective(f)
  BY <1>1 DEF ExistsBijection, Bijection, Injection
<1>3. q \in [1 .. n -> S] /\ IsInjective(q)
  BY <1>2 DEF SetToSeq
<1>4. IsFiniteSet(1 .. n) /\ Cardinality(1 .. n) = n
  <2> HIDE DEF n
  <2>1. IsFiniteSet(1 .. n) /\ Cardinality(1 .. n) = IF 1 > n THEN 0 ELSE n - 1 + 1
    BY <1>1, FS_Interval
  <2> QED BY <1>1, <2>1
<1>5. q \in Surjection(1 .. n, S)
  <2>1. q \in Injection(1 .. n, S)
    BY <1>3 DEF Injection
  <2> HIDE DEF n
  <2> QED BY <1>4, <2>1, FS_Injection DEF n
<1> HIDE DEF n
<1>6. q \in Seq(S) /\ Len(q) = n
  BY <1>1, <1>3
<1>7. \A x \in S : \E i \in 1 .. n : q[i] = x
  BY <1>5 DEF Surjection
<1>8. \A i \in 1 .. n : q[i] \in S
  BY <1>3
<1> QED BY <1>3, <1>6, <1>7, <1>8 DEF Contains

-----------------------------------------------------------------------------
(* The invariant holds.                                                    *)

\* Every process runs or is ready, and all queues are empty.
LEMMA InitFits == Init => InputInv
<1> SUFFICES ASSUME Init PROVE InputInv
  OBVIOUS
<1>1. SchedFits(sched) /\ \A p \in Process : sched.status[p] # "WAITING"
  <2> DEFINE q == SetToSeq(Process)
             s == [status |-> [p \in Process |-> "READY"], ready |-> q, cur |-> Idle]
  <2>1. q \in Seq(Process) /\ IsInjective(q) /\ \A x : Contains(q, x) <=> x \in Process
    BY InputBounds, SequenceOf
  <2> HIDE DEF q
  <2>2. ListFits(s) /\ \A p \in Process : Contains(s.ready, p) /\ s.status[p] # "WAITING"
    BY <2>1 DEF ListFits, SchedType
  <2>3. sched = RunNext(s)
    BY DEF Init, q
  <2> HIDE DEF s
  <2> QED BY <2>2, <2>3, RunNextLemma
<1>2. Queues(dev, proc)
  <2>1. \A d \in Device : dev[d] = init_queue(d)
    BY DEF Init
  <2>2. dev = [d \in Device |-> dev[d]]
    BY DEF Init
  <2>3. ASSUME NEW d \in Device PROVE QueueFits(dev[d], d, proc)
    <3> DEFINE r == dev[d]
               b == [i \in 0 .. Size[d] - 1 |-> Zero[d]]
    <3>1. r = [head |-> 0, tail |-> 0, proc_list |-> << >>, buf |-> b]
      BY <2>1 DEF init_queue
    <3>2. IsRing(r, d) /\ r.proc_list = << >>
      <4>1. b = [i \in 0 .. Size[d] - 1 |-> b[i]] /\ 0 \in 0 .. Size[d] - 1
        BY SizeType
      <4> HIDE DEF b, r
      <4>2. << >> \in Seq(Process)
        OBVIOUS
      <4> QED BY <3>1, <4>1, <4>2 DEF IsRing
    <3>3. IsInjective(dev[d].proc_list) /\ \A x : ~ Contains(dev[d].proc_list, x)
      BY <3>2 DEF IsInjective, Contains
    <3>4. \A p \in Process : ~ Waits(proc, d, p)
      BY DEF Init, Waits, User
    <3> QED BY <3>2, <3>3, <3>4 DEF QueueFits
  <2> QED BY <2>2, <2>3 DEF Queues
<1>3. Calls(sched, proc, timer)
  <2>1. \A p \in Process : proc[p].call = "none" /\ timer[p] = -1
    BY DEF Init, User
  <2>2. proc \in [Process -> Call] /\ timer \in [Process -> Int]
    BY DEF Init, User, Call, Device
  <2> QED BY <1>1, <2>1, <2>2 DEF Calls, CallFits
<1>4. \A d \in Device : Served(dev[d], d, sched, proc)
  BY <1>1 DEF Served
<1> QED BY <1>1, <1>2, <1>3, <1>4 DEF InputInv, Fits

\* The parts of the invariant.
InvParts ==
  /\ SchedFits(sched) /\ Queues(dev, proc) /\ Calls(sched, proc, timer)
  /\ proc \in [Process -> Call] /\ timer \in [Process -> Int]
  /\ dev = [d \in Device |-> dev[d]]
  /\ \A d \in Device : QueueFits(dev[d], d, proc) /\ IsRing(dev[d], d)
  /\ \A p \in Process : CallFits(sched, proc, timer, p)
  /\ PollsAlone => \A d \in Device : Served(dev[d], d, sched, proc)
LEMMA Parts == InputInv => InvParts
BY DEF InputInv, Fits, Queues, Calls, QueueFits, InvParts

\* The scheduler lets another process run.
LEMMA ScheduleStep ==
  ASSUME NEW D, NEW s, NEW c, NEW tm, Fits(D, s, c, tm), NEW z, z = schedule(s)
  PROVE  Fits(D, z, c, tm)
<1>1. SchedFits(s)
  BY DEF Fits
<1>2. SchedFits(z) /\ \A p \in Process : z.status[p] = "WAITING" <=> s.status[p] = "WAITING"
  BY <1>1, ScheduleLemma DEF SchedFits
<1> QED BY <1>2, FewerSleep

\* The clock: timers go down, those that expire wake their process.
LEMMA TickStep ==
  ASSUME InputInv, NEW resched \in BOOLEAN, inthandler20(resched)
  PROVE  InputInv'
<1> DEFINE q == SetToSeq(Expired)
           z == process_timeout
<1>0. InvParts
  BY Parts
<1>1. q \in Seq(Process) /\ \A x : Contains(q, x) <=> x \in Expired
  <2>1. Expired \subseteq Process /\ IsFiniteSet(Expired)
    BY InputBounds, FS_Subset DEF Expired
  <2>2. q \in Seq(Expired) /\ \A x : Contains(q, x) <=> x \in Expired
    BY <2>1, SequenceOf
  <2> HIDE DEF q
  <2> QED BY <2>1, <2>2
<1>2. ~ Contains(q, sched.cur)
  <2>1. sched.cur = Idle \/ (sched.cur \in Process /\ proc[sched.cur].call = "none")
    BY <1>0 DEF inthandler20, Interruptible, InvParts, SchedFits, ListFits, SchedType
  <2>2. ASSUME sched.cur \in Process, proc[sched.cur].call = "none" PROVE timer[sched.cur] < 0
    BY <1>0, <2>2 DEF InvParts, CallFits
  <2>3. sched.cur \notin Expired
    BY <1>0, <2>1, <2>2, InputBounds DEF Expired, InvParts
  <2> QED BY <1>1, <2>3
<1>3. z = WakeAll(sched, q)
  BY DEF process_timeout
<1> HIDE DEF q, z
<1>4. /\ SchedFits(z)
      /\ \A p \in Process : z.status[p] = IF Contains(q, p) THEN "READY" ELSE sched.status[p]
  BY <1>0, <1>1, <1>2, <1>3, WakeAllLemma DEF InvParts
<1>5. /\ \A p \in Process : z.status[p] = "WAITING" => sched.status[p] = "WAITING" /\ timer[p] # 0
  BY <1>1, <1>4 DEF Expired
<1>6. Fits(dev, z, proc, timer)
  BY <1>4, <1>5, FewerSleep DEF InputInv
<1>7. Calls(z, proc, timer')
  <2>1. timer' = [p \in Process |-> IF timer[p] < 0 THEN -1 ELSE timer[p] - 1]
    BY DEF inthandler20
  <2>2. timer' \in [Process -> Int]
    BY <1>0, <2>1 DEF InvParts
  <2>3. ASSUME NEW p \in Process PROVE CallFits(z, proc, timer', p)
    <3>1. timer[p] \in Int /\ timer'[p] = IF timer[p] < 0 THEN -1 ELSE timer[p] - 1
      BY <1>0, <2>1 DEF InvParts
    <3>2. CallFits(sched, proc, timer, p)
      BY <1>0 DEF InvParts
    <3>3. timer[p] < 0 => timer'[p] < 0
      BY <3>1
    <3>4. timer[p] >= 0 /\ timer[p] # 0 => timer'[p] >= 0
      BY <3>1
    <3> QED BY <1>5, <3>2, <3>3, <3>4 DEF CallFits
  <2> QED BY <1>0, <2>2, <2>3 DEF Calls, InvParts
<1>8. Fits(dev, z, proc, timer')
  BY <1>6, <1>7 DEF Fits
<1>9. dev' = dev /\ proc' = proc /\ sched' = IF resched THEN schedule(z) ELSE z
  BY DEF inthandler20, z
<1>10. Fits(dev, sched', proc, timer')
  BY <1>8, <1>9, ScheduleStep
<1> QED BY <1>9, <1>10 DEF InputInv

\* The idle thread gives way.
LEMMA IdleStep == ASSUME InputInv, IdleYields PROVE InputInv'
<1>1. sched' = schedule(sched) /\ dev' = dev /\ proc' = proc /\ timer' = timer
  BY DEF IdleYields
<1> QED BY <1>1, ScheduleStep DEF InputInv

\* Nothing of what the invariant speaks of changes.
LEMMA SameStep ==
  ASSUME InputInv, UNCHANGED <<dev, sched, proc, timer>> PROVE InputInv'
BY DEF InputInv

\* The interrupt of the keyboard stores a character at most.
LEMMA KeyboardStep == ASSUME InputInv, inthandler21 PROVE InputInv'
<1>1. UNCHANGED <<dev, sched>> \/ \E x : Store("kbd", x)
  <2>1. PICK b : handle_keyboard_event(b)
    BY DEF inthandler21
  <2> QED BY <2>1 DEF handle_keyboard_event
<1>2. UNCHANGED <<proc, timer>>
  BY DEF inthandler21
<1>3. CASE UNCHANGED <<dev, sched>>
  BY <1>2, <1>3, SameStep
<1>4. CASE \E x : Store("kbd", x)
  <2>1. PICK x : Store("kbd", x)
    BY <1>4
  <2> DEFINE n == put(dev["kbd"], "kbd", x)
  <2>2. /\ dev' = [dev EXCEPT !["kbd"] = n]
        /\ sched' = IF n.head = dev["kbd"].head THEN sched
                    ELSE wake_up_interruptible(sched, dev["kbd"].proc_list)
    BY <2>1 DEF Store
  <2>3. IsPut(n, dev["kbd"], "kbd", x)
    BY DEF IsPut
  <2>4. IsChange(dev', dev, "kbd", n)
    BY <2>2 DEF IsChange
  <2>5. IsWake(sched', sched, n, dev["kbd"])
    BY <2>2 DEF IsWake
  <2>6. "kbd" \in Device
    BY DEF Device
  <2> HIDE DEF n
  <2>7. Fits(dev', sched', proc, timer)
    BY <2>3, <2>4, <2>5, <2>6, StoreLemma DEF InputInv
  <2> QED BY <1>2, <2>7 DEF InputInv
<1> QED BY <1>1, <1>3, <1>4

\* The interrupt of the mouse stores twice: a report, if it is complete, and a byte.
LEMMA MouseStep == ASSUME InputInv, inthandler2C PROVE InputInv'
<1>0. InvParts
  BY Parts
<1>1. PICK q, b : StoreBoth(q, b)
  BY DEF inthandler2C, MouseByte
<1> DEFINE d1 == IF q = <<>> THEN dev.mouse ELSE put(dev.mouse, "mouse", q[1])
           s1 == IF d1.head = dev.mouse.head THEN sched
                 ELSE wake_up_interruptible(sched, dev.mouse.proc_list)
           D1 == [dev EXCEPT !["mouse"] = d1]
           d2 == put(dev.aux, "aux", b)
<1>2. /\ dev' = [dev EXCEPT !.mouse = d1, !.aux = d2]
      /\ sched' = IF d2.head = dev.aux.head THEN s1 ELSE wake_up_interruptible(s1, dev.aux.proc_list)
  BY <1>1 DEF StoreBoth
<1>3. "mouse" \in Device /\ "aux" \in Device
  BY DEF Device
<1>4. /\ D1 = [d \in Device |-> IF d = "mouse" THEN d1 ELSE dev[d]]
      /\ dev' = [d \in Device |-> IF d = "mouse" THEN d1 ELSE IF d = "aux" THEN d2 ELSE dev[d]]
  <2>1. dev = [d \in Device |-> dev[d]]
    BY <1>0 DEF InvParts
  <2> HIDE DEF d1, d2
  <2> QED BY <1>2, <1>3, <2>1
<1>5. Fits(D1, s1, proc, timer)
  <2>1. CASE q = << >>
    <3>1. d1 = dev["mouse"] /\ s1 = sched
      BY <2>1
    <3> HIDE DEF d1, s1
    <3>2. D1 = dev
      BY <1>0, <1>4, <3>1 DEF InvParts
    <3> QED BY <3>1, <3>2 DEF InputInv
  <2>2. CASE q # << >>
    <3>1. IsPut(d1, dev["mouse"], "mouse", q[1]) /\ IsChange(D1, dev, "mouse", d1)
      BY <2>2 DEF IsPut, IsChange
    <3>2. IsWake(s1, sched, d1, dev["mouse"])
      BY DEF IsWake
    <3> HIDE DEF d1, s1, D1
    <3> QED BY <1>3, <3>1, <3>2, StoreLemma DEF InputInv
  <2> QED BY <2>1, <2>2
<1>6. Fits(dev', sched', proc, timer)
  <2> HIDE DEF d1, s1
  <2>1. D1["aux"] = dev["aux"]
    BY <1>3, <1>4
  <2>2. IsPut(d2, D1["aux"], "aux", b) /\ IsWake(sched', s1, d2, D1["aux"])
    BY <1>2, <2>1 DEF IsPut, IsWake
  <2>3. IsChange(dev', D1, "aux", d2)
    <3> HIDE DEF d2, D1
    <3> QED BY <1>3, <1>4 DEF IsChange
  <2> HIDE DEF D1, d2
  <2> QED BY <1>3, <1>5, <2>2, <2>3, StoreLemma
<1>7. UNCHANGED <<proc, timer>>
  BY DEF inthandler2C
<1> QED BY <1>6, <1>7 DEF InputInv

\* Entries are taken from the ring of d.
IsTake(F, D, d, k) == F = [D EXCEPT ![d] = get_from_queue(D[d], d, k)]
\* There is no more to read, and nobody sleeps who did not.
LEMMA TakeStep ==
  ASSUME NEW D, NEW s, NEW c, NEW tm, Fits(D, s, c, tm), NEW d \in Device,
         NEW k \in 0 .. Length(D[d], d), NEW F, IsTake(F, D, d, k)
  PROVE  Fits(F, s, c, tm)
<1> DEFINE r == D[d]
           n == get_from_queue(r, d, k)
<1>0. QueueFits(r, d, c) /\ IsRing(r, d) /\ Queues(D, c) /\ Length(r, d) \in Nat
  BY LengthIs, SizeType DEF Fits, Queues, QueueFits
<1>1. IsRing(n, d) /\ n.proc_list = r.proc_list /\ Length(n, d) = Length(r, d) - k
  BY <1>0, GetLemma
<1>2. IsChange(F, D, d, n)
  BY DEF IsChange, IsTake
<1> HIDE DEF n
<1>3. QueueFits(n, d, c) /\ Length(n, d) \in Nat /\ Length(n, d) <= Length(r, d)
  <2>1. QueueFits(n, d, c)
    BY <1>0, <1>1 DEF QueueFits
  <2>2. k \in 0 .. Length(r, d)
    OBVIOUS
  <2> HIDE DEF r
  <2> QED BY <1>0, <1>1, <2>1, <2>2
<1>4. Queues(F, c) /\ F[d] = n /\ \A e \in Device \ {d} : F[e] = D[e]
  BY <1>0, <1>2, <1>3, QueueChange
<1>5. ASSUME PollsAlone PROVE Served(n, d, s, c)
  <2>1. Served(r, d, s, c)
    BY <1>5 DEF Fits
  <2> HIDE DEF r
  <2> QED BY <1>0, <1>3, <2>1, ServedFewer
<1> QED BY <1>4, <1>5 DEF Fits

\* A read that takes what there is, or goes to sleep.
LEMMA ReadStep == ASSUME InputInv, NEW p \in Process, sys_read(p) PROVE InputInv'
<1>0. InvParts /\ sched.cur = p /\ proc[p] = User
  BY Parts DEF sys_read, Running
<1>1. UNCHANGED timer
  BY DEF sys_read
<1>2. PICK d \in Reads[p], count \in Counts : ReadAtOnce(p, d, count) \/ ReadBlocks(p, d, count)
  BY DEF sys_read
<1>3. d \in Device /\ count \in Nat \ {0}
  BY InputBounds
<1>4. CASE ReadAtOnce(p, d, count)
  <2> DEFINE k == Min({count, Length(dev[d], d)})
  <2>1. /\ dev' = [dev EXCEPT ![d] = get_from_queue(dev[d], d, k)]
        /\ UNCHANGED <<sched, proc>>
    BY <1>4 DEF ReadAtOnce, Take
  <2>2. k \in 0 .. Length(dev[d], d)
    BY <1>0, <1>3, TakenFrom DEF InvParts
  <2> HIDE DEF k
  <2>3. IsTake(dev', dev, d, k)
    BY <2>1 DEF IsTake
  <2>4. Fits(dev', sched, proc, timer)
    BY <1>3, <2>2, <2>3, TakeStep DEF InputInv
  <2> QED BY <1>1, <2>1, <2>4 DEF InputInv
<1>5. CASE ReadBlocks(p, d, count)
  <2> DEFINE call == [call |-> "read", dev |-> d, count |-> count]
  <2>1. /\ dev' = [dev EXCEPT ![d] = add_wait_queue(dev[d], p)]
        /\ sched' = thread_block(sched) /\ proc' = [proc EXCEPT ![p] = call]
        /\ dev[d].head = dev[d].tail
    BY <1>5 DEF ReadBlocks, queue_empty
  <2>2. /\ proc' \in [Process -> Call] /\ proc'[p] = call /\ OthersSame(proc, proc', p)
        /\ OthersSame(timer, timer', p) /\ timer' = timer /\ timer \in [Process -> Int]
    <3>1. call \in Call
      BY <1>3 DEF Call
    <3> HIDE DEF call
    <3> QED BY <1>0, <1>1, <2>1, <3>1 DEF InvParts, OthersSame
  <2>3. \A e \in Device : ~ Waits(proc, e, p) /\ (Waits(proc', e, p) <=> e = d)
    BY <1>0, <2>2 DEF Waits, User
  <2>4. /\ QueueFits(add_wait_queue(dev[d], p), d, proc')
        /\ Length(add_wait_queue(dev[d], p), d) = Length(dev[d], d)
    BY <1>0, <1>3, <2>2, <2>3, JoinQueue DEF InvParts
  <2>5. ASSUME NEW e \in Device, e # d PROVE QueueFits(dev[e], e, proc')
    BY <1>0, <2>2, <2>3, <2>5, StayQueue DEF InvParts
  <2>6. dev' = [e \in Device |-> IF e = d THEN add_wait_queue(dev[d], p) ELSE dev[e]]
    BY <1>0, <1>3, <2>1 DEF InvParts
  <2>7. Queues(dev', proc')
    BY <2>4, <2>5, <2>6 DEF Queues
  <2>8. Length(dev[d], d) = 0
    BY <1>0, <1>3, <2>1, LengthIs DEF InvParts
  <2>9. ASSUME NEW e \in Device
        PROVE  /\ Waits(proc, e, p) => Waits(proc', e, p)
               /\ Waits(proc', e, p) => Length(dev'[e], e) = 0
               /\ Length(dev'[e], e) = Length(dev[e], e)
    BY <2>3, <2>4, <2>6, <2>8
  <2>10. CallFits(sched', proc', timer', p)
    <3>1. CallFits(sched, proc, timer, p)
      BY <1>0 DEF InvParts
    <3> QED BY <1>0, <1>3, <2>2, <3>1 DEF CallFits, User
  <2>11. Fits(dev', sched', proc', timer')
    <3>1. GoesToSleep(dev, sched, proc, timer, p, dev', sched', proc', timer')
      BY <1>0, <2>1, <2>2, <2>7, <2>9, <2>10 DEF GoesToSleep
    <3> QED BY <3>1, SleepLemma DEF InputInv
  <2> QED BY <2>11 DEF InputInv
<1> QED BY <1>2, <1>4, <1>5

\* read_pcmouse finds nothing and sleeps again.
LEMMA ReadSleepsStep ==
  ASSUME InputInv, NEW p \in Process, sched.cur = p, proc[p].call = "read",
         dev[proc[p].dev].head = dev[proc[p].dev].tail,
         sched' = thread_block(sched), UNCHANGED <<dev, proc, timer>>
  PROVE  InputInv'
<1>0. InvParts
  BY Parts
<1>1. proc[p].dev \in Device
  BY <1>0 DEF InvParts, Call
<1>2. Length(dev[proc[p].dev], proc[p].dev) = 0
  BY <1>0, <1>1, LengthIs DEF InvParts
<1>3. \A d \in Device : Waits(proc, d, p) => d = proc[p].dev
  BY DEF Waits
<1>4. CallFits(sched', proc, timer, p)
  <2>1. CallFits(sched, proc, timer, p)
    BY <1>0 DEF InvParts
  <2> QED BY <2>1 DEF CallFits
<1>5. GoesToSleep(dev, sched, proc, timer, p, dev, sched', proc, timer)
  BY <1>0, <1>2, <1>3, <1>4 DEF GoesToSleep, OthersSame, InvParts
<1>6. Fits(dev, sched', proc, timer)
  BY <1>5, SleepLemma DEF InputInv
<1> QED BY <1>6 DEF InputInv

\* A read that was woken takes what there is and returns.
LEMMA ReadReturnsStep ==
  ASSUME InputInv, NEW p \in Process, sched.cur = p, proc[p].call = "read",
         sched' = [sched EXCEPT !.status[p] = "READY"],
         NEW d, d = proc[p].dev,
         Take(d, proc[p].count, remove_wait_queue(dev[d], p)), Return(p), UNCHANGED timer
  PROVE  InputInv'
<1>0. InvParts /\ CallFits(sched, proc, timer, p)
  BY Parts DEF InvParts
<1>1. d \in Device /\ proc[p].count \in Nat \ {0} /\ timer[p] < 0
  BY <1>0 DEF InvParts, Call, CallFits
<1>2. /\ proc' \in [Process -> Call] /\ proc'[p] = User /\ OthersSame(proc, proc', p)
  <2>1. User \in Call
    BY DEF User, Call, Device
  <2> QED BY <1>0, <2>1 DEF Return, InvParts, OthersSame
<1>3. \A e \in Device : ~ Waits(proc', e, p) /\ (Waits(proc, e, p) <=> e = d)
  BY <1>2 DEF Waits, User
<1> DEFINE r == dev[d]
           m == remove_wait_queue(r, p)
           k == Min({proc[p].count, Length(m, d)})
           n == get_from_queue(m, d, k)
<1>4. dev' = [dev EXCEPT ![d] = n]
  BY DEF Take
<1>5. QueueFits(m, d, proc') /\ IsRing(m, d) /\ Length(m, d) = Length(r, d)
  BY <1>0, <1>1, <1>2, <1>3, LeaveQueue DEF InvParts, QueueFits
<1>6. /\ k \in 0 .. Length(m, d)
      /\ Length(m, d) - k = 0 \/ Length(m, d) - k < Length(m, d)
  <2> HIDE DEF m
  <2> QED BY <1>1, <1>5, TakenFrom
<1>7. Length(m, d) \in Nat
  <2> HIDE DEF m
  <2> QED BY <1>1, <1>5, LengthIs, SizeType
<1>8. IsRing(n, d) /\ n.proc_list = m.proc_list /\ Length(n, d) = Length(m, d) - k
  <2> HIDE DEF m, k
  <2> QED BY <1>1, <1>5, <1>6, GetLemma
<1>9. QueueFits(n, d, proc')
  BY <1>5, <1>8 DEF QueueFits
<1>10. /\ SchedFits(sched') /\ sched'.status[p] = "READY"
       /\ \A o \in Process \ {p} : sched'.status[o] = sched.status[o]
  BY <1>0, StatusLemma DEF InvParts
<1> HIDE DEF m, k, n
<1>11. dev' = [e \in Device |-> IF e = d THEN n ELSE dev[e]]
  BY <1>0, <1>1, <1>4 DEF InvParts
<1>12. ASSUME NEW e \in Device, e # d
       PROVE  /\ QueueFits(dev[e], e, proc')
              /\ \A o \in Process : Waits(proc', e, o) <=> Waits(proc, e, o)
  BY <1>0, <1>2, <1>3, <1>12, StayQueue DEF InvParts
<1>13. Queues(dev', proc')
  BY <1>9, <1>11, <1>12 DEF Queues
<1>14. Calls(sched', proc', timer')
  <2>1. ASSUME NEW q \in Process PROVE CallFits(sched', proc', timer', q)
    <3>1. CASE q = p
      BY <1>1, <1>2, <1>10, <3>1 DEF CallFits, User
    <3>2. CASE q # p
      <4>1. CallFits(sched, proc, timer, q) /\ proc'[q] = proc[q]
        BY <1>0, <1>2, <3>2 DEF InvParts, OthersSame
      <4> QED BY <1>10, <3>2, <4>1 DEF CallFits
    <3> QED BY <3>1, <3>2
  <2> QED BY <1>0, <1>2, <2>1 DEF Calls, InvParts
<1>15. ASSUME PollsAlone, NEW e \in Device PROVE Served(dev'[e], e, sched', proc')
  <2>0. Served(dev[e], e, sched, proc)
    BY <1>0, <1>15 DEF InvParts
  <2>1. CASE e = d
    <3>1. /\ Length(r, d) \in Nat /\ Length(n, d) \in Nat
          /\ Length(n, d) = 0 \/ Length(n, d) < Length(r, d)
      BY <1>5, <1>6, <1>7, <1>8
    <3>2. \A o \in Process \ {p} : /\ Waits(proc', d, o) <=> Waits(proc, d, o)
                                   /\ sched'.status[o] = sched.status[o]
      BY <1>2, <1>10 DEF OthersSame, Waits
    <3>3. Waits(proc, d, p) /\ ~ Waits(proc', d, p) /\ sched.status[p] # "WAITING"
      BY <1>0, <1>1, <1>3 DEF InvParts, SchedFits
    <3>4. Served(r, d, sched, proc)
      BY <2>0, <2>1
    <3> HIDE DEF r
    <3>5. Leaves(d, sched, proc, r, n, sched', proc', p)
      BY <3>1, <3>2, <3>3 DEF Leaves
    <3>6. Served(n, d, sched', proc')
      BY <3>4, <3>5, ServedLeaves
    <3> QED BY <1>11, <2>1, <3>6
  <2>2. CASE e # d
    <3>1. dev'[e] = dev[e] /\ \A o \in Process : Waits(proc', e, o) <=> Waits(proc, e, o)
      BY <1>11, <1>12, <2>2
    <3>2. \A o \in Process : Waits(proc, e, o) => (sched'.status[o] = "WAITING" <=> sched.status[o] = "WAITING")
      BY <1>3, <1>10, <2>2
    <3>3. Length(dev'[e], e) = Length(dev[e], e)
      BY <3>1
    <3>4. SameWaiters(e, sched, proc, dev[e], sched', proc', dev'[e])
      BY <3>1, <3>2, <3>3 DEF SameWaiters
    <3> QED BY <2>0, <3>4, ServedSame
  <2> QED BY <2>1, <2>2
<1> QED BY <1>10, <1>13, <1>14, <1>15 DEF InputInv, Fits

\* Nothing that p waits for with wait2 has come.
LEMMA NoneReady ==
  ASSUME InvParts, NEW p \in Process, ~ AnyReady(p), NEW d \in Polls[p]
  PROVE  d \in Device /\ Length(dev[d], d) = 0
<1>1. d \in Device
  BY InputBounds
<1>2. dev[d].head = dev[d].tail /\ IsRing(dev[d], d)
  BY <1>1 DEF AnyReady, queue_empty, InvParts
<1> QED BY <1>1, <1>2, LengthIs

\* wait2 returns at once, or registers with the files and sleeps.
LEMMA Wait2Step == ASSUME InputInv, NEW p \in Process, sys_wait2(p) PROVE InputInv'
<1>0. InvParts /\ sched.cur = p /\ proc[p] = User /\ CallFits(sched, proc, timer, p)
  BY Parts DEF sys_wait2, Running, InvParts
<1>1. CASE sched' = [sched EXCEPT !.status[p] = "RUNNING"] /\ UNCHANGED <<dev, proc, timer>>
  <2>1. /\ SchedFits(sched') /\ sched'.status[p] = "RUNNING"
        /\ \A o \in Process \ {p} : sched'.status[o] = sched.status[o]
    BY <1>0, <1>1, StatusLemma DEF InvParts
  <2>2. \A o \in Process : sched'.status[o] = "WAITING" => sched.status[o] = "WAITING"
    BY <2>1
  <2>3. Fits(dev, sched', proc, timer)
    BY <2>1, <2>2, FewerSleep DEF InputInv
  <2> QED BY <1>1, <2>3 DEF InputInv
<1>2. ASSUME NEW t \in Timeouts, t # 0, ~ AnyReady(p), schedule_timeout(p, t),
             dev' = poll_wait(p), proc' = [proc EXCEPT ![p].call = "wait2"]
      PROVE  InputInv'
  <2> DEFINE F == dev'
             c == proc'
  <2>1. t \in Nat /\ t > 0
    BY <1>2, InputBounds
  <2>2. sched' = thread_block(sched) /\ timer' = [timer EXCEPT ![p] = t]
    BY <1>2 DEF schedule_timeout
  <2>3. /\ c \in [Process -> Call] /\ c[p].call = "wait2" /\ OthersSame(proc, c, p)
    <3>1. proc[p] \in Call /\ proc \in [Process -> Call]
      BY <1>0 DEF InvParts
    <3>2. c = [proc EXCEPT ![p] = [proc[p] EXCEPT !.call = "wait2"]]
      BY <1>2
    <3>3. [proc[p] EXCEPT !.call = "wait2"] \in Call /\ [proc[p] EXCEPT !.call = "wait2"].call = "wait2"
      BY <3>1 DEF Call
    <3> QED BY <3>1, <3>2, <3>3 DEF OthersSame
  <2>4. timer' \in [Process -> Int] /\ timer'[p] = t /\ OthersSame(timer, timer', p)
    BY <1>0, <2>1, <2>2 DEF InvParts, OthersSame
  <2>5. \A e \in Device : ~ Waits(proc, e, p) /\ (Waits(c, e, p) <=> e \in Polls[p])
    BY <1>0, <2>3 DEF Waits, User
  <2>6. F = [e \in Device |-> IF e \in Polls[p] THEN add_wait_queue(dev[e], p) ELSE dev[e]]
    BY <1>2 DEF poll_wait
  <2> HIDE DEF F, c
  <2>7. ASSUME NEW e \in Device
        PROVE  QueueFits(F[e], e, c) /\ Length(F[e], e) = Length(dev[e], e)
    <3>0. QueueFits(dev[e], e, proc)
      BY <1>0 DEF InvParts
    <3>1. CASE e \in Polls[p]
      BY <2>3, <2>5, <2>6, <3>0, <3>1, JoinQueue
    <3>2. CASE e \notin Polls[p]
      BY <2>3, <2>5, <2>6, <3>0, <3>2, StayQueue
    <3> QED BY <3>1, <3>2
  <2>8. Queues(F, c)
    BY <2>6, <2>7 DEF Queues
  <2>9. CallFits(sched', c, timer', p)
    BY <2>1, <2>3, <2>4 DEF CallFits
  <2>10. ASSUME NEW e \in Device, Waits(c, e, p) PROVE Length(F[e], e) = 0
    BY <1>0, <1>2, <2>5, <2>7, <2>10, NoneReady
  <2>11. GoesToSleep(dev, sched, proc, timer, p, F, sched', c, timer')
    BY <1>0, <2>2, <2>3, <2>4, <2>5, <2>7, <2>8, <2>9, <2>10 DEF GoesToSleep
  <2>12. Fits(F, sched', c, timer')
    BY <2>11, SleepLemma DEF InputInv
  <2> QED BY <2>12 DEF InputInv, F, c
<1> QED BY <1>1, <1>2 DEF sys_wait2

\* wait2 has been woken and returns, whatever has come.
LEMMA Wait2ReturnsStep ==
  ASSUME InputInv, NEW p \in Process, sched.cur = p, proc[p].call = "wait2",
         dev' = poll_freewait(p), Return(p),
         sched' = [sched EXCEPT !.status[p] = "RUNNING"], timer' = [timer EXCEPT ![p] = -1]
  PROVE  InputInv'
<1>0. InvParts /\ CallFits(sched, proc, timer, p)
  BY Parts DEF InvParts
<1>1. /\ proc' \in [Process -> Call] /\ proc'[p] = User /\ OthersSame(proc, proc', p)
  <2>1. User \in Call
    BY DEF User, Call, Device
  <2> QED BY <1>0, <2>1 DEF Return, InvParts, OthersSame
<1>2. timer' \in [Process -> Int] /\ timer'[p] = -1 /\ OthersSame(timer, timer', p)
  BY <1>0 DEF InvParts, OthersSame
<1>3. \A e \in Device : ~ Waits(proc', e, p) /\ (Waits(proc, e, p) <=> e \in Polls[p])
  BY <1>1 DEF Waits, User
<1>4. dev' = [e \in Device |-> remove_wait_queue(dev[e], p)]
  BY DEF poll_freewait
<1>5. ASSUME NEW e \in Device
      PROVE  QueueFits(dev'[e], e, proc') /\ Length(dev'[e], e) = Length(dev[e], e)
  <2>1. QueueFits(dev[e], e, proc)
    BY <1>0 DEF InvParts
  <2>2. /\ QueueFits(remove_wait_queue(dev[e], p), e, proc')
        /\ Length(remove_wait_queue(dev[e], p), e) = Length(dev[e], e)
    BY <1>1, <1>3, <2>1, LeaveQueue
  <2> QED BY <1>4, <2>2
<1>6. Queues(dev', proc')
  BY <1>4, <1>5 DEF Queues
<1>7. /\ SchedFits(sched') /\ sched'.status[p] = "RUNNING"
      /\ \A o \in Process \ {p} : sched'.status[o] = sched.status[o]
  BY <1>0, StatusLemma DEF InvParts
<1>8. Calls(sched', proc', timer')
  <2>1. ASSUME NEW q \in Process PROVE CallFits(sched', proc', timer', q)
    <3>1. CASE q = p
      BY <1>1, <1>2, <1>7, <3>1 DEF CallFits, User
    <3>2. CASE q # p
      <4>1. CallFits(sched, proc, timer, q) /\ proc'[q] = proc[q] /\ timer'[q] = timer[q]
        BY <1>0, <1>1, <1>2, <3>2 DEF InvParts, OthersSame
      <4> QED BY <1>7, <3>2, <4>1 DEF CallFits
    <3> QED BY <3>1, <3>2
  <2> QED BY <1>1, <1>2, <2>1 DEF Calls
<1>9. ASSUME PollsAlone, NEW e \in Device PROVE Served(dev'[e], e, sched', proc')
  <2>1. CASE e \in Polls[p]
    <3>1. ASSUME NEW o \in Process PROVE ~ Waits(proc', e, o)
      <4>1. CASE o = p
        BY <1>3, <4>1
      <4>2. CASE o # p
        <5>1. e \notin Reads[o] /\ e \notin Polls[o]
          BY <1>9, <2>1, <4>2 DEF PollsAlone
        <5>2. proc'[o] = proc[o] /\ CallFits(sched, proc, timer, o)
          BY <1>0, <1>1, <4>2 DEF OthersSame, InvParts
        <5> QED BY <5>1, <5>2 DEF Waits, CallFits
      <4> QED BY <4>1, <4>2
    <3> QED BY <3>1 DEF Served
  <2>2. CASE e \notin Polls[p]
    <3>0. Served(dev[e], e, sched, proc)
      BY <1>0, <1>9 DEF InvParts
    <3>1. ASSUME NEW o \in Process PROVE Waits(proc', e, o) <=> Waits(proc, e, o)
      <4>1. CASE o = p
        BY <1>3, <2>2, <4>1
      <4>2. CASE o # p
        BY <1>1, <4>2 DEF OthersSame, Waits
      <4> QED BY <4>1, <4>2
    <3>2. \A o \in Process : Waits(proc, e, o) => (sched'.status[o] = "WAITING" <=> sched.status[o] = "WAITING")
      BY <1>3, <1>7, <2>2
    <3>3. SameWaiters(e, sched, proc, dev[e], sched', proc', dev'[e])
      BY <1>5, <3>1, <3>2 DEF SameWaiters
    <3> QED BY <3>0, <3>3, ServedSame
  <2> QED BY <2>1, <2>2
<1> QED BY <1>6, <1>7, <1>8, <1>9 DEF InputInv, Fits

\* wait2 has been woken for nothing, and time is left.
LEMMA Wait2SleepsStep ==
  ASSUME InputInv, NEW p \in Process, sched.cur = p, proc[p].call = "wait2",
         ~ AnyReady(p), ~ (timer[p] <= 0), schedule_timeout(p, timer[p]), UNCHANGED <<dev, proc>>
  PROVE  InputInv'
<1>0. InvParts
  BY Parts
<1>1. sched' = thread_block(sched) /\ timer' = timer
  BY <1>0 DEF schedule_timeout, InvParts
<1>2. \A d \in Device : Waits(proc, d, p) => Length(dev[d], d) = 0
  BY <1>0, NoneReady DEF Waits
<1>3. CallFits(sched', proc, timer, p)
  BY <1>0 DEF CallFits, InvParts
<1>4. GoesToSleep(dev, sched, proc, timer, p, dev, sched', proc, timer)
  BY <1>0, <1>1, <1>2, <1>3 DEF GoesToSleep, OthersSame, InvParts
<1>5. Fits(dev, sched', proc, timer)
  BY <1>4, SleepLemma DEF InputInv
<1> QED BY <1>1, <1>5 DEF InputInv

\* The ring of aux is emptied.
LEMMA OpenStep == ASSUME InputInv, NEW p \in Process, open_aux(p) PROVE InputInv'
<1>0. InvParts /\ "aux" \in Device
  BY Parts DEF Device
<1> DEFINE r == dev["aux"]
           n == [r EXCEPT !.head = 0, !.tail = 0]
<1>1. dev' = [dev EXCEPT !["aux"] = n] /\ UNCHANGED <<sched, proc, timer>>
  <2>1. dev' = [dev EXCEPT !.aux.head = 0, !.aux.tail = 0]
    BY DEF open_aux
  <2>2. dev = [d \in Device |-> dev[d]] /\ IsRing(dev["aux"], "aux")
    BY <1>0 DEF InvParts
  <2> QED BY <1>0, <2>1, <2>2 DEF open_aux, IsRing
<1>2. QueueFits(r, "aux", proc) /\ 0 \in 0 .. Size["aux"] - 1
  BY <1>0, SizeType DEF InvParts
<1> HIDE DEF r
<1>3. IsRing(n, "aux") /\ n.head = 0 /\ n.tail = 0 /\ n.proc_list = r.proc_list
  BY <1>2 DEF QueueFits, IsRing
<1>4. IsChange(dev', dev, "aux", n)
  BY <1>1 DEF IsChange
<1> HIDE DEF n
<1>5. QueueFits(n, "aux", proc) /\ Length(n, "aux") = 0
  BY <1>0, <1>2, <1>3, LengthIs DEF QueueFits
<1>6. Queues(dev', proc) /\ dev'["aux"] = n /\ \A e \in Device \ {"aux"} : dev'[e] = dev[e]
  BY <1>0, <1>4, <1>5, QueueChange DEF InvParts
<1>7. ASSUME PollsAlone, NEW e \in Device PROVE Served(dev'[e], e, sched, proc)
  BY <1>0, <1>5, <1>6, <1>7, ServedEmpty DEF InvParts
<1>8. Fits(dev', sched, proc, timer)
  BY <1>0, <1>6, <1>7 DEF Fits, InvParts
<1> QED BY <1>1, <1>8 DEF InputInv

\* Every step keeps the invariant.
LEMMA NextFits == InputInv /\ [Next]_vars => InputInv'
<1> SUFFICES ASSUME InputInv, [Next]_vars PROVE InputInv'
  OBVIOUS
<1>1. CASE UNCHANGED vars
  BY <1>1, SameStep DEF vars
<1>2. CASE IdleYields
  BY <1>2, IdleStep
<1>3. CASE inthandler21
  BY <1>3, KeyboardStep
<1>4. CASE inthandler2C
  BY <1>4, MouseStep
<1>5. ASSUME NEW resched \in BOOLEAN, inthandler20(resched) PROVE InputInv'
  BY <1>5, TickStep
<1>6. ASSUME NEW k \in Keys, Type(k) PROVE InputInv'
  BY <1>6, SameStep DEF Type
<1>7. ASSUME NEW r \in Reports, Report(r) PROVE InputInv'
  BY <1>7, SameStep DEF Report
<1>8. ASSUME NEW p \in Process, sys_read(p) PROVE InputInv'
  BY <1>8, ReadStep
<1>9. ASSUME NEW p \in Process, sys_wait2(p) PROVE InputInv'
  BY <1>9, Wait2Step
<1>10. ASSUME NEW p \in Process, open_aux(p) PROVE InputInv'
  BY <1>10, OpenStep
<1>11. ASSUME NEW p \in Process, ReadWakes(p) PROVE InputInv'
  BY <1>11, ReadSleepsStep, ReadReturnsStep DEF ReadWakes, Running, queue_empty
<1>12. ASSUME NEW p \in Process, Wait2Wakes(p) PROVE InputInv'
  BY <1>12, Wait2SleepsStep, Wait2ReturnsStep DEF Wait2Wakes, Running
<1> QED
  BY <1>1, <1>2, <1>3, <1>4, <1>5, <1>6, <1>7, <1>8, <1>9, <1>10, <1>11, <1>12 DEF Next, Kernel

\* The invariant of the ready list, the wait queues, the calls and the rings: schedule,
\* try_to_wake_up, put and get_from_queue, whatever the processes and devices do.
THEOREM InputInvariance == Spec => []InputInv
BY InitFits, NextFits, PTL DEF Spec

\* Whoever is neither running nor on the ready list has the status WAITING.
LEMMA AsleepWaits ==
  ASSUME InvParts, NEW p \in Process
  PROVE  /\ Asleep(p) <=> sched.status[p] = "WAITING"
         /\ Contains(sched.ready, p) => sched.status[p] = "READY"
BY DEF InvParts, SchedFits, ListFits, Asleep

\* Every process runs, is once on the ready list, or sleeps in a call with the
\* status that lets it be woken, and the wait queues name those that wait, however
\* wake-ups, timeouts and calls interleave.
THEOREM ReadyExactTheorem == Spec => []ReadyExact
<1>1. InputInv => ReadyExact
  <2> SUFFICES ASSUME InputInv PROVE ReadyExact
    OBVIOUS
  <2>0. InvParts
    BY Parts
  <2>1. IsInjective(sched.ready) /\ ~ Contains(sched.ready, sched.cur)
    BY <2>0 DEF InvParts, SchedFits, ListFits
  <2>2. ASSUME NEW p \in Process
        PROVE  /\ Asleep(p) => sched.status[p] = "WAITING" /\ proc[p].call # "none"
               /\ Contains(sched.ready, p) => sched.status[p] = "READY"
    BY <2>0, AsleepWaits DEF InvParts, CallFits
  <2>3. ASSUME NEW d \in Device, NEW p \in Process
        PROVE  Contains(dev[d].proc_list, p) <=>
                 \/ proc[p].call = "read" /\ proc[p].dev = d
                 \/ proc[p].call = "wait2" /\ d \in Polls[p]
    BY <2>0 DEF InvParts, QueueFits, Waits
  <2> QED BY <2>1, <2>2, <2>3 DEF ReadyExact
<1> QED BY <1>1, InputInvariance, PTL

\* No wake-up is lost: when the files that processes wait for with wait2 are theirs
\* alone, nobody sleeps while there is something for him.
THEOREM SleepersTheorem ==
  ASSUME PollsAlone
  PROVE  Spec => []SleepersHaveNothing
<1>1. InputInv => SleepersHaveNothing
  <2> SUFFICES ASSUME InputInv, NEW p \in Process
               PROVE  /\ proc[p].call = "read" /\ Asleep(p) /\ ~ queue_empty(proc[p].dev) =>
                           \E o \in Process : /\ proc[o] = [proc[p] EXCEPT !.count = proc[o].count]
                                              /\ ~ Asleep(o)
                      /\ proc[p].call = "wait2" /\ Asleep(p) => ~ AnyReady(p) /\ timer[p] >= 0
    BY DEF SleepersHaveNothing
  <2>0. InvParts
    BY Parts
  <2>1. ASSUME proc[p].call = "read", Asleep(p), ~ queue_empty(proc[p].dev)
        PROVE  \E o \in Process : proc[o] = [proc[p] EXCEPT !.count = proc[o].count] /\ ~ Asleep(o)
    <3> DEFINE d == proc[p].dev
               A == Awake(sched, proc, d)
    <3>1. d \in Device /\ d \in Reads[p] /\ Waits(proc, d, p) /\ sched.status[p] = "WAITING"
      BY <2>0, <2>1, AsleepWaits DEF InvParts, Call, CallFits, Waits
    <3>2. Length(dev[d], d) \in Nat /\ Length(dev[d], d) # 0
      BY <2>0, <2>1, <3>1, LengthIs, SizeType DEF InvParts, queue_empty
    <3>3. Length(dev[d], d) <= Cardinality(A) /\ IsFiniteSet(A) /\ Cardinality(A) \in Nat
      BY <2>0, <3>1, AwakeFinite DEF InvParts, Served
    <3>4. A # {}
      <4> HIDE DEF A
      <4>1. Cardinality(A) # 0
        BY <3>2, <3>3
      <4> QED BY <4>1, FS_EmptySet
    <3>5. PICK o \in Process : Waits(proc, d, o) /\ sched.status[o] # "WAITING"
      BY <3>4 DEF Awake
    <3>6. o # p /\ ~ Asleep(o)
      BY <2>0, <3>1, <3>5, AsleepWaits
    <3>7. proc[o].call = "read" /\ proc[o].dev = d
      BY <3>1, <3>5, <3>6 DEF Waits, PollsAlone
    <3>8. proc[o] \in Call /\ proc[p] \in Call
      BY <2>0 DEF InvParts
    <3>9. proc[o] = [proc[p] EXCEPT !.count = proc[o].count]
      BY <2>1, <3>7, <3>8 DEF Call
    <3> QED BY <3>6, <3>9
  <2>2. ASSUME proc[p].call = "wait2", Asleep(p) PROVE ~ AnyReady(p) /\ timer[p] >= 0
    <3>1. sched.status[p] = "WAITING"
      BY <2>0, <2>2, AsleepWaits
    <3>2. timer[p] >= 0
      BY <2>0, <2>2, <3>1 DEF InvParts, CallFits
    <3>3. ASSUME NEW d \in Polls[p] PROVE queue_empty(d)
      <4>1. d \in Device /\ Waits(proc, d, p)
        BY <2>2, InputBounds DEF Waits
      <4>2. ASSUME NEW o \in Process, Waits(proc, d, o) PROVE o = p
        <5>1. CallFits(sched, proc, timer, o)
          BY <2>0 DEF InvParts
        <5> QED BY <4>2, <5>1 DEF Waits, CallFits, PollsAlone
      <4>3. Awake(sched, proc, d) = {}
        BY <3>1, <4>2 DEF Awake
      <4>4. Length(dev[d], d) <= Cardinality(Awake(sched, proc, d))
        BY <2>0, <3>1, <4>1 DEF InvParts, Served
      <4>5. Cardinality({}) = 0
        BY FS_EmptySet
      <4>6. IsRing(dev[d], d)
        BY <2>0, <4>1 DEF InvParts
      <4> QED BY <4>1, <4>3, <4>4, <4>5, <4>6, LengthIs, SizeType DEF queue_empty
    <3> QED BY <3>2, <3>3 DEF AnyReady
  <2> QED BY <2>1, <2>2
<1> QED BY <1>1, InputInvariance, PTL

-----------------------------------------------------------------------------
(* What the rings hold.                                                    *)

\* The content of a ring depends on its buffer and its indices.
LEMMA ContentSame ==
  ASSUME NEW d, NEW r, NEW n, n.head = r.head, n.tail = r.tail, n.buf = r.buf
  PROVE  Content(n, d) = Content(r, d)
BY Zenon DEF Content, Length

\* The slots that the content of a ring is in.
SlotOf(r, d, i) == IF r.tail + i - 1 < Size[d] THEN r.tail + i - 1 ELSE r.tail + i - 1 - Size[d]

\* The content of a ring lies in these slots, and none of them is the free one.
LEMMA ContentIs ==
  ASSUME NEW d \in Device, NEW r, IsRing(r, d)
  PROVE  /\ Content(r, d) = [i \in 1 .. Length(r, d) |-> r.buf[SlotOf(r, d, i)]]
         /\ \A i \in 1 .. Length(r, d) : SlotOf(r, d, i) \in 0 .. Size[d] - 1 /\ SlotOf(r, d, i) # r.head
<1>1. /\ r.head \in 0 .. Size[d] - 1 /\ r.tail \in 0 .. Size[d] - 1 /\ Size[d] \in Nat \ {0}
      /\ Length(r, d) \in 0 .. Size[d] - 1
      /\ Length(r, d) = IF r.head >= r.tail THEN r.head - r.tail ELSE r.head - r.tail + Size[d]
  BY SizeType, LengthIs DEF IsRing
<1>2. ASSUME NEW i \in 1 .. Length(r, d)
      PROVE  /\ (r.tail + i - 1) % Size[d] = SlotOf(r, d, i)
             /\ SlotOf(r, d, i) \in 0 .. Size[d] - 1 /\ SlotOf(r, d, i) # r.head
  <2> DEFINE j == i - 1
  <2>1. j \in 0 .. Size[d] /\ r.tail + i - 1 = r.tail + j
    BY <1>1
  <2>2. SlotOf(r, d, i) = IF r.tail + j < Size[d] THEN r.tail + j ELSE r.tail + j - Size[d]
    BY <2>1 DEF SlotOf
  <2>3. SlotOf(r, d, i) \in 0 .. Size[d] - 1 /\ SlotOf(r, d, i) # r.head
    BY <1>1, <2>2
  <2> HIDE DEF j
  <2>4. (r.tail + j) % Size[d] = IF r.tail + j < Size[d] THEN r.tail + j ELSE r.tail + j - Size[d]
    BY <1>1, <2>1, RingIndex
  <2> QED BY <2>1, <2>2, <2>3, <2>4
<1>3. \A i \in 1 .. Length(r, d) : r.buf[(r.tail + i - 1) % Size[d]] = r.buf[SlotOf(r, d, i)]
  BY <1>2
<1>4. Content(r, d) = [i \in 1 .. Length(r, d) |-> r.buf[(r.tail + i - 1) % Size[d]]]
  BY Zenon DEF Content
<1>5. Content(r, d) = [i \in 1 .. Length(r, d) |-> r.buf[SlotOf(r, d, i)]]
  BY <1>3, <1>4, Zenon
<1> QED BY <1>2, <1>5

\* The content is a sequence.
LEMMA ContentSeq ==
  ASSUME NEW d \in Device, NEW r, IsRing(r, d)
  PROVE  /\ Content(r, d) \in Seq({r.buf[j] : j \in 0 .. Size[d] - 1})
         /\ Len(Content(r, d)) = Length(r, d)
<1>1. Length(r, d) \in Nat
  BY LengthIs, SizeType
<1>2. \A i \in 1 .. Length(r, d) : r.buf[SlotOf(r, d, i)] \in {r.buf[j] : j \in 0 .. Size[d] - 1}
  BY ContentIs
<1> DEFINE q == Content(r, d)
           X == {r.buf[j] : j \in 0 .. Size[d] - 1}
           L == Length(r, d)
<1>3. q \in [1 .. L -> X]
  <2>1. q = [i \in 1 .. L |-> r.buf[SlotOf(r, d, i)]]
    BY ContentIs
  <2> HIDE DEF q, L
  <2> QED BY <1>2, <2>1 DEF L
<1> HIDE DEF q, X, L
<1>4. q \in Seq(X) /\ Len(q) = L
  BY <1>1, <1>3 DEF L
<1> QED BY <1>4 DEF q, X, L

\* put adds the entry at the end, unless the ring is full.
LEMMA ContentPut ==
  ASSUME NEW d \in Device, NEW r, IsRing(r, d), NEW x, NEW n, Entered(n, r, d, x)
  PROVE  Content(n, d) = IF Len(Content(r, d)) < Size[d] - 1 THEN Append(Content(r, d), x)
                         ELSE Content(r, d)
<1> DEFINE a == Content(r, d)
           b == Content(n, d)
           L == Length(r, d)
           S == Size[d]
<1>1. /\ IsRing(n, d) /\ n.tail = r.tail /\ n.buf = [r.buf EXCEPT ![r.head] = x]
      /\ \/ n.head = r.head /\ Length(n, d) = L /\ L = S - 1
         \/ n.head # r.head /\ Length(n, d) = L + 1
  BY DEF Entered
<1>2. /\ L \in Nat /\ L <= S - 1 /\ S \in Nat \ {0, 1} /\ r.head \in 0 .. S - 1 /\ r.tail \in 0 .. S - 1
      /\ L = IF r.head >= r.tail THEN r.head - r.tail ELSE r.head - r.tail + S
      /\ Length(n, d) \in 0 .. S - 1
  <2>1. Length(n, d) \in 0 .. S - 1
    BY <1>1, LengthIs
  <2>2. S \in Nat \ {0, 1} /\ r.head \in 0 .. S - 1 /\ r.tail \in 0 .. S - 1
    BY SizeType DEF IsRing
  <2>3. /\ L \in 0 .. S - 1
        /\ L = IF r.head >= r.tail THEN r.head - r.tail ELSE r.head - r.tail + S
    BY LengthIs
  <2> HIDE DEF L, S
  <2> QED BY <2>1, <2>2, <2>3
<1>3. /\ a = [i \in 1 .. L |-> r.buf[SlotOf(r, d, i)]]
      /\ \A i \in 1 .. L : SlotOf(r, d, i) \in 0 .. S - 1 /\ SlotOf(r, d, i) # r.head
      /\ b = [i \in 1 .. Length(n, d) |-> n.buf[SlotOf(n, d, i)]]
  BY <1>1, ContentIs
<1>4. \A i : SlotOf(n, d, i) = SlotOf(r, d, i)
  BY <1>1 DEF SlotOf
<1>5. r.buf = [i \in 0 .. S - 1 |-> r.buf[i]]
  BY DEF IsRing
<1>6. \A j \in 0 .. S - 1 : n.buf[j] = IF j = r.head THEN x ELSE r.buf[j]
  BY <1>1, <1>2, <1>5
<1>7. \A i \in 1 .. L : n.buf[SlotOf(n, d, i)] = r.buf[SlotOf(r, d, i)]
  BY <1>3, <1>4, <1>6
<1>8. Len(a) = L /\ a \in Seq({r.buf[j] : j \in 0 .. S - 1})
  BY ContentSeq
<1> HIDE DEF a, b, L, S
<1>9. CASE Length(n, d) = L /\ L = S - 1
  <2>1. a = b
    BY <1>3, <1>7, <1>9
  <2>2. ~ (Len(a) < S - 1)
    BY <1>2, <1>8, <1>9
  <2> QED BY <2>1, <2>2 DEF a, b, S
<1>10. CASE Length(n, d) = L + 1
  <2>1. L < S - 1
    BY <1>2, <1>10
  <2>2. SlotOf(r, d, L + 1) = r.head
    BY <1>2, <2>1 DEF SlotOf, S
  <2>3. n.buf[SlotOf(n, d, L + 1)] = x
    BY <1>2, <1>4, <1>6, <2>2
  <2>4. b = [i \in 1 .. L + 1 |-> IF i = L + 1 THEN x ELSE r.buf[SlotOf(r, d, i)]]
    <3>1. \A i \in 1 .. L + 1 : i = L + 1 \/ i \in 1 .. L
      BY <1>2
    <3> QED BY <1>3, <1>7, <1>10, <2>3, <3>1
  <2> DEFINE X == {r.buf[j] : j \in 0 .. S - 1} \cup {x}
             e == Append(a, x)
  <2>5. a \in Seq(X) /\ x \in X
    <3>1. \A i \in 1 .. L : r.buf[SlotOf(r, d, i)] \in {r.buf[j] : j \in 0 .. S - 1}
      BY <1>3
    <3>2. a \in [1 .. L -> X]
      BY <1>3, <3>1
    <3> HIDE DEF X
    <3>3. a \in Seq(X)
      BY <1>2, <3>2
    <3> QED BY <3>3 DEF X
  <2> HIDE DEF X, e
  <2>6. /\ DOMAIN e = 1 .. L + 1 /\ e[L + 1] = x /\ \A i \in 1 .. L : e[i] = a[i]
        /\ e \in Seq(X) /\ Len(e) = L + 1
    BY <1>8, <2>5, AppendFields DEF e
  <2>7. e = [i \in 1 .. L + 1 |-> e[i]]
    BY <1>2, <2>6
  <2>8. \A i \in 1 .. L + 1 : e[i] = IF i = L + 1 THEN x ELSE r.buf[SlotOf(r, d, i)]
    <3>1. \A i \in 1 .. L + 1 : i = L + 1 \/ i \in 1 .. L
      BY <1>2
    <3> QED BY <1>3, <2>6, <3>1
  <2>9. e = b
    BY <2>4, <2>7, <2>8, Zenon
  <2> QED BY <1>8, <2>1, <2>9 DEF a, b, e, S
<1> QED BY <1>1, <1>9, <1>10

\* get_from_queue takes entries from the front.
LEMMA ContentGet ==
  ASSUME NEW d \in Device, NEW r, IsRing(r, d), NEW k \in 0 .. Length(r, d),
         NEW n, n = get_from_queue(r, d, k)
  PROVE  Content(n, d) = SubSeq(Content(r, d), k + 1, Len(Content(r, d)))
<1> DEFINE a == Content(r, d)
           b == Content(n, d)
           L == Length(r, d)
           S == Size[d]
<1>1. /\ IsRing(n, d) /\ n.head = r.head /\ n.buf = r.buf
      /\ n.tail = IF r.tail + k < S THEN r.tail + k ELSE r.tail + k - S
      /\ Length(n, d) = L - k
  BY GetLemma
<1>2. /\ L \in Nat /\ L <= S - 1 /\ S \in Nat \ {0, 1} /\ r.tail \in 0 .. S - 1 /\ k \in 0 .. L
  BY LengthIs, SizeType DEF IsRing
<1>3. /\ a = [i \in 1 .. L |-> r.buf[SlotOf(r, d, i)]]
      /\ b = [i \in 1 .. Length(n, d) |-> n.buf[SlotOf(n, d, i)]]
  BY <1>1, ContentIs
<1>4. Len(a) = L /\ a \in Seq({r.buf[j] : j \in 0 .. S - 1})
  BY ContentSeq
<1>5. ASSUME NEW i \in 1 .. L - k PROVE SlotOf(n, d, i) = SlotOf(r, d, i + k)
  BY <1>1, <1>2 DEF SlotOf
<1> HIDE DEF a, b, L, S
<1>6. b = [i \in 1 .. L - k |-> a[i + k]]
  <2>1. \A i \in 1 .. L - k : i + k \in 1 .. L
    BY <1>2
  <2> QED BY <1>1, <1>3, <1>5, <2>1
<1> DEFINE e == SubSeq(a, k + 1, L)
<1>7. e = [i \in 1 .. L - k |-> a[i + k]]
  <2>1. e = [i \in 1 .. (1 + L - (k + 1)) |-> a[i + (k + 1) - 1]]
    BY <1>2, <1>4
  <2>2. 1 + L - (k + 1) = L - k /\ \A i \in 1 .. L - k : i + (k + 1) - 1 = i + k
    BY <1>2
  <2> QED BY <2>1, <2>2
<1> QED BY <1>4, <1>6, <1>7 DEF a, b, L

-----------------------------------------------------------------------------
(* What the drivers make of the bytes.                                     *)

Movement == [buttons : 0 .. 7, x : -255 .. 255, y : -255 .. 255]

\* What the drivers can decode: a keyboard interrupt finds one byte, there is no
\* caps lock and one shift key, and the mouse moves by less than 256.
Decodable ==
  /\ "burst" \in Avoid
  /\ \A k \in Keys : k.code # CapsLock
  /\ \A k, o \in Keys : k.code \in Shifts /\ o.code \in Shifts => k = o
  /\ Reports \subseteq Movement

KbdType ==
  [ext : BOOLEAN, shift : BOOLEAN, ctrl : BOOLEAN, alt : BOOLEAN, caps : BOOLEAN, meta : BOOLEAN]
HwRecord ==
  [held : SUBSET Keys, kbd : Seq(Nat), keys : Nat, reports : Nat, mouse : Seq(Nat),
   report : Movement, stray : Nat]
HwType ==
  /\ hw \in HwRecord
  /\ kbd \in KbdType

HeldShift == \E k \in hw.held : k.code \in Shifts
ByteOf(k, up) == IF up THEN k.code + FLAG_BREAK ELSE k.code

\* No byte of the keyboard is under way.
Quiet ==
  /\ hw.kbd = << >> /\ ~kbd.ext /\ (kbd.shift <=> HeldShift)
  /\ \A o \in hw.held : Known(o.code, o.ext)

\* The bytes of key k are under way, or the second of them.
Pending(k, up) ==
  /\ k \in Keys /\ (k \in hw.held <=> ~up) /\ (up => Known(k.code, k.ext))
  /\ k.code \notin Shifts => (kbd.shift <=> HeldShift)
  /\ \A o \in hw.held \ {k} : Known(o.code, o.ext)
  /\ \/ k.ext /\ ~kbd.ext /\ hw.kbd = <<FLAG_EXT, ByteOf(k, up)>>
     \/ (k.ext <=> kbd.ext) /\ hw.kbd = <<ByteOf(k, up)>>

KeyInv == ~kbd.caps /\ (panicked \/ Quiet \/ \E k \in Keys, up \in BOOLEAN : Pending(k, up))

First(r) == 8 + r.buttons + Sign(r.x, 4) + Sign(r.y, 5)

\* The last report, of bytes f, x and y, of which those in M are still to be sent, has
\* come after a byte s that the driver has taken for a first one: it is left with D.
Shifted(M, D, s, f, x, y) ==
  \/ M = <<f, x, y>> /\ D = <<s>>
  \/ M = <<x, y>> /\ D = <<s, f>>
  \/ M = <<y>> /\ D = << >>
  \/ M = << >> /\ D = IF Bit(y, 3) THEN <<y>> ELSE << >>
\* The same of a driver that was waiting for a first byte.
Whole(M, D, f, x, y) ==
  \/ M = <<f, x, y>> /\ D = << >>
  \/ M = <<x, y>> /\ D = <<f>>
  \/ M = <<y>> /\ D = <<f, x>>
  \/ M = << >> /\ D = << >>

MouseInv ==
  LET r == hw.report IN
  \/ /\ hw.reports = 0 /\ hw.stray = Ack
     /\ \/ hw.mouse = <<Ack>> /\ mdata = << >>
        \/ hw.mouse = << >> /\ mdata = <<Ack>>
  \/ hw.reports > 0 /\ OutOfStep /\ Shifted(hw.mouse, mdata, hw.stray, First(r), r.x % 256, r.y % 256)
  \/ hw.reports > 0 /\ ~OutOfStep /\ Whole(hw.mouse, mdata, First(r), r.x % 256, r.y % 256)

\* The rings in D hold what W says.
RingsHold(D, W) == W = [d \in Device |-> W[d]] /\ \A d \in Device : Content(D[d], d) = W[d]

DecodeInv == HwType /\ KeyInv /\ MouseInv /\ RingsHold(dev, want)

\* The bits of the first byte of a report.
IsFirst(b, v, x, y) == b = 8 + v + x + y
HasBits(b, v, x, y) ==
  /\ (b \div 8) % 2 = 1 /\ ((b \div 16) % 2 = 1 <=> x = 16) /\ ((b \div 32) % 2 = 1 <=> y = 32)
  /\ ~ ((b \div 64) % 2 = 1) /\ ~ ((b \div 128) % 2 = 1) /\ b % 8 = v /\ b \in Nat
\* Each of them can be read off it.
LEMMA FirstBits ==
  ASSUME NEW v \in 0 .. 7, NEW x \in {0, 16}, NEW y \in {0, 32}, NEW b, IsFirst(b, v, x, y)
  PROVE  HasBits(b, v, x, y)
BY DEF IsFirst, HasBits

\* A report survives its way through the driver.
LEMMA PacketIs ==
  ASSUME NEW r \in Movement
  PROVE  /\ packet(<<First(r), r.x % 256, r.y % 256>>) = r
         /\ Bit(First(r), 3)
         /\ {First(r), r.x % 256, r.y % 256} \subseteq Nat
<1> DEFINE b == First(r)
           m == <<b, r.x % 256, r.y % 256>>
<1>1. r.buttons \in 0 .. 7 /\ r.x \in -255 .. 255 /\ r.y \in -255 .. 255
  BY DEF Movement
<1>2. 2^3 = 8 /\ 2^4 = 16 /\ 2^5 = 32 /\ 2^6 = 64 /\ 2^7 = 128
  OBVIOUS
<1>3. b = 8 + r.buttons + (IF r.x < 0 THEN 16 ELSE 0) + (IF r.y < 0 THEN 32 ELSE 0)
  BY <1>2 DEF First, Sign
<1> HIDE DEF b
<1>4. /\ (b \div 8) % 2 = 1 /\ ((b \div 16) % 2 = 1 <=> r.x < 0) /\ ((b \div 32) % 2 = 1 <=> r.y < 0)
      /\ ~ ((b \div 64) % 2 = 1) /\ ~ ((b \div 128) % 2 = 1) /\ b % 8 = r.buttons /\ b \in Nat
  <2> DEFINE x == IF r.x < 0 THEN 16 ELSE 0
             y == IF r.y < 0 THEN 32 ELSE 0
             v == r.buttons
  <2>1. /\ x \in {0, 16} /\ y \in {0, 32} /\ (x = 16 <=> r.x < 0) /\ (y = 32 <=> r.y < 0)
        /\ v \in 0 .. 7 /\ IsFirst(b, v, x, y)
    BY <1>1, <1>3 DEF IsFirst
  <2> HIDE DEF x, y, v
  <2>2. HasBits(b, v, x, y)
    BY <2>1, FirstBits
  <2> QED BY <2>1, <2>2, Zenon DEF v, HasBits
<1>5. /\ Bit(b, 3) /\ (Bit(b, 4) <=> r.x < 0) /\ (Bit(b, 5) <=> r.y < 0) /\ ~ Bit(b, 6) /\ ~ Bit(b, 7)
  BY <1>2, <1>4 DEF Bit
<1>6. /\ r.x % 256 = (IF r.x < 0 THEN r.x + 256 ELSE r.x)
      /\ r.y % 256 = (IF r.y < 0 THEN r.y + 256 ELSE r.y)
  BY <1>1
<1>7. Signed(r.x % 256, Bit(b, 4)) = r.x /\ Signed(r.y % 256, Bit(b, 5)) = r.y
  <2>1. Signed(r.x % 256, Bit(b, 4)) = IF r.x % 256 # 0 /\ r.x < 0 THEN (r.x % 256) - 256 ELSE r.x % 256
    BY <1>5 DEF Signed
  <2>2. Signed(r.y % 256, Bit(b, 5)) = IF r.y % 256 # 0 /\ r.y < 0 THEN (r.y % 256) - 256 ELSE r.y % 256
    BY <1>5 DEF Signed
  <2> QED BY <1>1, <1>6, <2>1, <2>2
<1>8. packet(m) = [buttons |-> r.buttons, x |-> r.x, y |-> r.y]
  <2>1. m[1] = b /\ m[2] = r.x % 256 /\ m[3] = r.y % 256
    OBVIOUS
  <2> HIDE DEF m
  <2> QED BY <1>4, <1>5, <1>7, <2>1 DEF packet
<1>9. r = [buttons |-> r.buttons, x |-> r.x, y |-> r.y]
  BY DEF Movement
<1>10. r.x % 256 \in Nat /\ r.y % 256 \in Nat
  BY <1>1
<1> QED BY <1>4, <1>5, <1>8, <1>9, <1>10 DEF b, m

\* How a code of the keyboard that is being handled compares with the numbers of
\* the handler.
LEMMA KeyNumbers ==
  ASSUME NEW k \in Keys
  PROVE  /\ k.ext \in BOOLEAN /\ k.code \in 1 .. 127
         /\ k.code % FLAG_BREAK = k.code /\ (k.code + FLAG_BREAK) % FLAG_BREAK = k.code
         /\ k.code < FLAG_BREAK /\ k.code + FLAG_BREAK >= FLAG_BREAK /\ k.code # FLAG_EXT
         /\ Known(k.code, k.ext) => k.code + FLAG_BREAK # FLAG_EXT
         /\ Known(k.code, k.ext) /\ k.code \in Shifts => ~k.ext
<1>1. k.ext \in BOOLEAN /\ k.code \in 1 .. 127
  BY InputBounds
<1>2. \A c \in 1 .. 127 : c % 128 = c /\ (c + 128) % 128 = c
  OBVIOUS
<1>3. Known(k.code, k.ext) => k.code # 96
  BY <1>1 DEF Known, Metas, Ctrl, Alt
<1>4. Known(k.code, k.ext) /\ k.code \in Shifts => ~k.ext
  BY <1>1 DEF Known, Metas, Ctrl, Alt, Shifts
<1> QED BY <1>1, <1>2, <1>3, <1>4 DEF FLAG_BREAK, FLAG_EXT

\* The second byte of a key leaves the prefix behind.
LEMMA StripIs ==
  ASSUME NEW q \in KbdType, NEW b
  PROVE  /\ Strip(q, b) \in KbdType /\ ~ Strip(q, b).ext
         /\ Strip(q, b).shift = q.shift /\ Strip(q, b).caps = q.caps
BY DEF Strip, KbdType

\* z is q with another state of the shift keys, or of keys that do not matter here.
Changed(z, q, v) == z \in KbdType /\ z.ext = q.ext /\ z.caps = q.caps /\ z.shift = v
\* Each of these fields but shift leaves the state of shift alone.
LEMMA CtrlChanges == \A q \in KbdType, v \in BOOLEAN : Changed([q EXCEPT !.ctrl = v], q, q.shift)
BY DEF KbdType, Changed
LEMMA AltChanges == \A q \in KbdType, v \in BOOLEAN : Changed([q EXCEPT !.alt = v], q, q.shift)
BY DEF KbdType, Changed
LEMMA MetaChanges == \A q \in KbdType, v \in BOOLEAN : Changed([q EXCEPT !.meta = v], q, q.shift)
BY DEF KbdType, Changed
LEMMA ShiftChanges == \A q \in KbdType, v \in BOOLEAN : Changed([q EXCEPT !.shift = v], q, v)
BY DEF KbdType, Changed

\* The codes of the keys that the driver keeps track of differ.
LEMMA CodesDiffer ==
  /\ Ctrl # Alt /\ Ctrl \notin Shifts /\ Alt \notin Shifts /\ CapsLock \notin Shifts
  /\ Ctrl # CapsLock /\ Alt # CapsLock /\ Ctrl \notin Metas /\ Alt \notin Metas
  /\ CapsLock \notin Metas /\ \A c \in Metas : c \notin Shifts
BY DEF Ctrl, Alt, Shifts, CapsLock, Metas

\* A shift key that comes up resets the state of shift, another key leaves it.
LEMMA ReleaseIs ==
  ASSUME NEW q \in KbdType, NEW c, NEW x \in BOOLEAN
  PROVE  /\ c \in Shifts /\ ~x => Changed(Release(q, c, x), q, FALSE)
         /\ ~ (c \in Shifts /\ ~x) => Changed(Release(q, c, x), q, q.shift)
<1> DEFINE z == Release(q, c, x)
<1>1. CASE c = Ctrl
  <2>1. z = [q EXCEPT !.ctrl = FALSE]
    BY <1>1, CodesDiffer DEF Release
  <2>2. Changed([q EXCEPT !.ctrl = FALSE], q, q.shift)
    BY CtrlChanges, Zenon
  <2> QED BY <1>1, <2>1, <2>2, CodesDiffer, Zenon
<1>2. CASE c = Alt
  <2>1. z = [q EXCEPT !.alt = FALSE]
    BY <1>2, CodesDiffer DEF Release
  <2>2. Changed([q EXCEPT !.alt = FALSE], q, q.shift)
    BY AltChanges, Zenon
  <2> QED BY <1>2, <2>1, <2>2, CodesDiffer, Zenon
<1>3. CASE c \in Shifts /\ ~x
  <2>1. z = [q EXCEPT !.shift = FALSE]
    BY <1>3, CodesDiffer DEF Release
  <2>2. Changed([q EXCEPT !.shift = FALSE], q, FALSE)
    BY ShiftChanges, Zenon
  <2> QED BY <1>3, <2>1, <2>2, Zenon
<1>4. CASE c # Ctrl /\ c # Alt /\ ~ (c \in Shifts /\ ~x)
  <2>1. z = q
    BY <1>4 DEF Release
  <2>2. Changed(q, q, q.shift)
    BY DEF Changed
  <2> QED BY <1>4, <2>1, <2>2, Zenon
<1> QED BY <1>1, <1>2, <1>3, <1>4

\* A shift key that goes down sets the state of shift, another key leaves it.
LEMMA PressIs ==
  ASSUME NEW q \in KbdType, NEW c \in Invisible, c # CapsLock
  PROVE  /\ c \in Shifts => Changed(Press(q, c), q, TRUE)
         /\ c \notin Shifts => Changed(Press(q, c), q, q.shift)
<1> DEFINE z == Press(q, c)
<1>1. CASE c = Ctrl
  <2>1. z = [q EXCEPT !.ctrl = TRUE]
    BY <1>1, CodesDiffer DEF Press
  <2>2. Changed([q EXCEPT !.ctrl = TRUE], q, q.shift)
    BY CtrlChanges, Zenon
  <2> QED BY <1>1, <2>1, <2>2, CodesDiffer, Zenon
<1>2. CASE c = Alt
  <2>1. z = [q EXCEPT !.alt = TRUE]
    BY <1>2, CodesDiffer DEF Press
  <2>2. Changed([q EXCEPT !.alt = TRUE], q, q.shift)
    BY AltChanges, Zenon
  <2> QED BY <1>2, <2>1, <2>2, CodesDiffer, Zenon
<1>3. CASE c \in Shifts
  <2>1. z = [q EXCEPT !.shift = TRUE]
    BY <1>3, CodesDiffer DEF Press
  <2>2. Changed([q EXCEPT !.shift = TRUE], q, TRUE)
    BY ShiftChanges, Zenon
  <2> QED BY <1>3, <2>1, <2>2, Zenon
<1>4. CASE c \in Metas
  <2>1. c # Ctrl /\ c # Alt /\ c \notin Shifts /\ c # CapsLock
    BY <1>4, CodesDiffer
  <2>2. z = [q EXCEPT !.meta = TRUE]
    BY <1>4, <2>1 DEF Press
  <2>3. Changed([q EXCEPT !.meta = TRUE], q, q.shift)
    BY MetaChanges, Zenon
  <2> QED BY <2>1, <2>2, <2>3, Zenon
<1> QED BY <1>1, <1>2, <1>3, <1>4 DEF Invisible

\* The prefix of a key is remembered.
LEMMA ExtChanges ==
  \A q \in KbdType : [q EXCEPT !.ext = TRUE] \in KbdType /\ [q EXCEPT !.ext = TRUE].ext
                     /\ [q EXCEPT !.ext = TRUE].caps = q.caps
                     /\ [q EXCEPT !.ext = TRUE].shift = q.shift
BY DEF KbdType

\* A byte of the keyboard is taken; everything else about the hardware stays.
ByteTaken ==
  /\ hw'.kbd = Tail(hw.kbd) /\ hw'.held = hw.held /\ hw'.mouse = hw.mouse
  /\ hw'.report = hw.report /\ hw'.reports = hw.reports /\ hw'.stray = hw.stray
  /\ hw' \in HwRecord

\* Without bursts the handler of the keyboard sees one byte at a time.
LEMMA OneByte ==
  ASSUME Decodable, HwType, inthandler21
  PROVE  handle_keyboard_event(hw.kbd[1]) /\ ByteTaken
<1>1. PICK i \in 1 .. Len(hw.kbd), j \in 0 .. Len(hw.mouse) :
        /\ "burst" \in Avoid => i = 1 /\ j = 0
        /\ \E b \in {hw.kbd[i]} \cup (IF j = 0 THEN {} ELSE {hw.mouse[j]}) : handle_keyboard_event(b)
        /\ hw' = [hw EXCEPT !.kbd = SubSeq(@, i + 1, Len(@)), !.mouse = SubSeq(@, j + 1, Len(@))]
  BY DEF inthandler21
<1>2. i = 1 /\ j = 0
  BY <1>1 DEF Decodable
<1>3. handle_keyboard_event(hw.kbd[1])
  <2>1. PICK b \in {hw.kbd[i]} \cup (IF j = 0 THEN {} ELSE {hw.mouse[j]}) : handle_keyboard_event(b)
    BY <1>1
  <2>2. b = hw.kbd[1]
    BY <1>2, <2>1
  <2> QED BY <2>1, <2>2, Zenon
<1>4. hw.kbd # << >> /\ hw.kbd \in Seq(Nat) /\ hw.mouse \in Seq(Nat)
  BY DEF HwType, HwRecord, inthandler21
<1> DEFINE m == SubSeq(hw.mouse, 1, Len(hw.mouse))
           t == SubSeq(hw.kbd, 2, Len(hw.kbd))
<1>5. m = hw.mouse
  BY <1>4
<1>6. t = Tail(hw.kbd) /\ t \in Seq(Nat)
  BY <1>4
<1>7. hw' = [hw EXCEPT !.kbd = t, !.mouse = m]
  BY <1>1, <1>2
<1> HIDE DEF m, t
<1> QED BY <1>3, <1>4, <1>5, <1>6, <1>7 DEF HwType, HwRecord, ByteTaken

\* What one byte of the keyboard may do to the rings.
KbdRing ==
  \/ UNCHANGED <<dev, want>>
  \/ \E x : Store("kbd", x) /\ want' = Expect("kbd", x)

\* The key is done with: nothing is under way any more.
LEMMA KeyDone ==
  ASSUME Decodable, NEW k \in Keys, ByteTaken, hw.kbd = <<hw.kbd[1]>>, HwType,
         \A o \in hw.held : Known(o.code, o.ext),
         NEW v \in BOOLEAN, NEW q \in KbdType, ~q.ext, ~q.caps, Changed(kbd', q, v),
         v <=> HeldShift
  PROVE  HwType' /\ Quiet' /\ ~kbd'.caps
<1>1. hw'.kbd = << >> /\ hw'.held = hw.held
  <2>1. Tail(<<hw.kbd[1]>>) = << >>
    OBVIOUS
  <2> QED BY <2>1, Zenon DEF ByteTaken
<1>2. kbd' \in KbdType /\ kbd'.ext = q.ext /\ kbd'.caps = q.caps /\ kbd'.shift = v
  BY Zenon DEF Changed
<1>3. HeldShift' <=> HeldShift
  BY <1>1 DEF HeldShift
<1>4. \A o \in hw'.held : Known(o.code, o.ext)
  BY <1>1
<1>5. HwType'
  BY <1>2 DEF HwType, ByteTaken
<1>6. (kbd'.shift <=> HeldShift') /\ ~kbd'.ext /\ ~kbd'.caps
  BY <1>2, <1>3, Zenon
<1> QED BY <1>1, <1>4, <1>5, <1>6, Zenon DEF Quiet

\* The prefix of a key.
LEMMA PrefixStep ==
  ASSUME Decodable, HwType, ~kbd.caps, NEW k \in Keys, NEW up \in BOOLEAN, Pending(k, up), k.ext,
         hw.kbd = <<FLAG_EXT, ByteOf(k, up)>>, ~panicked,
         handle_keyboard_event(FLAG_EXT), ByteTaken
  PROVE  HwType' /\ Pending(k, up)' /\ ~kbd'.caps /\ ~panicked' /\ KbdRing
<1>1. kbd' = [kbd EXCEPT !.ext = TRUE] /\ UNCHANGED <<dev, sched, want, panicked>>
  <2>1. ~ (FLAG_EXT < FLAG_BREAK)
    BY DEF FLAG_EXT, FLAG_BREAK
  <2> QED BY <2>1, Zenon DEF handle_keyboard_event
<1>2. kbd \in KbdType
  BY DEF HwType
<1>3. kbd' \in KbdType /\ kbd'.ext /\ kbd'.caps = kbd.caps /\ kbd'.shift = kbd.shift
  BY <1>1, <1>2, ExtChanges, Zenon
<1>4. hw'.kbd = <<ByteOf(k, up)>> /\ hw'.held = hw.held
  <2>1. Tail(<<FLAG_EXT, ByteOf(k, up)>>) = <<ByteOf(k, up)>>
    OBVIOUS
  <2> QED BY <2>1, Zenon DEF ByteTaken
<1>5. HeldShift' <=> HeldShift
  BY <1>4 DEF HeldShift
<1>6. HwType'
  BY <1>3 DEF HwType, ByteTaken
<1>7. Pending(k, up)'
  BY <1>3, <1>4, <1>5, Zenon DEF Pending
<1> QED BY <1>1, <1>3, <1>6, <1>7, Zenon DEF KbdRing

\* The code of a key that comes up.
LEMMA BreakStep ==
  ASSUME Decodable, HwType, ~kbd.caps, NEW k \in Keys, Pending(k, TRUE), k.ext <=> kbd.ext,
         hw.kbd = <<k.code + FLAG_BREAK>>, ~panicked,
         handle_keyboard_event(k.code + FLAG_BREAK), ByteTaken
  PROVE  HwType' /\ Quiet' /\ ~kbd'.caps /\ ~panicked' /\ KbdRing
<1> DEFINE b == k.code + FLAG_BREAK
           q == Strip(kbd, b)
<1>1. Known(k.code, k.ext) /\ k \notin hw.held /\ \A o \in hw.held : Known(o.code, o.ext)
  BY DEF Pending
<1>2. b % FLAG_BREAK = k.code /\ b # FLAG_EXT /\ ~ (b < FLAG_BREAK) /\ (k.code \in Shifts => ~k.ext)
  BY <1>1, KeyNumbers DEF FLAG_BREAK
<1>3. kbd \in KbdType /\ kbd.ext \in BOOLEAN /\ kbd.shift \in BOOLEAN
  BY DEF HwType, KbdType
<1>4. q \in KbdType /\ ~q.ext /\ q.shift = kbd.shift /\ q.caps = kbd.caps
  BY <1>3, StripIs
<1> HIDE DEF b
<1>5. kbd' = Release(q, k.code, kbd.ext) /\ UNCHANGED <<dev, sched, want, panicked>>
  BY <1>2, Zenon DEF handle_keyboard_event, b
<1> HIDE DEF q
<1>6. hw.kbd = <<hw.kbd[1]>>
  OBVIOUS
<1>7. CASE k.code \in Shifts
  <2>1. ~kbd.ext
    BY <1>2, <1>7
  <2>2. Changed(kbd', q, FALSE)
    BY <1>3, <1>4, <1>5, <1>7, <2>1, ReleaseIs, Zenon
  <2>3. ~HeldShift
    BY <1>1, <1>7 DEF HeldShift, Decodable, HwType, HwRecord
  <2>4. HwType' /\ Quiet' /\ ~kbd'.caps
    BY <1>1, <1>4, <1>6, <2>2, <2>3, KeyDone, Zenon
  <2> QED BY <1>5, <2>4, Zenon DEF KbdRing
<1>8. CASE k.code \notin Shifts
  <2>1. Changed(kbd', q, q.shift)
    BY <1>3, <1>4, <1>5, <1>8, ReleaseIs, Zenon
  <2>2. q.shift \in BOOLEAN /\ (q.shift <=> HeldShift)
    BY <1>3, <1>4, <1>8, Zenon DEF Pending
  <2>3. HwType' /\ Quiet' /\ ~kbd'.caps
    BY <1>1, <1>4, <1>6, <2>1, <2>2, KeyDone, Zenon
  <2> QED BY <1>5, <2>3, Zenon DEF KbdRing
<1> QED BY <1>7, <1>8

\* The code of a key that goes down.
LEMMA MakeStep ==
  ASSUME Decodable, HwType, ~kbd.caps, NEW k \in Keys, Pending(k, FALSE), k.ext <=> kbd.ext,
         hw.kbd = <<k.code>>, ~panicked, handle_keyboard_event(k.code), ByteTaken
  PROVE  HwType' /\ (panicked' \/ Quiet') /\ ~kbd'.caps /\ KbdRing
<1> DEFINE b == k.code
           q == Strip(kbd, b)
<1>1. k \in hw.held /\ \A o \in hw.held \ {k} : Known(o.code, o.ext)
  BY DEF Pending
<1>2. b % FLAG_BREAK = b /\ b # FLAG_EXT /\ ~ (b >= FLAG_BREAK) /\ b # 0 /\ b \in 1 .. 127
      /\ b # CapsLock
  BY <1>1, KeyNumbers DEF FLAG_BREAK, Decodable
<1>3. kbd \in KbdType /\ kbd.ext \in BOOLEAN /\ kbd.shift \in BOOLEAN /\ kbd.caps \in BOOLEAN
  BY DEF HwType, KbdType
<1>4. q \in KbdType /\ ~q.ext /\ q.shift = kbd.shift /\ q.caps = kbd.caps
  BY <1>3, StripIs
<1>5. \/ /\ Known(b, kbd.ext) /\ b \notin Invisible
         /\ kbd' = q /\ Store("kbd", keymap(q, b))
         /\ want' = Expect("kbd", Typed(b)) /\ UNCHANGED panicked
      \/ /\ Known(b, kbd.ext) /\ b \in Invisible
         /\ kbd' = Press(q, b) /\ UNCHANGED <<dev, sched, want, panicked>>
      \/ /\ ~ Known(b, kbd.ext)
         /\ panicked' = (b # 0 \/ kbd.ext) /\ kbd' = q /\ UNCHANGED <<dev, sched, want>>
  BY <1>2, Zenon DEF handle_keyboard_event
<1>6. hw.kbd = <<hw.kbd[1]>>
  OBVIOUS
<1>7. Known(b, kbd.ext) => \A o \in hw.held : Known(o.code, o.ext)
  <2>1. ASSUME Known(b, kbd.ext) PROVE Known(k.code, k.ext)
    BY <2>1, <1>3, KeyNumbers DEF Known
  <2> QED BY <1>1, <2>1
<1>8. b \notin Shifts => q.shift \in BOOLEAN /\ (q.shift <=> HeldShift)
  BY <1>3, <1>4, Zenon DEF Pending
<1>9. Changed(q, q, q.shift)
  BY <1>4 DEF Changed
<1> HIDE DEF b, q
<1>10. ASSUME b \notin Invisible, Known(b, kbd.ext), kbd' = q, Store("kbd", keymap(q, b)),
              want' = Expect("kbd", Typed(b))
       PROVE  HwType' /\ Quiet' /\ ~kbd'.caps /\ KbdRing
  <2>1. b \notin Shifts
    BY <1>10 DEF Invisible
  <2>2. Changed(kbd', q, q.shift)
    BY <1>9, <1>10, Zenon
  <2>3. HwType' /\ Quiet' /\ ~kbd'.caps
    BY <1>4, <1>6, <1>7, <1>8, <1>10, <2>1, <2>2, KeyDone, Zenon
  <2>4. keymap(q, b) = Typed(b)
    <3>1. HeldShift \in BOOLEAN
      BY Zenon DEF HeldShift
    <3>2. q.shift = HeldShift
      BY <1>8, <2>1, <3>1, Zenon
    <3>3. q.caps = FALSE /\ q.shift \in BOOLEAN
      BY <1>3, <1>4, <1>8, <2>1, Zenon
    <3>4. (q.shift # FALSE) = q.shift
      BY <3>3, Zenon
    <3>5. keymap(q, b) = <<b, q.shift>>
      BY <3>3, <3>4, Zenon DEF keymap
    <3> QED BY <3>2, <3>5, Zenon DEF Typed, HeldShift
  <2>5. KbdRing
    BY <1>10, <2>4, Zenon DEF KbdRing
  <2> QED BY <2>3, <2>5
<1>11. ASSUME b \in Invisible, Known(b, kbd.ext), kbd' = Press(q, b),
              UNCHANGED <<dev, sched, want, panicked>>
       PROVE  HwType' /\ Quiet' /\ ~kbd'.caps /\ KbdRing
  <2>1. KbdRing
    BY <1>11, Zenon DEF KbdRing
  <2>2. CASE b \in Shifts
    <3>1. Changed(kbd', q, TRUE)
      BY <1>2, <1>4, <1>11, <2>2, PressIs, Zenon
    <3>2. HeldShift
      BY <1>1, <2>2 DEF HeldShift, b
    <3>3. HwType' /\ Quiet' /\ ~kbd'.caps
      BY <1>4, <1>6, <1>7, <1>11, <3>1, <3>2, KeyDone, Zenon
    <3> QED BY <2>1, <3>3
  <2>3. CASE b \notin Shifts
    <3>1. Changed(kbd', q, q.shift)
      BY <1>2, <1>4, <1>11, <2>3, PressIs, Zenon
    <3>2. HwType' /\ Quiet' /\ ~kbd'.caps
      BY <1>4, <1>6, <1>7, <1>8, <1>11, <2>3, <3>1, KeyDone, Zenon
    <3> QED BY <2>1, <3>2
  <2> QED BY <2>2, <2>3
<1>12. ASSUME panicked' = (b # 0 \/ kbd.ext), kbd' = q, UNCHANGED <<dev, sched, want>>
       PROVE  HwType' /\ panicked' /\ ~kbd'.caps /\ KbdRing
  <2>1. HwType'
    BY <1>4, <1>12 DEF HwType, ByteTaken
  <2>2. KbdRing /\ panicked'
    BY <1>2, <1>12, Zenon DEF KbdRing
  <2>3. ~kbd'.caps
    BY <1>4, <1>12, Zenon
  <2> QED BY <2>1, <2>2, <2>3
<1> QED BY <1>5, <1>10, <1>11, <1>12, Zenon

\* A byte of the keyboard is handled.
LEMMA KeyStep ==
  ASSUME Decodable, HwType, KeyInv, inthandler21
  PROVE  HwType' /\ KeyInv' /\ KbdRing /\ ByteTaken
<1>1. ~panicked /\ hw.kbd # << >>
  BY DEF inthandler21, Interruptible
<1>2. PICK k \in Keys, up \in BOOLEAN : Pending(k, up)
  BY <1>1, Zenon DEF KeyInv, Quiet
<1>3. handle_keyboard_event(hw.kbd[1]) /\ ByteTaken
  BY OneByte
<1>4. ~kbd.caps
  BY DEF KeyInv
<1>5. CASE k.ext /\ ~kbd.ext /\ hw.kbd = <<FLAG_EXT, ByteOf(k, up)>>
  <2>1. hw.kbd[1] = FLAG_EXT
    BY <1>5
  <2>2. handle_keyboard_event(FLAG_EXT)
    BY <1>3, <2>1, Zenon
  <2>3. HwType' /\ Pending(k, up)' /\ ~kbd'.caps /\ KbdRing
    BY <1>1, <1>2, <1>3, <1>4, <1>5, <2>2, PrefixStep, Zenon
  <2> QED BY <1>3, <2>3, Zenon DEF KeyInv
<1>6. CASE (k.ext <=> kbd.ext) /\ hw.kbd = <<ByteOf(k, up)>>
  <2>1. hw.kbd[1] = ByteOf(k, up)
    BY <1>6
  <2>2. handle_keyboard_event(ByteOf(k, up))
    BY <1>3, <2>1, Zenon
  <2>3. CASE up = TRUE
    <3>1. ByteOf(k, up) = k.code + FLAG_BREAK /\ Pending(k, TRUE)
      BY <1>2, <2>3, Zenon DEF ByteOf
    <3>2. HwType' /\ Quiet' /\ ~kbd'.caps /\ KbdRing
      BY <1>1, <1>3, <1>4, <1>6, <2>2, <3>1, BreakStep, Zenon
    <3> QED BY <1>3, <3>2, Zenon DEF KeyInv
  <2>4. CASE up = FALSE
    <3>1. ByteOf(k, up) = k.code /\ Pending(k, FALSE)
      BY <1>2, <2>4, Zenon DEF ByteOf
    <3>2. HwType' /\ (panicked' \/ Quiet') /\ ~kbd'.caps /\ KbdRing
      BY <1>1, <1>3, <1>4, <1>6, <2>2, <3>1, MakeStep, Zenon
    <3> QED BY <1>3, <3>2, Zenon DEF KeyInv
  <2> QED BY <2>3, <2>4
<1> QED BY <1>2, <1>5, <1>6, Zenon DEF Pending

\* MouseInv is about what the mouse has sent.
LEMMA MouseSame ==
  ASSUME MouseInv, hw'.report = hw.report, hw'.mouse = hw.mouse, hw'.reports = hw.reports,
         hw'.stray = hw.stray, UNCHANGED mdata
  PROVE  MouseInv'
<1>1. OutOfStep' <=> OutOfStep
  BY Zenon DEF OutOfStep
<1> QED BY <1>1, Zenon DEF MouseInv, First

\* The bytes of a key.
LEMMA KeyBytes ==
  ASSUME NEW k \in Keys, NEW up \in BOOLEAN, NEW w, 
         w = << >> \o (IF k.ext THEN <<FLAG_EXT, ByteOf(k, up)>> ELSE <<ByteOf(k, up)>>)
  PROVE  /\ w \in Seq(Nat)
         /\ w = IF k.ext THEN <<FLAG_EXT, ByteOf(k, up)>> ELSE <<ByteOf(k, up)>>
<1>1. ByteOf(k, up) \in Nat /\ FLAG_EXT \in Nat
  BY KeyNumbers DEF ByteOf, FLAG_EXT, FLAG_BREAK
<1> HIDE DEF ByteOf, FLAG_EXT
<1> QED BY <1>1

\* A key is pressed or comes up.
LEMMA TypeStep ==
  ASSUME Decodable, HwType, KeyInv, MouseInv, ~panicked, NEW k \in Keys, Type(k)
  PROVE  HwType' /\ KeyInv' /\ MouseInv'
<1>1. hw.kbd = << >>
  BY DEF Type, Decodable
<1>2. Quiet
  <2>1. ASSUME NEW o \in Keys, NEW up \in BOOLEAN PROVE ~ Pending(o, up)
    <3>1. hw.kbd # <<FLAG_EXT, ByteOf(o, up)>> /\ hw.kbd # <<ByteOf(o, up)>>
      BY <1>1
    <3> QED BY <3>1 DEF Pending
  <2> QED BY <2>1, Zenon DEF KeyInv
<1>3. PICK up \in IF k \in hw.held THEN BOOLEAN ELSE {FALSE} :
        hw' = [hw EXCEPT !.keys = @ + 1,
                         !.held = IF up THEN @ \ {k} ELSE @ \cup {k},
                         !.kbd = @ \o (IF k.ext THEN <<FLAG_EXT, ByteOf(k, up)>>
                                       ELSE <<ByteOf(k, up)>>)]
  BY Zenon DEF Type, ByteOf
<1>4. up \in BOOLEAN /\ (up => k \in hw.held)
  BY <1>3
<1>5. UNCHANGED <<dev, kbd, mdata, sched, proc, timer, want, panicked>>
  BY DEF Type
<1> DEFINE h == IF up THEN hw.held \ {k} ELSE hw.held \cup {k}
           w == hw.kbd \o (IF k.ext THEN <<FLAG_EXT, ByteOf(k, up)>> ELSE <<ByteOf(k, up)>>)
<1>6. /\ w \in Seq(Nat)
      /\ w = IF k.ext THEN <<FLAG_EXT, ByteOf(k, up)>> ELSE <<ByteOf(k, up)>>
  BY <1>1, <1>4, KeyBytes, Zenon
<1>7. h \in SUBSET Keys /\ (k \in h <=> ~up) /\ (\A o \in h \ {k} : o \in hw.held)
      /\ (\A o \in hw.held \ {k} : o \in h)
  BY <1>4 DEF HwType, HwRecord
<1>8. hw' = [hw EXCEPT !.keys = hw.keys + 1, !.held = h, !.kbd = w]
  BY <1>3, Zenon
<1> HIDE DEF h, w
<1>9. /\ hw'.held = h /\ hw'.kbd = w /\ hw'.report = hw.report /\ hw'.mouse = hw.mouse
      /\ hw'.reports = hw.reports /\ hw'.stray = hw.stray
      /\ hw' \in HwRecord
  <2>1. hw \in HwRecord
    BY DEF HwType
  <2> DEFINE n == hw.keys + 1
  <2>2. n \in Nat /\ h \in SUBSET Keys /\ w \in Seq(Nat)
    BY <1>6, <1>7, <2>1 DEF HwRecord
  <2> HIDE DEF n
  <2>3. hw' = [hw EXCEPT !.keys = n, !.held = h, !.kbd = w]
    BY <1>8 DEF n
  <2>4. hw' = [held |-> h, kbd |-> w, keys |-> n, reports |-> hw.reports, mouse |-> hw.mouse,
               report |-> hw.report, stray |-> hw.stray]
    BY <2>1, <2>3 DEF HwRecord
  <2> QED BY <2>1, <2>2, <2>4 DEF HwRecord
<1>10. HwType'
  BY <1>5, <1>9 DEF HwType
<1>11. MouseInv'
  BY <1>5, <1>9, MouseSame
<1>12. k.code \notin Shifts => (HeldShift' <=> HeldShift)
  BY <1>7, <1>9 DEF HeldShift
<1>13. Pending(k, up)'
  <2>1. (k \in hw'.held <=> ~up) /\ (up => Known(k.code, k.ext))
    BY <1>2, <1>4, <1>7, <1>9, Zenon DEF Quiet
  <2>2. k.code \notin Shifts => (kbd'.shift <=> HeldShift')
    BY <1>2, <1>5, <1>12, Zenon DEF Quiet
  <2>3. \A o \in hw'.held \ {k} : Known(o.code, o.ext)
    BY <1>2, <1>7, <1>9, Zenon DEF Quiet
  <2>4. ~kbd'.ext
    BY <1>2, <1>5, Zenon DEF Quiet
  <2> QED BY <1>6, <1>9, <2>1, <2>2, <2>3, <2>4, Zenon DEF Pending
<1> QED BY <1>4, <1>5, <1>10, <1>11, <1>13, Zenon DEF KeyInv

\* KeyInv is about what the keyboard has sent.
LEMMA KeySame ==
  ASSUME KeyInv, hw'.held = hw.held, hw'.kbd = hw.kbd, UNCHANGED <<kbd, panicked>>
  PROVE  KeyInv'
<1>1. HeldShift' <=> HeldShift
  BY DEF HeldShift
<1>2. Quiet => Quiet'
  BY <1>1, Zenon DEF Quiet
<1>3. \A k \in Keys, up \in BOOLEAN : Pending(k, up) => Pending(k, up)'
  BY <1>1, Zenon DEF Pending
<1> QED BY <1>2, <1>3, Zenon DEF KeyInv

\* The mouse reports.
LEMMA ReportStep ==
  ASSUME Decodable, HwType, KeyInv, MouseInv, NEW r \in Reports, Report(r)
  PROVE  HwType' /\ KeyInv' /\ MouseInv'
<1> DEFINE w == <<First(r), r.x % 256, r.y % 256>>
           s == IF OutOfStep /\ hw.reports > 0 THEN hw.report.y % 256 ELSE hw.stray
<1>1. r \in Movement /\ hw \in HwRecord /\ hw.report \in Movement
  BY DEF Decodable, HwType, HwRecord
<1>2. w \in Seq(Nat) /\ s \in Nat
  <2>1. {First(r), r.x % 256, r.y % 256} \subseteq Nat /\ hw.report.y % 256 \in Nat
    BY <1>1, PacketIs
  <2>2. hw.stray \in Nat
    BY <1>1 DEF HwRecord
  <2> QED BY <2>1, <2>2
<1>3. /\ hw' = [hw EXCEPT !.reports = hw.reports + 1, !.report = r, !.mouse = w, !.stray = s]
      /\ hw.mouse = << >>
      /\ UNCHANGED <<dev, kbd, mdata, sched, proc, timer, want, panicked>>
  BY Zenon DEF Report, Bytes, First
<1>4. \/ mdata = <<s>> /\ Bit(s, 3)
      \/ mdata = << >> /\ ~ Bit(s, 3)
  <2>1. CASE hw.reports = 0 /\ hw.stray = Ack
    <3>1. mdata = <<Ack>> /\ s = Ack
      BY <1>3, <2>1 DEF MouseInv
    <3>2. Bit(Ack, 3)
      BY DEF Bit, Ack
    <3> QED BY <3>1, <3>2
  <2>2. CASE hw.reports > 0 /\ OutOfStep
    <3>1. s = hw.report.y % 256
      BY <2>2
    <3>2. Shifted(hw.mouse, mdata, hw.stray, First(hw.report), hw.report.x % 256, hw.report.y % 256)
      BY <2>2, Z3 DEF MouseInv
    <3>3. mdata = IF Bit(hw.report.y % 256, 3) THEN <<hw.report.y % 256>> ELSE << >>
      BY <1>3, <3>2 DEF Shifted
    <3> QED BY <3>1, <3>3, Zenon
  <2>3. CASE hw.reports > 0 /\ ~OutOfStep
    <3>1. s = hw.stray /\ ~ Bit(hw.stray, 3)
      BY <2>3 DEF OutOfStep
    <3>2. Whole(hw.mouse, mdata, First(hw.report), hw.report.x % 256, hw.report.y % 256)
      BY <2>3, Z3 DEF MouseInv
    <3>3. mdata = << >>
      BY <1>3, <3>2 DEF Whole
    <3> QED BY <3>1, <3>3, Zenon
  <2> QED BY <2>1, <2>2, <2>3 DEF MouseInv
<1> HIDE DEF w, s
<1>5. /\ hw'.held = hw.held /\ hw'.kbd = hw.kbd /\ hw'.report = r /\ hw'.mouse = w
      /\ hw'.reports > 0 /\ hw'.stray = s
      /\ hw' \in HwRecord
  <2> DEFINE n == hw.reports + 1
  <2>2. n \in Nat /\ n > 0
    BY <1>1 DEF HwRecord
  <2> HIDE DEF n
  <2>3. hw' = [hw EXCEPT !.reports = n, !.report = r, !.mouse = w, !.stray = s]
    BY <1>3 DEF n
  <2>4. hw' = [held |-> hw.held, kbd |-> hw.kbd, keys |-> hw.keys, reports |-> n, mouse |-> w,
               report |-> r, stray |-> s]
    BY <1>1, <2>3 DEF HwRecord
  <2> QED BY <1>1, <1>2, <2>2, <2>4 DEF HwRecord
<1>6. HwType'
  BY <1>3, <1>5 DEF HwType
<1>7. KeyInv'
  BY <1>3, <1>5, KeySame
<1>8. MouseInv'
  <2>1. mdata' = mdata /\ hw'.mouse = <<First(r), r.x % 256, r.y % 256>>
    BY <1>3, <1>5 DEF w
  <2>2. OutOfStep' <=> Bit(s, 3)
    BY <1>5, Zenon DEF OutOfStep
  <2>3. ASSUME mdata = <<s>>
        PROVE  Shifted(hw'.mouse, mdata', hw'.stray, First(r), r.x % 256, r.y % 256)
    BY <1>5, <2>1, <2>3, Zenon DEF Shifted, First
  <2>4. ASSUME mdata = << >>
        PROVE  Whole(hw'.mouse, mdata', First(r), r.x % 256, r.y % 256)
    BY <1>5, <2>1, <2>4, Zenon DEF Whole, First
  <2> QED BY <1>4, <1>5, <2>2, <2>3, <2>4, Zenon DEF MouseInv, First
<1> QED BY <1>6, <1>7, <1>8

\* A byte of the mouse is put into its ring, and a packet with it, or none.
MouseRings(q, b) ==
  /\ StoreBoth(q, b)
  /\ want' = [kbd |-> want.kbd, aux |-> Expect("aux", b).aux,
              mouse |-> IF q = << >> THEN want.mouse ELSE Expect("mouse", q[1]).mouse]

\* A byte arrives that completes no packet, or the third one of a packet.
LEMMA ByteKept ==
  ASSUME NEW b, NEW m, MouseByte(b, m), Len(m) # 3
  PROVE  mdata' = m /\ StoreBoth(<< >>, b)
BY Zenon DEF MouseByte
LEMMA ByteCompletes ==
  ASSUME NEW b, NEW m, MouseByte(b, m), Len(m) = 3
  PROVE  mdata' = << >> /\ StoreBoth(<<packet(m)>>, b)
BY Zenon DEF MouseByte

\* The byte that a driver with m bytes gets.
LEMMA ByteAdded ==
  ASSUME NEW b \in Nat
  PROVE  /\ mdata = << >> /\ Bit(b, 3) => handle_ps2_mouse_scancode(b) = <<b>>
         /\ mdata = << >> /\ ~ Bit(b, 3) => handle_ps2_mouse_scancode(b) = << >>
         /\ \A u \in Nat : mdata = <<u>> => handle_ps2_mouse_scancode(b) = <<u, b>>
         /\ \A u, v \in Nat : mdata = <<u, v>> => handle_ps2_mouse_scancode(b) = <<u, v, b>>
<1>1. ASSUME mdata = << >> PROVE handle_ps2_mouse_scancode(b) = IF Bit(b, 3) THEN <<b>> ELSE << >>
  BY <1>1 DEF handle_ps2_mouse_scancode
<1>2. ASSUME NEW u \in Nat, mdata = <<u>> PROVE handle_ps2_mouse_scancode(b) = <<u, b>>
  <2>1. <<u>> # << >>
    OBVIOUS
  <2>2. Append(<<u>>, b) = <<u, b>>
    BY AppendSecond
  <2> QED BY <1>2, <2>1, <2>2, Zenon DEF handle_ps2_mouse_scancode
<1>3. ASSUME NEW u \in Nat, NEW v \in Nat, mdata = <<u, v>>
      PROVE  handle_ps2_mouse_scancode(b) = <<u, v, b>>
  <2>1. <<u, v>> # << >>
    OBVIOUS
  <2>2. Append(<<u, v>>, b) = <<u, v, b>>
    BY AppendThird
  <2> QED BY <1>3, <2>1, <2>2, Zenon DEF handle_ps2_mouse_scancode
<1> QED BY <1>1, <1>2, <1>3, Zenon

\* The lengths of the sequences that mdata and hw.mouse can be.
LEMMA ShortLengths ==
  ASSUME NEW u, NEW v, NEW w
  PROVE  /\ Len(<< >>) = 0 /\ Len(<<u>>) = 1 /\ Len(<<u, v>>) = 2 /\ Len(<<u, v, w>>) = 3
         /\ Head(<<u>>) = u /\ Tail(<<u>>) = << >>
         /\ Head(<<u, v>>) = u /\ Tail(<<u, v>>) = <<v>>
         /\ Head(<<u, v, w>>) = u /\ Tail(<<u, v, w>>) = <<v, w>>
OBVIOUS

\* What a byte of the mouse does: nothing is due before the last one it needs.
MouseGoal == MouseInv' /\ \E q, b : MouseRings(q, b)

\* The driver is in step, and the third byte of a report completes it.
LEMMA WholeStep ==
  ASSUME HwType, inthandler2C, hw.reports > 0, ~OutOfStep,
         NEW f \in Nat, NEW x \in Nat, NEW y \in Nat, Whole(hw.mouse, mdata, f, x, y),
         packet(<<f, x, y>>) = hw.report, Bit(f, 3),
         Whole(hw'.mouse, mdata', f, x, y) => MouseInv',
         hw'.mouse = Tail(hw.mouse)
  PROVE  MouseGoal
<1> DEFINE b == Head(hw.mouse)
           m == handle_ps2_mouse_scancode(b)
<1>1. /\ hw.mouse # << >> /\ MouseByte(b, m)
      /\ want' = [kbd |-> want.kbd, aux |-> Expect("aux", b).aux,
                  mouse |-> IF Due = << >> THEN want.mouse ELSE Expect("mouse", Due[1]).mouse]
  BY Zenon DEF inthandler2C
<1>2. Due = IF Len(hw.mouse) = 1 THEN <<hw.report>> ELSE << >>
  BY Zenon DEF Due
<1>3. CASE hw.mouse = <<f, x, y>> /\ mdata = << >>
  <2>1. b = f /\ Tail(hw.mouse) = <<x, y>> /\ Len(hw.mouse) = 3
    BY <1>3, ShortLengths
  <2>2. m = <<f>> /\ Len(m) # 3
    <3>1. handle_ps2_mouse_scancode(f) = <<f>> /\ Len(<<f>>) # 3
      BY <1>3, ByteAdded
    <3> QED BY <2>1, <3>1, Zenon
  <2>3. Due = << >>
    BY <1>2, <2>1
  <2> HIDE DEF m
  <2>4. mdata' = <<f>> /\ StoreBoth(<< >>, b)
    BY <1>1, <2>2, ByteKept
  <2>5. MouseRings(<< >>, b)
    BY <1>1, <2>3, <2>4, Zenon DEF MouseRings
  <2> QED BY <2>1, <2>4, <2>5, Zenon DEF MouseGoal, Whole
<1>4. CASE hw.mouse = <<x, y>> /\ mdata = <<f>>
  <2>1. b = x /\ Tail(hw.mouse) = <<y>> /\ Len(hw.mouse) = 2
    BY <1>4, ShortLengths
  <2>2. m = <<f, x>> /\ Len(m) # 3
    BY <1>4, <2>1, ByteAdded, ShortLengths
  <2>3. Due = << >>
    BY <1>2, <2>1
  <2> HIDE DEF m
  <2>4. mdata' = <<f, x>> /\ StoreBoth(<< >>, b)
    BY <1>1, <2>2, ByteKept
  <2>5. MouseRings(<< >>, b)
    BY <1>1, <2>3, <2>4, Zenon DEF MouseRings
  <2> QED BY <2>1, <2>4, <2>5, Zenon DEF MouseGoal, Whole
<1>5. CASE hw.mouse = <<y>> /\ mdata = <<f, x>>
  <2>1. b = y /\ Tail(hw.mouse) = << >> /\ Len(hw.mouse) = 1
    BY <1>5, ShortLengths
  <2>2. m = <<f, x, y>> /\ Len(m) = 3
    BY <1>5, <2>1, ByteAdded, ShortLengths
  <2>3. Due = <<hw.report>> /\ Due # << >> /\ Due[1] = hw.report
    BY <1>2, <2>1
  <2> HIDE DEF m
  <2>4. mdata' = << >> /\ StoreBoth(<<hw.report>>, b)
    BY <1>1, <2>2, ByteCompletes
  <2>5. MouseRings(<<hw.report>>, b)
    BY <1>1, <2>3, <2>4, Zenon DEF MouseRings
  <2> QED BY <2>1, <2>4, <2>5, Zenon DEF MouseGoal, Whole
<1> QED BY <1>1, <1>3, <1>4, <1>5, Zenon DEF Whole

\* The driver has taken s for a first byte, and the second byte of a report completes
\* a packet; the third is skipped or taken for a first byte again.
LEMMA ShiftedStep ==
  ASSUME HwType, inthandler2C, hw.reports > 0, OutOfStep, NEW s \in Nat, s = hw.stray,
         NEW f \in Nat, NEW x \in Nat, NEW y \in Nat, Shifted(hw.mouse, mdata, s, f, x, y),
         Bytes(hw.report)[1] = f, Bytes(hw.report)[2] = x,
         Shifted(hw'.mouse, mdata', s, f, x, y) => MouseInv',
         hw'.mouse = Tail(hw.mouse)
  PROVE  MouseGoal
<1> DEFINE b == Head(hw.mouse)
           m == handle_ps2_mouse_scancode(b)
<1>1. /\ hw.mouse # << >> /\ MouseByte(b, m)
      /\ want' = [kbd |-> want.kbd, aux |-> Expect("aux", b).aux,
                  mouse |-> IF Due = << >> THEN want.mouse ELSE Expect("mouse", Due[1]).mouse]
  BY Zenon DEF inthandler2C
<1>2. Due = IF Len(hw.mouse) = 2 THEN <<packet(<<s, f, x>>)>> ELSE << >>
  BY Zenon DEF Due
<1>3. CASE hw.mouse = <<f, x, y>> /\ mdata = <<s>>
  <2>1. b = f /\ Tail(hw.mouse) = <<x, y>> /\ Len(hw.mouse) = 3
    BY <1>3, ShortLengths
  <2>2. m = <<s, f>> /\ Len(m) # 3
    BY <1>3, <2>1, ByteAdded, ShortLengths
  <2>3. Due = << >>
    BY <1>2, <2>1
  <2> HIDE DEF m
  <2>4. mdata' = <<s, f>> /\ StoreBoth(<< >>, b)
    BY <1>1, <2>2, ByteKept
  <2>5. MouseRings(<< >>, b)
    BY <1>1, <2>3, <2>4, Zenon DEF MouseRings
  <2> QED BY <2>1, <2>4, <2>5, Zenon DEF MouseGoal, Shifted
<1>4. CASE hw.mouse = <<x, y>> /\ mdata = <<s, f>>
  <2>1. b = x /\ Tail(hw.mouse) = <<y>> /\ Len(hw.mouse) = 2
    BY <1>4, ShortLengths
  <2>2. m = <<s, f, x>> /\ Len(m) = 3
    BY <1>4, <2>1, ByteAdded, ShortLengths
  <2> DEFINE q == packet(<<s, f, x>>)
  <2>3. Due = <<q>>
    BY <1>2, <2>1, Zenon
  <2>4. mdata' = << >> /\ StoreBoth(<<q>>, b)
    <3> HIDE DEF m
    <3> QED BY <1>1, <2>2, ByteCompletes
  <2> HIDE DEF q, m
  <2>5. Due # << >> /\ Due[1] = q /\ <<q>> # << >> /\ <<q>>[1] = q
    BY <2>3
  <2>6. MouseRings(<<q>>, b)
    BY <1>1, <2>4, <2>5, Zenon DEF MouseRings
  <2> QED BY <2>1, <2>4, <2>6, Zenon DEF MouseGoal, Shifted
<1>5. CASE hw.mouse = <<y>> /\ mdata = << >>
  <2>1. b = y /\ Tail(hw.mouse) = << >> /\ Len(hw.mouse) = 1
    BY <1>5, ShortLengths
  <2>2. m = IF Bit(y, 3) THEN <<y>> ELSE << >>
    BY <1>5, <2>1, ByteAdded
  <2>3. Len(m) # 3
    <3> HIDE DEF m
    <3>1. m = <<y>> \/ m = << >>
      BY <2>2, Zenon
    <3>2. Len(<<y>>) # 3 /\ Len(<< >>) # 3
      OBVIOUS
    <3> QED BY <3>1, <3>2, Zenon
  <2>4. Due = << >>
    BY <1>2, <2>1
  <2> HIDE DEF m
  <2>5. mdata' = m /\ StoreBoth(<< >>, b)
    BY <1>1, <2>3, ByteKept
  <2>6. MouseRings(<< >>, b)
    BY <1>1, <2>4, <2>5, Zenon DEF MouseRings
  <2> QED BY <2>1, <2>2, <2>5, <2>6, Zenon DEF MouseGoal, Shifted
<1> QED BY <1>1, <1>3, <1>4, <1>5, Zenon DEF Shifted

\* The answer is taken for the first byte of a report.
LEMMA AckStep ==
  ASSUME HwType, inthandler2C, hw.reports = 0, hw.stray = Ack,
         hw.mouse = <<Ack>>, mdata = << >>,
         hw'.mouse = Tail(hw.mouse), hw'.reports = hw.reports, hw'.stray = hw.stray
  PROVE  MouseGoal
<1> DEFINE b == Head(hw.mouse)
           m == handle_ps2_mouse_scancode(b)
<1>1. /\ MouseByte(b, m)
      /\ want' = [kbd |-> want.kbd, aux |-> Expect("aux", b).aux,
                  mouse |-> IF Due = << >> THEN want.mouse ELSE Expect("mouse", Due[1]).mouse]
  BY Zenon DEF inthandler2C
<1>2. Bit(Ack, 3) /\ Ack \in Nat
  BY DEF Bit, Ack
<1>3. b = Ack /\ Tail(hw.mouse) = << >> /\ Len(hw.mouse) = 1
  BY ShortLengths
<1>4. Due = << >>
  BY <1>2, <1>3 DEF Due, OutOfStep
<1>5. m = <<Ack>> /\ Len(m) # 3
  BY <1>2, <1>3, ByteAdded, ShortLengths
<1> HIDE DEF m
<1>6. mdata' = <<Ack>> /\ StoreBoth(<< >>, b)
  BY <1>1, <1>5, ByteKept
<1>7. MouseRings(<< >>, b)
  BY <1>1, <1>4, <1>6, Zenon DEF MouseRings
<1> QED BY <1>3, <1>6, <1>7, Zenon DEF MouseGoal, MouseInv

\* The bytes of a report arrive one by one.
LEMMA MouseDecodes ==
  ASSUME HwType, MouseInv, inthandler2C
  PROVE  /\ MouseInv' /\ HwType'
         /\ hw'.held = hw.held /\ hw'.kbd = hw.kbd
         /\ \E q, b : MouseRings(q, b)
<1> DEFINE r == hw.report
<1>1. /\ hw.mouse # << >> /\ hw' = [hw EXCEPT !.mouse = Tail(@)] /\ UNCHANGED kbd
  BY Zenon DEF inthandler2C
<1>2. hw \in HwRecord /\ hw.mouse \in Seq(Nat) /\ r \in Movement /\ Tail(hw.mouse) \in Seq(Nat)
      /\ hw.stray \in Nat /\ hw.reports \in Nat
  BY <1>1 DEF HwType, HwRecord
<1>3. /\ hw'.held = hw.held /\ hw'.kbd = hw.kbd /\ hw'.report = r /\ hw'.reports = hw.reports
      /\ hw'.mouse = Tail(hw.mouse) /\ hw'.stray = hw.stray /\ hw' \in HwRecord
  <2> DEFINE t == Tail(hw.mouse)
  <2>1. hw' = [hw EXCEPT !.mouse = t] /\ t \in Seq(Nat)
    BY <1>1, <1>2
  <2> HIDE DEF t
  <2>2. hw' \in HwRecord /\ hw'.mouse = t
    BY <1>2, <2>1 DEF HwRecord
  <2>3. /\ hw'.held = hw.held /\ hw'.kbd = hw.kbd /\ hw'.report = r /\ hw'.reports = hw.reports
        /\ hw'.stray = hw.stray
    BY <1>2, <2>1 DEF HwRecord
  <2> QED BY <2>2, <2>3 DEF t
<1>4. HwType'
  BY <1>1, <1>3 DEF HwType
<1> DEFINE f == First(r)
           x == r.x % 256
           y == r.y % 256
<1>5. packet(<<f, x, y>>) = r /\ Bit(f, 3) /\ f \in Nat /\ x \in Nat /\ y \in Nat
  BY <1>2, PacketIs
<1>6. First(r)' = f /\ (r.x % 256)' = x /\ (r.y % 256)' = y /\ (OutOfStep' <=> OutOfStep)
  BY <1>3, Zenon DEF First, OutOfStep
<1>7. Bytes(r)[1] = f /\ Bytes(r)[2] = x
  BY DEF Bytes, First
<1>8. MouseGoal
  <2>1. CASE hw.reports = 0
    <3>1. hw.stray = Ack /\ hw.mouse = <<Ack>> /\ mdata = << >>
      BY <1>1, <2>1 DEF MouseInv
    <3> QED BY <1>3, <2>1, <3>1, AckStep
  <2>2. CASE hw.reports > 0 /\ OutOfStep
    <3>1. Shifted(hw.mouse, mdata, hw.stray, f, x, y)
      BY <2>2, Z3 DEF MouseInv
    <3>2. Shifted(hw'.mouse, mdata', hw.stray, f, x, y) => MouseInv'
      BY <1>3, <1>6, <2>2, Zenon DEF MouseInv
    <3> HIDE DEF f, x, y
    <3> QED BY <1>2, <1>3, <1>5, <1>7, <2>2, <3>1, <3>2, ShiftedStep
  <2>3. CASE hw.reports > 0 /\ ~OutOfStep
    <3>1. Whole(hw.mouse, mdata, f, x, y)
      BY <2>3, Z3 DEF MouseInv
    <3>2. Whole(hw'.mouse, mdata', f, x, y) => MouseInv'
      BY <1>3, <1>6, <2>3, Zenon DEF MouseInv
    <3> HIDE DEF f, x, y
    <3> QED BY <1>3, <1>5, <2>3, <3>1, <3>2, WholeStep
  <2> QED BY <1>2, <2>1, <2>2, <2>3
<1> QED BY <1>3, <1>4, <1>8 DEF MouseGoal

-----------------------------------------------------------------------------
(* What the steps do to the rings.                                         *)

\* V is what the rings of W should hold after a put of x into that of d.
Grown(w, d, x) == IF Len(w) < Size[d] - 1 THEN Append(w, x) ELSE w
IsGrown(V, W, d, x) == V = [W EXCEPT ![d] = Grown(W[d], d, x)]

\* Something is put into a ring.
LEMMA HoldPut ==
  ASSUME NEW D, D = [e \in Device |-> D[e]], NEW W, RingsHold(D, W), NEW d \in Device,
         IsRing(D[d], d), NEW x, NEW n, IsPut(n, D[d], d, x), NEW F, IsChange(F, D, d, n),
         NEW V, IsGrown(V, W, d, x)
  PROVE  RingsHold(F, V)
<1>1. F = [e \in Device |-> IF e = d THEN n ELSE D[e]]
  BY DEF IsChange
<1>2. V = [e \in Device |-> IF e = d THEN Grown(W[d], d, x) ELSE W[e]]
  BY DEF IsGrown, RingsHold
<1>3. Entered(n, D[d], d, x)
  BY PutLemma
<1>4. Content(n, d) = IF Len(Content(D[d], d)) < Size[d] - 1 THEN Append(Content(D[d], d), x)
                      ELSE Content(D[d], d)
  BY <1>3, ContentPut
<1>5. Content(D[d], d) = W[d]
  BY DEF RingsHold
<1>6. Content(n, d) = Grown(W[d], d, x)
  BY <1>4, <1>5, Zenon DEF Grown
<1>7. V = [e \in Device |-> V[e]]
  BY <1>2
<1>8. ASSUME NEW e \in Device PROVE Content(F[e], e) = V[e]
  <2>1. CASE e = d
    BY <1>1, <1>2, <1>6, <2>1
  <2>2. CASE e # d
    <3>1. F[e] = D[e] /\ V[e] = W[e]
      BY <1>1, <1>2, <2>2
    <3> QED BY <3>1, Zenon DEF RingsHold
  <2> QED BY <2>1, <2>2
<1> QED BY <1>7, <1>8, Zenon DEF RingsHold

\* Entries are taken from a ring, whose queue of processes may have changed.
SameRing(q, r) == q.head = r.head /\ q.tail = r.tail /\ q.buf = r.buf
IsTaken(V, W, d, k) == V = [W EXCEPT ![d] = SubSeq(W[d], k + 1, Len(W[d]))]
\* The ring then holds the rest.
LEMMA HoldTake ==
  ASSUME NEW D, D = [e \in Device |-> D[e]], NEW W, RingsHold(D, W), NEW d \in Device,
         NEW q, IsRing(q, d), SameRing(q, D[d]), NEW k \in 0 .. Length(q, d),
         NEW n, n = get_from_queue(q, d, k), NEW F, IsChange(F, D, d, n),
         NEW V, IsTaken(V, W, d, k)
  PROVE  RingsHold(F, V)
<1> DEFINE t == SubSeq(W[d], k + 1, Len(W[d]))
<1>1. Content(q, d) = W[d]
  <2>1. Content(q, d) = Content(D[d], d)
    BY ContentSame DEF SameRing
  <2> QED BY <2>1, Zenon DEF RingsHold
<1>2. Content(n, d) = SubSeq(Content(q, d), k + 1, Len(Content(q, d)))
  BY ContentGet
<1>3. Content(n, d) = t
  BY <1>1, <1>2, Zenon
<1>4. V = [W EXCEPT ![d] = t]
  BY Zenon DEF IsTaken
<1> HIDE DEF t
<1>5. F = [e \in Device |-> IF e = d THEN n ELSE D[e]]
  BY DEF IsChange
<1>6. V = [e \in Device |-> IF e = d THEN t ELSE W[e]]
  BY <1>4 DEF RingsHold
<1>7. V = [e \in Device |-> V[e]]
  BY <1>6
<1>8. ASSUME NEW e \in Device PROVE Content(F[e], e) = V[e]
  <2>1. CASE e = d
    BY <1>3, <1>5, <1>6, <2>1
  <2>2. CASE e # d
    <3>1. F[e] = D[e] /\ V[e] = W[e]
      BY <1>5, <1>6, <2>2
    <3> QED BY <3>1, Zenon DEF RingsHold
  <2> QED BY <2>1, <2>2
<1> QED BY <1>7, <1>8, Zenon DEF RingsHold

\* Only queues of processes change.
LEMMA HoldSame ==
  ASSUME NEW D, NEW W, RingsHold(D, W), NEW F, \A d \in Device : SameRing(F[d], D[d])
  PROVE  RingsHold(F, W)
<1>1. ASSUME NEW d \in Device PROVE Content(F[d], d) = W[d]
  <2>1. Content(F[d], d) = Content(D[d], d)
    BY ContentSame DEF SameRing
  <2> QED BY <2>1, Zenon DEF RingsHold
<1> QED BY <1>1, Zenon DEF RingsHold

\* Joining and leaving a queue leave its ring alone.
LEMMA SameQueue ==
  ASSUME NEW d \in Device, NEW r, IsRing(r, d), NEW p
  PROVE  SameRing(add_wait_queue(r, p), r) /\ SameRing(remove_wait_queue(r, p), r)
<1> DEFINE a == <<p>> \o r.proc_list
           b == RemoveFirst(r.proc_list, p)
<1>1. add_wait_queue(r, p) = [r EXCEPT !.proc_list = a]
  BY DEF add_wait_queue
<1>2. remove_wait_queue(r, p) = [r EXCEPT !.proc_list = b]
  BY DEF remove_wait_queue
<1> HIDE DEF a, b
<1> QED BY <1>1, <1>2 DEF SameRing, IsRing

\* The interrupt of the keyboard.
LEMMA KbdRingStep ==
  ASSUME InputInv, RingsHold(dev, want), KbdRing
  PROVE  RingsHold(dev', want')
<1>0. InvParts
  BY Parts
<1>1. CASE UNCHANGED <<dev, want>>
  BY <1>1, Zenon
<1>2. ASSUME NEW x, Store("kbd", x), want' = Expect("kbd", x) PROVE RingsHold(dev', want')
  <2> DEFINE n == put(dev["kbd"], "kbd", x)
  <2>1. IsPut(n, dev["kbd"], "kbd", x)
    BY DEF IsPut
  <2>2. IsChange(dev', dev, "kbd", n)
    BY <1>2 DEF Store, IsChange
  <2>3. IsGrown(want', want, "kbd", x)
    BY <1>2, Zenon DEF Expect, IsGrown, Grown
  <2>4. "kbd" \in Device /\ dev = [e \in Device |-> dev[e]] /\ IsRing(dev["kbd"], "kbd")
    BY <1>0 DEF Device, InvParts
  <2> HIDE DEF n
  <2> QED BY <2>1, <2>2, <2>3, <2>4, HoldPut
<1> QED BY <1>1, <1>2, Zenon DEF KbdRing

\* The interrupt of the mouse.
LEMMA MouseRingStep ==
  ASSUME InputInv, RingsHold(dev, want), NEW q, NEW b, MouseRings(q, b)
  PROVE  RingsHold(dev', want')
<1>0. InvParts /\ "mouse" \in Device /\ "aux" \in Device /\ "mouse" # "aux"
  BY Parts DEF Device
<1> DEFINE d1 == IF q = <<>> THEN dev.mouse ELSE put(dev.mouse, "mouse", q[1])
           D1 == [dev EXCEPT !["mouse"] = d1]
           d2 == put(dev.aux, "aux", b)
           w1 == IF q = << >> THEN want["mouse"] ELSE Grown(want["mouse"], "mouse", q[1])
           W1 == [want EXCEPT !["mouse"] = w1]
           w2 == Grown(want["aux"], "aux", b)
<1>1. dev' = [dev EXCEPT !.mouse = d1, !.aux = d2]
  BY DEF MouseRings, StoreBoth
<1>2. dev = [e \in Device |-> dev[e]] /\ want = [e \in Device |-> want[e]]
  BY <1>0 DEF InvParts, RingsHold
<1>3. want' = [kbd |-> want["kbd"], aux |-> w2, mouse |-> w1]
  <2>1. Expect("aux", b)["aux"] = w2
    <3>1. Expect("aux", b) = [want EXCEPT !["aux"] = w2]
      BY Zenon DEF Expect, Grown
    <3> HIDE DEF w2
    <3> QED BY <1>0, <1>2, <3>1
  <2>2. ASSUME q # << >> PROVE Expect("mouse", q[1])["mouse"] = w1
    <3>1. Expect("mouse", q[1]) = [want EXCEPT !["mouse"] = w1]
      BY <2>2, Zenon DEF Expect, Grown
    <3> HIDE DEF w1
    <3> QED BY <1>0, <1>2, <3>1
  <2> HIDE DEF w2
  <2> QED BY <2>1, <2>2, Zenon DEF MouseRings
<1>4. RingsHold(D1, W1) /\ D1 = [e \in Device |-> D1[e]] /\ D1["aux"] = dev["aux"]
      /\ W1["aux"] = want["aux"]
  <2>0. D1 = [e \in Device |-> D1[e]] /\ D1["aux"] = dev["aux"] /\ W1["aux"] = want["aux"]
    <3> HIDE DEF d1, w1
    <3> QED BY <1>0, <1>2
  <2>1. CASE q = << >>
    <3>1. d1 = dev["mouse"] /\ w1 = want["mouse"]
      BY <2>1
    <3> HIDE DEF d1, w1
    <3>2. D1 = dev /\ W1 = want
      BY <1>0, <1>2, <3>1
    <3> QED BY <2>0, <3>2, Zenon
  <2>2. CASE q # << >>
    <3>1. IsPut(d1, dev["mouse"], "mouse", q[1]) /\ IsChange(D1, dev, "mouse", d1)
      BY <2>2 DEF IsPut, IsChange
    <3>2. IsGrown(W1, want, "mouse", q[1])
      BY <2>2, Zenon DEF IsGrown
    <3>3. IsRing(dev["mouse"], "mouse")
      BY <1>0 DEF InvParts
    <3> HIDE DEF d1, D1, w1, W1
    <3>4. RingsHold(D1, W1)
      BY <1>0, <1>2, <3>1, <3>2, <3>3, HoldPut
    <3> QED BY <2>0, <3>4
  <2> QED BY <2>1, <2>2
<1>5. IsPut(d2, D1["aux"], "aux", b) /\ IsRing(D1["aux"], "aux")
  BY <1>0, <1>4, Zenon DEF IsPut, InvParts
<1>6. IsChange(dev', D1, "aux", d2)
  <2> HIDE DEF d1, d2
  <2> QED BY <1>0, <1>1, <1>2 DEF IsChange
<1>7. IsGrown(want', W1, "aux", b)
  <2>1. want' = [W1 EXCEPT !["aux"] = w2]
    <3> HIDE DEF w1, w2
    <3>1. \A e \in Device : e = "kbd" \/ e = "aux" \/ e = "mouse"
      BY DEF Device
    <3>2. want' = [e \in Device |-> IF e = "kbd" THEN want["kbd"] ELSE IF e = "aux" THEN w2 ELSE w1]
      BY <1>3, <3>1 DEF Device
    <3>3. W1 = [e \in Device |-> IF e = "mouse" THEN w1 ELSE want[e]]
      BY <1>2
    <3> HIDE DEF W1
    <3> QED BY <1>0, <3>1, <3>2, <3>3
  <2> HIDE DEF W1
  <2> QED BY <1>4, <2>1, Zenon DEF IsGrown
<1> HIDE DEF D1, d2, W1
<1> QED BY <1>0, <1>4, <1>5, <1>6, <1>7, HoldPut

\* The end of a read.
LEMMA TakeRingStep ==
  ASSUME InputInv, RingsHold(dev, want), NEW d \in Device, NEW count \in Nat, NEW q,
         IsRing(q, d), SameRing(q, dev[d]), Take(d, count, q)
  PROVE  RingsHold(dev', want')
<1> DEFINE k == Min({count, Length(q, d)})
           n == get_from_queue(q, d, k)
<1>1. IsChange(dev', dev, d, n) /\ IsTaken(want', want, d, k)
  BY Zenon DEF Take, IsChange, IsTaken
<1>2. k \in 0 .. Length(q, d)
  BY TakenFrom
<1>3. dev = [e \in Device |-> dev[e]]
  BY Parts DEF InvParts
<1> HIDE DEF k
<1> QED BY <1>1, <1>2, <1>3, HoldTake

\* A read.
LEMMA ReadRingStep ==
  ASSUME InputInv, RingsHold(dev, want), NEW p \in Process, sys_read(p)
  PROVE  RingsHold(dev', want')
<1>0. InvParts
  BY Parts
<1>1. PICK d \in Reads[p], count \in Counts : ReadAtOnce(p, d, count) \/ ReadBlocks(p, d, count)
  BY DEF sys_read
<1>2. d \in Device /\ count \in Nat
  BY InputBounds
<1>3. CASE ReadAtOnce(p, d, count)
  <2>1. IsRing(dev[d], d) /\ SameRing(dev[d], dev[d]) /\ Take(d, count, dev[d])
    BY <1>0, <1>2, <1>3, Zenon DEF InvParts, SameRing, ReadAtOnce
  <2> QED BY <1>2, <2>1, TakeRingStep
<1>4. CASE ReadBlocks(p, d, count)
  <2>1. dev' = [e \in Device |-> IF e = d THEN add_wait_queue(dev[d], p) ELSE dev[e]]
    BY <1>0, <1>2, <1>4 DEF ReadBlocks, InvParts
  <2>2. want' = want
    BY <1>4 DEF ReadBlocks
  <2>3. SameRing(add_wait_queue(dev[d], p), dev[d])
    BY <1>0, <1>2, SameQueue DEF InvParts
  <2>4. ASSUME NEW e \in Device PROVE SameRing(dev'[e], dev[e])
    <3>1. CASE e = d
      BY <2>1, <2>3, <3>1
    <3>2. CASE e # d
      <4>1. dev'[e] = dev[e]
        BY <2>1, <3>2
      <4> QED BY <4>1, Zenon DEF SameRing
    <3> QED BY <3>1, <3>2
  <2>5. RingsHold(dev', want)
    BY <2>4, HoldSame
  <2> QED BY <2>2, <2>5, Zenon
<1> QED BY <1>1, <1>3, <1>4

\* The rest of a read that has waited.
LEMMA ReadWakesRingStep ==
  ASSUME InputInv, RingsHold(dev, want), NEW p \in Process, ReadWakes(p)
  PROVE  RingsHold(dev', want')
<1>0. InvParts /\ proc[p].call = "read"
  BY Parts DEF ReadWakes
<1> DEFINE d == proc[p].dev
<1>1. d \in Device /\ proc[p].count \in Nat
  BY <1>0 DEF InvParts, Call
<1>2. \/ UNCHANGED <<dev, want>>
      \/ Take(d, proc[p].count, remove_wait_queue(dev[d], p)) /\ Return(p)
  BY Zenon DEF ReadWakes
<1>3. CASE UNCHANGED <<dev, want>>
  BY <1>3, Zenon
<1>4. CASE Take(d, proc[p].count, remove_wait_queue(dev[d], p)) /\ Return(p)
  <2>1. OthersSame(proc, proc', p) /\ proc'[p] = User
    BY <1>0, <1>4 DEF Return, OthersSame, InvParts
  <2>2. ~ Waits(proc', d, p) /\ QueueFits(dev[d], d, proc)
    BY <1>0, <1>1, <2>1 DEF Waits, User, InvParts
  <2>3. QueueFits(remove_wait_queue(dev[d], p), d, proc')
    BY <1>1, <2>1, <2>2, LeaveQueue
  <2>4. IsRing(remove_wait_queue(dev[d], p), d)
    BY <2>3, Zenon DEF QueueFits
  <2>5. SameRing(remove_wait_queue(dev[d], p), dev[d])
    BY <1>0, <1>1, SameQueue DEF InvParts
  <2> QED BY <1>1, <1>4, <2>4, <2>5, TakeRingStep
<1> QED BY <1>2, <1>3, <1>4

\* wait2 joins and leaves queues.
LEMMA WaitRingStep ==
  ASSUME InputInv, RingsHold(dev, want), NEW p \in Process, sys_wait2(p) \/ Wait2Wakes(p)
  PROVE  RingsHold(dev', want')
<1>0. InvParts
  BY Parts
<1>1. dev' = dev \/ dev' = poll_wait(p) \/ dev' = poll_freewait(p)
  BY DEF sys_wait2, Wait2Wakes
<1>2. want' = want
  BY DEF sys_wait2, Wait2Wakes
<1>3. ASSUME NEW e \in Device PROVE SameRing(dev'[e], dev[e])
  <2>1. /\ SameRing(dev[e], dev[e]) /\ SameRing(add_wait_queue(dev[e], p), dev[e])
        /\ SameRing(remove_wait_queue(dev[e], p), dev[e])
    <3>1. SameRing(dev[e], dev[e])
      BY DEF SameRing
    <3> QED BY <1>0, <3>1, SameQueue DEF InvParts
  <2>2. \/ dev'[e] = dev[e] \/ dev'[e] = add_wait_queue(dev[e], p)
        \/ dev'[e] = remove_wait_queue(dev[e], p)
    BY <1>1 DEF poll_wait, poll_freewait
  <2> QED BY <2>1, <2>2, Zenon
<1>4. RingsHold(dev', want)
  BY <1>3, HoldSame
<1> QED BY <1>2, <1>4, Zenon

\* open_aux empties a ring, whatever it held.
LEMMA OpenRingStep ==
  ASSUME InputInv, RingsHold(dev, want), NEW p \in Process, open_aux(p)
  PROVE  RingsHold(dev', want')
<1>0. InvParts /\ "aux" \in Device
  BY Parts DEF Device
<1>1. dev = [d \in Device |-> dev[d]] /\ IsRing(dev["aux"], "aux")
  BY <1>0 DEF InvParts
<1> DEFINE n == [dev["aux"] EXCEPT !.head = 0, !.tail = 0]
<1>2. dev' = [dev EXCEPT !["aux"] = n]
  <2>1. dev' = [dev EXCEPT !.aux.head = 0, !.aux.tail = 0]
    BY DEF open_aux
  <2> QED BY <1>0, <1>1, <2>1 DEF IsRing
<1>3. IsRing(n, "aux") /\ n.head = n.tail
  <2>1. 0 \in 0 .. Size["aux"] - 1
    BY <1>0, SizeType
  <2> QED BY <1>1, <2>1 DEF IsRing
<1> HIDE DEF n
<1>4. Length(n, "aux") = 0
  BY <1>0, <1>3, LengthIs
<1>5. Content(n, "aux") = << >>
  <2>1. Len(Content(n, "aux")) = 0 /\ Content(n, "aux") \in Seq({n.buf[j] : j \in 0 .. Size["aux"] - 1})
    BY <1>0, <1>3, <1>4, ContentSeq
  <2> QED BY <2>1
<1>6. dev' = [e \in Device |-> IF e = "aux" THEN n ELSE dev[e]]
  BY <1>1, <1>2
<1>7. want' = [e \in Device |-> IF e = "aux" THEN << >> ELSE want[e]]
  BY DEF open_aux, RingsHold
<1>8. want' = [e \in Device |-> want'[e]]
  BY <1>7
<1>9. ASSUME NEW e \in Device PROVE Content(dev'[e], e) = want'[e]
  <2>1. CASE e = "aux"
    BY <1>5, <1>6, <1>7, <2>1
  <2>2. CASE e # "aux"
    <3>1. dev'[e] = dev[e] /\ want'[e] = want[e]
      BY <1>6, <1>7, <2>2
    <3> QED BY <3>1, Zenon DEF RingsHold
  <2> QED BY <2>1, <2>2
<1> QED BY <1>8, <1>9, Zenon DEF RingsHold

\* Nothing has been typed or reported yet, and the rings are empty.
LEMMA InitDecodes == ASSUME Decodable PROVE Init => DecodeInv
<1> SUFFICES ASSUME Init PROVE DecodeInv
  OBVIOUS
<1>1. InputInv /\ InvParts
  BY InitFits, Parts
<1>2. /\ kbd = [ext |-> FALSE, shift |-> FALSE, ctrl |-> FALSE, alt |-> FALSE, caps |-> FALSE,
                meta |-> FALSE]
      /\ hw = [held |-> {}, kbd |-> << >>, keys |-> 0, reports |-> 0, mouse |-> <<Ack>>,
               report |-> Still, stray |-> Ack]
      /\ mdata = << >>
  BY Zenon DEF Init
<1>3. Still \in Movement /\ << >> \in Seq(Nat) /\ <<Ack>> \in Seq(Nat) /\ Ack \in Nat
  BY DEF Still, Movement, Ack
<1>4. HwType
  BY <1>2, <1>3 DEF HwType, HwRecord, KbdType
<1>5. ~kbd.caps /\ Quiet
  <2>1. hw.kbd = << >> /\ hw.held = {} /\ ~kbd.ext /\ ~kbd.shift /\ ~kbd.caps
    BY <1>2
  <2> QED BY <2>1, Zenon DEF Quiet, HeldShift
<1>6. MouseInv
  BY <1>2 DEF MouseInv
<1>7. RingsHold(dev, want)
  <2>1. want = [d \in Device |-> << >>]
    BY DEF Init
  <2>2. ASSUME NEW d \in Device PROVE Content(dev[d], d) = << >>
    <3>1. dev[d].head = dev[d].tail /\ IsRing(dev[d], d)
      BY <1>1 DEF Init, init_queue, InvParts
    <3>2. Length(dev[d], d) = 0
      BY <3>1, LengthIs
    <3>3. Len(Content(dev[d], d)) = 0
          /\ Content(dev[d], d) \in Seq({dev[d].buf[j] : j \in 0 .. Size[d] - 1})
      BY <3>1, <3>2, ContentSeq
    <3> QED BY <3>3
  <2> QED BY <2>1, <2>2 DEF RingsHold
<1> QED BY <1>4, <1>5, <1>6, <1>7, Zenon DEF DecodeInv, KeyInv

\* Steps that concern neither the keyboard nor the mouse.
LEMMA HwSame ==
  ASSUME HwType, KeyInv, MouseInv, UNCHANGED <<kbd, mdata, hw, panicked>>
  PROVE  HwType' /\ KeyInv' /\ MouseInv'
BY KeySame, MouseSame DEF HwType

\* The bytes under way and the content of the rings are kept by every step.
LEMMA NextDecodes ==
  ASSUME Decodable
  PROVE  InputInv /\ DecodeInv /\ [Next]_vars => DecodeInv'
<1> SUFFICES ASSUME InputInv, DecodeInv, [Next]_vars PROVE DecodeInv'
  OBVIOUS
<1>0. HwType /\ KeyInv /\ MouseInv /\ RingsHold(dev, want)
  BY DEF DecodeInv
<1>1. CASE UNCHANGED vars
  BY <1>0, <1>1, HwSame, Zenon DEF vars, DecodeInv
<1>2. CASE IdleYields
  BY <1>0, <1>2, HwSame, Zenon DEF IdleYields, DecodeInv
<1>3. CASE inthandler21
  <2>1. HwType' /\ KeyInv' /\ KbdRing /\ ByteTaken /\ UNCHANGED mdata
    BY <1>0, <1>3, KeyStep DEF inthandler21
  <2>2. MouseInv'
    BY <1>0, <2>1, MouseSame, Zenon DEF ByteTaken
  <2>3. RingsHold(dev', want')
    BY <1>0, <2>1, KbdRingStep
  <2> QED BY <2>1, <2>2, <2>3, Zenon DEF DecodeInv
<1>4. CASE inthandler2C
  <2>1. /\ MouseInv' /\ HwType' /\ hw'.held = hw.held /\ hw'.kbd = hw.kbd
        /\ \E q, b : MouseRings(q, b)
    BY <1>0, <1>4, MouseDecodes
  <2>2. KeyInv'
    BY <1>0, <1>4, <2>1, KeySame, Zenon DEF inthandler2C
  <2>3. RingsHold(dev', want')
    BY <1>0, <2>1, MouseRingStep
  <2> QED BY <2>1, <2>2, <2>3, Zenon DEF DecodeInv
<1>5. ASSUME NEW resched \in BOOLEAN, inthandler20(resched) PROVE DecodeInv'
  BY <1>0, <1>5, HwSame, Zenon DEF inthandler20, DecodeInv
<1>6. ASSUME ~panicked, NEW k \in Keys, Type(k) PROVE DecodeInv'
  <2>1. HwType' /\ KeyInv' /\ MouseInv'
    BY <1>0, <1>6, TypeStep
  <2> QED BY <1>0, <1>6, <2>1, Zenon DEF DecodeInv, Type
<1>7. ASSUME NEW r \in Reports, Report(r) PROVE DecodeInv'
  <2>1. HwType' /\ KeyInv' /\ MouseInv'
    BY <1>0, <1>7, ReportStep
  <2> QED BY <1>0, <1>7, <2>1, Zenon DEF DecodeInv, Report
<1>8. ASSUME NEW p \in Process, sys_read(p) PROVE DecodeInv'
  BY <1>0, <1>8, HwSame, ReadRingStep, Zenon DEF sys_read, DecodeInv
<1>9. ASSUME NEW p \in Process, sys_wait2(p) PROVE DecodeInv'
  BY <1>0, <1>9, HwSame, WaitRingStep, Zenon DEF sys_wait2, DecodeInv
<1>10. ASSUME NEW p \in Process, open_aux(p) PROVE DecodeInv'
  BY <1>0, <1>10, HwSame, OpenRingStep, Zenon DEF open_aux, DecodeInv
<1>11. ASSUME NEW p \in Process, ReadWakes(p) PROVE DecodeInv'
  BY <1>0, <1>11, HwSame, ReadWakesRingStep, Zenon DEF ReadWakes, DecodeInv
<1>12. ASSUME NEW p \in Process, Wait2Wakes(p) PROVE DecodeInv'
  BY <1>0, <1>12, HwSame, WaitRingStep, Zenon DEF Wait2Wakes, DecodeInv
<1> QED
  BY <1>1, <1>2, <1>3, <1>4, <1>5, <1>6, <1>7, <1>8, <1>9, <1>10, <1>11, <1>12 DEF Next, Kernel

\* Each ring holds what was typed or sent, in order, except for what came while it was
\* full, and the mouse's ring whole reports from the one after the first whose last
\* byte does not look like a first byte, and shifted ones before, because of the
\* answer to MOUSE_ENABLE (handle_keyboard_event, handle_ps2_mouse_scancode,
\* make_mouse_packet), for rings of any size.
THEOREM RingsDeliverTheorem == ASSUME Decodable PROVE Spec => []RingsDeliver
<1>1. Init => DecodeInv
  BY InitDecodes
<1>2. InputInv /\ DecodeInv /\ [Next]_vars => DecodeInv'
  BY NextDecodes
<1>3. DecodeInv => RingsDeliver
  BY Zenon DEF DecodeInv, RingsHold, RingsDeliver
<1> QED BY <1>1, <1>2, <1>3, InputInvariance, PTL DEF Spec
=============================================================================
