----------------------------- MODULE IpcProofs -----------------------------
(***************************************************************************)
(* Proofs about Ipc: its inductive invariant, that no senders wait for     *)
(* each other in a circle, that every message arrives once and where it    *)
(* was sent, and that the queues of senders are fair.                      *)
(***************************************************************************)
EXTENDS Ipc, DataProofs, FiniteSetTheorems

\* The steps of a loop over at most all processes.
LEMMA HopsAreNumbers == Cardinality(Proc) \in Nat /\ Hops \subseteq Nat /\ 0 \in Hops
<1>1. Cardinality(Proc) \in Nat
  BY IpcBounds, FS_CardinalityType
<1> QED BY <1>1 DEF Hops

\* A function on 0 .. n that Follow's equation describes exists for all n.
LEMMA FollowExists ==
  ASSUME NEW next, NEW x, NEW n \in Nat
  PROVE  \E f : f = [i \in 0 .. n |-> IF i = 0 THEN x ELSE next[f[i - 1]]]
<1> DEFINE Fits(f, m) == f = [i \in 0 .. m |-> IF i = 0 THEN x ELSE next[f[i - 1]]]
           T == {m \in Nat : ~\E f : Fits(f, m)}
<1> SUFFICES ASSUME T # {} PROVE FALSE
  OBVIOUS
<1>1. PICK m \in T : \A l \in T : m <= l
  BY LeastElement
<1>2. CASE m = 0
  <2>1. Fits([i \in 0 .. 0 |-> x], 0)
    OBVIOUS
  <2> QED BY <1>1, <1>2, <2>1
<1>3. CASE m # 0
  <2>1. m - 1 \in Nat /\ m - 1 \notin T
    BY <1>1, <1>3
  <2>2. PICK f : Fits(f, m - 1)
    BY <2>1
  <2> DEFINE g == [i \in 0 .. m |-> IF i = m THEN next[f[m - 1]] ELSE f[i]]
  <2>3. \A i \in 0 .. m - 1 : f[i] = IF i = 0 THEN x ELSE next[f[i - 1]]
    BY <2>2
  <2>4. \A i \in 0 .. m : g[i] = IF i = 0 THEN x ELSE next[g[i - 1]]
    BY <1>3, <2>1, <2>3
  <2>5. g = [i \in 0 .. m |-> g[i]]
    OBVIOUS
  <2> HIDE DEF g
  <2>6. Fits(g, m)
    BY <2>4, <2>5
  <2> QED BY <1>1, <2>6
<1> QED BY <1>2, <1>3

\* What Follow computes, step by step.
LEMMA FollowSteps ==
  ASSUME NEW next, NEW x
  PROVE  /\ Follow(next, x)[0] = x
         /\ \A i \in Hops \ {0} : i - 1 \in Hops /\ Follow(next, x)[i] = next[Follow(next, x)[i - 1]]
<1> DEFINE at == CHOOSE f : f = [i \in Hops |-> IF i = 0 THEN x ELSE next[f[i - 1]]]
<1>1. Follow(next, x) = at
  BY DEF Follow
<1>2. at = [i \in Hops |-> IF i = 0 THEN x ELSE next[at[i - 1]]]
  BY HopsAreNumbers, FollowExists DEF Hops
<1> HIDE DEF at
<1> QED BY <1>1, <1>2, HopsAreNumbers DEF Hops

-----------------------------------------------------------------------------
(* The search of detect_cycle.                                             *)

\* What detect_cycle reads of a state.
Edges(r) == r.flags \in [Proc -> SUBSET {SENDING, RECEIVING}] /\ r.sendto \in [Proc -> Task]

\* The path that detect_cycle follows goes from sender to addressee.
LEMMA PathSteps ==
  ASSUME NEW r, Edges(r), NEW dest \in Proc, NEW at, at = SendPath(r, dest)
  PROVE  /\ at[0] = dest
         /\ \A i \in Hops : at[i] \in Task
         /\ \A i \in Hops \ {0} :
              /\ i - 1 \in Hops
              /\ at[i - 1] \in Proc /\ SENDING \in r.flags[at[i - 1]] => at[i] = r.sendto[at[i - 1]]
              /\ at[i] \in Proc => at[i - 1] \in Proc /\ Sends(r, at[i - 1], at[i])
<1> DEFINE next == NextHop(r)
<1>1. at = Follow(next, dest)
  BY DEF SendPath
<1>2. at[0] = dest /\ \A i \in Hops \ {0} : i - 1 \in Hops /\ at[i] = next[at[i - 1]]
  BY <1>1, FollowSteps
<1>3. /\ next \in [Task -> Task]
      /\ \A t \in Task : next[t] = IF t \in Proc /\ SENDING \in r.flags[t] THEN r.sendto[t] ELSE NO_TASK
  BY DEF NextHop, Task, Edges
<1> HIDE DEF next
<1>4. \A i \in Hops : at[i] \in Task
  <2> DEFINE T == {i \in Hops : at[i] \notin Task}
  <2> SUFFICES ASSUME T # {} PROVE FALSE
    OBVIOUS
  <2>1. PICK i \in T : \A j \in T : i <= j
    BY HopsAreNumbers, LeastElement
  <2>2. i # 0
    BY <1>2, <2>1 DEF Task
  <2>3. i - 1 \in Hops /\ at[i] = next[at[i - 1]] /\ i - 1 \notin T
    BY <1>2, <2>1, <2>2, HopsAreNumbers
  <2> QED BY <1>3, <2>1, <2>3
<1>5. NO_TASK \notin Proc
  BY Tasks
<1> QED BY <1>2, <1>3, <1>4, <1>5 DEF Sends

\* Up to a process that it meets, everyone on the path is sending.
LEMMA PathSends ==
  ASSUME NEW r, Edges(r), NEW dest \in Proc, NEW at, at = SendPath(r, dest)
  PROVE  \A j \in Hops : at[j] \in Proc =>
           \A m \in 0 .. j - 1 : at[m] \in Proc /\ Sends(r, at[m], at[m + 1])
<1> DEFINE T == {j \in Hops : at[j] \in Proc /\ \E m \in 0 .. j - 1 : ~(at[m] \in Proc /\ Sends(r, at[m], at[m + 1]))}
<1> SUFFICES ASSUME T # {} PROVE FALSE
  OBVIOUS
<1>1. PICK j \in T : \A i \in T : j <= i
  BY HopsAreNumbers, LeastElement
<1>2. j \in Nat /\ j # 0 /\ j \in Hops /\ at[j] \in Proc
  BY <1>1, HopsAreNumbers
<1>3. j - 1 \in Hops /\ at[j - 1] \in Proc /\ Sends(r, at[j - 1], at[j])
  BY <1>2, PathSteps
<1>4. j - 1 \notin T
  BY <1>1, <1>2
<1>5. \A m \in 0 .. (j - 1) - 1 : at[m] \in Proc /\ Sends(r, at[m], at[m + 1])
  BY <1>3, <1>4
<1>6. \A m \in 0 .. j - 1 : m = j - 1 \/ m \in 0 .. (j - 1) - 1
  BY <1>2
<1>7. (j - 1) + 1 = j
  BY <1>2
<1> QED BY <1>1, <1>3, <1>5, <1>6, <1>7

\* Nobody is met twice.
LEMMA NoReturn ==
  ASSUME NEW r, Acyclic(r), NEW at, NEW i \in Nat, NEW j \in Nat, i < j, at[i] = at[j],
         \A m \in i .. j - 1 : at[m] \in Proc /\ Sends(r, at[m], at[m + 1])
  PROVE  FALSE
<1> DEFINE S == {at[m] : m \in i .. j - 1}
<1>1. S \in SUBSET Proc /\ at[i] \in S
  OBVIOUS
<1>2. PICK p \in S : \A q \in S : ~Sends(r, p, q)
  BY <1>1 DEF Acyclic
<1>3. PICK m \in i .. j - 1 : p = at[m]
  BY <1>2
<1>4. at[m + 1] \in S
  <2>1. CASE m = j - 1
    <3>1. m + 1 = j
      BY <2>1
    <3> QED BY <1>1, <3>1
  <2>2. CASE m # j - 1
    BY <2>2
  <2> QED BY <2>1, <2>2
<1> QED BY <1>2, <1>3, <1>4

\* The path ends before it is longer than the list of processes.
LEMMA PathEnds ==
  ASSUME NEW r, Edges(r), Acyclic(r), NEW dest \in Proc, NEW at, at = SendPath(r, dest)
  PROVE  at[Cardinality(Proc)] \notin Proc
<1> DEFINE N == Cardinality(Proc)
           f == [m \in 0 .. N |-> at[m]]
<1> SUFFICES ASSUME at[N] \in Proc PROVE FALSE
  OBVIOUS
<1>1. N \in Nat /\ N \in Hops
  BY HopsAreNumbers DEF Hops
<1>2. \A m \in 0 .. N - 1 : at[m] \in Proc /\ Sends(r, at[m], at[m + 1])
  BY <1>1, PathSends
<1>3. IsFiniteSet(0 .. N) /\ Cardinality(0 .. N) = N + 1
  BY <1>1, FS_Interval
<1>4. f \in [0 .. N -> Proc]
  BY <1>1, <1>2
<1>5. N < Cardinality(0 .. N)
  BY <1>1, <1>3
<1> HIDE DEF N, f
<1>6. \E x, y \in 0 .. N : x # y /\ f[x] = f[y]
  <2>1. Cardinality(Proc) < Cardinality(0 .. N)
    BY <1>5 DEF N
  <2> QED BY <1>3, <1>4, <2>1, IpcBounds, FS_PigeonHole
<1>7. PICK x, y \in 0 .. N : x # y /\ at[x] = at[y]
  BY <1>6 DEF f
<1>8. PICK i, j \in 0 .. N : i < j /\ at[i] = at[j]
  BY <1>1, <1>7
<1>9. \A m \in i .. j - 1 : at[m] \in Proc /\ Sends(r, at[m], at[m + 1])
  BY <1>1, <1>2, <1>8
<1>10. i \in Nat /\ j \in Nat
  BY <1>1
<1> QED BY <1>8, <1>9, <1>10, NoReturn

\* A send that detect_cycle lets pass closes no circle.
LEMMA SendKeepsAcyclic ==
  ASSUME NEW r, Edges(r), Acyclic(r), NEW sender \in Proc, NEW dest \in Proc, sender # dest,
         ~detect_cycle(r, sender, dest), NEW r2,
         \A p \in Proc \ {sender}, d \in Proc : Sends(r2, p, d) => Sends(r, p, d),
         \A d \in Proc : Sends(r2, sender, d) => d = dest
  PROVE  Acyclic(r2)
<1> DEFINE at == SendPath(r, dest)
           N == Cardinality(Proc)
<1> SUFFICES ASSUME NEW S \in SUBSET Proc, S # {}, \A p \in S : \E q \in S : Sends(r2, p, q)
             PROVE  FALSE
  BY DEF Acyclic
<1>1. sender \in S
  BY DEF Acyclic
<1>2. dest \in S
  BY <1>1
<1>3. \A i \in Hops \ {0} : at[i] # sender
  BY DEF detect_cycle
<1>4. /\ at[0] = dest
      /\ \A i \in Hops \ {0} :
           /\ i - 1 \in Hops
           /\ at[i - 1] \in Proc /\ SENDING \in r.flags[at[i - 1]] => at[i] = r.sendto[at[i - 1]]
  BY PathSteps
<1>5. at[N] \notin Proc
  BY PathEnds
<1> HIDE DEF at, N
<1>6. \A i \in Hops : at[i] \in S \ {sender}
  <2> DEFINE T == {i \in Hops : at[i] \notin S \ {sender}}
  <2> SUFFICES ASSUME T # {} PROVE FALSE
    OBVIOUS
  <2>1. PICK i \in T : \A j \in T : i <= j
    BY HopsAreNumbers, LeastElement
  <2>2. i # 0
    BY <1>2, <1>4, <2>1
  <2>3. i - 1 \in Hops /\ i - 1 \notin T
    BY <1>4, <2>1, <2>2, HopsAreNumbers
  <2>4. at[i - 1] \in S \ {sender}
    BY <2>3
  <2>5. PICK q \in S : Sends(r2, at[i - 1], q)
    BY <2>4
  <2>6. Sends(r, at[i - 1], q)
    BY <2>4, <2>5
  <2>7. at[i] = q
    BY <1>4, <2>1, <2>2, <2>4, <2>6 DEF Sends
  <2> QED BY <1>3, <2>1, <2>2, <2>7
<1>7. N \in Hops
  BY HopsAreNumbers DEF Hops, N
<1> QED BY <1>5, <1>6, <1>7

\* In a state without circles detect_cycle finds who waits for whom.
LEMMA CyclesFound == Edges(s) /\ Acyclic(s) => NoSendCycle
<1> SUFFICES ASSUME Edges(s), Acyclic(s) PROVE NoSendCycle
  OBVIOUS
<1>1. ASSUME NEW q \in Proc, NEW p \in WaitsFor(q)
      PROVE  \E i \in Hops \ {0} : SendPath(s, q)[i] = p
  <2> DEFINE at == SendPath(s, q)
             N == Cardinality(Proc)
             S == {d \in Proc : \E i \in Hops \ {0} : at[i] = d}
  <2>1. /\ at[0] = q
        /\ \A i \in Hops \ {0} :
             /\ i - 1 \in Hops
             /\ at[i - 1] \in Proc /\ SENDING \in s.flags[at[i - 1]] => at[i] = s.sendto[at[i - 1]]
    BY PathSteps
  <2>2. at[N] \notin Proc
    BY PathEnds
  <2> HIDE DEF at
  <2>3. ASSUME NEW i \in Hops, NEW d \in Proc, at[i] \in Proc, Sends(s, at[i], d)
        PROVE  d \in S
    <3>1. i # N
      BY <2>2, <2>3
    <3>2. i + 1 \in Hops \ {0} /\ (i + 1) - 1 = i
      BY <3>1, HopsAreNumbers DEF Hops
    <3>3. at[i + 1] = d
      BY <2>1, <2>3, <3>2 DEF Sends
    <3> QED BY <3>2, <3>3
  <2>4. \A t \in S \cup {q}, d \in Proc : Sends(s, t, d) => d \in S
    <3> SUFFICES ASSUME NEW t \in S \cup {q}, NEW d \in Proc, Sends(s, t, d) PROVE d \in S
      OBVIOUS
    <3>1. PICK i \in Hops : at[i] = t
      BY <2>1, HopsAreNumbers
    <3>2. t \in Proc
      OBVIOUS
    <3> HIDE DEF S
    <3> QED BY <2>3, <3>1, <3>2
  <2>5. S \in SUBSET Proc
    OBVIOUS
  <2>6. p \in S
    <3> HIDE DEF S
    <3> QED BY <2>4, <2>5 DEF WaitsFor
  <2> QED BY <2>6 DEF at
<1>2. ASSUME NEW q \in Proc, NEW i \in Hops \ {0}, SendPath(s, q)[i] \in Proc
      PROVE  SendPath(s, q)[i] \in WaitsFor(q)
  <2> DEFINE at == SendPath(s, q)
  <2> SUFFICES ASSUME NEW S \in SUBSET Proc,
                      \A t \in S \cup {q}, d \in Proc : Sends(s, t, d) => d \in S
               PROVE  at[i] \in S
    BY <1>2 DEF WaitsFor
  <2>1. at[0] = q
    BY PathSteps
  <2>2. \A j \in Hops : at[j] \in Proc =>
          \A m \in 0 .. j - 1 : at[m] \in Proc /\ Sends(s, at[m], at[m + 1])
    BY PathSends
  <2>3. at[i] \in Proc
    BY <1>2
  <2> HIDE DEF at
  <2>4. \A m \in 0 .. i - 1 : at[m] \in Proc /\ Sends(s, at[m], at[m + 1])
    BY <2>2, <2>3
  <2> DEFINE T == {j \in 1 .. i : at[j] \notin S}
  <2>5. i \in Nat /\ i >= 1 /\ T \in SUBSET Nat
    BY HopsAreNumbers
  <2>6. T = {}
    <3> SUFFICES ASSUME T # {} PROVE FALSE
      OBVIOUS
    <3>1. PICK j \in T : \A m \in T : j <= m
      BY <2>5, LeastElement
    <3>2. j \in 1 .. i /\ j - 1 \in 0 .. i - 1 /\ j - 1 \notin T /\ (j - 1) + 1 = j
      BY <2>5, <3>1
    <3>3. Sends(s, at[j - 1], at[j])
      BY <2>4, <3>2
    <3>4. at[j] \in Proc
      <4>1. CASE j = i
        BY <2>3, <4>1
      <4>2. CASE j # i
        BY <2>4, <2>5, <3>2, <4>2
      <4> QED BY <4>1, <4>2
    <3>5. at[j - 1] \in S \cup {q}
      <4>1. CASE j = 1
        BY <2>1, <4>1
      <4>2. CASE j # 1
        <5>1. j - 1 \in 1 .. i
          BY <2>5, <3>2, <4>2
        <5> QED BY <3>2, <5>1
      <4> QED BY <4>1, <4>2
    <3> QED BY <3>1, <3>3, <3>4, <3>5
  <2> QED BY <2>5, <2>6
<1>3. ASSUME NEW p \in Proc, p \in WaitsFor(p) PROVE FALSE
  <2> DEFINE at == SendPath(s, p)
  <2>1. PICK i \in Hops \ {0} : at[i] = p
    BY <1>1, <1>3
  <2>2. at[0] = p
    BY PathSteps
  <2>3. \A j \in Hops : at[j] \in Proc =>
          \A m \in 0 .. j - 1 : at[m] \in Proc /\ Sends(s, at[m], at[m + 1])
    BY PathSends
  <2> HIDE DEF at
  <2>4. \A m \in 0 .. i - 1 : at[m] \in Proc /\ Sends(s, at[m], at[m + 1])
    BY <2>1, <2>3
  <2>5. i \in Nat /\ 0 \in Nat /\ 0 < i
    BY HopsAreNumbers
  <2> QED BY <2>1, <2>2, <2>4, <2>5, NoReturn
<1>4. ASSUME NEW p \in Proc, NEW q \in Proc PROVE detect_cycle(s, p, q) <=> p \in WaitsFor(q)
  BY <1>1, <1>2 DEF detect_cycle
<1> QED BY <1>3, <1>4 DEF NoSendCycle

-----------------------------------------------------------------------------
(* The queues of senders.                                                  *)

\* The types of the two links of a queue.
Links(r) == /\ r.sending_queue \in [Proc -> Proc \cup {NO_TASK}]
            /\ r.next_sending \in [Proc -> Proc \cup {NO_TASK}]

\* A queue holds every process at most once.
LEMMA QueueFits ==
  ASSUME NEW w \in Seq(Proc), IsInjective(w)
  PROVE  Len(w) \in Hops /\ w \in [1 .. Len(w) -> Proc]
<1>1. Len(w) \in Nat /\ w \in [1 .. Len(w) -> Proc]
  OBVIOUS
<1>2. w \in Injection(1 .. Len(w), Proc)
  BY <1>1 DEF IsInjective, Injection
<1>3. Cardinality(1 .. Len(w)) <= Cardinality(Proc)
  BY <1>2, IpcBounds, FS_Injection
<1>4. Cardinality(1 .. Len(w)) = Len(w)
  BY <1>1, FS_Interval
<1> QED BY <1>1, <1>3, <1>4, HopsAreNumbers DEF Hops

\* The walk along a queue meets its senders in order, and then nobody.
LEMMA QueueWalk ==
  ASSUME NEW r, Links(r), NEW p \in Proc, NEW w, IsList(r, p, w)
  PROVE  \A i \in Hops : SenderAt(r, p)[i] = IF i < Len(w) THEN w[i + 1] ELSE NO_TASK
<1> DEFINE at == SenderAt(r, p)
           next == NextSender(r)
           want(i) == IF i < Len(w) THEN w[i + 1] ELSE NO_TASK
           T == {i \in Hops : at[i] # want(i)}
<1>1. at = Follow(next, r.sending_queue[p])
  BY DEF SenderAt
<1>2. at[0] = r.sending_queue[p] /\ \A i \in Hops \ {0} : i - 1 \in Hops /\ at[i] = next[at[i - 1]]
  BY <1>1, FollowSteps
<1>3. next[NO_TASK] = NO_TASK /\ \A q \in Proc : next[q] = r.next_sending[q]
  BY Tasks DEF NextSender, Task
<1> HIDE DEF at, next
<1>4. w \in Seq(Proc) /\ Len(w) \in Nat /\ DOMAIN w = 1 .. Len(w)
  BY DEF IsList
<1>5. r.sending_queue[p] = want(0)
  BY <1>4 DEF IsList
<1> SUFFICES ASSUME T # {} PROVE FALSE
  BY DEF at
<1>6. PICK i \in T : \A j \in T : i <= j
  BY HopsAreNumbers, LeastElement
<1>7. i \in Nat /\ i # 0 /\ i \in Hops
  BY <1>2, <1>5, <1>6, HopsAreNumbers
<1>8. i - 1 \in Hops /\ i - 1 \notin T /\ at[i] = next[at[i - 1]]
  BY <1>2, <1>6, <1>7
<1>9. at[i - 1] = want(i - 1)
  BY <1>8
<1>10. CASE i - 1 < Len(w)
  <2>1. at[i - 1] = w[i] /\ i \in DOMAIN w /\ w[i] \in Proc
    BY <1>4, <1>7, <1>9, <1>10
  <2>2. at[i] = r.next_sending[w[i]]
    BY <1>3, <1>8, <2>1
  <2>3. at[i] = IF i = Len(w) THEN NO_TASK ELSE w[i + 1]
    BY <2>1, <2>2 DEF IsList
  <2>4. i # Len(w) <=> i < Len(w)
    <3>1. \A a, b \in Nat : a - 1 < b => (a # b <=> a < b)
      OBVIOUS
    <3> QED BY <1>4, <1>7, <1>10, <3>1
  <2>5. at[i] = want(i)
    BY <2>3, <2>4
  <2> QED BY <1>6, <2>5
<1>11. CASE ~(i - 1 < Len(w))
  <2>1. at[i - 1] = NO_TASK
    BY <1>9, <1>11
  <2>2. at[i] = NO_TASK
    BY <1>3, <1>8, <2>1
  <2>3. ~(i < Len(w))
    BY <1>4, <1>7, <1>11
  <2>4. at[i] = want(i)
    BY <2>2, <2>3
  <2> QED BY <1>6, <2>4
<1> QED BY <1>10, <1>11

\* How long the queue is.
LEMMA QueueEnd ==
  ASSUME NEW r, Links(r), NEW p \in Proc, NEW w, IsList(r, p, w)
  PROVE  QueueLength(r, p) = Len(w)
<1> DEFINE at == SenderAt(r, p)
           IsEnd(i) == at[i] = NO_TASK /\ \A j \in 0 .. i - 1 : at[j] # NO_TASK
<1>1. w \in Seq(Proc) /\ Len(w) \in Nat /\ Len(w) \in Hops /\ \A i \in 1 .. Len(w) : w[i] \in Proc
  BY QueueFits DEF IsList
<1>2. \A i \in Hops : at[i] = IF i < Len(w) THEN w[i + 1] ELSE NO_TASK
  BY QueueWalk
<1> HIDE DEF at
<1>3. \A i \in Hops : at[i] = NO_TASK <=> i >= Len(w)
  BY <1>1, <1>2, Tasks, HopsAreNumbers
<1>4. \A i \in Hops : IsEnd(i) <=> i = Len(w)
  <2>1. ASSUME NEW i \in Hops, IsEnd(i) PROVE i = Len(w)
    <3>1. i \in Nat /\ i >= Len(w) /\ (Len(w) \in 0 .. i - 1 => at[Len(w)] # NO_TASK)
      BY <1>3, <2>1, HopsAreNumbers
    <3> QED BY <1>1, <1>3, <3>1
  <2>2. IsEnd(Len(w))
    <3>1. \A j \in 0 .. Len(w) - 1 : j \in Hops /\ j < Len(w)
      BY <1>1, HopsAreNumbers DEF Hops
    <3> QED BY <1>1, <1>3, <3>1, HopsAreNumbers
  <2> QED BY <2>1, <2>2
<1>5. QueueLength(r, p) = CHOOSE i \in Hops : IsEnd(i)
  BY DEF QueueLength, at
<1> HIDE DEF IsEnd
<1> QED BY <1>1, <1>4, <1>5

\* Queue is the queue.
LEMMA QueueIs ==
  ASSUME Links(s), NEW p \in Proc, NEW w, IsList(s, p, w)
  PROVE  Queue(p) = w
<1>1. w \in Seq(Proc) /\ Len(w) \in Nat /\ Len(w) \in Hops /\ w = [i \in 1 .. Len(w) |-> w[i]]
  BY QueueFits DEF IsList
<1>2. QueueLength(s, p) = Len(w)
  BY QueueEnd
<1>3. \A i \in 1 .. Len(w) : i - 1 \in Hops /\ SenderAt(s, p)[i - 1] = w[i]
  BY <1>1, HopsAreNumbers, QueueWalk DEF Hops
<1> QED BY <1>1, <1>2, <1>3 DEF Queue

\* r2 differs from r in the links of the queues only.
SameButLinks(r, r2) ==
  /\ r2 \in State
  /\ r2.flags = r.flags /\ r2.recvfrom = r.recvfrom /\ r2.sendto = r.sendto
  /\ r2.message = r.message /\ r2.intr_present = r.intr_present
  /\ r2.blocked = r.blocked /\ r2.panic = r.panic

WithLinks(r, a, b) == [r EXCEPT !.sending_queue = a, !.next_sending = b]

\* A change of the links of the queues.
LEMMA NewLinks ==
  ASSUME NEW r \in State,
         NEW a \in [Proc -> Proc \cup {NO_TASK}], NEW b \in [Proc -> Proc \cup {NO_TASK}],
         NEW r2, r2 = WithLinks(r, a, b)
  PROVE  SameButLinks(r, r2) /\ r2.sending_queue = a /\ r2.next_sending = b
BY DEF State, SameButLinks, WithLinks

\* append_sender puts the sender at the end of the queue.
LEMMA AppendEffect ==
  ASSUME NEW r \in State, NEW sender \in Proc, NEW dest \in Proc, NEW w, IsList(r, dest, w),
         \A i \in DOMAIN w : w[i] # sender,
         NEW r2, r2 = append_sender(r, sender, dest)
  PROVE  /\ SameButLinks(r, r2)
         /\ IsList(r2, dest, Append(w, sender))
         /\ \A p \in Proc \ {dest} : r2.sending_queue[p] = r.sending_queue[p]
         /\ \A q \in Proc \ {sender} : (\A i \in DOMAIN w : w[i] # q) =>
              r2.next_sending[q] = r.next_sending[q]
<1> DEFINE sq == r.sending_queue
           ns == r.next_sending
           v == Append(w, sender)
<1>1. Links(r) /\ sq \in [Proc -> Proc \cup {NO_TASK}] /\ ns \in [Proc -> Proc \cup {NO_TASK}]
  BY DEF State, Links
<1>2. /\ w \in Seq(Proc) /\ Len(w) \in Nat /\ DOMAIN w = 1 .. Len(w) /\ Len(w) \in Hops
      /\ \A i \in 1 .. Len(w) : w[i] \in Proc
      /\ \A i, j \in 1 .. Len(w) : w[i] = w[j] => i = j
  BY QueueFits DEF IsList, IsInjective
<1>3. /\ sq[dest] = IF w = << >> THEN NO_TASK ELSE w[1]
      /\ \A i \in 1 .. Len(w) : ns[w[i]] = IF i = Len(w) THEN NO_TASK ELSE w[i + 1]
  BY <1>2 DEF IsList
<1>4. /\ v \in Seq(Proc) /\ Len(v) = Len(w) + 1 /\ DOMAIN v = 1 .. Len(w) + 1 /\ v # << >>
      /\ v[Len(w) + 1] = sender /\ \A i \in 1 .. Len(w) : v[i] = w[i]
  BY <1>2
<1>5. IsInjective(v)
  BY <1>2, <1>4 DEF IsInjective
<1>6. CASE w = << >>
  <2>1. sq[dest] = NO_TASK /\ Len(w) = 0
    BY <1>3, <1>6
  <2>2. r2 = [r EXCEPT !.sending_queue[dest] = sender, !.next_sending[sender] = NO_TASK]
    BY <2>1 DEF append_sender
  <2>3. /\ SameButLinks(r, r2)
        /\ r2.sending_queue = [sq EXCEPT ![dest] = sender]
        /\ r2.next_sending = [ns EXCEPT ![sender] = NO_TASK]
    <3> DEFINE a == [sq EXCEPT ![dest] = sender]
               b == [ns EXCEPT ![sender] = NO_TASK]
    <3>1. a \in [Proc -> Proc \cup {NO_TASK}] /\ b \in [Proc -> Proc \cup {NO_TASK}]
      BY <1>1
    <3>2. r2 = WithLinks(r, a, b)
      BY <2>2 DEF WithLinks
    <3> HIDE DEF a, b
    <3>3. SameButLinks(r, r2) /\ r2.sending_queue = a /\ r2.next_sending = b
      BY <3>1, <3>2, NewLinks
    <3> QED BY <3>3 DEF a, b
  <2>4. r2.sending_queue[dest] = v[1] /\ r2.next_sending[v[1]] = NO_TASK
    BY <1>1, <1>4, <2>1, <2>3
  <2>5. IsList(r2, dest, v)
    BY <1>4, <1>5, <2>1, <2>4 DEF IsList
  <2> QED BY <1>1, <2>3, <2>5
<1>7. CASE w # << >>
  <2> DEFINE last == w[Len(w)]
  <2>1. Len(w) >= 1 /\ sq[dest] # NO_TASK /\ last \in Proc /\ last # sender
    <3>1. Len(w) \in 1 .. Len(w) /\ 1 \in 1 .. Len(w)
      BY <1>2, <1>7
    <3>2. w[1] \in Proc /\ last \in Proc /\ last # sender
      BY <1>2, <3>1
    <3> QED BY <1>3, <1>7, <3>1, <3>2, Tasks
  <2>2. SenderAt(r, dest)[QueueLength(r, dest) - 1] = last
    <3>1. QueueLength(r, dest) = Len(w)
      BY <1>1, QueueEnd
    <3>2. Len(w) - 1 \in Hops /\ Len(w) - 1 < Len(w) /\ (Len(w) - 1) + 1 = Len(w)
      BY <1>2, <2>1, HopsAreNumbers DEF Hops
    <3>3. \A i \in Hops : SenderAt(r, dest)[i] = IF i < Len(w) THEN w[i + 1] ELSE NO_TASK
      BY <1>1, QueueWalk
    <3> QED BY <3>1, <3>2, <3>3
  <2>3. r2 = [r EXCEPT !.next_sending[last] = sender, !.next_sending[sender] = NO_TASK]
    BY <2>1, <2>2 DEF append_sender
  <2> HIDE DEF last
  <2>4. /\ SameButLinks(r, r2)
        /\ r2.sending_queue = sq
        /\ r2.next_sending = [[ns EXCEPT ![last] = sender] EXCEPT ![sender] = NO_TASK]
    <3> DEFINE b == [[ns EXCEPT ![last] = sender] EXCEPT ![sender] = NO_TASK]
    <3>1. b \in [Proc -> Proc \cup {NO_TASK}]
      BY <1>1, <2>1
    <3>2. r2 = WithLinks(r, sq, b)
      BY <2>3 DEF State, WithLinks
    <3> HIDE DEF b
    <3>3. SameButLinks(r, r2) /\ r2.sending_queue = sq /\ r2.next_sending = b
      BY <1>1, <3>1, <3>2, NewLinks
    <3> QED BY <3>3 DEF b
  <2>5. /\ r2.next_sending[last] = sender /\ r2.next_sending[sender] = NO_TASK
        /\ \A q \in Proc \ {last, sender} : r2.next_sending[q] = ns[q]
    BY <1>1, <2>1, <2>4
  <2>6. ASSUME NEW i \in DOMAIN v
        PROVE  r2.next_sending[v[i]] = IF i = Len(v) THEN NO_TASK ELSE v[i + 1]
    <3>1. CASE i = Len(w) + 1
      BY <1>4, <2>5, <3>1
    <3>2. CASE i = Len(w)
      <4>1. v[i] = last /\ v[i + 1] = sender
        BY <1>4, <2>1, <3>2 DEF last
      <4> QED BY <1>2, <1>4, <2>5, <3>2, <4>1
    <3>3. CASE i \in 1 .. Len(w) - 1
      <4>1. /\ v[i] = w[i] /\ w[i] \in Proc /\ w[i] # last /\ w[i] # sender
            /\ v[i + 1] = w[i + 1] /\ i # Len(w) /\ i # Len(v)
        BY <1>2, <1>4, <2>1, <3>3 DEF last
      <4>2. ns[w[i]] = w[i + 1]
        <5>1. i \in 1 .. Len(w)
          BY <1>2, <3>3
        <5> QED BY <1>3, <4>1, <5>1
      <4> QED BY <2>5, <4>1, <4>2
    <3> QED BY <1>2, <1>4, <3>1, <3>2, <3>3
  <2>7. r2.sending_queue[dest] = v[1]
    BY <1>3, <1>4, <1>7, <2>1, <2>4
  <2>8. IsList(r2, dest, v)
    BY <1>4, <1>5, <2>6, <2>7 DEF IsList
  <2>9. \A q \in Proc : (\A i \in DOMAIN w : w[i] # q) => q # last
    BY <1>2, <2>1 DEF last
  <2> QED BY <2>4, <2>5, <2>8, <2>9
<1> QED BY <1>6, <1>7

\* The sender before from, if from is not the first.
LEMMA PrevIs ==
  ASSUME NEW r \in State, NEW p \in Proc, NEW w, IsList(r, p, w), NEW m \in DOMAIN w, m # 1
  PROVE  /\ r.sending_queue[p] # w[m]
         /\ m - 1 \in DOMAIN w /\ PrevSender(r, p, w[m]) = w[m - 1] /\ w[m - 1] \in Proc \ {w[m]}
<1> DEFINE at == SenderAt(r, p)
           before == {i \in Hops \ {0} : at[i] = w[m]}
<1>1. Links(r)
  BY DEF State, Links
<1>2. /\ w \in Seq(Proc) /\ Len(w) \in Nat /\ DOMAIN w = 1 .. Len(w) /\ Len(w) \in Hops
      /\ \A i \in 1 .. Len(w) : w[i] \in Proc
      /\ \A i, j \in 1 .. Len(w) : w[i] = w[j] => i = j
  BY QueueFits DEF IsList, IsInjective
<1>3. m \in 2 .. Len(w) /\ m - 1 \in 1 .. Len(w) /\ 1 \in 1 .. Len(w) /\ w # << >>
  BY <1>2
<1>4. r.sending_queue[p] = w[1] /\ w[1] # w[m]
  BY <1>2, <1>3 DEF IsList
<1>5. \A i \in Hops : at[i] = IF i < Len(w) THEN w[i + 1] ELSE NO_TASK
  BY <1>1, QueueWalk
<1>6. m - 1 \in Hops /\ m - 2 \in Hops
  BY <1>2, <1>3, HopsAreNumbers DEF Hops
<1> HIDE DEF at
<1>7. before = {m - 1}
  <2>1. m - 1 \in before
    BY <1>2, <1>3, <1>5, <1>6
  <2>2. ASSUME NEW i \in before PROVE i = m - 1
    <3>1. i \in Hops /\ i \in Nat /\ at[i] = w[m] /\ w[m] \in Proc
      BY <1>2, HopsAreNumbers
    <3>2. i < Len(w) /\ w[i + 1] = w[m]
      BY <1>5, <3>1, Tasks
    <3>3. i + 1 \in 1 .. Len(w)
      BY <1>2, <3>1, <3>2
    <3>4. i + 1 = m
      BY <1>2, <3>2, <3>3
    <3> QED BY <3>1, <3>4
  <2> QED BY <2>1, <2>2
<1>8. Min(before) = m - 1
  <2>1. before \in SUBSET Nat /\ before # {}
    BY <1>7, HopsAreNumbers
  <2>2. Min(before) \in before
    BY <2>1, MinIsLeast
  <2> QED BY <1>7, <2>2
<1>9. at[(m - 1) - 1] = w[m - 1]
  <2>1. (m - 1) - 1 = m - 2 /\ m - 2 < Len(w) /\ (m - 2) + 1 = m - 1
    BY <1>2, <1>3
  <2> QED BY <1>5, <1>6, <2>1
<1>10. PrevSender(r, p, w[m]) = at[Min(before) - 1]
  BY <1>4, <1>7 DEF PrevSender, at
<1>11. w[m - 1] # w[m]
  BY <1>2, <1>3
<1> QED BY <1>2, <1>3, <1>4, <1>8, <1>9, <1>10, <1>11

\* unlink takes the sender out of the queue, wherever it is.
LEMMA UnlinkEffect ==
  ASSUME NEW r \in State, NEW p \in Proc, NEW w, IsList(r, p, w), NEW m \in DOMAIN w,
         NEW r2, r2 = unlink(r, p, w[m])
  PROVE  /\ SameButLinks(r, r2)
         /\ RemoveAt(w, m) \in Seq(Proc) /\ WithoutAt(w, m, RemoveAt(w, m))
         /\ IsList(r2, p, RemoveAt(w, m))
         /\ \A q \in Proc \ {p} : r2.sending_queue[q] = r.sending_queue[q]
         /\ \A q \in Proc : (\A i \in DOMAIN w : w[i] # q) =>
              r2.next_sending[q] = r.next_sending[q]
<1> DEFINE sq == r.sending_queue
           ns == r.next_sending
           v == RemoveAt(w, m)
           from == w[m]
<1>1. Links(r) /\ sq \in [Proc -> Proc \cup {NO_TASK}] /\ ns \in [Proc -> Proc \cup {NO_TASK}]
  BY DEF State, Links
<1>2. /\ w \in Seq(Proc) /\ Len(w) \in Nat /\ DOMAIN w = 1 .. Len(w) /\ m \in 1 .. Len(w)
      /\ \A i \in 1 .. Len(w) : w[i] \in Proc
      /\ \A i, j \in 1 .. Len(w) : w[i] = w[j] => i = j
  BY DEF IsList, IsInjective
<1>3. /\ sq[p] = w[1] /\ from \in Proc
      /\ \A i \in 1 .. Len(w) : ns[w[i]] = IF i = Len(w) THEN NO_TASK ELSE w[i + 1]
  <2>1. w # << >> /\ from \in Proc
    BY <1>2
  <2>2. \A i \in 1 .. Len(w) : ns[w[i]] = IF i = Len(w) THEN NO_TASK ELSE w[i + 1]
    BY <1>2 DEF IsList
  <2> QED BY <2>1, <2>2 DEF IsList
<1>4. v \in Seq(Proc) /\ WithoutAt(w, m, v)
  BY <1>2, RemoveAtFields
<1>5. /\ Len(v) = Len(w) - 1 /\ DOMAIN v = 1 .. Len(w) - 1
      /\ \A i \in 1 .. Len(w) - 1 : v[i] = IF i < m THEN w[i] ELSE w[i + 1]
  BY <1>4 DEF WithoutAt
<1> HIDE DEF v
<1>6. Len(w) \in Nat /\ m \in Nat /\ m >= 1 /\ m <= Len(w)
  BY <1>2
<1>7. IsInjective(v)
  <2> SUFFICES ASSUME NEW i \in 1 .. Len(w) - 1, NEW j \in 1 .. Len(w) - 1, v[i] = v[j] PROVE i = j
    BY <1>5 DEF IsInjective
  <2> DEFINE a == IF i < m THEN i ELSE i + 1
             b == IF j < m THEN j ELSE j + 1
  <2>1. a \in 1 .. Len(w) /\ b \in 1 .. Len(w) /\ w[a] = v[i] /\ w[b] = v[j]
    BY <1>2, <1>5
  <2>2. a = b
    BY <1>2, <2>1
  <2> QED BY <1>2, <2>2
<1>8. v = << >> <=> Len(w) = 1
  BY <1>2, <1>4, <1>5
<1>9. CASE m = 1
  <2>1. r2 = [r EXCEPT !.sending_queue[p] = r.next_sending[from], !.next_sending[from] = NO_TASK]
    BY <1>3, <1>9 DEF unlink
  <2> DEFINE a == [sq EXCEPT ![p] = ns[from]]
             b == [ns EXCEPT ![from] = NO_TASK]
  <2>2. a \in [Proc -> Proc \cup {NO_TASK}] /\ b \in [Proc -> Proc \cup {NO_TASK}]
    BY <1>1, <1>3
  <2>3. r2 = WithLinks(r, a, b)
    BY <2>1 DEF WithLinks
  <2>4. a[p] = ns[from] /\ \A q \in Proc \ {p} : a[q] = sq[q]
    BY <1>1
  <2>5. \A q \in Proc \ {from} : b[q] = ns[q]
    BY <1>1
  <2> HIDE DEF a, b, from
  <2>6. SameButLinks(r, r2) /\ r2.sending_queue = a /\ r2.next_sending = b
    BY <2>2, <2>3, NewLinks
  <2>7. r2.sending_queue[p] = IF v = << >> THEN NO_TASK ELSE v[1]
    <3>1. ns[from] = IF 1 = Len(w) THEN NO_TASK ELSE w[1 + 1]
      <4>1. from = w[1] /\ 1 \in 1 .. Len(w)
        BY <1>2, <1>9 DEF from
      <4> QED BY <1>3, <4>1
    <3>2. Len(w) # 1 => v[1] = w[1 + 1]
      BY <1>2, <1>5, <1>9
    <3> QED BY <1>8, <2>4, <2>6, <3>1, <3>2
  <2>8. ASSUME NEW i \in 1 .. Len(w) - 1
        PROVE  r2.next_sending[v[i]] = IF i = Len(w) - 1 THEN NO_TASK ELSE v[i + 1]
    <3>1. v[i] = w[i + 1] /\ i + 1 \in 1 .. Len(w) /\ w[i + 1] # from /\ w[i + 1] \in Proc
      BY <1>2, <1>5, <1>9 DEF from
    <3>2. r2.next_sending[v[i]] = IF i + 1 = Len(w) THEN NO_TASK ELSE w[(i + 1) + 1]
      BY <1>3, <2>5, <2>6, <3>1
    <3>3. i # Len(w) - 1 => v[i + 1] = w[(i + 1) + 1]
      <4>1. i # Len(w) - 1 => i + 1 \in 1 .. Len(w) - 1 /\ ~(i + 1 < m)
        BY <1>6, <1>9
      <4> QED BY <1>5, <4>1
    <3>4. i = Len(w) - 1 <=> i + 1 = Len(w)
      BY <1>2
    <3> QED BY <3>2, <3>3, <3>4
  <2>9. IsList(r2, p, v)
    BY <1>4, <1>5, <1>7, <2>7, <2>8 DEF IsList
  <2>10. \A q \in Proc : (\A i \in DOMAIN w : w[i] # q) => q # from
    BY DEF from
  <2> QED BY <1>4, <2>4, <2>5, <2>6, <2>9, <2>10 DEF v
<1>10. CASE m # 1
  <2> DEFINE prev == w[m - 1]
  <2>1. sq[p] # from /\ m - 1 \in 1 .. Len(w) /\ prev = PrevSender(r, p, from) /\ prev \in Proc \ {from}
    BY <1>2, <1>10, PrevIs
  <2>2. r2 = [r EXCEPT !.next_sending[prev] = r.next_sending[from], !.next_sending[from] = NO_TASK]
    BY <2>1, Tasks DEF unlink
  <2> DEFINE b == [[ns EXCEPT ![prev] = ns[from]] EXCEPT ![from] = NO_TASK]
  <2>3. b \in [Proc -> Proc \cup {NO_TASK}]
    BY <1>1, <1>3, <2>1
  <2>4. r2 = WithLinks(r, sq, b)
    BY <2>2 DEF WithLinks, State
  <2>5. b[prev] = ns[from] /\ \A q \in Proc \ {from, prev} : b[q] = ns[q]
    BY <1>1, <1>3, <2>1
  <2> HIDE DEF b, from, prev
  <2>6. SameButLinks(r, r2) /\ r2.sending_queue = sq /\ r2.next_sending = b
    BY <1>1, <2>3, <2>4, NewLinks
  <2>7. r2.sending_queue[p] = IF v = << >> THEN NO_TASK ELSE v[1]
    <3>1. Len(w) # 1 /\ v[1] = w[1]
      BY <1>2, <1>5, <1>10, <2>1
    <3> QED BY <1>3, <1>8, <2>6, <3>1
  <2>8. ASSUME NEW i \in 1 .. Len(w) - 1
        PROVE  r2.next_sending[v[i]] = IF i = Len(w) - 1 THEN NO_TASK ELSE v[i + 1]
    <3>1. CASE i = m - 1
      <4>0. v[i] = prev
        BY <1>2, <1>5, <3>1 DEF prev
      <4>1. v[i] = prev /\ b[prev] = IF m = Len(w) THEN NO_TASK ELSE w[m + 1]
        BY <1>2, <1>3, <2>5, <4>0 DEF from
      <4>2. m # Len(w) => v[i + 1] = w[m + 1]
        BY <1>2, <1>5, <3>1
      <4>3. i = Len(w) - 1 <=> m = Len(w)
        BY <1>2, <3>1
      <4> QED BY <2>6, <4>1, <4>2, <4>3
    <3>2. CASE i < m - 1
      <4>1. /\ v[i] = w[i] /\ i \in 1 .. Len(w) /\ w[i] \in Proc /\ w[i] # prev /\ w[i] # from
            /\ i # Len(w) /\ i # Len(w) - 1 /\ v[i + 1] = w[i + 1]
        <5>1. /\ i \in 1 .. Len(w) /\ i < m /\ i + 1 < m /\ i # m - 1 /\ i # m
              /\ i # Len(w) /\ i # Len(w) - 1 /\ i + 1 \in 1 .. Len(w) - 1
          BY <1>6, <3>2
        <5>2. w[i] # w[m - 1] /\ w[i] # w[m]
          BY <1>2, <2>1, <5>1
        <5> QED BY <1>2, <1>5, <5>1, <5>2 DEF from, prev
      <4> QED BY <1>3, <2>5, <2>6, <4>1
    <3>3. CASE i > m - 1
      <4>1. v[i] = w[i + 1] /\ i + 1 \in 1 .. Len(w) /\ w[i + 1] \in Proc
        BY <1>2, <1>5, <3>3
      <4>2. w[i + 1] # prev /\ w[i + 1] # from
        BY <1>2, <2>1, <3>3, <4>1 DEF from, prev
      <4>3. b[v[i]] = IF i + 1 = Len(w) THEN NO_TASK ELSE w[(i + 1) + 1]
        BY <1>3, <2>5, <4>1, <4>2
      <4>4. i # Len(w) - 1 => v[i + 1] = w[(i + 1) + 1]
        <5>1. i # Len(w) - 1 => i + 1 \in 1 .. Len(w) - 1 /\ ~(i + 1 < m)
          BY <1>6, <3>3
        <5> QED BY <1>5, <5>1
      <4>5. i = Len(w) - 1 <=> i + 1 = Len(w)
        BY <1>2
      <4>6. r2.next_sending[v[i]] = b[v[i]]
        BY <2>6
      <4>7. CASE i = Len(w) - 1
        BY <4>3, <4>5, <4>6, <4>7
      <4>8. CASE i # Len(w) - 1
        BY <4>3, <4>4, <4>5, <4>6, <4>8
      <4> QED BY <4>7, <4>8
    <3>4. i = m - 1 \/ i < m - 1 \/ i > m - 1
      BY <1>6
    <3> QED BY <3>1, <3>2, <3>3, <3>4
  <2>9. IsList(r2, p, v)
    BY <1>4, <1>5, <1>7, <2>7, <2>8 DEF IsList
  <2>10. \A q \in Proc : (\A i \in DOMAIN w : w[i] # q) => q # from /\ q # prev
    BY <1>2, <2>1 DEF from, prev
  <2> QED BY <1>4, <2>5, <2>6, <2>9, <2>10 DEF v
<1> QED BY <1>9, <1>10

-----------------------------------------------------------------------------
(* What the operations do to the TCBs.                                     *)

\* The TCB of q but its links is the same in r and r2.
Same(r, r2, q) ==
  /\ r2.flags[q] = r.flags[q] /\ r2.recvfrom[q] = r.recvfrom[q] /\ r2.sendto[q] = r.sendto[q]
  /\ r2.message[q] = r.message[q] /\ r2.intr_present[q] = r.intr_present[q]
  /\ r2.blocked[q] = r.blocked[q]

\* Nothing but the TCB of p and the links may differ, ...
OnlyTouches(r, r2, p) ==
  /\ r2 \in State /\ r2.panic = r.panic
  /\ \A q \in Proc \ {p} : Same(r, r2, q)

\* ... or its panic, ...
Touches(r, r2, p) == r2 \in State /\ \A q \in Proc \ {p} : Same(r, r2, q)

\* ... nor the links.
SameLinks(r, r2) == r2.sending_queue = r.sending_queue /\ r2.next_sending = r.next_sending

\* The second is the weaker.
LEMMA TouchesOnly == ASSUME NEW r, NEW r2, NEW p, OnlyTouches(r, r2, p) PROVE Touches(r, r2, p)
BY DEF OnlyTouches, Touches

\* The end of thread_unblock and thread_auth_block.
LEMMA BlockedType ==
  ASSUME NEW r \in State, NEW p \in Proc, NEW b \in BOOLEAN, NEW r2, r2 = [r EXCEPT !.blocked[p] = b]
  PROVE  r2 \in State
<1> DEFINE g == [r.blocked EXCEPT ![p] = b]
<1>1. g \in [Proc -> BOOLEAN]
  BY DEF State
<1>2. r2 = [r EXCEPT !.blocked = g]
  OBVIOUS
<1> HIDE DEF g
<1> QED BY <1>1, <1>2 DEF State

\* msg_send to a process that waits for it.
LEMMA DeliverEffect ==
  ASSUME NEW r \in State, NEW sender, NEW dest \in Proc, NEW msg \in Message,
         r.message[dest].m_source # PID_0, r.blocked[dest], r.flags[dest] = {RECEIVING},
         NEW r2, r2 = deliver(r, sender, dest, msg)
  PROVE  /\ OnlyTouches(r, r2, dest) /\ SameLinks(r, r2)
         /\ r2.flags[dest] = {} /\ r2.recvfrom[dest] = NO_TASK /\ r2.sendto[dest] = r.sendto[dest]
         /\ r2.message[dest] = msg /\ ~r2.blocked[dest]
<1> DEFINE a == [r EXCEPT !.message[dest] = msg, !.flags[dest] = @ \ {RECEIVING}, !.recvfrom[dest] = NO_TASK]
<1>1. r2 = thread_unblock(a, dest)
  BY DEF deliver, ASSERT
<1>2. a.blocked[dest]
  BY DEF State
<1>3. r2 = [a EXCEPT !.blocked[dest] = FALSE]
  BY <1>1, <1>2 DEF thread_unblock, ASSERT
<1>4. /\ r2.flags = [r.flags EXCEPT ![dest] = r.flags[dest] \ {RECEIVING}]
      /\ r2.recvfrom = [r.recvfrom EXCEPT ![dest] = NO_TASK]
      /\ r2.sendto = r.sendto /\ r2.message = [r.message EXCEPT ![dest] = msg]
      /\ r2.intr_present = r.intr_present /\ r2.blocked = [r.blocked EXCEPT ![dest] = FALSE]
      /\ SameLinks(r, r2) /\ r2.panic = r.panic
  BY <1>3 DEF State, SameLinks
<1>5. r2 \in State
  <2>1. a \in State
    BY DEF State, Task
  <2>2. FALSE \in BOOLEAN
    OBVIOUS
  <2> HIDE DEF a
  <2> QED BY <1>3, <2>1, <2>2, BlockedType
<1> QED BY <1>4, <1>5 DEF OnlyTouches, Same, State

\* msg_receive that blocks.
LEMMA WaitEffect ==
  ASSUME NEW r \in State, NEW p \in Proc, NEW src \in Task, NEW msg \in Message,
         r.flags[p] = {}, NEW r2, r2 = wait_for(r, p, src, msg)
  PROVE  /\ OnlyTouches(r, r2, p) /\ SameLinks(r, r2)
         /\ r2.flags[p] = {RECEIVING} /\ r2.recvfrom[p] = src /\ r2.sendto[p] = r.sendto[p]
         /\ r2.message[p] = msg /\ r2.blocked[p]
<1>1. /\ r2.flags = [r.flags EXCEPT ![p] = r.flags[p] \cup {RECEIVING}]
      /\ r2.recvfrom = [r.recvfrom EXCEPT ![p] = src]
      /\ r2.sendto = r.sendto /\ r2.message = [r.message EXCEPT ![p] = msg]
      /\ r2.intr_present = r.intr_present /\ r2.blocked = [r.blocked EXCEPT ![p] = TRUE]
      /\ SameLinks(r, r2) /\ r2.panic = r.panic
  BY DEF wait_for, thread_auth_block, State, SameLinks
<1>2. r2 \in State
  BY DEF wait_for, thread_auth_block, State
<1> QED BY <1>1, <1>2 DEF OnlyTouches, Same, State

\* msg_receive that finds an interrupt.
LEMMA InterruptEffect ==
  ASSUME NEW r \in State, NEW p \in Proc, NEW r2, r2 = take_interrupt(r, p)
  PROVE  /\ OnlyTouches(r, r2, p) /\ SameLinks(r, r2)
         /\ r2.flags[p] = r.flags[p] /\ r2.recvfrom[p] = r.recvfrom[p]
         /\ r2.sendto[p] = r.sendto[p] /\ r2.message[p] = HardInt
         /\ r2.blocked[p] = r.blocked[p]
<1>1. HardInt \in Message
  BY DEF HardInt, Msg, Message, Task
<1> HIDE DEF HardInt
<1>2. /\ r2.flags = r.flags /\ r2.recvfrom = r.recvfrom /\ r2.sendto = r.sendto
      /\ r2.message = [r.message EXCEPT ![p] = HardInt]
      /\ r2.intr_present = [r.intr_present EXCEPT ![p] = FALSE] /\ r2.blocked = r.blocked
      /\ SameLinks(r, r2) /\ r2.panic = r.panic
  BY DEF take_interrupt, State, SameLinks
<1>3. r2 \in State
  BY <1>1 DEF take_interrupt, State
<1> QED BY <1>2, <1>3 DEF OnlyTouches, Same, State

\* notify_intr to a process that waits for an interrupt.
LEMMA WakeEffect ==
  ASSUME NEW r \in State, NEW p \in Proc, r.flags[p] = {RECEIVING}, r.blocked[p],
         NEW r2, r2 = notify_wake(r, p)
  PROVE  /\ OnlyTouches(r, r2, p) /\ SameLinks(r, r2)
         /\ r2.flags[p] = {} /\ r2.recvfrom[p] = NO_TASK /\ r2.sendto[p] = r.sendto[p]
         /\ r2.message[p] = HardInt /\ ~r2.blocked[p]
<1> DEFINE a == [r EXCEPT !.message[p] = HardInt, !.intr_present[p] = FALSE,
                          !.flags[p] = @ \ {RECEIVING}, !.recvfrom[p] = NO_TASK]
<1>1. r2 = thread_unblock(a, p)
  BY DEF notify_wake, ASSERT
<1>2. a.blocked[p]
  BY DEF State
<1>3. r2 = [a EXCEPT !.blocked[p] = FALSE]
  BY <1>1, <1>2 DEF thread_unblock, ASSERT
<1>4. HardInt \in Message
  BY DEF HardInt, Msg, Message, Task
<1>5. /\ r2.flags = [r.flags EXCEPT ![p] = r.flags[p] \ {RECEIVING}]
      /\ r2.recvfrom = [r.recvfrom EXCEPT ![p] = NO_TASK]
      /\ r2.sendto = r.sendto /\ r2.message = [r.message EXCEPT ![p] = HardInt]
      /\ r2.intr_present = [r.intr_present EXCEPT ![p] = FALSE]
      /\ r2.blocked = [r.blocked EXCEPT ![p] = FALSE]
      /\ SameLinks(r, r2) /\ r2.panic = r.panic
  BY <1>3 DEF State, SameLinks
<1>6. r2 \in State
  <2>1. a \in State
    BY <1>4 DEF State, Task
  <2>2. FALSE \in BOOLEAN
    OBVIOUS
  <2> HIDE DEF a
  <2> QED BY <1>3, <2>1, <2>2, BlockedType
<1> QED BY <1>5, <1>6 DEF OnlyTouches, Same, State

\* notify_intr to a process that does not wait for an interrupt.
LEMMA NotifyEffect ==
  ASSUME NEW r \in State, NEW p \in Proc,
         ~(RECEIVING \in r.flags[p] /\ r.recvfrom[p] \in {INTR_TASK, ANY_TASK}),
         NEW r2, r2 = notify_intr(r, p)
  PROVE  /\ OnlyTouches(r, r2, p) /\ SameLinks(r, r2)
         /\ r2.flags[p] = r.flags[p] /\ r2.recvfrom[p] = r.recvfrom[p]
         /\ r2.sendto[p] = r.sendto[p] /\ r2.message[p] = r.message[p]
         /\ r2.blocked[p] = r.blocked[p]
<1>1. r2 = [r EXCEPT !.intr_present[p] = TRUE]
  BY DEF notify_intr
<1>2. /\ r2.flags = r.flags /\ r2.recvfrom = r.recvfrom /\ r2.sendto = r.sendto
      /\ r2.message = r.message /\ r2.intr_present = [r.intr_present EXCEPT ![p] = TRUE]
      /\ r2.blocked = r.blocked /\ SameLinks(r, r2) /\ r2.panic = r.panic
  BY <1>1 DEF State, SameLinks
<1>3. r2 \in State
  <2> DEFINE g == [r.intr_present EXCEPT ![p] = TRUE]
  <2>1. g \in [Proc -> BOOLEAN]
    BY DEF State
  <2>2. r2 = [r EXCEPT !.intr_present = g]
    BY <1>1
  <2> HIDE DEF g
  <2> QED BY <2>1, <2>2 DEF State
<1> QED BY <1>2, <1>3 DEF OnlyTouches, Same, State

\* A queue that a step does not change.
LEMMA QueueKept ==
  ASSUME NEW r, NEW r2, NEW p \in Proc, NEW v, IsQueue(r, p, v),
         r2.sending_queue[p] = r.sending_queue[p],
         \A q \in Proc : Sends(r, q, p) => r2.next_sending[q] = r.next_sending[q],
         \A q \in Proc : Sends(r2, q, p) <=> Sends(r, q, p)
  PROVE  IsQueue(r2, p, v)
<1>1. \A i \in DOMAIN v : v[i] \in Proc /\ Sends(r, v[i], p)
  BY DEF IsQueue, IsList
<1>2. \A i \in DOMAIN v : r2.next_sending[v[i]] = r.next_sending[v[i]]
  BY <1>1
<1>3. IsList(r2, p, v)
  BY <1>2 DEF IsQueue, IsList
<1> QED BY <1>3 DEF IsQueue

\* msg_send to a process that does not wait for it.
LEMMA EnqueueEffect ==
  ASSUME NEW r \in State, NEW sender \in Proc, NEW dest \in Proc, NEW msg \in Message,
         r.flags[sender] = {}, NEW w, IsQueue(r, dest, w),
         NEW r2, r2 = enqueue(r, sender, dest, msg)
  PROVE  /\ OnlyTouches(r, r2, sender)
         /\ r2.flags[sender] = {SENDING} /\ r2.recvfrom[sender] = r.recvfrom[sender]
         /\ r2.sendto[sender] = dest /\ r2.message[sender] = msg /\ r2.blocked[sender]
         /\ IsQueue(r2, dest, Append(w, sender))
         /\ \A p \in Proc \ {dest} : \A v : IsQueue(r, p, v) => IsQueue(r2, p, v)
<1> DEFINE a == [r EXCEPT !.flags[sender] = @ \cup {SENDING}, !.sendto[sender] = dest,
                          !.message[sender] = msg]
           b == append_sender(a, sender, dest)
<1>1. r2 = [b EXCEPT !.blocked[sender] = TRUE]
  BY DEF enqueue, ASSERT, thread_auth_block
<1>2. a \in State
  BY DEF State, Task
<1>3. /\ a.flags = [r.flags EXCEPT ![sender] = r.flags[sender] \cup {SENDING}]
      /\ a.recvfrom = r.recvfrom /\ a.sendto = [r.sendto EXCEPT ![sender] = dest]
      /\ a.message = [r.message EXCEPT ![sender] = msg] /\ a.intr_present = r.intr_present
      /\ a.blocked = r.blocked /\ SameLinks(r, a) /\ a.panic = r.panic
  BY DEF State, SameLinks
<1> HIDE DEF a, b
<1>4. /\ w \in Seq(Proc) /\ \A i \in DOMAIN w : w[i] \in Proc /\ Sends(r, w[i], dest)
      /\ IsList(r, dest, w)
  BY DEF IsQueue, IsList
<1>5. IsList(a, dest, w) /\ \A i \in DOMAIN w : w[i] # sender
  BY <1>3, <1>4 DEF IsList, SameLinks, Sends
<1>6. /\ SameButLinks(a, b) /\ IsList(b, dest, Append(w, sender))
      /\ \A p \in Proc \ {dest} : b.sending_queue[p] = a.sending_queue[p]
      /\ \A q \in Proc \ {sender} : (\A i \in DOMAIN w : w[i] # q) =>
           b.next_sending[q] = a.next_sending[q]
  <2>1. b = append_sender(a, sender, dest)
    BY DEF b
  <2> QED BY <1>2, <1>5, <2>1, AppendEffect
<1>7. r2 \in State
  <2>1. TRUE \in BOOLEAN /\ b \in State
    BY <1>6 DEF SameButLinks
  <2> QED BY <1>1, <2>1, BlockedType
<1>8. /\ r2.flags = b.flags /\ r2.recvfrom = b.recvfrom /\ r2.sendto = b.sendto
      /\ r2.message = b.message /\ r2.intr_present = b.intr_present
      /\ r2.blocked = [b.blocked EXCEPT ![sender] = TRUE] /\ SameLinks(b, r2) /\ r2.panic = b.panic
  BY <1>1, <1>6 DEF State, SameLinks, SameButLinks
<1>9. /\ r2.flags = [r.flags EXCEPT ![sender] = r.flags[sender] \cup {SENDING}]
      /\ r2.recvfrom = r.recvfrom /\ r2.sendto = [r.sendto EXCEPT ![sender] = dest]
      /\ r2.message = [r.message EXCEPT ![sender] = msg] /\ r2.intr_present = r.intr_present
      /\ r2.blocked = [r.blocked EXCEPT ![sender] = TRUE] /\ r2.panic = r.panic
  BY <1>3, <1>6, <1>8 DEF SameButLinks
<1>10. /\ OnlyTouches(r, r2, sender)
       /\ r2.flags[sender] = {SENDING} /\ r2.recvfrom[sender] = r.recvfrom[sender]
       /\ r2.sendto[sender] = dest /\ r2.message[sender] = msg /\ r2.blocked[sender]
  BY <1>7, <1>9 DEF OnlyTouches, Same, State
<1>11. \A q \in Proc \ {sender}, p \in Proc : Sends(r2, q, p) <=> Sends(r, q, p)
  BY <1>10 DEF Sends, OnlyTouches, Same
<1>12. \A p \in Proc : ~Sends(r, sender, p) /\ (Sends(r2, sender, p) <=> p = dest)
  BY <1>10 DEF Sends
<1>13. IsQueue(r2, dest, Append(w, sender))
  <2>1. IsList(r2, dest, Append(w, sender))
    BY <1>6, <1>8 DEF IsList, SameLinks
  <2> DEFINE v == Append(w, sender)
  <2>2. Len(w) \in Nat /\ DOMAIN w = 1 .. Len(w)
    BY <1>4
  <2>3. /\ DOMAIN v = 1 .. Len(w) + 1
        /\ v[Len(w) + 1] = sender /\ \A i \in 1 .. Len(w) : v[i] = w[i]
    BY <1>4
  <2> HIDE DEF v
  <2>4. \A q \in Proc : (\E i \in DOMAIN v : v[i] = q) <=> q = sender \/ \E i \in DOMAIN w : w[i] = q
    BY <2>2, <2>3
  <2>5. \A q \in Proc : Sends(r2, q, dest) <=> \E i \in DOMAIN v : v[i] = q
    BY <1>11, <1>12, <2>4 DEF IsQueue
  <2> QED BY <2>1, <2>5 DEF IsQueue, v
<1>14. ASSUME NEW p \in Proc \ {dest}, NEW v, IsQueue(r, p, v) PROVE IsQueue(r2, p, v)
  <2>1. r2.sending_queue[p] = r.sending_queue[p]
    BY <1>3, <1>6, <1>8 DEF SameLinks
  <2>2. ASSUME NEW q \in Proc, Sends(r, q, p) PROVE r2.next_sending[q] = r.next_sending[q]
    <3>1. q # sender /\ \A i \in DOMAIN w : w[i] # q
      BY <1>4, <1>12, <2>2 DEF Sends
    <3> QED BY <1>3, <1>6, <1>8, <3>1 DEF SameLinks
  <2>3. \A q \in Proc : Sends(r2, q, p) <=> Sends(r, q, p)
    BY <1>11, <1>12
  <2> QED BY <1>14, <2>1, <2>2, <2>3, QueueKept
<1> QED BY <1>10, <1>13, <1>14

\* from is the m-th in the queue w of p, which is about to receive, ...
IsNext(r, p, w, m, from) ==
  /\ r \in State /\ p \in Proc /\ r.flags[p] = {} /\ IsQueue(r, p, w)
  /\ m \in DOMAIN w /\ from \in Proc /\ w[m] = from
  /\ r.flags[from] = {SENDING} /\ r.blocked[from] /\ r.message[from].m_source # PID_0

\* ... and from is served: it goes on, and no other queue changes.
Served(r, r2, p, w, m, from) ==
  /\ OnlyTouches(r, r2, from)
  /\ r2.flags[from] = {} /\ r2.recvfrom[from] = r.recvfrom[from]
  /\ r2.sendto[from] = NO_TASK /\ ~r2.blocked[from]
  /\ WithoutAt(w, m, RemoveAt(w, m)) /\ IsQueue(r2, p, RemoveAt(w, m))
  /\ \A q \in Proc \ {p} : \A v : IsQueue(r, q, v) => IsQueue(r2, q, v)

\* msg_receive that takes the message of a sender.
LEMMA TakeEffect ==
  ASSUME NEW r, NEW p, NEW src, NEW w, NEW m, NEW from, IsNext(r, p, w, m, from),
         NEW r2, r2 = take(r, p, src, from)
  PROVE  Served(r, r2, p, w, m, from)
<1> DEFINE a == unlink(r, p, from)
           b == [a EXCEPT !.message[from] = ResetMsg, !.sendto[from] = NO_TASK,
                          !.flags[from] = @ \ {SENDING}]
<1>0. /\ r \in State /\ p \in Proc /\ r.flags[p] = {} /\ IsQueue(r, p, w)
      /\ m \in DOMAIN w /\ from \in Proc /\ w[m] = from
      /\ r.flags[from] = {SENDING} /\ r.blocked[from] /\ r.message[from].m_source # PID_0
  BY DEF IsNext
<1>1. /\ w \in Seq(Proc) /\ Len(w) \in Nat /\ DOMAIN w = 1 .. Len(w) /\ w # << >>
      /\ \A i \in DOMAIN w : w[i] \in Proc /\ Sends(r, w[i], p)
      /\ IsList(r, p, w) /\ \A i, j \in DOMAIN w : w[i] = w[j] => i = j
  BY <1>0 DEF IsQueue, IsList, IsInjective
<1>2. from \in Proc /\ r.sending_queue[p] # NO_TASK
  <2>1. w[1] \in Proc /\ r.sending_queue[p] = w[1]
    BY <1>0, <1>1 DEF IsList
  <2> QED BY <1>0, <1>1, <2>1, Tasks
<1>3. r2 = thread_unblock(b, from)
  BY <1>0, <1>2 DEF take, ASSERT
<1>4. /\ SameButLinks(r, a)
      /\ RemoveAt(w, m) \in Seq(Proc) /\ WithoutAt(w, m, RemoveAt(w, m))
      /\ IsList(a, p, RemoveAt(w, m))
      /\ \A q \in Proc \ {p} : a.sending_queue[q] = r.sending_queue[q]
      /\ \A q \in Proc : (\A i \in DOMAIN w : w[i] # q) => a.next_sending[q] = r.next_sending[q]
  <2>1. a = unlink(r, p, w[m])
    BY <1>0
  <2>2. IsList(r, p, w)
    BY <1>0, <1>1
  <2> HIDE DEF a, b
  <2> QED BY <1>0, <2>1, <2>2, UnlinkEffect
<1> HIDE DEF a
<1>5. ResetMsg \in Message /\ NO_TASK \in Task /\ a \in State
  BY <1>0, <1>4 DEF ResetMsg, Msg, Message, Task, SameButLinks
<1>6. b \in State
  BY <1>0, <1>2, <1>5 DEF State
<1>7. /\ b.flags = [a.flags EXCEPT ![from] = a.flags[from] \ {SENDING}]
      /\ b.recvfrom = a.recvfrom /\ b.sendto = [a.sendto EXCEPT ![from] = NO_TASK]
      /\ b.message = [a.message EXCEPT ![from] = ResetMsg] /\ b.intr_present = a.intr_present
      /\ b.blocked = a.blocked /\ SameLinks(a, b) /\ b.panic = a.panic
  BY <1>0, <1>5 DEF State, SameLinks
<1> HIDE DEF b
<1>8. r2 = [b EXCEPT !.blocked[from] = FALSE]
  <2>1. b.blocked[from]
    BY <1>0, <1>4, <1>7 DEF SameButLinks
  <2> QED BY <1>0, <1>3, <2>1 DEF thread_unblock, ASSERT
<1>9. r2 \in State
  <2>1. FALSE \in BOOLEAN
    BY <1>0
  <2> QED BY <1>0, <1>2, <1>6, <1>8, <2>1, BlockedType
<1>10. /\ r2.flags = b.flags /\ r2.recvfrom = b.recvfrom /\ r2.sendto = b.sendto
       /\ r2.message = b.message /\ r2.intr_present = b.intr_present
       /\ r2.blocked = [b.blocked EXCEPT ![from] = FALSE] /\ SameLinks(b, r2) /\ r2.panic = b.panic
  BY <1>0, <1>6, <1>8 DEF State, SameLinks
<1>11. /\ r2.flags = [r.flags EXCEPT ![from] = r.flags[from] \ {SENDING}]
       /\ r2.recvfrom = r.recvfrom /\ r2.sendto = [r.sendto EXCEPT ![from] = NO_TASK]
       /\ r2.message = [r.message EXCEPT ![from] = ResetMsg] /\ r2.intr_present = r.intr_present
       /\ r2.blocked = [r.blocked EXCEPT ![from] = FALSE] /\ r2.panic = r.panic
  BY <1>0, <1>4, <1>7, <1>10 DEF SameButLinks
<1>12. /\ OnlyTouches(r, r2, from)
       /\ r2.flags[from] = {} /\ r2.recvfrom[from] = r.recvfrom[from]
       /\ r2.sendto[from] = NO_TASK /\ ~r2.blocked[from]
  <2> QED BY <1>0, <1>2, <1>9, <1>11 DEF OnlyTouches, Same, State
<1>13. \A q \in Proc \ {from}, d \in Proc : Sends(r2, q, d) <=> Sends(r, q, d)
  BY <1>0, <1>12 DEF Sends, OnlyTouches, Same
<1>14. \A d \in Proc : ~Sends(r2, from, d) /\ (Sends(r, from, d) => d = p)
  BY <1>0, <1>1, <1>12 DEF Sends
<1>15. IsQueue(r2, p, RemoveAt(w, m))
  <2> DEFINE v == RemoveAt(w, m)
  <2>1. IsList(r2, p, v)
    BY <1>0, <1>4, <1>7, <1>10 DEF IsList, SameLinks
  <2>2. /\ DOMAIN v = 1 .. Len(w) - 1
        /\ \A i \in 1 .. Len(w) - 1 : v[i] = IF i < m THEN w[i] ELSE w[i + 1]
    BY <1>0, <1>1, <1>4 DEF WithoutAt
  <2> HIDE DEF v
  <2>3. ASSUME NEW q \in Proc, NEW i \in DOMAIN v, v[i] = q PROVE Sends(r2, q, p)
    <3> DEFINE j == IF i < m THEN i ELSE i + 1
    <3>1. j \in DOMAIN w /\ j # m /\ w[j] = q
      BY <1>0, <1>1, <2>2, <2>3
    <3>2. q # from
      BY <1>0, <1>1, <3>1
    <3> QED BY <1>0, <1>1, <1>13, <3>1, <3>2
  <2>4. ASSUME NEW q \in Proc, Sends(r2, q, p) PROVE \E i \in DOMAIN v : v[i] = q
    <3>1. q # from /\ Sends(r, q, p)
      BY <1>0, <1>13, <1>14, <2>4
    <3>2. PICK j \in DOMAIN w : w[j] = q
      BY <1>0, <3>1 DEF IsQueue
    <3>3. j # m
      BY <1>0, <3>1, <3>2
    <3> DEFINE i == IF j < m THEN j ELSE j - 1
    <3>4. i \in DOMAIN v /\ v[i] = q
      BY <1>0, <1>1, <2>2, <3>2, <3>3
    <3> QED BY <1>0, <3>4
  <2> QED BY <1>0, <2>1, <2>3, <2>4 DEF IsQueue, v
<1>16. ASSUME NEW q \in Proc \ {p}, NEW v, IsQueue(r, q, v) PROVE IsQueue(r2, q, v)
  <2>1. r2.sending_queue[q] = r.sending_queue[q]
    BY <1>0, <1>4, <1>7, <1>10 DEF SameLinks
  <2>2. ASSUME NEW t \in Proc, Sends(r, t, q) PROVE r2.next_sending[t] = r.next_sending[t]
    <3>1. \A i \in DOMAIN w : w[i] # t
      BY <1>0, <1>1, <2>2 DEF Sends
    <3> QED BY <1>0, <1>4, <1>7, <1>10, <3>1 DEF SameLinks
  <2>3. \A t \in Proc : Sends(r2, t, q) <=> Sends(r, t, q)
    BY <1>0, <1>13, <1>14
  <2> QED BY <1>0, <1>16, <2>1, <2>2, <2>3, QueueKept
<1> QED BY <1>0, <1>4, <1>12, <1>15, <1>16 DEF Served

-----------------------------------------------------------------------------
(* The invariant but its part on the messages, step by step.               *)

ShapeInv == TypeOK /\ FlagsFit /\ Acyclic(s) /\ Queues(s) /\ CallsFit /\ OnlyDeadlocksPanic

\* FlagsFit and CallsFit for one process.
FlagsOf(p) ==
  /\ s.flags[p] \in {{}, {SENDING}, {RECEIVING}}
  /\ s.blocked[p] <=> s.flags[p] # {}
  /\ IF s.flags[p] = {SENDING} THEN s.sendto[p] \in Proc \ {p} ELSE s.sendto[p] \in Nobody
  /\ s.recvfrom[p] \notin Nobody <=> s.flags[p] = {RECEIVING}

CallOf(p) ==
  /\ pc[p] = "user" => s.flags[p] = {}
  /\ pc[p] \in {"send", "both"} => s.flags[p] # {RECEIVING} /\ sent[p] # << >>
  /\ pc[p] = "both" => peer[p] \in Proc \ {p}
  /\ pc[p] = "receive" => s.flags[p] # {SENDING}
  /\ s.flags[p] = {SENDING} =>
       s.message[p] = Msg(p, Len(sent[p])) /\ s.sendto[p] = sent[p][Len(sent[p])]
  /\ s.flags[p] = {RECEIVING} => s.message[p].m_source = p
  /\ \A n \in DOMAIN sent[p] : sent[p][n] # p

\* The two forms say the same.
LEMMA OneByOne ==
  /\ FlagsFit <=> \A p \in Proc : FlagsOf(p)
  /\ CallsFit <=> \A p \in Proc : CallOf(p)
BY DEF FlagsFit, FlagsOf, CallsFit, CallOf

\* Nothing of q that FlagsOf and CallOf speak of changes.
StaysPut(q) == Same(s, s', q) /\ pc'[q] = pc[q] /\ peer'[q] = peer[q] /\ sent'[q] = sent[q]

\* So both still hold of it.
LEMMA Stays ==
  ASSUME NEW q \in Proc, FlagsOf(q), CallOf(q), StaysPut(q)
  PROVE  FlagsOf(q)' /\ CallOf(q)'
BY DEF FlagsOf, CallOf, StaysPut, Same

\* Messages are pairs.
LEMMA MsgFields ==
  ASSUME NEW p \in Task, NEW n \in Nat
  PROVE  Msg(p, n) \in Message /\ Msg(p, n).m_source = p /\ Msg(p, n).n = n
BY DEF Msg, Message

\* A message is its sender and its number.
LEMMA MsgOf ==
  ASSUME NEW m \in Message
  PROVE  m = Msg(m.m_source, m.n) /\ m.m_source \in Task /\ m.n \in Nat
BY DEF Msg, Message

\* Queues with and without the bound on their length.
LEMMA QueuesAre ==
  ASSUME NEW r
  PROVE  Queues(r) <=> \A q \in Proc : \E w : IsQueue(r, q, w)
<1>1. ASSUME NEW q \in Proc, NEW w, IsQueue(r, q, w)
      PROVE  \E n \in Hops : \E v \in [1 .. n -> Proc] : IsQueue(r, q, v)
  <2>1. w \in Seq(Proc) /\ IsInjective(w)
    BY <1>1 DEF IsQueue, IsList
  <2>2. Len(w) \in Hops /\ w \in [1 .. Len(w) -> Proc]
    BY <2>1, QueueFits
  <2> QED BY <1>1, <2>2
<1> QED BY <1>1 DEF Queues

\* Without new senders there are no new circles, ...
LEMMA FewerSends ==
  ASSUME NEW r, Acyclic(r), NEW r2, \A q, d \in Proc : Sends(r2, q, d) => Sends(r, q, d)
  PROVE  Acyclic(r2)
<1> SUFFICES ASSUME NEW S \in SUBSET Proc, S # {}
             PROVE  \E p \in S : \A q \in S : ~Sends(r2, p, q)
  BY DEF Acyclic
<1>1. PICK p \in S : \A q \in S : ~Sends(r, p, q)
  BY DEF Acyclic
<1> QED BY <1>1

\* ... and no other queues.
LEMMA SameSends ==
  ASSUME NEW r, Acyclic(r), Queues(r), NEW r2, SameLinks(r, r2),
         \A q, d \in Proc : Sends(r2, q, d) <=> Sends(r, q, d)
  PROVE  Acyclic(r2) /\ Queues(r2) /\ \A p \in Proc : \A w : IsQueue(r, p, w) => IsQueue(r2, p, w)
<1>1. Acyclic(r2)
  BY FewerSends
<1>2. ASSUME NEW p \in Proc, NEW w, IsQueue(r, p, w) PROVE IsQueue(r2, p, w)
  <2>1. /\ r2.sending_queue[p] = r.sending_queue[p]
        /\ \A q \in Proc : Sends(r, q, p) => r2.next_sending[q] = r.next_sending[q]
    BY DEF SameLinks
  <2> QED BY <1>2, <2>1, QueueKept
<1> QED BY <1>1, <1>2, QueuesAre

\* A process that runs neither sends nor receives.
LEMMA RunnerIdle ==
  ASSUME ShapeInv, NEW p \in Proc, ~s.blocked[p]
  PROVE  s.flags[p] = {} /\ s.sendto[p] \in Nobody /\ s.recvfrom[p] \in Nobody /\ ~s.blocked[p]
<1>1. FlagsOf(p)
  BY OneByOne DEF ShapeInv
<1> QED BY <1>1 DEF FlagsOf

\* How sent and got grow.
LEMMA LogEffect ==
  ASSUME TypeOK, NEW p \in Proc, NEW d \in Proc, Log(p, d)
  PROVE  /\ sent' \in [Proc -> Seq(Proc)] /\ sent'[p] = Append(sent[p], d)
         /\ \A q \in Proc \ {p} : sent'[q] = sent[q]
         /\ sent[p] \in Seq(Proc) /\ Len(sent[p]) \in Nat /\ DOMAIN sent[p] = 1 .. Len(sent[p])
         /\ Len(sent'[p]) = Len(sent[p]) + 1 /\ sent'[p] # << >>
         /\ DOMAIN sent'[p] = 1 .. Len(sent[p]) + 1 /\ sent'[p][Len(sent[p]) + 1] = d
         /\ \A n \in 1 .. Len(sent[p]) : sent'[p][n] = sent[p][n]
<1>1. sent \in [Proc -> Seq(Proc)] /\ sent[p] \in Seq(Proc)
  BY DEF TypeOK
<1>2. sent' = [sent EXCEPT ![p] = Append(sent[p], d)]
  BY DEF Log
<1>3. sent'[p] = Append(sent[p], d) /\ sent' \in [Proc -> Seq(Proc)] /\ \A q \in Proc \ {p} : sent'[q] = sent[q]
  BY <1>1, <1>2
<1>4. /\ Len(sent[p]) \in Nat /\ Len(sent'[p]) = Len(sent[p]) + 1 /\ sent'[p] # << >>
      /\ DOMAIN sent[p] = 1 .. Len(sent[p]) /\ DOMAIN sent'[p] = 1 .. Len(sent[p]) + 1
      /\ sent'[p][Len(sent[p]) + 1] = d /\ \A n \in 1 .. Len(sent[p]) : sent'[p][n] = sent[p][n]
  <2> DEFINE a == sent[p]
             b == sent'[p]
  <2>1. a \in Seq(Proc) /\ b = Append(a, d)
    BY <1>1, <1>3
  <2> HIDE DEF a, b
  <2>2. /\ Len(a) \in Nat /\ Len(b) = Len(a) + 1 /\ b # << >>
        /\ DOMAIN a = 1 .. Len(a) /\ DOMAIN b = 1 .. Len(a) + 1
        /\ b[Len(a) + 1] = d /\ \A n \in 1 .. Len(a) : b[n] = a[n]
    BY <2>1, AppendFields
  <2> QED BY <2>2 DEF a, b
<1> QED BY <1>1, <1>3, <1>4

\* The parts of ShapeInv', collected.
LEMMA ShapeFrom ==
  ASSUME TypeOK', \A q \in Proc : FlagsOf(q)' /\ CallOf(q)', Acyclic(s'), Queues(s'), OnlyDeadlocksPanic'
  PROVE  ShapeInv'
<1>1. FlagsFit' /\ CallsFit'
  BY DEF FlagsFit, FlagsOf, CallsFit, CallOf
<1> QED BY <1>1 DEF ShapeInv, Acyclic, Queues, IsQueue, IsList, Sends

\* A message is put in the queue of its addressee.
LEMMA EnqueueShape ==
  ASSUME ShapeInv, NEW p \in Proc, NEW d \in Proc, p # d, ~s.blocked[p], s.panic = "none", ~detect_cycle(s, p, d),
         s' = enqueue(s, p, d, Msg(p, Number(p))), Log(p, d),
         NEW x \in {"send", "both"}, pc' = [pc EXCEPT ![p] = x],
         peer' \in {peer, [peer EXCEPT ![p] = d]}, x = "both" => peer'[p] = d,
         got' = got
  PROVE  ShapeInv'
<1> DEFINE msg == Msg(p, Number(p))
<1>1. TypeOK /\ s \in State /\ pc \in [Proc -> {"user", "send", "both", "receive"}] /\ peer \in [Proc -> Task]
  BY DEF ShapeInv, TypeOK
<1>2. s.flags[p] = {} /\ s.sendto[p] \in Nobody /\ s.recvfrom[p] \in Nobody
  BY RunnerIdle
<1>3. /\ sent' \in [Proc -> Seq(Proc)] /\ \A q \in Proc \ {p} : sent'[q] = sent[q]
      /\ Len(sent[p]) \in Nat /\ DOMAIN sent[p] = 1 .. Len(sent[p])
      /\ Len(sent'[p]) = Len(sent[p]) + 1 /\ sent'[p] # << >>
      /\ DOMAIN sent'[p] = 1 .. Len(sent[p]) + 1 /\ sent'[p][Len(sent[p]) + 1] = d
      /\ \A n \in 1 .. Len(sent[p]) : sent'[p][n] = sent[p][n]
  BY <1>1, LogEffect
<1>4. msg \in Message /\ msg = Msg(p, Len(sent'[p]))
  <2>1. Number(p) = Len(sent'[p]) /\ Number(p) \in Nat /\ p \in Task
    BY <1>3 DEF Number, Task
  <2> QED BY <2>1, MsgFields
<1>5. PICK w : IsQueue(s, d, w)
  BY QueuesAre DEF ShapeInv
<1>6. s' = enqueue(s, p, d, msg)
  OBVIOUS
<1> HIDE DEF msg
<1>7. /\ OnlyTouches(s, s', p)
      /\ s'.flags[p] = {SENDING} /\ s'.recvfrom[p] = s.recvfrom[p]
      /\ s'.sendto[p] = d /\ s'.message[p] = msg /\ s'.blocked[p]
      /\ IsQueue(s', d, Append(w, p))
      /\ \A q \in Proc \ {d} : \A v : IsQueue(s, q, v) => IsQueue(s', q, v)
  BY <1>1, <1>2, <1>4, <1>5, <1>6, EnqueueEffect
<1>8. TypeOK'
  <2>1. peer' \in [Proc -> Task]
    BY <1>1 DEF Task
  <2>2. pc' \in [Proc -> {"user", "send", "both", "receive"}]
    BY <1>1
  <2>3. s' \in State /\ got \in [Proc -> Seq(Message)]
    BY <1>1, <1>7 DEF OnlyTouches, TypeOK
  <2> QED BY <1>3, <2>1, <2>2, <2>3 DEF TypeOK
<1>9. ASSUME NEW q \in Proc PROVE FlagsOf(q)' /\ CallOf(q)'
  <2>0. FlagsOf(q) /\ CallOf(q)
    BY OneByOne DEF ShapeInv
  <2>1. CASE q # p
    <3>1. StaysPut(q)
      BY <1>1, <1>3, <1>7, <2>1 DEF StaysPut, OnlyTouches
    <3> QED BY <2>0, <3>1, Stays
  <2>2. CASE q = p
    <3>1. FlagsOf(p)'
      BY <1>2, <1>7 DEF FlagsOf, SENDING, RECEIVING
    <3>2. pc'[p] = x /\ s'.message[p] = Msg(p, Len(sent'[p])) /\ s'.sendto[p] = sent'[p][Len(sent'[p])]
      BY <1>1, <1>3, <1>4, <1>7
    <3>3. \A n \in DOMAIN sent'[p] : sent'[p][n] # p
      <4>1. \A n \in 1 .. Len(sent[p]) : sent[p][n] # p
        BY <1>3, <2>0, <2>2 DEF CallOf
      <4>2. \A n \in 1 .. Len(sent[p]) + 1 : n = Len(sent[p]) + 1 \/ n \in 1 .. Len(sent[p])
        BY <1>3, OneMore
      <4> QED BY <1>3, <4>1, <4>2
    <3>4. x = "both" => peer'[p] \in Proc \ {p}
      OBVIOUS
    <3>5. CallOf(p)'
      BY <1>3, <1>7, <3>2, <3>3, <3>4 DEF CallOf, SENDING, RECEIVING
    <3> QED BY <2>2, <3>1, <3>5
  <2> QED BY <2>1, <2>2
<1>10. Acyclic(s')
  <2>1. Edges(s) /\ Acyclic(s)
    BY <1>1 DEF Edges, State, ShapeInv
  <2>2. \A q \in Proc \ {p}, e \in Proc : Sends(s', q, e) => Sends(s, q, e)
    BY <1>7 DEF OnlyTouches, Same, Sends
  <2>3. \A e \in Proc : Sends(s', p, e) => e = d
    BY <1>7 DEF Sends
  <2> QED BY <2>1, <2>2, <2>3, SendKeepsAcyclic
<1>11. Queues(s')
  <2>1. \A q \in Proc : \E v : IsQueue(s', q, v)
    BY <1>7, QueuesAre DEF ShapeInv
  <2> QED BY <2>1, QueuesAre
<1>12. OnlyDeadlocksPanic'
  BY <1>7 DEF OnlyDeadlocksPanic, OnlyTouches
<1> QED BY <1>8, <1>9, <1>10, <1>11, <1>12, ShapeFrom

\* The TCB of a process that waits for a message from src in r2.
Receives(r, r2, p, src, msg) ==
  /\ r2.flags[p] = {RECEIVING} /\ r2.recvfrom[p] = src /\ r2.sendto[p] = r.sendto[p]
  /\ r2.message[p] = msg /\ r2.blocked[p]

\* The TCB of a process that a message has woken.
Woken(r, r2, d, msg) ==
  /\ r2.flags[d] = {} /\ r2.recvfrom[d] = NO_TASK /\ r2.sendto[d] = r.sendto[d]
  /\ r2.message[d] = msg /\ ~r2.blocked[d]

\* p hands msg to d; then it goes on, or waits for an answer.
HandOver(p, d, msg) ==
  /\ s' \in State /\ s'.panic = s.panic /\ SameLinks(s, s')
  /\ \A q \in Proc \ {p, d} : Same(s, s', q)
  /\ Woken(s, s', d, msg)
  /\ \/ Same(s, s', p) /\ pc' = [pc EXCEPT ![p] = "user"] /\ peer' = peer
     \/ /\ Receives(s, s', p, d, msg)
        /\ pc' = [pc EXCEPT ![p] = "receive"] /\ peer' = [peer EXCEPT ![p] = d]

\* Who expects a message is blocked, receiving.
LEMMA Expecting ==
  ASSUME ShapeInv, NEW p \in Proc, NEW d \in Proc, Expects(s, d, p)
  PROVE  /\ s.flags[d] = {RECEIVING} /\ s.blocked[d] /\ s.message[d].m_source = d
         /\ d # PID_0 /\ pc[d] = "receive" /\ s.sendto[d] \in Nobody
<1>1. FlagsOf(d) /\ CallOf(d) /\ pc[d] \in {"user", "send", "both", "receive"}
  BY OneByOne DEF ShapeInv, TypeOK
<1>2. s.recvfrom[d] \notin Nobody /\ d # PID_0
  BY Tasks DEF Expects, Nobody
<1>3. s.flags[d] = {RECEIVING}
  BY <1>1, <1>2 DEF FlagsOf
<1> QED BY <1>1, <1>2, <1>3 DEF FlagsOf, CallOf, SENDING, RECEIVING

\* A message is handed to a process that waits for it.
LEMMA HandOverShape ==
  ASSUME ShapeInv, NEW p \in Proc, NEW d \in Proc, p # d, ~s.blocked[p], s.panic = "none", Expects(s, d, p),
         HandOver(p, d, Msg(p, Number(p))), Log(p, d), got' = got
  PROVE  ShapeInv'
<1> DEFINE msg == Msg(p, Number(p))
<1>1. TypeOK /\ s \in State /\ pc \in [Proc -> {"user", "send", "both", "receive"}] /\ peer \in [Proc -> Task]
  BY DEF ShapeInv, TypeOK
<1>2. s.flags[p] = {} /\ s.sendto[p] \in Nobody /\ s.recvfrom[p] \in Nobody /\ ~s.blocked[p]
  BY RunnerIdle
<1>3. s.flags[d] = {RECEIVING} /\ pc[d] = "receive" /\ s.sendto[d] \in Nobody
  BY Expecting
<1>4. /\ sent' \in [Proc -> Seq(Proc)] /\ \A q \in Proc \ {p} : sent'[q] = sent[q]
      /\ Len(sent[p]) \in Nat /\ DOMAIN sent[p] = 1 .. Len(sent[p])
      /\ Len(sent'[p]) = Len(sent[p]) + 1 /\ sent'[p] # << >>
      /\ DOMAIN sent'[p] = 1 .. Len(sent[p]) + 1 /\ sent'[p][Len(sent[p]) + 1] = d
      /\ \A n \in 1 .. Len(sent[p]) : sent'[p][n] = sent[p][n]
  BY <1>1, LogEffect
<1>5. msg.m_source = p
  <2>1. Number(p) \in Nat /\ p \in Task
    BY <1>4 DEF Number, Task
  <2> QED BY <2>1, MsgFields
<1>6. HandOver(p, d, msg)
  OBVIOUS
<1> HIDE DEF msg
<1>7. TypeOK'
  <2>1. peer' \in [Proc -> Task] /\ pc' \in [Proc -> {"user", "send", "both", "receive"}]
    BY <1>1, <1>6 DEF Task, HandOver
  <2>2. s' \in State /\ got \in [Proc -> Seq(Message)]
    BY <1>1, <1>6 DEF HandOver, TypeOK
  <2> QED BY <1>4, <2>1, <2>2 DEF TypeOK
<1>8. ASSUME NEW q \in Proc PROVE FlagsOf(q)' /\ CallOf(q)'
  <2>0. FlagsOf(q) /\ CallOf(q)
    BY OneByOne DEF ShapeInv
  <2>1. CASE q \notin {p, d}
    <3>1. StaysPut(q)
      BY <1>1, <1>4, <1>6, <2>1 DEF StaysPut, HandOver
    <3> QED BY <2>0, <3>1, Stays
  <2>2. CASE q = d
    <3>1. s'.flags[d] = {} /\ s'.recvfrom[d] \in Nobody /\ s'.sendto[d] \in Nobody /\ ~s'.blocked[d]
      BY <1>3, <1>6 DEF HandOver, Woken, Nobody
    <3>2. pc'[d] = "receive" /\ sent'[d] = sent[d]
      BY <1>1, <1>3, <1>4, <1>6 DEF HandOver
    <3>3. FlagsOf(d)'
      BY <3>1 DEF FlagsOf, SENDING, RECEIVING
    <3>4. CallOf(d)'
      BY <2>0, <2>2, <3>1, <3>2 DEF CallOf
    <3> QED BY <2>2, <3>3, <3>4
  <2>3. CASE q = p
    <3>1. \A n \in DOMAIN sent'[p] : sent'[p][n] # p
      <4>1. \A n \in 1 .. Len(sent[p]) : sent[p][n] # p
        BY <1>4, <2>0, <2>3 DEF CallOf
      <4>2. \A n \in 1 .. Len(sent[p]) + 1 : n = Len(sent[p]) + 1 \/ n \in 1 .. Len(sent[p])
        BY <1>4, OneMore
      <4> QED BY <1>4, <4>1, <4>2
    <3>2. CASE Same(s, s', p) /\ pc' = [pc EXCEPT ![p] = "user"]
      <4>1. /\ s'.flags[p] = {} /\ s'.sendto[p] \in Nobody /\ s'.recvfrom[p] \in Nobody /\ ~s'.blocked[p]
            /\ pc'[p] = "user"
        BY <1>1, <1>2, <3>2 DEF Same
      <4> QED BY <2>3, <3>1, <4>1 DEF FlagsOf, CallOf
    <3>3. CASE Receives(s, s', p, d, msg) /\ pc' = [pc EXCEPT ![p] = "receive"]
      <4>1. /\ s'.flags[p] = {RECEIVING} /\ s'.sendto[p] \in Nobody /\ s'.recvfrom[p] \notin Nobody
            /\ s'.blocked[p] /\ pc'[p] = "receive" /\ s'.message[p].m_source = p
        BY <1>1, <1>2, <1>5, <3>3, Tasks DEF Receives, Nobody
      <4> QED BY <2>3, <3>1, <4>1 DEF FlagsOf, CallOf, SENDING, RECEIVING
    <3> QED BY <1>6, <3>2, <3>3 DEF HandOver
  <2> QED BY <2>1, <2>2, <2>3
<1>9. \A q, e \in Proc : Sends(s', q, e) <=> Sends(s, q, e)
  <2>1. \A q \in Proc \ {p, d} : \A e \in Proc : Sends(s', q, e) <=> Sends(s, q, e)
    BY <1>6 DEF HandOver, Same, Sends
  <2>2. SENDING \notin s'.flags[d] /\ SENDING \notin s.flags[d] /\ SENDING \notin s.flags[p]
    BY <1>2, <1>3, <1>6 DEF HandOver, Woken, SENDING, RECEIVING
  <2>3. SENDING \notin s'.flags[p]
    BY <1>2, <1>6 DEF HandOver, Same, Receives, SENDING, RECEIVING
  <2> QED BY <2>1, <2>2, <2>3 DEF Sends
<1>10. Acyclic(s') /\ Queues(s')
  BY <1>6, <1>9, SameSends DEF HandOver, ShapeInv
<1>11. OnlyDeadlocksPanic'
  BY <1>6 DEF OnlyDeadlocksPanic, HandOver
<1> QED BY <1>7, <1>8, <1>10, <1>11, ShapeFrom

\* A step that sends nothing and concerns one process.
LEMMA QuietShape ==
  ASSUME ShapeInv, NEW p \in Proc, Touches(s, s', p), SameLinks(s, s'),
         \A e \in Proc : Sends(s', p, e) <=> Sends(s, p, e), sent' = sent,
         pc' \in [Proc -> {"user", "send", "both", "receive"}], peer' \in [Proc -> Task],
         got' \in [Proc -> Seq(Message)],
         \A q \in Proc \ {p} : pc'[q] = pc[q] /\ peer'[q] = peer[q], FlagsOf(p)', CallOf(p)',
         OnlyDeadlocksPanic'
  PROVE  ShapeInv'
<1>1. TypeOK'
  BY DEF TypeOK, Touches, ShapeInv
<1>2. ASSUME NEW q \in Proc PROVE FlagsOf(q)' /\ CallOf(q)'
  <2>1. FlagsOf(q) /\ CallOf(q)
    BY OneByOne DEF ShapeInv
  <2>2. CASE q # p
    <3>1. StaysPut(q)
      BY <2>2 DEF StaysPut, Touches
    <3> QED BY <2>1, <3>1, Stays
  <2> QED BY <2>2
<1>3. \A q, e \in Proc : Sends(s', q, e) <=> Sends(s, q, e)
  <2>1. \A q \in Proc \ {p} : \A e \in Proc : Sends(s', q, e) <=> Sends(s, q, e)
    BY DEF Touches, Same, Sends
  <2> QED BY <2>1
<1>4. Acyclic(s') /\ Queues(s')
  BY <1>3, SameSends DEF ShapeInv
<1> QED BY <1>1, <1>2, <1>4, ShapeFrom

\* A receive that blocks.
LEMMA WaitShape ==
  ASSUME ShapeInv, NEW p \in Proc, ~s.blocked[p], s.panic = "none", NEW src \in Task, src \notin Nobody,
         NEW msg \in Message, msg.m_source = p, s' = wait_for(s, p, src, msg),
         pc' = [pc EXCEPT ![p] = "receive"], peer' = [peer EXCEPT ![p] = src], UNCHANGED <<sent, got>>
  PROVE  ShapeInv' /\ OnlyTouches(s, s', p) /\ SameLinks(s, s') /\ Receives(s, s', p, src, msg)
<1>1. /\ s \in State /\ pc \in [Proc -> {"user", "send", "both", "receive"}]
      /\ peer \in [Proc -> Task] /\ got \in [Proc -> Seq(Message)]
  BY DEF ShapeInv, TypeOK
<1>2. s.flags[p] = {} /\ s.sendto[p] \in Nobody /\ s.recvfrom[p] \in Nobody /\ CallOf(p)
  BY RunnerIdle, OneByOne DEF ShapeInv
<1>3. OnlyTouches(s, s', p) /\ SameLinks(s, s') /\ Receives(s, s', p, src, msg)
  <2>1. ASSUME NEW r2, r2 = wait_for(s, p, src, msg)
        PROVE  OnlyTouches(s, r2, p) /\ SameLinks(s, r2) /\ Receives(s, r2, p, src, msg)
    <3>1. s \in State /\ p \in Proc /\ src \in Task /\ msg \in Message /\ s.flags[p] = {}
      BY <1>1, <1>2
    <3>2. /\ OnlyTouches(s, r2, p) /\ SameLinks(s, r2)
          /\ r2.flags[p] = {RECEIVING} /\ r2.recvfrom[p] = src /\ r2.sendto[p] = s.sendto[p]
          /\ r2.message[p] = msg /\ r2.blocked[p]
      BY <2>1, <3>1, WaitEffect
    <3> QED BY <3>2 DEF Receives
  <2> QED BY <2>1
<1>4. /\ s'.flags[p] = {RECEIVING} /\ s'.sendto[p] \in Nobody /\ s'.recvfrom[p] \notin Nobody
      /\ s'.blocked[p] /\ pc'[p] = "receive" /\ s'.message[p].m_source = p
  BY <1>1, <1>2, <1>3 DEF Receives
<1>5. FlagsOf(p)' /\ CallOf(p)'
  BY <1>2, <1>4 DEF FlagsOf, CallOf, SENDING, RECEIVING
<1>6. \A e \in Proc : Sends(s', p, e) <=> Sends(s, p, e)
  BY <1>2, <1>4 DEF Sends, SENDING, RECEIVING
<1>7. /\ pc' \in [Proc -> {"user", "send", "both", "receive"}] /\ peer' \in [Proc -> Task]
      /\ \A q \in Proc \ {p} : pc'[q] = pc[q] /\ peer'[q] = peer[q]
  BY <1>1
<1>8. OnlyDeadlocksPanic' /\ Touches(s, s', p)
  BY <1>3, TouchesOnly DEF OnlyDeadlocksPanic, OnlyTouches
<1> QED BY <1>8, <1>1, <1>3, <1>5, <1>6, <1>7, QuietShape

\* A receive that finds an interrupt.
LEMMA InterruptShape ==
  ASSUME ShapeInv, NEW p \in Proc, ~s.blocked[p], s.panic = "none", NEW src \in Task, s' = take_interrupt(s, p),
         pc' = [pc EXCEPT ![p] = "user"], peer' = [peer EXCEPT ![p] = src], sent' = sent,
         got' \in [Proc -> Seq(Message)]
  PROVE  ShapeInv' /\ OnlyTouches(s, s', p) /\ s'.flags[p] = s.flags[p]
<1>1. /\ s \in State /\ pc \in [Proc -> {"user", "send", "both", "receive"}] /\ peer \in [Proc -> Task]
  BY DEF ShapeInv, TypeOK
<1>2. s.flags[p] = {} /\ s.sendto[p] \in Nobody /\ s.recvfrom[p] \in Nobody /\ CallOf(p)
  BY RunnerIdle, OneByOne DEF ShapeInv
<1>3. /\ OnlyTouches(s, s', p) /\ SameLinks(s, s')
      /\ s'.flags[p] = {} /\ s'.recvfrom[p] \in Nobody /\ s'.sendto[p] \in Nobody /\ ~s'.blocked[p]
  BY <1>1, <1>2, InterruptEffect
<1>4. pc'[p] = "user"
  BY <1>1
<1>5. FlagsOf(p)' /\ CallOf(p)'
  BY <1>2, <1>3, <1>4 DEF FlagsOf, CallOf
<1>6. \A e \in Proc : Sends(s', p, e) <=> Sends(s, p, e)
  BY <1>2, <1>3 DEF Sends
<1>7. /\ pc' \in [Proc -> {"user", "send", "both", "receive"}] /\ peer' \in [Proc -> Task]
      /\ \A q \in Proc \ {p} : pc'[q] = pc[q] /\ peer'[q] = peer[q]
  BY <1>1
<1>8. OnlyDeadlocksPanic' /\ Touches(s, s', p)
  BY <1>3, TouchesOnly DEF OnlyDeadlocksPanic, OnlyTouches
<1> QED BY <1>8, <1>2, <1>3, <1>5, <1>6, <1>7, QuietShape

\* An interrupt handler wakes a process.
LEMMA WakeShape ==
  ASSUME ShapeInv, NEW p \in Interrupted, s.panic = "none",
         RECEIVING \in s.flags[p], s.recvfrom[p] \in {INTR_TASK, ANY_TASK},
         s' = notify_intr(s, p), UNCHANGED <<pc, peer, sent, got>>
  PROVE  /\ ShapeInv' /\ Touches(s, s', p) /\ SameLinks(s, s') /\ Woken(s, s', p, HardInt)
         /\ pc[p] = "receive" /\ s.flags[p] = {RECEIVING}
<1>0. p \in Proc
  BY IpcBounds
<1>1. /\ s \in State /\ pc \in [Proc -> {"user", "send", "both", "receive"}]
      /\ peer \in [Proc -> Task] /\ got \in [Proc -> Seq(Message)]
  BY DEF ShapeInv, TypeOK
<1>2. FlagsOf(p) /\ CallOf(p)
  BY <1>0, OneByOne DEF ShapeInv
<1>3. s.flags[p] = {RECEIVING} /\ s.sendto[p] \in Nobody /\ s.blocked[p] /\ pc[p] = "receive"
  BY <1>0, <1>1, <1>2 DEF FlagsOf, CallOf, SENDING, RECEIVING
<1> DEFINE a == notify_wake(s, p)
<1>4. OnlyTouches(s, a, p) /\ SameLinks(s, a) /\ Woken(s, a, p, HardInt)
  BY <1>0, <1>1, <1>3, WakeEffect DEF Woken
<1>5. s' = IF s.sendto[p] = NO_TASK THEN a ELSE PANIC(a, "notify_sendto")
  BY DEF notify_intr, ASSERT
<1> HIDE DEF a
<1>6. a \in State /\ a.panic = "none"
  BY <1>4 DEF OnlyTouches
<1>7. s' = IF s.sendto[p] = NO_TASK THEN a ELSE [a EXCEPT !.panic = "notify_sendto"]
  BY <1>5, <1>6 DEF PANIC
<1>8. /\ s'.flags = a.flags /\ s'.recvfrom = a.recvfrom /\ s'.sendto = a.sendto
      /\ s'.message = a.message /\ s'.intr_present = a.intr_present /\ s'.blocked = a.blocked
      /\ SameLinks(a, s') /\ s' \in State
      /\ s'.panic = IF s.sendto[p] = NO_TASK THEN "none" ELSE "notify_sendto"
  <2>1. CASE s.sendto[p] = NO_TASK
    BY <1>6, <1>7, <2>1 DEF SameLinks
  <2>2. CASE s.sendto[p] # NO_TASK
    BY <1>6, <1>7, <2>2 DEF SameLinks, State, Panics
  <2> QED BY <2>1, <2>2
<1>9. Touches(s, s', p) /\ SameLinks(s, s') /\ Woken(s, s', p, HardInt)
  BY <1>4, <1>8 DEF OnlyTouches, Touches, Same, SameLinks, Woken
<1>10. /\ s'.flags[p] = {} /\ s'.recvfrom[p] \in Nobody /\ s'.sendto[p] = s.sendto[p] /\ ~s'.blocked[p]
       /\ pc'[p] = "receive"
  BY <1>3, <1>9 DEF Woken, Nobody
<1>11. FlagsOf(p)' /\ CallOf(p)'
  BY <1>2, <1>3, <1>10 DEF FlagsOf, CallOf
<1>12. \A e \in Proc : Sends(s', p, e) <=> Sends(s, p, e)
  BY <1>3, <1>10 DEF Sends, SENDING, RECEIVING
<1>13. OnlyDeadlocksPanic'
  <2>1. s'.panic = "notify_sendto" => s'.sendto[p] = PID_0
    BY <1>3, <1>8, <1>10 DEF Nobody
  <2> QED BY <1>8, <2>1 DEF OnlyDeadlocksPanic
<1> QED BY <1>0, <1>1, <1>3, <1>9, <1>11, <1>12, <1>13, QuietShape

\* An interrupt handler leaves a note.
LEMMA NotifyShape ==
  ASSUME ShapeInv, NEW p \in Proc, s.panic = "none",
         ~(RECEIVING \in s.flags[p] /\ s.recvfrom[p] \in {INTR_TASK, ANY_TASK}),
         s' = notify_intr(s, p), UNCHANGED <<pc, peer, sent, got>>
  PROVE  /\ ShapeInv' /\ OnlyTouches(s, s', p) /\ SameLinks(s, s') /\ s'.flags[p] = s.flags[p]
         /\ s'.blocked[p] = s.blocked[p] /\ s'.message[p] = s.message[p]
<1>1. /\ s \in State /\ pc \in [Proc -> {"user", "send", "both", "receive"}]
      /\ peer \in [Proc -> Task] /\ got \in [Proc -> Seq(Message)]
  BY DEF ShapeInv, TypeOK
<1>2. FlagsOf(p) /\ CallOf(p)
  BY OneByOne DEF ShapeInv
<1>3. /\ OnlyTouches(s, s', p) /\ SameLinks(s, s')
      /\ s'.flags[p] = s.flags[p] /\ s'.recvfrom[p] = s.recvfrom[p]
      /\ s'.sendto[p] = s.sendto[p] /\ s'.message[p] = s.message[p]
      /\ s'.blocked[p] = s.blocked[p]
  BY <1>1, NotifyEffect
<1>4. FlagsOf(p)' /\ CallOf(p)'
  BY <1>2, <1>3 DEF FlagsOf, CallOf
<1>5. \A e \in Proc : Sends(s', p, e) <=> Sends(s, p, e)
  BY <1>3 DEF Sends
<1>8. OnlyDeadlocksPanic' /\ Touches(s, s', p)
  BY <1>3, TouchesOnly DEF OnlyDeadlocksPanic, OnlyTouches
<1> QED BY <1>8, <1>1, <1>3, <1>4, <1>5, QuietShape

\* A step that changes no TCB.
LEMMA LocalShape ==
  ASSUME ShapeInv, NEW p \in Proc, ~s.blocked[p], s.panic = "none", s' = s, UNCHANGED <<peer, sent>>,
         pc' = [pc EXCEPT ![p] = "user"], got' \in [Proc -> Seq(Message)]
  PROVE  ShapeInv'
<1>1. /\ s \in State /\ pc \in [Proc -> {"user", "send", "both", "receive"}] /\ peer \in [Proc -> Task]
  BY DEF ShapeInv, TypeOK
<1>2. s.flags[p] = {} /\ s.sendto[p] \in Nobody /\ s.recvfrom[p] \in Nobody /\ ~s.blocked[p] /\ CallOf(p)
  BY RunnerIdle, OneByOne DEF ShapeInv
<1>3. pc'[p] = "user"
  BY <1>1
<1>4. FlagsOf(p)' /\ CallOf(p)'
  BY <1>2, <1>3 DEF FlagsOf, CallOf
<1>5. OnlyTouches(s, s', p) /\ SameLinks(s, s') /\ \A e \in Proc : Sends(s', p, e) <=> Sends(s, p, e)
  BY <1>1 DEF OnlyTouches, Same, SameLinks
<1>6. /\ pc' \in [Proc -> {"user", "send", "both", "receive"}] /\ peer' \in [Proc -> Task]
      /\ \A q \in Proc \ {p} : pc'[q] = pc[q] /\ peer'[q] = peer[q]
  BY <1>1
<1>8. OnlyDeadlocksPanic' /\ Touches(s, s', p)
  BY <1>5, TouchesOnly DEF OnlyDeadlocksPanic, OnlyTouches
<1> QED BY <1>8, <1>4, <1>5, <1>6, QuietShape

\* Who waits for p to take its message is served when p does.
LEMMA SenderServed ==
  ASSUME ShapeInv, NEW p \in Proc, ~s.blocked[p], NEW src, NEW from \in Proc, Sends(s, from, p),
         NEW r2, r2 = take(s, p, src, from)
  PROVE  /\ from # p /\ s.flags[from] = {SENDING} /\ s.recvfrom[from] \in Nobody
         /\ pc[from] \in {"send", "both"} /\ s.message[from] = Msg(from, Len(sent[from]))
         /\ sent[from] # << >> /\ sent[from][Len(sent[from])] = p
         /\ \E w : \E m \in DOMAIN w : IsQueue(s, p, w) /\ Served(s, r2, p, w, m, from)
<1>1. /\ s \in State /\ pc \in [Proc -> {"user", "send", "both", "receive"}]
      /\ sent \in [Proc -> Seq(Proc)]
  BY DEF ShapeInv, TypeOK
<1>2. s.flags[p] = {}
  BY RunnerIdle
<1>3. FlagsOf(from) /\ CallOf(from)
  BY OneByOne DEF ShapeInv
<1>4. /\ s.flags[from] = {SENDING} /\ s.blocked[from] /\ s.recvfrom[from] \in Nobody /\ from # p
      /\ s.message[from] = Msg(from, Len(sent[from])) /\ pc[from] \in {"send", "both"}
      /\ sent[from] # << >> /\ sent[from][Len(sent[from])] = p
  BY <1>1, <1>2, <1>3 DEF FlagsOf, CallOf, Sends, SENDING, RECEIVING
<1>5. s.message[from].m_source # PID_0
  <2>1. Len(sent[from]) \in Nat /\ from \in Task /\ from # PID_0
    BY <1>1, Tasks DEF Task
  <2> QED BY <1>4, <2>1, MsgFields
<1>6. PICK w : IsQueue(s, p, w)
  BY QueuesAre DEF ShapeInv
<1>7. PICK m \in DOMAIN w : w[m] = from
  BY <1>6 DEF IsQueue
<1>8. Served(s, r2, p, w, m, from)
  <2>1. IsNext(s, p, w, m, from)
    BY <1>1, <1>2, <1>4, <1>5, <1>6, <1>7 DEF IsNext
  <2> QED BY <2>1, TakeEffect
<1>9. \E w2 : \E m2 \in DOMAIN w2 : IsQueue(s, p, w2) /\ Served(s, r2, p, w2, m2, from)
  BY <1>6, <1>7, <1>8
<1> QED BY <1>4, <1>9

\* A receive that takes the message of a sender.
LEMMA TakeShape ==
  ASSUME ShapeInv, NEW p \in Proc, ~s.blocked[p], s.panic = "none", NEW src \in Task, NEW from \in Proc, Sends(s, from, p),
         s' = take(s, p, src, from), pc' = [pc EXCEPT ![p] = "user"],
         peer' = [peer EXCEPT ![p] = src], sent' = sent, got' \in [Proc -> Seq(Message)]
  PROVE  ShapeInv' /\ OnlyTouches(s, s', from) /\ s'.flags[from] = {} /\ ~s'.blocked[from]
<1>1. /\ s \in State /\ pc \in [Proc -> {"user", "send", "both", "receive"}]
      /\ peer \in [Proc -> Task] /\ sent \in [Proc -> Seq(Proc)]
  BY DEF ShapeInv, TypeOK
<1>2. s.flags[p] = {} /\ s.sendto[p] \in Nobody /\ s.recvfrom[p] \in Nobody /\ CallOf(p)
  BY RunnerIdle, OneByOne DEF ShapeInv
<1>3. FlagsOf(from) /\ CallOf(from)
  BY OneByOne DEF ShapeInv
<1>4. /\ s.flags[from] = {SENDING} /\ s.recvfrom[from] \in Nobody /\ from # p
      /\ pc[from] \in {"send", "both"}
      /\ \E w : \E m \in DOMAIN w : IsQueue(s, p, w) /\ Served(s, s', p, w, m, from)
  BY SenderServed
<1>5. /\ OnlyTouches(s, s', from)
      /\ s'.flags[from] = {} /\ s'.recvfrom[from] = s.recvfrom[from]
      /\ s'.sendto[from] \in Nobody /\ ~s'.blocked[from] /\ \E v : IsQueue(s', p, v)
      /\ \A q \in Proc \ {p} : \A v : IsQueue(s, q, v) => IsQueue(s', q, v)
  BY <1>4 DEF Served, Nobody
<1>6. TypeOK'
  BY <1>1, <1>5 DEF TypeOK, OnlyTouches
<1>7. ASSUME NEW q \in Proc PROVE FlagsOf(q)' /\ CallOf(q)'
  <2>0. FlagsOf(q) /\ CallOf(q)
    BY OneByOne DEF ShapeInv
  <2>1. CASE q \notin {p, from}
    <3>1. StaysPut(q)
      BY <1>1, <1>5, <2>1 DEF StaysPut, OnlyTouches
    <3> QED BY <2>0, <3>1, Stays
  <2>2. CASE q = p
    <3>1. Same(s, s', p) /\ pc'[p] = "user"
      BY <1>1, <1>4, <1>5 DEF OnlyTouches
    <3> QED BY <1>2, <2>0, <2>2, <3>1 DEF FlagsOf, CallOf, Same
  <2>3. CASE q = from
    <3>1. pc'[from] = pc[from] /\ peer'[from] = peer[from]
      BY <1>1, <1>4
    <3> QED BY <1>3, <1>4, <1>5, <2>3, <3>1 DEF FlagsOf, CallOf
  <2> QED BY <2>1, <2>2, <2>3
<1>8. Acyclic(s')
  <2>1. \A q, e \in Proc : Sends(s', q, e) => Sends(s, q, e)
    BY <1>5 DEF OnlyTouches, Same, Sends
  <2> QED BY <2>1, FewerSends DEF ShapeInv
<1>9. Queues(s')
  <2>1. \A q \in Proc : \E v : IsQueue(s', q, v)
    BY <1>5, QueuesAre DEF ShapeInv
  <2> QED BY <2>1, QueuesAre
<1>10. OnlyDeadlocksPanic'
  BY <1>5 DEF OnlyDeadlocksPanic, OnlyTouches
<1>11. ShapeInv'
  BY <1>6, <1>7, <1>8, <1>9, <1>10, ShapeFrom
<1> QED BY <1>5, <1>11

\* A send that would close a circle.
LEMMA PanicShape ==
  ASSUME ShapeInv, NEW p \in Proc, NEW d \in Proc, p # d, ~s.blocked[p], s.panic = "none",
         s' = PANIC(s, "deadlock"), Log(p, d), NEW x \in {"user", "both"}, pc' = [pc EXCEPT ![p] = x],
         peer' \in {peer, [peer EXCEPT ![p] = d]}, x = "both" => peer'[p] = d, got' = got
  PROVE  /\ ShapeInv' /\ s'.panic = "deadlock"
         /\ \A q \in Proc : \A v : IsQueue(s, q, v) => IsQueue(s', q, v)
<1>1. /\ TypeOK /\ s \in State /\ pc \in [Proc -> {"user", "send", "both", "receive"}]
      /\ peer \in [Proc -> Task] /\ got \in [Proc -> Seq(Message)]
  BY DEF ShapeInv, TypeOK
<1>2. s.flags[p] = {} /\ s.sendto[p] \in Nobody /\ s.recvfrom[p] \in Nobody
  BY RunnerIdle
<1>3. /\ sent' \in [Proc -> Seq(Proc)] /\ \A q \in Proc \ {p} : sent'[q] = sent[q]
      /\ Len(sent[p]) \in Nat /\ DOMAIN sent[p] = 1 .. Len(sent[p]) /\ sent'[p] # << >>
      /\ DOMAIN sent'[p] = 1 .. Len(sent[p]) + 1 /\ sent'[p][Len(sent[p]) + 1] = d
      /\ \A n \in 1 .. Len(sent[p]) : sent'[p][n] = sent[p][n]
  BY <1>1, LogEffect
<1>4. s' = [s EXCEPT !.panic = "deadlock"]
  BY DEF PANIC
<1>5. s' \in State /\ s'.panic = "deadlock" /\ SameLinks(s, s') /\ \A q \in Proc : Same(s, s', q)
  BY <1>1, <1>4 DEF State, Panics, SameLinks, Same
<1>6. TypeOK'
  <2>1. peer' \in [Proc -> Task] /\ pc' \in [Proc -> {"user", "send", "both", "receive"}]
    BY <1>1 DEF Task
  <2> QED BY <1>1, <1>3, <1>5, <2>1 DEF TypeOK
<1>7. ASSUME NEW q \in Proc PROVE FlagsOf(q)' /\ CallOf(q)'
  <2>0. FlagsOf(q) /\ CallOf(q)
    BY OneByOne DEF ShapeInv
  <2>1. CASE q # p
    <3>1. StaysPut(q)
      BY <1>1, <1>3, <1>5, <2>1 DEF StaysPut
    <3> QED BY <2>0, <3>1, Stays
  <2>2. CASE q = p
    <3>1. \A n \in DOMAIN sent'[p] : sent'[p][n] # p
      <4>1. \A n \in 1 .. Len(sent[p]) : sent[p][n] # p
        BY <1>3, <2>0, <2>2 DEF CallOf
      <4>2. \A n \in 1 .. Len(sent[p]) + 1 : n = Len(sent[p]) + 1 \/ n \in 1 .. Len(sent[p])
        BY <1>3, OneMore
      <4> QED BY <1>3, <4>1, <4>2
    <3>2. s'.flags[p] = {} /\ pc'[p] = x
      BY <1>1, <1>2, <1>5 DEF Same
    <3>3. CallOf(p)'
      BY <1>3, <3>1, <3>2 DEF CallOf
    <3>4. FlagsOf(p)'
      BY <1>5, <2>0, <2>2 DEF FlagsOf, Same
    <3> QED BY <2>2, <3>3, <3>4
  <2> QED BY <2>1, <2>2
<1>8. \A q, e \in Proc : Sends(s', q, e) <=> Sends(s, q, e)
  BY <1>5 DEF Same, Sends
<1>9. Acyclic(s') /\ Queues(s') /\ \A q \in Proc : \A v : IsQueue(s, q, v) => IsQueue(s', q, v)
  BY <1>5, <1>8, SameSends DEF ShapeInv
<1>10. OnlyDeadlocksPanic'
  BY <1>5 DEF OnlyDeadlocksPanic
<1> QED BY <1>5, <1>6, <1>7, <1>9, <1>10, ShapeFrom

-----------------------------------------------------------------------------
(* The part of the invariant on the messages, step by step.                *)

Waiting(p) == SENDING \in s.flags[p]

\* Where the n-th message of p, sent to d, can be.
Placed(p, n, d) ==
  \/ Waiting(p) /\ n = Len(sent[p])
  \/ Arrived(d) /\ s.message[d] = Msg(p, n)
  \/ \E i \in DOMAIN got[d] : got[d][i] = Msg(p, n)

\* d has not got m yet.
IsNew(m, d) == \A i \in DOMAIN got[d] : got[d][i] # m

\* The four parts of Mail.
MailPlaced == \A p, d \in Proc : \A n \in DOMAIN sent[p] : sent[p][n] = d => Placed(p, n, d)
MailArrived ==
  \A d \in Proc : \A m \in Message :
    Arrived(d) /\ s.message[d] = m => m = HardInt \/ (Handed(m, d) /\ IsNew(m, d))
MailGot == \A d \in Proc : \A i \in DOMAIN got[d] : got[d][i].n = 0 \/ Handed(got[d][i], d)
MailOnce ==
  \A d \in Proc : \A i, j \in DOMAIN got[d] : got[d][i] = got[d][j] => i = j \/ got[d][i].n = 0

MailAll == MailPlaced /\ MailArrived /\ MailGot /\ MailOnce

\* Mail is its four parts.
LEMMA MailParts == TypeOK => (Mail <=> MailAll)
<1> SUFFICES ASSUME TypeOK PROVE Mail <=> MailAll
  OBVIOUS
<1>1. \A p \in Proc : \A n \in DOMAIN sent[p] : sent[p][n] \in Proc
  BY DEF TypeOK
<1>2. \A d \in Proc : s.message[d] \in Message
  BY DEF TypeOK, State
<1>3. MailPlaced <=> \A p \in Proc : \A n \in DOMAIN sent[p] : Placed(p, n, sent[p][n])
  BY <1>1 DEF MailPlaced
<1>4. MailArrived <=> \A d \in Proc : Arrived(d) =>
        s.message[d] = HardInt \/ (Handed(s.message[d], d) /\ IsNew(s.message[d], d))
  BY <1>2 DEF MailArrived
<1> QED BY <1>3, <1>4 DEF Mail, MailAll, MailGot, MailOnce, Placed, Waiting, IsNew

\* The same after a step.
LEMMA MailPartsNext == TypeOK' => (Mail' <=> MailAll')
BY MailParts, PTL

\* Handed, of the histories and the flags of any state.
HandedIn(snt, flags, m, d) ==
  /\ m.m_source \in Proc /\ m.n \in DOMAIN snt[m.m_source] /\ snt[m.m_source][m.n] = d
  /\ SENDING \in flags[m.m_source] => m.n # Len(snt[m.m_source])

\* Handed before a step, ...
LEMMA HandedNow == ASSUME NEW m, NEW d PROVE Handed(m, d) <=> HandedIn(sent, s.flags, m, d)
BY DEF Handed, HandedIn

\* ... and after it.
LEMMA HandedNext == ASSUME NEW m, NEW d PROVE Handed(m, d)' <=> HandedIn(sent', s'.flags, m, d)
BY DEF Handed, HandedIn

\* MailGot before and after a step.
LEMMA GotIn ==
  /\ MailGot <=> \A d \in Proc : \A i \in DOMAIN got[d] :
                   got[d][i].n = 0 \/ HandedIn(sent, s.flags, got[d][i], d)
  /\ MailGot' <=> \A d \in Proc : \A i \in DOMAIN got'[d] :
                    got'[d][i].n = 0 \/ HandedIn(sent', s'.flags, got'[d][i], d)
BY DEF MailGot, Handed, HandedIn

\* What is in q's TCB stays, or stays away.
KeepsArrived(q) == (Arrived(q)' <=> Arrived(q)) /\ (Arrived(q) => s'.message[q] = s.message[q])

\* A message that has been handed over stays so when nobody sends, ...
LEMMA HandedStays ==
  ASSUME sent' = sent, \A q \in Proc : Waiting(q)' => Waiting(q), NEW m, NEW d, Handed(m, d)
  PROVE  Handed(m, d)'
BY DEF Handed, Waiting

\* ... and when somebody does.
LEMMA HandedGrows ==
  ASSUME TypeOK, NEW p \in Proc, NEW e \in Proc, Log(p, e),
         \A q \in Proc \ {p} : Waiting(q)' => Waiting(q), NEW m, NEW d, Handed(m, d)
  PROVE  Handed(m, d)'
<1>1. /\ Len(sent[p]) \in Nat /\ DOMAIN sent[p] = 1 .. Len(sent[p])
      /\ Len(sent'[p]) = Len(sent[p]) + 1 /\ DOMAIN sent'[p] = 1 .. Len(sent[p]) + 1
      /\ \A n \in 1 .. Len(sent[p]) : sent'[p][n] = sent[p][n]
      /\ \A q \in Proc \ {p} : sent'[q] = sent[q]
  BY LogEffect
<1>2. CASE m.m_source = p
  <2>1. m.n \in 1 .. Len(sent[p]) /\ sent[p][m.n] = d
    BY <1>1, <1>2 DEF Handed
  <2>2. m.n \in 1 .. Len(sent[p]) + 1 /\ m.n # Len(sent[p]) + 1
    BY <1>1, <2>1
  <2> QED BY <1>1, <1>2, <2>1, <2>2 DEF Handed
<1>3. CASE m.m_source # p
  BY <1>1, <1>3 DEF Handed, Waiting
<1> QED BY <1>2, <1>3

\* Nobody starts to wait.
NoMoreWaiting == \A q \in Proc : Waiting(q)' => Waiting(q)

\* got[p] grows by a message that p has not got.
LEMMA GotGrows ==
  ASSUME TypeOK, MailGot, MailOnce, sent' = sent, NoMoreWaiting,
         NEW p \in Proc, NEW m \in Message, got' = [got EXCEPT ![p] = Append(got[p], m)],
         m.n = 0 \/ (Handed(m, p)' /\ IsNew(m, p))
  PROVE  /\ got' \in [Proc -> Seq(Message)] /\ MailGot' /\ MailOnce'
         /\ \A q \in Proc \ {p} : got'[q] = got[q]
         /\ \E i \in DOMAIN got'[p] : got'[p][i] = m
         /\ \A d \in Proc : \A i \in DOMAIN got[d] : i \in DOMAIN got'[d] /\ got'[d][i] = got[d][i]
<1> DEFINE a == got[p]
           b == got'[p]
<1>1. got \in [Proc -> Seq(Message)] /\ a \in Seq(Message)
  BY DEF TypeOK
<1>2. b = Append(a, m) /\ got' \in [Proc -> Seq(Message)] /\ \A q \in Proc \ {p} : got'[q] = got[q]
  BY <1>1
<1> HIDE DEF a, b
<1>3. /\ Len(a) \in Nat /\ DOMAIN a = 1 .. Len(a) /\ DOMAIN b = 1 .. Len(a) + 1
      /\ b[Len(a) + 1] = m /\ \A n \in 1 .. Len(a) : b[n] = a[n]
  BY <1>1, <1>2, AppendFields
<1>4. \A n \in DOMAIN b : n = Len(a) + 1 \/ n \in DOMAIN a
  BY <1>3, OneMore
<1>5. \A n \in DOMAIN a : n \in DOMAIN b /\ b[n] = a[n]
  BY <1>3
<1>6. Len(a) + 1 \in DOMAIN b
  BY <1>3
<1>7. ASSUME NEW d \in Proc, NEW i \in DOMAIN got'[d]
      PROVE  got'[d][i].n = 0 \/ HandedIn(sent', s'.flags, got'[d][i], d)
  <2>1. \A e : HandedIn(sent, s.flags, e, d) => HandedIn(sent', s'.flags, e, d)
    BY DEF HandedIn, Waiting, NoMoreWaiting
  <2>2. \A n \in DOMAIN got[d] : got[d][n].n = 0 \/ HandedIn(sent, s.flags, got[d][n], d)
    BY GotIn
  <2>3. CASE d # p
    BY <1>2, <1>7, <2>1, <2>2, <2>3
  <2>4. CASE d = p
    <3>1. CASE i = Len(a) + 1
      <4>1. got'[d][i] = m
        BY <1>3, <2>4, <3>1 DEF b
      <4>2. Handed(m, p)' => HandedIn(sent', s'.flags, m, p)
        BY HandedNext
      <4> QED BY <2>4, <4>1, <4>2
    <3>2. CASE i \in DOMAIN a
      <4>1. got'[d][i] = got[d][i] /\ i \in DOMAIN got[d]
        BY <1>5, <2>4, <3>2 DEF a, b
      <4> QED BY <2>1, <2>2, <4>1
    <3> QED BY <1>4, <1>7, <2>4, <3>1, <3>2 DEF b
  <2> QED BY <2>3, <2>4
<1>8. MailGot'
  BY <1>7, GotIn
<1>9. ASSUME NEW d \in Proc, NEW i \in DOMAIN got'[d], NEW j \in DOMAIN got'[d], got'[d][i] = got'[d][j]
      PROVE  i = j \/ got'[d][i].n = 0
  <2>1. CASE d # p
    BY <1>2, <1>9, <2>1 DEF MailOnce
  <2>2. CASE d = p
    <3>1. i \in DOMAIN b /\ j \in DOMAIN b /\ b[i] = b[j]
      BY <1>9, <2>2 DEF b
    <3>2. m.n = 0 \/ \A n \in DOMAIN a : a[n] # m
      BY DEF IsNew, a
    <3>3. \A n, l \in DOMAIN a : a[n] = a[l] => n = l \/ a[n].n = 0
      BY DEF MailOnce, a
    <3>4. i = j \/ b[i].n = 0
      BY <1>3, <1>4, <1>5, <3>1, <3>2, <3>3
    <3> QED BY <2>2, <3>4 DEF b
  <2> QED BY <2>1, <2>2
<1>10. MailOnce'
  BY <1>9 DEF MailOnce
<1>11. \A d \in Proc : \A i \in DOMAIN got[d] : i \in DOMAIN got'[d] /\ got'[d][i] = got[d][i]
  BY <1>2, <1>5 DEF a, b
<1>12. \E i \in DOMAIN got'[p] : got'[p][i] = m
  BY <1>3, <1>6 DEF b
<1> QED BY <1>2, <1>8, <1>10, <1>11, <1>12

\* A step that no message takes part in, but maybe the one of an interrupt
\* that p is woken by.
LEMMA MailStays ==
  ASSUME TypeOK, MailAll, sent' = sent, got' = got, \A q \in Proc : Waiting(q)' <=> Waiting(q),
         \A q \in Proc : KeepsArrived(q) \/ (~Arrived(q) /\ s'.message[q] = HardInt)
  PROVE  MailAll'
<1>1. ASSUME NEW p \in Proc, NEW d \in Proc, NEW n \in DOMAIN sent'[p], sent'[p][n] = d
      PROVE  Placed(p, n, d)'
  <2>1. Placed(p, n, d)
    BY <1>1 DEF MailAll, MailPlaced
  <2> QED BY <2>1 DEF Placed, KeepsArrived
<1>2. ASSUME NEW d \in Proc, NEW m \in Message, Arrived(d)', s'.message[d] = m
      PROVE  m = HardInt \/ (Handed(m, d)' /\ IsNew(m, d)')
  <2>1. CASE KeepsArrived(d)
    <3>1. m = HardInt \/ (Handed(m, d) /\ IsNew(m, d))
      BY <1>2, <2>1 DEF KeepsArrived, MailAll, MailArrived
    <3> QED BY <3>1, HandedStays DEF IsNew
  <2> QED BY <1>2, <2>1
<1>3. MailGot'
  BY GotIn DEF HandedIn, Waiting, MailAll
<1>4. MailOnce'
  BY DEF MailOnce, MailAll
<1> QED BY <1>1, <1>2, <1>3, <1>4 DEF MailAll, MailPlaced, MailArrived

\* A receive that returns an interrupt: got grows by no message.
LEMMA MailZero ==
  ASSUME TypeOK, MailAll, sent' = sent, \A q \in Proc : Waiting(q)' <=> Waiting(q),
         \A q \in Proc : KeepsArrived(q),
         NEW p \in Proc, NEW m \in Message, m.n = 0, got' = [got EXCEPT ![p] = Append(got[p], m)]
  PROVE  MailAll'
<1>1. /\ MailGot' /\ MailOnce' /\ \A q \in Proc \ {p} : got'[q] = got[q]
      /\ \A d \in Proc : \A i \in DOMAIN got[d] : i \in DOMAIN got'[d] /\ got'[d][i] = got[d][i]
  BY GotGrows DEF MailAll, NoMoreWaiting
<1>2. ASSUME NEW q \in Proc, NEW d \in Proc, NEW n \in DOMAIN sent'[q], sent'[q][n] = d
      PROVE  Placed(q, n, d)'
  <2>1. Placed(q, n, d)
    BY <1>2 DEF MailAll, MailPlaced
  <2> QED BY <1>1, <2>1 DEF Placed, KeepsArrived
<1>3. ASSUME NEW d \in Proc, NEW x \in Message, Arrived(d)', s'.message[d] = x
      PROVE  x = HardInt \/ (Handed(x, d)' /\ IsNew(x, d)')
  <2>1. x = HardInt \/ (Handed(x, d) /\ IsNew(x, d))
    BY <1>3 DEF KeepsArrived, MailAll, MailArrived
  <2>2. Handed(x, d) => Handed(x, d)' /\ x.n # 0
    <3>1. Handed(x, d) => x.n # 0
      BY DEF Handed, TypeOK
    <3> QED BY <3>1, HandedStays
  <2>3. Handed(x, d) /\ IsNew(x, d) => IsNew(x, d)'
    <3> SUFFICES ASSUME x.n # 0, IsNew(x, d), NEW i \in DOMAIN got'[d], got'[d][i] = x PROVE FALSE
      BY <2>2 DEF IsNew
    <3>1. x # m
      OBVIOUS
    <3>2. CASE d # p
      BY <1>1, <3>2 DEF IsNew
    <3>3. CASE d = p
      <4> DEFINE a == got[p]
                 b == got'[p]
      <4>1. a \in Seq(Message) /\ b = Append(a, m)
        BY DEF TypeOK
      <4> HIDE DEF a, b
      <4>2. /\ Len(a) \in Nat /\ DOMAIN a = 1 .. Len(a) /\ DOMAIN b = 1 .. Len(a) + 1
            /\ b[Len(a) + 1] = m /\ \A n \in 1 .. Len(a) : b[n] = a[n]
        BY <4>1, AppendFields
      <4>3. i = Len(a) + 1 \/ i \in DOMAIN a
        BY <3>3, <4>2, OneMore DEF b
      <4> QED BY <3>1, <3>3, <4>2, <4>3 DEF IsNew, a, b
    <3> QED BY <3>2, <3>3
  <2> QED BY <2>1, <2>2, <2>3
<1> QED BY <1>1, <1>2, <1>3 DEF MailAll, MailPlaced, MailArrived

\* A message that is not the one p gets is as new as before.
LEMMA NewStays ==
  ASSUME TypeOK, NEW p \in Proc, NEW m \in Message, got' = [got EXCEPT ![p] = Append(got[p], m)],
         NEW d \in Proc, NEW x, x # m, IsNew(x, d)
  PROVE  IsNew(x, d)'
<1> SUFFICES ASSUME NEW i \in DOMAIN got'[d], got'[d][i] = x PROVE FALSE
  BY DEF IsNew
<1>1. got \in [Proc -> Seq(Message)]
  BY DEF TypeOK
<1>2. CASE d # p
  <2>1. got'[d] = got[d]
    BY <1>1, <1>2
  <2> QED BY <2>1 DEF IsNew
<1>3. CASE d = p
  <2> DEFINE a == got[p]
             b == got'[p]
  <2>1. a \in Seq(Message) /\ b = Append(a, m)
    BY <1>1
  <2> HIDE DEF a, b
  <2>2. /\ Len(a) \in Nat /\ DOMAIN a = 1 .. Len(a) /\ DOMAIN b = 1 .. Len(a) + 1
        /\ b[Len(a) + 1] = m /\ \A n \in 1 .. Len(a) : b[n] = a[n]
    BY <2>1, AppendFields
  <2>3. i = Len(a) + 1 \/ i \in DOMAIN a
    BY <1>3, <2>2, OneMore DEF b
  <2> QED BY <1>3, <2>2, <2>3 DEF IsNew, a, b
<1> QED BY <1>2, <1>3

\* m is the last message of from, and it was sent to p.
IsLast(m, from, p) ==
  /\ m \in Message /\ m.m_source = from /\ m.n = Len(sent[from])
  /\ sent[from] # << >> /\ sent[from][Len(sent[from])] = p

\* p takes the message of from, which waits.
LEMMA MailTakes ==
  ASSUME TypeOK, MailAll, sent' = sent, NEW p \in Proc, NEW from \in Proc,
         Waiting(from), ~Waiting(from)', NEW m, IsLast(m, from, p),
         \A q \in Proc \ {from} : Waiting(q)' <=> Waiting(q), \A q \in Proc : KeepsArrived(q),
         got' = [got EXCEPT ![p] = Append(got[p], m)]
  PROVE  MailAll'
<1>1. /\ sent[from] \in Seq(Proc) /\ Len(sent[from]) \in Nat /\ Len(sent[from]) # 0
      /\ Len(sent[from]) \in DOMAIN sent[from]
  BY DEF TypeOK, IsLast
<1>2. m = Msg(from, Len(sent[from])) /\ m \in Message /\ m.n # 0 /\ sent[from][Len(sent[from])] = p
  BY <1>1, MsgOf DEF IsLast
<1>3. \A d : ~Handed(m, d)
  BY DEF Handed, Waiting, IsLast
<1>4. Handed(m, p)'
  BY <1>1 DEF Handed, Waiting, IsLast
<1>5. IsNew(m, p)
  <2>1. \A i \in DOMAIN got[p] : got[p][i].n = 0 \/ Handed(got[p][i], p)
    BY DEF MailAll, MailGot
  <2> QED BY <1>2, <1>3, <2>1 DEF IsNew
<1>6. /\ MailGot' /\ MailOnce' /\ \E i \in DOMAIN got'[p] : got'[p][i] = m
      /\ \A d \in Proc : \A i \in DOMAIN got[d] : i \in DOMAIN got'[d] /\ got'[d][i] = got[d][i]
  <2>1. NoMoreWaiting
    BY DEF NoMoreWaiting
  <2>2. MailGot /\ MailOnce
    BY DEF MailAll
  <2>3. m \in Message
    BY <1>2
  <2> QED BY <1>4, <1>5, <2>1, <2>2, <2>3, GotGrows
<1>7. ASSUME NEW q \in Proc, NEW d \in Proc, NEW n \in DOMAIN sent'[q], sent'[q][n] = d
      PROVE  Placed(q, n, d)'
  <2>1. Placed(q, n, d)
    BY <1>7 DEF MailAll, MailPlaced
  <2>2. CASE q = from /\ n = Len(sent[from])
    <3>1. m = Msg(q, n) /\ d = p
      BY <1>2, <1>7, <2>2
    <3> QED BY <1>6, <3>1 DEF Placed
  <2>3. CASE ~(q = from /\ n = Len(sent[from]))
    BY <1>6, <2>1, <2>3 DEF Placed, KeepsArrived
  <2> QED BY <2>2, <2>3
<1>8. ASSUME NEW d \in Proc, NEW x \in Message, Arrived(d)', s'.message[d] = x
      PROVE  x = HardInt \/ (Handed(x, d)' /\ IsNew(x, d)')
  <2>1. x = HardInt \/ (Handed(x, d) /\ IsNew(x, d))
    BY <1>8 DEF KeepsArrived, MailAll, MailArrived
  <2>2. Handed(x, d) => Handed(x, d)' /\ x # m
    BY <1>3, HandedStays
  <2>3. x # m /\ IsNew(x, d) => IsNew(x, d)'
    BY <1>2, NewStays
  <2> QED BY <2>1, <2>2, <2>3
<1> QED BY <1>6, <1>7, <1>8 DEF MailAll, MailPlaced, MailArrived

\* p copies what is in its TCB.
LEMMA MailPicks ==
  ASSUME TypeOK, MailAll, sent' = sent, \A q \in Proc : Waiting(q)' <=> Waiting(q),
         NEW p \in Proc, Arrived(p), ~Arrived(p)', \A q \in Proc \ {p} : KeepsArrived(q),
         NEW m, m = s.message[p], got' = [got EXCEPT ![p] = Append(got[p], m)]
  PROVE  MailAll'
<1>1. m \in Message /\ (m = HardInt \/ (Handed(m, p) /\ IsNew(m, p)))
  BY DEF MailAll, MailArrived, TypeOK, State
<1>2. HardInt.n = 0
  BY DEF HardInt, Msg
<1>3. m.n = 0 \/ (Handed(m, p)' /\ IsNew(m, p))
  BY <1>1, <1>2, HandedStays
<1>4. /\ MailGot' /\ MailOnce' /\ \E i \in DOMAIN got'[p] : got'[p][i] = m
      /\ \A q \in Proc \ {p} : got'[q] = got[q]
      /\ \A d \in Proc : \A i \in DOMAIN got[d] : i \in DOMAIN got'[d] /\ got'[d][i] = got[d][i]
  BY <1>1, <1>3, GotGrows DEF MailAll, NoMoreWaiting
<1>5. ASSUME NEW q \in Proc, NEW d \in Proc, NEW n \in DOMAIN sent'[q], sent'[q][n] = d
      PROVE  Placed(q, n, d)'
  <2>1. Placed(q, n, d)
    BY <1>5 DEF MailAll, MailPlaced
  <2> QED BY <1>4, <2>1 DEF Placed, KeepsArrived
<1>6. ASSUME NEW d \in Proc, NEW x \in Message, Arrived(d)', s'.message[d] = x
      PROVE  x = HardInt \/ (Handed(x, d)' /\ IsNew(x, d)')
  <2>1. d # p /\ (x = HardInt \/ (Handed(x, d) /\ IsNew(x, d)))
    BY <1>6 DEF KeepsArrived, MailAll, MailArrived
  <2> QED BY <1>4, <2>1, HandedStays DEF IsNew
<1> QED BY <1>4, <1>5, <1>6 DEF MailAll, MailPlaced, MailArrived

\* p's message waits with p.
LEMMA MailQueues ==
  ASSUME TypeOK, MailAll, NEW p \in Proc, NEW e \in Proc, Log(p, e), got' = got,
         ~Waiting(p), Waiting(p)', \A q \in Proc \ {p} : Waiting(q)' <=> Waiting(q),
         \A q \in Proc : KeepsArrived(q)
  PROVE  MailAll'
<1>1. /\ Len(sent[p]) \in Nat /\ DOMAIN sent[p] = 1 .. Len(sent[p])
      /\ Len(sent'[p]) = Len(sent[p]) + 1 /\ DOMAIN sent'[p] = 1 .. Len(sent[p]) + 1
      /\ \A n \in 1 .. Len(sent[p]) : sent'[p][n] = sent[p][n]
      /\ \A q \in Proc \ {p} : sent'[q] = sent[q]
  BY LogEffect
<1>2. \A m, d : Handed(m, d) => Handed(m, d)'
  BY HandedGrows
<1>3. ASSUME NEW q \in Proc, NEW d \in Proc, NEW n \in DOMAIN sent'[q], sent'[q][n] = d
      PROVE  Placed(q, n, d)'
  <2>1. CASE q = p /\ n = Len(sent[p]) + 1
    BY <1>1, <2>1 DEF Placed
  <2>2. CASE ~(q = p /\ n = Len(sent[p]) + 1)
    <3>1. n \in DOMAIN sent[q] /\ sent[q][n] = d
      BY <1>1, <1>3, <2>2, OneMore
    <3>2. Placed(q, n, d)
      BY <3>1 DEF MailAll, MailPlaced
    <3> QED BY <1>1, <3>2 DEF Placed, KeepsArrived
  <2> QED BY <2>1, <2>2
<1>4. ASSUME NEW d \in Proc, NEW x \in Message, Arrived(d)', s'.message[d] = x
      PROVE  x = HardInt \/ (Handed(x, d)' /\ IsNew(x, d)')
  <2>1. x = HardInt \/ (Handed(x, d) /\ IsNew(x, d))
    BY <1>4 DEF KeepsArrived, MailAll, MailArrived
  <2> QED BY <1>2, <2>1 DEF IsNew
<1>5. MailGot'
  <2>1. \A m, d : HandedIn(sent, s.flags, m, d) => HandedIn(sent', s'.flags, m, d)
    BY <1>2, HandedNow, HandedNext
  <2> QED BY <2>1, GotIn DEF MailAll
<1>6. MailOnce'
  BY DEF MailAll, MailOnce
<1> QED BY <1>3, <1>4, <1>5, <1>6 DEF MailAll, MailPlaced, MailArrived

\* p's message is put in the TCB of e.
LEMMA MailHands ==
  ASSUME TypeOK, MailAll, NEW p \in Proc, NEW e \in Proc, Log(p, e), got' = got,
         \A q \in Proc : Waiting(q)' <=> Waiting(q), ~Waiting(p),
         ~Arrived(e), Arrived(e)', s'.message[e] = Msg(p, Len(sent[p]) + 1),
         \A q \in Proc \ {e} : KeepsArrived(q)
  PROVE  MailAll'
<1>1. /\ Len(sent[p]) \in Nat /\ DOMAIN sent[p] = 1 .. Len(sent[p])
      /\ Len(sent'[p]) = Len(sent[p]) + 1 /\ DOMAIN sent'[p] = 1 .. Len(sent[p]) + 1
      /\ \A n \in 1 .. Len(sent[p]) : sent'[p][n] = sent[p][n]
      /\ sent'[p][Len(sent[p]) + 1] = e
      /\ \A q \in Proc \ {p} : sent'[q] = sent[q]
  BY LogEffect
<1>2. \A m, d : Handed(m, d) => Handed(m, d)'
  BY HandedGrows
<1>3. ASSUME NEW q \in Proc, NEW d \in Proc, NEW n \in DOMAIN sent'[q], sent'[q][n] = d
      PROVE  Placed(q, n, d)'
  <2>1. CASE q = p /\ n = Len(sent[p]) + 1
    BY <1>1, <1>3, <2>1 DEF Placed
  <2>2. CASE ~(q = p /\ n = Len(sent[p]) + 1)
    <3>1. n \in DOMAIN sent[q] /\ sent[q][n] = d
      BY <1>1, <1>3, <2>2, OneMore
    <3>2. Placed(q, n, d)
      BY <3>1 DEF MailAll, MailPlaced
    <3> QED BY <1>1, <3>2 DEF Placed, KeepsArrived
  <2> QED BY <2>1, <2>2
<1>4. ASSUME NEW d \in Proc, NEW x \in Message, Arrived(d)', s'.message[d] = x
      PROVE  x = HardInt \/ (Handed(x, d)' /\ IsNew(x, d)')
  <2>1. CASE d # e
    <3>1. x = HardInt \/ (Handed(x, d) /\ IsNew(x, d))
      BY <1>4, <2>1 DEF KeepsArrived, MailAll, MailArrived
    <3> QED BY <1>2, <3>1 DEF IsNew
  <2>2. CASE d = e
    <3>1. p \in Task /\ Len(sent[p]) + 1 \in Nat
      BY <1>1 DEF Task
    <3>2. x.m_source = p /\ x.n = Len(sent[p]) + 1
      BY <1>4, <2>2, <3>1, MsgFields
    <3>3. \A f : ~Handed(x, f)
      BY <1>1, <3>2 DEF Handed
    <3>4. IsNew(x, d)
      <4>1. \A i \in DOMAIN got[d] : got[d][i].n = 0 \/ Handed(got[d][i], d)
        BY DEF MailAll, MailGot
      <4>2. x.n # 0
        BY <1>1, <3>2
      <4> QED BY <3>3, <4>1, <4>2 DEF IsNew
    <3>5. Handed(x, d)'
      BY <1>1, <2>2, <3>2 DEF Handed, Waiting
    <3> QED BY <3>4, <3>5 DEF IsNew
  <2> QED BY <2>1, <2>2
<1>5. MailGot'
  <2>1. \A m, d : HandedIn(sent, s.flags, m, d) => HandedIn(sent', s'.flags, m, d)
    BY <1>2, HandedNow, HandedNext
  <2> QED BY <2>1, GotIn DEF MailAll
<1>6. MailOnce'
  BY DEF MailAll, MailOnce
<1> QED BY <1>3, <1>4, <1>5, <1>6 DEF MailAll, MailPlaced, MailArrived

-----------------------------------------------------------------------------
(* The steps of Next, by what they do.                                     *)

\* p may go on.
Runs(p) == p \in Proc /\ ~s.blocked[p] /\ s.panic = "none"

\* p's send to d would close a circle.
Refused(p, d) ==
  /\ Runs(p) /\ d \in Proc /\ p # d /\ s' = PANIC(s, "deadlock") /\ Log(p, d) /\ got' = got
  /\ peer' \in {peer, [peer EXCEPT ![p] = d]}
  /\ \E x \in {"user", "both"} : pc' = [pc EXCEPT ![p] = x] /\ (x = "both" => peer'[p] = d)

\* p joins the queue of d.
Joins(p, d) ==
  /\ Runs(p) /\ pc[p] = "user" /\ d \in Proc /\ p # d /\ ~detect_cycle(s, p, d)
  /\ s' = enqueue(s, p, d, Msg(p, Number(p))) /\ Log(p, d) /\ got' = got
  /\ peer' \in {peer, [peer EXCEPT ![p] = d]}
  /\ \E x \in {"send", "both"} : pc' = [pc EXCEPT ![p] = x] /\ (x = "both" => peer'[p] = d)

\* p hands its message to d.
Hands(p, d) ==
  /\ Runs(p) /\ pc[p] = "user" /\ d \in Proc /\ p # d /\ Expects(s, d, p)
  /\ HandOver(p, d, Msg(p, Number(p))) /\ Log(p, d) /\ got' = got

\* p waits for a message from src.
Waits(p, src, msg) ==
  /\ Runs(p) /\ pc[p] \in {"user", "both"} /\ src \in Task /\ src \notin Nobody /\ msg \in Message /\ msg.m_source = p
  /\ s' = wait_for(s, p, src, msg) /\ UNCHANGED <<sent, got>>
  /\ pc' = [pc EXCEPT ![p] = "receive"] /\ peer' = [peer EXCEPT ![p] = src]

\* p's receive finds an interrupt.
Notices(p, src, msg) ==
  /\ Runs(p) /\ src \in Task /\ pc[p] = "user" /\ msg \in Message /\ msg.n = 0
  /\ s' = take_interrupt(s, p) /\ sent' = sent
  /\ pc' = [pc EXCEPT ![p] = "user"] /\ peer' = [peer EXCEPT ![p] = src]
  /\ got' = [got EXCEPT ![p] = Append(got[p], msg)]

\* p takes the message of from.
Takes(p, src, from) ==
  /\ Runs(p) /\ src \in Task /\ from \in Proc /\ Sends(s, from, p)
  /\ pc[p] \in {"user", "both"}
  /\ s' = take(s, p, src, from) /\ sent' = sent
  /\ pc' = [pc EXCEPT ![p] = "user"] /\ peer' = [peer EXCEPT ![p] = src]
  /\ got' = [got EXCEPT ![p] = Append(got[p], s.message[from])]

\* What msg_receive can do.
LEMMA ReceiveEvents ==
  ASSUME ShapeInv, NEW p, Runs(p), pc[p] \in {"user", "both"}, NEW src \in Task, src \notin Nobody,
         NEW msg \in Message, msg.m_source = p, pc[p] = "both" => src \in Proc,
         msg.n = 0 \/ src \in Proc, sent' = sent, ReceiveOn(s, p, src, msg)
  PROVE  Waits(p, src, msg) \/ Notices(p, src, msg) \/ \E from \in Proc : Takes(p, src, from)
<1> DEFINE after == msg_receive(s, p, src, msg)
           from == Chosen(s, p, src)
<1>1. p \in Proc /\ ~s.blocked[p] /\ s \in State /\ TypeOK
  BY DEF ShapeInv, TypeOK, Runs
<1>2. /\ s' = after /\ peer' = [peer EXCEPT ![p] = src]
      /\ after.blocked[p] => pc' = [pc EXCEPT ![p] = "receive"] /\ got' = got
      /\ ~after.blocked[p] =>
           /\ pc' = [pc EXCEPT ![p] = "user"]
           /\ got' = [got EXCEPT ![p] = Append(got[p], Returned(s, p, src, msg))]
  BY DEF ReceiveOn
<1>3. CASE TakesInterrupt(s, p, src)
  <2>1. after = take_interrupt(s, p) /\ Returned(s, p, src, msg) = msg
    BY <1>3 DEF msg_receive, Returned
  <2>2. after.blocked[p] = s.blocked[p]
    BY <1>1, <2>1, InterruptEffect
  <2>3. src \notin Proc
    BY <1>3, Tasks DEF TakesInterrupt
  <2> HIDE DEF after
  <2> QED BY <1>1, <1>2, <2>1, <2>2, <2>3 DEF Notices
<1>4. CASE ~TakesInterrupt(s, p, src) /\ from # NO_TASK
  <2>1. after = take(s, p, src, from) /\ Returned(s, p, src, msg) = s.message[from]
    BY <1>4 DEF msg_receive, Returned
  <2>2. from \in Proc /\ Sends(s, from, p)
    <3>1. CASE src = ANY_TASK
      <4>1. PICK w : IsQueue(s, p, w)
        BY <1>1, QueuesAre DEF ShapeInv
      <4>2. from = s.sending_queue[p]
        BY <3>1 DEF Chosen
      <4>3. w # << >> /\ from = w[1] /\ w \in Seq(Proc) /\ 1 \in DOMAIN w
        BY <1>4, <4>1, <4>2 DEF IsQueue, IsList
      <4>4. from \in Proc
        BY <4>3
      <4> QED BY <4>1, <4>3, <4>4 DEF IsQueue
    <3>2. CASE src # ANY_TASK
      <4>1. src \in Proc
        BY <1>4, <3>2 DEF TakesInterrupt, Task, Nobody
      <4>2. from = src /\ Sends(s, src, p)
        BY <1>4, <3>2 DEF Chosen
      <4> QED BY <4>1, <4>2
    <3> QED BY <3>1, <3>2
  <2> HIDE DEF after, from
  <2>3. /\ from # p
        /\ \E w : \E m \in DOMAIN w : IsQueue(s, p, w) /\ Served(s, after, p, w, m, from)
    BY <1>1, <2>1, <2>2, SenderServed
  <2>4. ~after.blocked[p]
    BY <1>1, <2>3 DEF Served, OnlyTouches, Same
  <2> QED BY <1>1, <1>2, <2>1, <2>2, <2>4 DEF Takes
<1>5. CASE ~TakesInterrupt(s, p, src) /\ from = NO_TASK
  <2>1. after = wait_for(s, p, src, msg)
    BY <1>5 DEF msg_receive
  <2>2. s.flags[p] = {}
    BY <1>1, RunnerIdle
  <2> HIDE DEF after
  <2>3. after.blocked[p]
    BY <1>1, <2>1, <2>2, WaitEffect
  <2> QED BY <1>1, <1>2, <2>1, <2>3 DEF Waits
<1> QED BY <1>3, <1>4, <1>5

\* What msg_send can do, ...
LEMMA SendCases ==
  ASSUME ShapeInv, NEW p, Runs(p), NEW d \in Proc, p # d, NEW after,
         after = msg_send(s, p, d, Msg(p, Number(p)))
  PROVE  \/ /\ after = PANIC(s, "deadlock") /\ ~after.blocked[p] /\ after.panic # "none"
         \/ /\ ~detect_cycle(s, p, d) /\ after = enqueue(s, p, d, Msg(p, Number(p)))
            /\ after.blocked[p]
         \/ /\ Expects(s, d, p) /\ OnlyTouches(s, after, d) /\ SameLinks(s, after)
            /\ Woken(s, after, d, Msg(p, Number(p)))
            /\ ~after.blocked[p] /\ after.panic = "none"
<1> DEFINE msg == Msg(p, Number(p))
<1>1. p \in Proc /\ ~s.blocked[p] /\ s \in State /\ TypeOK /\ s.panic = "none"
  BY DEF ShapeInv, TypeOK, Runs
<1>2. s.flags[p] = {}
  BY <1>1, RunnerIdle
<1>3. msg \in Message
  <2>1. Number(p) \in Nat /\ p \in Task
    BY <1>1 DEF Number, TypeOK, Task
  <2> QED BY <2>1, MsgFields
<1> HIDE DEF msg
<1>4. CASE detect_cycle(s, p, d)
  <2>1. after = PANIC(s, "deadlock")
    BY <1>4 DEF msg_send
  <2>2. after = [s EXCEPT !.panic = "deadlock"]
    BY <1>1, <2>1 DEF PANIC
  <2>3. after.blocked = s.blocked /\ after.panic = "deadlock"
    BY <1>1, <2>2 DEF State
  <2> QED BY <1>1, <2>1, <2>3
<1>5. CASE ~detect_cycle(s, p, d) /\ Expects(s, d, p)
  <2>1. after = deliver(s, p, d, msg)
    BY <1>5 DEF msg_send, msg
  <2>2. /\ s.flags[d] = {RECEIVING} /\ s.blocked[d] /\ s.message[d].m_source # PID_0
    BY <1>1, <1>5, Expecting, Tasks
  <2>3. OnlyTouches(s, after, d) /\ SameLinks(s, after) /\ Woken(s, after, d, msg)
    BY <1>1, <1>3, <2>1, <2>2, DeliverEffect DEF Woken
  <2>4. ~after.blocked[p] /\ after.panic = "none"
    BY <1>1, <2>3 DEF OnlyTouches, Same
  <2> QED BY <1>5, <2>3, <2>4 DEF msg
<1>6. CASE ~detect_cycle(s, p, d) /\ ~Expects(s, d, p)
  <2>1. after = enqueue(s, p, d, msg)
    BY <1>6 DEF msg_send, msg
  <2>2. PICK w : IsQueue(s, d, w)
    BY QueuesAre DEF ShapeInv
  <2>3. after.blocked[p]
    BY <1>1, <1>2, <1>3, <2>1, <2>2, EnqueueEffect
  <2> QED BY <1>6, <2>1, <2>3 DEF msg
<1> QED BY <1>4, <1>5, <1>6

\* ... in a call that only sends, ...
LEMMA SendEvents ==
  ASSUME ShapeInv, NEW p \in Proc, NEW d \in Proc, sendrec_send(p, d)
  PROVE  Refused(p, d) \/ Joins(p, d) \/ Hands(p, d)
<1> DEFINE msg == Msg(p, Number(p))
<1>1. /\ Runs(p) /\ pc[p] = "user" /\ p # d /\ s' = msg_send(s, p, d, msg) /\ Log(p, d) /\ got' = got /\ peer' = peer
      /\ s'.blocked[p] => pc' = [pc EXCEPT ![p] = "send"]
      /\ ~s'.blocked[p] => pc' = [pc EXCEPT ![p] = "user"]
  BY DEF sendrec_send, Running, MaySend, Runs
<1>2. p \in Proc /\ s.panic = "none"
  BY <1>1 DEF Runs
<1>3. \/ /\ s' = PANIC(s, "deadlock") /\ ~s'.blocked[p]
      \/ /\ ~detect_cycle(s, p, d) /\ s' = enqueue(s, p, d, msg) /\ s'.blocked[p]
      \/ /\ Expects(s, d, p) /\ OnlyTouches(s, s', d) /\ SameLinks(s, s')
         /\ Woken(s, s', d, msg) /\ ~s'.blocked[p] /\ s'.panic = "none"
  BY <1>1, SendCases
<1>4. CASE s' = PANIC(s, "deadlock") /\ ~s'.blocked[p]
  BY <1>1, <1>4 DEF Refused
<1>5. CASE ~detect_cycle(s, p, d) /\ s' = enqueue(s, p, d, msg) /\ s'.blocked[p]
  BY <1>1, <1>5 DEF Joins
<1>6. CASE /\ Expects(s, d, p) /\ OnlyTouches(s, s', d) /\ SameLinks(s, s')
           /\ Woken(s, s', d, msg) /\ ~s'.blocked[p] /\ s'.panic = "none"
  <2>1. HandOver(p, d, msg)
    BY <1>1, <1>2, <1>6 DEF HandOver, OnlyTouches
  <2> QED BY <1>1, <1>6, <2>1 DEF Hands
<1> QED BY <1>3, <1>4, <1>5, <1>6

\* ... and in one that sends and receives.
LEMMA BothEvents ==
  ASSUME ShapeInv, NEW p \in Proc, NEW d \in Proc, sendrec_both(p, d)
  PROVE  Refused(p, d) \/ Joins(p, d) \/ Hands(p, d)
<1> DEFINE msg == Msg(p, Number(p))
           after == msg_send(s, p, d, msg)
<1>1. /\ Runs(p) /\ pc[p] = "user" /\ p # d /\ Log(p, d)
      /\ after.blocked[p] \/ after.panic # "none" =>
           /\ s' = after /\ pc' = [pc EXCEPT ![p] = "both"]
           /\ peer' = [peer EXCEPT ![p] = d] /\ got' = got
      /\ ~(after.blocked[p] \/ after.panic # "none") => ReceiveOn(after, p, d, msg)
  BY DEF sendrec_both, Running, MaySend, Runs
<1>2. /\ p \in Proc /\ s.panic = "none" /\ s \in State /\ TypeOK /\ ~s.blocked[p]
      /\ peer \in [Proc -> Task]
  BY <1>1 DEF Runs, ShapeInv, TypeOK
<1>3. msg \in Message
  <2>1. Number(p) \in Nat /\ p \in Task
    BY <1>2 DEF Number, TypeOK, Task
  <2> QED BY <2>1, MsgFields
<1> HIDE DEF msg, after
<1>4. \/ /\ after = PANIC(s, "deadlock") /\ ~after.blocked[p] /\ after.panic # "none"
      \/ /\ ~detect_cycle(s, p, d) /\ after = enqueue(s, p, d, msg) /\ after.blocked[p]
      \/ /\ Expects(s, d, p) /\ OnlyTouches(s, after, d) /\ SameLinks(s, after)
         /\ Woken(s, after, d, msg) /\ ~after.blocked[p] /\ after.panic = "none"
  BY <1>1, SendCases DEF after, msg
<1>5. CASE after = PANIC(s, "deadlock") /\ ~after.blocked[p] /\ after.panic # "none"
  <2>1. peer'[p] = d
    BY <1>1, <1>2, <1>5
  <2> QED BY <1>1, <1>5, <2>1 DEF Refused
<1>6. CASE ~detect_cycle(s, p, d) /\ after = enqueue(s, p, d, msg) /\ after.blocked[p]
  <2>1. peer'[p] = d
    BY <1>1, <1>2, <1>6
  <2> QED BY <1>1, <1>6, <2>1 DEF Joins, msg
<1>7. CASE /\ Expects(s, d, p) /\ OnlyTouches(s, after, d) /\ SameLinks(s, after)
           /\ Woken(s, after, d, msg) /\ ~after.blocked[p] /\ after.panic = "none"
  <2>1. ReceiveOn(after, p, d, msg) /\ after \in State /\ d \in Task
    BY <1>1, <1>7 DEF OnlyTouches, Task
  <2>2. msg_receive(after, p, d, msg) = wait_for(after, p, d, msg)
    <3>1. ~TakesInterrupt(after, p, d)
      BY Tasks DEF TakesInterrupt
    <3>2. SENDING \notin after.flags[d] /\ d # ANY_TASK
      BY <1>7, Tasks DEF Woken
    <3>3. Chosen(after, p, d) = NO_TASK
      BY <3>2 DEF Chosen, Sends
    <3> QED BY <3>1, <3>3 DEF msg_receive
  <2>3. s' = wait_for(after, p, d, msg)
    BY <2>1, <2>2 DEF ReceiveOn
  <2>4. s.flags[p] = {} /\ after.flags[p] = {} /\ after.sendto[p] = s.sendto[p]
    BY <1>1, <1>2, <1>7, RunnerIdle DEF OnlyTouches, Same
  <2>5. OnlyTouches(after, s', p) /\ SameLinks(after, s') /\ Receives(after, s', p, d, msg)
    BY <1>3, <2>1, <2>3, <2>4, WaitEffect DEF Receives
  <2>6. s'.blocked[p]
    BY <2>5 DEF Receives
  <2>7. pc' = [pc EXCEPT ![p] = "receive"] /\ peer' = [peer EXCEPT ![p] = d] /\ got' = got
    BY <2>1, <2>2, <2>3, <2>6 DEF ReceiveOn
  <2>8. /\ s' \in State /\ s'.panic = s.panic /\ SameLinks(s, s')
        /\ \A q \in Proc \ {p, d} : Same(s, s', q)
    BY <1>2, <1>7, <2>5 DEF OnlyTouches, SameLinks, Same
  <2>9. Woken(s, s', d, msg) /\ Receives(s, s', p, d, msg)
    BY <1>1, <1>7, <2>4, <2>5 DEF OnlyTouches, Same, Woken, Receives
  <2>10. HandOver(p, d, msg)
    BY <2>7, <2>8, <2>9 DEF HandOver
  <2> QED BY <1>1, <1>7, <2>7, <2>10 DEF Hands, msg
<1> QED BY <1>4, <1>5, <1>6, <1>7

\* Every step of Next is one of these, a return or an interrupt.
LEMMA NextEvents ==
  ASSUME ShapeInv, Next
  PROVE  \/ \E p, d \in Proc : Refused(p, d) \/ Joins(p, d) \/ Hands(p, d)
         \/ \E p \in Proc, src \in Task, msg \in Message : Waits(p, src, msg) \/ Notices(p, src, msg)
         \/ \E p, from \in Proc, src \in Task : Takes(p, src, from)
         \/ \E p \in Proc : sendrec_sent(p) \/ sendrec_received(p)
         \/ \E p \in Interrupted : interrupt(p)
<1>1. CASE \E p, d \in Proc : sendrec_send(p, d) \/ sendrec_both(p, d)
  BY <1>1, SendEvents, BothEvents
<1>2. ASSUME NEW p \in Proc, NEW src \in (Proc \ {p}) \cup {ANY_TASK, INTR_TASK}, sendrec_receive(p, src)
      PROVE  \/ \E m \in Message : Waits(p, src, m) \/ Notices(p, src, m)
             \/ \E from \in Proc : Takes(p, src, from)
  <2>1. Runs(p) /\ pc[p] = "user" /\ sent' = sent /\ ReceiveOn(s, p, src, Buffer(p))
    BY <1>2 DEF sendrec_receive, Running, Runs
  <2>2. src \in Task /\ src \notin Nobody /\ p \in Task /\ 0 \in Nat
    BY Tasks DEF Task, Nobody
  <2>3. Buffer(p) \in Message /\ Buffer(p).m_source = p /\ Buffer(p).n = 0
    BY <2>2, MsgFields DEF Buffer
  <2> QED BY <2>1, <2>2, <2>3, ReceiveEvents
<1>3. ASSUME NEW p \in Proc, sendrec_both_sent(p)
      PROVE  \E src \in Task : \/ \E m \in Message : Waits(p, src, m) \/ Notices(p, src, m)
                               \/ \E from \in Proc : Takes(p, src, from)
  <2> DEFINE msg == Msg(p, Len(sent[p]))
  <2>1. Runs(p) /\ pc[p] = "both" /\ sent' = sent /\ ReceiveOn(s, p, peer[p], msg)
    BY <1>3 DEF sendrec_both_sent, Running, Runs
  <2>2. CallOf(p) /\ sent \in [Proc -> Seq(Proc)]
    BY OneByOne DEF ShapeInv, TypeOK
  <2>3. peer[p] \in Proc /\ peer[p] \in Task /\ peer[p] \notin Nobody /\ p \in Task /\ Len(sent[p]) \in Nat
    BY <2>1, <2>2, Tasks DEF CallOf, Task, Nobody
  <2>4. msg \in Message /\ msg.m_source = p
    BY <2>3, MsgFields
  <2> HIDE DEF msg
  <2> QED BY <2>1, <2>3, <2>4, ReceiveEvents
<1>4. \A p \in Proc : (Proc \ {p}) \cup {ANY_TASK, INTR_TASK} \subseteq Task
  BY DEF Task
<1>5. CASE \E p \in Proc : \E src \in (Proc \ {p}) \cup {ANY_TASK, INTR_TASK} : sendrec_receive(p, src)
  BY <1>2, <1>4, <1>5
<1>6. CASE \E p \in Proc : sendrec_both_sent(p)
  BY <1>3, <1>6
<1>7. CASE \E p \in Proc : sendrec_sent(p) \/ sendrec_received(p)
  BY <1>7
<1>8. CASE \E p \in Interrupted : interrupt(p)
  BY <1>8
<1> QED BY <1>1, <1>5, <1>6, <1>7, <1>8 DEF Next, Call, Resume

-----------------------------------------------------------------------------
(* Every step keeps the invariant.                                         *)

\* What the invariant says, ...
LEMMA InvSays ==
  ASSUME IpcInv
  PROVE  ShapeInv /\ TypeOK /\ (s.panic = "none" => MailAll)
BY MailParts DEF IpcInv, ShapeInv

\* ... and what establishes it.
LEMMA InvFrom ==
  ASSUME ShapeInv', s'.panic = "none" => MailAll'
  PROVE  IpcInv'
<1>1. TypeOK'
  BY DEF ShapeInv
<1>2. s'.panic = "none" => Mail'
  BY <1>1, MailPartsNext
<1> QED BY <1>2 DEF IpcInv, ShapeInv

\* A process whose TCB and place stay has no part in the step.
LEMMA NoPart ==
  ASSUME NEW q \in Proc, Same(s, s', q), pc'[q] = pc[q]
  PROVE  KeepsArrived(q) /\ (Waiting(q)' <=> Waiting(q))
BY DEF Same, KeepsArrived, Waiting, Arrived

\* A send that is refused.
LEMMA RefusedKeeps ==
  ASSUME IpcInv, NEW p, NEW d, Refused(p, d)
  PROVE  IpcInv'
<1>1. ShapeInv /\ p \in Proc /\ ~s.blocked[p] /\ s.panic = "none"
  BY InvSays DEF Refused, Runs
<1>2. PICK x \in {"user", "both"} : pc' = [pc EXCEPT ![p] = x] /\ (x = "both" => peer'[p] = d)
  BY DEF Refused
<1>3. ShapeInv' /\ s'.panic = "deadlock"
  BY <1>1, <1>2, PanicShape DEF Refused
<1> QED BY <1>3, InvFrom

\* A send that blocks.
LEMMA JoinsKeeps ==
  ASSUME IpcInv, NEW p, NEW d, Joins(p, d)
  PROVE  IpcInv'
<1>1. /\ ShapeInv /\ TypeOK /\ MailAll /\ p \in Proc /\ d \in Proc /\ ~s.blocked[p] /\ s.panic = "none"
      /\ pc[p] = "user" /\ s \in State /\ pc \in [Proc -> {"user", "send", "both", "receive"}]
  BY InvSays DEF Joins, Runs, TypeOK
<1>2. PICK x \in {"send", "both"} : pc' = [pc EXCEPT ![p] = x] /\ (x = "both" => peer'[p] = d)
  BY DEF Joins
<1>3. ShapeInv'
  BY <1>1, <1>2, EnqueueShape DEF Joins
<1>4. s.flags[p] = {}
  BY <1>1, RunnerIdle
<1>5. OnlyTouches(s, s', p) /\ s'.flags[p] = {SENDING} /\ s'.blocked[p]
  <2>1. PICK w : IsQueue(s, d, w)
    BY <1>1, QueuesAre DEF ShapeInv
  <2>2. Msg(p, Number(p)) \in Message
    <3>1. Number(p) \in Nat /\ p \in Task
      BY <1>1 DEF Number, TypeOK, Task
    <3> QED BY <3>1, MsgFields
  <2>3. s' = enqueue(s, p, d, Msg(p, Number(p)))
    BY DEF Joins
  <2> QED BY <1>1, <1>4, <2>1, <2>2, <2>3, EnqueueEffect
<1>6. \A q \in Proc \ {p} : KeepsArrived(q) /\ (Waiting(q)' <=> Waiting(q))
  <2>1. \A q \in Proc \ {p} : Same(s, s', q) /\ pc'[q] = pc[q]
    BY <1>1, <1>2, <1>5 DEF OnlyTouches
  <2> QED BY <2>1, NoPart
<1>7. KeepsArrived(p) /\ ~Waiting(p) /\ Waiting(p)'
  BY <1>1, <1>4, <1>5 DEF KeepsArrived, Waiting, Arrived
<1>8. MailAll'
  BY <1>1, <1>6, <1>7, MailQueues DEF Joins
<1> QED BY <1>3, <1>8, InvFrom

\* A send to a process that waits for it.
LEMMA HandsKeeps ==
  ASSUME IpcInv, NEW p, NEW d, Hands(p, d)
  PROVE  IpcInv'
<1> DEFINE msg == Msg(p, Number(p))
<1>1. /\ ShapeInv /\ TypeOK /\ MailAll /\ p \in Proc /\ d \in Proc /\ ~s.blocked[p] /\ s.panic = "none" /\ p # d
      /\ pc[p] = "user" /\ Expects(s, d, p) /\ HandOver(p, d, msg) /\ Log(p, d) /\ got' = got
      /\ pc \in [Proc -> {"user", "send", "both", "receive"}]
  BY InvSays DEF Hands, Runs, TypeOK
<1>2. ShapeInv'
  BY <1>1, HandOverShape
<1>3. s.flags[p] = {} /\ s.flags[d] = {RECEIVING} /\ s.blocked[d] /\ pc[d] = "receive"
  BY <1>1, RunnerIdle, Expecting
<1>4. /\ s'.message[d] = Msg(p, Len(sent[p]) + 1) /\ s'.flags[d] = {} /\ ~s'.blocked[d]
  BY <1>1 DEF HandOver, Woken, Number
<1>5. /\ \A q \in Proc \ {p, d} : Same(s, s', q) /\ pc'[q] = pc[q]
      /\ pc'[d] = "receive"
  BY <1>1, <1>3 DEF HandOver
<1>6. /\ s'.flags[p] \in {{}, {RECEIVING}} /\ (pc'[p] = "user" \/ s'.blocked[p])
  BY <1>1, <1>3 DEF HandOver, Same, Receives
<1>7. KeepsArrived(p) /\ ~Waiting(p) /\ ~Waiting(p)'
  BY <1>1, <1>3, <1>6 DEF KeepsArrived, Waiting, Arrived, SENDING, RECEIVING
<1>8. ~Arrived(d) /\ Arrived(d)' /\ ~Waiting(d) /\ ~Waiting(d)'
  BY <1>3, <1>4, <1>5 DEF Waiting, Arrived, SENDING, RECEIVING
<1>9. \A q \in Proc \ {p, d} : KeepsArrived(q) /\ (Waiting(q)' <=> Waiting(q))
  BY <1>5, NoPart
<1>10. (\A q \in Proc : Waiting(q)' <=> Waiting(q)) /\ \A q \in Proc \ {d} : KeepsArrived(q)
  BY <1>7, <1>8, <1>9
<1>11. MailAll'
  BY <1>1, <1>4, <1>7, <1>8, <1>10, MailHands
<1> QED BY <1>2, <1>11, InvFrom

\* A receive that blocks.
LEMMA WaitsKeeps ==
  ASSUME IpcInv, NEW p, NEW src, NEW msg, Waits(p, src, msg)
  PROVE  IpcInv'
<1>1. /\ ShapeInv /\ TypeOK /\ MailAll /\ p \in Proc /\ ~s.blocked[p] /\ s.panic = "none" /\ pc[p] \in {"user", "both"}
      /\ src \in Task /\ src \notin Nobody /\ msg \in Message /\ msg.m_source = p
      /\ s' = wait_for(s, p, src, msg) /\ UNCHANGED <<sent, got>>
      /\ pc' = [pc EXCEPT ![p] = "receive"] /\ peer' = [peer EXCEPT ![p] = src]
      /\ pc \in [Proc -> {"user", "send", "both", "receive"}]
  BY InvSays DEF Waits, Runs, TypeOK
<1>2. ShapeInv' /\ OnlyTouches(s, s', p) /\ Receives(s, s', p, src, msg)
  BY <1>1, WaitShape
<1>3. s.flags[p] = {}
  BY <1>1, RunnerIdle
<1>4. \A q \in Proc \ {p} : KeepsArrived(q) /\ (Waiting(q)' <=> Waiting(q))
  <2>1. \A q \in Proc \ {p} : Same(s, s', q) /\ pc'[q] = pc[q]
    BY <1>1, <1>2 DEF OnlyTouches
  <2> QED BY <2>1, NoPart
<1>5. KeepsArrived(p) /\ ~Waiting(p) /\ ~Waiting(p)'
  BY <1>1, <1>2, <1>3 DEF KeepsArrived, Waiting, Arrived, Receives, SENDING, RECEIVING
<1>6. (\A q \in Proc : Waiting(q)' <=> Waiting(q)) /\ \A q \in Proc : KeepsArrived(q)
  BY <1>4, <1>5
<1>7. MailAll'
  BY <1>1, <1>6, MailStays
<1> QED BY <1>2, <1>7, InvFrom

\* A receive that finds an interrupt.
LEMMA NoticesKeeps ==
  ASSUME IpcInv, NEW p, NEW src, NEW msg, Notices(p, src, msg)
  PROVE  IpcInv'
<1>1. /\ ShapeInv /\ TypeOK /\ MailAll /\ p \in Proc /\ ~s.blocked[p] /\ s.panic = "none" /\ pc[p] = "user"
      /\ src \in Task /\ msg \in Message /\ msg.n = 0 /\ s' = take_interrupt(s, p) /\ sent' = sent
      /\ pc' = [pc EXCEPT ![p] = "user"] /\ peer' = [peer EXCEPT ![p] = src]
      /\ got' = [got EXCEPT ![p] = Append(got[p], msg)]
      /\ pc \in [Proc -> {"user", "send", "both", "receive"}]
      /\ got \in [Proc -> Seq(Message)]
  BY InvSays DEF Notices, Runs, TypeOK
<1>2. got' \in [Proc -> Seq(Message)]
  BY <1>1
<1>3. ShapeInv' /\ OnlyTouches(s, s', p) /\ s'.flags[p] = s.flags[p]
  BY <1>1, <1>2, InterruptShape
<1>4. \A q \in Proc \ {p} : KeepsArrived(q) /\ (Waiting(q)' <=> Waiting(q))
  <2>1. \A q \in Proc \ {p} : Same(s, s', q) /\ pc'[q] = pc[q]
    BY <1>1, <1>3 DEF OnlyTouches
  <2> QED BY <2>1, NoPart
<1>5. KeepsArrived(p) /\ (Waiting(p)' <=> Waiting(p))
  BY <1>1, <1>3 DEF KeepsArrived, Waiting, Arrived
<1>6. (\A q \in Proc : Waiting(q)' <=> Waiting(q)) /\ \A q \in Proc : KeepsArrived(q)
  BY <1>4, <1>5
<1>7. MailAll'
  BY <1>1, <1>6, MailZero
<1> QED BY <1>3, <1>7, InvFrom

\* A receive that takes the message of a sender.
LEMMA TakesKeeps ==
  ASSUME IpcInv, NEW p, NEW src, NEW from, Takes(p, src, from)
  PROVE  IpcInv'
<1>1. /\ ShapeInv /\ TypeOK /\ MailAll /\ p \in Proc /\ ~s.blocked[p] /\ s.panic = "none" /\ pc[p] \in {"user", "both"}
      /\ src \in Task /\ from \in Proc /\ Sends(s, from, p)
      /\ s' = take(s, p, src, from) /\ sent' = sent
      /\ pc' = [pc EXCEPT ![p] = "user"] /\ peer' = [peer EXCEPT ![p] = src]
      /\ got' = [got EXCEPT ![p] = Append(got[p], s.message[from])]
      /\ pc \in [Proc -> {"user", "send", "both", "receive"}]
      /\ got \in [Proc -> Seq(Message)] /\ s.message[from] \in Message
  BY InvSays DEF Takes, Runs, TypeOK, State
<1>2. got' \in [Proc -> Seq(Message)]
  BY <1>1
<1>3. ShapeInv' /\ OnlyTouches(s, s', from) /\ s'.flags[from] = {} /\ ~s'.blocked[from]
  BY <1>1, <1>2, TakeShape
<1>4. /\ from # p /\ s.flags[from] = {SENDING} /\ pc[from] \in {"send", "both"}
      /\ s.message[from] = Msg(from, Len(sent[from]))
      /\ sent[from] # << >> /\ sent[from][Len(sent[from])] = p
  BY <1>1, SenderServed
<1>5. \A q \in Proc \ {p, from} : KeepsArrived(q) /\ (Waiting(q)' <=> Waiting(q))
  <2>1. \A q \in Proc \ {p, from} : Same(s, s', q) /\ pc'[q] = pc[q]
    BY <1>1, <1>3 DEF OnlyTouches
  <2> QED BY <2>1, NoPart
<1>6. KeepsArrived(p) /\ (Waiting(p)' <=> Waiting(p))
  BY <1>1, <1>3, <1>4 DEF KeepsArrived, Waiting, Arrived, OnlyTouches, Same
<1>7. KeepsArrived(from) /\ Waiting(from) /\ ~Waiting(from)'
  BY <1>1, <1>3, <1>4 DEF KeepsArrived, Waiting, Arrived
<1>8. (\A q \in Proc \ {from} : Waiting(q)' <=> Waiting(q)) /\ \A q \in Proc : KeepsArrived(q)
  BY <1>5, <1>6, <1>7
<1>9. \E m : IsLast(m, from, p) /\ got' = [got EXCEPT ![p] = Append(got[p], m)]
  <2>1. from \in Task /\ Len(sent[from]) \in Nat
    BY <1>1 DEF Task, TypeOK
  <2>2. s.message[from].m_source = from /\ s.message[from].n = Len(sent[from])
    BY <1>4, <2>1, MsgFields
  <2> QED BY <1>1, <1>4, <2>2 DEF IsLast
<1>10. MailAll'
  BY <1>1, <1>7, <1>8, <1>9, MailTakes
<1> QED BY <1>3, <1>10, InvFrom

\* msg_send returns.
LEMMA SentKeeps ==
  ASSUME IpcInv, NEW p \in Proc, sendrec_sent(p)
  PROVE  IpcInv'
<1>1. /\ ShapeInv /\ TypeOK /\ MailAll /\ ~s.blocked[p] /\ s.panic = "none" /\ pc[p] = "send"
      /\ s' = s /\ sent' = sent /\ peer' = peer /\ got' = got /\ pc' = [pc EXCEPT ![p] = "user"]
      /\ pc \in [Proc -> {"user", "send", "both", "receive"}] /\ got \in [Proc -> Seq(Message)]
  BY InvSays DEF sendrec_sent, Running, TypeOK
<1>2. ShapeInv'
  BY <1>1, LocalShape
<1>3. \A q \in Proc : (Waiting(q)' <=> Waiting(q)) /\ KeepsArrived(q)
  BY <1>1 DEF Waiting, KeepsArrived, Arrived
<1>4. MailAll'
  BY <1>1, <1>3, MailStays
<1> QED BY <1>2, <1>4, InvFrom

\* msg_receive returns.
LEMMA ReceivedKeeps ==
  ASSUME IpcInv, NEW p \in Proc, sendrec_received(p)
  PROVE  IpcInv'
<1>1. /\ ShapeInv /\ TypeOK /\ MailAll /\ ~s.blocked[p] /\ s.panic = "none" /\ pc[p] = "receive"
      /\ s' = s /\ sent' = sent /\ peer' = peer /\ pc' = [pc EXCEPT ![p] = "user"]
      /\ got' = [got EXCEPT ![p] = Append(got[p], s.message[p])]
      /\ pc \in [Proc -> {"user", "send", "both", "receive"}] /\ got \in [Proc -> Seq(Message)]
      /\ s.message[p] \in Message
  BY InvSays DEF sendrec_received, Running, TypeOK, State
<1>2. got' \in [Proc -> Seq(Message)]
  BY <1>1
<1>3. ShapeInv'
  BY <1>1, <1>2, LocalShape
<1>4. \A q \in Proc \ {p} : KeepsArrived(q)
  BY <1>1 DEF KeepsArrived, Arrived
<1>5. Arrived(p) /\ ~Arrived(p)' /\ \A q \in Proc : Waiting(q)' <=> Waiting(q)
  BY <1>1 DEF Arrived, Waiting
<1>6. MailAll'
  BY <1>1, <1>4, <1>5, MailPicks
<1> QED BY <1>3, <1>6, InvFrom

\* An interrupt handler notifies a task.
LEMMA InterruptKeeps ==
  ASSUME IpcInv, NEW p \in Interrupted, interrupt(p)
  PROVE  IpcInv'
<1>1. /\ p \in Proc /\ s.panic = "none" /\ ShapeInv /\ TypeOK /\ MailAll /\ s' = notify_intr(s, p)
      /\ UNCHANGED <<pc, peer, sent, got>>
  BY InvSays, IpcBounds DEF interrupt
<1>2. CASE RECEIVING \in s.flags[p] /\ s.recvfrom[p] \in {INTR_TASK, ANY_TASK}
  <2>1. /\ ShapeInv' /\ Touches(s, s', p) /\ Woken(s, s', p, HardInt)
        /\ pc[p] = "receive" /\ s.flags[p] = {RECEIVING}
    BY <1>1, <1>2, WakeShape
  <2>2. FlagsOf(p)
    BY <1>1, OneByOne DEF ShapeInv
  <2>3. ~Arrived(p) /\ s'.message[p] = HardInt /\ ~Waiting(p) /\ ~Waiting(p)'
    BY <2>1, <2>2 DEF Arrived, Woken, Waiting, FlagsOf, SENDING, RECEIVING
  <2>4. \A q \in Proc \ {p} : KeepsArrived(q) /\ (Waiting(q)' <=> Waiting(q))
    <3>1. \A q \in Proc \ {p} : Same(s, s', q) /\ pc'[q] = pc[q]
      BY <1>1, <2>1 DEF Touches
    <3> QED BY <3>1, NoPart
  <2>5. MailAll'
    BY <1>1, <2>3, <2>4, MailStays
  <2> QED BY <2>1, <2>5, InvFrom
<1>3. CASE ~(RECEIVING \in s.flags[p] /\ s.recvfrom[p] \in {INTR_TASK, ANY_TASK})
  <2>1. /\ ShapeInv' /\ OnlyTouches(s, s', p) /\ s'.flags[p] = s.flags[p]
        /\ s'.blocked[p] = s.blocked[p] /\ s'.message[p] = s.message[p]
    BY <1>1, <1>3, NotifyShape
  <2>2. \A q \in Proc : KeepsArrived(q) /\ (Waiting(q)' <=> Waiting(q))
    BY <1>1, <2>1 DEF OnlyTouches, Same, KeepsArrived, Waiting, Arrived
  <2>3. MailAll'
    BY <1>1, <2>2, MailStays
  <2> QED BY <2>1, <2>3, InvFrom
<1> QED BY <1>2, <1>3

-----------------------------------------------------------------------------
(* The theorems.                                                           *)

\* The invariant holds at the start, when no process has made a call.
LEMMA IpcInitially == Init => IpcInv
<1> SUFFICES ASSUME Init PROVE IpcInv
  OBVIOUS
<1>1. /\ s.flags = [p \in Proc |-> {}] /\ s.recvfrom = [p \in Proc |-> PID_0]
      /\ s.sendto = [p \in Proc |-> PID_0] /\ s.sending_queue = [p \in Proc |-> NO_TASK]
      /\ s.next_sending = [p \in Proc |-> NO_TASK] /\ s.message = [p \in Proc |-> ResetMsg]
      /\ s.intr_present = [p \in Proc |-> FALSE] /\ s.blocked = [p \in Proc |-> FALSE]
      /\ s.panic = "none"
  BY DEF Init
<1>2. /\ pc = [p \in Proc |-> "user"] /\ peer = [p \in Proc |-> NO_TASK]
      /\ sent = [p \in Proc |-> << >>] /\ got = [p \in Proc |-> << >>]
  BY DEF Init
<1>3. TypeOK
  <2>1. ResetMsg \in Message
    BY DEF ResetMsg, Msg, Message, Task
  <2> HIDE DEF ResetMsg
  <2>2. s \in State
    BY <2>1 DEF Init, State, Task, Panics
  <2> QED BY <1>2, <2>2 DEF TypeOK, Task
<1>4. FlagsFit /\ CallsFit
  BY <1>1, <1>2 DEF FlagsFit, CallsFit, Nobody, SENDING, RECEIVING
<1>5. \A p, q \in Proc : ~Sends(s, p, q)
  BY <1>1 DEF Sends
<1>6. Acyclic(s)
  BY <1>5 DEF Acyclic
<1>7. Queues(s)
  <2>1. ASSUME NEW p \in Proc PROVE IsQueue(s, p, << >>)
    BY <1>1, <1>5 DEF IsQueue, IsList, IsInjective
  <2> QED BY <2>1, QueuesAre
<1>8. Mail
  BY <1>2 DEF Mail, Arrived
<1> QED BY <1>1, <1>3, <1>4, <1>6, <1>7, <1>8 DEF IpcInv, OnlyDeadlocksPanic

\* Every step, and every step that changes nothing, keeps the invariant.
LEMMA IpcStep == IpcInv /\ [Next]_vars => IpcInv'
<1> SUFFICES ASSUME IpcInv, [Next]_vars PROVE IpcInv'
  OBVIOUS
<1>1. CASE Next
  <2>1. ShapeInv
    BY InvSays
  <2> QED BY <1>1, <2>1, NextEvents, RefusedKeeps, JoinsKeeps, HandsKeeps, WaitsKeeps, NoticesKeeps,
             TakesKeeps, SentKeeps, ReceivedKeeps, InterruptKeeps
<1>2. CASE UNCHANGED vars
  <2>1. s' = s /\ pc' = pc /\ peer' = peer /\ sent' = sent /\ got' = got
    BY <1>2 DEF vars
  <2>2. TypeOK' /\ FlagsFit' /\ CallsFit' /\ OnlyDeadlocksPanic'
    BY <2>1 DEF IpcInv, TypeOK, FlagsFit, CallsFit, OnlyDeadlocksPanic
  <2>3. Acyclic(s)' /\ Queues(s)'
    <3>1. Acyclic(s') /\ Queues(s')
      BY <2>1 DEF IpcInv
    <3> QED BY <3>1 DEF Acyclic, Queues, IsQueue, IsList, Sends
  <2>4. Mail => Mail'
    BY <2>1 DEF Mail, Arrived, Handed
  <2> QED BY <2>1, <2>2, <2>3, <2>4 DEF IpcInv
<1> QED BY <1>1, <1>2

\* The invariant of message passing: the flags, the queues, the calls and the
\* messages of every reachable state fit together, whatever the number of
\* processes and of messages.
THEOREM IpcInvariance == Spec => []IpcInv
BY IpcInitially, IpcStep, PTL DEF Spec

\* detect_cycle refuses exactly the sends that would close a circle, and no
\* circle is ever closed.
THEOREM NoSendCycleTheorem == Spec => []NoSendCycle
<1>1. IpcInv => NoSendCycle
  <2>1. IpcInv => Edges(s) /\ Acyclic(s)
    BY DEF IpcInv, TypeOK, State, Edges
  <2> QED BY <2>1, CyclesFound
<1> QED BY <1>1, IpcInvariance, PTL

\* msg_send, msg_receive and sys_sendrec fail no assertion: their one panic is
\* the refusal of a circle.  notify_intr, which nobody calls, fails one, and
\* only for a task that has never had to wait to send: its p_sendto is the 0 of
\* a new TCB, and the assertion wants NO_TASK.
THEOREM IpcPanics == Spec => []OnlyDeadlocksPanic
<1>1. IpcInv => OnlyDeadlocksPanic
  BY DEF IpcInv
<1> QED BY <1>1, IpcInvariance, PTL

\* What the invariant says of a message's places.
LEMMA MessagePlaces ==
  ASSUME IpcInv, s.panic = "none", NEW p \in Proc, NEW n \in DOMAIN sent[p], NEW d, sent[p][n] = d,
         NEW m, m = Msg(p, n)
  PROVE  /\ d \in Proc /\ m.n # 0 /\ m # HardInt
         /\ AwaitsSend(p, n) <=> Waiting(p) /\ n = Len(sent[p])
         /\ AwaitsPickup(p, n) <=> Arrived(d) /\ s.message[d] = m
         /\ \A q \in Proc : \A i \in DOMAIN got[q] : got[q][i] = m => q = d
         /\ \/ AwaitsSend(p, n) /\ ~AwaitsPickup(p, n) /\ IsNew(m, d)
            \/ AwaitsPickup(p, n) /\ ~AwaitsSend(p, n) /\ IsNew(m, d)
            \/ /\ ~AwaitsSend(p, n) /\ ~AwaitsPickup(p, n)
               /\ \E i \in DOMAIN got[d] : got[d][i] = m
<1>1. ShapeInv /\ TypeOK /\ MailAll
  BY InvSays
<1>2. sent[p] \in Seq(Proc) /\ d \in Proc /\ n \in Nat /\ n # 0 /\ p \in Task
  BY <1>1 DEF TypeOK, Task
<1>3. m \in Message /\ m.n = n /\ m.m_source = p /\ HardInt.n = 0
  BY <1>2, MsgFields DEF HardInt, Msg
<1>4. FlagsOf(p) /\ CallOf(p)
  BY <1>1, OneByOne DEF ShapeInv
<1>5. Waiting(p) => s.message[p] = Msg(p, Len(sent[p])) /\ s.sendto[p] = sent[p][Len(sent[p])]
  BY <1>4 DEF Waiting, FlagsOf, CallOf, SENDING, RECEIVING
<1>6. Len(sent[p]) \in Nat /\ Msg(p, Len(sent[p])).n = Len(sent[p])
  BY <1>2, MsgFields
<1>7. AwaitsSend(p, n) <=> Waiting(p) /\ n = Len(sent[p])
  BY <1>3, <1>5, <1>6 DEF AwaitsSend, Waiting
<1>8. AwaitsPickup(p, n) <=> Arrived(d) /\ s.message[d] = m
  BY DEF AwaitsPickup, Arrived
<1>9. \A q : Handed(m, q) => q = d /\ ~(Waiting(p) /\ n = Len(sent[p]))
  BY <1>3 DEF Handed, Waiting
<1>10. \A q \in Proc : \A i \in DOMAIN got[q] : got[q][i] = m => Handed(m, q)
  BY <1>1, <1>2, <1>3 DEF MailAll, MailGot
<1>11. Arrived(d) /\ s.message[d] = m => Handed(m, d) /\ IsNew(m, d)
  BY <1>1, <1>2, <1>3 DEF MailAll, MailArrived
<1>12. Placed(p, n, d)
  BY <1>1, <1>2 DEF MailAll, MailPlaced
<1>13. (Waiting(p) /\ n = Len(sent[p])) => IsNew(m, d)
  BY <1>2, <1>9, <1>10 DEF IsNew
<1> QED BY <1>2, <1>3, <1>7, <1>8, <1>9, <1>10, <1>11, <1>12, <1>13 DEF Placed

\* Every message is handed over once, to its addressee, and until then it is
\* in exactly one TCB: with its sender, or waiting to be copied.
THEOREM ExactlyOnceTheorem == Spec => []ExactlyOnce
<1>1. IpcInv => ExactlyOnce
  <2> SUFFICES ASSUME IpcInv, s.panic = "none", NEW p \in Proc, NEW n \in 1 .. Len(sent[p]),
                      NEW m, m = Msg(p, n), NEW d, d = sent[p][n], NEW taken, taken = Taken(m)
               PROVE  \/ AwaitsSend(p, n) /\ taken = {} /\ ~AwaitsPickup(p, n)
                      \/ AwaitsPickup(p, n) /\ taken = {} /\ ~AwaitsSend(p, n)
                      \/ /\ Cardinality(taken) = 1 /\ ~AwaitsSend(p, n) /\ ~AwaitsPickup(p, n)
                         /\ \A e \in taken : e[1] = d
    BY DEF ExactlyOnce
  <2>1. n \in DOMAIN sent[p]
    BY DEF IpcInv, TypeOK
  <2>2. /\ d \in Proc /\ m.n # 0
        /\ \A q \in Proc : \A i \in DOMAIN got[q] : got[q][i] = m => q = d
        /\ \/ AwaitsSend(p, n) /\ ~AwaitsPickup(p, n) /\ IsNew(m, d)
           \/ AwaitsPickup(p, n) /\ ~AwaitsSend(p, n) /\ IsNew(m, d)
           \/ /\ ~AwaitsSend(p, n) /\ ~AwaitsPickup(p, n)
              /\ \E i \in DOMAIN got[d] : got[d][i] = m
    BY <2>1, MessagePlaces
  <2>3. taken = {<<d, i>> : i \in {j \in DOMAIN got[d] : got[d][j] = m}}
    BY <2>2 DEF Taken
  <2>4. IsNew(m, d) => taken = {}
    BY <2>3 DEF IsNew
  <2>5. ASSUME NEW i \in DOMAIN got[d], got[d][i] = m
        PROVE  Cardinality(taken) = 1 /\ \A e \in taken : e[1] = d
    <3>1. \A j \in DOMAIN got[d] : got[d][j] = m => j = i
      <4>1. MailOnce
        BY InvSays DEF MailAll
      <4> QED BY <2>2, <2>5, <4>1 DEF MailOnce
    <3>2. taken = {<<d, i>>}
      BY <2>3, <2>5, <3>1
    <3>3. Cardinality(taken) = 1
      BY <3>2, FS_Singleton
    <3> QED BY <3>2, <3>3
  <2> QED BY <2>2, <2>4, <2>5
<1> QED BY <1>1, IpcInvariance, PTL

-----------------------------------------------------------------------------
(* The order of the queues.                                                *)

\* Queue(p), before and after a step.
LEMMA QueueNow == TypeOK => \A p \in Proc : \A w : IsQueue(s, p, w) => Queue(p) = w
BY QueueIs DEF TypeOK, State, Links, IsQueue

\* The same, after a step.
LEMMA QueueNext == TypeOK' => \A p \in Proc : \A w : IsQueue(s', p, w) => Queue(p)' = w
<1>1. TypeOK' => (\A p \in Proc : \A w : IsQueue(s, p, w) => Queue(p) = w)'
  BY QueueNow, PTL
<1>2. \A p, w : IsQueue(s, p, w)' <=> IsQueue(s', p, w)
  BY DEF IsQueue, IsList, Sends
<1> QED BY <1>1, <1>2

\* v is w with one more at the end, or one less.
Follows(w, v) ==
  \/ v = w \/ \E x \in Proc : v = Append(w, x)
  \/ \E m \in DOMAIN w : WithoutAt(w, m, v)

QueueMoves(p) == \E w, v : IsQueue(s, p, w) /\ IsQueue(s', p, v) /\ Follows(w, v)

\* Who is ahead in v of somebody in w is so in w.
LEMMA NobodyOvertakes ==
  ASSUME NEW w \in Seq(Proc), NEW v \in Seq(Proc), IsInjective(v), Follows(w, v),
         NEW i \in DOMAIN v, NEW j \in DOMAIN v, i < j, NEW k \in DOMAIN w, w[k] = v[j]
  PROVE  \E a, b \in DOMAIN w : a < b /\ w[a] = v[i] /\ w[b] = v[j]
<1>1. /\ Len(w) \in Nat /\ DOMAIN w = 1 .. Len(w) /\ Len(v) \in Nat /\ DOMAIN v = 1 .. Len(v)
      /\ i \in Nat /\ j \in Nat /\ k \in Nat
  OBVIOUS
<1>2. CASE v = w
  BY <1>2
<1>3. ASSUME NEW x \in Proc, v = Append(w, x)
      PROVE  \E a, b \in DOMAIN w : a < b /\ w[a] = v[i] /\ w[b] = v[j]
  <2>1. DOMAIN v = 1 .. Len(w) + 1 /\ \A n \in 1 .. Len(w) : v[n] = w[n]
    BY <1>3, AppendFields
  <2>2. k \in DOMAIN v /\ v[k] = v[j]
    BY <1>1, <2>1
  <2>3. k = j
    BY <2>2 DEF IsInjective
  <2>4. i \in 1 .. Len(w) /\ j \in 1 .. Len(w)
    BY <1>1, <2>3
  <2> QED BY <1>1, <2>1, <2>4
<1>4. ASSUME NEW m \in DOMAIN w, WithoutAt(w, m, v)
      PROVE  \E a, b \in DOMAIN w : a < b /\ w[a] = v[i] /\ w[b] = v[j]
  <2> DEFINE at(n) == IF n < m THEN n ELSE n + 1
  <2>1. Len(v) = Len(w) - 1 /\ \A n \in 1 .. Len(w) - 1 : v[n] = w[at(n)]
    BY <1>4 DEF WithoutAt
  <2>2. i \in 1 .. Len(w) - 1 /\ j \in 1 .. Len(w) - 1 /\ m \in 1 .. Len(w)
    BY <1>1, <2>1
  <2>3. at(i) \in 1 .. Len(w) /\ at(j) \in 1 .. Len(w) /\ at(i) < at(j)
    BY <1>1, <2>2
  <2>4. v[i] = w[at(i)] /\ v[j] = w[at(j)]
    BY <2>1, <2>2
  <2> HIDE DEF at
  <2> QED BY <1>1, <2>3, <2>4
<1> QED BY <1>2, <1>3, <1>4 DEF Follows

\* A step that leaves the links and the senders alone.
LEMMA QueuesStay ==
  ASSUME ShapeInv, SameLinks(s, s'), \A q, e \in Proc : Sends(s', q, e) <=> Sends(s, q, e)
  PROVE  \A p \in Proc : QueueMoves(p)
<1>1. \A p \in Proc : \A w : IsQueue(s, p, w) => IsQueue(s', p, w)
  BY SameSends DEF ShapeInv
<1>2. \A p \in Proc : \E w : IsQueue(s, p, w)
  BY QueuesAre DEF ShapeInv
<1> QED BY <1>1, <1>2 DEF QueueMoves, Follows

\* The same when one process is concerned, and it sends neither before nor after.
LEMMA QueuesQuiet ==
  ASSUME ShapeInv, SameLinks(s, s'), NEW p \in Proc, Touches(s, s', p),
         SENDING \notin s.flags[p], SENDING \notin s'.flags[p]
  PROVE  \A q \in Proc : QueueMoves(q)
<1>1. \A q \in Proc \ {p} : \A e \in Proc : Sends(s', q, e) <=> Sends(s, q, e)
  BY DEF Touches, Same, Sends
<1>2. \A e \in Proc : Sends(s', p, e) <=> Sends(s, p, e)
  BY DEF Sends
<1> QED BY <1>1, <1>2, QueuesStay

\* No step of Next does more to a queue than add one at its end or remove one.
LEMMA NextMoves ==
  ASSUME IpcInv, Next
  PROVE  \A p \in Proc : QueueMoves(p)
<1>1. ShapeInv /\ TypeOK /\ s \in State
  BY InvSays DEF TypeOK
<1>2. ASSUME NEW p, NEW d, Refused(p, d) PROVE \A q \in Proc : QueueMoves(q)
  <2>1. s' = [s EXCEPT !.panic = "deadlock"]
    BY <1>2 DEF Refused, Runs, PANIC
  <2>2. SameLinks(s, s') /\ s'.flags = s.flags /\ s'.sendto = s.sendto
    BY <1>1, <2>1 DEF State, SameLinks
  <2> QED BY <1>1, <2>2, QueuesStay DEF Sends
<1>3. ASSUME NEW p, NEW d, Joins(p, d) PROVE \A q \in Proc : QueueMoves(q)
  <2>1. /\ p \in Proc /\ d \in Proc /\ s' = enqueue(s, p, d, Msg(p, Number(p))) /\ ~s.blocked[p]
    BY <1>3 DEF Joins, Runs
  <2>2. s.flags[p] = {} /\ \A q \in Proc : \E w : IsQueue(s, q, w)
    BY <1>1, <2>1, RunnerIdle, QueuesAre DEF ShapeInv
  <2>3. PICK w : IsQueue(s, d, w)
    BY <2>1, <2>2
  <2>4. Msg(p, Number(p)) \in Message
    <3>1. Number(p) \in Nat /\ p \in Task
      BY <1>1, <2>1 DEF Number, TypeOK, Task
    <3> QED BY <3>1, MsgFields
  <2>5. /\ IsQueue(s', d, Append(w, p))
        /\ \A q \in Proc \ {d} : \A v : IsQueue(s, q, v) => IsQueue(s', q, v)
    BY <1>1, <2>1, <2>2, <2>3, <2>4, EnqueueEffect
  <2>6. QueueMoves(d)
    BY <2>1, <2>3, <2>5 DEF QueueMoves, Follows
  <2>7. \A q \in Proc \ {d} : QueueMoves(q)
    BY <2>2, <2>5 DEF QueueMoves, Follows
  <2> QED BY <2>6, <2>7
<1>4. ASSUME NEW p, NEW d, Hands(p, d) PROVE \A q \in Proc : QueueMoves(q)
  <2>1. /\ p \in Proc /\ d \in Proc /\ Expects(s, d, p) /\ HandOver(p, d, Msg(p, Number(p)))
        /\ ~s.blocked[p]
    BY <1>4 DEF Hands, Runs
  <2>2. s.flags[p] = {} /\ s.flags[d] = {RECEIVING} /\ s'.flags[d] = {}
    BY <1>1, <2>1, RunnerIdle, Expecting DEF HandOver, Woken
  <2>3. SameLinks(s, s') /\ SENDING \notin s'.flags[p] /\ SENDING \notin s.flags[d]
    BY <2>1, <2>2 DEF HandOver, Same, Receives, SENDING, RECEIVING
  <2>4. \A q \in Proc \ {p, d} : \A e \in Proc : Sends(s', q, e) <=> Sends(s, q, e)
    BY <2>1 DEF HandOver, Same, Sends
  <2>5. \A q \in {p, d} : \A e \in Proc : Sends(s', q, e) <=> Sends(s, q, e)
    BY <2>2, <2>3 DEF Sends
  <2> QED BY <1>1, <2>3, <2>4, <2>5, QueuesStay
<1>5. ASSUME NEW p, NEW src, NEW msg, Waits(p, src, msg) PROVE \A q \in Proc : QueueMoves(q)
  <2>1. /\ p \in Proc /\ ~s.blocked[p] /\ src \in Task /\ msg \in Message /\ s' = wait_for(s, p, src, msg)
    BY <1>5 DEF Waits, Runs
  <2>2. s.flags[p] = {}
    BY <1>1, <2>1, RunnerIdle
  <2>3. OnlyTouches(s, s', p) /\ SameLinks(s, s') /\ s'.flags[p] = {RECEIVING}
    BY <1>1, <2>1, <2>2, WaitEffect
  <2>4. SENDING \notin s'.flags[p]
    BY <2>3 DEF SENDING, RECEIVING
  <2> QED BY <1>1, <2>1, <2>2, <2>3, <2>4, TouchesOnly, QueuesQuiet
<1>6. ASSUME NEW p, NEW src, NEW msg, Notices(p, src, msg) PROVE \A q \in Proc : QueueMoves(q)
  <2>1. p \in Proc /\ ~s.blocked[p] /\ s' = take_interrupt(s, p)
    BY <1>6 DEF Notices, Runs
  <2>2. s.flags[p] = {}
    BY <1>1, <2>1, RunnerIdle
  <2>3. OnlyTouches(s, s', p) /\ SameLinks(s, s') /\ s'.flags[p] = s.flags[p]
    BY <1>1, <2>1, InterruptEffect
  <2> QED BY <1>1, <2>1, <2>2, <2>3, TouchesOnly, QueuesQuiet
<1>7. ASSUME NEW p, NEW src, NEW from, Takes(p, src, from) PROVE \A q \in Proc : QueueMoves(q)
  <2>1. /\ p \in Proc /\ ~s.blocked[p] /\ from \in Proc /\ Sends(s, from, p) /\ s' = take(s, p, src, from)
    BY <1>7 DEF Takes, Runs
  <2>2. \E w : \E m \in DOMAIN w : IsQueue(s, p, w) /\ Served(s, s', p, w, m, from)
    BY <1>1, <2>1, SenderServed
  <2>3. QueueMoves(p)
    BY <2>2 DEF Served, QueueMoves, Follows
  <2>4. \A q \in Proc \ {p} : \A v : IsQueue(s, q, v) => IsQueue(s', q, v)
    BY <2>2 DEF Served
  <2>5. \A q \in Proc : \E w : IsQueue(s, q, w)
    BY <1>1, QueuesAre DEF ShapeInv
  <2>6. \A q \in Proc \ {p} : QueueMoves(q)
    BY <2>4, <2>5 DEF QueueMoves, Follows
  <2> QED BY <2>3, <2>6
<1>8. ASSUME NEW p \in Proc, sendrec_sent(p) \/ sendrec_received(p) PROVE \A q \in Proc : QueueMoves(q)
  <2>1. s' = s
    BY <1>8 DEF sendrec_sent, sendrec_received
  <2>2. SameLinks(s, s')
    BY <2>1 DEF SameLinks
  <2> QED BY <1>1, <2>1, <2>2, QueuesStay
<1>9. ASSUME NEW p \in Interrupted, interrupt(p) PROVE \A q \in Proc : QueueMoves(q)
  <2>1. /\ p \in Proc /\ s.panic = "none" /\ s' = notify_intr(s, p)
        /\ UNCHANGED <<pc, peer, sent, got>>
    BY <1>9, IpcBounds DEF interrupt
  <2>2. CASE RECEIVING \in s.flags[p] /\ s.recvfrom[p] \in {INTR_TASK, ANY_TASK}
    <3>1. Touches(s, s', p) /\ SameLinks(s, s') /\ s'.flags[p] = {} /\ s.flags[p] = {RECEIVING}
      BY <1>1, <2>1, <2>2, WakeShape DEF Woken
    <3>2. SENDING \notin s.flags[p]
      BY <3>1 DEF SENDING, RECEIVING
    <3> QED BY <1>1, <2>1, <3>1, <3>2, QueuesQuiet
  <2>3. CASE ~(RECEIVING \in s.flags[p] /\ s.recvfrom[p] \in {INTR_TASK, ANY_TASK})
    <3>1. /\ OnlyTouches(s, s', p) /\ SameLinks(s, s') /\ s'.flags[p] = s.flags[p]
          /\ s'.sendto[p] = s.sendto[p]
      BY <1>1, <2>1, <2>3, NotifyEffect
    <3>2. \A q, e \in Proc : Sends(s', q, e) <=> Sends(s, q, e)
      BY <3>1 DEF OnlyTouches, Same, Sends
    <3> QED BY <1>1, <3>1, <3>2, QueuesStay
  <2> QED BY <2>2, <2>3
<1> QED BY <1>1, <1>2, <1>3, <1>4, <1>5, <1>6, <1>7, <1>8, <1>9, NextEvents

\* Nobody gets ahead of a process that waits in a queue of senders.
THEOREM NoOvertakingTheorem == Spec => NoOvertaking
<1> DEFINE Kept == \A p, q, d \in Proc : d \in Senders(p) /\ Ahead(p, q, d)' => Ahead(p, q, d)
<1>1. IpcInv /\ IpcInv' /\ Next => Kept
  <2> SUFFICES ASSUME IpcInv, IpcInv', Next, NEW p \in Proc, NEW q \in Proc, NEW d \in Proc,
                      d \in Senders(p), Ahead(p, q, d)'
               PROVE  Ahead(p, q, d)
    OBVIOUS
  <2>1. PICK w, v : IsQueue(s, p, w) /\ IsQueue(s', p, v) /\ Follows(w, v)
    BY NextMoves DEF QueueMoves
  <2>2. TypeOK /\ TypeOK'
    BY DEF IpcInv
  <2>3. Queue(p) = w /\ Queue(p)' = v
    BY <2>1, <2>2, QueueNow, QueueNext
  <2>4. w \in Seq(Proc) /\ v \in Seq(Proc) /\ IsInjective(v)
    BY <2>1 DEF IsQueue, IsList
  <2>5. PICK k \in DOMAIN w : w[k] = d
    BY <2>3 DEF Senders
  <2>6. PICK i \in DOMAIN v, j \in DOMAIN v : i < j /\ v[i] = q /\ v[j] = d
    BY <2>3 DEF Ahead
  <2>7. \E a, b \in DOMAIN w : a < b /\ w[a] = q /\ w[b] = d
    BY <2>1, <2>4, <2>5, <2>6, NobodyOvertakes
  <2> QED BY <2>3, <2>7 DEF Ahead
<1>2. IpcInv /\ IpcInv' /\ [Next]_vars => [Kept]_vars
  BY <1>1
<1> HIDE DEF Kept
<1>3. Spec => [][Kept]_vars
  BY <1>2, IpcInvariance, PTL DEF Spec
<1> QED BY <1>3 DEF Kept, NoOvertaking
=============================================================================
