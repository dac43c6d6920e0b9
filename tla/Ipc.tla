-------------------------------- MODULE Ipc --------------------------------
(***************************************************************************)
(* Message passing between processes: core/ipc/ipc.c and sys_sendrec in    *)
(* core/usr/syscall-init.c.                                                *)
(*                                                                         *)
(* sys_sendrec runs with interrupts disabled, so a call is one step up to  *)
(* the point where its process blocks; when it is woken and gets the CPU   *)
(* the rest is another step.  Which of the processes that are not blocked  *)
(* runs next is left open.                                                 *)
(*                                                                         *)
(* A state s holds, for every process, the fields of its TCB: flags,       *)
(* recvfrom, sendto, sending_queue, next_sending, message, intr_present    *)
(* and whether it is blocked; and panic, the assertion that failed.        *)
(*                                                                         *)
(* No code of the repository calls notify_intr.  It is modelled for a      *)
(* handler that does; with Interrupted = {} there is none.                 *)
(***************************************************************************)
EXTENDS Naturals, SequencesExt

CONSTANTS Proc,
          ANY_TASK, NO_TASK, INTR_TASK,
          PID_0,         \* 0, which is no process: what memset leaves in a TCB or a message
          Interrupted,   \* the tasks that interrupt handlers notify
          MaxSends,      \* bound: messages each process sends
          MaxReceives    \* bound: receives each process starts

ASSUME Tasks ==
  /\ {ANY_TASK, NO_TASK, INTR_TASK, PID_0} \cap Proc = {}
  /\ ANY_TASK # NO_TASK /\ NO_TASK # INTR_TASK /\ INTR_TASK # ANY_TASK
  /\ PID_0 # ANY_TASK /\ PID_0 # NO_TASK /\ PID_0 # INTR_TASK
ASSUME IpcBounds ==
  /\ IsFiniteSet(Proc) /\ Interrupted \subseteq Proc
  /\ {MaxSends, MaxReceives} \subseteq [Proc -> Nat]

\* NO_TASK also stands for the null pointer.
Task == Proc \cup {ANY_TASK, NO_TASK, INTR_TASK, PID_0}
Nobody == {NO_TASK, PID_0}
SENDING   == "sending"
RECEIVING == "receiving"

\* The n-th message of process p; n = 0 for a buffer p has put no message in.
Message == [m_source : Task, n : Nat]
Msg(p, n) == [m_source |-> p, n |-> n]
HardInt == Msg(INTR_TASK, 0)
ResetMsg == Msg(PID_0, 0)

VARIABLES s,
          pc,    \* "user", or the call that a process blocks in
          peer,  \* its argument src_dest
          sent,  \* sent[p]: the addressees of p's messages so far (history)
          got    \* got[p]: the messages that p's receives returned (history)

vars == <<s, pc, peer, sent, got>>

Panics == {"none", "deadlock", "send_source", "send_flags", "receive_queue", "receive_flags",
           "receive_prev", "receive_source", "unblock", "notify_flags", "notify_sendto"}

State == [flags         : [Proc -> SUBSET {SENDING, RECEIVING}],
          recvfrom      : [Proc -> Task],
          sendto        : [Proc -> Task],
          sending_queue : [Proc -> Proc \cup {NO_TASK}],
          next_sending  : [Proc -> Proc \cup {NO_TASK}],
          message       : [Proc -> Message],
          intr_present  : [Proc -> BOOLEAN],
          blocked       : [Proc -> BOOLEAN],
          panic         : Panics]

TypeOK ==
  /\ s \in State
  /\ pc \in [Proc -> {"user", "send", "both", "receive"}]
  /\ peer \in [Proc -> Task]
  /\ sent \in [Proc -> Seq(Proc)]
  /\ got \in [Proc -> Seq(Message)]

Init ==
  /\ s = [flags         |-> [p \in Proc |-> {}],
          recvfrom      |-> [p \in Proc |-> PID_0],
          sendto        |-> [p \in Proc |-> PID_0],
          sending_queue |-> [p \in Proc |-> NO_TASK],
          next_sending  |-> [p \in Proc |-> NO_TASK],
          message       |-> [p \in Proc |-> ResetMsg],
          intr_present  |-> [p \in Proc |-> FALSE],
          blocked       |-> [p \in Proc |-> FALSE],
          panic         |-> "none"]
  /\ pc = [p \in Proc |-> "user"]
  /\ peer = [p \in Proc |-> NO_TASK]
  /\ sent = [p \in Proc |-> << >>]
  /\ got = [p \in Proc |-> << >>]

-----------------------------------------------------------------------------
(* The functions of ipc.c, from state to state.                            *)

PANIC(r, why) == IF r.panic = "none" THEN [r EXCEPT !.panic = why] ELSE r
ASSERT(r, cond, why) == IF cond THEN r ELSE PANIC(r, why)

thread_unblock(r, p) == ASSERT([r EXCEPT !.blocked[p] = FALSE], r.blocked[p], "unblock")
thread_auth_block(r, p) == [r EXCEPT !.blocked[p] = TRUE]

Hops == 0 .. Cardinality(Proc)

\* What a loop that starts at x and goes on with next meets at its i-th step.
Follow(next, x) ==
  LET at[i \in Hops] == IF i = 0 THEN x ELSE next[at[i - 1]]
  IN  at

Sends(r, p, d) == SENDING \in r.flags[p] /\ r.sendto[p] = d

\* Follows p_sendto from dest as long as the process it meets is sending.
NextHop(r) ==
  [t \in Task |-> IF t \in Proc /\ SENDING \in r.flags[t] THEN r.sendto[t] ELSE NO_TASK]
SendPath(r, dest) == Follow(NextHop(r), dest)

\* Fault: looks at the first hop only.
detect_cycle_direct(r, src, dest) == SendPath(r, dest)[1] = src

detect_cycle(r, src, dest) == \E i \in Hops \ {0} : SendPath(r, dest)[i] = src

\* The queue of senders, along p_next_sending.
NextSender(r) == [t \in Task |-> IF t \in Proc THEN r.next_sending[t] ELSE NO_TASK]
SenderAt(r, p) == Follow(NextSender(r), r.sending_queue[p])

QueueLength(r, p) == CHOOSE i \in Hops : /\ SenderAt(r, p)[i] = NO_TASK
                                         /\ \A j \in 0 .. i - 1 : SenderAt(r, p)[j] # NO_TASK

\* Fault: the new sender goes to the front of the queue.
append_sender_first(r, sender, dest) ==
  [r EXCEPT !.sending_queue[dest] = sender, !.next_sending[sender] = r.sending_queue[dest]]

append_sender(r, sender, dest) ==
  IF r.sending_queue[dest] # NO_TASK
  THEN LET last == SenderAt(r, dest)[QueueLength(r, dest) - 1]
       IN  [r EXCEPT !.next_sending[last] = sender, !.next_sending[sender] = NO_TASK]
  ELSE [r EXCEPT !.sending_queue[dest] = sender, !.next_sending[sender] = NO_TASK]

\* "&&" binds tighter than "||": a process that expects ANY_TASK is taken to
\* be receiving whatever its flags say.
Expects(r, dest, sender) ==
  \/ RECEIVING \in r.flags[dest] /\ r.recvfrom[dest] = sender
  \/ r.recvfrom[dest] = ANY_TASK

deliver(r, sender, dest, msg) ==
  LET asserted == ASSERT(r, r.message[dest].m_source # PID_0, "send_source")
  IN  thread_unblock([asserted EXCEPT !.message[dest] = msg,
                                      !.flags[dest] = @ \ {RECEIVING},
                                      !.recvfrom[dest] = NO_TASK], dest)

enqueue(r, sender, dest, msg) ==
  LET asserted == ASSERT(r, r.flags[sender] \subseteq {SENDING}, "send_flags")
  IN  thread_auth_block(
        append_sender([asserted EXCEPT !.flags[sender] = @ \cup {SENDING},
                                       !.sendto[sender] = dest,
                                       !.message[sender] = msg], sender, dest), sender)

msg_send(r, sender, dest, msg) ==
  IF detect_cycle(r, sender, dest) THEN PANIC(r, "deadlock")
  ELSE IF Expects(r, dest, sender) THEN deliver(r, sender, dest, msg)
  ELSE enqueue(r, sender, dest, msg)

\* The interrupt branch returns at once, also when src is INTR_TASK and no
\* interrupt has occurred, and leaves the caller's buffer alone.
TakesInterrupt(r, p, src) == (r.intr_present[p] /\ src = ANY_TASK) \/ src = INTR_TASK

take_interrupt(r, p) == [r EXCEPT !.message[p] = HardInt, !.intr_present[p] = FALSE]

\* The sender that msg_receive serves, or NO_TASK.
Chosen(r, p, src) ==
  IF src = ANY_TASK THEN r.sending_queue[p]
  ELSE IF Sends(r, src, p) THEN src ELSE NO_TASK

\* The sender before from in p's queue, or NO_TASK.
PrevSender(r, p, from) ==
  LET before == {i \in Hops \ {0} : SenderAt(r, p)[i] = from}
  IN  IF r.sending_queue[p] = from \/ before = {} THEN NO_TASK
      ELSE SenderAt(r, p)[Min(before) - 1]

\* Fault: the sender stays in the queue.
unlink_nothing(r, p, from) == r

unlink(r, p, from) ==
  LET prev == PrevSender(r, p, from)
  IN  IF from = r.sending_queue[p]
      THEN [r EXCEPT !.sending_queue[p] = r.next_sending[from], !.next_sending[from] = NO_TASK]
      ELSE IF prev = NO_TASK THEN PANIC(r, "receive_prev")
      ELSE [r EXCEPT !.next_sending[prev] = r.next_sending[from], !.next_sending[from] = NO_TASK]

take(r, p, src, from) ==
  LET a1 == ASSERT(r, src = ANY_TASK \/ r.sending_queue[p] # NO_TASK, "receive_queue")
      a2 == ASSERT(a1, src = ANY_TASK \/ r.flags[p] = {}, "receive_flags")
      a3 == ASSERT(unlink(a2, p, from), r.message[from].m_source # PID_0, "receive_source")
  IN  thread_unblock([a3 EXCEPT !.message[from] = ResetMsg,
                                !.sendto[from] = NO_TASK,
                                !.flags[from] = @ \ {SENDING}], from)

wait_for(r, p, src, msg) ==
  thread_auth_block([r EXCEPT !.flags[p] = @ \cup {RECEIVING},
                              !.message[p] = msg,
                              !.recvfrom[p] = src], p)

msg_receive(r, p, src, msg) ==
  LET from == Chosen(r, p, src)
  IN  IF TakesInterrupt(r, p, src) THEN take_interrupt(r, p)
      ELSE IF from # NO_TASK THEN take(r, p, src, from)
      ELSE wait_for(r, p, src, msg)

\* What the caller's buffer holds if msg_receive returns at once.
Returned(r, p, src, msg) ==
  IF TakesInterrupt(r, p, src) THEN msg ELSE r.message[Chosen(r, p, src)]

notify_wake(r, p) ==
  thread_unblock(ASSERT([r EXCEPT !.message[p] = HardInt,
                                  !.intr_present[p] = FALSE,
                                  !.flags[p] = @ \ {RECEIVING},
                                  !.recvfrom[p] = NO_TASK],
                        r.flags[p] = {RECEIVING}, "notify_flags"), p)

\* The last assertion wants NO_TASK of a process that does not send.
notify_intr(r, p) ==
  IF RECEIVING \in r.flags[p] /\ r.recvfrom[p] \in {INTR_TASK, ANY_TASK}
  THEN ASSERT(notify_wake(r, p), r.sendto[p] = NO_TASK, "notify_sendto")
  ELSE [r EXCEPT !.intr_present[p] = TRUE]

-----------------------------------------------------------------------------
(* sys_sendrec.                                                            *)

Running(p, where) == pc[p] = where /\ ~s.blocked[p] /\ s.panic = "none"

Number(p) == Len(sent[p]) + 1
MaySend(p, d) == p # d /\ Len(sent[p]) < MaxSends[p]
MayReceive(p) == Len(got[p]) < MaxReceives[p]

\* The buffer of a call that sends nothing: sys_sendrec sets m_source.
Buffer(p) == Msg(p, 0)

Log(p, d) == sent' = [sent EXCEPT ![p] = Append(@, d)]

\* The tail of a call that ends with msg_receive(src) on state r.
ReceiveOn(r, p, src, msg) ==
  LET after == msg_receive(r, p, src, msg)
  IN  /\ s' = after
      /\ peer' = [peer EXCEPT ![p] = src]
      /\ IF after.blocked[p]
         THEN pc' = [pc EXCEPT ![p] = "receive"] /\ UNCHANGED got
         ELSE /\ pc' = [pc EXCEPT ![p] = "user"]
              /\ got' = [got EXCEPT ![p] = Append(@, Returned(r, p, src, msg))]

sendrec_send(p, d) ==
  /\ Running(p, "user") /\ MaySend(p, d)
  /\ s' = msg_send(s, p, d, Msg(p, Number(p)))
  /\ pc' = [pc EXCEPT ![p] = IF s'.blocked[p] THEN "send" ELSE "user"]
  /\ Log(p, d)
  /\ UNCHANGED <<peer, got>>

\* msg_send returns to the caller once its message has been taken.
sendrec_sent(p) ==
  /\ Running(p, "send")
  /\ pc' = [pc EXCEPT ![p] = "user"]
  /\ UNCHANGED <<s, peer, sent, got>>

sendrec_receive(p, src) ==
  /\ Running(p, "user") /\ MayReceive(p)
  /\ ReceiveOn(s, p, src, Buffer(p))
  /\ UNCHANGED sent

\* BOTH: a send, and a receive from the same process.
sendrec_both(p, d) ==
  /\ Running(p, "user") /\ MaySend(p, d) /\ MayReceive(p)
  /\ Log(p, d)
  /\ LET msg   == Msg(p, Number(p))
         after == msg_send(s, p, d, msg)
     IN  IF after.blocked[p] \/ after.panic # "none"
         THEN /\ s' = after
              /\ pc' = [pc EXCEPT ![p] = "both"]
              /\ peer' = [peer EXCEPT ![p] = d]
              /\ UNCHANGED got
         ELSE ReceiveOn(after, p, d, msg)

sendrec_both_sent(p) ==
  /\ Running(p, "both")
  /\ ReceiveOn(s, p, peer[p], Msg(p, Len(sent[p])))
  /\ UNCHANGED sent

\* msg_receive, woken: copies p_message to the caller's buffer.
sendrec_received(p) ==
  /\ Running(p, "receive")
  /\ pc' = [pc EXCEPT ![p] = "user"]
  /\ got' = [got EXCEPT ![p] = Append(@, s.message[p])]
  /\ UNCHANGED <<s, peer, sent>>

\* A handler notifies a task once; a second interrupt is merged with it.
interrupt(p) ==
  /\ s.panic = "none" /\ ~s.intr_present[p]
  /\ s' = notify_intr(s, p)
  /\ UNCHANGED <<pc, peer, sent, got>>

Call(p) ==
  \/ \E d \in Proc : sendrec_send(p, d) \/ sendrec_both(p, d)
  \/ \E src \in (Proc \ {p}) \cup {ANY_TASK, INTR_TASK} : sendrec_receive(p, src)

Resume(p) == sendrec_sent(p) \/ sendrec_both_sent(p) \/ sendrec_received(p)

Next ==
  \/ \E p \in Proc : Call(p) \/ Resume(p)
  \/ \E p \in Interrupted : interrupt(p)

Spec == Init /\ [][Next]_vars

-----------------------------------------------------------------------------
(* Properties.                                                             *)

\* The processes that p waits for, directly or not, to take a message.
WaitsFor(p) ==
  LET Closed(S) == \A q \in S \cup {p}, d \in Proc : Sends(s, q, d) => d \in S
  IN  {d \in Proc : \A S \in SUBSET Proc : Closed(S) => d \in S}

\* The promise of detect_cycle: no processes wait for each other in a circle
\* to take their messages, and only a send that would close one is refused.
NoSendCycle ==
  /\ \A p \in Proc : p \notin WaitsFor(p)
  /\ \A p, q \in Proc : p # q => (detect_cycle(s, p, q) <=> p \in WaitsFor(q))

Taken(m) == UNION {{<<p, i>> : i \in {j \in DOMAIN got[p] : got[p][j] = m}} : p \in Proc}
AwaitsSend(p, n) == SENDING \in s.flags[p] /\ s.message[p] = Msg(p, n) /\ s.sendto[p] = sent[p][n]
AwaitsPickup(p, n) ==
  LET d == sent[p][n]
  IN  pc[d] = "receive" /\ ~s.blocked[d] /\ s.message[d] = Msg(p, n)

\* A message is at one place at a time: in the sender's TCB while it waits, in
\* the receiver's until it is copied out, or handed over, and then only once
\* and to the process it was sent to.  Nothing overwrites it on the way.
ExactlyOnce ==
  s.panic = "none" =>
    \A p \in Proc : \A n \in 1 .. Len(sent[p]) :
      LET taken == Taken(Msg(p, n))
      IN  \/ AwaitsSend(p, n) /\ taken = {} /\ ~AwaitsPickup(p, n)
          \/ AwaitsPickup(p, n) /\ taken = {} /\ ~AwaitsSend(p, n)
          \/ /\ Cardinality(taken) = 1 /\ ~AwaitsSend(p, n) /\ ~AwaitsPickup(p, n)
             /\ \A e \in taken : e[1] = sent[p][n]

Queue(p) == [i \in 1 .. QueueLength(s, p) |-> SenderAt(s, p)[i - 1]]

Senders(p) == {Queue(p)[i] : i \in DOMAIN Queue(p)}

\* q is before d in p's queue of senders.
Ahead(p, q, d) == \E i, j \in DOMAIN Queue(p) : i < j /\ Queue(p)[i] = q /\ Queue(p)[j] = d

\* Who joins a queue of senders comes after all who wait there already, and
\* who leaves it from the middle (a receive that names a sender) does not
\* change the order of the others: nobody gets ahead of who waits.
NoOvertaking ==
  [][\A p, q, d \in Proc : d \in Senders(p) /\ Ahead(p, q, d)' => Ahead(p, q, d)]_vars

-----------------------------------------------------------------------------
(* The inductive invariant.                                                *)

\* A process is blocked exactly while it sends or receives, and never both.
FlagsFit ==
  \A p \in Proc :
    /\ s.flags[p] \in {{}, {SENDING}, {RECEIVING}}
    /\ s.blocked[p] <=> s.flags[p] # {}
    /\ IF s.flags[p] = {SENDING} THEN s.sendto[p] \in Proc \ {p} ELSE s.sendto[p] \in Nobody
    /\ s.recvfrom[p] \notin Nobody <=> s.flags[p] = {RECEIVING}

\* Every set of processes has a member that waits for none of them.
Acyclic(r) == \A S \in SUBSET Proc : S # {} => \E p \in S : \A q \in S : ~Sends(r, p, q)

\* The list of senders of p is w, ...
IsList(r, p, w) ==
  /\ w \in Seq(Proc) /\ IsInjective(w)
  /\ r.sending_queue[p] = IF w = << >> THEN NO_TASK ELSE w[1]
  /\ \A i \in DOMAIN w : r.next_sending[w[i]] = IF i = Len(w) THEN NO_TASK ELSE w[i + 1]

\* ... and has those who send to p.
IsQueue(r, p, w) ==
  IsList(r, p, w) /\ \A q \in Proc : Sends(r, q, p) <=> \E i \in DOMAIN w : w[i] = q

Queues(r) == \A p \in Proc : \E n \in Hops : \E w \in [1 .. n -> Proc] : IsQueue(r, p, w)

\* Where a process is in its call, and what its TCB and history hold then.
CallsFit ==
  \A p \in Proc :
    /\ pc[p] = "user" => s.flags[p] = {}
    /\ pc[p] \in {"send", "both"} => s.flags[p] # {RECEIVING} /\ sent[p] # << >>
    /\ pc[p] = "both" => peer[p] \in Proc \ {p}
    /\ pc[p] = "receive" => s.flags[p] # {SENDING}
    /\ s.flags[p] = {SENDING} =>
         s.message[p] = Msg(p, Len(sent[p])) /\ s.sendto[p] = sent[p][Len(sent[p])]
    /\ s.flags[p] = {RECEIVING} => s.message[p].m_source = p
    /\ \A n \in DOMAIN sent[p] : sent[p][n] # p

\* m was sent to d, and its sender does not wait for d to take it.
Handed(m, d) ==
  LET p == m.m_source
  IN  /\ p \in Proc /\ m.n \in DOMAIN sent[p] /\ sent[p][m.n] = d
      /\ SENDING \in s.flags[p] => m.n # Len(sent[p])

\* A message has been put in d's TCB and d has not copied it yet.
Arrived(d) == pc[d] = "receive" /\ ~s.blocked[d]

\* Every message is with its sender, in its receiver's TCB or handed over, and
\* what is in a TCB or was handed over was sent, to this process and once.
Mail ==
  /\ \A p \in Proc : \A n \in DOMAIN sent[p] :
       \/ SENDING \in s.flags[p] /\ n = Len(sent[p])
       \/ Arrived(sent[p][n]) /\ s.message[sent[p][n]] = Msg(p, n)
       \/ \E i \in DOMAIN got[sent[p][n]] : got[sent[p][n]][i] = Msg(p, n)
  /\ \A d \in Proc : Arrived(d) =>
       \/ s.message[d] = HardInt
       \/ Handed(s.message[d], d) /\ \A i \in DOMAIN got[d] : got[d][i] # s.message[d]
  /\ \A d \in Proc : \A i \in DOMAIN got[d] : got[d][i].n = 0 \/ Handed(got[d][i], d)
  /\ \A d \in Proc : \A i, j \in DOMAIN got[d] :
       got[d][i] = got[d][j] => i = j \/ got[d][i].n = 0

\* The panics of ipc.c that happen: the refusal of a circle and, if anybody called
\* notify_intr for a task that has never had to wait to send, the assertion that
\* takes the 0 of its new TCB for an addressee.  All other assertions hold.
OnlyDeadlocksPanic ==
  /\ s.panic \in {"none", "deadlock", "notify_sendto"}
  /\ s.panic = "notify_sendto" => \E p \in Interrupted : s.sendto[p] = PID_0

IpcInv ==
  /\ TypeOK /\ FlagsFit /\ Acyclic(s) /\ Queues(s) /\ CallsFit
  /\ s.panic = "none" => Mail
  /\ OnlyDeadlocksPanic
=============================================================================
