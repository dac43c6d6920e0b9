------------------------------- MODULE Input --------------------------------
(***************************************************************************)
(* The keyboard and the mouse (device/ps2hid.c, pc_kbd.c, pc_mouse.c), the *)
(* processes that read them or wait for several of them (fs/select.c) and  *)
(* the part of the scheduler that puts them to sleep and wakes them        *)
(* (thread/sched.c).                                                       *)
(*                                                                         *)
(* A system call runs with interrupts off, so that it is one step up to    *)
(* the place where it calls schedule.  Every device has a ring of its own: *)
(* "kbd" of characters, "mouse" of packets and "aux" of the mouse's bytes. *)
(*                                                                         *)
(* Avoid names what the code gets wrong, for a run to leave out: "burst",  *)
(* a keyboard interrupt that finds more than one byte, of which it handles *)
(* only the last, whoever sent it.  The mouse's answer to the command that *)
(* enables it, which looks like the start of a report, is always there.    *)
(***************************************************************************)
EXTENDS Integers, SequencesExt, FiniteSetsExt

Device == {"kbd", "mouse", "aux"}

CONSTANTS Process, Idle,
          Reads, Polls,          \* the devices that a process reads, and waits for with wait2
          Size,                  \* KBD_BUF_SIZE, MOUSE_PKG_BUF_SIZE, AUX_BUF_SIZE
          Keys,                  \* keys that are typed: a scan code, with 0xe0 or not
          Reports,               \* reports of the mouse: buttons, x and y
          Timeouts, Counts,      \* arguments of wait2 and read
          Avoid,
          Budgets                \* bounds: how many keys and how many reports go together

ASSUME InputBounds ==
  /\ IsFiniteSet(Process) /\ Idle \notin Process
  /\ Reads \in [Process -> SUBSET Device] /\ Polls \in [Process -> SUBSET Device]
  /\ Size \in [Device -> Nat \ {0, 1}]
  /\ Timeouts \subseteq Nat /\ Counts \subseteq Nat \ {0}
  /\ Keys \subseteq [ext : BOOLEAN, code : 1 .. 127]
  /\ Avoid \subseteq {"burst"}
  /\ Budgets \subseteq Nat \X Nat

VARIABLES dev,     \* of each device: its ring and its wait queue
          kbd,     \* what the keyboard driver knows of the keys
          mdata,   \* the report that the mouse driver puts together
          sched,   \* the status of processes, thread_ready_list and running_thread
          proc,    \* the call that each process is in
          timer,   \* the ticks left to the timer of a process; -1: it has none
          hw,      \* keys that are held, bytes that are to be sent, and what they came from
          want,    \* what each ring should hold
          panicked

vars == <<dev, kbd, mdata, sched, proc, timer, hw, want, panicked>>

-----------------------------------------------------------------------------
(* Rings: one slot stays free.                                             *)

queue_empty(d) == dev[d].head = dev[d].tail

\* Fault: the ring may fill up and become empty.
put_full(q, d, x) == [q EXCEPT !.buf[q.head] = x, !.head = (@ + 1) % Size[d]]

\* The slot is written even when the ring is full.
put(q, d, x) ==
  LET next == (q.head + 1) % Size[d]
  IN  [q EXCEPT !.buf[q.head] = x, !.head = IF next = q.tail THEN @ ELSE next]

get_from_queue(q, d, n) == [q EXCEPT !.tail = (@ + n) % Size[d]]

\* What lies between the tail and the head.
Length(q, d) == (q.head - q.tail + Size[d]) % Size[d]
Content(q, d) == [i \in 1 .. Length(q, d) |-> q.buf[(q.tail + i - 1) % Size[d]]]

-----------------------------------------------------------------------------
(* The scheduler.                                                          *)

\* Fault: it may be there already.
try_to_wake_up_twice(s, p) == [s EXCEPT !.status[p] = "READY", !.ready = Append(@, p)]

try_to_wake_up(s, p) ==
  [s EXCEPT !.status[p] = "READY", !.ready = IF Contains(@, p) THEN @ ELSE Append(@, p)]

\* Wakes the first that waits.
wake_up_interruptible(s, list) ==
  LET at == SelectInSeq(list, LAMBDA p : s.status[p] = "WAITING")
  IN  IF at = 0 THEN s ELSE try_to_wake_up(s, list[at])

\* A process that is running goes to the end of the list.
GiveUp(s) ==
  IF s.cur # Idle /\ s.status[s.cur] \in {"RUNNING", "READY"} /\ ~ Contains(s.ready, s.cur)
  THEN [s EXCEPT !.ready = Append(@, s.cur), !.status[s.cur] = "READY"] ELSE s
RunNext(s) ==
  IF s.ready = <<>> THEN [s EXCEPT !.cur = Idle]
  ELSE [s EXCEPT !.cur = Head(s.ready), !.ready = Tail(@), !.status[Head(s.ready)] = "RUNNING"]
schedule(s) == RunNext(GiveUp(s))

thread_block(s) == schedule([s EXCEPT !.status[s.cur] = "WAITING"])

\* The idle thread blocks itself as soon as it runs; its own place on the ready list
\* is left out.
IdleYields ==
  /\ ~panicked /\ sched.cur = Idle /\ sched.ready # <<>>
  /\ sched' = schedule(sched)
  /\ UNCHANGED <<dev, kbd, mdata, proc, timer, hw, want, panicked>>

\* Interrupts are on in the idle thread and in user mode only: whoever is switched
\* to inside a call goes on with interrupts off.
Interruptible == ~panicked /\ (sched.cur # Idle => proc[sched.cur].call = "none")

-----------------------------------------------------------------------------
(* The clock.                                                              *)

\* Timers that expire, woken one after the other by process_timeout.
Expired == {p \in Process : timer[p] = 0}
WakeAll(s, order) ==
  LET woken[i \in 0 .. Len(order)] ==
        IF i = 0 THEN s ELSE try_to_wake_up(woken[i - 1], order[i])
  IN  woken[Len(order)]
process_timeout == WakeAll(sched, SetToSeq(Expired))

\* resched: the ticks of the running thread have run out.
inthandler20(resched) ==
  /\ Interruptible
  /\ timer' = [p \in Process |-> IF timer[p] < 0 THEN -1 ELSE timer[p] - 1]
  /\ sched' = IF resched THEN schedule(process_timeout) ELSE process_timeout
  /\ UNCHANGED <<dev, kbd, mdata, proc, hw, want, panicked>>

-----------------------------------------------------------------------------
(* The keyboard.                                                           *)

FLAG_EXT == 224
FLAG_BREAK == 128
Shifts == {42, 54}
Ctrl == 29
Alt == 56
CapsLock == 58
Metas == {91, 92}
\* Keys for which keymap has no character.
Invisible == Shifts \cup Metas \cup {Ctrl, Alt, CapsLock}
\* Digits and punctuation, which caps lock leaves alone.
Symbols == (2 .. 13) \cup {26, 27, 39, 40, 41, 43, 51, 52, 53}

\* The key of a break code is up, be there another one like it or not.
Strip(k, code) == [k EXCEPT !.ext = FALSE]
Release(k, code, ext) ==
  CASE code = Ctrl -> [k EXCEPT !.ctrl = FALSE]
    [] code = Alt -> [k EXCEPT !.alt = FALSE]
    [] code \in Shifts /\ ~ext -> [k EXCEPT !.shift = FALSE]
    [] OTHER -> k
\* caps and meta are never reset.
Press(k, code) ==
  CASE code = Ctrl -> [k EXCEPT !.ctrl = TRUE]
    [] code = Alt -> [k EXCEPT !.alt = TRUE]
    [] code \in Shifts -> [k EXCEPT !.shift = TRUE]
    [] code = CapsLock -> [k EXCEPT !.caps = TRUE]
    [] code \in Metas -> [k EXCEPT !.meta = TRUE]

Known(code, ext) == IF ext THEN code \in Metas \cup {Ctrl, Alt} ELSE code \in 1 .. 58
keymap(k, code) == <<code, IF code \in Symbols THEN k.shift ELSE k.shift # k.caps>>

\* The character of a key while these keys are down, without caps lock.
Typed(code) == <<code, \E k \in hw.held : k.code \in Shifts>>

\* What a ring of a device should hold after a put.
Expect(d, x) == [want EXCEPT ![d] = IF Len(@) < Size[d] - 1 THEN Append(@, x) ELSE @]

\* x goes into d's ring, and somebody who waits for it is woken if it fits.
Store(d, x) ==
  /\ dev' = [dev EXCEPT ![d] = put(@, d, x)]
  /\ sched' = IF put(dev[d], d, x).head = dev[d].head THEN sched
              ELSE wake_up_interruptible(sched, dev[d].proc_list)

handle_keyboard_event(b) ==
  LET code == b % FLAG_BREAK
      k    == Strip(kbd, b)
  IN  \/ /\ b = FLAG_EXT /\ kbd' = [kbd EXCEPT !.ext = TRUE]
         /\ UNCHANGED <<dev, sched, want, panicked>>
      \/ /\ b # FLAG_EXT /\ b >= FLAG_BREAK /\ kbd' = Release(k, code, kbd.ext)
         /\ UNCHANGED <<dev, sched, want, panicked>>
      \/ /\ b < FLAG_BREAK /\ Known(code, kbd.ext) /\ code \notin Invisible
         /\ kbd' = k /\ Store("kbd", keymap(k, code))
         /\ want' = Expect("kbd", Typed(code)) /\ UNCHANGED panicked
      \/ /\ b < FLAG_BREAK /\ Known(code, kbd.ext) /\ code \in Invisible
         /\ kbd' = Press(k, code) /\ UNCHANGED <<dev, sched, want, panicked>>
      \/ /\ b < FLAG_BREAK /\ ~ Known(code, kbd.ext)
         /\ panicked' = (b # 0 \/ kbd.ext) /\ kbd' = k /\ UNCHANGED <<dev, sched, want>>

\* The handler reads as long as there are bytes, and handles the last.
inthandler21 ==
  /\ Interruptible /\ hw.kbd # <<>>
  /\ \E i \in 1 .. Len(hw.kbd), j \in 0 .. Len(hw.mouse) :
       /\ "burst" \in Avoid => i = 1 /\ j = 0
       /\ \E b \in {hw.kbd[i]} \cup (IF j = 0 THEN {} ELSE {hw.mouse[j]}) :
            handle_keyboard_event(b)
       /\ hw' = [hw EXCEPT !.kbd = SubSeq(@, i + 1, Len(@)), !.mouse = SubSeq(@, j + 1, Len(@))]
  /\ UNCHANGED <<mdata, proc, timer>>

-----------------------------------------------------------------------------
(* The mouse.                                                              *)

Bit(b, n) == (b \div 2^n) % 2 = 1
Signed(byte, negative) == IF byte # 0 /\ negative THEN byte - 256 ELSE byte

\* A report of an overflow has no movement.
packet(buf) ==
  LET overflow == Bit(buf[1], 6) \/ Bit(buf[1], 7)
  IN  [buttons |-> buf[1] % 8,
       x |-> IF overflow THEN 0 ELSE Signed(buf[2], Bit(buf[1], 4)),
       y |-> IF overflow THEN 0 ELSE Signed(buf[3], Bit(buf[1], 5))]

\* The first byte of a report has its bit 3 set; others are skipped.
handle_ps2_mouse_scancode(b) ==
  IF mdata = <<>> /\ ~ Bit(b, 3) THEN <<>> ELSE Append(mdata, b)

\* handle_mouse_event: every byte goes into aux's ring.
StoreBoth(q, b) ==
  LET d1 == IF q = <<>> THEN dev.mouse ELSE put(dev.mouse, "mouse", q[1])
      s1 == IF d1.head = dev.mouse.head THEN sched
            ELSE wake_up_interruptible(sched, dev.mouse.proc_list)
      d2 == put(dev.aux, "aux", b)
  IN  /\ dev' = [dev EXCEPT !.mouse = d1, !.aux = d2]
      /\ sched' = IF d2.head = dev.aux.head THEN s1
                  ELSE wake_up_interruptible(s1, dev.aux.proc_list)

\* make_mouse_packet at the third byte.
MouseByte(b, m) ==
  /\ mdata' = IF Len(m) = 3 THEN <<>> ELSE m
  /\ StoreBoth(IF Len(m) = 3 THEN <<packet(m)>> ELSE <<>>, b)

Sign(v, bit) == IF v < 0 THEN 2^bit ELSE 0
Bytes(r) == <<8 + r.buttons + Sign(r.x, 4) + Sign(r.y, 5), r.x % 256, r.y % 256>>

\* The packet that is due when the byte that is sent now has been handled.  The
\* driver makes one of every report, unless the byte before the report looked like
\* the first of one: then it is made of that byte and the next two.
OutOfStep == Bit(hw.stray, 3)
Due ==
  IF OutOfStep
  THEN IF Len(hw.mouse) = 2
       THEN <<packet(<<hw.stray, Bytes(hw.report)[1], Bytes(hw.report)[2]>>)>> ELSE <<>>
  ELSE IF Len(hw.mouse) = 1 THEN <<hw.report>> ELSE <<>>

inthandler2C ==
  /\ Interruptible /\ hw.mouse # <<>>
  /\ MouseByte(Head(hw.mouse), handle_ps2_mouse_scancode(Head(hw.mouse)))
  /\ hw' = [hw EXCEPT !.mouse = Tail(@)]
  /\ want' = [kbd |-> want.kbd, aux |-> Expect("aux", Head(hw.mouse)).aux,
              mouse |-> IF Due = <<>> THEN want.mouse ELSE Expect("mouse", Due[1]).mouse]
  /\ UNCHANGED <<kbd, proc, timer, panicked>>

-----------------------------------------------------------------------------
(* The hardware: a keyboard and a mouse that send bytes.                   *)

Within(keys, reports) == \E b \in Budgets : keys <= b[1] /\ reports <= b[2]

\* A key is pressed, sends its code again while it is down, and is released.
Type(k) ==
  /\ Within(hw.keys + 1, hw.reports) /\ ("burst" \in Avoid => hw.kbd = <<>>)
  /\ \E up \in IF k \in hw.held THEN BOOLEAN ELSE {FALSE} :
       LET byte == IF up THEN k.code + FLAG_BREAK ELSE k.code
       IN  hw' = [hw EXCEPT !.keys = @ + 1,
                            !.held = IF up THEN @ \ {k} ELSE @ \cup {k},
                            !.kbd = @ \o (IF k.ext THEN <<FLAG_EXT, byte>> ELSE <<byte>>)]
  /\ UNCHANGED <<dev, kbd, mdata, sched, proc, timer, want, panicked>>

\* stray: the byte before the report, until one does not look like a first byte.
Report(r) ==
  /\ Within(hw.keys, hw.reports + 1) /\ hw.mouse = <<>>
  /\ hw' = [hw EXCEPT !.reports = @ + 1, !.report = r, !.mouse = Bytes(r),
                      !.stray = IF OutOfStep /\ hw.reports > 0 THEN hw.report.y % 256 ELSE @]
  /\ UNCHANGED <<dev, kbd, mdata, sched, proc, timer, want, panicked>>

-----------------------------------------------------------------------------
(* Calls.                                                                  *)

Running(p) == ~panicked /\ sched.cur = p
User == [call |-> "none", dev |-> "kbd", count |-> 0]
Return(p) == proc' = [proc EXCEPT ![p] = User]

add_wait_queue(q, p) == [q EXCEPT !.proc_list = <<p>> \o @]
remove_wait_queue(q, p) == [q EXCEPT !.proc_list = RemoveFirst(@, p)]

\* The loop at the end of every read.
Take(d, count, q) ==
  LET n == Min({count, Length(q, d)})
  IN  /\ dev' = [dev EXCEPT ![d] = get_from_queue(q, d, n)]
      /\ want' = [want EXCEPT ![d] = SubSeq(@, n + 1, Len(@))]

\* A read that finds something, and one that has to wait.
ReadAtOnce(p, d, count) ==
  ~ queue_empty(d) /\ Take(d, count, dev[d]) /\ UNCHANGED <<sched, proc>>
ReadBlocks(p, d, count) ==
  /\ queue_empty(d)
  /\ dev' = [dev EXCEPT ![d] = add_wait_queue(@, p)]
  /\ sched' = thread_block(sched)
  /\ proc' = [proc EXCEPT ![p] = [call |-> "read", dev |-> d, count |-> count]]
  /\ UNCHANGED want

sys_read(p) ==
  /\ Running(p) /\ proc[p] = User
  /\ \E d \in Reads[p], count \in Counts : ReadAtOnce(p, d, count) \/ ReadBlocks(p, d, count)
  /\ UNCHANGED <<kbd, mdata, timer, hw, panicked>>

\* The rest of read_kbd and read_aux; read_pcmouse looks again.
ReadWakes(p) ==
  /\ Running(p) /\ proc[p].call = "read"
  /\ LET d == proc[p].dev IN
     \/ /\ d = "mouse" /\ queue_empty(d)
        /\ sched' = thread_block(sched) /\ UNCHANGED <<dev, proc, want>>
     \/ /\ ~ (d = "mouse" /\ queue_empty(d))
        /\ sched' = [sched EXCEPT !.status[p] = "READY"]
        /\ Take(d, proc[p].count, remove_wait_queue(dev[d], p)) /\ Return(p)
  /\ UNCHANGED <<kbd, mdata, timer, hw, panicked>>

AnyReady(p) == \E d \in Polls[p] : ~ queue_empty(d)

\* Fault: only one file is waited for.
poll_wait_first(p) ==
  LET first == CHOOSE o \in Polls[p] : TRUE
  IN  [dev EXCEPT ![first] = add_wait_queue(@, p)]
poll_wait(p) == [d \in Device |-> IF d \in Polls[p] THEN add_wait_queue(dev[d], p) ELSE dev[d]]
poll_freewait(p) == [d \in Device |-> remove_wait_queue(dev[d], p)]

\* Fault: the timer is not started.
schedule_timeout_never(p, timeout) == sched' = thread_block(sched) /\ timer' = timer
schedule_timeout(p, timeout) ==
  sched' = thread_block(sched) /\ timer' = [timer EXCEPT ![p] = timeout]

\* do_wait2 stays registered with the files only if none is ready.
sys_wait2(p) ==
  /\ Running(p) /\ proc[p] = User /\ Polls[p] # {}
  /\ \E t \in Timeouts :
       \/ /\ AnyReady(p) \/ t = 0
          /\ sched' = [sched EXCEPT !.status[p] = "RUNNING"] /\ UNCHANGED <<dev, proc, timer>>
       \/ /\ ~ (AnyReady(p) \/ t = 0) /\ schedule_timeout(p, t)
          /\ dev' = poll_wait(p) /\ proc' = [proc EXCEPT ![p].call = "wait2"]
  /\ UNCHANGED <<kbd, mdata, hw, want, panicked>>

\* del_timer_sync, and another round: the rest of the time is waited for again.
Wait2Wakes(p) ==
  /\ Running(p) /\ proc[p].call = "wait2"
  /\ \/ /\ AnyReady(p) \/ timer[p] <= 0
        /\ dev' = poll_freewait(p) /\ Return(p)
        /\ sched' = [sched EXCEPT !.status[p] = "RUNNING"] /\ timer' = [timer EXCEPT ![p] = -1]
     \/ /\ ~ (AnyReady(p) \/ timer[p] <= 0)
        /\ schedule_timeout(p, timer[p]) /\ UNCHANGED <<dev, proc>>
  /\ UNCHANGED <<kbd, mdata, hw, want, panicked>>

\* Opening any of the devices empties aux's ring.
open_aux(p) ==
  /\ Running(p) /\ proc[p] = User
  /\ dev' = [dev EXCEPT !.aux.head = 0, !.aux.tail = 0] /\ want' = [want EXCEPT !.aux = <<>>]
  /\ UNCHANGED <<kbd, mdata, sched, proc, timer, hw, panicked>>

-----------------------------------------------------------------------------

Still == [buttons |-> 0, x |-> 0, y |-> 0]
Zero == [kbd |-> <<0, FALSE>>, mouse |-> Still, aux |-> 0]
init_queue(d) ==
  [head |-> 0, tail |-> 0, proc_list |-> <<>>, buf |-> [i \in 0 .. Size[d] - 1 |-> Zero[d]]]

\* What the mouse answers to MOUSE_ENABLE; ps2hid_init does not read it.
Ack == 250

Init ==
  /\ dev = [d \in Device |-> init_queue(d)]
  /\ kbd = [ext |-> FALSE, shift |-> FALSE, ctrl |-> FALSE, alt |-> FALSE, caps |-> FALSE,
            meta |-> FALSE]
  /\ mdata = <<>>
  /\ sched = RunNext([status |-> [p \in Process |-> "READY"], ready |-> SetToSeq(Process),
                      cur |-> Idle])
  /\ proc = [p \in Process |-> User] /\ timer = [p \in Process |-> -1]
  /\ hw = [held |-> {}, kbd |-> <<>>, keys |-> 0, reports |-> 0, mouse |-> <<Ack>>,
           report |-> Still, stray |-> Ack]
  /\ want = [d \in Device |-> <<>>] /\ panicked = FALSE

Kernel(p) == ReadWakes(p) \/ Wait2Wakes(p)

Next ==
  /\ ~panicked
  /\ \/ IdleYields \/ inthandler21 \/ inthandler2C
     \/ \E resched \in BOOLEAN : inthandler20(resched)
     \/ \E k \in Keys : Type(k)
     \/ \E r \in Reports : Report(r)
     \/ \E p \in Process : sys_read(p) \/ sys_wait2(p) \/ open_aux(p) \/ Kernel(p)

\* The clock ticks and takes the processor away, the idle thread yields, and a
\* process in the kernel goes on.
Fairness ==
  /\ WF_vars(IdleYields) /\ WF_vars(inthandler20(TRUE))
  /\ \A p \in Process : WF_vars(Kernel(p))

Spec == Init /\ [][Next]_vars /\ Fairness

-----------------------------------------------------------------------------
(* Properties.                                                             *)

Asleep(p) == sched.cur # p /\ ~ Contains(sched.ready, p)

\* Nobody sleeps while there is something for him: when the ring of a process that
\* sleeps in a read is not empty, another one that waited for it has been woken; one
\* that waits for several files, which are his alone, has none that is ready and a
\* timer that runs (read_kbd, do_wait2, wake_up_interruptible).
SleepersHaveNothing ==
  \A p \in Process :
    /\ proc[p].call = "read" /\ Asleep(p) /\ ~ queue_empty(proc[p].dev) =>
         \E o \in Process : proc[o] = [proc[p] EXCEPT !.count = proc[o].count] /\ ~ Asleep(o)
    /\ proc[p].call = "wait2" /\ Asleep(p) => ~ AnyReady(p) /\ timer[p] >= 0

\* Every process runs, is once on the ready list, or sleeps with the status that
\* lets it be woken, and wait queues name those that are in a call for their
\* device (schedule, try_to_wake_up, poll_freewait).
ReadyExact ==
  /\ IsInjective(sched.ready) /\ ~ Contains(sched.ready, sched.cur)
  /\ \A p \in Process :
       /\ Asleep(p) => sched.status[p] = "WAITING" /\ proc[p].call # "none"
       /\ Contains(sched.ready, p) => sched.status[p] = "READY"
  /\ \A d \in Device, p \in Process :
       Contains(dev[d].proc_list, p) <=>
         \/ proc[p].call = "read" /\ proc[p].dev = d
         \/ proc[p].call = "wait2" /\ d \in Polls[p]

\* Each ring holds, in order and except for what came while it was full, what was
\* typed with the shift keys as they were, every byte of the mouse, and its reports:
\* those before the first one whose last byte does not look like a first byte, and
\* that one, are shifted by the answer that came before them, and all others are
\* whole (handle_keyboard_event, handle_ps2_mouse_scancode, make_mouse_packet).
RingsDeliver == \A d \in Device : Content(dev[d], d) = want[d]

\* A wait with a timeout ends, unless a key that is not known stops the kernel
\* (schedule_timeout, process_timeout).
WaitEnds == \A p \in Process : proc[p].call = "wait2" ~> proc[p].call # "wait2" \/ panicked
=============================================================================
