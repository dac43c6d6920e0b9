----------------------------- MODULE TimerWheel -----------------------------
(***************************************************************************)
(* The kernel timers of core/frog/timer.c and the part of inthandler20 and *)
(* schedule_timeout (core/thread/sched.c) that drives them.                *)
(*                                                                         *)
(* The number of wheels and their sizes are parameters; the code has       *)
(* NOOF_TVECS = 5, TVR_BITS = 8 and TVN_BITS = 6, so that a word is 32     *)
(* bits wide.  The list of a slot is a sequence.  Everything here runs     *)
(* with interrupts disabled.                                               *)
(*                                                                         *)
(* The only callback is process_timeout, which adds no timer, so that no   *)
(* timer is ever added while run_timer_list_running is set.                *)
(***************************************************************************)
EXTENDS Integers, SequencesExt

CONSTANTS TVR_BITS, TVN_BITS, NOOF_TVECS, Timer

ASSUME WheelSizes == TVR_BITS \in Nat \ {0} /\ TVN_BITS \in Nat \ {0} /\ NOOF_TVECS \in Nat \ {0, 1}

TVR_SIZE == 2 ^ TVR_BITS
TVN_SIZE == 2 ^ TVN_BITS
Word == 2 ^ (TVR_BITS + (NOOF_TVECS - 1) * TVN_BITS)

Level == 0 .. NOOF_TVECS - 1
Size(n) == IF n = 0 THEN TVR_SIZE ELSE TVN_SIZE

\* The ticks that one slot of wheel n covers; also the ticks that the wheels
\* below n cover together.
Span(n) == IF n = 0 THEN 1 ELSE 2 ^ (TVR_BITS + (n - 1) * TVN_BITS)

VARIABLES wheel,     \* vec, index and timer_jiffies
          ticks,
          expires,   \* the field of every timer; 0 while it is not pending
          fired      \* the timers that the last step fired (history)

vars == <<wheel, ticks, expires, fired>>

Slots == UNION {{n} \X (0 .. Size(n) - 1) : n \in Level}
Slot(w, p) == w.vec[p[1]][p[2]]
timer_pending(w, t) == \E p \in Slots : t \in ToSet(Slot(w, p))

init_timervecs ==
  [vec |-> [n \in Level |-> [i \in 0 .. Size(n) - 1 |-> << >>]],
   index |-> [n \in Level |-> 0],
   timer_jiffies |-> 0]

Init ==
  /\ wheel = init_timervecs /\ ticks = 0
  /\ expires = [t \in Timer |-> 0] /\ fired = << >>

-----------------------------------------------------------------------------
\* Fault: "<=" for "<" when the wheel is chosen.
Place_le(w, e) ==
  LET idx == (e - w.timer_jiffies) % Word
      fits == {n \in 0 .. NOOF_TVECS - 2 : idx <= Span(n + 1)}
      At(n) == <<n, (e \div Span(n)) % Size(n)>>
  IN  IF fits # {} THEN At(CHOOSE n \in fits : \A m \in fits : n <= m)
      ELSE IF idx >= Word \div 2 THEN <<0, w.index[0]>>
      ELSE At(NOOF_TVECS - 1)

\* The wheel and the slot for a timer that expires at tick e.
Place(w, e) ==
  LET idx == (e - w.timer_jiffies) % Word
      fits == {n \in 0 .. NOOF_TVECS - 2 : idx < Span(n + 1)}
      At(n) == <<n, (e \div Span(n)) % Size(n)>>
  IN  IF fits # {} THEN At(CHOOSE n \in fits : \A m \in fits : n <= m)
      ELSE IF idx >= Word \div 2 THEN <<0, w.index[0]>>
      ELSE At(NOOF_TVECS - 1)

internal_add_timer(w, t, e) ==
  LET p == Place(w, e) IN [w EXCEPT !.vec[p[1]][p[2]] = Append(@, t)]

\* The head is cleared after its timers have been added again.
cascade_timers(w, n) ==
  LET head  == w.index[n]
      again == FoldLeft(LAMBDA v, t : internal_add_timer(v, t, expires[t]),
                        [w EXCEPT !.vec[n][head] = << >>], w.vec[n][head])
  IN  [again EXCEPT !.vec[n][head] = << >>, !.index[n] = (@ + 1) % TVN_SIZE]

\* do cascade_timers(n) while the wheel's index has become 1 and ++n exists.
Cascades(w) ==
  LET upTo[n \in 1 .. NOOF_TVECS - 1] ==
        IF n = 1 THEN cascade_timers(w, 1)
        ELSE IF \A m \in 1 .. n - 1 : upTo[n - 1].index[m] = 1
        THEN cascade_timers(upTo[n - 1], n)
        ELSE upTo[n - 1]
  IN  upTo[NOOF_TVECS - 1]

\* One round of the loop of run_timer_list, and the timers it fires.
cascaded(w) == IF w.index[0] = 0 THEN Cascades(w) ELSE w
Expired(w) == cascaded(w).vec[0][w.index[0]]

run_round(w) ==
  [cascaded(w) EXCEPT !.vec[0][w.index[0]] = << >>,
                      !.timer_jiffies = (@ + 1) % Word,
                      !.index[0] = (@ + 1) % TVR_SIZE]

\* (long)(ticks - timer_jiffies) >= 0
IsDue(w) == (ticks - w.timer_jiffies) % Word < Word \div 2

\* The loop makes one round: inthandler20 calls it for every tick, so that
\* timer_jiffies is never behind.
run_timer_list ==
  IF IsDue(wheel) THEN wheel' = run_round(wheel) /\ fired' = Expired(wheel)
  ELSE UNCHANGED wheel /\ fired' = << >>

Without(seq, S) == SelectSeq(seq, LAMBDA t : t \notin S)

inthandler20 ==
  /\ run_timer_list
  /\ ticks' = (ticks + 1) % Word
  /\ expires' = [t \in Timer |-> IF t \in ToSet(fired') THEN 0 ELSE expires[t]]

\* schedule_timeout, up to schedule(); timeout is a non-negative int.
add_timer(t, timeout) ==
  LET e == (timeout + ticks) % Word
  IN  /\ ~timer_pending(wheel, t)
      /\ expires' = [expires EXCEPT ![t] = e]
      /\ wheel' = internal_add_timer(wheel, t, e)
      /\ fired' = << >>
      /\ UNCHANGED ticks

\* schedule_timeout, when its thread runs again, woken by the timer or not.
del_timer(t) ==
  /\ wheel' = [wheel EXCEPT !.vec = [n \in Level |-> [i \in 0 .. Size(n) - 1 |->
                                        Without(@[n][i], {t})]]]
  /\ expires' = [expires EXCEPT ![t] = 0]
  /\ fired' = << >>
  /\ UNCHANGED ticks

Next ==
  \/ inthandler20
  \/ \E t \in Timer : del_timer(t) \/ \E timeout \in 0 .. (Word \div 2) - 1 : add_timer(t, timeout)

Spec == Init /\ [][Next]_vars

-----------------------------------------------------------------------------
(* Properties.                                                             *)

NotSet == -1
AbstractTimers ==
  INSTANCE Alarms WITH now <- ticks, rang <- ToSet(fired),
    alarm <- [t \in Timer |-> IF timer_pending(wheel, t) THEN expires[t] ELSE NotSet]
\* Cascading, wrap-around and deletion included, a timer fires at its tick,
\* once, and none fires otherwise.
ImplementsAlarms == AbstractTimers!Spec

=============================================================================
