------------------------------- MODULE Alarms -------------------------------
(***************************************************************************)
(* What the kernel timers promise: a timer that is set to a tick fires in  *)
(* the timer interrupt of that tick, once, unless it is deleted before.    *)
(***************************************************************************)
EXTENDS Naturals

CONSTANTS Timer,
          Word,    \* tick counts are taken modulo Word
          NotSet

VARIABLES now,     \* the number of the next timer interrupt
          alarm,   \* the tick a timer is set to, or NotSet
          rang     \* the timers that the last step fired

Init == now = 0 /\ alarm = [t \in Timer |-> NotSet] /\ rang = {}

Set(t) ==
  /\ alarm[t] = NotSet
  /\ alarm'[t] \in 0 .. Word - 1
  /\ alarm' = [alarm EXCEPT ![t] = alarm'[t]]
  /\ rang' = {}
  /\ UNCHANGED now

Cancel(t) ==
  /\ alarm' = [alarm EXCEPT ![t] = NotSet]
  /\ rang' = {}
  /\ UNCHANGED now

Tick ==
  LET due == {t \in Timer : alarm[t] = now}
  IN  /\ rang' = due
      /\ alarm' = [t \in Timer |-> IF t \in due THEN NotSet ELSE alarm[t]]
      /\ now' = (now + 1) % Word

Next == Tick \/ \E t \in Timer : Cancel(t) \/ Set(t)

Spec == Init /\ [][Next]_<<now, alarm, rang>>
=============================================================================
