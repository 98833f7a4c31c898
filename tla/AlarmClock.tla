----------------------------- MODULE AlarmClock -----------------------------
(***************************************************************************)
(* What timers promise: an alarm that is set rings once, at its time, not  *)
(* earlier and not later, unless it is cancelled before.  A ring lasts     *)
(* until it is answered; meanwhile the alarm can be set again.             *)
(***************************************************************************)
EXTENDS Integers

CONSTANTS
  Timers,
  Off     \* the time of an alarm that is not set; later than all times

VARIABLES
  now,
  alarm,   \* per timer: when it rings
  ringing  \* per timer: how many of its rings are not answered

vars == <<now, alarm, ringing>>

Init ==
  /\ now = 0
  /\ alarm = [t \in Timers |-> Off]
  /\ ringing = [t \in Timers |-> 0]

\* An alarm is set, moved or cancelled ahead of its time.
Set(t, time) ==
  /\ alarm[t] = Off \/ alarm[t] > now
  /\ time >= now
  /\ alarm' = [alarm EXCEPT ![t] = time]
  /\ UNCHANGED <<now, ringing>>

Ring(t) ==
  /\ alarm[t] = now
  /\ alarm' = [alarm EXCEPT ![t] = Off]
  /\ ringing' = [ringing EXCEPT ![t] = @ + 1]
  /\ UNCHANGED now

Answer(t) ==
  /\ ringing[t] > 0
  /\ ringing' = [ringing EXCEPT ![t] = @ - 1]
  /\ UNCHANGED <<now, alarm>>

\* The ring is answered, and the alarm set again at once.
Snooze(t, time) ==
  /\ ringing[t] > 0
  /\ alarm[t] = Off
  /\ time >= now
  /\ ringing' = [ringing EXCEPT ![t] = @ - 1]
  /\ alarm' = [alarm EXCEPT ![t] = time]
  /\ UNCHANGED now

\* Time does not pass an alarm; a ring may take time.
Advance(time) ==
  /\ time > now
  /\ \A t \in Timers : time <= alarm[t]
  /\ now' = time
  /\ UNCHANGED <<alarm, ringing>>

Next ==
  \/ \E t \in Timers :
       \/ \E time \in 0 .. Off : Set(t, time) \/ Snooze(t, time)
       \/ Ring(t)
       \/ Answer(t)
  \/ \E time \in 0 .. Off : Advance(time)

Spec == Init /\ [][Next]_vars

=============================================================================
