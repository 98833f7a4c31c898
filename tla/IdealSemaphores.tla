--------------------------- MODULE IdealSemaphores ---------------------------
(***************************************************************************)
(* What semaphores promise in simulated time: a token that is released is  *)
(* acquired once, at once if somebody waits for it, for time does not pass *)
(* while a semaphore has both a token and a waiter; and acquire() fails    *)
(* when its time is over, and neither before nor after.                    *)
(***************************************************************************)
EXTENDS Integers

CONSTANTS
  Threads,
  Semaphores,
  Initially,  \* the tokens that each semaphore has at first
  NoSemaphore,
  EndOfTime

VARIABLES
  now,
  tokens,  \* per semaphore: its tokens that nobody has
  waiting, \* per thread: the semaphore that it waits for
  end      \* per thread: until when

vars == <<now, tokens, waiting, end>>

Init ==
  /\ now = 0
  /\ tokens = Initially
  /\ waiting = [t \in Threads |-> NoSemaphore]
  /\ end = [t \in Threads |-> 0]

Release(s) ==
  /\ tokens' = [tokens EXCEPT ![s] = @ + 1]
  /\ UNCHANGED <<now, waiting, end>>

\* There may be tokens, which others are about to acquire.
Wait(t, s, time) ==
  /\ waiting[t] = NoSemaphore
  /\ time >= now
  /\ waiting' = [waiting EXCEPT ![t] = s]
  /\ end' = [end EXCEPT ![t] = time]
  /\ UNCHANGED <<now, tokens>>

\* With or without having waited.
Acquire(t, s) ==
  /\ waiting[t] \in {s, NoSemaphore}
  /\ tokens[s] > 0
  /\ tokens' = [tokens EXCEPT ![s] = @ - 1]
  /\ waiting' = [waiting EXCEPT ![t] = NoSemaphore]
  /\ end' = [end EXCEPT ![t] = 0]
  /\ UNCHANGED now

GiveUp(t) ==
  /\ waiting[t] # NoSemaphore
  /\ now = end[t]
  /\ waiting' = [waiting EXCEPT ![t] = NoSemaphore]
  /\ end' = [end EXCEPT ![t] = 0]
  /\ UNCHANGED <<now, tokens>>

Advance(time) ==
  /\ time > now
  /\ \A t \in Threads, s \in Semaphores :
       waiting[t] = s => tokens[s] = 0 /\ time <= end[t]
  /\ now' = time
  /\ UNCHANGED <<tokens, waiting, end>>

Next ==
  \/ \E t \in Threads :
       \/ \E s \in Semaphores :
            \/ Acquire(t, s)
            \/ \E time \in 0 .. EndOfTime : Wait(t, s, time)
       \/ GiveUp(t)
  \/ \E s \in Semaphores : Release(s)
  \/ \E time \in 0 .. EndOfTime : Advance(time)

Spec == Init /\ [][Next]_vars

=============================================================================
