------------------------- MODULE StopwatchProperties -------------------------
(***************************************************************************)
(* What a stopwatch must guarantee to test code.                           *)
(***************************************************************************)
EXTENDS Stopwatch

\* A job is never set up while it is armed: neither Job::setDue() nor
\* Job::updateDue() throws, in whatever order the stopwatch is started,
\* stopped and reset and conditions are enabled.
JobsAreSetUpOnce == ~failed

\* lap() measures for how long the stopwatch has been running since it was
\* created or reset last, whatever the pauses, and with the operators'
\* listeners told in between.
MeasuresTime == Lap = ran

\* What the listener of an enabled operator takes its value to be.
Seen(o) == Operator(o, shown[o]).value

\* The listener of an enabled operator is told of a change of its value before
\* time passes: "The expression will be checked whenever one of the sub
\* expression change." (api.h:210).  The code does not keep this.
ChangesAreSeenAtOnce ==
  \A o \in enabled : Seen(o) # Value(o) =>
    running /\ o \in queue /\ due[o] <= now

\* What it does keep: no listener is wrong about the value of its operator but
\*  - until the job is executed that is late by the time that the stopwatch had
\*    been stopped for when the operator was enabled or reset: update() counts
\*    from now, and start() adds all of the pause,
\*  - while the stopwatch is stopped with such a job to come,
\*  - after the end of an equality that began after the operator was set up: the
\*    job that tells of the beginning is not set up again for the end,
\*  - at the beginning of an equality in which stop() executes the job, since
\*    lap() then counts the time since start() twice.
ChangesAreNoticed ==
  \A o \in enabled : Seen(o) # Value(o) =>
    \/ running /\ o \in queue /\ due[o] <= now + lag[o]
    \/ ~running /\ startOrStopedAt < due[o] /\ due[o] <= startOrStopedAt + lag[o]
    \/ /\ kind[o] \in {"==", "!="}
       /\ \/ from[o] < mDuration[o] /\ mDuration[o] < Lap
          \/ mDuration[o] = Lap /\ Lap < shown[o]

=============================================================================
