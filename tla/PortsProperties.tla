-------------------------- MODULE PortsProperties --------------------------
(***************************************************************************)
(* What signals and ports promise.                                         *)
(***************************************************************************)
EXTENDS Ports

PushFrames ==
  (UNION {{stack[r][i] : i \in 1 .. Len(stack[r])} : r \in Runners}) \cap Pushes

\* Signal::push comes to two lists of ports.  It hands its value to those that
\* are in the list when it comes there and to no other port, to none of them
\* twice, and when it ends with the list without an assertion to all of them
\* that are not destroyed; no matter which ports came and went, and what else
\* was pushed, while it was suspended.
PushesDeliver ==
  ~failed =>
    \A f \in PushFrames :
      /\ f.stage = "insert" => f.at \in f.owed
      /\ f.at = NoPort => f.owed = {}

\* A runner does not sleep while the condition on a port holds that it waits
\* for, even if other runners take values out of the port or destroy the port:
\* the wait keeps what the port consists of, bound to its signal.  This is so
\* for waits that begin as the running runner; one that begins while the virtual
\* runner is another one does not come to sleep, as an assertion fails.
NoLostWakeUp ==
  ~failed =>
    \A r \in Runners :
      waitsFor[r] # NoCondition =>
        /\ IsBound(waitsFor[r].port)
        /\ state[r] = "sleeping" => ~Holds(waitsFor[r])

\* There is a virtual runner only while one of its ports is executing a
\* callback.  (A callback that pushes sees itself as no runner's callback
\* afterwards.  That others do not see its runner meanwhile is not said: they
\* do, and WaitAsAnother is what comes of it.)
VirtualIsTemporary ==
  ~failed /\ virtual # NoRunner =>
    \E r \in Runners : \E i \in 1 .. Len(stack[r]) :
      stack[r][i].kind = "callback" /\ RunnerOf[stack[r][i].port] = virtual

=============================================================================
