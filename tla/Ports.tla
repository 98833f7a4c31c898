-------------------------------- MODULE Ports --------------------------------
(***************************************************************************)
(* core::Signal and the ports that are bound to it.  Pushing a value hands *)
(* it to every port in turn, in the coroutine of the pusher, and gives up  *)
(* the CPU before each: pushes of several runners mix, and while one is    *)
(* suspended other runners bind and destroy ports.  A port executes a      *)
(* callback in the name of its runner, the virtual runner of the context.  *)
(* The callback may push as well, so pushes nest.                          *)
(*                                                                         *)
(* The scheduler is what it promises (SimulatedTime); time does not matter *)
(* and stands still.  Runners wait for conditions on ports as in Runner;   *)
(* callbacks do not wait.  A port has one callback, which is arbitrary     *)
(* code, and filters that accept a value or do not.                        *)
(***************************************************************************)
EXTENDS Integers, Sequences, SequencesExt, FiniteSets

CONSTANTS
  Runners,
  Signals,
  SamplePorts, QueuePorts,
  SignalOf,      \* per port: mSignal
  RunnerOf,      \* per port: mRunner
  Values,        \* what is pushed
  InitialValue,  \* what a sample port has before
  Size,          \* how many elements the ring of a queue port has
  Conditions,    \* what runners wait for
  NoPort, NoRunner, NoCondition,
  MaxDepth       \* bound: how many frames pushes and callbacks nest

PortNames == SamplePorts \cup QueuePorts
Lists == {"samples", "queues"}

ASSUME PortsAssumption ==
  /\ SamplePorts \cap QueuePorts = {}
  /\ NoPort \notin PortNames
  /\ SignalOf \in [PortNames -> Signals]
  /\ RunnerOf \in [PortNames -> Runners]
ASSUME RunnersAssumption == IsFiniteSet(Runners) /\ NoRunner \notin Runners
ASSUME SizeAssumption == Size \in Nat \ {0}
\* A condition compares a port with something: the value of a sample port, or
\* the number of elements that a queue port has at least.
ASSUME ConditionsAssumption ==
  /\ Conditions \subseteq [port : SamplePorts, is : Values]
                     \cup [port : QueuePorts, atLeast : 1 .. Size]
  /\ NoCondition \notin Conditions

VARIABLES
  now, state, deadline, outcome, over, \* see SimulatedTime
  ports,    \* per signal and kind: mSamplePorts, mQueuePorts
  alive,    \* the ports whose objects are not destroyed yet
  value,    \* per sample port: mValue
  ring,     \* per queue port: mRingBuffer
  stack,    \* per runner: its pushes and callbacks, innermost last
  waitsFor, \* per runner: the condition that it waits for
  virtual,  \* mCurrentVirtual
  failed    \* an assertion has thrown, or an iterator dangles

timeVars == <<now, state, deadline, outcome, over>>
portVars == <<ports, alive, value, ring>>
vars == <<timeVars, portVars, stack, waitsFor, virtual, failed>>

Time == INSTANCE SimulatedTime WITH Coroutines <- Runners, EndOfTime <- 1

\* A push is at a port of a list that had n elements: it is about to yield
\* ("head"), to insert the value, or inside of insertValue.  owed is history:
\* the ports that were in the list when the push came to it, are so ever since,
\* and have not got the value.
Pushes ==
  [kind : {"push"}, signal : Signals, value : Values, list : Lists,
   at : PortNames \cup {NoPort}, n : Nat, owed : SUBSET PortNames,
   stage : {"head", "insert", "inside"}]
Callbacks == [kind : {"callback"}, port : PortNames]

TypeOK ==
  /\ now = 0 \/ over
  /\ state \in [Runners -> Time!States]
  /\ ports \in [Signals -> [Lists -> Seq(PortNames)]]
  /\ alive \subseteq PortNames
  /\ value \in [SamplePorts -> Values \cup {InitialValue}]
  /\ ring \in [QueuePorts -> Seq(Values)]
  /\ stack \in [Runners -> Seq(Pushes \cup Callbacks)]
  /\ waitsFor \in [Runners -> Conditions \cup {NoCondition}]
  /\ virtual \in Runners \cup {NoRunner}
  /\ failed \in BOOLEAN

Init ==
  /\ now = 0
  /\ state = [r \in Runners |-> "ready"]
  /\ deadline = [r \in Runners |-> 0]
  /\ outcome = [r \in Runners |-> FALSE]
  /\ over = FALSE
  /\ ports = [s \in Signals |-> [l \in Lists |-> <<>>]]
  /\ alive = {}
  /\ value = [p \in SamplePorts |-> InitialValue]
  /\ ring = [p \in QueuePorts |-> <<>>]
  /\ stack = [r \in Runners |-> <<>>]
  /\ waitsFor = [r \in Runners |-> NoCondition]
  /\ virtual = NoRunner
  /\ failed = FALSE

-----------------------------------------------------------------------------
Top(r) == Last(stack[r])
SetTop(r, frame) == stack' = [stack EXCEPT ![r] = Append(Front(@), frame)]

ListOf(p) == IF p \in SamplePorts THEN "samples" ELSE "queues"
IsBound(p) == p \in ToSet(ports[SignalOf[p]][ListOf(p)])

\* process() or a callback is executing.
InCode(r) ==
  /\ state[r] = "running"
  /\ waitsFor[r] = NoCondition
  /\ stack[r] # <<>> => Top(r).kind = "callback"

InPush(r, stage) ==
  /\ state[r] = "running"
  /\ stack[r] # <<>>
  /\ Top(r).kind = "push" /\ Top(r).stage = stage

\* The expressions: SamplePortExpr, and IsAvailable and Size.
SampleIs(p, v) == value[p] = v
QueueHas(p, n) == Len(ring[p]) >= n

Holds(c) ==
  IF c.port \in SamplePorts THEN SampleIs(c.port, c.is)
                            ELSE QueueHas(c.port, c.atLeast)

\* The conditions that are enabled on a port, by their runners.
Listeners(p) == {r \in Runners : waitsFor[r] # NoCondition /\ waitsFor[r].port = p}

-----------------------------------------------------------------------------
(* Ports come and go.                                                      *)

Forget(frame, p) ==
  IF frame.kind = "push"
  THEN [frame EXCEPT !.owed = @ \ {p}] ELSE frame

IsAt(p) ==
  \E r \in Runners : \E i \in 1 .. Len(stack[r]) :
    stack[r][i].kind = "push" /\ stack[r][i].at = p

\* The destructor of the internal part of a port, when nothing refers to it any
\* more.  A push that stands at the port will use what is not there any more.
Unbind(p) ==
  /\ ports' = [ports EXCEPT ![SignalOf[p]][ListOf(p)] = RemoveFirst(@, p)]
  /\ value' = [x \in SamplePorts |-> IF x = p THEN InitialValue ELSE value[x]]
  /\ ring' = [x \in QueuePorts |-> IF x = p THEN <<>> ELSE ring[x]]
  /\ stack' = [r \in Runners |->
                 [i \in 1 .. Len(stack[r]) |-> Forget(stack[r][i], p)]]
  /\ failed' = IsAt(p)

\* port = signal.
Bind(r, p) ==
  /\ InCode(r)
  /\ p \notin alive /\ ~IsBound(p)
  /\ alive' = alive \cup {p}
  /\ ports' = [ports EXCEPT ![SignalOf[p]][ListOf(p)] = <<p>> \o @]
  /\ UNCHANGED <<timeVars, value, ring, stack, waitsFor, virtual, failed>>

\* Mutant: conditions on the port do not count.
MutantDestroy(r, p) ==
  /\ InCode(r)
  /\ p \in alive
  /\ alive' = alive \ {p}
  /\ Unbind(p)
  /\ UNCHANGED <<timeVars, waitsFor, virtual>>

\* The destructor of a port.  Conditions on it keep its internal part.
Destroy(r, p) ==
  /\ InCode(r)
  /\ p \in alive
  /\ alive' = alive \ {p}
  /\ IF Listeners(p) = {} THEN Unbind(p)
                          ELSE UNCHANGED <<ports, value, ring, stack, failed>>
  /\ UNCHANGED <<timeVars, waitsFor, virtual>>

-----------------------------------------------------------------------------
(* Waiting for a condition.                                                *)

\* A condition that does not hold is enabled for the current virtual runner, and
\* that one is told to wait.
BeginWait(r, c) ==
  /\ InCode(r)
  /\ stack[r] = <<>>
  /\ c.port \in alive
  /\ ~Holds(c)

IsCurrent(r) == virtual \in {NoRunner, r}

\* It is the running one, and sleeps.
Wait(r, c) ==
  /\ BeginWait(r, c)
  /\ IsCurrent(r)
  /\ waitsFor' = [waitsFor EXCEPT ![r] = c]
  /\ Time!Sleep(r, 1)
  /\ UNCHANGED <<portVars, stack, virtual, failed>>

\* It is another one: the scheduler asserts that who sleeps is running (and if
\* that runner waits for a condition already, waitInternal asserts before).
WaitAsAnother(r, c) ==
  /\ BeginWait(r, c)
  /\ ~IsCurrent(r)
  /\ failed' = TRUE
  /\ UNCHANGED <<timeVars, portVars, stack, waitsFor, virtual>>

\* Something else has made the condition false again.
SleepOn(r) ==
  /\ state[r] = "running"
  /\ waitsFor[r] # NoCondition /\ ~Holds(waitsFor[r])
  /\ Time!Sleep(r, 1)
  /\ UNCHANGED <<portVars, stack, waitsFor, virtual, failed>>

\* The condition is disabled and destroyed.
EndWait(r) ==
  /\ state[r] = "running"
  /\ waitsFor[r] # NoCondition /\ Holds(waitsFor[r])
  /\ waitsFor' = [waitsFor EXCEPT ![r] = NoCondition]
  /\ LET p == waitsFor[r].port IN
       IF p \notin alive /\ Listeners(p) = {r}
       THEN Unbind(p) ELSE UNCHANGED <<ports, value, ring, stack, failed>>
  /\ UNCHANGED <<timeVars, alive, virtual>>

\* The runner gets the CPU.
Resume(r) ==
  /\ Time!Run(r)
  /\ UNCHANGED <<portVars, stack, waitsFor, virtual, failed>>

\* The scheduler finds nothing to do any more.
End ==
  /\ Time!End
  /\ UNCHANGED <<portVars, stack, waitsFor, virtual, failed>>

-----------------------------------------------------------------------------
(* Signal::push                                                            *)

\* A push that starts with the given list.
AtList(s, v, list) ==
  LET those == ports[s][list] IN
  [kind |-> "push", signal |-> s, value |-> v, list |-> list,
   at |-> IF those = <<>> THEN NoPort ELSE Head(those), n |-> Len(those),
   owed |-> ToSet(those), stage |-> "head"]

\* Mutant: a push ends at the port that was bound first but one.
MutantOnward(frame) ==
  LET those == ports[frame.signal][frame.list]
      here == CHOOSE i \in 1 .. Len(those) : those[i] = frame.at IN
  [frame EXCEPT !.stage = "head",
                !.at = IF here + 1 < Len(those) THEN those[here + 1]
                                                ELSE NoPort]

\* ++iter
Onward(frame) ==
  LET those == ports[frame.signal][frame.list]
      here == CHOOSE i \in 1 .. Len(those) : those[i] = frame.at IN
  [frame EXCEPT !.stage = "head",
                !.at = IF here < Len(those) THEN those[here + 1] ELSE NoPort]

Push(r, s, v) ==
  /\ InCode(r)
  /\ Len(stack[r]) < MaxDepth
  /\ stack' = [stack EXCEPT ![r] = Append(@, AtList(s, v, "samples"))]
  /\ UNCHANGED <<timeVars, portVars, waitsFor, virtual, failed>>

Yield(r) ==
  /\ InPush(r, "head")
  /\ Top(r).at # NoPort
  /\ Time!Yield(r)
  /\ SetTop(r, [Top(r) EXCEPT !.stage = "insert"])
  /\ UNCHANGED <<portVars, waitsFor, virtual, failed>>

\* The end of a list: it must have as many elements as before.
EndList(r) ==
  /\ InPush(r, "head")
  /\ Top(r).at = NoPort
  /\ failed' = (Len(ports[Top(r).signal][Top(r).list]) # Top(r).n)
  /\ IF Top(r).list = "samples"
     THEN SetTop(r, AtList(Top(r).signal, Top(r).value, "queues"))
     ELSE stack' = [stack EXCEPT ![r] = Front(@)]
  /\ UNCHANGED <<timeVars, portVars, waitsFor, virtual>>

-----------------------------------------------------------------------------
(* insertValue                                                             *)

Notify(S) ==
  /\ state' = [r \in Runners |->
                 IF r \in S /\ state[r] = "sleeping" THEN "woken" ELSE state[r]]
  /\ UNCHANGED <<now, deadline, outcome, over>>

\* What a sample port does with a value that its filters accept.
InsertSample(p, v) ==
  /\ p \in SamplePorts
  /\ value' = [value EXCEPT ![p] = v]
  /\ failed' = FALSE
  /\ UNCHANGED ring

\* And a queue port.  The ring asserts that it is not full.
InsertQueue(p, v) ==
  /\ p \in QueuePorts
  /\ ring' = [ring EXCEPT ![p] = Append(@, v)]
  /\ failed' = (Len(ring[p]) = Size)
  /\ UNCHANGED value

\* Its listeners are told, and its callback begins.
Accept(r) ==
  /\ InPush(r, "insert")
  /\ LET p == Top(r).at IN
       /\ InsertSample(p, Top(r).value) \/ InsertQueue(p, Top(r).value)
       /\ Notify(Listeners(p))
       /\ virtual' = RunnerOf[p]
       /\ stack' = [stack EXCEPT ![r] =
                      Append(Append(Front(@), [Top(r) EXCEPT !.stage = "inside",
                                                             !.owed = @ \ {p}]),
                             [kind |-> "callback", port |-> p])]
  /\ UNCHANGED <<ports, alive, waitsFor>>

\* Mutant: returns without resetting the virtual runner.
MutantReject(r) ==
  /\ InPush(r, "insert")
  /\ SetTop(r, Onward([Top(r) EXCEPT !.owed = @ \ {Top(r).at}]))
  /\ virtual' = RunnerOf[Top(r).at]
  /\ UNCHANGED <<timeVars, portVars, waitsFor, failed>>

\* A filter does not accept the value.
Reject(r) ==
  /\ InPush(r, "insert")
  /\ SetTop(r, Onward([Top(r) EXCEPT !.owed = @ \ {Top(r).at}]))
  /\ virtual' = NoRunner
  /\ UNCHANGED <<timeVars, portVars, waitsFor, failed>>

\* The callback returns to insertValue, which returns to push.
EndCallback(r) ==
  /\ InCode(r)
  /\ stack[r] # <<>>
  /\ LET below == Front(stack[r]) IN
       stack' = [stack EXCEPT ![r] = Append(Front(below), Onward(Last(below)))]
  /\ virtual' = NoRunner
  /\ UNCHANGED <<timeVars, portVars, waitsFor, failed>>

-----------------------------------------------------------------------------
(* Reading a port.                                                         *)

\* QueuePort::pop.  The ring asserts that there is an element: test code makes
\* sure of it.
PopValue(r, p) ==
  /\ InCode(r)
  /\ p \in alive \cap QueuePorts
  /\ ring[p] # <<>>
  /\ ring' = [ring EXCEPT ![p] = Tail(@)]
  /\ UNCHANGED <<timeVars, ports, alive, value, stack, waitsFor, virtual, failed>>

Clear(r, p) ==
  /\ InCode(r)
  /\ p \in alive \cap QueuePorts
  /\ ring' = [ring EXCEPT ![p] = <<>>]
  /\ UNCHANGED <<timeVars, ports, alive, value, stack, waitsFor, virtual, failed>>

Step(r) ==
  \/ Resume(r)
  \/ SleepOn(r) \/ EndWait(r)
  \/ \E c \in Conditions : Wait(r, c) \/ WaitAsAnother(r, c)
  \/ \E p \in PortNames : Bind(r, p) \/ Destroy(r, p)
  \/ \E p \in QueuePorts : PopValue(r, p) \/ Clear(r, p)
  \/ \E s \in Signals, v \in Values : Push(r, s, v)
  \/ Yield(r) \/ EndList(r)
  \/ Accept(r) \/ Reject(r) \/ EndCallback(r)

Next == ~failed /\ (End \/ \E r \in Runners : Step(r))

Spec == Init /\ [][Next]_vars

=============================================================================
