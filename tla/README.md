# Pro-Test, specified

TLA+ specifications of [Pro-Test](../src/README.md), a framework that tests
concurrent C++ programs in simulated time: coroutines instead of threads, and a
clock that jumps to the next deadline when no coroutine can run. The
specifications are translated from the code in `src/`, checked by TLC on small
instances, and their main results are proved with TLAPS for every instance.

1. [The system](#1-the-system)
2. [The modules](#2-the-modules)
3. [What the runs check](#3-what-the-runs-check)
4. [What is proved](#4-what-is-proved)
5. [What is not modelled](#5-what-is-not-modelled)
6. [Plan](#6-plan)

Paths below are relative to `src/modules/`; `PROJECT.json` maps every definition
to its lines.

## 1. The system

A test script makes a `Context`, which is a coroutine `Scheduler`, and `Runner`s,
which are coroutines. `Context::run` runs the scheduler until nobody can run any
more. A runner's test code creates timers, stopwatches, values, ports and mocks,
and waits for durations or conditions; all that time passes in simulation.

| Component | State | Operations | Correct when |
|---|---|---|---|
| coroutine scheduler, `coro` | run queue (an intrusive FIFO), sleep queue (a binary heap by deadline), count of sleepers, clock; per coroutine `mSleepUntil`, `mIsWaiting`, `mIsInSleepQueue` | `addThread`, `coroYield`, `coroWait`, `coroWakeup`, `coroExit`, `run` | a coroutine is in one place only; time moves only when nobody can run; no wait ends late; the run queue starves nobody; the end of `run` tells finished from asleep for ever |
| binary heap, `utils/heap.h` | array of pointers, count; per element `mIndex` | `push`, `pop`, `peek`, `remove` | a priority queue; `mIndex` is right whenever `remove` may use it |
| ring buffer | array, two indices | push, pop, clear | a bounded FIFO |
| pools and lists, `utils` | arrays and intrusive links | push, pop, remove, allocate, free | an object is in one list at a time; no block is handed out twice |
| rtos queue, `rtos/queue.h` | ring buffer, mutex, two counting semaphores | `acquire`, `release`, `push`, `pop`, with and without timeout | a bounded FIFO; tokens match slots and elements; nobody blocks for good without a reason |
| rtos on the simulated scheduler, `rtos/arch/protest` | a count and a list of waiting runners, linked by the same `mNext` as the run queue | `acquire`, `release`; mutex and threads on top | no token lost or doubled; a waiter is in one list at a time; a timeout that races a release ends one way |
| runner, `core/runner_raw` | heap of armed jobs, wake-up event, current condition | `waitInternal`, `add`, `remove`, `wakeup`, `notify` | jobs run at their due time; a wait ends by its condition, its event or its timeout, whichever comes first |
| timer, `core/timer.h` | armed, start value, remaining time, reference count | `start`, `stop`, `reset`, expiry | one expiry per start, on time; `stop` takes it off; deleted with the last reference |
| signals and ports, `core` | lists of ports; per port a value or a queue of values, conditions, listeners | `push`, `bind`, destruction, reads, `waitFor` conditions | every bound port gets every value, in order; a port that goes away is not touched again |
| stopwatch, `core` | running, elapsed time, start time; per comparison a job | `start`, `stop`, `reset`, `lap`, comparisons in conditions | it measures time; a condition is evaluated again whenever its truth changes |
| value, expressions and invariants, `core` | values with listeners, trees of operators | assign, compare, `notify` | an invariant that was false once is reported |
| context and api, `core` | current and virtual current runner, runners, exit value | `run`, `assertThat`, `checkThat`, `wait` | exit value 1 when an assertion or an invariant has failed |
| mock, `mock` | expectations with cardinality, prerequisites and call count | `expectCall`, sequences, matching, saturation, retirement, check of missing calls | a test without a report has had the calls that were expected, in the order of the sequences |
| test manager, `meta` | test cases, counters | selection, counting | each selected test runs as often as told, and all failures are counted |
| log, doc, json, matcher, t3, tools | text | formatting, parsing, code generation | outside of the specifications |

How they interact. Everything in `core`, `mock` and the simulated `rtos` runs in
coroutines of one scheduler, so that control changes hands only in `coroYield`,
`coroWait` and `coroExit`; but library code calls these in places where a user
may not expect it (`Signal::push` yields between ports, a semaphore waits), and
callbacks of timers and ports run inside the waits of their owner. The same code
runs on real threads with `rtos/arch/posix`. The heap is shared by the scheduler
(deadlines) and the runners (jobs); the link `Coroutine::mNext` is shared by the
run queue and the waiting lists of semaphores.

What is hard to test, and what the properties aim at, is listed as "hazards" in
`PROJECT.json`: wake-ups racing deadlines, counters kept by several functions,
the boundaries of heap, ring and epoche, tokens taken before a lock, waits nested
in callbacks, lists changed while they are iterated, jobs that are set up from one
clock and moved by another, calls that fit several expectations.

## 2. The modules

### Scheduler

`Scheduler.tla` models `coro::Scheduler`, the calls of `coro::Coroutine` that
enter it, and the `LogicalClock`. `context` says whose stack is executing: the
program before `run()` ("setup"), the loop of `run()` ("main"), a coroutine, or
how it ended ("done", or "failed" by a `PROTEST_ASSERT`). `call[c]` is the call
that coroutine `c` is suspended in. Each action is a call up to the next switch
of context, since nothing else runs meanwhile:

| Action | Code |
|---|---|
| `AddThread` | `Scheduler::addThread` |
| `Yield`, `Sleep`, `SleepForever`, `Exit` | `coroYield`, `coroWait` up to the switch, `coroExit` |
| `Wakeup` | `coroWakeup` with `Scheduler::wakeup` |
| `RunNext` | start of `run()`, and `getNext` with a run queue |
| `RunSleeper` | `getNext` with only sleepers: the clock moves |
| `ReachEndOfEpoche`, `AllDone` | the two ends of `run()` |

The second half of `coroWait`, which reads `mIsWaiting` to find out whether it
timed out, is part of `Resume`. The heap is abstracted to the set of its members
with a least one on top; that this is what a heap does is the subject of the
next module. `SchedulerProperties.tla` states what the scheduler must guarantee.
`SimulatedTime.tla` is what users of the framework rely on, without queues, flags
or counters; `ImplementsSimulatedTime` says the scheduler implements it.

### Heap

`Heap.tla` models `utils::Heap` with one loop iteration per step, as the
interesting states are inside `push`, `remove` and `heapify`: `phase` and `at`
are the loop and its position. `remove` trusts the element's own `mIndex`, shifts
the ancestors down by copying pointers, and then starts `heapify` from a copy.
`PriorityQueue.tla` is the abstract specification. `peek` is `buffer[0]`, which
the refinement covers through `pop`.

### RtosQueue

`RtosQueue.tla` models `rtos::Queue` on POSIX threads. `push` and `pop` release
the caller's mutex, wait for a semaphore, and take the mutex again; `pc[t]` is
the next thing thread `t` does. The mutex and the semaphores are those of the
system, with one step for each operation. A timed wait may end without its token
at any moment, as deadlines race posts. The ring buffer is modelled with its
index arithmetic. Callers hold the mutex when they call: `push` and `pop` release it
before they wait, so that they can only be meant for its holder, although the test of
the queue (`queue_test.cpp`) also calls them without; see section 5.
`RtosQueueProperties.tla` has the properties; `BlockingQueue.tla` is
the abstract bounded FIFO that the queue implements.

### Runner and Timer

`Runner.tla` models `core::RunnerRaw` and `core::Job` on top of `SimulatedTime`,
the abstract scheduler: what runners rely on is its promise, which the scheduler
is proved to keep. `waitInternal` executes callbacks and a callback may call
`waitInternal`, so each runner has a `stack` of the waits and callbacks it is in.
A wait is at the head of its loop (`check`), asleep, or executing the jobs that
are due (`drain`). Test code and callbacks are arbitrary: any call, by any
runner, in any order.

| Action | Code |
|---|---|
| `Wait`, `FallAsleep`, `Resume`, `Return` | `waitInternal` up to its loop, up to `coroWait`, after it, and its end |
| `AddJob` | `Job::setDue` with `RunnerRaw::add` |
| `ChangeCondition` | a value in the condition of a wait changes, `RunnerRaw::notify` |
| `WakeUp` | `Semaphore::release` to a waiter that sleeps, which `RunnerRaw::wakeup` gives the token |
| `ReleaseToSelf` | `Semaphore::release` in a callback that the waiter executes |
| `ReleaseToWoken` | `Semaphore::release` to a waiter that a job or a condition has woken |

`release` takes the first waiter off its list and then calls `wakeup`, which does nothing
for a runner that does not sleep (`semaphore.cpp:97`, `runner_raw.cpp:243`). `token` in the
frame of a wait says what has become of it: awaited, given, or lost. A callback of the
waiter that releases loses the token, and `acquire` trips an assertion when it times out
later, as it is not in the list any more (`Return`). A waiter in the run queue is in two
lists by one `mNext`: the last one there links to itself, stays in the waiting list and
is cut off (`"cut"`); the next release loses the token; and if others follow it in the run
queue both lists are broken, which is `failed`. Each runner waits for a semaphore of its
own, and acquires it in `process()`, not in a callback.

`Timer.tla` adds the shared part of a timer (`TimerInternal`) and its handle:

| Action | Code |
|---|---|
| `Start`, `Continue`, `Stop`, `Reset` | `start(duration)`, `start()`, `stop()`, `reset()` |
| `Expire`, `EndOfExpiry` | `waitInternal` executes the job, up to the callback and after it |
| `StopDue`, `EndOfStop`, `EndOfReset` | `stop()` and `reset()` of a timer that is due: `RunnerRaw::remove` runs the callback, in the middle of the call |
| `Drop` | the handle goes out of scope |

`mStartedAt` is not a variable, as a timer that runs is due `mRemaining` after it.
Two preconditions are those of the assertions: `start` is for timers that do not
run, and `stop` for those that do. `TimerProperties.tla` has the properties;
`AlarmClock.tla` is the abstract specification.

### SimulatedRtos

`SimulatedRtos.tla` models the semaphores, mutexes and threads that the program
under test gets in simulation, again on top of `SimulatedTime`. The list of waiters
of a semaphore links them by `Coroutine::mNext`, which the run queue uses too:
linking a thread that is linked is `failed`. `owner` is history: who is between
`acquire` and `release` of a mutex.

| Action | Code |
|---|---|
| `Start`, `Exit`, `Sleep`, `Resume` | `Thread::start`, the end of `ThreadRunner::process`, `Thread::sleep`, the thread gets the CPU |
| `AcquireAtOnce`, `BeginAcquire` | `Semaphore::acquire` with a token, and without one up to `waitInternal` |
| `EndAcquire`, `GiveUp` | after `waitInternal`: woken, or out of time and removed from the list |
| `Release` | `Semaphore::release` with `RunnerRaw::wakeup`, and `Mutex::release` |

`IdealSemaphores.tla` is the promise: counters and deadlines, no lists and no
flags. Threads here have no jobs, which is so for the program under test; what happens
to a test runner that waits for a semaphore while its timers expire is in `Runner`, with
one waiter in each list.

### Ports

`Ports.tla` models `Signal::push` and the ports. A push walks two lists with an
iterator and yields before each port, so `stack[r]` has a frame for each push and
callback that runner `r` is in, and `stage` says where in its loop a push is. The
field `owed` of a frame is history: the ports that were bound when the push came to
the list and have not got the value.

| Action | Code |
|---|---|
| `Bind`, `Destroy` | assignment of a signal to a port, the destructor; conditions on a port keep its inner part |
| `Push`, `Yield`, `EndList` | `Signal::push` up to the first port, its yield, and the check of the number of ports after each list |
| `Accept`, `Reject`, `EndCallback` | `insertValue` up to the callback, with a filter that refuses, and after the callback |
| `Wait`, `SleepOn`, `EndWait` | a wait for a condition on a port: enabled and asleep, woken in vain, over and disabled |
| `WaitAsAnother` | the same call while the virtual runner is another one |
| `PopValue`, `Clear` | `QueuePort::pop` and `clear` |
| `Resume`, `End` | the scheduler |

Time stands still in this module, since nothing in a port depends on it. Four ends
of a test are `failed`: the assertion on the number of ports; a port destroyed
under the iterator of a push, which is undefined behaviour; a full ring, which throws;
and `WaitAsAnother`. The ring of a queue
port is the sequence that `RtosQueueProofs` shows it to be.
The properties are in `PortsProperties.tla`.

Reading the code for it showed what test code should know, and what the model does
as the code does:

* `pop` and `clear` tell no listeners (`queue_port.h:655`), so a wait for
  `size() == 0` is not ended by them. `Conditions` has only those that a push makes
  true, and `NoLostWakeUp` is about these.
* A callback that pushes loses its virtual runner for what it does after, and other
  runners that get the CPU meanwhile see it (`context.cpp:127`). One of them that calls
  `wait` does so as the virtual runner (`api_impl.h:99`), and the scheduler asserts,
  since that one is not running (`scheduler.cpp:61`).
* A runner that waits for the value of a sample port may be woken when another push
  has overwritten it already: `SleepOn` waits on.
* A push in a callback overtakes the outer one at the ports that come later.

### Stopwatch

`Stopwatch.tla` models `core::Stopwatch` and the six classes of comparisons with a
duration. What a class computes is a record: its value at a measured time, and the
measured time at which its job is due. The runner below is what timers promise: a
job is executed at its time (`Tick` waits for jobs that are due).

| Action | Code |
|---|---|
| `Enable`, `Disable` | a wait or an invariant with the condition begins and ends |
| `Start`, `Stop`, `Reset` | the calls of the same names |
| `Execute` | the runner executes the job: `Operator::notify` |

`shown[o]` is the measured time that the listener of operator `o` saw last. Three
variables are history: `ran` counts the ticks since the last `reset` during which the
stopwatch ran, `from[o]` is the measured time at which the operator was enabled or
reset, and `lag[o]` for how long the stopwatch had been stopped then. `MeasuresTime`
says that `lap()` is `ran`. `ChangesAreSeenAtOnce` is what `api.h:210` and
`demos/demo05/main.pt.cpp:46` promise: that the listener of a condition is told of each
change of its value, before time passes. The code does not keep it, as `paused_stopwatch` shows.
`ChangesAreNoticed` is the same with what the code does make an exception of, and each
exception no wider than that:

* An operator that is enabled or reset while the stopwatch is stopped is late, by the
  length of the pause up to then: `update()` counts from now and `start()` adds the whole
  pause. Its job is still to come, within `lag`.
* `==` and `!=` set up one job, so a listener that is told when an equality begins is not
  told when it ends. The beginning itself is no exception, nor is the end of an equality
  that held already when the operator was set up.
* `stop()` executes jobs that are due with `mTimePassed` already updated and
  `mRunning` still set, so that their listeners see the last lap counted twice. That is
  wrong for an equality that begins at this instant; for an inequality it makes no difference.

### Mock

`Mock.tla` models expectations: how they are made, to which one a call belongs, what
it counts, and what is reported. All that a call does to the state happens before
its action is performed, so a call is a step. A call stands for a function with its
arguments; `Contracts` are the expectations that tests make.

| Action | Code |
|---|---|
| `EnterSequence`, `LeaveSequence` | an `InSequence` object comes and goes |
| `ExpectCall` | `expectCall` with `after`, `times`, `when`, `retireOnSaturation` |
| `UnknownCall`, `UnexpectedCall`, `HandleCall` | a call for which `findMatchingExpectation` finds nothing, one that is saturated or whose clause is false, and one that counts |
| `DestroyMock` | `checkMissingCalls`, which the generated mock calls in its destructor |
| `ChangeCondition` | the program changes what the clauses are about |

`IdealMock.tla` says what a verdict means. `MockProperties.tla` has two more. Two
observations are in the model and break none of them: `retireAllPrerequisites` sets
only the flag to retire when saturated, so a prerequisite that may be called more
often still accepts calls that come late; and a retired expectation whose
prerequisites are not met is still returned for the report, although a comment at
`expectation.h:487` says that it is ignored, which decides only which of two
failures is reported.

## 3. What the runs check

| Run | Instance | Shows |
|---|---|---|
| `scheduler` | 3 coroutines, finite durations 0 and 1, infinity 3, end of the epoche 7 | one place for each coroutine, exact count of sleepers, no assertion fires, an honest end of `run`, time waits for the runnable, nobody oversleeps, the run queue is fair, simulated time is implemented |
| `heap` | 6 elements with the keys 0, 0, 1, 1, 2, 2 in 5 places | back-links and order inside the loops, only a full heap throws, loops end, a priority queue is implemented |
| `rtos_queue` | 3 threads, 2 slots, 2 values, all four kinds of waits | tokens are conserved and good, mutual exclusion, no mutual blocking, the mutex is given back, a bounded FIFO is implemented |
| `timers` | 2 runners, 2 timers of one of them, durations 0 to 2 | no assertion fires, references are counted, an alarm clock is implemented: each alarm rings once and on time |
| `waits` | 2 runners, 1 timer, waits for a duration, a condition or a token | nobody sleeps past a job, its timeout, its condition or a token it was given; waits end for a reason, also when tokens are lost |
| `simulated_rtos` | 3 threads, a mutex and a semaphore, timeouts 0, 1 and infinite, end of time 3, at most 2 tokens | the lists of waiters are exact, mutexes exclude, ideal semaphores are implemented: no token is lost or doubled, and timeouts are exact |
| `ports` | 2 runners, a signal, a sample port and 2 queue ports of both runners, rings of 2, 1 value, 3 conditions | a push delivers once to each port that stays bound, no wake-up is lost, no virtual runner outlives its callback; until an assertion ends the test |
| `stopwatch` | 2 comparisons of any of the 6 kinds with 0, 1 or 2, end of time 4 | jobs are set up once, time is measured, changes are noticed with three exceptions |
| `mock` | 2 mocks, 2 calls, 4 kinds of expectations, at most 3 expectations and 3 calls | a test without failures had the expected calls, prerequisites retire, an ideal mock is implemented |
| `paused_stopwatch` | 2 comparisons `<` with 1 or 2, end of time 4 | violated: a condition that is enabled in a pause is told of its change late |
| `nested_waits` | as `waits`, callbacks wait | violated: a wait in a callback prolongs the outer wait |
| `restart_when_stopped` | as `timers`, callbacks restart timers that are stopped | violated: a timer that is queued and not armed, and an assertion fires |

The last three disagree with the documentation in `demos/demo02/main.pt.cpp`,
`demos/demo05/main.pt.cpp` and `core/api.h`; "findings" in `PROJECT.json` quotes it.

Bounds. Every bound is a constant of a specification. Those that are guards the
code has not are named below: `EndOfTime`, `MaxDepth`, `MaxCount`,
`MaxExpectations` and `MaxCalls`.

* `scheduler`: the integers are narrow (`Infinity` stands for 2^63-1) so that
  sleeps reach the end of the epoche; three coroutines are a sleeper, one that
  wakes it and one that races both. The 16-bit counter keeps its width.
* `heap`: five places have three levels, a node with two children below the
  root, one with none, and a full heap; the sixth element finds it full. Equal
  keys make ties.
* `rtos_queue`: with two slots the ring wraps around while neither full nor
  empty; with three threads two race for what the third gives back. Two values
  tell elements apart.

* `timers`, `waits`: `EndOfTime` is 3, and `InEpoche` keeps timers and finite waits
  before it; in the program the epoche lasts for centuries. `MaxDepth` bounds how
  deep waits and callbacks nest: 3 is two callbacks in a wait. Four constants say
  what test code does, so that each run asks one question: `Kinds` the kinds of
  waits, `Durations`, `CallbacksWait`, and `StartWhenStopped`, which is whether the
  callback of a timer restarts it when it is executed by `stop`. The last two are
  FALSE where the properties hold and TRUE in the runs that show what happens
  otherwise. All timers belong to one runner, and the other one uses them too.
  The timers are interchangeable (`MCSymmetry`).
* `simulated_rtos`: of three threads one releases while two wait, which is what the
  order of the list and a race of timeout and release need. A mutex has one token, a
  semaphore up to `MaxCount`. In three units of time a wait of one can begin, end and
  be repeated. The threads are interchangeable.
* `ports`: two runners push at the same time, while suspended at different ports;
  three ports make both lists matter, and one of them a list with an inner place.
  One value is enough, as the conditions on the queues count. `MaxDepth` is 3: a push
  in a callback in a push. A ring of 2 fills up.
* `stopwatch`: operators do not interact except through the stopwatch, so two show
  what one does to the other's jobs. Four units of time leave room for a lap, a pause
  longer than the limit and another lap. The operators are interchangeable.
* `mock`: three expectations have prerequisites of prerequisites, and are enough for a
  call to fit two candidates and a saturated one. Scopes nest twice. The contracts
  cover cardinalities of exactly, at least and at most, clauses and retirement.

Fairness. The loop of `run()` never pauses (`WF_vars(Loop)`), and a coroutine that
has the CPU gives it up some time, without which a cooperative scheduler promises
nothing (`WF_vars(GiveUp(c))`); nothing is assumed about waking others. The loops
of the heap go on. The threads of the queue are scheduled by the system, and a
thread that holds the queue's mutex goes on to a push, a pop or the release;
nothing is assumed of who gets the mutex or of how a race of deadline and post
ends. No strong fairness is used. Runners, timers, stopwatches and simulated
semaphores have no liveness property: test code that waits for nothing but durations
of zero keeps time standing still for ever. That time does not pass an alarm, a job
or a token that somebody waits for is a safety property of `AlarmClock`, `Stopwatch`
and `IdealSemaphores`. A push may be suspended for ever by test code that keeps
pushing; that runnable coroutines run is `RunnableRuns`.

Deadlock is not checked: `run()` returns, test scripts end, nothing follows an
exception, bounded calls and time run out, and all threads may wait for an element
that nobody pushes.
`BlockedForAReason` says that the last is the only way for threads to block.

## 4. What is proved

The proofs hold for every value of the constants under the assumptions named in
the modules: finitely many coroutines, at most as many as
`Scheduler::maxNumberOfThreads` (the capacity of the sleep queue) and fewer than
2^16; a heap of at least one place whose elements keep their keys; finitely many
threads and at least one slot; for runners and timers, test code as `TimerProofs`
assumes it (below); any semaphores and finitely many threads; any signals, ports and
conditions, and pushes nested to any depth; any operators, durations, mocks and
expectations, with a minimum that does not exceed the maximum.

`SchedulerProofs.tla`. The inductive invariant is `Invariant` of
`SchedulerProperties`: the types, `OnePlaceEach`, `SleepersAccounted`,
`AssertionsHold`, `EndOfRunIsHonest`, and that the clock has not reached the end
of the epoche while `run()` is going. None is inductive alone: the count is right
only if nobody is in two places, a wake-up pushes to the run queue only a
coroutine that is in no queue, and the clock can move to the top of the heap only
because no deadline there is past. The action properties `TimeWaitsForRunnable`
and `NobodyOversleeps` follow from the invariant.

Its second part is the refinement: initial states map to initial states, and each
action maps to a step of `SimulatedTime` or a stutter, given the invariant.

`HeapProofs.tla`. The inductive invariant adds to `TypeOK`, `Linked`, `Ordered` and
`OnlyFullThrows` the ranges of the loop position (`InRange`). `Ordered` already
says what holds inside the loops: one element may be out of order, and its
relatives are in order with each other; this second half is what makes a swap
safe. The refinement `ImplementsPriorityQueue` needs that the root is a least element. That
is an induction over the path to the root; it is done without one, by the first position
that holds less than the root (`LeastNatural`), whose parent is before it. The other half
is that the loops move elements and lose none: the members of the queue are the elements in
the array, with what `remove` has overwritten and without what is about to be.

`RtosQueueProofs.tla`. `Invariant` of `RtosQueueProperties`: the conservation of
tokens carries the induction. It relates the cardinalities of the sets of threads
in each stage, so the lemmas say how a step changes these sets.
`BlockedForAReason` follows. The second part has the mapping to `BlockingQueue`, with the
arithmetic of a ring that wraps around.

`TimerProofs.tla`. The theorems but one assume `~CallbacksWait` and `~StartWhenStopped`, as
`nested_waits` and `restart_when_stopped` show that the properties fail otherwise.
`NoAssertion` assumes in addition that nobody waits for tokens: a wait whose token was lost
fails an assertion when it times out. The others are proved with tokens, as the invariant
is only claimed until something fails (`failed \/ Inv`), and a step that fails is `Stuck`.
The invariant `Inv` of that module relates what no single function sees. Armed timers
are the queued ones and none is overdue (`TimerInv`); a timer whose callback is
executed by `stop` or `reset` is not queued, and no two calls stop the same timer,
or the end of the call would set up a timer twice (`StoppingInv`); the only wait of
a runner is its first frame, so that who sleeps has no callback (`StackInv`); what is
left of a wait is exact at every stage of its loop, and its event is set exactly when its
token was given, not when it was lost (`WaitInv`); and a sleeper's deadline is before its jobs and its timeout
(`SleepInv`). That time stops at deadlines keeps the first part true, and that jobs
are queued before a runner sleeps keeps the last. `AssertionsHold`, `NobodySleepsTooLong`
and `WaitEndsForAReason` follow. So does `TypeOK`, and the refinement `ImplementsAlarmClock`:
an alarm is set while its timer is queued, for the time at which the job is due; it rings when
the job is taken from the queue and is answered when the callback is over. That no action takes
the clock past an alarm is `TimerInv` with `SleepInv`. `ReferencesCounted`
is the exception: it is proved for all test code. Its invariant (`CountInv`) is about counts
alone. The callbacks of a timer are counted as the pairs of a runner and a place in its stack,
and the lemmas say what pushing and popping a frame do to these.

`StopwatchProofs.tla`. `DueLap(o)` is the measured time at which the job of an operator is
due, put forward by `lag`, and `SetUpFor(o)` the one that its class computed when it was
enabled or reset: the invariant says that the two agree, whether the stopwatch runs or not
(`JobInv`). Starting, stopping and resetting keep the sum of the times constant, which is what
the induction is about. Around it, a listener has seen nothing from before its operator was
set up (`SeenSince`) and nothing that its job is still to tell it (`NotEarly`), and the job of
one that has not been told is to come (`JobToCome`). `ChangesAreNoticed` follows class by
class; `JobsAreSetUpOnce` and `MeasuresTime` are parts of the invariant.

`MockProofs.tla`. The invariant adds that prerequisites exist before what they are for.
`AllPrerequisites`, which the code computes by recursion, is the least closed set, and
the lemmas show that it is closed. `Retirement` and the refinement `ImplementsIdealMock`
follow. `VerdictIsSound` has an invariant of its own (`VerdictInv`): as long as nothing is
reported each call is one of an expectation, and what was missing when its mock was destroyed
is reported. The sum over the expectations is a recursive function; `SumIsCount` says that
it is the cardinality of the set of calls, as both satisfy the same equation and two functions
that do so cannot differ on a smallest set (`AddsOnce`).

`SimulatedRtosProofs.tla`. The list of a semaphore is without repetitions and has exactly
the threads whose call waits there (`ListInv`). A thread whose wait is over by a release
has its token and is in no list; one whose wait timed out is still in the list, so that
`GiveUp` removes it, and no release can come between, because at most one thread runs
(`OneRuns`): that is why `release` may take the first waiter for one that sleeps. The
token of a mutex is in one place (`MutexInv`): in the count, with the owner, or with a
thread that was handed it and has not gone on yet. The mapping to `IdealSemaphores` adds
what was handed over to the count, and what a sleeper waits for is its deadline.

`PortsProofs.tla`. The invariant gives each push its place in the list (`PushOk`): `owed` is
the list from the port at which the push is, or from the next one while the callback
executes. Ports are bound before the first, so that the rest of the list stays what it is
(`Prepended`), and a port that is destroyed leaves the list and `owed` at the same time
(`Removed`); both rest on lists without repetitions (`ListInv`). That callbacks are called
by pushes (`StackOk`) makes the end of a callback go on with the push below, and that what
a condition is about is bound while somebody waits for it (`WaitInv`) makes every change of
a value reach its listener. The invariant holds until an assertion fails, as in the
properties themselves; a wait as another runner is one of these failures, and shows why the
wait of the running runner is the only one that comes to sleep.

Only model-checked: the liveness properties `RunnableRuns`, `CallsReturn` and
`MutexGivenBack`. Fairness and `ENABLED` are beyond the prover; what it can show is that
whoever goes on gets somewhere. `RunQueueIsFair` says that nobody in the run queue is
overtaken, that the queue is no longer than there are coroutines, and that the loop of
`run()` always has a case. `CallsAreShort` and `MutexIsHeldShortly` give a count of steps
that only gets smaller: at most 2`N` iterations for a call of a heap, at most three steps
of the thread that has the mutex. That these steps are taken is the fairness of section 3.
Every other property of the passing runs is a theorem.

Induction over a data structure is done by a least counterexample: a set of natural numbers
that is not empty has a least element (`NatLessThanWellFounded` and `WFMin` of the library),
be it a position in the heap, the size of a set of expectations or a deadline.

## 5. What is not modelled

* Context switches and stacks: a switch is a step.
* How the POSIX mutex is implemented, how long a timed wait takes and signals that interrupt `sem_wait`: a timed wait may end at any time.
* Using `rtos::Queue` without its `acquire`, which releases a mutex that the
  thread does not hold. `queue_test.cpp` does so in some of its tests.
* Changing an element's key while it is in the heap: `Coroutine::mSleepUntil` is
  assigned only outside of it, which `OnePlaceEach` confirms.
* `rtos::Queue` on the simulated semaphores. It takes the result of
  `Semaphore::acquire` for "timed out" (`queue.h:78`), as it is on POSIX; the simulated
  semaphore returns whether it acquired a token. Both are modelled, each with its own
  meaning, but not the queue on the second.
* Several test runners that wait for the same semaphore while they have jobs. In
  `SimulatedRtos` several threads wait, which have no jobs; in `Runner` runners have jobs,
  and each its own semaphore. Semaphores that callbacks acquire are not in `Runner`.
* That a timer which is stopped and started again goes on for the time that was left: the
  code lets it run for the time that had gone by (`timer.h:220`), and so does `Timer`. The
  demo stops half way, where both are equal (`demos/demo02/main.pt.cpp:177`). No property is
  about it.
* Waits in callbacks of ports, and waits for durations while a callback of a port is
  suspended, which assert as `WaitAsAnother` does.
* Expressions with several operators. In `Runner` a condition is a truth value that
  any running code changes; in `Stopwatch` and `Ports` it has one operator. A condition with
  operators on two stopwatches is one link, which the second of them prepends to a list
  that it is in (`list.h:216`).
* Invariants as such: that their listener evaluates them when told is in `Stopwatch`; the
  report is output.
* Assignment of ports to ports, and expectations about ports.
* Which action of an expectation a call performs, and the class `Sequence`, which adds
  prerequisites as `after` does.
* The exit value of a context, which is set by assertions and invariants of test code and
  not by failures of mocks (`context.cpp:158`); sections and logging of a context.
* The test manager, a sequential loop over the test cases that the command line selects.
* The memory pool, which none of the modelled components uses.
* Logging, reports, configuration, matchers and the source-to-source tools, which
  are formatting, parsing and code generation; the demos and the vendored
  googletest. These are most of the lines of the repository: googletest alone has two
  thirds of them.

## 6. Plan

The modules planned are there, and every safety property and refinement that a run checks
is proved. What is left, by what it would add:

1. `rtos::Queue` on `SimulatedRtos`, and semaphores that several runners with jobs wait for.
2. Expressions with several operators, over stopwatches, values and ports.
3. How far the theorems about timers reach when callbacks wait: `ReferencesCounted` needs
   no assumption, and the others stop where `nested_waits` begins.
