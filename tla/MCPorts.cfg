SPECIFICATION Spec
CONSTANTS
  r1 = r1
  r2 = r2
  s = s
  p1 = p1
  q1 = q1
  q2 = q2
  Runners = {r1, r2}
  Signals = {s}
  SamplePorts = {p1}
  QueuePorts = {q1, q2}
  SignalOf <- MCSignalOf
  RunnerOf <- MCRunnerOf
  Values = {1}
  InitialValue = 0
  Size = 2
  Conditions <- MCConditions
  NoPort = NoPort
  NoRunner = NoRunner
  NoCondition = NoCondition
  MaxDepth = 3
INVARIANTS
  PushesDeliver
  NoLostWakeUp
  VirtualIsTemporary
CHECK_DEADLOCK FALSE
