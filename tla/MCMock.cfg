\* Three expectations, so that one has prerequisites of prerequisites.
SPECIFICATION Spec
CONSTANTS
  m1 = m1
  m2 = m2
  a = a
  b = b
  r = r
  Mocks = {m1, m2}
  Calls = {a, b}
  Contracts <- MCContracts
  Runners = {r}
  MaxExpectations = 3
  MaxCalls = 3
INVARIANTS
  VerdictIsSound
  PrerequisitesRetire
PROPERTIES
  ImplementsIdealMock
CHECK_DEADLOCK FALSE
