\* Four cycles from any phase of the second; the clock may be set once in them.
SPECIFICATION Spec
CONSTANTS
  Sec = 13
  Dt = 3
  Bias = 1
  Uncertainty = 3
  Rounding = 1
  Exec = 1
  Latency = 1
  Cycles = 4
  Steps <- StepSizes
  MaxSets = 1
INVARIANTS
  TypeOK
  EarlyOnlyAtFullSecond
  DriftHalved
