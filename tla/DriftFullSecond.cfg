\* Two cycles from any phase of the second, and nobody sets the clock.
SPECIFICATION Spec
CONSTANTS
  Sec = 13
  Dt = 3
  Bias = 1
  Uncertainty = 3
  Rounding = 1
  Exec = 1
  Latency = 1
  Cycles = 2
  Steps = {}
  MaxSets = 0
INVARIANT NeverEarly
