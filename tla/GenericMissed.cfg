\* Main may be late: is a missed deadline reported?
SPECIFICATION Spec
CONSTANTS
  N = 2
  Freq <- FreqTwo
  Phase <- PhaseTwo
  TicksPerSec = 4
  Horizon = 4
  MaxDelay = 1
  MaxDrift = 1
  MaxRuns = 1
  Crashes = FALSE
PROPERTY MissReported
