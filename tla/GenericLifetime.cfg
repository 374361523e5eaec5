\* Does elapsed outlive the threads that load it?
SPECIFICATION Spec
CONSTANTS
  N = 2
  Freq <- FreqTwo
  Phase <- PhaseTwo
  TicksPerSec = 4
  Horizon = 4
  MaxDelay = 0
  MaxDrift = 0
  MaxRuns = 1
  Crashes = FALSE
INVARIANT ElapsedOutlivesThreads
