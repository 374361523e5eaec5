\* The program run twice on the same named semaphores, killed anywhere, with
\* late wake-ups.
SPECIFICATION FairSpec
CONSTANTS
  N = 2
  Freq <- FreqTies
  Phase <- PhaseLate
  TicksPerSec = 4
  Horizon = 5
  MaxDelay = 1
  MaxDrift = 1
  MaxRuns = 2
  Crashes = TRUE
INVARIANTS
  TypeOK
  QueueHoldsEveryService
  TruncationNeverAccumulates
  NoneLeftBehind
  SemOutlivesThread
  CyclesAreReleases
  TokensAccounted
PROPERTIES
  NeverEarly
  ImplementsSchedule
  Termination
