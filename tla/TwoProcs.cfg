\* main.c and main.cpp, run after run: complete, interrupted, or without a child.
SPECIFICATION FairSpec
CONSTANTS
  Rounds = 3
  Unlinks = {TRUE, FALSE}
  ForkMayFail = TRUE
  Interrupts = TRUE
  MaxRuns = 4
\* A parent whose fork failed waits for ever.
CHECK_DEADLOCK FALSE
INVARIANTS
  TypeOK
  OneToken
  TokensPerRun
PROPERTIES
  Alternates
  Termination
