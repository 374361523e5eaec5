\* The three programs, any one creation of a thread failing.
SPECIFICATION FairSpec
CONSTANTS
  N = 3
  Table <- AllTables
  MaxFailures = 1
\* The shutdown may strand a service and main with it (Seqgen2Hang), and
\* without its Sequencer a program waits for ever.
CHECK_DEADLOCK FALSE
INVARIANTS
  TypeOK
  TokensAccounted
PROPERTIES
  ImplementsSchedule
  TerminatesOnOneCore
