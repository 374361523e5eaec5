\* The program at its real constants; a job may need 5 ms more than its C, and
\* each semaphore may hold one token of an earlier program.
SPECIFICATION Spec
CONSTANTS
  Periods = 3
  TickMs = 5
  Oversleep = 1
  Overrun = 1
  MaxStale = 1
INVARIANTS
  TypeOK
  DeadlinesMet
  AllServed
PROPERTIES
  ImplementsSchedule
  Termination
