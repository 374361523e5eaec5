\* pthread.c with three threads, lab1.c with its two services.
SPECIFICATION Spec
CONSTANTS
  NThreads = 3
  SeqCnt <- SeqCounts
  IterCnt = 2
  Blocks = 2
  Jobs = 2
  Sec = 3
  LastStamp = 7
\* The threads exit; nothing makes a service begin another job.
CHECK_DEADLOCK FALSE
INVARIANTS
  TypeOK
  IdxBounded
  WorkDone
  DtExact
PROPERTY EveryJobEnds
