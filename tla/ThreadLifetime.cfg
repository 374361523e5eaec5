SPECIFICATION Spec
CONSTANT NThreads = 4
\* The process ends.
CHECK_DEADLOCK FALSE
INVARIANTS
  TypeOK
  StorageOutlivesThreads
  NoneCutOff
PROPERTY Termination
