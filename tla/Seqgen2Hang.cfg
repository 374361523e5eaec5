\* Does seqgen2, its services on other cores than the Sequencer, end?
SPECIFICATION FairSpec
CONSTANTS
  N = 3
  Table <- Seqgen2Table
  MaxFailures = 0
CHECK_DEADLOCK FALSE
PROPERTY Termination
