\* pthread.c, which joins before it prints, and main.cpp, which does not.
SPECIFICATION Spec
CONSTANTS
  Count = 4
  Amount = 2
INVARIANTS
  TypeOK
  GsumBounded
  PrintedExact
