SPECIFICATION Spec
CONSTANTS
  MaxPush = 5
  MaxPop = 7
\* Both threads end after their calls.
CHECK_DEADLOCK FALSE
INVARIANTS
  TypeOK
  NoDataRace
  MemorySafety
PROPERTY
  IsAQueue
