SPECIFICATION ListingsSpec
CONSTANTS
  t1 = t1
  t2 = t2
  t3 = t3
  t4 = t4
  Locker = {t1, t2, t3, t4}
  MaxCalls = 2
  Items = 6
  Floor <- LowestCount
  Inputs <- SmallInputs
  Repeats = 2
  MaxSpurious = 2
  NoThread = NoThread
  Lengths = {0, 1, 24, 25, 26, 49, 50, 51, 74, 75, 76, 99, 100, 101}
  Hardware = {0, 1, 2, 3, 4}
  min_per_thread = 25
  Unset = Unset
\* All threads end, or poll in vain, and 3.9 may block.
CHECK_DEADLOCK FALSE
INVARIANTS
  ListingsTypeOK
  SectionsOrdered
  ReadersSeeData
  NothingRaces
  DoneOnce
  NoUseAfterScope
  ResultsAreSequential
PROPERTY
  ListingsReturn
