SPECIFICATION Spec
CONSTANTS
  t1 = t1
  t2 = t2
  t3 = t3
  n1 = n1
  n2 = n2
  n3 = n3
  Null = Null
  Wild = Wild
  Nothing = Nothing
  NoThread = NoThread
  max_hazard_pointers = 2
  Programs = {"pending", "hazards", "counts"}
  Thread = {t1, t2}
  Node = {n1, n2}
  MaxPush = 2
  MaxPop = 3
  Overlapping = FALSE
  Wrap = 4
  Starts <- ZeroAndOtherStarts
SYMMETRY Symmetry
\* The threads end after their calls, or the program breaks.
CHECK_DEADLOCK FALSE
INVARIANTS
  TypeOK
  OnlyNullMisused
  EveryNodeHasOnePlace
  PopsNeverOverlap
PROPERTY
  IsAStack
