SPECIFICATION Spec
CONSTANTS
  t1 = t1
  t2 = t2
  t3 = t3
  n1 = n1
  n2 = n2
  n3 = n3
  Null = Null
  Wild = Wild
  Nothing = Nothing
  NoThread = NoThread
  max_hazard_pointers = 2
  Programs = {"counts"}
  Thread = {t1, t2}
  Node = {n1, n2}
  MaxPush = 1
  MaxPop = 1
  Overlapping = TRUE
  Wrap = 4
  Starts <- ZeroStart
SYMMETRY Symmetry
\* The threads end after their calls, or the program breaks.
CHECK_DEADLOCK FALSE
INVARIANT
  HeadAlive
