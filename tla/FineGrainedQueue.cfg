SPECIFICATION FairSpec
CONSTANTS
  p1 = p1
  p2 = p2
  p3 = p3
  w1 = w1
  t1 = t1
  n1 = n1
  n2 = n2
  n3 = n3
  NoThread = NoThread
  Nothing = Nothing
  Null = Null
  Producer = {p1, p2, p3}
  Waiter = {w1}
  Poller = {t1}
  Node = {n1, n2, n3}
  MaxCalls = 1
  MaxSpurious = 1
\* Waiters may wait for ever once all pushes are done.
CHECK_DEADLOCK FALSE
INVARIANTS
  TypeOK
  OneOwnerEach
PROPERTIES
  IsAQueue
  CallsReturn
