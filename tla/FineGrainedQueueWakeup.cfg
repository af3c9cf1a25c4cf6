SPECIFICATION FairSpec
CONSTANTS
  p1 = p1
  p2 = p2
  p3 = p3
  w1 = w1
  t1 = t1
  n1 = n1
  n2 = n2
  n3 = n3
  NoThread = NoThread
  Nothing = Nothing
  Null = Null
  Producer = {p1}
  Waiter = {w1}
  Poller = {}
  Node = {n1, n2, n3}
  MaxCalls = 1
  MaxSpurious = 0
\* Waiters may wait for ever once all pushes are done.
CHECK_DEADLOCK FALSE
PROPERTY
  WaiterServed
