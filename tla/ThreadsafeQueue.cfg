SPECIFICATION FairSpec
CONSTANTS
  p1 = p1
  p2 = p2
  c1 = c1
  c2 = c2
  t1 = t1
  NoThread = NoThread
  Nothing = Nothing
  Producer = {p1, p2}
  Consumer = {c1, c2}
  Poller = {t1}
  MaxCalls = 2
  MaxSpurious = 1
  MaxThrown = 1
\* Consumers may wait for ever once all pushes are done.
CHECK_DEADLOCK FALSE
INVARIANTS
  TypeOK
  WakeupPerItem
PROPERTIES
  IsAQueue
  SleeperServed
