SPECIFICATION FairSpec
CONSTANTS
  t1 = t1
  t2 = t2
  t3 = t3
  n1 = n1
  n2 = n2
  Null = Null
  Nothing = Nothing
  Thread = {t1, t2, t3}
  Node = {n1, n2}
  MaxPush = 1
  MaxPop = 1
\* The threads end after their calls.
CHECK_DEADLOCK FALSE
INVARIANTS
  TypeOK
  ListIntact
PROPERTIES
  CallsReturn
  IsAStack
