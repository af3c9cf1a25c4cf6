SPECIFICATION Spec
CONSTANTS
  p1 = p1
  p2 = p2
  p3 = p3
  p4 = p4
  v1 = v1
  f1 = f1
  r1 = r1
  r2 = r2
  n1 = n1
  n2 = n2
  n3 = n3
  t1 = t1
  t2 = t2
  t3 = t3
  k1 = k1
  k2 = k2
  k3 = k3
  a = a
  b = b
  Pusher = {p1, p2, p3, p4}
  Visitor = {v1}
  Finder = {f1}
  Remover = {r1, r2}
  Node = {n1, n2, n3}
  HeadNode = HeadNode
  Null = Null
  NoThread = NoThread
  User = User
  Wild = Wild
  Nothing = Nothing
  ListCalls = 1
  Matching <- OthersItems
  hasher <- MCHasher
  QueueNode = {1, 2, 3}
  QueuePushes = 4
  Caller = {t1, t2}
  Key = {k1, k2, k3}
  Value = {a, b}
  Bucket = {1, 2}
  MaxCalls = 2
  StackCalls = 3
  NoValue = NoValue
SYMMETRY Symmetry
\* The threads end after their calls, or the queue breaks.
CHECK_DEADLOCK FALSE
INVARIANTS
  TypeOK
  NoDanglingUse
  WalkMissesNothing
  NoDeadlock
PROPERTIES
  IsAMap
  IsAStack
  IsAQueue
