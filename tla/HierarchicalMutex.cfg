SPECIFICATION Spec
CONSTANTS
  t1 = t1
  t2 = t2
  NoThread = NoThread
  m10 = m10
  m5 = m5
  m5b = m5b
  m2 = m2
  Thread = {t1, t2}
  Mutex = {m10, m5, m5b, m2}
  Level <- MCLevel
  MaxLevel = 4
SYMMETRY ThreadSymmetry
INVARIANTS
  TypeOK
  NoDeadlock
  LevelIsLowestHeld
PROPERTY
  AcquiresDescend
