SPECIFICATION Spec
CONSTANTS
  Main = Main
  Helper = {h1, h2}
  Length = 2
  max_thread_count = 1
CHECK_DEADLOCK FALSE
PROPERTY
  SortReturns
