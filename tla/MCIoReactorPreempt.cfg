SPECIFICATION Spec
CONSTANTS
  main = main
  a = a
  b = b
  Frames = {main, a, b}
  Root = main
  Fds = {1}
  None = None
  Modes = {"await"}
  Does <- MCDoes
  Blocking = {}
  MaxOps <- MCOps
  MaxDelay = 1
  MaxData = 1
  MaxGen = 2
INVARIANT NothingDropped
CHECK_DEADLOCK FALSE
