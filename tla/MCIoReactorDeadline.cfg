SPECIFICATION FairSpec
CONSTANTS
  main = main
  a = a
  b = b
  Frames = {main, a, b}
  Root = main
  Fds = {1}
  None = None
  Modes = {"wait"}
  Does <- MCDoes
  Blocking = {}
  MaxOps <- MCOps
  MaxDelay = 1
  MaxData = 1
  MaxGen = 2
PROPERTY DeadlineEnds
CHECK_DEADLOCK FALSE
