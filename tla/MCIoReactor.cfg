SPECIFICATION FairSpec
CONSTANTS
  main = main
  a = a
  b = b
  Frames = {main, a, b}
  Root = main
  Fds = {1}
  None = None
  Modes = {"await", "wait", "c"}
  Does <- MCDoes
  Blocking = {}
  MaxOps <- MCOps
  MaxDelay = 1
  MaxData = 1
  MaxGen = 2
INVARIANTS HeldOnce NoLookupForgotten OwnSocket
PROPERTY Served
CHECK_DEADLOCK FALSE
