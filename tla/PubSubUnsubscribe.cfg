CONSTANTS
  p1 = p1
  p2 = p2
  A = A
  B = B
  Proc = {p1, p2}
  Id = {A, B}
  Topic = {t}
  Argv1 <- Distinct
  SFArg = {1}
  MaxCmds = 2
  NoProc = NoProc
  MaxFd = 7
  MaxNews = 0
SPECIFICATION Spec
PROPERTIES UnsubscribeIsOwn
CHECK_DEADLOCK FALSE
