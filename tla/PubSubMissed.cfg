CONSTANTS
  p1 = p1
  p2 = p2
  A = A
  B = B
  Proc = {p1, p2}
  Id = {A, B}
  Topic = {t}
  Argv1 <- OneId
  SFArg = {1}
  MaxCmds = 1
  NoProc = NoProc
  MaxFd = 7
  MaxNews = 3
SPECIFICATION Spec
PROPERTIES MissedNewsArrives
CHECK_DEADLOCK FALSE
