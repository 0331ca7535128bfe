CONSTANTS
  p1 = p1
  p2 = p2
  A = A
  B = B
  Proc = {p1, p2}
  Id = {A, B}
  Topic = {t}
  Argv1 <- OneId
  SFArg <- NotTyped
  MaxCmds = 1
  NoProc = NoProc
  MaxFd = 7
  MaxNews = 2
SPECIFICATION FairSpec
INVARIANTS SessionsAgree ReportedStaysReady DescriptorsAgree InOrderOnce OnlyWhatWasAskedFor
PROPERTIES ImplementsRegistry StoredIsHandedOver OnlineGetsNews ExitEndsSessions FreesIds
CHECK_DEADLOCK FALSE
