CONSTANTS
  BUFFER_SIZE = 2
  serialization_delay = 2
  delay = 2
  loss = 10
  corrupt = 100
  MsgLen = {0, 1}
  MaxMsgs = 4
  MaxBack = 1
  MaxStall = 1
  MaxSpurious = 1
SPECIFICATION FairSpec
INVARIANTS SeenIsStillSo NoLostSignal PipeBounded
PROPERTIES DelayHonoured Drains
CHECK_DEADLOCK FALSE
