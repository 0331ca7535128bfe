CONSTANTS
  BUFFER_SIZE = 3
  Percents = {0, 50}
  Garbled = {0, 5, 13}
  Chunk = 1399
  COUNT = 7
  Window = 3
  Sizes <- SomeSizes
SPECIFICATION FairSpec
INVARIANTS WithinWindow WrittenInOrder DoneMeansWritten WindowsBounded
PROPERTIES Completes
CHECK_DEADLOCK FALSE
