CONSTANTS
  BUFFER_SIZE = 3
  Percents = {0, 50}
  Garbled = {0, 5, 13}
  Chunk = 1399
  COUNT = 7
  Window = 3
  Sizes = {28}
SPECIFICATION Spec
PROPERTIES WrongAckIsResent
CHECK_DEADLOCK FALSE
