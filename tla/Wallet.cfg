CONSTANTS
  c1 = c1
  c2 = c2
  c3 = c3
  A = A
  B = B
  Client = {c1, c2, c3}
  Id = {A, B}
  Argv1 <- TwoIds
  Sums <- LossAndGain
  MaxInt = 3
  MaxTyped = 1
  MaxEnds = 1
SPECIFICATION Spec
INVARIANTS MoneyAddsUp NoOverdraft OneHolder FailedFind
CHECK_DEADLOCK FALSE
