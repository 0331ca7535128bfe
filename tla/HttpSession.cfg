CONSTANTS
  ana = ana
  emma = emma
  terror = terror
  User = {ana}
  Book = {emma, terror}
  Tricky = {terror}
  Pages <- SevenTwice
  MaxTyped = 5
SPECIFICATION FairSpec
INVARIANTS SessionIsOwn VerdictIsTrue OpenConnections
PROPERTIES CommandsEnd
CHECK_DEADLOCK FALSE
