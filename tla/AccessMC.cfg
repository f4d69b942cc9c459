SPECIFICATION AccessSpec
CONSTANTS
  Lifetime = 1
  LastClock = 2
INVARIANTS AuthorityIsFresh AnswersKept
