SPECIFICATION Spec
CONSTANTS
  Ids = {1, 2, 3, 4}
  Stamps = {0, 2}
  Batches <- MCBatches
  Holders = {1, 2}
  r1 = r1
  r2 = r2
  Refreshers = {r1, r2}
  Times = {1, 2, 3}
  Kept = 2
  FirstWorth <- MCFirstWorth
  Markets = {1, 2, 3}
  CloseTimes = {2, 3}
  LastClock = 3
  Limits = {1}
  Me = 2
  MaxMoves = 1
CONSTRAINT Few
SYMMETRY Alike
CHECK_DEADLOCK FALSE
INVARIANTS
  HistoryWhole
  RankingWhole
  BrowseWhole
