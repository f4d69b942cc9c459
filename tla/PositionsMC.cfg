SPECIFICATION Spec
CONSTANTS
  s1 = s1
  s2 = s2
  p1 = p1
  p2 = p2
  a = a
  b = b
  Openers = {s1, s2}
  Processes = {p1, p2}
  ProcessOf <- MCProcessOf
  TTL = 1
  Timeout = 1
  MaxClock = 3
  Granter = Granter
  NoOne = NoOne
  Users = {a, b}
  Admin = Admin
  Trades <- MCTrades
  MaxTrades = 4
  Share = 8
  Grain = 4
  LogCost <- MCLogCost
  Seed = 2
  Grant = 64
  NoResult = NoResult
SYMMETRY Symmetry
CHECK_DEADLOCK FALSE
INVARIANTS
  OpenedOnce
  VoidClears
  AloneNeverProfits
  RepeatsTellTheSame
  StatementsAddUp
PROPERTIES
  HiddenBriefly
