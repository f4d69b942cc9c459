SPECIFICATION Spec
CONSTANTS
  s1 = s1
  s2 = s2
  a = a
  b = b
  Sessions = {s1, s2}
  Users = {a, b}
  Keys <- MCKeys
  Requests <- MCRequests
  Share = 8
  Grain = 4
  LogCost <- MCLogCost
  Reach <- MCReach
  Unit = 100
  Grant = 32
  Subsidy = 12
  Swings <- MCSwings
  MaxSwings = 1
  NoKey = NoKey
  NoRequest = NoRequest
  NoResult = NoResult
SYMMETRY Symmetry
INVARIANTS
  BookAddsUp
  LimitsKept
  CascadeNeverRefused
  VersionsDense
PROPERTIES
  NothingStale
