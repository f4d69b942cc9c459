SPECIFICATION Spec
CONSTANTS
  s1 = s1
  s2 = s2
  m1 = m1
  m2 = m2
  o1 = o1
  o2 = o2
  Sessions = {s1, s2}
  Markets = {m1, m2}
  Orders = {o1, o2}
  Nobody = Nobody
  NoMarket = NoMarket
  NoOrder = NoOrder
  NoRequest = NoRequest
  Accounts <- MCAccounts
  Users <- MCUsers
  OwnerOf <- MCOwnerOf
  MarketOf <- MCMarketOf
  Keys <- MCKeys
  Requests <- MCRequests
  Clock <- MCClock
  Stamps <- MCStamps
SYMMETRY Symmetry
INVARIANTS
  FundsCoverReservations
  OneTransactionPerKey
  NoLockCycle
PROPERTIES
  RetryNeverOverdrawn
  StampsFollowCommits
  PostsAtomically
