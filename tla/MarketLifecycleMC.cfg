SPECIFICATION FairSpec
CONSTANTS
  s1 = s1
  s2 = s2
  ann = ann
  ben = ben
  yes = yes
  Sessions = {s1, s2}
  Sweepers = {w1}
  Administrators = {ann, ben}
  Creator = ann
  Outcomes = {yes}
  Requests <- MCRequests
  Window = 1
  Gap = 1
  Stall = 1
  MaxClock = 6
  MaxProposals = 2
  NoOne = NoOne
  NoOutcome = NoOutcome
  NoRequest = NoRequest
  SweepRequest = SweepRequest
INVARIANTS
  DecidedOnce
  RowCoherent
PROPERTIES
  MovesForward
  ApprovesWhatWasRead
  OverdueCloses
