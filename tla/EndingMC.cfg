SPECIFICATION EndingSpec
CONSTANTS
  s1 = s1
  c1 = c1
  c2 = c2
  ann = ann
  ben = ben
  yes = yes
  no = no
  Sessions = {s1}
  Sweepers = {}
  Administrators = {ann, ben}
  Creator = ann
  Outcomes = {yes, no}
  Requests <- MCRequests
  Window = 1
  Gap = 2
  Stall = 1
  MaxClock = 5
  MaxProposals = 2
  NoOne = NoOne
  NoOutcome = NoOutcome
  NoRequest = NoRequest
  SweepRequest = SweepRequest
  Clerks = {c1, c2}
  Skew = 1
  NoTerms = NoTerms
  NoRecord = NoRecord
SYMMETRY Symmetry
INVARIANTS
  PaysWhatStands
  ServicesAgree
  DoneMeansDone
