------------------------------ MODULE EndingMC ------------------------------
(***************************************************************************)
(* Two administrators' settle and void requests in the ledger, while one of  *)
(* two others proposes, approves, rejects and sends back in market_service.  *)
(***************************************************************************)
EXTENDS Ending, TLC

CONSTANTS s1, c1, c2, ann, ben, yes, no

By(who, kind) == [kind |-> kind, by |-> who, time |-> 0, winner |-> NoOutcome]
Propose(o) == [kind |-> "propose", by |-> ann, time |-> 0, winner |-> o]

MCRequests ==
  {Propose(yes), Propose(no), By(ben, "approve"), By(ben, "reject"), By(ben, "send_back")}

Symmetry == Permutations(Clerks) \cup Permutations(Outcomes)
=============================================================================
