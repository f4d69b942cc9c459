------------------------- MODULE MarketLifecycleMC -------------------------
(***************************************************************************)
(* Two requests in flight and a close sweep over one market, whose creator    *)
(* and one other administrator save, publish, close, propose and decide it. *)
(***************************************************************************)
EXTENDS MarketLifecycle, TLC

CONSTANTS s1, s2, ann, ben, yes

By(who, kind) == [kind |-> kind, by |-> who, time |-> 0, winner |-> NoOutcome]
Save(kind, t) == [kind |-> kind, by |-> ann, time |-> t, winner |-> NoOutcome]

MCRequests ==
  {Save("autosave", 3), Save("submit", 2),
   By(ann, "publish"), By(ben, "close"),
   [kind |-> "propose", by |-> ann, time |-> 0, winner |-> yes],
   By(ben, "approve"), By(ann, "approve"), By(ben, "reject"), By(ben, "send_back"),
   By(ben, "settle"), By(ben, "void")}
=============================================================================
