--------------------------- MODULE AuthSessionsMC ---------------------------
(***************************************************************************)
(* AuthSessions for TLC: one account's sessions and administrators who change *)
(* each other, and a larger set of administrators for the lock order alone.   *)
(***************************************************************************)
EXTENDS AuthSessions, TLC

CONSTANTS s1, s2, ann, ben, tom

MCUsers == {ann, ben, tom}

MCFirstAdmins == {ann, ben}

Pair == {ann, tom}

JustAnn == {ann}

Of(kind, user, token) ==
  [kind |-> kind, by |-> NoUser, user |-> user, token |-> token, role |-> "trader"]

By(admin, kind, user, asked) ==
  [kind |-> kind, by |-> admin, user |-> user, token |-> NoToken, role |-> asked]

\* Sessions of one account, while an administrator promotes and suspends it.
SessionRequests ==
  {Of("register", tom, NoToken), Of("login", tom, NoToken),
   By(ann, "role", tom, "admin"), By(ann, "suspend", tom, "trader"),
   By(ann, "unsuspend", tom, "trader")}
  \cup {Of(kind, NoUser, t) : kind \in {"refresh", "logout"}, t \in Tokens}

\* Two administrators demoting, suspending and promoting one another and a third.
AdminRequests ==
  {Of("register", tom, NoToken),
   By(ann, "role", tom, "admin"), By(ben, "role", tom, "admin"),
   By(ann, "role", ben, "trader"), By(ben, "role", ann, "trader"),
   By(ann, "suspend", ben, "trader"), By(ben, "suspend", ann, "trader"),
   By(tom, "suspend", ann, "trader"), By(ann, "unsuspend", ben, "trader")}

\* ... who, once promoted, suspends that administrator while it is demoted.
AllRequests ==
  SessionRequests \cup
  {By(ann, "role", tom, "trader"), By(tom, "suspend", ann, "trader")}

\* The order of the rows in the table, the newcomer's first.
NewestFirst == [u \in Users |-> IF u = tom THEN 0 ELSE IF u = ann THEN 1 ELSE 2]

OneOrder == {NewestFirst}

Alike == Permutations(Sessions) \cup Permutations(Tokens)

=============================================================================
