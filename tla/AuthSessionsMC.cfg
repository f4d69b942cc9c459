SPECIFICATION Spec
CONSTANTS
 s1 = s1
 s2 = s2
 ann = ann
 ben = ben
 tom = tom
 Sessions = {s1, s2}
 Users <- Pair
 FirstAdmins <- JustAnn
 Tokens = {t1, t2, t3}
 Requests <- AllRequests
 ScanOrders <- OneOrder
 MaxEntries = 3
 NoUser = NoUser
 NoToken = NoToken
 NoRequest = NoRequest
 Nobody = Nobody
SYMMETRY Alike
INVARIANT SuspendedHoldsNothing
PROPERTY ExchangedWhileLive
PROPERTY ReplayClosesAll
PROPERTY BadgeIsCurrent
INVARIANT AdministratorRemains
INVARIANT AuditTells
