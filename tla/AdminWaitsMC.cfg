SPECIFICATION Spec
CONSTANTS
 s1 = s1
 s2 = s2
 ann = ann
 ben = ben
 tom = tom
 Sessions = {s1, s2}
 Users <- MCUsers
 FirstAdmins <- MCFirstAdmins
 Tokens = {t1}
 Requests <- AdminRequests
 ScanOrders <- OneOrder
 MaxEntries = 3
 NoUser = NoUser
 NoToken = NoToken
 NoRequest = NoRequest
 Nobody = Nobody
SYMMETRY Alike
INVARIANT NeverWaitOnEachOther
