SPECIFICATION MCSpec
CONSTANTS
 m1 = m1
 m2 = m2
 c1 = c1
 c2 = c2
 k1 = k1
 k2 = k2
 k3 = k3
 Markets = {m1, m2}
 Clients = {c1, c2}
 Users = {c1, c2}
 Relays = {r1}
 Sockets = {k1, k2}
 UserOf <- MCUserOf
 LastVersion <- MCLastVersion
 Jumps = {1, 2}
 Follows <- MCFollows
 Ceiling = 1
 QueueSize = 1
 MaxInbox = 1
 MaxFaults = 1
 SkipsInFlight = FALSE
 NoSocket = NoSocket
 NoRelay = NoRelay
SYMMETRY Alike
INVARIANTS
 HubsAgree
 NothingFrozen
PROPERTIES
 PricesNeverGoBack
CHECK_DEADLOCK FALSE
