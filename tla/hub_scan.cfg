SPECIFICATION FairSpec
CONSTANTS
    s1 = s1  s2 = s2  c1 = c1  c2 = c2  c3 = c3  m1 = m1  n1 = n1
    u1 = u1  u2 = u2  k1 = k1  k1raw = k1raw  k2 = k2  None = None
    Servers <- ChurnServers
    Clients <- ChurnClients
    Handlers <- ScanHandlers
    Users <- MCUsers
    Keys <- MCKeys
    Canon <- MCCanon
    Members <- ScanMembers
    Host <- ScanHost
    Owner <- ScanOwner
    Op <- ScanOp
    Target <- ScanTarget
    MaxAttempts = 1
    MaxSends = 2
    ChanCap = 1
    MaxFaults = 0
    Senders = {c1}
    Stalled = {}
INVARIANTS AudienceSound
PROPERTIES ConnectionsSettle
CHECK_DEADLOCK FALSE
