SPECIFICATION Spec
CONSTANTS
    s1 = s1  s2 = s2  c1 = c1  c2 = c2  c3 = c3  m1 = m1  n1 = n1
    u1 = u1  u2 = u2  k1 = k1  k1raw = k1raw  k2 = k2  None = None
    Servers <- FanServers
    Clients <- FanClients
    Handlers <- FanHandlers
    Users <- MCUsers
    Keys <- MCKeys
    Canon <- MCCanon
    Members <- FanMembers
    Host <- FanHost
    Owner <- FanOwner
    Op <- FanOp
    Target <- FanTarget
    MaxAttempts = 1
    MaxSends = 2
    ChanCap = 2
    MaxFaults = 0
    Senders = {}
    Stalled = {}
INVARIANTS CopiesBounded RelayOrder
CHECK_DEADLOCK FALSE
