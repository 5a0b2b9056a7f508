SPECIFICATION FairSpec
CONSTANTS
    s1 = s1  s2 = s2  c1 = c1  c2 = c2  c3 = c3  m1 = m1  n1 = n1
    u1 = u1  u2 = u2  k1 = k1  k1raw = k1raw  k2 = k2  None = None
    Servers <- FrameServers
    Clients <- FrameClients
    Handlers <- FrameHandlers
    Users <- MCUsers
    Keys <- MCKeys
    Canon <- MCCanon
    Members <- FrameMembers
    Host <- FrameHost
    Owner <- FrameOwner
    Op <- FrameOp
    Target <- FrameTarget
    MaxAttempts = 1
    MaxSends = 2
    ChanCap = 1
    MaxFaults = 0
    Senders = {c1}
    Stalled = {c1}
PROPERTIES CallsReturn RelayDelivers
CHECK_DEADLOCK FALSE
