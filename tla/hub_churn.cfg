SPECIFICATION Spec
CONSTANTS
    s1 = s1  s2 = s2  c1 = c1  c2 = c2  c3 = c3  m1 = m1  n1 = n1
    u1 = u1  u2 = u2  k1 = k1  k1raw = k1raw  k2 = k2  None = None
    Servers <- ChurnServers
    Clients <- ChurnClients
    Handlers <- ChurnHandlers
    Users <- MCUsers
    Keys <- MCKeys
    Canon <- MCCanon
    Members <- ChurnMembers
    Host <- ChurnHost
    Owner <- ChurnOwner
    Op <- ChurnOp
    Target <- ChurnTarget
    MaxAttempts = 2
    MaxSends = 1
    ChanCap = 2
    MaxFaults = 1
    Senders = {}
    Stalled = {}
SYMMETRY ChurnSymmetry
INVARIANTS TypeOK RegistryExact CopiesBounded
PROPERTIES SendLoopsComplete ImplementsBroadcast
CHECK_DEADLOCK FALSE
