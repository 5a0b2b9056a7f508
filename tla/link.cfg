SPECIFICATION FairSpec
CONSTANTS
    a = a  b = b  k1 = k1  k2 = k2  k3 = k3  None = None
    Convs <- MCConvs
    Slots <- MCSlots  Overlaps = 2
INVARIANTS TypeOK NoSilentEnd
PROPERTIES OrphansOnlyByOverlap GetsConnected LogoutSettles
CHECK_DEADLOCK FALSE
