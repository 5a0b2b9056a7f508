SPECIFICATION Spec
CONSTANTS
    a = a  b = b  x = x  y = y  z = z  o = o  hi = hi  bye = bye  None = None
    Convs = {a, b}
    Mine = {x, y, z}
    Others = {o}
    Body <- MCBody
    Limit = 1
    MaxPosts = 2
    MaxWire = 2
SYMMETRY MCSymmetry
INVARIANTS TypeOK NoMessageTwice TempsAccounted SentStaysShown MissingOnlyInGap OrderOnlyByOverlap
CHECK_DEADLOCK FALSE
