SPECIFICATION Spec
CONSTANTS
    u1 = u1  u2 = u2  u3 = u3  ghost = ghost  Nil = Nil
    r1 = r1  r2 = r2  p1 = p1  p2 = p2
    Accounts = {u1, u2, u3}
    Ids = {u1, u2, u3, ghost, Nil}
    By <- MCBy
    Into <- MCInto
    MaxCrashes = 1
    Creates = {r1, r2}
    Posts = {p1, p2}
    Bodies <- MCBodies
    MaxConns = 2
INVARIANTS TypeOK ConversationsWhole OnlyPartyTold PostsSound TwinsOnlyByRace
PROPERTY ImplementsLedger
CHECK_DEADLOCK FALSE
