SPECIFICATION Spec
CONSTANTS
    b1 = b1  b2 = b2  u1 = u1  u2 = u2  l1 = l1  l2 = l2  r1 = r1  r2 = r2  o1 = o1
    None = None
    Browsers = {b1, b2}
    Users = {u1, u2}
    Logins = {l1, l2}
    Refreshes = {r1, r2}
    Logouts = {o1}
    By <- MCBy
    User <- MCUser
    Legacy = {b1}
PROPERTIES RevokedForGood
CHECK_DEADLOCK FALSE
