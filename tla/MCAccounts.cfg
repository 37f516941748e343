CONSTANTS
    ada = ada  bob = bob  r1 = r1  r2 = r2  s1 = s1  s2 = s2  l1 = l1  l2 = l2
    Emails = {ada, bob}
    Admins = {ada, bob}
    Bootstrap = {ada, bob}
    Requests = {r1, r2}
    SessionIds = {s1, s2}
    LinkIds = {l1, l2}
    Backends = {"sqlite", "d1"}
    Mixes <- MCMixes
    MaxRow = 1
    MaxPw = 1
SPECIFICATION Spec
INVARIANTS TypeOK OldPasswordOut SuspendedOut OneResetLink
PROPERTIES LinkSetsOnce LastOneStays
CHECK_DEADLOCK FALSE
SYMMETRY MCSymmetry
