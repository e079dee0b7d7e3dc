\* Two requests at a time, two connections, two sign-ins, two accounts.
CONSTANTS
    h1 = h1  h2 = h2  p1 = p1  p2 = p2  a1 = a1  a2 = a2
    s1 = s1  s2 = s2  c1 = c1  c2 = c2  g1 = g1  g2 = g2
    None = None
    Requests = {h1, h2}
    Profiles = {p1, p2}
    Attempts = {a1, a2}
    Subjects = {s1, s2}
    Clients = {c1, c2}
    Grants = {g1, g2}
    MaxVersion = 2
SYMMETRY Alike
SPECIFICATION Spec
INVARIANTS GateIsHeld SavedTokenIsCurrent TokensMatchAccount OneSignInPerAttempt RemovedIsSilent
PROPERTIES AccountIsKept
