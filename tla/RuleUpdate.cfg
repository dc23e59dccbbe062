CONSTANTS
    Rule = {1, 2}
    RuleName = {m1}
    Host = {h1}
    HostGroup = {g1, g2}
    Cred = {c1, c2}
    g1 = g1
    g2 = g2
    c1 = c1
    c2 = c2
    Links <- MCLinks
    Kinds = {}
    Most = 4
SPECIFICATION Spec
INVARIANTS EditStored
CHECK_DEADLOCK FALSE
