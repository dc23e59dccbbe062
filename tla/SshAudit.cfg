CONSTANTS
    Rule = {1}
    RuleName = {m1}
    Host = {h1}
    HostGroup = {g1, g2}
    Cred = {c1, c2}
    g1 = g1
    g2 = g2
    c1 = c1
    c2 = c2
    Links <- MCLinks
    Kinds = {"single", "script"}
    Most = 0
SPECIFICATION Spec
INVARIANTS SshAudited
CHECK_DEADLOCK FALSE
