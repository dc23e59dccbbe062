CONSTANTS
    Proc = {p1, p2}
    Action = {a1}
    NoAction = NoAction
    NoOne = NoOne
    Lost = Lost
    Kinds = {"read", "approve"}
    Overrun = {}
    MaxSteps = 1
    MaxCalls = 1
SPECIFICATION SpecOffered
INVARIANTS ExpiredNeverRan
