CONSTANTS
    Proc = {p1, p2, p3}
    Action = {a1}
    NoAction = NoAction
    NoOne = NoOne
    Lost = Lost
    Kinds = {"read", "approve", "cancel"}
    Overrun = {"approve"}
    MaxSteps = 1
    MaxCalls = 1
SPECIFICATION SpecOffered
INVARIANTS AtMostOnce WithdrawnNeverRan
SYMMETRY Symmetric
