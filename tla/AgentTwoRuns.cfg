CONSTANTS
    Proc = {p1, p2}
    Action = {a1}
    NoAction = NoAction
    NoOne = NoOne
    Lost = Lost
    Kinds = {"run"}
    Overrun = {"run"}
    MaxSteps = 1
    MaxCalls = 1
SPECIFICATION Spec
INVARIANTS OneRun
