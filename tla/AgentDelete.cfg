CONSTANTS
    Proc = {p1}
    Action = {a1}
    NoAction = NoAction
    NoOne = NoOne
    Lost = Lost
    Kinds = {"delete", "run"}
    Overrun = {}
    MaxSteps = 1
    MaxCalls = 1
SPECIFICATION Spec
PROPERTIES DeletionRefused
