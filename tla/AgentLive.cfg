CONSTANTS
    Proc = {p1, p2}
    Action = {a1}
    NoAction = NoAction
    NoOne = NoOne
    Lost = Lost
    Kinds = {"approve", "run"}
    Overrun = {}
    MaxSteps = 2
    MaxCalls = 1
SPECIFICATION FairOffered
PROPERTIES RequestsEnd LockReturns ActionsSettle
