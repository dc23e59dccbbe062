CONSTANTS
    Proc = {p1, p2}
    Action = {a1}
    NoAction = NoAction
    NoOne = NoOne
    Lost = Lost
    Kinds = {"read", "approve", "cancel", "delete", "run"}
    Overrun = {}
    MaxSteps = 2
    MaxCalls = 2
SPECIFICATION Spec
INVARIANTS TypeOK OutcomeKept OneRun
PROPERTIES VerdictStable KeepsOffer
SYMMETRY Symmetric
