CONSTANTS
    Runner = Runner
    Canceller = {c1}
    NoOne = NoOne
    Target = {t1}
    Probes = 1
SPECIFICATION Spec
PROPERTIES CancelHonoured
CHECK_DEADLOCK FALSE
