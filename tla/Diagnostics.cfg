CONSTANTS
    Runner = Runner
    Canceller = {c1, c2}
    NoOne = NoOne
    Target = {t1, t2}
    Probes = 2
SPECIFICATION FairSpec
INVARIANTS TypeOK EventsNumbered StopsSoon ReportWhole ReportReady
PROPERTIES RunSettles CancelAnswered
CHECK_DEADLOCK FALSE
