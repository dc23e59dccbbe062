CONSTANTS
    Caller = {c1, c2}
    User = {"admin", "ann"}
    Key = {k1, k2}
    Limit = 2
    Flag = ""
    Faults = {"crash", "damage"}
    Login = {r1, r2}
    Account = {"ann"}
    Stranger = {"eve"}
    Captcha = {"c1"}
    Token = {"t1"}
    AccountLimit = 1
    AddressLimit = 2
    Chosen = 2
    Session = 3
    MostOutput = 2
    MostWritten = 3
    Times = 2
    Traits = {"fails", "silent"}
    Narrowest = 2
    Default = 3
    Widest = 4
    Widths = {1, 5}
    TermFaults = {"redis", "shell"}
    Path = {"p1", "p2"}
    NoPath = "none"
    UploadLimit = 3
    Chunk = {1, 2}
    Polite = TRUE
SPECIFICATION AllSpec
INVARIANTS Types NeverReopened WrittenMeansSeeded GuessesBounded NothingLeftOpen
PROPERTIES OneGuess RowIsTrue ConfiguredStarts UnusedSessionEnds CommandBounded LogoutEnds
CHECK_DEADLOCK FALSE
