CONSTANTS
    Rule = {1, 2}
    RuleName = {m1, m2}
    Host = {h1, h2}
    HostGroup = {g1, g2}
    Cred = {c1, c2}
    g1 = g1
    g2 = g2
    c1 = c1
    c2 = c2
    Links <- MCLinks
    Kinds = {"command", "agent", "upload", "script", "single", "group"}
    Most = 2
    JobRequest = {r1, r2}
    Scheduler = "scheduler"
    NoOne = "no one"
    Lost = "lost"
    User = {"ann", "bob"}
    JobAdmin = {"ann"}
    Command = {"ls", "df"}
    JobHost = {"h"}
    Target = {"web"}
    JobMembers <- MCMembers
    Alone = {"remove", "run", "close"}
    Faults = {"commit", "crash"}
    MailRequest = {r1, r2}
    Mail = {"m"}
    Code = {"k1", "k2"}
    DayLimit = 1
    IpLimit = 2
    Tries = 1
    Op = {r1, r2}
    Id = {1, 2}
    Name = {"n1", "n2"}
    Group = {"u1", "u2"}
    Keep = 2
    Window = 7
    Floor = 1
    Reserves = {0, 1}
    Steps = 2
    Calls = 2
    Longest = 7
    Text = {"a", "b", "c", "d"}
    Char = {"{", "}", "1", "2"}
    Answers <- MCAnswers
    Turns = 2
SPECIFICATION AllSpec
INVARIANTS Types      ShownOnce
    ArgumentsWhole GrantedTogether RowsTrue GatesNested
PROPERTIES CodeSpent
SYMMETRY Symmetric
CHECK_DEADLOCK FALSE
