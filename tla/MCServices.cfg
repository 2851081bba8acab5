\* Two users, two groups, two session requests in three seconds, two operations,
\* two taps on one item, two files, two messages with two jobs, one click at a
\* time; every bound is that of the part it belongs to.
CONSTANTS
    Person = {u1, u2}
    None = None
    Group = {g1, g2}
    Role = {"MEMBER", "CHAIRPERSON"}
    MemberCaller = {c1}
    SessionCaller = {a1, a2}
    LastSecond = 3
    Op = {op1, op2}
    Submission = {op1}
    Run = {r1, r2}
    MaxRetries = 2
    MaxBusy = 3
    MaxCrashes = 1
    Goods = {i1}
    Recipient = u1
    Tap = {t1, t2}
    Sweep = {s1, s2}
    Document = {d1, d2}
    File = {k1, k2}
    Fellow = {u1, u2}
    GroupChair = u1
    Uploader = {c1, c2}
    Notice = {n1, n2}
    Job = {j1, j2}
    Circle = {u1}
    Offset = {0}
    Phoned = {u1}
    Provider = {"EMAIL", "SMS"}
    Channels <- MailAndList
    Notifier = {c1}
    Attempts = 2
    MaxOpen = 2
    MaxTrouble = 1
    Click = {k1}
    MaxChanges = 2
SPECIFICATION ServicesSpec
INVARIANTS
    ServicesTypeOK
    OneChairPerUser
    GuardsAgree
    RotationBounded
    QueuedNotLost
    ServedAsAuthor
    ConfirmedIsBacked
    ListedHasObject
    NothingForgotten
    ScreensCatchUp
PROPERTIES
    OpSettles
CHECK_DEADLOCK FALSE
