\* The constants of the runtime; MCRuntime gives those of the service on its own.
SPECIFICATION MCSpec
CONSTANTS
    TaskIds = {t1, t2}
    Handlers = {h1, h2}
    Clients = {r1, r2, "dashboard"}
    Subscribers = {}
    Buffer = 1
    Faults = {"ack", "timeout"}
    Events = {e1}
    Malformed = {}
    Replicas = {r1, r2}
    Actions = {a1}
    MaxAttempts = 1
    ToolTurns = 0
    MaxCrashes = 1
    MaxLost = 1
    Worlds = {"runtime", "service"}
    s1 = s1
    t1 = t1
    t2 = t2
    h1 = h1
    h2 = h2
    e1 = e1
    r1 = r1
    r2 = r2
    a1 = a1
SYMMETRY RuntimeSymmetry
INVARIANTS OkMeansWritten FeedTruth AtMostOnce RecordTrue
PROPERTY TerminalImmutable
CHECK_DEADLOCK FALSE
