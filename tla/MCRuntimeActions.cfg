SPECIFICATION MCSpec
CONSTANTS
    TaskIds = {t1}
    Handlers = {h1, h2, h3}
    Clients = {r1, r2, "dashboard"}
    Subscribers = {}
    Buffer = 1
    Faults = {}
    Events = {e1}
    Malformed = {}
    Replicas = {r1, r2}
    Actions = {a1}
    MaxAttempts = 2
    ToolTurns = 1
    MaxCrashes = 0
    MaxLost = 1
    Worlds = {"runtime"}
    s1 = s1
    t1 = t1
    h1 = h1
    h2 = h2
    h3 = h3
    e1 = e1
    r1 = r1
    r2 = r2
    a1 = a1
SYMMETRY RuntimeSymmetry
INVARIANT ActionsRecorded
CHECK_DEADLOCK FALSE
