SPECIFICATION MCSpec
CONSTANTS
    s = s
    k = k
    t = t
    Chains = {"tool", "skill", "grow"}
    Schemas = {s}
    Skills = {}
    Tools = {t}
    Memory = {t}
    SkillTools <- SkillUsesTool
    Existing = {s, t}
    Specs <- WithTool
    MaxEdits = 3
    Faults = {"api"}
INVARIANTS Protected ReadyIsBacked
PROPERTIES GateStays RolloutCatchesUp
CHECK_DEADLOCK FALSE
