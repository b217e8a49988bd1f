SPECIFICATION MCSpec
CONSTANTS
    s = s
    k = k
    t = t
    Chains = {"tool"}
    Schemas = {s}
    Skills = {}
    Tools = {t}
    Memory = {}
    SkillTools <- SkillUsesTool
    Existing = {s, t}
    Specs <- WithTool
    MaxEdits = 3
    Faults = {}
PROPERTIES HealthyIsReady
CHECK_DEADLOCK FALSE
