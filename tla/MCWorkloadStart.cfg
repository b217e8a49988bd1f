SPECIFICATION Spec
PROPERTY PodGetsToRun
CHECK_DEADLOCK FALSE
