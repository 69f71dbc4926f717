SPECIFICATION FairSpec
CONSTANT MAX_TASKS = 5
PROPERTY NoStarvation
CHECK_DEADLOCK FALSE
