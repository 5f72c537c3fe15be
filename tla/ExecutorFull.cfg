CONSTANTS
    KeyTasks = {k1}
    OtherTasks = {}
    NoTask = NoTask
    MAX_TASKS = 2
    ScancodeCap = 2
    MaxKeys = 4
SPECIFICATION Spec
INVARIANTS QueueHoldsAllTasks
CHECK_DEADLOCK FALSE
