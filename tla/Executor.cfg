CONSTANTS
    KeyTasks = {k1, k2}
    OtherTasks = {o1, o2}
    NoTask = NoTask
    MAX_TASKS = 5
    ScancodeCap = 2
    MaxKeys = 4
SPECIFICATION FairSpec
INVARIANTS TypeOK NoLostWakeup WaitingScancodeHasAReader AcceptedInOrder NoWakerOfAStoppedTask OverflowNeedsScancodes
PROPERTIES AcceptedIsPrinted ReadyIsPolled
CHECK_DEADLOCK FALSE
