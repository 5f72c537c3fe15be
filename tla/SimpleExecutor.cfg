CONSTANTS
    Tasks = {t1, t2, t3}
    MaxPending = 1
SPECIFICATION Spec
PROPERTIES TasksFinish
