CONSTANTS
    Threads = {t1, t2, t3}
    Layouts <- MCLayouts
    HEAP_START = 4
    HEAP_SIZE = 6
    MaxSize = 4
    Word = 64
SPECIFICATION Spec
SYMMETRY Symmetry
INVARIANTS BlocksWithinHeapBounds
CHECK_DEADLOCK FALSE
