CONSTANTS
    Threads = {t1, t2, t3}
    Layouts <- MCWordLayouts
    HEAP_START = 4
    HEAP_SIZE = 8
    MaxSize = 4
    Word = 64
SPECIFICATION Spec
INVARIANTS TypeOK NoOverlap NextIsBounded AlignedToTheSmallest LifoReclaims
PROPERTIES ImplementsHeapSpec ExhaustionIsPermanent
CHECK_DEADLOCK FALSE
