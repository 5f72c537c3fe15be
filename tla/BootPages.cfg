CONSTANTS
    PAGE = 2
    TABLE = 8
    MemoryMaps <- MCMemoryMaps
    KernelPages <- MCKernelPages
    KernelTables <- MCKernelTables
    HEAP_START = 16
    HEAP_SIZE = 3
    StackPages = {16, 17}
    LOAD_TEXT_SECTION_AT = 5
    Files <- MCFiles
SPECIFICATION Spec
INVARIANTS PermissionsAreOfThePagesUsed
CHECK_DEADLOCK FALSE
