CONSTANTS
    USIZE = 32
    HALF = 8
    PAGE = 2
    PageFlags <- MCPageFlags
    Requests <- MCRequests
    Contexts <- MCContexts
    KTOP = 100
    RSP0 = 200
SPECIFICATION Spec
INVARIANTS TypeOK CallerIsResumed KernelStackIsEmpty GsFollowsTheMode KernelStackIsNotShared BuffersAreUserMemory
PROPERTIES ImplementsSyscallSpec
CHECK_DEADLOCK FALSE
