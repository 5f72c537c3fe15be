CONSTANTS
    BUFFER_HEIGHT = 3
    BUFFER_WIDTH = 2
    Printable <- MCPrintable
    Screen0 <- MCScreen0
    Messages <- MCMessages
    MaxPrints = 4
SPECIFICATION FairSpec
INVARIANTS TypeOK ScreenShowsOutput NeverSpins FlagIsPreserved
PROPERTIES PrintsReturn
