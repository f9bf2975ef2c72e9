SPECIFICATION FairSpec
CONSTANTS
    HalfWord <- MCHalfWord
    Byte <- MCByte
    UartOps <- MCUartOps
    UsbOps <- MCUsbOps
    Steps <- MCSteps
    Dirs <- MCDirs
    Pwms <- MCPwms
    ButtonSteps <- MCButtonSteps
    Egg <- MCEgg
    HistoryWord <- MCHistoryWord
    Rows <- MCRows
    Version <- MCVersion
    Copies <- MCCopies
INVARIANTS
    TypeOK
    AuxFollowsCommands
PROPERTIES
    ImplementsService
    ComesRound
