SPECIFICATION FairSpec
CONSTANTS
    Command <- MCCommand
    MaxLosses <- MCMaxLosses
INVARIANTS
    TypeOK
    NothingLeftOver
PROPERTIES
    ImplementsPipe
    CommandAnswered
