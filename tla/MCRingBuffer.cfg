SPECIFICATION Spec
CONSTANTS
    Size = 4
    IndexWord = 7
    Data <- MCData
INVARIANTS
    TypeOK
    PointersAgree
    FreeSlotsAreZero
PROPERTIES
    ImplementsQueue
