SPECIFICATION Spec
CONSTANTS
    Command <- MCCommand
    MaxLosses <- MCMaxLosses
INVARIANTS
    DispatchesData
