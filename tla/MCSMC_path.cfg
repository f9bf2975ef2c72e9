SPECIFICATION Spec
CONSTANTS
    StepCounts <- MCStepCounts
    Times <- MCTimes
    Commands <- AllCommands
    Word <- MCWord
    Milli <- MCMilli
    MinStepTime <- MCMinStepTime
INVARIANTS
    CurrentPath
