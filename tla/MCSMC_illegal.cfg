SPECIFICATION Spec
CONSTANTS
    StepCounts <- MCStepCounts
    Times <- MCTimes
    Commands <- MotionCommands
    Word <- MCWord
    Milli <- MCMilli
    MinStepTime <- MCMinStepTime
INVARIANTS
    NoIllegalMode
