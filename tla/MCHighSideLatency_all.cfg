SPECIFICATION FairLatencySpec
CONSTANTS
    StepCounts <- MCStepCounts
    Times <- MCTimes
    Commands <- AllCommands
    Word <- MCWord
    Milli <- MCMilli
    MinStepTime <- MCMinStepTime
INVARIANTS
    TypeOK
    TickerOnlyWhileMoving
    NotStuck
    NoShootThroughAtRest
    NoCurrentWhenIdle
    PhaseFollowsTable
PROPERTIES
    ImplementsMotion
    EveryMoveEnds
    HandlerLeavesDeadTime
