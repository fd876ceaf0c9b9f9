SPECIFICATION Spec
CONSTANTS
    daily = daily
    Plans = {daily}
    Planners = {planner1, planner2}
    Timing <- OnePlan
    BatchSize = 1
    MaxRollbacks = 1
    Horizon = 10
    DayLength = 3
    WeekLength = 3
    Offset <- Zone
SYMMETRY PlannerSymmetry
INVARIANT CancellationCoversRunners
CHECK_DEADLOCK FALSE
