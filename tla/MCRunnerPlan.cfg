SPECIFICATION FairSpec
CONSTANTS
    daily = daily
    Plans = {daily}
    Planners = {planner1, planner2}
    Timing <- OnePlan
    BatchSize = 1
    MaxRollbacks = 1
    Horizon = 12
    DayLength = 3
    WeekLength = 3
    Offset <- Zone
INVARIANTS LedgerInvariant OccurrencesAsPreviewed
PROPERTIES OnlyActivePlansEmit PlansComplete
CHECK_DEADLOCK FALSE
