SPECIFICATION MCSpec
CONSTANTS
    MAX_REPEAT_COUNT = 3
    MAX_GRAPH_DEPTH = 3
    MAX_NODES_PER_INSTANCE = 6
    MAX_INSTANCES_PER_DEFINITION = 4
    MAX_PLANNED_SPAN_SECONDS = 9
    SeedSpace = 4
    Horizon = 32
    DayLength = 4
    WeekLength = 3
    Offset <- Zone
    Workloads <- MCWorkloads
    SchedulerSlots = 6
    ActorCapacity = 6
    ActorConcurrency = 2
    RuntimeWorkers = 20
    Limits <- MCLimits
    CampaignAdmission = TRUE
    Nothing = Nothing
    Off = Off
    t1 = t1 t2 = t2 b1 = b1 b2 = b2
    Deployments <- MCDeployments
    Threads = {t1, t2}
    Backends = {b1, b2}
    Commits = {1, 2}
    main = main
    MaxCalls = 2
    MaxFaults = 1
    pA = pA pB = pB AKey = AKey BKey = BKey OPENAI = OPENAI
    k1 = k1 k2 = k2 k3 = k3 url1 = url1 url2 = url2 model1 = model1
    Documents <- MCDocuments
    Environment <- MCEnvironment
    Providers = {pA, pB}
    Callers = {c1, c2}
    MaxReloads = 2
    FileKeys = {f1, f2, f3}
    ClientKeys = {key1, key2}
    Admins = {admin1, admin2}
    Bad = Bad
    Grace = 3
    Interval = 2
    MaxTime = 4
    MaxWrites = 3
    r1 = r1 r2 = r2
    Forms <- MCForms
    Runners = {r1, r2}
    NoAnswer = NoAnswer
    Families = {1, 2, 3}
    Repeats = 2
    Slots = {s1, s2}
    Idle = Idle
    Claiming = Claiming
    Total = 5
    Chunk = 2
    Buffer = 2
    Senders = {sender1, sender2}
    Programs <- MCPrograms
    Actors = {a1, a2}
    MaxCalibrations = 1
    MaxPlans = 2
    MaxPrefixBytes = 5
    MaxRestarts = 1
    Unset = Unset
    DrawRecord <- MCDrawRecord
    u1 = u1 u2 = u2
    CampaignOf <- MCCampaignOf
    BenchmarkOf <- MCBenchmarkOf
    Units = {u1, u2}
    Null = Null
INVARIANTS
    CompiledAsAuthored
    EstimateCovers
    PlanFiresAreExpected
    FrozenIsExecuted
    ProfilesAreKeptApart
    KeysExpireAsSaid
    AnswerIsTrue
    FamiliesInOrder
    ResultsAreComplete
    PromptsAreReproducible
    CampaignViewIsTheSum
PROPERTIES
    ResolvesEnd
    WaitEnds
CHECK_DEADLOCK FALSE
