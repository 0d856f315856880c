\* generate_plan after every wiring, root class and pool, for the code as
\* written (no validate_resources) and with validate_resources given the
\* spec's meaning.
CONSTANTS
    Node = {"PlanMission", "AcquireData", "ProcessData", "SensorData", "APIIngest", "CleanData", "Transform", "Drone"}
    Root = "PlanMission"
    Preconditions <- MCPreconditions
    Wiring <- MCWiring
    MaxChildren = 2
    NoCall = NoCall
    Res = {"cpu", "memory", "gpu"}
    ResOrder <- MCResOrder
    Resources <- MCResources
    Cost <- MCCost
    Risk <- MCRisk
    RiskThreshold = 7
    KindChoices <- MCKindChoices
    PoolChoices <- MCPoolChoices
    NoPlan = NoPlan
    ValidateResourcesChoices = {FALSE, TRUE}

SPECIFICATION Spec

\* generate_plan returns or raises, and the program ends.
CHECK_DEADLOCK FALSE

INVARIANTS
    TypeOK
    NoHeapTieComparison
    PlanWithinBudget
    BestIsFirstCheapestRootOption
    AddChildGuardIsAncestry
    ValidateDagDetectsCycles

PROPERTIES
    SearchLoopShrinksHeapWork
