CONSTANTS
    Pods = {p1, p2}
    p1 = p1
    p2 = p2
    Requests <- MCRequests
    Registry <- MCRegistry
    Extenders <- MCExtenders
    ConfigSets <- MCConfigSets
    Claims <- MCClaims
    NodeCounts = {0, 3, 4}
    Workers = {w1, w2}
    SchedulerName <- MCSchedulerName
    MinFeasibleNodesToFind = 2
    MinFeasibleNodesPercentageToFind = 5
    PercentageOfNodesToScore = 50
    RunAllFilters = FALSE
    FilterCodes = {"Success", "Unschedulable", "Error"}
    Scores = {0, 2, 3}
    ExtenderScores = {0, 1}
    MaxNodeScore = 2
    MaxTotalScore = 10
    MaxExtenderPriority = 1
    None = None
SYMMETRY Symmetry
CHECK_DEADLOCK FALSE
SPECIFICATION Spec
INVARIANTS
    SearchExact
    NoErrorLost
    NoFalseUnschedulable
    HostJustified
    ReservationsMatch
