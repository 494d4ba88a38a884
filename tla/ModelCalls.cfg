SPECIFICATION MCFairSpec
CONSTANTS
    Providers = {"p1", "p2"}
    Configs <- MCConfigs
    h1 = h1
    h2 = h2
    Rounds = {h1, h2}
    MaxChanges <- MCMaxChanges
    MaxLoads = 1
    MaxStops = 1
    Catalog <- MCCatalog
    Principals <- MCPrincipals
    Requests <- MCRequests
    Classified <- MCClassified
    MaxAttempts = 3
    MaxSteps = 3
    MaxDuration = 2
    BudgetCap = 3
    PortsFail = {"approval", "events"}
    Calls <- MCAgentCalls
    MaxTime = 3
INVARIANTS
    OnlyPermittedTried
    FirstSuccessServes
    StopsAtFirstBoundary
    CancelStopsTools
    ToolsRunAreRecorded
PROPERTIES
    ScheduledInOrder
    AgentTerminates
    RoutableConverges
CHECK_DEADLOCK FALSE
