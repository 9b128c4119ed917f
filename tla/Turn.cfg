SPECIFICATION TurnSpec
CONSTANTS
    LLMCalls <- MCCalls
    KindOf <- MCKindOf
    ScopeOf <- MCScopeOf
    Scopes = {"s1", "s2"}
    NoScope = "none"
    Requests <- MCRequests
    Overrun = 1
    Limit <- MCLimit
    Reserve <- MCReserve
    SoftLimit <- MCSoft
    Ceiling <- MCCeiling
    CallLimits = {4}
    MaxPolls = 1
    Workers = {"k1", "k2"}
    Waves = {1, 2}
    Floor = 1
    Skills = {"recall"}
    Tools = {"find", "write"}
    Unlocks <- MCUnlocks
    Always = {}
    MaxActions = 3
    MaxContinuations = 1
    Unknown = "unknown"
    Histories = {0, 1}
    MaxLines = 2
    Caps = {4, 7}
    Budget = 7
    BlockShare = 2
    Target = 2
    Window = 4
    MaxStored = 5
    Sizes = {1, 2}
    MaxMessages = 6
INVARIANTS BudgetInv AgentInv HistoryInv
PROPERTIES WaitersAnswered
CHECK_DEADLOCK FALSE
