SPECIFICATION Spec
CONSTANTS
    mix = mix
    src = src
    deep = deep
    Component = {mix, src, deep}
    MaxPage = 1
    Plans <- MixPlans
    Requests <- MixRequests
    Retirements <- MixRetirements
    MaxExpandDepth = 1
    Demand = {d1, d2}
    NoDemand = NoDemand
    Worker = {w1, w2}
    MaxNodes = 8
    ShutdownRaces = TRUE
SYMMETRY HandlesAndThreads
INVARIANTS
    TypeOK
    InputsSettled
    CounterExact
    OnePlace
    InPageOrder
    RetireExclusive
    OutstandingExact
    SafetyInv
PROPERTIES
    RefinesPageDemand
    SettledIsFinal
