SPECIFICATION FairSpec
CONSTANTS
    mix = mix
    chain = chain
    src = src
    deep = deep
    Component = {mix, chain, src, deep}
    MaxPage = 0
    Plans <- ChainPlans
    Requests <- ChainRequests
    Retirements <- ChainRetirements
    NoDemand = NoDemand
    MaxExpandDepth = 2
    Demand = {d1}
    Worker = {w1}
    MaxNodes = 5
    ShutdownRaces = TRUE
PROPERTIES
    WaitReturns
