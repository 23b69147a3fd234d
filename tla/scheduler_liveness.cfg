SPECIFICATION FairSpec
CONSTANTS
    mix = mix
    chain = chain
    src = src
    deep = deep
    Component = {mix, chain, src, deep}
    MaxPage = 0
    Plans <- ChainPlans
    Requests <- ChainRequests
    Retirements <- ChainRetirements
    NoDemand = NoDemand
    MaxExpandDepth = 2
    Demand = {d1, d2}
    Worker = {w1}
    MaxNodes = 10
    ShutdownRaces = FALSE
PROPERTIES
    WaitReturns
