SPECIFICATION FairSpec

CONSTANTS
    m1 = m1
    m2 = m2
    startup = startup
    daily = daily
    elsewhere = elsewhere
    Jobs = {startup, daily}
    Startup = startup
    Plan <- TwoJobs
    Matches = {m1, m2}
    Competition <- Cups
    TopLeagues = {"epl"}
    Others = 2
    Before <- Order
    Data <- Known
    Predictions <- SomePredictions
    Elsewhere = elsewhere
    MaxSelections = 2
    MaxTips = 2
    MaxBegun = 1
    MaxFaults = 1

INVARIANTS
    TypeOK
    WholeTips
    TipsCanWin
    LevelsCohere

PROPERTIES
    EveryCompetitionTried

CHECK_DEADLOCK FALSE
