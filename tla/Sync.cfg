SPECIFICATION FairSpec

CONSTANTS
    f1 = f1
    f2 = f2
    daily = daily
    weekly = weekly
    Fixtures = {f1, f2}
    LeagueOf <- LeagueName
    HomeName <- Home
    AwayName <- Away
    Leagues <- OneLeague
    TeamKey <- Key
    Runs = {daily, weekly}
    Window <- Windows
    MaxNews = 1
    MaxFaults = 1

INVARIANTS
    TypeOK
    TeamsAgree
    StoredOddsTrue

PROPERTIES
    FinishedStays
    NeverBackwards
    EventuallyFresh
