SPECIFICATION FairSpec

CONSTANTS
    m1 = m1
    m2 = m2
    ann = ann
    c1 = c1
    c2 = c2
    e1 = e1
    o1 = o1
    Matches = {m1, m2}
    Texts <- HomeOrBad
    Results <- TwoResults
    Calls = {c1, c2}
    MaxTabs = 2
    MaxDrafted = 1
    MaxSelections = 2
    Buyers = {ann}
    Evals = {e1}
    Outcomes = {o1}
    Enabled = TRUE
    MaxFaults = 1
    Tipster = Tipster
    Prices = {0, 5}

INVARIANTS
    TypeOK
    OutcomeEarned
    TotalsAgree
    PagesAgree
    OutcomesAgree
    PredictionsJudged

PROPERTIES
    OutcomeFinal
    PublishedStays
    EventuallyDecided
