SPECIFICATION FairSpec

CONSTANTS
    e1 = e1
    e2 = e2
    human = human
    ai = ai
    Escrows = {e1}
    Tips = {human, ai}
    TipOf <- OfHuman
    AiTips = {ai}
    Amount <- Prices
    Rate = 1000
    Payable <- AllPayable
    Reference <- Distinct
    Runs = {u1}
    Enabled = TRUE
    ColumnsRequired = TRUE
    MaxFaults = 0

PROPERTIES
    EventuallySettled
