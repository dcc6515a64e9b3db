SPECIFICATION Spec

CONSTANTS
    e1 = e1
    e2 = e2
    human = human
    ai = ai
    Escrows = {e1, e2}
    Tips = {human, ai}
    TipOf <- OfBoth
    AiTips = {ai}
    Amount <- Prices
    Rate = 1000
    Payable <- AllPayable
    Reference <- Distinct
    Runs = {u1, u2}
    Enabled = TRUE
    ColumnsRequired = FALSE
    MaxFaults = 2

INVARIANTS
    OneTransfer
