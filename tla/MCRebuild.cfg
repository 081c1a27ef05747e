SPECIFICATION FairSpec
CONSTANTS
    a = a
    b = b
    Claims = {a, b}
    Histories <- MCHistories
    Pins <- MCPins
    Horizon = 4
    Quota = 1
    Together = TRUE
    None = None
INVARIANTS TypeOK ComeBackTogether JobHasSlot
PROPERTIES NotAhead LiveRowsKept ClaimsAreFilled
CHECK_DEADLOCK FALSE
