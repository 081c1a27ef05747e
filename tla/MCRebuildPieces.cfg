SPECIFICATION Spec
CONSTANTS
    a = a
    b = b
    Claims = {a, b}
    Histories <- MCApart
    Pins <- MCUnpinned
    Horizon = 4
    Quota = 1
    Together = FALSE
    None = None
INVARIANT ComeBackTogether
CHECK_DEADLOCK FALSE
