SPECIFICATION Spec
CONSTANTS
    Callers = {}
    MaxIndex = 1
    Receipts = {r1}
    Root = {r1}
    MaxForwards = 1
    MaxDiff = 1
    Change = 2
    AdminSpends = {"chain", "invoice"}
    Unknown = TRUE
    MayGoNegative = FALSE
    MayCrash = TRUE
PROPERTY AlarmIsMeasured
