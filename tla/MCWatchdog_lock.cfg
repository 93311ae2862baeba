SPECIFICATION FairSpec
CONSTANTS
    Callers = {c1}
    MaxIndex = 2
    Receipts = {}
    Root = {}
    MaxForwards = 0
    MaxDiff = 0
    Change = 0
    AdminSpends = {}
    Unknown = TRUE
    MayGoNegative = TRUE
    MayCrash = TRUE
INVARIANTS TypeOK WaitersAreHeard UnknownStops
PROPERTIES CallersAnswered LockLifted
