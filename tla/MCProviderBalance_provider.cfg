SPECIFICATION FairSpec
CONSTANTS
    UserPays = {u1}
    SystemPays = {s1}
    Receipts = {i1}
    Initial = 1
    MaxLoss = 1
    MayRestart = TRUE
INVARIANT TypeOK
PROPERTIES AlarmIsExplained LossIsSeen AlarmLifted
