SPECIFICATION Spec
CONSTANTS
    Requests = {r1, r2, r3}
    Cost = 1
    Rules <- MCRules
    NoCap = NoCap
    Never <- MCNever
    Interval = 2
    MaxTime = 3
SYMMETRY Symmetry
INVARIANT CapRespected
PROPERTY DebitsAuthorized
