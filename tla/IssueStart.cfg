CONSTANTS
    Outcomes = {"approve", "reject"}
    Verdicts = {1}
    Essences = {FALSE}
    Redrives = {FALSE, TRUE}
    MemoVolatile = FALSE
    MaxRound = 0
    MaxEdits = 0
    MaxFlips = 0
    MaxFaults = 2
SPECIFICATION Spec
INVARIANT TypeOK
INVARIANT ImplementOnlyApproved
INVARIANT ReadyEventsGrounded
PROPERTY RegisterRefinement
CHECK_DEADLOCK FALSE
