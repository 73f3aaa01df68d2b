CONSTANTS
    Outcomes = {"approve", "reject"}
    Verdicts = {1}
    Essences = {FALSE}
    Redrives = {}
    MemoVolatile = FALSE
    MaxRound = 1
    MaxEdits = 0
    MaxFlips = 1
    MaxFaults = 0
SPECIFICATION Spec
INVARIANT SplitBumps
CHECK_DEADLOCK FALSE
