CONSTANTS
    Outcomes = {"approve", "reject"}
    Verdicts = {1}
    Essences = {FALSE}
    Redrives = {}
    MemoVolatile = FALSE
    MaxRound = 1
    MaxEdits = 0
    MaxFlips = 0
    MaxFaults = 0
SPECIFICATION Spec
INVARIANT RedriveActionable
CHECK_DEADLOCK FALSE
