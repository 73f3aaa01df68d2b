CONSTANTS
    Outcomes = {"approve", "reject"}
    Verdicts = {1}
    Essences = {FALSE}
    Redrives = {FALSE}
    MemoVolatile = TRUE
    MaxRound = 0
    MaxEdits = 0
    MaxFlips = 0
    MaxFaults = 1
SPECIFICATION FairSpec
PROPERTY ThinkingIsDecided
CHECK_DEADLOCK FALSE
