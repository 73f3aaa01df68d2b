CONSTANTS
    Outcomes = {"approve"}
    Verdicts = {1}
    Essences = {FALSE}
    Redrives = {}
    MemoVolatile = FALSE
    MaxRound = 1
    MaxEdits = 0
    MaxFlips = 1
    MaxFaults = 0
SPECIFICATION FairReleaseSpec
PROPERTY ApprovedStarts
CHECK_DEADLOCK FALSE
