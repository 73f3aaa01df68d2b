CONSTANTS
    Outcomes = {"approve", "reject"}
    Verdicts = {1}
    Essences = {FALSE}
    Redrives = {FALSE}
    MemoVolatile = FALSE
    MaxRound = 4
    MaxEdits = 0
    MaxFlips = 0
    MaxFaults = 0
SPECIFICATION FairConvergenceSpec
INVARIANT RoundsGapless
INVARIANT DropFollowsRounds
PROPERTY StallIsDropped
CHECK_DEADLOCK FALSE
