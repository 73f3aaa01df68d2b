CONSTANTS
    Outcomes = {"approve", "reject"}
    Verdicts = {1}
    Essences = {FALSE}
    Redrives = {FALSE}
    MemoVolatile = FALSE
    MaxRound = 0
    MaxEdits = 1
    MaxFlips = 0
    MaxFaults = 1
SPECIFICATION DecisionSpec
INVARIANT ResultsAgree
CHECK_DEADLOCK FALSE
