SPECIFICATION Spec
CONSTANTS
    Runners = {r1}
    Ratchets = {"saga-handler"}
    Entries = {1, 2}
    SliceSizes = {3}
    MaxEvents = 0
PROPERTY RunsSettle
CHECK_DEADLOCK FALSE
