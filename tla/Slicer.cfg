SPECIFICATION Spec
CONSTANTS
    Runners = {r1}
    Ratchets = {"saga-handler", "code-dedup", "gh-git-adapter"}
    Entries = {1}
    SliceSizes = {1, 2}
    MaxEvents = 3
INVARIANTS OneOwner SliceIntended ClosedMeansDone
PROPERTY RenderedRunsSettle
CHECK_DEADLOCK FALSE
