CONSTANTS
    Branches = {b1, b2}
    Gates = {"liberror"}
    MaxEdits = 3
    MaxLands = 2
SPECIFICATION Spec
INVARIANT CommentsMoveErrors
CHECK_DEADLOCK FALSE
