CONSTANTS
    Declarations <- MCDeclarations
    NoID = NoID
    x = x
    y = y
    N = 4
SPECIFICATION MCSpec
INVARIANTS AcceptedIsDAG RejectedForReason ColoursAreTrue CascadeIsClosure NobodyToNotify
PROPERTIES Answered WalkEnds
CHECK_DEADLOCK FALSE
