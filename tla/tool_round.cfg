\* One response with up to three tool uses; every ending, cancels and failures.
SPECIFICATION FairSpec
CONSTANT N = 3
INVARIANT ToolRoundTypeOK
INVARIANT ContextsFollowResults
INVARIANT ResultsInOrder
INVARIANT EventsPaired
INVARIANT NothingOutlivesRound
PROPERTY KeepsContract
PROPERTY CancelEndsRound
CHECK_DEADLOCK FALSE
