SPECIFICATION FairSpec
CONSTANTS
    Proc = {p1, p2}
    NoProc = NoProc
    Node <- MCNode
    Root = "root"
    Bucket = {"a", "b"}
    Chain <- MCChain
    Amount = {1, 2}
    Limit = {0, 1, 2}
    MaxBytes0 <- MCMaxBytes0
    Committed0 <- MCCommitted0
    MaxCalls = 3
CHECK_DEADLOCK FALSE
INVARIANTS NoOvercommit ReservedExact AncestorCovers OnlyRollbackStrands
PROPERTIES CallsReturn
