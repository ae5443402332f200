CONSTANTS
    Node <- FreshNode
    Voters0 <- FreshNode
    Learners0 = {}
    PreVote = FALSE
    ElectionTick = 2
    InitLog <- FreshLog
    InitTerm <- FreshZero
    InitVote <- FreshZero
    InitCommit <- FreshZero
    InitApplied <- FreshZero
    MaxElapsed = 4
    MaxRestarts = 0
SPECIFICATION Spec
INVARIANT NeverAborts
