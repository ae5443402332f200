CONSTANTS
    Node <- JoinNode
    Voters0 <- JoinVoters0
    Learners0 = {}
    PreVote = FALSE
    ElectionTick = 2
    InitLog <- JoinLog
    InitTerm <- JoinTerm
    InitVote <- JoinVote
    InitCommit <- JoinCommit
    InitApplied <- JoinApplied
    MaxElapsed = 4
    MaxRestarts = 0
SPECIFICATION Spec
INVARIANT ProgressMatchBelowNext
