CONSTANTS
    Node <- RestartNode
    Voters0 = {1, 2}
    Learners0 = {}
    PreVote = FALSE
    ElectionTick = 2
    InitLog <- RemoveLog
    InitTerm <- RemoveTerm
    InitVote <- RestartVote
    InitCommit <- RemoveCommit
    InitApplied <- RestartApplied
    MaxElapsed = 4
    MaxRestarts = 0
SPECIFICATION Spec
PROPERTY ImplementsConf
