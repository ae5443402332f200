CONSTANTS
    Node <- LearnerNode
    Voters0 = {1, 2}
    Learners0 = {3}
    PreVote = FALSE
    ElectionTick = 2
    InitLog <- LearnerLog
    InitTerm <- LearnerTerm
    InitVote <- LearnerZero
    InitCommit <- LearnerZero
    InitApplied <- LearnerZero
    MaxElapsed = 4
    MaxRestarts = 0
SPECIFICATION Spec
INVARIANT OnlyVotersSolicitVotes
