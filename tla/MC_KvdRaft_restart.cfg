CONSTANTS
    Node <- RestartNode
    Voters0 = {1, 2}
    Learners0 = {}
    PreVote = TRUE
    ElectionTick = 2
    InitLog <- RestartLog
    InitTerm <- RestartTerm
    InitVote <- RestartVote
    InitCommit <- RestartCommit
    InitApplied <- RestartApplied
    MaxElapsed = 4
    MaxRestarts = 2
SPECIFICATION FairSpec
PROPERTY VoterEventuallyCampaigns
