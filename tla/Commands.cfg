SPECIFICATION Spec
CONSTANTS
    Ids <- TwoIds
    MaxRows = 4
    Param <- Params
    NotPositive = {"no"}
    WebTexts <- Web3
    NetTexts <- Net4
    MaxWeb = 2
    MaxNet = 1
    MaxKills = 1
CHECK_DEADLOCK FALSE
INVARIANTS
    CommandsInv
    AnswersAreTrue
    MemoryIsFile
