SPECIFICATION FairSpec
CONSTANTS
    Slugs <- slugs
    Versions <- none
    ProposalNames <- none
    Titles <- titles
    Contents <- contents
    Drafts = {TRUE}
    Forks = {FALSE, TRUE}
    Main <- main
    Number = 7
    Author = "mia"
    People = {"mia"}
    Writers = {"mia"}
    Bodies = {"/review"}
    REQUIRED_CHECKS = {"lint", "hygiene"}
    MaxHead = 2
    MaxEdits = 1
    MaxComments = 1
    MaxReruns = 1
    MaxGates = 1
INVARIANTS QuietIsJudged AskedForItsHead
PROPERTIES Decided
CHECK_DEADLOCK FALSE
