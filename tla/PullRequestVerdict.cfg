SPECIFICATION Spec
CONSTANTS
    Slugs <- slugs
    Versions <- none
    ProposalNames <- none
    Titles <- titles
    Contents <- contents
    Drafts = {FALSE}
    Forks = {FALSE}
    Main <- main
    Number = 7
    Author = "ann"
    People = {"ann", "mia"}
    Writers = {"mia"}
    Bodies = {"/review"}
    REQUIRED_CHECKS = {"lint", "hygiene"}
    MaxHead = 1
    MaxEdits = 3
    MaxComments = 1
    MaxReruns = 0
    MaxGates = 1
PROPERTIES VerdictsStand
CHECK_DEADLOCK FALSE
