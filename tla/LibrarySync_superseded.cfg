SPECIFICATION FairSpec
CONSTANTS
    laptop = laptop
    desktop = desktop
    draft = draft
    notes = notes
    Devices <- TwoDevices
    Files <- TwoFiles
    FirstTree <- OneFile
    Folders <- OneFolder
    MaxCommit = 9
    LastEdit = 3
    LastRestore = 0
    Disturbed = FALSE
CHECK_DEADLOCK FALSE
PROPERTIES
    StaleCandidatesDiscarded
