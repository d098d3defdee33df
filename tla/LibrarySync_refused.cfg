SPECIFICATION Spec
CONSTANTS
    laptop = laptop
    desktop = desktop
    draft = draft
    notes = notes
    Devices <- TwoDevices
    Files <- TwoFiles
    FirstTree <- Nothing
    Folders <- OneFolder
    MaxCommit = 6
    LastEdit = 6
    LastRestore = 0
    Disturbed = TRUE
SYMMETRY Symmetry
CHECK_DEADLOCK FALSE
INVARIANTS
    CandidatesAccepted
