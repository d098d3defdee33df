SPECIFICATION Spec
CONSTANTS
    laptop = laptop
    desktop = desktop
    draft = draft
    notes = notes
    Devices <- TwoDevices
    Files <- TwoFiles
    FirstTree <- OneFile
    Folders <- OneFolder
    MaxCommit = 5
    LastEdit = 4
    LastRestore = 2
    Disturbed = TRUE
SYMMETRY Symmetry
CHECK_DEADLOCK FALSE
INVARIANTS
    TypeOK
    DeletionsLast
    PendingMatchesBinding
    BindingIsPublished
PROPERTIES
    NothingLost
    PublicationsConfirmed
