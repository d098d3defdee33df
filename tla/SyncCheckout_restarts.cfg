CONSTANTS
    Scenarios <- All
    EditData <- Texts
SPECIFICATION FairSpec
INVARIANTS
    TypeOK
    NothingLost
    JournalAccepted
    NothingHidden
    BothSidesMerged
    ConflictKeepsFile
    RestoredAsPreviewed
PROPERTIES
    Completes
    RolledBack
