SPECIFICATION PowerSpec
CONSTANTS
    r1 = r1
    tree = tree
    block = block
    Commits <- ThreeCommits
    Contents <- TreeAndBlock
    Blocks <- OneBlock
    Graphs <- MergeOfTwo
    Requests <- OneRequest
    Uploaded <- FirstUploaded
    MaxCommitDepth = 2
    MaxIntroducedCommits = 2
    GlobalConcurrency = 1
INVARIANTS
    DirectoryTypeOK
    PlanSparesHistory
PROPERTIES
    HistoryComplete
    SyncedHistorySurvives
