SPECIFICATION Spec
CONSTANTS
    r1 = r1
    r2 = r2
    tree = tree
    other = other
    Commits <- FourCommits
    Contents <- OneTree
    Graphs <- AllGraphs
    Requests <- MCRequests
    Uploaded <- AllUploaded
    MaxCommitDepth = 2
    MaxIntroducedCommits = 2
    GlobalConcurrency = 1
SYMMETRY Symmetry
INVARIANTS
    RolesSound
    RolesProvable
    VersionCountsMainline
    NoRoleConflict
    ConflictMeansProgress
PROPERTIES
    PublishesAtomically
