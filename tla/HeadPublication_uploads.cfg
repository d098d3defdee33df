SPECIFICATION FairSpec
CONSTANTS
    r1 = r1
    r2 = r2
    tree = tree
    other = other
    Commits <- FourCommits
    Contents <- TwoTrees
    Graphs <- TwoGraphs
    Requests <- MCRequests
    Uploaded <- FirstUploaded
    MaxCommitDepth = 2
    MaxIntroducedCommits = 1
    GlobalConcurrency = 2
INVARIANTS
    TypeOK
    PublishedIsComplete
    LimiterExact
PROPERTIES
    HandlersEnd
