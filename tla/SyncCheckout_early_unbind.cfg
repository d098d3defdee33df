CONSTANTS
    Scenarios <- UnboundEarly
    EditData <- Texts
SPECIFICATION FairSpec
PROPERTIES
    AlwaysCompletes
