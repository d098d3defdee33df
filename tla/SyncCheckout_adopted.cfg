CONSTANTS
    Scenarios <- Edited
    EditData <- Texts
SPECIFICATION Spec
INVARIANTS
    CapturedEditsKept
