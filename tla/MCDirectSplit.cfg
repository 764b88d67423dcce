CONSTANTS
    Messages = 4
    Folders = 2
    Sizes <- MCSizes
    Overhead = 1
    FolderBytes = 2
    maximum_pst_bytes = 16
    BoundaryDivisor = 3
    MaxOdd = 1
SPECIFICATION Spec
INVARIANTS
    DirectCutsAsReference
    DirectFailureExplained
    DirectReportExact
