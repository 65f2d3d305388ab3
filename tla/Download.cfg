SPECIFICATION Spec
CONSTANTS
    Version <- MCVersion
    Size <- MCSize
    Pinned = "new"
    MaxChanges = 1
    MaxFaults = 2
    Absent = Absent
INVARIANTS
    AcceptedFileMatchesPin
PROPERTIES
    CachedFileIsWhole
    PinnedDownloadCompletes
CHECK_DEADLOCK FALSE
