SPECIFICATION FilesSpec
CONSTANTS
    Missing = Missing
    File = {"initramfs", "kernel"}
    Paths <- MCPaths
    CommandLine = "kernel"
    Content <- MCContent
    MaxEdits = 2
    MaxBuilds = 2
INVARIANTS
    FilesTypeOK
    StoredImagesAreWhole
    DoneIsAsHashed
PROPERTIES
    RebuildSucceeds
CHECK_DEADLOCK FALSE
