SPECIFICATION StockedCalmSpec
CONSTANTS
    cfg = cfg
    amd = amd
    arm = arm
    base = base
    rootA = rootA
    rootB = rootB
    app = app
    solo = solo
    NoName = NoName
    NoDescriptor = NoDescriptor
    Absent = Absent
    Unknown = Unknown
    Digest <- MCDigest
    ImageManifest = {amd, arm, base}
    ImageIndex = {app, solo}
    RefName <- ConcurrentNames
    Parts <- MCParts
    SubManifests <- MCSubManifests
    Pin <- NoPin
    Proc = {p1, p2}
    Commands <- RemovalCommands
    MaxCommands = 2
PROPERTIES
    DeletedStaysDeleted
