SPECIFICATION Spec
CONSTANTS
    cfg = cfg
    amd = amd
    arm = arm
    base = base
    rootA = rootA
    rootB = rootB
    app = app
    solo = solo
    NoName = NoName
    NoDescriptor = NoDescriptor
    Absent = Absent
    Unknown = Unknown
    Digest <- MCDigest
    ImageManifest = {amd, arm, base}
    ImageIndex = {app, solo}
    RefName <- SerialNames
    Parts <- MCParts
    SubManifests <- MCSubManifests
    Pin <- MCPin
    Proc = {p1}
    Commands <- SerialCommands
    MaxCommands = 3
INVARIANTS
    TypeOK
    UniqueNames
    BlobsBeforeIndex
    SubManifestsListed
    PromisesKept
PROPERTIES
    DamageIsNotErased
    ImplementsTagStore
