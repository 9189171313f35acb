SPECIFICATION TransferSpec
CONSTANTS
    cfg = cfg
    rootA = rootA
    rootB = rootB
    amd = amd
    arm = arm
    app = app
    solo = solo
    None = None
    NoRef = NoRef
    NoPlatform = NoPlatform
    Client = {c1, c2}
    Blob = {cfg, rootA, rootB}
    Image <- MCImage
    Index <- MCIndex
    Parts <- MCParts
    Manifests <- MCManifests
    Requires <- MCRequires
    Label <- MCLabel
    SubRef <- MCSubRef
    LocalTags <- MCLocalTags
    Commands <- MCCommands
    Retags <- MCRetags
    Doomed <- MCDoomed
INVARIANTS
    TransferTypeOK
    RemoteComplete
    PushReported
    PullsMeetNoGap
PROPERTIES
    ImplementsRegistry
SYMMETRY TwoClients
