SPECIFICATION CalmSpec
CONSTANTS
    cfg = cfg
    rootA = rootA
    rootB = rootB
    amd = amd
    arm = arm
    app = app
    solo = solo
    None = None
    NoRef = NoRef
    NoPlatform = NoPlatform
    Client = {c1}
    Blob = {cfg, rootA, rootB}
    Image <- MCImage
    Index <- MCIndex
    Parts <- MCParts
    Manifests <- MCManifests
    Requires <- MCRequires
    Label <- MCLabel
    SubRef <- MCSubRef
    LocalTags <- MCLocalTags
    Commands <- MCCommands
    Retags <- MCRetags
    Doomed <- MCDoomed
PROPERTIES
    PulledWhatWasPushed
