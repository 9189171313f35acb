SPECIFICATION Spec
CONSTANTS
    Manifests <- MCManifests
    Flags <- MCFlags
INVARIANTS
    TypeOK
    ResolvedImage
    SameLayer
    BuiltImageIsRead
CHECK_DEADLOCK FALSE
