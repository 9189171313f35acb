SPECIFICATION UrlSpec
CONSTANTS
    old = old
    new = new
    index = index
    kernelA = kernelA
    kernelB = kernelB
    root = root
    None = None
    Nothing = Nothing
    Label = {"v1", "latest"}
    Latest = "latest"
    Image = {old, new, index}
    Index = {index}
    Requires <- MCRequires
    Layers <- MCLayers
    Kind = {"kernel"}
    References <- MCReferences
    Limit = 6
    Delays = 3
INVARIANTS
    UrlTypeOK
    RequestWorks
    OneImage
PROPERTIES
    UrlEnds
    PublishedIsFound
