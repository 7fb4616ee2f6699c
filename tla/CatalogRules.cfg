SPECIFICATION Spec
CONSTANTS
    l = l
    d = d
    r = r
    bl = bl
    bd = bd
    br = br
    b4 = b4
    c1 = c1
    c2 = c2
    c3 = c3
    h1 = h1
    Agents = {l, d, r}
    Bots = {bl, bd, br, b4}
    Humans = {h1}
    Channels = {c1, c2, c3}
    Names <- NamesOf
    HostPaths <- HostPathsOf
    Real <- RealOf
    MountPaths <- MountPathsOf
    Subpaths <- SubpathsOf
    Documents <- DocumentsOf
    NoChannel = NoChannel
    NoBot = NoBot
    NoPod = NoPod
    NoTask = NoTask
    NoAssignment = NoAssignment
    NoCatalog = NoCatalog
CONSTRAINT TwoContents
INVARIANTS TypeOK OneListener WorkspacesApart
PROPERTY DispatchArrives
