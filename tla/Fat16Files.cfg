\* Two files opened in every mode, both at once, on a volume of two clusters
\* that fills under them.
CONSTANTS
    f1 = f1
    f2 = f2
    ShortNames = {f1, f2}
    LongNames = {}
    Chunks <- NoLong
    FullNames = {}
    Base <- NoLong
    MaxSuffix = 1
    LongPaths = {}
    Paths <- TwoFiles
    DirPaths = {}
    Listed = {}
    OpenFlags <- AllFlags
    Payloads <- TwoCells
    Lengths = {0, 1}
    ClusterCount = 2
    SectorSize = 2
    SectorsPerCluster = 1
    RootSectors = 1
    MaxOpen = 2
    RdcacheMax = 4
    MaxSize = 3
    Avoid = {"sharing", "grow", "self", "nowhere", "nest"}
SYMMETRY NameSymmetry
SPECIFICATION MCSpec
INVARIANTS ChainsAreSound
PROPERTY ImplementsFileTree
