\* A directory with room for one file, beside a file in a root of three
\* entries: both fill up.  Where callers use LongPaths, long names of one and
\* of two LFN entries share that root.
CONSTANTS
    f1 = f1
    f2 = f2
    ShortNames = {f1, f2, "s"}
    LongNames = {"l1", "l2"}
    Chunks <- LongLengths
    FullNames = {"l2"}
    Base <- OneBase
    MaxSuffix = 2
    LongPaths <- LongToo
    Paths <- TwoLevels
    DirPaths <- TwoFiles
    Listed <- RootAndDirectories
    OpenFlags <- CreateOnly
    Payloads <- OneCell
    Lengths = {0}
    ClusterCount = 2
    SectorSize = 3
    SectorsPerCluster = 1
    RootSectors = 1
    MaxOpen = 1
    RdcacheMax = 2
    MaxSize = 1
    Avoid = {"sharing", "grow", "self", "nowhere", "nest"}
SYMMETRY NameSymmetry
SPECIFICATION MCSpec
  
PROPERTY ImplementsFileTree
