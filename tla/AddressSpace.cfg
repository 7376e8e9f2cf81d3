\* Room for two small processes and the frame a file is read into, or for one
\* that grows.
CONSTANTS
    Proc = {p, q}
    FrameCount = 11
    PageSize = 2
    TablePages = 4
    USER_REGION_START = 8
    USER_STACK_BASE_VADDR = 20
    USER_STACK_PAGES = 1
    Programs <- AllPrograms
    Increments <- Requests
SYMMETRY ProcSymmetry
SPECIFICATION SpaceSpec
INVARIANTS MemoryIsPrivate HeapIsMapped
PROPERTIES FramesChangeHandsOnlyWhenFree
