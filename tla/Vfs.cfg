\* One slot and two pipes ever: the slot is reused under open handles and under
\* blocked calls.  Two descriptors per task, two opened at one time over both:
\* handles, open files and descriptors run out; a ring of one byte takes part of
\* a write of two.
CONSTANTS
    p1 = p1
    p2 = p2
    Proc = {p1, p2}
    PIPE_MAX = 1
    PIPE_FD_MAX = 2
    PIPE_BUF_SIZE = 2
    PIPE_NAME_MAX = 2
    Names <- OneName
    Lens = {1, 2}
    MaxLives = 2
    MaxBytes = 2
    VFS_MAX_FDS_PER_TASK = 2
    FAT16_MAX_OPEN = 2
    virtual_file_count = 2
    Access = {"O_RDONLY", "O_WRONLY"}
    StdFds = {0}
    Paths = {"f"}
    MaxSize = 1
    MaxOpened = 2
SYMMETRY ProcSymmetry
SPECIFICATION Spec
INVARIANTS  EveryHandleHasOneOwner
 
CHECK_DEADLOCK FALSE
