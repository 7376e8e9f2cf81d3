\* Two slots used three times each with a generation of one bit, so that the
\* generation wraps; a text ring of two characters and a key ring of one fill.
CONSTANTS
    b1 = b1
    b2 = b2
    Pid = {1, 2}
    MAX_WINDOWS = 2
    SlotSpan = 4
    GenSpan = 2
    WIN_KEY_BUF_SIZE = 2
    WIN_TEXT_BUF_SIZE = 3
    Buffer = {b1, b2}
    Lens = {1, 2}
    MaxCreates = 3
    MaxText = 3
SYMMETRY BufferSymmetry
SPECIFICATION Spec
INVARIANTS StaleIdsReachNothing TextInOrder NothingOutlivesItsTask
CHECK_DEADLOCK FALSE
