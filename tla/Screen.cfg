\* A screen of two lines of two columns over three lines of scrollback, a key
\* buffer of two keys, two processes.
CONSTANTS
    Capacity = 3
    Byte <- Bytes
    TTY_WIDTH = 2
    TTY_HEIGHT = 2
    SCROLLBACK_LINES = 3
    ScrollStep = 1
    TabStop = 2
    Proc = {p, q}
    Adapters = {"vga", "bga"}
    Workloads <- AllWorkloads
SYMMETRY ProcSymmetry
SPECIFICATION ScreenSpec
INVARIANTS ScreenShowsText ModifiersFollowKeys 
PROPERTY ImplementsFifo
