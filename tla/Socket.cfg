\* Three sockets, so that the table fills; two pcbs, so that they run out; a
\* ring of one byte under a window of two, so that bytes are dropped.
CONSTANTS
    p1 = p1
    p2 = p2
    c1 = c1
    c2 = c2
    Pid = {p1, p2}
    MAX_SOCKETS = 3
    SOCK_RX_BUF = 2
    Pcb = {c1, c2}
    TCP_WND = 2
    Lens = {1, 2}
    MaxStream = 3
SYMMETRY MCSymmetry
SPECIFICATION Spec
INVARIANTS CallbacksReachTheirSocket NoSocketOutlivesItsTask AcknowledgedBytesAreStored
CHECK_DEADLOCK FALSE
