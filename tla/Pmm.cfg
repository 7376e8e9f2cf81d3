\* Frames of 4 bytes from address 8, a bitmap of 6 frames, arithmetic
\* modulo 64.  RAM ends inside a frame, at the cap or beyond it.
CONSTANTS
    PMM_START = 8
    PMM_MAX_FRAMES = 6
    PMM_FRAME_SIZE = 4
    Word = 64
    RamTops = {21, 32, 60}
    Counts = {0, 1, 2, 3}
SPECIFICATION Spec
INVARIANTS BlocksOwnTheirFrames RefusesOnlyWhenFull
