\* Three pages of 24 units: majors of one page hold two blocks, one of two pages
\* more, so that every case of malloc happens; odd sizes make ALIGN move pointers.
CONSTANTS
    KERNEL_HEAP_START = 32
    KERNEL_HEAP_END = 104
    PAGE_SIZE = 24
    l_pageCount = 1
    SizeofMajor = 3
    SizeofMinor = 3
    ALIGNMENT = 2
    ALIGN_INFO = 2
    Requests = {1, 4, 26}
SPECIFICATION Spec
INVARIANTS BlocksAreApart ListsAreSound MallocTriesEverywhere
