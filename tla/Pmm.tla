--------------------------------- MODULE Pmm ---------------------------------
(***************************************************************************)
(* proc/pmm.c: the bitmap allocator of physical 4 KB frames.  The bitmap   *)
(* is sized for the largest RAM; pmm_init learns how much there really is. *)
(* Every caller runs with interrupts off, so an operation is one step.     *)
(***************************************************************************)
EXTENDS Integers, FiniteSets

CONSTANTS PMM_START,        \* where the managed frames begin
          PMM_MAX_FRAMES,   \* PMM_MAX_FRAME_COUNT: bits in frame_bitmap
          PMM_FRAME_SIZE,   \* bytes in a frame
          Word,             \* arithmetic is modulo this (2^32 on i686)
          RamTops,          \* what multiboot_detect_ram_top may report
          Counts            \* the run lengths load_elf_into asks for

PMM_MAX_END == PMM_START + PMM_MAX_FRAMES * PMM_FRAME_SIZE

ASSUME PmmAssumption ==
    /\ PMM_FRAME_SIZE \in Nat \ {0}
    /\ PMM_START \in Nat \ {0} /\ PMM_START % PMM_FRAME_SIZE = 0
    /\ PMM_MAX_FRAMES \in Nat \ {0}
    /\ Word \in Nat /\ PMM_MAX_END < Word
    /\ RamTops \subseteq Nat
    /\ Counts \subseteq Nat

VARIABLES PMM_END,           \* end of RAM, a frame boundary
          PMM_FRAME_COUNT,   \* frames of RAM
          frame_bitmap,      \* the indexes of the bits that are set
          held,              \* history: the blocks given out and not yet freed
          ret                \* the last allocation: frames asked for, address

vars == <<PMM_END, PMM_FRAME_COUNT, frame_bitmap, held, ret>>

frame_addr(index) == PMM_START + index * PMM_FRAME_SIZE
frame_index(addr) == (addr - PMM_START) \div PMM_FRAME_SIZE
Aligned(addr) == addr % PMM_FRAME_SIZE = 0

Clamped(top) ==
    IF top < PMM_START + PMM_FRAME_SIZE THEN PMM_START + PMM_FRAME_SIZE
    ELSE IF top > PMM_MAX_END THEN PMM_MAX_END
    ELSE top

AlignedDown(addr) == addr - (addr % PMM_FRAME_SIZE)

(* A free returns nothing: the last allocation is forgotten.               *)
NoCall == [asked |-> 0, addr |-> 0]

pmm_init ==
    \E ram_top \in RamTops :
        /\ PMM_END = AlignedDown(Clamped(ram_top))
        /\ PMM_FRAME_COUNT = frame_index(PMM_END)
        /\ frame_bitmap = {}
        /\ held = {}
        /\ ret = NoCall

Least(S) == CHOOSE x \in S : \A y \in S : x <= y

Run(first, count) == first .. first + count - 1

Block(first, count) == [addr |-> frame_addr(first), count |-> count]

Given(first, count) ==
    /\ frame_bitmap' = frame_bitmap \cup Run(first, count)
    /\ held' = held \cup {Block(first, count)}
    /\ ret' = [asked |-> count, addr |-> frame_addr(first)]

Failed(count) ==
    /\ ret' = [asked |-> count, addr |-> 0]
    /\ UNCHANGED <<frame_bitmap, held>>

FreeFrames == (0 .. PMM_FRAME_COUNT - 1) \ frame_bitmap

pmm_alloc_frame ==
    /\ \/ FreeFrames = {} /\ Failed(1)
       \/ FreeFrames # {} /\ Given(Least(FreeFrames), 1)
    /\ UNCHANGED <<PMM_END, PMM_FRAME_COUNT>>

(* Mutant: the last position where a run could start is never tried.       *)
Starts_Short(count) ==
    {i \in 0 .. PMM_MAX_FRAMES : i < (PMM_FRAME_COUNT - count) % Word}

(* Where the search for a run may start: the loop's bound is an unsigned   *)
(* difference.  Past the bitmap nothing is known, so no start lies there.  *)
Starts(count) ==
    {i \in 0 .. PMM_MAX_FRAMES : i <= (PMM_FRAME_COUNT - count) % Word}

(* Bits past the bitmap are read from whatever data follows it: junk.      *)
FreeRuns(count, junk) ==
    {i \in Starts(count) : Run(i, count) \cap (frame_bitmap \cup junk) = {}}

PastBitmap(count) ==
    IF count <= PMM_FRAME_COUNT THEN {}
    ELSE PMM_MAX_FRAMES .. PMM_MAX_FRAMES + count - 1

pmm_alloc_frames(count) ==
    /\ \/ count = 0 /\ Failed(count)
       \/ /\ count # 0
          /\ \E junk \in SUBSET PastBitmap(count) :
                \/ FreeRuns(count, junk) = {} /\ Failed(count)
                \/ /\ FreeRuns(count, junk) # {}
                   /\ Given(Least(FreeRuns(count, junk)), count)
    /\ UNCHANGED <<PMM_END, PMM_FRAME_COUNT>>

(* Mutant: the frame after the block is cleared as well.                   *)
Freed_OneMore(addr, count) ==
    {i \in frame_bitmap : \E k \in 0 .. count :
        i = frame_index(addr + k * PMM_FRAME_SIZE)}

(* The bits pmm_free_frames clears: pmm_free_frame ignores an address out  *)
(* of range or not aligned, and a frame that is already free.              *)
Freed(addr, count) ==
    {i \in frame_bitmap : \E k \in 0 .. count - 1 :
        LET a == addr + k * PMM_FRAME_SIZE IN
        /\ a >= PMM_START /\ a < PMM_END
        /\ Aligned(a)
        /\ i = frame_index(a)}

(* A caller frees a block it holds, all of it and once.                    *)
pmm_free_frames(b) ==
    /\ b \in held
    /\ frame_bitmap' = frame_bitmap \ Freed(b.addr, b.count)
    /\ held' = held \ {b}
    /\ ret' = NoCall
    /\ UNCHANGED <<PMM_END, PMM_FRAME_COUNT>>

(* A free of an address that nobody holds, of any kind: the calls that the *)
(* range, alignment and double-free checks are there for.                  *)
pmm_free_frame(addr) ==
    /\ \A b \in held : addr \notin b.addr .. (b.addr + b.count * PMM_FRAME_SIZE) - 1
    /\ frame_bitmap' = frame_bitmap \ Freed(addr, 1)
    /\ ret' = NoCall
    /\ UNCHANGED <<PMM_END, PMM_FRAME_COUNT, held>>

Next ==
    \/ pmm_alloc_frame
    \/ \E count \in Counts : pmm_alloc_frames(count)
    \/ \E b \in held : pmm_free_frames(b)
    \/ \E addr \in 0 .. PMM_MAX_END : pmm_free_frame(addr)

Spec == pmm_init /\ [][Next]_vars
-----------------------------------------------------------------------------
Frames(b) == Run(frame_index(b.addr), b.count)

TypeOK ==
    /\ PMM_FRAME_COUNT \in 1 .. PMM_MAX_FRAMES
    /\ PMM_END = frame_addr(PMM_FRAME_COUNT)
    /\ frame_bitmap \subseteq 0 .. PMM_FRAME_COUNT - 1
    /\ ret.asked \in Nat
    /\ ret.addr \in {0} \cup {frame_addr(i) : i \in 0 .. PMM_FRAME_COUNT - 1}

(* No two holders share a frame, every frame they hold is RAM, and the     *)
(* bitmap marks exactly what is held: nothing is lost to a caller that     *)
(* freed it, nothing is given out twice (pmm_alloc_frames, pmm_free_frame).*)
BlocksOwnTheirFrames ==
    /\ \A b \in held : Frames(b) \subseteq 0 .. PMM_FRAME_COUNT - 1
    /\ \A b, c \in held : b # c => Frames(b) \cap Frames(c) = {}
    /\ frame_bitmap = UNION {Frames(b) : b \in held}

(* An allocation fails only when no run of that many free frames exists    *)
(* (the search loops of pmm_alloc_frame and pmm_alloc_frames).             *)
RefusesOnlyWhenFull ==
    ret.asked # 0 /\ ret.addr = 0 =>
        \A i \in 0 .. PMM_FRAME_COUNT - ret.asked :
            Run(i, ret.asked) \cap frame_bitmap # {}

(* What pmm.h promises of pmm_alloc_frames: the physical address of the    *)
(* first of count contiguous frames, or 0; frames that exist in any case.  *)
AllocatedFramesAreRam ==
    \A b \in held : frame_addr(frame_index(b.addr) + b.count) <= PMM_END
=============================================================================
