---------------------------- MODULE MemoryProofs ----------------------------
(***************************************************************************)
(* Proofs about Pmm, for RAM of any size, as long as no caller asks for    *)
(* more frames at once than the machine has, and about AddressSpace, for   *)
(* any programs, any number of tasks and any size of memory.               *)
(***************************************************************************)
EXTENDS Pmm, AddressSpace, WellFoundedInduction, TLAPS

(* Multiples of the frame size: products keep the order, distribute over   *)
(* sums and divide back.                                                   *)
LEMMA MultOrder ==
    ASSUME NEW f \in Nat \ {0}, NEW i \in Nat, NEW j \in Nat
    PROVE  /\ i * f \in Nat
           /\ i < j => i * f < j * f
           /\ i <= j => i * f <= j * f
           /\ (i + j) * f = i * f + j * f
  OBVIOUS

(* A multiple of the frame size divides back to its factor.                *)
LEMMA MultDiv ==
    ASSUME NEW f \in Nat \ {0}, NEW i \in Nat
    PROVE  (i * f) \div f = i /\ (i * f) % f = 0
  OBVIOUS

(* Quotient and remainder give the number back.                            *)
LEMMA DivBack ==
    ASSUME NEW f \in Nat \ {0}, NEW x \in Nat
    PROVE  /\ x \div f \in Nat
           /\ x % f \in 0 .. f - 1
           /\ x = (x \div f) * f + (x % f)
  OBVIOUS
(* A remainder modulo a larger number is the number itself.                *)
LEMMA SmallMod ==
    ASSUME NEW m \in Nat, NEW x \in Nat, x < m
    PROVE  x % m = x
  OBVIOUS
-----------------------------------------------------------------------------
(* A frame's address leads back to its index, is aligned, and lies in RAM  *)
(* exactly when the index does (frame_addr, frame_index).                  *)
LEMMA AddrIndex ==
    ASSUME NEW i \in Nat
    PROVE  /\ frame_addr(i) \in Nat /\ frame_addr(i) >= PMM_START
           /\ frame_addr(i) # 0
           /\ frame_index(frame_addr(i)) = i
           /\ Aligned(frame_addr(i))
           /\ \A n \in Nat : i < n => frame_addr(i) < frame_addr(n)
           /\ \A k \in Nat : frame_addr(i) + k * PMM_FRAME_SIZE = frame_addr(i + k)
  <1> DEFINE f == PMM_FRAME_SIZE
             m == i * f
  <1>1. f \in Nat \ {0} /\ PMM_START \in Nat \ {0} /\ PMM_START % f = 0
    BY PmmAssumption
  <1>2. m \in Nat /\ m \div f = i
    BY <1>1, MultOrder, MultDiv
  <1>3. frame_addr(i) = PMM_START + m
    BY DEF frame_addr
  <1>4. Aligned(frame_addr(i))
    <2>1. PMM_START = (PMM_START \div f) * f /\ PMM_START \div f \in Nat
      BY <1>1, DivBack
    <2>2. frame_addr(i) = ((PMM_START \div f) + i) * f
      BY <1>1, <1>3, <2>1, MultOrder
    <2>3. (PMM_START \div f) + i \in Nat
      BY <2>1
    <2> QED BY <1>1, <2>2, <2>3, MultDiv DEF Aligned
  <1>5. ASSUME NEW n \in Nat, i < n
        PROVE  frame_addr(i) < frame_addr(n)
    <2>1. n * f \in Nat /\ m < n * f
      BY <1>1, <1>5, MultOrder
    <2>2. frame_addr(n) = PMM_START + n * f
      BY DEF frame_addr
    <2> HIDE DEF m, f
    <2> QED BY <1>1, <1>2, <1>3, <2>1, <2>2
  <1>6. ASSUME NEW k \in Nat
        PROVE  frame_addr(i) + k * f = frame_addr(i + k)
    <2>1. k * f \in Nat /\ (i + k) * f = m + k * f
      BY <1>1, MultOrder
    <2>2. frame_addr(i + k) = PMM_START + (i + k) * f
      BY DEF frame_addr
    <2> HIDE DEF m, f
    <2> QED BY <1>1, <1>2, <1>3, <2>1, <2>2
  <1>7. frame_index(frame_addr(i)) = i
    <2>1. frame_index(frame_addr(i)) = ((PMM_START + m) - PMM_START) \div f
      BY <1>3 DEF frame_index
    <2>2. (PMM_START + m) - PMM_START = m
      BY <1>1, <1>2
    <2> QED BY <1>2, <2>1, <2>2
  <1> HIDE DEF m
  <1> QED BY <1>1, <1>2, <1>3, <1>4, <1>5, <1>6, <1>7

(* An aligned address at or above the start is some frame's address.       *)
LEMMA AlignedAddr ==
    ASSUME NEW addr \in Nat, addr >= PMM_START, Aligned(addr)
    PROVE  addr = frame_addr(frame_index(addr))
  <1> DEFINE f == PMM_FRAME_SIZE
             q == addr \div f
             s == PMM_START \div f
  <1>1. f \in Nat \ {0} /\ PMM_START \in Nat \ {0} /\ PMM_START % f = 0
    BY PmmAssumption
  <1>2. s \in Nat /\ PMM_START = s * f /\ q \in Nat /\ addr = q * f
    BY <1>1, DivBack DEF Aligned
  <1> HIDE DEF q, s
  <1>3. s <= q
    <2> SUFFICES ASSUME q < s PROVE FALSE
      BY <1>2
    <2>1. q * f < s * f
      BY <1>1, <1>2, MultOrder
    <2> QED BY <1>1, <1>2, <2>1
  <1>4. q - s \in Nat /\ (q - s) + s = q
    BY <1>2, <1>3
  <1>5. ((q - s) + s) * f = (q - s) * f + s * f /\ (q - s) * f \in Nat
    BY <1>1, <1>2, <1>4, MultOrder
  <1>6. addr = frame_addr(q - s)
    BY <1>1, <1>2, <1>4, <1>5 DEF frame_addr
  <1> QED BY <1>4, <1>6, AddrIndex

(* pmm_init computes a whole number of frames, at least one and no more    *)
(* than the bitmap describes, whatever the firmware reported.              *)
LEMMA InitRange ==
    ASSUME NEW top \in Nat
    PROVE  LET end == AlignedDown(Clamped(top)) IN
           /\ frame_index(end) \in 1 .. PMM_MAX_FRAMES
           /\ end = frame_addr(frame_index(end))
  <1> DEFINE f == PMM_FRAME_SIZE
             x == Clamped(top)
             q == x \div f
             s == PMM_START \div f
             M == PMM_MAX_FRAMES
  <1>1. /\ f \in Nat \ {0} /\ PMM_START \in Nat \ {0} /\ PMM_START % f = 0
        /\ M \in Nat \ {0}
    BY PmmAssumption
  <1>2. s \in Nat /\ PMM_START = s * f
    BY <1>1, DivBack
  <1>3. M * f \in Nat /\ f <= M * f /\ PMM_MAX_END = PMM_START + M * f
    <2>1. 1 * f <= M * f /\ M * f \in Nat
      BY <1>1, MultOrder
    <2> QED BY <1>1, <2>1 DEF PMM_MAX_END
  <1>4. x \in Nat /\ PMM_START + f <= x /\ x <= PMM_START + M * f
    <2> DEFINE mf == M * f
    <2> HIDE DEF mf
    <2>1. mf \in Nat /\ f <= mf /\ PMM_MAX_END = PMM_START + mf
      BY <1>3 DEF mf
    <2>2. x \in Nat /\ PMM_START + f <= x /\ x <= PMM_START + mf
      BY <1>1, <2>1 DEF Clamped
    <2> QED BY <2>2 DEF mf
  <1> HIDE DEF x
  <1>5. q \in Nat /\ x % f \in 0 .. f - 1 /\ x = q * f + (x % f)
    BY <1>1, <1>4, DivBack, Zenon
  <1>6. AlignedDown(x) = q * f
    <2> DEFINE r == x % f
               qf == q * f
    <2>1. r \in 0 .. f - 1 /\ x = qf + r /\ qf \in Nat /\ f \in Nat
      BY <1>1, <1>5, MultOrder
    <2>2. AlignedDown(x) = x - r
      BY DEF AlignedDown
    <2> HIDE DEF r, qf
    <2>3. AlignedDown(x) = qf
      BY <2>1, <2>2
    <2> QED BY <2>3 DEF qf
  <1> HIDE DEF q, s
  <1>7. s + 1 <= q
    <2> SUFFICES ASSUME q <= s PROVE FALSE
      BY <1>2, <1>5
    <2>1. q * f <= s * f /\ q * f \in Nat
      BY <1>1, <1>2, <1>5, MultOrder
    <2> DEFINE r == x % f
               qf == q * f
    <2>2. r \in 0 .. f - 1 /\ x = qf + r /\ qf \in Nat /\ qf <= PMM_START
      BY <1>2, <1>5, <2>1
    <2> HIDE DEF r, qf, f
    <2> QED BY <1>1, <1>4, <2>2
  <1>8. q <= s + M
    <2> SUFFICES ASSUME s + M + 1 <= q PROVE FALSE
      BY <1>1, <1>2, <1>5
    <2>1. (s + M + 1) * f <= q * f
      BY <1>1, <1>2, <1>5, MultOrder
    <2>2. (s + M + 1) * f = s * f + (M + 1) * f /\ (M + 1) * f = M * f + 1 * f
      BY <1>1, <1>2, MultOrder
    <2> DEFINE r == x % f
               qf == q * f
               mf == M * f
               mf1 == (M + 1) * f
               smf1 == (s + M + 1) * f
    <2>3. /\ r \in 0 .. f - 1 /\ x = qf + r /\ qf \in Nat /\ smf1 <= qf
          /\ smf1 = PMM_START + mf1 /\ mf1 = mf + f /\ mf \in Nat
          /\ x <= PMM_START + mf
      BY <1>1, <1>2, <1>3, <1>4, <1>5, <2>1, <2>2, MultOrder
    <2> HIDE DEF r, qf, mf, mf1, smf1, f
    <2> QED BY <1>1, <2>3
  <1>9. frame_addr(q - s) = q * f
    <2>1. q - s \in Nat /\ (q - s) + s = q
      BY <1>2, <1>5, <1>7
    <2>2. ((q - s) + s) * f = (q - s) * f + s * f
      BY <1>1, <1>2, <2>1, MultOrder, ZenonT(60)
    <2>3. (q - s) * f \in Nat /\ s * f \in Nat
      BY <1>1, <1>2, <2>1, MultOrder
    <2> QED BY <1>2, <2>1, <2>2, <2>3 DEF frame_addr
  <1>10. frame_index(q * f) = q - s /\ q - s \in 1 .. M
    <2>1. q - s \in Nat /\ q - s \in 1 .. M
      BY <1>1, <1>2, <1>5, <1>7, <1>8
    <2> QED BY <1>9, <2>1, AddrIndex
  <1> QED BY <1>6, <1>9, <1>10 DEF x
-----------------------------------------------------------------------------
(* No caller asks for more frames at once than the smallest RAM has.       *)
CountsFit ==
    \A count \in Counts, top \in RamTops :
        count <= frame_index(AlignedDown(Clamped(top)))

(* A block was made by Given: a run of frames of RAM.                      *)
IsBlock(b, i, n) == i \in Nat /\ n \in Nat \ {0} /\ i + n <= PMM_FRAME_COUNT
                    /\ b = Block(i, n)

IInv ==
    /\ TypeOK
    /\ BlocksOwnTheirFrames
    /\ RefusesOnlyWhenFull
    /\ \A count \in Counts : count <= PMM_FRAME_COUNT
    /\ \A b \in held : \E i, n : IsBlock(b, i, n)

(* What the invariant says of the sizes.                                   *)
LEMMA Numbers ==
    ASSUME IInv
    PROVE  /\ PMM_FRAME_COUNT \in Nat \ {0} /\ PMM_FRAME_COUNT <= PMM_MAX_FRAMES
           /\ PMM_MAX_FRAMES \in Nat
           /\ PMM_END = frame_addr(PMM_FRAME_COUNT)
           /\ frame_bitmap \subseteq 0 .. PMM_FRAME_COUNT - 1
  BY PmmAssumption DEF IInv, TypeOK

(* The frames of the block that starts at i.                               *)
LEMMA BlockFrames ==
    ASSUME NEW i \in Nat, NEW n
    PROVE  Frames(Block(i, n)) = Run(i, n)
  <1>1. Block(i, n).addr = frame_addr(i) /\ Block(i, n).count = n
    BY DEF Block
  <1> QED BY <1>1, AddrIndex DEF Frames

(* A nonempty set of naturals has a least element.                         *)
LEMMA LeastIn ==
    ASSUME NEW T \in SUBSET Nat, T # {}
    PROVE  Least(T) \in T
  <1>1. \E x \in T : \A y \in T : ~ (<<y, x>> \in OpToRel(<, Nat))
    BY NatLessThanWellFounded, WFMin
  <1>2. \A x, y \in Nat : ~ (<<y, x>> \in OpToRel(<, Nat)) => x <= y
    BY DEF OpToRel
  <1>3. \E x \in T : \A y \in T : x <= y
    BY <1>1, <1>2
  <1> QED BY <1>3, Zenon DEF Least

(* Giving out a free run of RAM keeps every block to itself.               *)
LEMMA GivenKeeps ==
    ASSUME IInv, NEW i \in Nat, NEW n \in Nat \ {0}, i + n <= PMM_FRAME_COUNT,
           Run(i, n) \cap frame_bitmap = {},
           Given(i, n), UNCHANGED <<PMM_END, PMM_FRAME_COUNT>>
    PROVE  IInv'
  <1> DEFINE new == Block(i, n)
  <1>1. /\ frame_bitmap' = frame_bitmap \cup Run(i, n)
        /\ held' = held \cup {new}
        /\ ret' = [asked |-> n, addr |-> frame_addr(i)]
        /\ PMM_END' = PMM_END /\ PMM_FRAME_COUNT' = PMM_FRAME_COUNT
    BY DEF Given
  <1>2. Frames(new) = Run(i, n) /\ Run(i, n) \subseteq 0 .. PMM_FRAME_COUNT - 1
    BY BlockFrames, Numbers DEF Run
  <1>3. IsBlock(new, i, n)
    BY DEF IsBlock
  <1> HIDE DEF new
  <1>4. TypeOK'
    <2>1. frame_bitmap' \subseteq 0 .. PMM_FRAME_COUNT - 1
      BY <1>1, <1>2, Numbers
    <2>2. ret'.asked \in Nat /\ ret'.addr = frame_addr(i)
      BY <1>1
    <2>3. i \in 0 .. PMM_FRAME_COUNT - 1
      BY Numbers
    <2> QED BY <1>1, <2>1, <2>2, <2>3 DEF IInv, TypeOK
  <1>5. BlocksOwnTheirFrames'
    <2>1. \A b \in held : Frames(b) \subseteq frame_bitmap
      BY DEF IInv, BlocksOwnTheirFrames
    <2>2. \A b \in held' : Frames(b) \subseteq 0 .. PMM_FRAME_COUNT - 1
      BY <1>1, <1>2 DEF IInv, BlocksOwnTheirFrames
    <2>3. ASSUME NEW b \in held', NEW c \in held', b # c
          PROVE  Frames(b) \cap Frames(c) = {}
      <3>1. CASE b \in held /\ c \in held
        BY <2>3, <3>1 DEF IInv, BlocksOwnTheirFrames
      <3>2. CASE b = new /\ c \in held
        BY <1>2, <2>1, <3>2
      <3>3. CASE c = new /\ b \in held
        BY <1>2, <2>1, <3>3
      <3> QED BY <1>1, <2>3, <3>1, <3>2, <3>3
    <2>4. frame_bitmap' = UNION {Frames(b) : b \in held'}
      BY <1>1, <1>2 DEF IInv, BlocksOwnTheirFrames
    <2> QED BY <1>1, <2>2, <2>3, <2>4 DEF BlocksOwnTheirFrames, Frames, Run, frame_index
  <1>6. RefusesOnlyWhenFull'
    <2>1. ret'.addr # 0
      BY <1>1, AddrIndex
    <2> QED BY <2>1 DEF RefusesOnlyWhenFull
  <1>7. \A b \in held' : \E j, m : IsBlock(b, j, m)'
    BY <1>1, <1>3 DEF IInv, IsBlock
  <1> QED BY <1>1, <1>4, <1>5, <1>6, <1>7 DEF IInv

(* A failed search changes nothing but the recorded answer.                *)
LEMMA FailedKeeps ==
    ASSUME IInv, NEW n \in Nat, Failed(n), UNCHANGED <<PMM_END, PMM_FRAME_COUNT>>,
           n # 0 => \A i \in 0 .. PMM_FRAME_COUNT - n : Run(i, n) \cap frame_bitmap # {}
    PROVE  IInv'
  <1>1. /\ ret'.asked = n /\ ret'.addr = 0
        /\ frame_bitmap' = frame_bitmap /\ held' = held
        /\ PMM_END' = PMM_END /\ PMM_FRAME_COUNT' = PMM_FRAME_COUNT
    BY DEF Failed
  <1>2. TypeOK'
    BY <1>1 DEF IInv, TypeOK
  <1>3. BlocksOwnTheirFrames'
    BY <1>1 DEF IInv, BlocksOwnTheirFrames
  <1>4. RefusesOnlyWhenFull'
    BY <1>1 DEF RefusesOnlyWhenFull
  <1>5. \A b \in held' : \E j, m : IsBlock(b, j, m)'
    BY <1>1 DEF IInv, IsBlock
  <1> QED BY <1>1, <1>2, <1>3, <1>4, <1>5 DEF IInv

(* pmm_alloc_frame takes the lowest free frame or reports that none is.    *)
LEMMA AllocFrameKeeps ==
    ASSUME IInv, pmm_alloc_frame
    PROVE  IInv'
  <1>0. /\ PMM_FRAME_COUNT \in Nat \ {0}
        /\ frame_bitmap \subseteq 0 .. PMM_FRAME_COUNT - 1
    BY Numbers
  <1>1. CASE FreeFrames = {} /\ Failed(1)
    <2>1. \A i \in 0 .. PMM_FRAME_COUNT - 1 : i \in Run(i, 1) /\ i \in frame_bitmap
      BY <1>0, <1>1 DEF FreeFrames, Run
    <2> QED BY <1>1, <2>1, FailedKeeps DEF pmm_alloc_frame
  <1>2. CASE FreeFrames # {} /\ Given(Least(FreeFrames), 1)
    <2> DEFINE i == Least(FreeFrames)
    <2>1. FreeFrames \in SUBSET Nat
      BY <1>0 DEF FreeFrames
    <2>2. i \in FreeFrames
      BY <1>2, <2>1, LeastIn
    <2> HIDE DEF i
    <2>3. i \in Nat /\ i + 1 <= PMM_FRAME_COUNT /\ Run(i, 1) \cap frame_bitmap = {}
      BY <1>0, <2>2 DEF FreeFrames, Run
    <2>4. Given(i, 1)
      BY <1>2 DEF i
    <2> QED BY <2>3, <2>4, GivenKeeps DEF pmm_alloc_frame
  <1> QED BY <1>1, <1>2 DEF pmm_alloc_frame

(* pmm_alloc_frames takes the lowest free run of RAM or reports that there *)
(* is none: the loop's unsigned bound does not wrap when the count fits.   *)
LEMMA AllocFramesKeeps ==
    ASSUME IInv, NEW n \in Counts, pmm_alloc_frames(n)
    PROVE  IInv'
  <1>0. /\ n \in Nat /\ n <= PMM_FRAME_COUNT
        /\ PMM_FRAME_COUNT \in Nat \ {0} /\ PMM_FRAME_COUNT <= PMM_MAX_FRAMES
        /\ PMM_MAX_FRAMES \in Nat
    BY Numbers, PmmAssumption DEF IInv
  <1>1. PMM_FRAME_COUNT < Word /\ Word \in Nat
    <2>1. PMM_MAX_FRAMES * 1 <= PMM_MAX_FRAMES * PMM_FRAME_SIZE
      BY PmmAssumption
    <2>2. PMM_MAX_FRAMES * PMM_FRAME_SIZE \in Nat
      BY PmmAssumption
    <2> DEFINE mf == PMM_MAX_FRAMES * PMM_FRAME_SIZE
    <2>3. /\ mf \in Nat /\ PMM_MAX_FRAMES <= mf
          /\ PMM_START + mf < Word /\ Word \in Nat /\ PMM_START \in Nat
      BY <1>0, <2>1, <2>2, PmmAssumption DEF PMM_MAX_END
    <2> HIDE DEF mf
    <2> QED BY <1>0, <2>3
  <1>2. (PMM_FRAME_COUNT - n) % Word = PMM_FRAME_COUNT - n
    <2> DEFINE d == PMM_FRAME_COUNT - n
    <2>1. d \in Nat /\ d < Word /\ Word \in Nat
      BY <1>0, <1>1
    <2> HIDE DEF d
    <2>2. d % Word = d
      BY <2>1, SmallMod
    <2> QED BY <2>2 DEF d
  <1>3. Starts(n) = 0 .. PMM_FRAME_COUNT - n
    BY <1>0, <1>2 DEF Starts
  <1>4. PastBitmap(n) = {}
    BY <1>0 DEF PastBitmap
  <1>5. FreeRuns(n, {}) =
           {i \in 0 .. PMM_FRAME_COUNT - n : Run(i, n) \cap frame_bitmap = {}}
    BY <1>3 DEF FreeRuns
  <1>6. CASE n = 0 /\ Failed(n)
    BY <1>0, <1>6, FailedKeeps DEF pmm_alloc_frames
  <1>7. CASE n # 0 /\ FreeRuns(n, {}) = {} /\ Failed(n)
    BY <1>0, <1>5, <1>7, FailedKeeps DEF pmm_alloc_frames
  <1>8. CASE n # 0 /\ FreeRuns(n, {}) # {} /\ Given(Least(FreeRuns(n, {})), n)
    <2> DEFINE i == Least(FreeRuns(n, {}))
    <2>1. FreeRuns(n, {}) \in SUBSET Nat
      BY <1>0, <1>5
    <2>2. i \in FreeRuns(n, {})
      BY <1>8, <2>1, LeastIn
    <2> HIDE DEF i
    <2>3. i \in Nat /\ i + n <= PMM_FRAME_COUNT /\ Run(i, n) \cap frame_bitmap = {}
      BY <1>0, <1>5, <2>2
    <2>4. Given(i, n) /\ n \in Nat \ {0}
      BY <1>0, <1>8 DEF i
    <2> QED BY <2>3, <2>4, GivenKeeps DEF pmm_alloc_frames
  <1> QED BY <1>4, <1>6, <1>7, <1>8 DEF pmm_alloc_frames

(* A free that clears exactly the frames of the blocks it takes away.      *)
LEMMA FreeKeeps ==
    ASSUME IInv, NEW gone \in SUBSET held,
           frame_bitmap' = frame_bitmap \ UNION {Frames(b) : b \in gone},
           held' = held \ gone, ret' = NoCall,
           UNCHANGED <<PMM_END, PMM_FRAME_COUNT>>
    PROVE  IInv'
  <1>1. TypeOK'
    <2>1. ret'.asked = 0 /\ ret'.addr = 0
      BY DEF NoCall
    <2>2. frame_bitmap' \subseteq 0 .. PMM_FRAME_COUNT - 1
      BY Numbers
    <2>3. /\ PMM_FRAME_COUNT \in 1 .. PMM_MAX_FRAMES
          /\ PMM_END = frame_addr(PMM_FRAME_COUNT)
      BY DEF IInv, TypeOK
    <2> QED BY <2>1, <2>2, <2>3 DEF TypeOK
  <1>2. BlocksOwnTheirFrames'
    <2>1. /\ \A b \in held : Frames(b) \subseteq 0 .. PMM_FRAME_COUNT - 1
          /\ \A b, c \in held : b # c => Frames(b) \cap Frames(c) = {}
          /\ frame_bitmap = UNION {Frames(b) : b \in held}
      BY DEF IInv, BlocksOwnTheirFrames
    <2>2. frame_bitmap' = UNION {Frames(b) : b \in held'}
      <3>1. ASSUME NEW x \in frame_bitmap'
            PROVE  x \in UNION {Frames(b) : b \in held'}
        BY <2>1
      <3>2. ASSUME NEW x \in UNION {Frames(b) : b \in held'}
            PROVE  x \in frame_bitmap'
        BY <2>1
      <3> QED BY <3>1, <3>2
    <2> QED BY <2>1, <2>2 DEF BlocksOwnTheirFrames
  <1>3. RefusesOnlyWhenFull'
    BY DEF RefusesOnlyWhenFull, NoCall
  <1>4. \A b \in held' : \E j, m : IsBlock(b, j, m)'
    BY DEF IInv, IsBlock
  <1> QED BY <1>1, <1>2, <1>3, <1>4 DEF IInv

(* pmm_free_frames clears the block's frames and no others.                *)
LEMMA FreeFramesKeeps ==
    ASSUME IInv, NEW b \in held, pmm_free_frames(b)
    PROVE  IInv'
  <1>1. PICK i, n : IsBlock(b, i, n)
    BY DEF IInv
  <1>2. /\ i \in Nat /\ n \in Nat \ {0} /\ i + n <= PMM_FRAME_COUNT
        /\ b.addr = frame_addr(i) /\ b.count = n
        /\ PMM_FRAME_COUNT \in Nat /\ PMM_END = frame_addr(PMM_FRAME_COUNT)
    BY <1>1, Numbers DEF IsBlock, Block
  <1>3. Frames(b) = Run(i, n) /\ Frames(b) \subseteq frame_bitmap
    BY <1>1, <1>2, BlockFrames DEF IsBlock, IInv, BlocksOwnTheirFrames
  <1>4. ASSUME NEW k \in 0 .. n - 1
        PROVE  LET a == b.addr + k * PMM_FRAME_SIZE IN
               /\ a >= PMM_START /\ a < PMM_END /\ Aligned(a)
               /\ frame_index(a) = i + k
    <2>1. k \in Nat /\ i + k \in Nat /\ i + k < PMM_FRAME_COUNT
      BY <1>2
    <2>2. b.addr + k * PMM_FRAME_SIZE = frame_addr(i + k)
      BY <1>2, <2>1, AddrIndex
    <2> QED BY <1>2, <2>1, <2>2, AddrIndex
  <1>5. Freed(b.addr, b.count) = Frames(b)
    <2>1. ASSUME NEW x \in Run(i, n)
          PROVE  x \in Freed(b.addr, b.count)
      <3>1. x - i \in 0 .. n - 1 /\ i + (x - i) = x /\ x \in frame_bitmap
        BY <1>2, <1>3 DEF Run
      <3> QED BY <1>2, <1>4, <3>1 DEF Freed
    <2>2. ASSUME NEW x \in Freed(b.addr, b.count)
          PROVE  x \in Run(i, n)
      <3>1. PICK k \in 0 .. n - 1 : x = frame_index(b.addr + k * PMM_FRAME_SIZE)
        BY <1>2 DEF Freed
      <3>2. x = i + k
        BY <1>4, <3>1
      <3> QED BY <1>2, <3>2 DEF Run
    <2> QED BY <1>3, <2>1, <2>2
  <1>6. UNION {Frames(c) : c \in {b}} = Freed(b.addr, b.count)
    BY <1>5
  <1> QED BY <1>6, FreeKeeps, Zenon DEF pmm_free_frames

(* A free of an address nobody holds is ignored.                           *)
LEMMA FreeFrameKeeps ==
    ASSUME IInv, NEW addr \in 0 .. PMM_MAX_END, pmm_free_frame(addr)
    PROVE  IInv'
  <1> DEFINE f == PMM_FRAME_SIZE
  <1>1. /\ f \in Nat \ {0} /\ PMM_START \in Nat \ {0} /\ PMM_START % f = 0
        /\ PMM_MAX_FRAMES \in Nat
    BY PmmAssumption
  <1>2. addr \in Nat /\ addr + 0 * f = addr
    <2>1. PMM_MAX_FRAMES * f \in Nat
      BY <1>1
    <2>2. PMM_MAX_END \in Nat
      BY <1>1, <2>1 DEF PMM_MAX_END
    <2> QED BY <1>1, <2>2
  <1>3. Freed(addr, 1) = {}
    <2> SUFFICES ASSUME NEW x \in Freed(addr, 1) PROVE FALSE
      OBVIOUS
    <2>1. /\ x \in frame_bitmap /\ addr >= PMM_START /\ Aligned(addr)
          /\ x = frame_index(addr)
      BY <1>2 DEF Freed
    <2>2. PICK b \in held : x \in Frames(b)
      BY <2>1 DEF IInv, BlocksOwnTheirFrames
    <2>3. PICK i, n : IsBlock(b, i, n)
      BY DEF IInv
    <2>4. /\ i \in Nat /\ n \in Nat \ {0} /\ b.addr = frame_addr(i) /\ b.count = n
          /\ x \in i .. i + n - 1
      BY <2>2, <2>3, BlockFrames DEF IsBlock, Block, Run
    <2>5. x \in Nat /\ i <= x /\ x < i + n
      BY <2>4
    <2>6. addr = frame_addr(x)
      BY <1>1, <1>2, <2>1, AlignedAddr
    <2>6a. i + n \in Nat
      BY <2>4
    <2>6b. frame_addr(i) \in Nat /\ frame_addr(x) \in Nat
      BY <2>4, <2>5, AddrIndex, ZenonT(60)
    <2>6c. frame_addr(i + n) \in Nat
      BY <2>6a, AddrIndex
    <2>7. frame_addr(i) <= addr /\ addr < frame_addr(i + n)
      <3>1. i = x \/ i < x
        BY <2>4, <2>5
      <3>2. i < x => frame_addr(i) < frame_addr(x)
        BY <2>4, <2>5, AddrIndex
      <3>3. frame_addr(x) < frame_addr(i + n)
        BY <2>5, <2>6a, AddrIndex
      <3> QED BY <2>6, <2>6b, <3>1, <3>2, <3>3
    <2>8. b.addr + b.count * f = frame_addr(i + n)
      BY <2>4, AddrIndex
    <2>9. frame_addr(i) \in Nat /\ frame_addr(i + n) \in Nat
      BY <2>6b, <2>6c
    <2>10. addr \in frame_addr(i) .. frame_addr(i + n) - 1
      BY <1>2, <2>7, <2>9
    <2> DEFINE end == b.addr + b.count * PMM_FRAME_SIZE
    <2>11. b.addr = frame_addr(i) /\ end = frame_addr(i + n)
      BY <2>4, <2>8
    <2> HIDE DEF end
    <2>12. addr \in b.addr .. end - 1
      BY <2>10, <2>11
    <2>13. addr \notin b.addr .. end - 1
      <3>1. \A c \in held :
               addr \notin c.addr .. (c.addr + c.count * PMM_FRAME_SIZE) - 1
        BY DEF pmm_free_frame
      <3> QED BY <3>1 DEF end
    <2> QED BY <2>12, <2>13
  <1>4. UNION {Frames(c) : c \in {}} = {} /\ held \ {} = held
    OBVIOUS
  <1> QED BY <1>3, <1>4, FreeKeeps DEF pmm_free_frame
-----------------------------------------------------------------------------
(* pmm_init establishes the inductive invariant.                           *)
LEMMA InitIInv == CountsFit /\ pmm_init => IInv
  <1> SUFFICES ASSUME CountsFit, pmm_init PROVE IInv
    OBVIOUS
  <1>1. PICK top \in RamTops :
           /\ PMM_END = AlignedDown(Clamped(top))
           /\ PMM_FRAME_COUNT = frame_index(PMM_END)
           /\ frame_bitmap = {} /\ held = {} /\ ret = NoCall
    BY DEF pmm_init
  <1>2. top \in Nat
    BY PmmAssumption
  <1>3. PMM_FRAME_COUNT \in 1 .. PMM_MAX_FRAMES /\ PMM_END = frame_addr(PMM_FRAME_COUNT)
    BY <1>1, <1>2, InitRange
  <1>4. TypeOK
    BY <1>1, <1>3, Zenon DEF TypeOK, NoCall
  <1>5. \A count \in Counts : count <= PMM_FRAME_COUNT
    BY <1>1 DEF CountsFit
  <1>6. BlocksOwnTheirFrames /\ RefusesOnlyWhenFull
    BY <1>1 DEF BlocksOwnTheirFrames, RefusesOnlyWhenFull, NoCall
  <1> QED BY <1>1, <1>4, <1>5, <1>6 DEF IInv

(* Every operation keeps the inductive invariant.                          *)
LEMMA NextIInv == IInv /\ [Next]_vars => IInv'
  <1> SUFFICES ASSUME IInv, [Next]_vars PROVE IInv'
    OBVIOUS
  <1>1. CASE UNCHANGED vars
    <2>1. TypeOK' /\ RefusesOnlyWhenFull'
      BY <1>1 DEF IInv, TypeOK, RefusesOnlyWhenFull, vars
    <2>2. BlocksOwnTheirFrames'
      BY <1>1 DEF IInv, BlocksOwnTheirFrames, vars
    <2> QED BY <1>1, <2>1, <2>2 DEF IInv, IsBlock, vars
  <1> QED BY <1>1, AllocFrameKeeps, AllocFramesKeeps, FreeFramesKeeps, FreeFrameKeeps
          DEF Next

(* Whatever its callers allocate and free, in any order and whatever the   *)
(* size of RAM, the allocator never gives a frame to two of them and never *)
(* loses one (pmm_alloc_frame, pmm_alloc_frames, pmm_free_frame).          *)
THEOREM FramesAreOwned ==
    ASSUME CountsFit
    PROVE  Spec => [](TypeOK /\ BlocksOwnTheirFrames)
  <1>1. IInv => TypeOK /\ BlocksOwnTheirFrames
    BY DEF IInv
  <1>2. pmm_init => IInv
    BY InitIInv
  <1> QED BY <1>1, <1>2, NextIInv, PTL DEF Spec

(* An allocation is refused only when no run of free frames of the length  *)
(* asked for exists: neither the scan of pmm_alloc_frames nor the one of   *)
(* pmm_alloc_frame skips over a fit.                                       *)
THEOREM RefusalsAreJustified ==
    ASSUME CountsFit
    PROVE  Spec => []RefusesOnlyWhenFull
  <1>1. IInv => RefusesOnlyWhenFull
    BY DEF IInv
  <1>2. pmm_init => IInv
    BY InitIInv
  <1> QED BY <1>1, <1>2, NextIInv, PTL DEF Spec

-----------------------------------------------------------------------------
(* A nonempty set of naturals has a least element.                         *)
LEMMA LeastExists ==
    ASSUME NEW S \in SUBSET Nat, S # {}
    PROVE  \E m \in S : \A k \in S : m <= k
  <1>1. \E m \in S : \A k \in S : ~ (<<k, m>> \in OpToRel(<, Nat))
    BY NatLessThanWellFounded, WFMin
  <1>2. \A m, k \in Nat : ~ (<<k, m>> \in OpToRel(<, Nat)) => m <= k
    BY DEF OpToRel
  <1> QED BY <1>1, <1>2

(* A loop of n rounds over states of T, that starts in a and does g[i] in  *)
(* round i, and the states it goes through.                                *)
IsLoop(T, a, n, g) == a \in T /\ n \in Nat /\ g \in [1 .. n -> [T -> T]]
IsRun(f, T, a, n, g) ==
    f \in [0 .. n -> T] /\ f[0] = a /\ \A i \in 1 .. n : f[i] = g[i][f[i - 1]]

(* Every loop has a run.                                                   *)
LEMMA LoopExists ==
    ASSUME NEW T, NEW a, NEW n, NEW g, IsLoop(T, a, n, g)
    PROVE  \E f : IsRun(f, T, a, n, g)
  <1> USE DEF IsLoop, IsRun
  <1> DEFINE Runs(f, m) == /\ f \in [0 .. m -> T] /\ f[0] = a
                           /\ \A i \in 1 .. m : f[i] = g[i][f[i - 1]]
             Bad == {m \in 0 .. n : ~\E f : Runs(f, m)}
  <1>1. SUFFICES ASSUME Bad # {} PROVE FALSE
    <2>1. n \in 0 .. n
      OBVIOUS
    <2> QED BY <2>1, Zenon
  <1>2. PICK m \in Bad : \A k \in Bad : m <= k
    <2>1. Bad \in SUBSET Nat
      OBVIOUS
    <2> HIDE DEF Bad
    <2> QED BY <1>1, <2>1, LeastExists, Zenon
  <1>3. m \in 0 .. n /\ ~\E f : Runs(f, m)
    OBVIOUS
  <1>4. m # 0
    <2>1. Runs([i \in 0 .. 0 |-> a], 0)
      OBVIOUS
    <2> QED BY <1>3, <2>1, Zenon
  <1>5. m - 1 \in 0 .. n /\ ~(m <= m - 1)
    BY <1>3, <1>4
  <1>6. PICK f : Runs(f, m - 1)
    BY <1>2, <1>5, Zenon
  <1> DEFINE h == [i \in 0 .. m |-> IF i = m THEN g[m][f[m - 1]] ELSE f[i]]
  <1>7. g[m][f[m - 1]] \in T
    BY <1>3, <1>4, <1>6
  <1>8. h \in [0 .. m -> T] /\ h[0] = a
    BY <1>3, <1>4, <1>6, <1>7
  <1>9. ASSUME NEW i \in 1 .. m PROVE h[i] = g[i][h[i - 1]]
    BY <1>3, <1>4, <1>6
  <1>10. Runs(h, m)
    BY <1>8, <1>9, Zenon
  <1> QED BY <1>3, <1>10, Zenon

(* A loop whose rounds lead from S[i - 1] to S[i] ends in the last.        *)
LEMMA LoopKeeps ==
    ASSUME NEW n \in Nat, NEW f, NEW S, f[0] \in S[0],
           \A i \in 1 .. n : f[i - 1] \in S[i - 1] => f[i] \in S[i]
    PROVE  f[n] \in S[n]
  <1> DEFINE Bad == {i \in 0 .. n : f[i] \notin S[i]}
  <1>1. SUFFICES ASSUME Bad # {} PROVE FALSE
    OBVIOUS
  <1>2. PICK m \in Bad : \A k \in Bad : m <= k
    <2>1. Bad \in SUBSET Nat
      OBVIOUS
    <2> HIDE DEF Bad
    <2> QED BY <1>1, <2>1, LeastExists, Zenon
  <1>3. m \in 1 .. n /\ m - 1 \in 0 .. n /\ m - 1 \notin Bad
    BY <1>2
  <1> QED BY <1>2, <1>3

-----------------------------------------------------------------------------
(* Address spaces.  The frames a page directory names, and that no two     *)
(* places of it name the same.                                             *)
FrameOrNone == Frame \cup {None}
Dirs == [pd : Frame, pt : [Table -> FrameOrNone], pte : [Page -> FrameOrNone]]

FramesIn(d) ==
    {f \in Frame : f = d.pd \/ (\E t \in Table : f = d.pt[t]) \/ (\E v \in Page : f = d.pte[v])}

Apart(d) ==
    /\ \A t \in Table : d.pt[t] # d.pd
    /\ \A v \in Page : d.pte[v] # d.pd
    /\ \A t \in Table, v \in Page : d.pt[t] = d.pte[v] => d.pt[t] = None
    /\ \A t, u \in Table : d.pt[t] = d.pt[u] => d.pt[t] = None \/ t = u
    /\ \A v, w \in Page : d.pte[v] = d.pte[w] => d.pte[v] = None \/ v = w

Mems == [used : SUBSET Frame, dir : Dirs, ok : BOOLEAN]

(* A directory whose frames are its own and marked.                        *)
Sound(m) == m \in Mems /\ Apart(m.dir) /\ FramesIn(m.dir) \subseteq m.used

(* From m to n no frame is given back, no page unmapped, and every frame   *)
(* that n names is one that m named or that was free.                      *)
Grows(m, n) ==
    /\ Sound(n) /\ (n.ok => m.ok)
    /\ m.used \subseteq n.used /\ n.dir.pd = m.dir.pd
    /\ FramesIn(n.dir) \subseteq FramesIn(m.dir) \cup (n.used \ m.used)
    /\ \A v \in Page : m.dir.pte[v] # None => n.dir.pte[v] # None

(* Every frame that is marked meanwhile is named afterwards.               *)
LosesNone(m, n) == n.ok => n.used \ FramesIn(n.dir) \subseteq m.used \ FramesIn(m.dir)

(* No frame is the mark for none.                                          *)
LEMMA NoneIsNoFrame == None \notin Frame /\ FrameOrNone = Frame \cup {None}
  BY SpaceAssumption DEF None, Frame, FrameOrNone

(* Frames are numbers.                                                     *)
LEMMA FrameIsNat == Frame \subseteq Nat
  BY SpaceAssumption DEF Frame

(* pmm_alloc_frame finds a frame that is free, or none.                    *)
LEMMA FirstFreeIs ==
    ASSUME NEW u \in SUBSET Frame
    PROVE  FirstFree(u) \in (Frame \ u) \cup {None}
  <1>1. CASE Frame \subseteq u
    BY <1>1 DEF FirstFree
  <1>2. CASE ~(Frame \subseteq u)
    <2>1. Frame \ u \in SUBSET Nat /\ Frame \ u # {}
      BY <1>2, FrameIsNat
    <2>2. \E f \in Frame \ u : \A g \in Frame \ u : f <= g
      BY <2>1, LeastExists, Zenon
    <2> QED BY <1>2, <2>2, Zenon DEF FirstFree
  <1> QED BY <1>1, <1>2

(* pmm_alloc_frames finds free frames of the machine, or none.             *)
LEMMA FirstRunIs ==
    ASSUME NEW u \in SUBSET Frame, NEW count \in Nat, FirstRun(u, count) # None
    PROVE  LET run == FirstRun(u, count) .. FirstRun(u, count) + count - 1
           IN  run \subseteq Frame /\ run \cap u = {}
  <1> DEFINE starts == {f \in 0 .. FrameCount - count : (f .. f + count - 1) \cap u = {}}
  <1>1. starts # {} /\ starts \in SUBSET Nat
    BY SpaceAssumption DEF FirstRun
  <1>2. \E f \in starts : \A g \in starts : f <= g
    <2> HIDE DEF starts
    <2> QED BY <1>1, LeastExists, Zenon
  <1>3. FirstRun(u, count) \in starts
    BY <1>1, <1>2, Zenon DEF FirstRun
  <1> QED BY <1>3, SpaceAssumption DEF Frame

(* Frame x becomes page table t, or page v.                                *)
NewTable(d, t, x, e) ==
    /\ d \in Dirs /\ Apart(d) /\ t \in Table /\ d.pt[t] = None
    /\ x \in Frame /\ x \notin FramesIn(d) /\ e = [d EXCEPT !.pt[t] = x]

NewPage(d, v, x, e) ==
    /\ d \in Dirs /\ Apart(d) /\ v \in Page
    /\ x \in Frame /\ x \notin FramesIn(d) /\ e = [d EXCEPT !.pte[v] = x]

WithTable(d, x, e) ==
    /\ e \in Dirs /\ Apart(e) /\ e.pd = d.pd /\ e.pte = d.pte
    /\ FramesIn(e) = FramesIn(d) \cup {x}

(* A fresh frame put in as a page table.                                   *)
LEMMA PutTable ==
    ASSUME NEW d, NEW t, NEW x, NEW e, NewTable(d, t, x, e)
    PROVE  WithTable(d, x, e)
  <1> USE DEF NewTable
  <1>1. d.pd \in Frame /\ d.pt \in [Table -> FrameOrNone] /\ d.pte \in [Page -> FrameOrNone]
    BY DEF Dirs
  <1>2. e \in Dirs /\ e.pd = d.pd /\ e.pte = d.pte /\ e.pt = [d.pt EXCEPT ![t] = x]
    BY <1>1 DEF Dirs, FrameOrNone
  <1>3. e.pt[t] = x /\ \A u \in Table : u # t => e.pt[u] = d.pt[u]
    BY <1>1, <1>2
  <1>4. x # d.pd /\ (\A u \in Table : x # d.pt[u]) /\ (\A v \in Page : x # d.pte[v])
    BY Zenon DEF FramesIn
  <1>5. x # None
    BY NoneIsNoFrame
  <1>6. Apart(e)
    BY <1>2, <1>3, <1>4 DEF Apart
  <1>7. FramesIn(e) = FramesIn(d) \cup {x}
    <2>1. ASSUME NEW f \in Frame PROVE f \in FramesIn(e) <=> f \in FramesIn(d) \/ f = x
      <3>1. f # None
        BY NoneIsNoFrame
      <3> QED BY <1>2, <1>3, <3>1 DEF FramesIn
    <2> QED BY <2>1, Zenon DEF FramesIn
  <1> QED BY <1>2, <1>6, <1>7 DEF WithTable

(* The frame that was there is lost.                                       *)
LEMMA PutPage ==
    ASSUME NEW d, NEW v, NEW x, NEW e, NewPage(d, v, x, e)
    PROVE  /\ e \in Dirs /\ Apart(e) /\ e.pd = d.pd
           /\ e.pte[v] = x /\ \A w \in Page : w # v => e.pte[w] = d.pte[w]
           /\ FramesIn(e) \subseteq FramesIn(d) \cup {x}
           /\ d.pte[v] = None => FramesIn(e) = FramesIn(d) \cup {x}
  <1> USE DEF NewPage
  <1>1. d.pd \in Frame /\ d.pt \in [Table -> FrameOrNone] /\ d.pte \in [Page -> FrameOrNone]
    BY DEF Dirs
  <1>2. e \in Dirs /\ e.pd = d.pd /\ e.pt = d.pt /\ e.pte = [d.pte EXCEPT ![v] = x]
    BY <1>1 DEF Dirs, FrameOrNone
  <1>3. e.pte[v] = x /\ \A w \in Page : w # v => e.pte[w] = d.pte[w]
    BY <1>1, <1>2
  <1>4. x # d.pd /\ (\A u \in Table : x # d.pt[u]) /\ (\A w \in Page : x # d.pte[w])
    BY Zenon DEF FramesIn
  <1>5. x # None
    BY NoneIsNoFrame
  <1>6. Apart(e)
    BY <1>2, <1>3, <1>4 DEF Apart
  <1>7. \A f \in Frame : f \in FramesIn(e) => f \in FramesIn(d) \/ f = x
    BY <1>2, <1>3 DEF FramesIn
  <1>8. \A f \in Frame : d.pte[v] = None => (f \in FramesIn(d) \/ f = x => f \in FramesIn(e))
    <2>1. \A f \in Frame : f # None
      BY NoneIsNoFrame
    <2> QED BY <1>2, <1>3, <2>1 DEF FramesIn
  <1>9. FramesIn(e) \subseteq Frame /\ FramesIn(d) \subseteq Frame
    BY Zenon DEF FramesIn
  <1> QED BY <1>2, <1>3, <1>6, <1>7, <1>8, <1>9

(* Page v was mapped, or could not be; the others are as they were.        *)
MapsOne(m, n, v) ==
    /\ Grows(m, n)
    /\ n.ok => n.dir.pte[v] # None
    /\ \A w \in Page : w # v => n.dir.pte[w] = m.dir.pte[w]
    /\ m.dir.pte[v] = None => LosesNone(m, n)

(* A page that gets a fresh frame.                                         *)
LEMMA FreshGrows ==
    ASSUME NEW m, Sound(m), m.ok, NEW v \in Page, NEW gives_back \in BOOLEAN,
           NEW n, n = MapFresh(m, v, gives_back)
    PROVE  MapsOne(m, n, v)
  <1> USE DEF MapsOne
  <1>1. /\ m \in Mems /\ m.used \in SUBSET Frame /\ m.dir \in Dirs /\ Apart(m.dir)
        /\ FramesIn(m.dir) \subseteq m.used
    BY DEF Sound, Mems
  <1>2. PICK f : f = FirstFree(m.used)
    BY Zenon
  <1>3. f \in (Frame \ m.used) \cup {None}
    BY <1>1, <1>2, FirstFreeIs, Zenon
  <1>4. ASSUME NEW u \in SUBSET Frame, m.used \subseteq u, n = [m EXCEPT !.used = u, !.ok = FALSE]
        PROVE  /\ Grows(m, n) /\ ~n.ok
               /\ \A w \in Page : n.dir.pte[w] = m.dir.pte[w]
    <2>1. n \in Mems /\ n.used = u /\ n.dir = m.dir /\ n.ok = FALSE
      BY <1>1, <1>4, Zenon DEF Mems
    <2> QED BY <1>1, <1>4, <2>1, Zenon DEF Grows, Sound
  <1>5. ASSUME NEW u \in SUBSET Frame, n = [m EXCEPT !.used = u, !.ok = FALSE], m.used \subseteq u
        PROVE  /\ Grows(m, n)
               /\ n.ok => n.dir.pte[v] # None
               /\ \A w \in Page : w # v => n.dir.pte[w] = m.dir.pte[w]
               /\ m.dir.pte[v] = None => LosesNone(m, n)
    BY <1>4, <1>5, Zenon DEF LosesNone
  <1>6. CASE f = None
    <2>1. n = [m EXCEPT !.used = m.used, !.ok = FALSE]
      BY <1>1, <1>2, <1>6, Zenon DEF MapFresh, Fails, Mems
    <2> QED BY <1>1, <1>5, <2>1, Zenon
  <1>7. CASE f # None
    <2>1. f \in Frame /\ f \notin m.used
      BY <1>3, <1>7
    <2>2. PICK t : t = TableOf(v)
      BY Zenon
    <2>3. t \in Table
      BY <2>2 DEF Table
    <2>4. PICK table : table = IF m.dir.pt[t] # None THEN m.dir.pt[t]
                               ELSE FirstFree(m.used \cup {f})
      BY Zenon
    <2>5. PICK marked : marked = [m EXCEPT !.used = m.used \cup {f}]
      BY Zenon
    <2>6. /\ marked \in Mems /\ marked.used = m.used \cup {f} /\ marked.dir = m.dir
          /\ marked.ok = m.ok
      BY <1>1, <2>1, <2>5, Zenon DEF Mems
    <2>7. PICK k : k = paging_map_page(marked, v, f)
      BY Zenon
    <2>8. n = IF ~k.ok /\ gives_back THEN [k EXCEPT !.used = @ \ {f}] ELSE k
      BY <1>2, <1>7, <2>5, <2>7, Zenon DEF MapFresh
    <2>9. CASE table = None
      <3>1. k = [m EXCEPT !.used = m.used \cup {f}, !.ok = FALSE]
        BY <1>1, <2>2, <2>4, <2>5, <2>6, <2>7, <2>9 DEF paging_map_page, Fails, Mems
      <3>2. k.ok = FALSE /\ k.used = m.used \cup {f}
        BY <1>1, <3>1, SMTT(30) DEF Mems
      <3>3. CASE gives_back
        <4>1. n = [m EXCEPT !.used = m.used, !.ok = FALSE]
          <5>1. n = [k EXCEPT !.used = (m.used \cup {f}) \ {f}]
            BY <2>8, <3>2, <3>3
          <5>2. (m.used \cup {f}) \ {f} = m.used
            BY <2>1
          <5> QED BY <1>1, <3>1, <5>1, <5>2, Zenon DEF Mems
        <4>2. m.used \subseteq m.used
          OBVIOUS
        <4> QED BY <1>1, <1>5, <4>1, <4>2, Zenon
      <3>4. CASE ~gives_back
        <4>1. n = k /\ m.used \cup {f} \in SUBSET Frame
          BY <1>1, <2>1, <2>8, <3>4
        <4> QED BY <1>5, <3>1, <4>1, Zenon
      <3> QED BY <3>3, <3>4
    <2>10. CASE table # None
      <3>1. PICK d : d = [m.dir EXCEPT !.pt[t] = table]
        BY Zenon
      <3>2. /\ d \in Dirs /\ Apart(d) /\ d.pd = m.dir.pd /\ d.pte = m.dir.pte
            /\ FramesIn(d) = FramesIn(m.dir) \cup {table}
            /\ table \in Frame /\ table # f
            /\ table \in FramesIn(m.dir) \/ table \notin m.used
        <4>1. CASE m.dir.pt[t] # None
          <5>1. table = m.dir.pt[t] /\ table \in Frame
            BY <1>1, <2>3, <2>4, <4>1 DEF Dirs, FrameOrNone
          <5>2. table \in FramesIn(m.dir)
            BY <2>3, <5>1 DEF FramesIn
          <5>3. d = m.dir
            BY <1>1, <2>3, <3>1, <5>1 DEF Dirs
          <5> QED BY <1>1, <2>1, <5>1, <5>2, <5>3
        <4>2. CASE m.dir.pt[t] = None
          <5>1. table = FirstFree(m.used \cup {f}) /\ m.used \cup {f} \in SUBSET Frame
            BY <1>1, <2>1, <2>4, <4>2, Zenon
          <5>2. table \in Frame /\ table \notin m.used /\ table # f
            BY <2>10, <5>1, FirstFreeIs
          <5>3. table \notin FramesIn(m.dir)
            BY <1>1, <5>2
          <5>4. NewTable(m.dir, t, table, d)
            BY <1>1, <2>3, <3>1, <4>2, <5>2, <5>3, Zenon DEF NewTable
          <5>5. WithTable(m.dir, table, d)
            BY <5>4, PutTable, Zenon
          <5> QED BY <5>2, <5>5, Zenon DEF WithTable
        <4> QED BY <4>1, <4>2
      <3>3. f \notin FramesIn(d)
        BY <1>1, <2>1, <3>2
      <3>4. PICK e : e = [d EXCEPT !.pte[v] = f]
        BY Zenon
      <3>5. /\ e \in Dirs /\ Apart(e) /\ e.pd = d.pd
            /\ e.pte[v] = f /\ \A w \in Page : w # v => e.pte[w] = d.pte[w]
            /\ FramesIn(e) \subseteq FramesIn(d) \cup {f}
            /\ d.pte[v] = None => FramesIn(e) = FramesIn(d) \cup {f}
        <4>1. NewPage(d, v, f, e)
          BY <2>1, <3>2, <3>3, <3>4, Zenon DEF NewPage
        <4> QED BY <4>1, PutPage, Zenon
      <3>6. k = [used |-> (m.used \cup {f}) \cup {table}, dir |-> e, ok |-> TRUE]
        <4>1. k = [marked EXCEPT !.used = @ \cup {table},
                                 !.dir = [[m.dir EXCEPT !.pt[t] = table] EXCEPT !.pte[v] = f]]
          BY <1>1, <2>2, <2>4, <2>6, <2>7, <2>10, ZenonT(30) DEF paging_map_page, Mems, Dirs
        <4>2. k = [marked EXCEPT !.used = (m.used \cup {f}) \cup {table}, !.dir = e]
          BY <2>6, <3>1, <3>4, <4>1
        <4> QED BY <2>6, <4>2, Zenon DEF Mems
      <3>7. PICK u : u = (m.used \cup {f}) \cup {table}
        BY Zenon
      <3>8. n.used = u /\ n.dir = e /\ n.ok = TRUE /\ n \in Mems
        <4>1. u \in SUBSET Frame
          BY <1>1, <2>1, <3>2, <3>7, Zenon
        <4> QED BY <2>8, <3>5, <3>6, <3>7, <4>1 DEF Mems
      <3>9. FramesIn(e) \subseteq u /\ FramesIn(e) \subseteq FramesIn(m.dir) \cup (u \ m.used)
        BY <1>1, <2>1, <3>2, <3>5, <3>7
      <3>10. f # None
        BY <1>7
      <3>11. Grows(m, n)
        <4>1. m.used \subseteq u
          BY <3>7
        <4>2. \A w \in Page : m.dir.pte[w] # None => e.pte[w] # None
          BY <3>2, <3>5, <3>10, Zenon
        <4> QED BY <3>2, <3>5, <3>8, <3>9, <4>1, <4>2, Zenon DEF Grows, Sound
      <3>12. m.dir.pte[v] = None => LosesNone(m, n)
        BY <3>2, <3>5, <3>7, <3>8 DEF LosesNone
      <3>13. n.dir.pte[v] # None
        BY <3>5, <3>8, <3>10, Zenon
      <3>14. \A w \in Page : w # v => n.dir.pte[w] = m.dir.pte[w]
        <4>1. n.dir.pte = e.pte /\ d.pte = m.dir.pte
          BY <3>2, <3>8, Zenon
        <4> QED BY <3>5, <4>1, Zenon
      <3> QED BY <3>11, <3>12, <3>13, <3>14, Zenon
    <2> QED BY <2>9, <2>10
  <1> QED BY <1>6, <1>7

(* Growing is reflexive and transitive.                                    *)
LEMMA GrowsSelf ==
    ASSUME NEW m, Sound(m)
    PROVE  Grows(m, m) /\ LosesNone(m, m)
  BY DEF Grows, LosesNone

(* Growing twice is growing, and what loses no frame twice loses none.     *)
LEMMA GrowsOn ==
    ASSUME NEW k, NEW m, NEW n, Grows(k, m), Grows(m, n)
    PROVE  Grows(k, n) /\ (LosesNone(k, m) /\ LosesNone(m, n) => LosesNone(k, n))
  <1>1. LosesNone(k, m) /\ LosesNone(m, n) => LosesNone(k, n)
    BY DEF Grows, LosesNone
  <1>2. Grows(k, n)
    BY DEF Grows
  <1> QED BY <1>1, <1>2, Zenon

(* All pages of a range were mapped, or one could not be; the others are   *)
(* as they were.                                                           *)
Fills(m, n, range) ==
    /\ Grows(m, n)
    /\ n.ok => \A v \in Page : v \in range => n.dir.pte[v] # None
    /\ \A v \in Page : v \notin range => n.dir.pte[v] = m.dir.pte[v]

(* Nothing that is mapped is replaced.                                     *)
Spares(m, range, use) ==
    use = "segment" \/ \A v \in Page : v \in range => m.dir.pte[v] = None

FillsFresh(m, n, range, use) ==
    Fills(m, n, range) /\ (Spares(m, range, use) => LosesNone(m, n))

(* No page to map.                                                         *)
LEMMA FillsNone ==
    ASSUME NEW m, Sound(m), NEW range, range = {}, NEW use
    PROVE  FillsFresh(m, m, range, use)
  BY GrowsSelf, Zenon DEF FillsFresh, Fills

(* One more page.                                                          *)
LEMMA FillsOne ==
    ASSUME NEW m, NEW n, NEW range, NEW page \in Page, page \notin range,
           NEW more, more = range \cup {page}, NEW use,
           FillsFresh(m, n, range, use), NEW k, k = MapPage(n, page, use)
    PROVE  FillsFresh(m, k, more, use)
  <1>1. Sound(n) /\ Grows(m, n) /\ n.ok \in BOOLEAN
    BY DEF FillsFresh, Fills, Grows, Sound, Mems
  <1>2. n.ok => \A v \in Page : v \in range => n.dir.pte[v] # None
    BY Zenon DEF FillsFresh, Fills
  <1>3. \A v \in Page : v \notin range => n.dir.pte[v] = m.dir.pte[v]
    BY Zenon DEF FillsFresh, Fills
  <1>4. Spares(m, more, use) => Spares(m, range, use) /\ LosesNone(m, n)
    BY Zenon DEF Spares, FillsFresh
  <1>5. CASE ~n.ok
    <2>1. k = n
      BY <1>5, Zenon DEF MapPage
    <2> QED BY <1>1, <1>3, <1>4, <1>5, <2>1, Zenon DEF FillsFresh, Fills
  <1>6. CASE n.ok /\ use = "segment" /\ n.dir.pte[page] # None
    <2>1. k = n
      BY <1>6, Zenon DEF MapPage
    <2> QED BY <1>1, <1>2, <1>3, <1>4, <1>6, <2>1, Zenon DEF FillsFresh, Fills
  <1>7. CASE n.ok /\ ~(use = "segment" /\ n.dir.pte[page] # None)
    <2>1. PICK gives_back \in BOOLEAN : k = MapFresh(n, page, gives_back)
      <3>1. (use = "heap") \in BOOLEAN
        BY Zenon
      <3>2. k = MapFresh(n, page, use = "heap")
        BY <1>7, Zenon DEF MapPage
      <3> QED BY <3>1, <3>2, Zenon
    <2>2. MapsOne(n, k, page)
      BY <1>1, <1>7, <2>1, FreshGrows, Zenon
    <2>3. Grows(m, k) /\ (LosesNone(m, n) /\ LosesNone(n, k) => LosesNone(m, k))
      <3>1. Grows(n, k)
        BY <2>2 DEF MapsOne
      <3> QED BY <1>1, <3>1, GrowsOn, Zenon
    <2>4. ASSUME NEW v \in Page, v \in more, k.ok PROVE k.dir.pte[v] # None
      BY <1>2, <1>7, <2>2, <2>4, Zenon DEF MapsOne
    <2>5. ASSUME NEW v \in Page, v \notin more PROVE k.dir.pte[v] = m.dir.pte[v]
      BY <1>3, <2>2, <2>5, Zenon DEF MapsOne
    <2>6. Spares(m, more, use) => n.dir.pte[page] = None
      <3>1. page \in more
        BY Zenon
      <3>2. m.dir.pte[page] = n.dir.pte[page]
        BY <1>3, Zenon
      <3> QED BY <1>7, <3>1, <3>2, Zenon DEF Spares
    <2>7. Fills(m, k, more)
      BY <2>3, <2>4, <2>5, Zenon DEF Fills
    <2>8. Spares(m, more, use) => LosesNone(m, k)
      BY <1>4, <2>2, <2>3, <2>6, Zenon DEF MapsOne
    <2> QED BY <2>7, <2>8, Zenon DEF FillsFresh
  <1> QED BY <1>1, <1>5, <1>6, <1>7, Zenon

(* What MapPage leaves is sound.                                           *)
LEMMA MapPageSound ==
    ASSUME NEW m, Sound(m), NEW page \in Page, NEW use
    PROVE  Sound(MapPage(m, page, use))
  <1>1. PICK k : k = MapPage(m, page, use)
    BY Zenon
  <1>2. FillsFresh(m, m, {}, use)
    BY FillsNone, Zenon
  <1>3. page \notin {} /\ {page} = {} \cup {page}
    OBVIOUS
  <1>4. FillsFresh(m, k, {page}, use)
    BY <1>1, <1>2, <1>3, FillsOne, Zenon
  <1> QED BY <1>1, <1>4 DEF FillsFresh, Fills, Grows

(* The loops over the pages of a segment, of the stack and of the heap.    *)
LEMMA MapPagesFills ==
    ASSUME NEW m, Sound(m), NEW from \in Int, NEW to \in Int, from <= to,
           from .. to - 1 \subseteq Page, NEW use
    PROVE  FillsFresh(m, MapPages(m, from, to, use), from .. to - 1, use)
  <1>1. PICK n : n = to - from
    BY Zenon
  <1>2. PICK T : T = {x \in Mems : Sound(x)}
    BY Zenon
  <1> DEFINE G(x, i) == MapPage(x, from + i - 1, use)
             Is(f) == f = [i \in 0 .. n |-> IF i = 0 THEN m ELSE G(f[i - 1], i)]
             h == CHOOSE k : Is(k)
  <1>3. n \in Nat
    BY <1>1
  <1>4. \A i \in 1 .. n : from + i - 1 \in Page
    BY <1>1
  <1>5. \A i \in 1 .. n : \A x \in T : G(x, i) \in T
    <2>1. \A x : x \in T <=> Sound(x)
      BY <1>2 DEF Sound
    <2> QED BY <1>4, <2>1, MapPageSound, Zenon
  <1>6. MapPages(m, from, to, use) = h[n]
    BY <1>1 DEF MapPages
  <1>7. m \in T
    BY <1>2 DEF Sound
  <1>8. \A i \in 1 .. n : \A x, k : k = G(x, i) => k = MapPage(x, from + i - 1, use)
    BY Zenon
  <1> HIDE DEF G
  <1>9. PICK g : g = [i \in 1 .. n |-> [x \in T |-> G(x, i)]]
    BY Zenon
  <1>10. PICK f : IsRun(f, T, m, n, g)
    <2>1. IsLoop(T, m, n, g)
      BY <1>3, <1>5, <1>7, <1>9 DEF IsLoop
    <2> QED BY <2>1, LoopExists, Zenon
  <1>11. Is(f)
    <2>1. \A i \in 1 .. n : f[i - 1] \in T
      BY <1>3, <1>10 DEF IsRun
    <2>2. \A i \in 1 .. n : f[i] = G(f[i - 1], i)
      BY <1>9, <1>10, <2>1, Zenon DEF IsRun
    <2> QED BY <1>3, <1>10, <2>2 DEF IsRun
  <1>12. Is(h)
    BY <1>11, Zenon
  <1> HIDE DEF h
  <1>13. h[0] = m /\ \A i \in 1 .. n : h[i] = G(h[i - 1], i)
    BY <1>3, <1>12
  <1>14. PICK S : S = [i \in 0 .. n |-> {x \in Mems : FillsFresh(m, x, from .. from + i - 1, use)}]
    BY Zenon
  <1>15. \A x, range : FillsFresh(m, x, range, use) => x \in Mems
    BY DEF FillsFresh, Fills, Grows, Sound
  <1>16. \A i \in 0 .. n : \A x : x \in S[i] <=> FillsFresh(m, x, from .. from + i - 1, use)
    BY <1>14, <1>15, Zenon
  <1>17. h[0] \in S[0]
    <2>1. from .. from + 0 - 1 = {} /\ 0 \in 0 .. n
      BY <1>3
    <2>2. FillsFresh(m, m, from .. from + 0 - 1, use)
      BY <2>1, FillsNone, Zenon
    <2> QED BY <1>13, <1>16, <2>1, <2>2, Zenon
  <1>18. ASSUME NEW i \in 1 .. n, h[i - 1] \in S[i - 1] PROVE h[i] \in S[i]
    <2>1. PICK page \in Page : page = from + i - 1
      BY <1>4
    <2>2. PICK range : range = from .. from + (i - 1) - 1
      BY Zenon
    <2>3. page \notin range /\ from .. from + i - 1 = range \cup {page}
      BY <2>1, <2>2
    <2>4. i - 1 \in 0 .. n /\ i \in 0 .. n
      BY <1>3
    <2>5. FillsFresh(m, h[i - 1], range, use)
      BY <1>16, <1>18, <2>2, <2>4, Zenon
    <2>6. h[i] = MapPage(h[i - 1], page, use)
      BY <1>8, <1>13, <2>1, Zenon
    <2>7. FillsFresh(m, h[i], from .. from + i - 1, use)
      <3>1. PICK x, k, more : x = h[i - 1] /\ k = h[i] /\ more = from .. from + i - 1
        BY Zenon
      <3>2. /\ page \notin range /\ more = range \cup {page}
            /\ FillsFresh(m, x, range, use) /\ k = MapPage(x, page, use)
        BY <2>3, <2>5, <2>6, <3>1, Zenon
      <3>3. FillsFresh(m, k, more, use)
        BY <3>2, FillsOne, Zenon
      <3> QED BY <3>1, <3>3, Zenon
    <2> QED BY <1>16, <2>4, <2>7, Zenon
  <1>19. h[n] \in S[n]
    BY <1>3, <1>17, <1>18, LoopKeeps, Zenon
  <1>20. n \in 0 .. n /\ from + n - 1 = to - 1
    BY <1>1, <1>3
  <1> QED BY <1>6, <1>16, <1>19, <1>20, Zenon

(* Page arithmetic.                                                        *)
LEMMA PageOfIs ==
    ASSUME NEW a \in Nat
    PROVE  /\ PageOf(a) \in Nat /\ PageOf(a) * PageSize <= a
           /\ a < PageOf(a) * PageSize + PageSize
  BY SpaceAssumption DEF PageOf

(* Pages follow the order of addresses.                                    *)
LEMMA PageOfGrows ==
    ASSUME NEW a \in Nat, NEW b \in Nat, a <= b
    PROVE  PageOf(a) <= PageOf(b)
  <1>1. PICK k \in Nat, j \in Nat : k = PageOf(a) /\ j = PageOf(b)
    BY PageOfIs
  <1>2. k * PageSize <= a /\ b < j * PageSize + PageSize
    BY <1>1, PageOfIs
  <1>3. ASSUME k > j PROVE FALSE
    <2>1. PICK d \in Nat : k = j + 1 + d
      <3>1. k - (j + 1) \in Nat /\ k = j + 1 + (k - (j + 1))
        BY <1>3
      <3> QED BY <3>1
    <2>2. k * PageSize = j * PageSize + PageSize + d * PageSize
      BY <2>1, SpaceAssumption
    <2>3. d * PageSize \in Nat /\ j * PageSize \in Nat
      BY SpaceAssumption
    <2> QED BY <1>2, <2>2, <2>3, SpaceAssumption
  <1> QED BY <1>1, <1>3

(* The first page at or after an address.                                  *)
LEMMA CeilIs ==
    ASSUME NEW a \in Nat
    PROVE  /\ Ceil(a) \in Nat /\ Ceil(a) = PageOf(a + PageSize - 1)
           /\ PageOf(a) <= Ceil(a)
  <1>1. a + PageSize - 1 \in Nat /\ a <= a + PageSize - 1
    BY SpaceAssumption
  <1>2. Ceil(a) = PageOf(a + PageSize - 1)
    BY DEF Ceil, PageOf
  <1> QED BY <1>1, <1>2, PageOfIs, PageOfGrows

(* It follows the order of addresses too.                                  *)
LEMMA CeilGrows ==
    ASSUME NEW a \in Nat, NEW b \in Nat, a <= b
    PROVE  Ceil(a) <= Ceil(b)
  <1>1. /\ a + PageSize - 1 \in Nat /\ b + PageSize - 1 \in Nat
        /\ a + PageSize - 1 <= b + PageSize - 1
    BY SpaceAssumption
  <1> QED BY <1>1, CeilIs, PageOfGrows

(* An address where a page starts.                                         *)
LEMMA AlignedIs ==
    ASSUME NEW k \in Nat
    PROVE  k * PageSize \in Nat /\ PageOf(k * PageSize) = k /\ Ceil(k * PageSize) = k
  <1>1. k * PageSize \in Nat
    BY SpaceAssumption
  <1>2. PageOf(k * PageSize) = k
    BY <1>1, SpaceAssumption DEF PageOf
  <1>3. Ceil(k * PageSize) = k
    BY <1>1, SpaceAssumption DEF Ceil
  <1> QED BY <1>1, <1>2, <1>3
-----------------------------------------------------------------------------
(* Failing changes nothing else.                                           *)
LEMMA FailsGrows ==
    ASSUME NEW m, Sound(m)
    PROVE  Grows(m, Fails(m)) /\ LosesNone(m, Fails(m)) /\ Fails(m).dir = m.dir /\ ~Fails(m).ok
  <1>1. PICK n : n = Fails(m)
    BY Zenon
  <1>2. m \in Mems
    BY DEF Sound
  <1>3. n \in Mems /\ n.used = m.used /\ n.dir = m.dir /\ n.ok = FALSE
    BY <1>1, <1>2, Zenon DEF Fails, Mems
  <1>4. Sound(n)
    BY <1>3 DEF Sound
  <1> QED BY <1>1, <1>3, <1>4 DEF Grows, LosesNone, Sound

(* What loading segments does: it stays below the stack and loses nothing. *)
Loads(m, n) ==
    /\ Grows(m, n) /\ LosesNone(m, n)
    /\ \A v \in Page : v >= StackBase => n.dir.pte[v] = m.dir.pte[v]

(* Loading twice is loading.                                               *)
LEMMA LoadsOn ==
    ASSUME NEW k, NEW m, NEW n, Loads(k, m), Loads(m, n)
    PROVE  Loads(k, n)
  <1>1. /\ Grows(k, m) /\ Grows(m, n) /\ LosesNone(k, m) /\ LosesNone(m, n)
        /\ \A v \in Page : v >= StackBase => n.dir.pte[v] = k.dir.pte[v]
    BY Zenon DEF Loads
  <1> QED BY <1>1, GrowsOn, Zenon DEF Loads

(* The stack starts at a page boundary of the user region.                 *)
LEMMA StackBaseIs ==
    /\ StackBase \in Nat /\ PageOf(USER_REGION_START) \in Nat
    /\ PageOf(USER_REGION_START) <= StackBase
    /\ StackBase * PageSize = USER_STACK_BASE_VADDR
    /\ Ceil(USER_STACK_BASE_VADDR) = StackBase
  <1>1. /\ USER_STACK_BASE_VADDR \in Nat /\ USER_REGION_START \in Nat
        /\ USER_REGION_START <= USER_STACK_BASE_VADDR
        /\ USER_STACK_BASE_VADDR % PageSize = 0 /\ PageSize \in Nat \ {0}
    BY SpaceAssumption
  <1>2. StackBase \in Nat /\ PageOf(USER_REGION_START) \in Nat
    BY <1>1, PageOfIs DEF StackBase
  <1>3. PageOf(USER_REGION_START) <= StackBase
    BY <1>1, PageOfGrows DEF StackBase
  <1>4. StackBase * PageSize = USER_STACK_BASE_VADDR
    BY <1>1 DEF StackBase, PageOf
  <1>5. Ceil(USER_STACK_BASE_VADDR) = StackBase
    BY <1>2, <1>4, AlignedIs
  <1> QED BY <1>2, <1>3, <1>4, <1>5

(* The pages between two addresses of the user region, below the stack.    *)
LEMMA RegionPages ==
    ASSUME NEW a \in Nat, NEW b \in Nat, USER_REGION_START <= a, a <= b,
           b <= USER_STACK_BASE_VADDR
    PROVE  /\ PageOf(a) \in Nat /\ Ceil(a) \in Nat /\ Ceil(b) \in Nat
           /\ PageOf(a) <= Ceil(a) /\ Ceil(a) <= Ceil(b) /\ Ceil(b) <= StackBase
           /\ PageOf(USER_REGION_START) <= PageOf(a)
           /\ PageOf(a) .. Ceil(b) - 1 \subseteq Page
           /\ Ceil(a) .. Ceil(b) - 1 \subseteq Page
  <1>1. USER_REGION_START \in Nat /\ USER_STACK_BASE_VADDR \in Nat /\ USER_STACK_PAGES \in Nat
    BY SpaceAssumption
  <1>2. PageOf(a) \in Nat /\ Ceil(a) \in Nat /\ Ceil(b) \in Nat /\ PageOf(a) <= Ceil(a)
    BY PageOfIs, CeilIs
  <1>3. Ceil(a) <= Ceil(b)
    BY CeilGrows
  <1>4. Ceil(b) <= StackBase
    BY <1>1, CeilGrows, StackBaseIs
  <1>5. PageOf(USER_REGION_START) <= PageOf(a)
    BY <1>1, PageOfGrows
  <1> QED BY <1>1, <1>2, <1>3, <1>4, <1>5, StackBaseIs DEF Page

Segment == [vaddr : Nat, memsz : Nat]

(* One segment is loaded.                                                  *)
LEMMA LoadSegmentLoads ==
    ASSUME NEW m, Sound(m), NEW seg \in Segment
    PROVE  Loads(m, LoadSegment(m, seg))
  <1>1. CASE ~m.ok
    <2>1. LoadSegment(m, seg) = m
      BY <1>1, Zenon DEF LoadSegment
    <2> QED BY <2>1, GrowsSelf, Zenon DEF Loads
  <1>2. CASE m.ok /\ ~InUserRegion(seg)
    <2>1. LoadSegment(m, seg) = Fails(m)
      BY <1>2, Zenon DEF LoadSegment
    <2>2. Grows(m, Fails(m)) /\ LosesNone(m, Fails(m)) /\ Fails(m).dir = m.dir
      BY FailsGrows, Zenon
    <2> QED BY <2>1, <2>2, Zenon DEF Loads
  <1>3. CASE m.ok /\ InUserRegion(seg)
    <2>1. PICK a \in Nat, b \in Nat : a = seg.vaddr /\ b = seg.vaddr + seg.memsz
      BY DEF Segment
    <2>2. USER_REGION_START <= a /\ a <= b /\ b <= USER_STACK_BASE_VADDR
      BY <1>3, <2>1, SpaceAssumption DEF InUserRegion, Segment
    <2>3. PICK from \in Int, to \in Int : from = PageOf(a) /\ to = Ceil(b)
      BY <2>2, RegionPages
    <2>4. from <= to /\ to <= StackBase /\ from .. to - 1 \subseteq Page
      BY <2>2, <2>3, RegionPages
    <2>5. PICK n : n = MapPages(m, from, to, "segment")
      BY Zenon
    <2>6. LoadSegment(m, seg) = n
      BY <1>3, <2>1, <2>3, <2>5, Zenon DEF LoadSegment
    <2>7. FillsFresh(m, n, from .. to - 1, "segment")
      BY <2>4, <2>5, MapPagesFills, Zenon
    <2>8. \A v \in Page : v >= StackBase => v \notin from .. to - 1
      BY <2>4, StackBaseIs DEF Page
    <2> QED BY <2>6, <2>7, <2>8, Zenon DEF FillsFresh, Fills, Spares, Loads
  <1> QED BY <1>1, <1>2, <1>3

(* The loop over the program headers loads every segment.                  *)
LEMMA SegmentsLoad ==
    ASSUME NEW m, Sound(m), NEW segs \in Seq(Segment)
    PROVE  Loads(m, LoadSegments(m, segs))
  <1>1. PICK n : n = Len(segs)
    BY Zenon
  <1>2. PICK T : T = {x \in Mems : Loads(m, x)}
    BY Zenon
  <1> DEFINE G(x, i) == LoadSegment(x, segs[i])
             Is(f) == f = [i \in 0 .. n |-> IF i = 0 THEN m ELSE G(f[i - 1], i)]
             h == CHOOSE k : Is(k)
  <1>3. n \in Nat
    BY <1>1
  <1>4. \A i \in 1 .. n : segs[i] \in Segment
    BY <1>1, SMTT(30)
  <1>5. \A x : x \in T <=> Loads(m, x)
    BY <1>2 DEF Loads, Grows, Sound
  <1>6. \A x : Loads(m, x) => Sound(x)
    BY DEF Loads, Grows
  <1>7. ASSUME NEW i \in 1 .. n, NEW x \in T PROVE G(x, i) \in T
    <2>1. Loads(x, G(x, i))
      BY <1>4, <1>5, <1>6, LoadSegmentLoads, Zenon
    <2> QED BY <1>5, <2>1, LoadsOn, Zenon
  <1>8. LoadSegments(m, segs) = h[n]
    BY <1>1 DEF LoadSegments
  <1>9. m \in T
    <2>1. Loads(m, m)
      BY GrowsSelf, Zenon DEF Loads
    <2> QED BY <1>5, <2>1, Zenon
  <1> HIDE DEF G
  <1>10. PICK g : g = [i \in 1 .. n |-> [x \in T |-> G(x, i)]]
    BY Zenon
  <1>11. PICK f : IsRun(f, T, m, n, g)
    <2>1. IsLoop(T, m, n, g)
      BY <1>3, <1>7, <1>9, <1>10 DEF IsLoop
    <2> QED BY <2>1, LoopExists, Zenon
  <1>12. Is(f)
    <2>1. \A i \in 1 .. n : f[i - 1] \in T
      BY <1>3, <1>11 DEF IsRun
    <2>2. \A i \in 1 .. n : f[i] = G(f[i - 1], i)
      BY <1>10, <1>11, <2>1, Zenon DEF IsRun
    <2> QED BY <1>3, <1>11, <2>2 DEF IsRun
  <1>13. Is(h)
    BY <1>12, Zenon
  <1> HIDE DEF h
  <1>14. h[0] = m /\ \A i \in 1 .. n : h[i] = G(h[i - 1], i)
    BY <1>3, <1>13
  <1>15. PICK S : S = [i \in 0 .. n |-> T]
    BY Zenon
  <1>16. h[0] \in S[0] /\ \A i \in 1 .. n : h[i - 1] \in S[i - 1] => h[i] \in S[i]
    <2>1. \A i \in 0 .. n : S[i] = T
      BY <1>15
    <2>2. 0 \in 0 .. n /\ \A i \in 1 .. n : i \in 0 .. n /\ i - 1 \in 0 .. n
      BY <1>3
    <2> QED BY <1>7, <1>9, <1>14, <2>1, <2>2, Zenon
  <1>17. h[n] \in S[n] /\ n \in 0 .. n
    <2>1. n \in 0 .. n
      BY <1>3
    <2> QED BY <1>3, <1>16, <2>1, LoopKeeps, Zenon
  <1> QED BY <1>5, <1>8, <1>15, <1>17, Zenon

(* The heap starts at a page of the user region.                           *)
PageAligned == {a \in Nat : a >= USER_REGION_START /\ PageOf(a) = Ceil(a)}

(* The end of a program image is where a page starts.                      *)
LEMMA UserEndAligned ==
    ASSUME NEW prog \in Programs
    PROVE  UserEnd(prog) \in PageAligned
  <1>1. PICK segs \in Seq(Segment) : segs = prog.segments
    BY SpaceAssumption DEF Segment
  <1>2. PICK n : n = Len(segs)
    BY Zenon
  <1> DEFINE G(x, i) == IF EndOf(segs[i]) > x THEN EndOf(segs[i]) ELSE x
             Is(f) == f = [i \in 0 .. n |->
                             IF i = 0 THEN USER_REGION_START ELSE G(f[i - 1], i)]
             h == CHOOSE k : Is(k)
  <1>3. n \in Nat /\ \A i \in 1 .. n : segs[i] \in Segment
    BY <1>2
  <1>4. ASSUME NEW i \in 1 .. n, NEW x \in PageAligned PROVE G(x, i) \in PageAligned
    <2>1. PICK end \in Nat : end = segs[i].vaddr + segs[i].memsz
      BY <1>3 DEF Segment
    <2>2. PICK k \in Nat : k = Ceil(end)
      BY CeilIs
    <2>3. EndOf(segs[i]) = k * PageSize
      BY <2>1, <2>2 DEF EndOf
    <2>4. EndOf(segs[i]) \in Nat /\ PageOf(EndOf(segs[i])) = Ceil(EndOf(segs[i]))
      BY <2>3, AlignedIs
    <2> QED BY <2>4, SpaceAssumption DEF PageAligned
  <1>5. UserEnd(prog) = h[n]
    BY <1>1, <1>2 DEF UserEnd
  <1>6. USER_REGION_START \in PageAligned
    <2>1. PICK k \in Nat : k = PageOf(USER_REGION_START)
      BY PageOfIs, SpaceAssumption, Zenon
    <2>2. USER_REGION_START = k * PageSize
      BY <2>1, SpaceAssumption DEF PageOf
    <2>3. PageOf(k * PageSize) = k /\ Ceil(k * PageSize) = k
      BY AlignedIs
    <2>4. PageOf(USER_REGION_START) = Ceil(USER_REGION_START)
      BY <2>2, <2>3, Zenon
    <2> QED BY <2>4, SpaceAssumption DEF PageAligned
  <1> HIDE DEF G
  <1>7. PICK g : g = [i \in 1 .. n |-> [x \in PageAligned |-> G(x, i)]]
    BY Zenon
  <1>8. PICK f : IsRun(f, PageAligned, USER_REGION_START, n, g)
    <2>1. IsLoop(PageAligned, USER_REGION_START, n, g)
      BY <1>3, <1>4, <1>6, <1>7 DEF IsLoop
    <2> QED BY <2>1, LoopExists, Zenon
  <1>9. Is(f)
    <2>1. \A i \in 1 .. n : f[i - 1] \in PageAligned
      BY <1>3, <1>8 DEF IsRun
    <2>2. \A i \in 1 .. n : f[i] = G(f[i - 1], i)
      BY <1>7, <1>8, <2>1, Zenon DEF IsRun
    <2> QED BY <1>3, <1>8, <2>2 DEF IsRun
  <1>10. Is(h)
    BY <1>9, Zenon
  <1> HIDE DEF h
  <1>11. h[0] = USER_REGION_START /\ \A i \in 1 .. n : h[i] = G(h[i - 1], i)
    BY <1>3, <1>10
  <1>12. PICK S : S = [i \in 0 .. n |-> PageAligned]
    BY Zenon
  <1>13. h[0] \in S[0] /\ \A i \in 1 .. n : h[i - 1] \in S[i - 1] => h[i] \in S[i]
    <2>1. \A i \in 0 .. n : S[i] = PageAligned
      BY <1>12
    <2>2. 0 \in 0 .. n /\ \A i \in 1 .. n : i \in 0 .. n /\ i - 1 \in 0 .. n
      BY <1>3
    <2> QED BY <1>4, <1>6, <1>11, <2>1, <2>2, Zenon
  <1>14. h[n] \in S[n] /\ n \in 0 .. n
    <2>1. n \in 0 .. n
      BY <1>3
    <2> QED BY <1>3, <1>13, <2>1, LoopKeeps, Zenon
  <1> QED BY <1>5, <1>12, <1>14, Zenon

Stack == StackBase .. StackBase + USER_STACK_PAGES - 1

(* The stack is in the user region.                                        *)
LEMMA StackIsPages == Stack \subseteq Page
  BY StackBaseIs, SpaceAssumption DEF Stack, Page

(* What an image is once it is loaded: it has a stack; and if it had none  *)
(* before, no frame was lost.                                              *)
Images(m, n) ==
    /\ Grows(m, n)
    /\ n.ok => \A v \in Stack : n.dir.pte[v] # None
    /\ (\A v \in Stack : m.dir.pte[v] = None) => LosesNone(m, n)

(* Frames that were free are marked, and unmarked again.                   *)
LEMMA TemporaryFrames ==
    ASSUME NEW m, Sound(m), NEW temp \in SUBSET Frame, temp \cap m.used = {},
           NEW read, read = [m EXCEPT !.used = @ \cup temp]
    PROVE  /\ Sound(read) /\ read.dir = m.dir
           /\ \A done : Images(read, done) => Images(m, [done EXCEPT !.used = @ \ temp])
  <1>1. m \in Mems /\ m.used \in SUBSET Frame
    BY DEF Sound, Mems
  <1>2. read \in Mems /\ read.used = m.used \cup temp /\ read.dir = m.dir /\ read.ok = m.ok
    <2>1. m.used \cup temp \in SUBSET Frame
      BY <1>1
    <2> QED BY <1>1, <2>1, Zenon DEF Mems
  <1>3. Sound(read)
    BY <1>2 DEF Sound
  <1>4. ASSUME NEW done, Images(read, done)
        PROVE  Images(m, [done EXCEPT !.used = @ \ temp])
    <2>1. PICK n : n = [done EXCEPT !.used = @ \ temp]
      BY Zenon
    <2>2. Grows(read, done) /\ Sound(done) /\ done \in Mems /\ done.used \in SUBSET Frame
      BY <1>4 DEF Images, Grows, Sound, Mems
    <2>3. /\ n \in Mems /\ n.used = done.used \ temp /\ n.dir = done.dir /\ n.ok = done.ok
      <3>1. done.used \ temp \in SUBSET Frame
        BY <2>2
      <3> QED BY <2>1, <2>2, <3>1, Zenon DEF Mems
    <2>4. /\ FramesIn(done.dir) \subseteq FramesIn(m.dir) \cup (done.used \ (m.used \cup temp))
          /\ FramesIn(m.dir) \subseteq m.used /\ FramesIn(done.dir) \subseteq done.used
          /\ m.used \cup temp \subseteq done.used /\ Apart(done.dir)
      BY <1>2, <2>2 DEF Grows, Sound
    <2>5. Sound(n)
      BY <2>3, <2>4 DEF Sound
    <2>6. Grows(m, n)
      <3>1. m.used \subseteq n.used
        BY <2>3, <2>4
      <3>2. FramesIn(n.dir) \subseteq FramesIn(m.dir) \cup (n.used \ m.used)
        BY <2>3, <2>4
      <3>3. /\ n.ok => m.ok
            /\ n.dir.pd = m.dir.pd
            /\ \A v \in Page : m.dir.pte[v] # None => n.dir.pte[v] # None
        BY <1>2, <2>2, <2>3, Zenon DEF Grows
      <3> QED BY <2>5, <3>1, <3>2, <3>3, Zenon DEF Grows
    <2>7. LosesNone(read, done) => LosesNone(m, n)
      BY <1>2, <2>3, <2>4 DEF LosesNone
    <2>8. n.ok => \A v \in Stack : n.dir.pte[v] # None
      BY <1>4, <2>3, Zenon DEF Images
    <2>9. (\A v \in Stack : m.dir.pte[v] = None) => LosesNone(m, n)
      BY <1>2, <1>4, <2>7, Zenon DEF Images
    <2> QED BY <2>1, <2>6, <2>8, <2>9, Zenon DEF Images
  <1> QED BY <1>2, <1>3, <1>4, Zenon

(* load_elf_into.                                                          *)
LEMMA ElfLoads ==
    ASSUME NEW m, Sound(m), NEW prog \in Programs
    PROVE  Images(m, load_elf_into(m, prog))
  <1>1. PICK first : first = FirstRun(m.used, prog.frames)
    BY Zenon
  <1>2. PICK temp : temp = first .. first + prog.frames - 1
    BY Zenon
  <1>3. PICK read : read = [m EXCEPT !.used = @ \cup temp]
    BY Zenon
  <1>4. PICK segs : segs = LoadSegments(read, prog.segments)
    BY Zenon
  <1>5. PICK stack : stack = MapPages(segs, StackBase, StackBase + USER_STACK_PAGES, "stack")
    BY Zenon
  <1>6. PICK done : done = IF prog.valid THEN stack ELSE Fails(read)
    BY Zenon
  <1>7. load_elf_into(m, prog) = IF first = None THEN Fails(m) ELSE [done EXCEPT !.used = @ \ temp]
    BY <1>1, <1>2, <1>3, <1>4, <1>5, <1>6, Zenon DEF load_elf_into
  <1>8. prog.frames \in Nat /\ prog.valid \in BOOLEAN /\ prog.segments \in Seq(Segment)
    BY SpaceAssumption DEF Segment
  <1>9. CASE first = None
    <2>1. Grows(m, Fails(m)) /\ LosesNone(m, Fails(m)) /\ ~Fails(m).ok
      BY FailsGrows, Zenon
    <2> QED BY <1>7, <1>9, <2>1, Zenon DEF Images
  <1>10. CASE first # None
    <2>1. m.used \in SUBSET Frame
      BY DEF Sound, Mems
    <2>2. temp \in SUBSET Frame /\ temp \cap m.used = {}
      BY <1>1, <1>2, <1>8, <1>10, <2>1, FirstRunIs
    <2>3. /\ Sound(read) /\ read.dir = m.dir
          /\ \A d : Images(read, d) => Images(m, [d EXCEPT !.used = @ \ temp])
      BY <1>3, <2>2, TemporaryFrames, Zenon
    <2>4. Loads(read, segs)
      BY <1>4, <1>8, <2>3, SegmentsLoad, ZenonT(60)
    <2>5. Sound(segs) /\ Grows(read, segs) /\ LosesNone(read, segs)
      BY <2>4 DEF Loads, Grows
    <2>6. FillsFresh(segs, stack, Stack, "stack")
      <3>1. PICK from \in Int, to \in Int : from = StackBase /\ to = StackBase + USER_STACK_PAGES
        BY StackBaseIs, SpaceAssumption
      <3>2. from <= to /\ from .. to - 1 = Stack
        BY <3>1, StackBaseIs, SpaceAssumption DEF Stack
      <3>3. from .. to - 1 \subseteq Page
        BY <3>2, StackIsPages
      <3>4. FillsFresh(segs, stack, from .. to - 1, "stack")
        BY <1>5, <2>5, <3>1, <3>2, <3>3, MapPagesFills, Zenon
      <3> QED BY <3>2, <3>4, Zenon
    <2>7. Images(read, stack)
      <3>1. /\ Grows(segs, stack)
            /\ stack.ok => \A v \in Page : v \in Stack => stack.dir.pte[v] # None
            /\ Spares(segs, Stack, "stack") => LosesNone(segs, stack)
        BY <2>6, Zenon DEF FillsFresh, Fills
      <3>2. /\ Grows(read, stack)
            /\ LosesNone(read, segs) /\ LosesNone(segs, stack) => LosesNone(read, stack)
        BY <2>5, <3>1, GrowsOn, Zenon
      <3>3. stack.ok => \A v \in Stack : stack.dir.pte[v] # None
        BY <3>1, StackIsPages, Zenon
      <3>4. \A v \in Stack : v \in Page /\ v >= StackBase
        BY StackIsPages, StackBaseIs, SpaceAssumption DEF Stack
      <3>5. (\A v \in Stack : read.dir.pte[v] = None) => Spares(segs, Stack, "stack")
        BY <2>4, <3>4, Zenon DEF Loads, Spares
      <3> QED BY <2>5, <3>1, <3>2, <3>3, <3>5, Zenon DEF Images
    <2>8. Images(read, Fails(read))
      <3>1. Grows(read, Fails(read)) /\ LosesNone(read, Fails(read)) /\ ~Fails(read).ok
        BY <2>3, FailsGrows, Zenon
      <3> QED BY <3>1, Zenon DEF Images
    <2>9. Images(read, done)
      BY <1>6, <2>7, <2>8, Zenon
    <2> QED BY <1>7, <1>10, <2>3, <2>9, Zenon
  <1> QED BY <1>9, <1>10, Zenon
-----------------------------------------------------------------------------
(* The inductive invariant.  Live directories are sound, name disjoint     *)
(* sets of frames, and map the heap up to the break and the stack.         *)
MapsHeap(p) ==
    /\ brk[p] \in [min : Nat, cur : Nat]
    /\ USER_REGION_START <= brk[p].min /\ brk[p].min <= brk[p].cur
    /\ \A v \in PageOf(brk[p].min) .. Ceil(brk[p].cur) - 1 :
          v \in Page /\ dir[p].pte[v] # None
    /\ \A v \in Stack : dir[p].pte[v] # None

Lives(p) ==
    /\ dir[p] \in Dirs /\ Apart(dir[p]) /\ FramesIn(dir[p]) \subseteq used
    /\ MapsHeap(p)

SpaceInv ==
    /\ used \in SUBSET Frame
    /\ DOMAIN dir = Proc /\ DOMAIN brk = Proc
    /\ dir = [p \in Proc |-> dir[p]] /\ brk = [p \in Proc |-> brk[p]]
    /\ \A p \in Proc : dir[p] = NoDir \/ Lives(p)
    /\ \A p \in Proc : dir[p] = NoDir => brk[p] = [min |-> 0, cur |-> 0]
    /\ \A p, q \in Proc : dir[p] # NoDir /\ dir[q] # NoDir /\ p # q =>
          FramesIn(dir[p]) \cap FramesIn(dir[q]) = {}

(* A directory is not the mark for none and names its own frame.           *)
LEMMA DirIsNotNoDir ==
    ASSUME NEW d \in Dirs
    PROVE  d # NoDir /\ d.pd \in FramesIn(d)
  <1>1. d.pd \in Frame /\ NoDir.pd = None
    BY DEF Dirs, NoDir
  <1> QED BY <1>1, NoneIsNoFrame DEF FramesIn

(* The invariant says what MemoryIsPrivate and HeapIsMapped say.           *)
LEMMA NamedFrames ==
    ASSUME SpaceInv, NEW p \in Alive, NEW n \in Names(p), Named(p, n) # None
    PROVE  Named(p, n) \in FramesIn(dir[p])
  <1>1. dir[p] \in Dirs
    BY DEF SpaceInv, Alive, Lives
  <1>2. CASE n \in {"pd"} \X {0}
    BY <1>1, <1>2, Zenon DEF Named, FramesIn, Dirs
  <1>3. CASE n \in {"pt"} \X Table
    BY <1>1, <1>3 DEF Named, FramesIn, Dirs, FrameOrNone
  <1>4. CASE n \in {"pte"} \X Page
    BY <1>1, <1>4 DEF Named, FramesIn, Dirs, FrameOrNone
  <1> QED BY <1>2, <1>3, <1>4 DEF Names

(* A directory names a frame in one place.                                 *)
LEMMA NamedOnce ==
    ASSUME SpaceInv, NEW p \in Alive, NEW n \in Names(p), NEW k \in Names(p),
           Named(p, n) # None, Named(p, n) = Named(p, k)
    PROVE  n = k
  <1>1. dir[p] \in Dirs /\ Apart(dir[p])
    BY DEF SpaceInv, Alive, Lives
  <1>2. PICK d : d = dir[p]
    BY Zenon
  <1>3. ASSUME NEW x \in Names(p)
        PROVE  \/ x = <<"pd", 0>> /\ Named(p, x) = d.pd
               \/ \E t \in Table : x = <<"pt", t>> /\ Named(p, x) = d.pt[t]
               \/ \E v \in Page : x = <<"pte", v>> /\ Named(p, x) = d.pte[v]
    <2>1. CASE x \in {"pd"} \X {0}
      BY <1>2, <2>1 DEF Named
    <2>2. CASE x \in {"pt"} \X Table
      BY <1>2, <2>2 DEF Named
    <2>3. CASE x \in {"pte"} \X Page
      BY <1>2, <2>3 DEF Named
    <2> QED BY <2>1, <2>2, <2>3, Zenon DEF Names
  <1>4. Apart(d)
    BY <1>1, <1>2
  <1>5. CASE n = <<"pd", 0>> /\ Named(p, n) = d.pd
    BY <1>3, <1>4, <1>5, Zenon DEF Apart
  <1>6. CASE \E t \in Table : n = <<"pt", t>> /\ Named(p, n) = d.pt[t]
    <2>1. PICK t \in Table : n = <<"pt", t>> /\ Named(p, n) = d.pt[t]
      BY <1>6, Zenon
    <2>2. CASE k = <<"pd", 0>> /\ Named(p, k) = d.pd
      BY <1>4, <2>1, <2>2, Zenon DEF Apart
    <2>3. CASE \E u \in Table : k = <<"pt", u>> /\ Named(p, k) = d.pt[u]
      BY <1>4, <2>1, <2>3, Zenon DEF Apart
    <2>4. CASE \E v \in Page : k = <<"pte", v>> /\ Named(p, k) = d.pte[v]
      BY <1>4, <2>1, <2>4, Zenon DEF Apart
    <2> QED BY <1>3, <2>2, <2>3, <2>4, Zenon
  <1>7. CASE \E v \in Page : n = <<"pte", v>> /\ Named(p, n) = d.pte[v]
    <2>1. PICK v \in Page : n = <<"pte", v>> /\ Named(p, n) = d.pte[v]
      BY <1>7, Zenon
    <2>2. CASE k = <<"pd", 0>> /\ Named(p, k) = d.pd
      BY <1>4, <2>1, <2>2, Zenon DEF Apart
    <2>3. CASE \E t \in Table : k = <<"pt", t>> /\ Named(p, k) = d.pt[t]
      BY <1>4, <2>1, <2>3, Zenon DEF Apart
    <2>4. CASE \E w \in Page : k = <<"pte", w>> /\ Named(p, k) = d.pte[w]
      BY <1>4, <2>1, <2>4, Zenon DEF Apart
    <2> QED BY <1>3, <2>2, <2>3, <2>4, Zenon
  <1> QED BY <1>3, <1>5, <1>6, <1>7, Zenon

(* The invariant keeps memory private.                                     *)
LEMMA InvIsPrivate == SpaceInv => MemoryIsPrivate
  <1> SUFFICES ASSUME SpaceInv, NEW p \in Alive, NEW q \in Alive,
                      NEW n \in Names(p), NEW k \in Names(q), Named(p, n) # None
               PROVE  /\ Named(p, n) \in used
                      /\ Named(p, n) = Named(q, k) => p = q /\ n = k
    BY Zenon DEF MemoryIsPrivate
  <1>1. Named(p, n) \in FramesIn(dir[p])
    BY NamedFrames, Zenon
  <1>2. p \in Proc /\ q \in Proc /\ dir[p] # NoDir /\ dir[q] # NoDir
    BY DEF Alive
  <1>3. FramesIn(dir[p]) \subseteq used
    BY <1>2, Zenon DEF SpaceInv, Lives
  <1>4. ASSUME Named(p, n) = Named(q, k) PROVE p = q
    <2>1. Named(q, k) \in FramesIn(dir[q])
      BY <1>4, NamedFrames, Zenon
    <2>2. p # q => FramesIn(dir[p]) \cap FramesIn(dir[q]) = {}
      BY <1>2, Zenon DEF SpaceInv
    <2> QED BY <1>1, <1>4, <2>1, <2>2
  <1>5. ASSUME Named(p, n) = Named(q, k) PROVE n = k
    <2>1. q = p /\ k \in Names(p) /\ Named(p, n) = Named(p, k)
      BY <1>4, <1>5, Zenon
    <2> QED BY <2>1, NamedOnce, Zenon
  <1> QED BY <1>1, <1>3, <1>4, <1>5

(* The invariant maps heap and stack.                                      *)
LEMMA InvIsMapped == SpaceInv => HeapIsMapped
  <1> SUFFICES ASSUME SpaceInv, NEW p \in Alive
               PROVE  /\ \A v \in PageOf(brk[p].min) .. Ceil(brk[p].cur) - 1 : dir[p].pte[v] # None
                      /\ \A v \in StackBase .. StackBase + USER_STACK_PAGES - 1 : dir[p].pte[v] # None
    BY Zenon DEF HeapIsMapped
  <1>1. MapsHeap(p)
    BY Zenon DEF SpaceInv, Alive, Lives
  <1> QED BY <1>1, Zenon DEF MapsHeap, Stack

(* The invariant types the state.                                          *)
LEMMA InvIsTyped == SpaceInv => SpaceTypeOK
  <1> SUFFICES ASSUME SpaceInv PROVE SpaceTypeOK
    OBVIOUS
  <1>1. ASSUME NEW p \in Proc
        PROVE  /\ dir[p] \in {NoDir} \cup Dirs
               /\ brk[p].min <= brk[p].cur
    <2>1. CASE dir[p] = NoDir
      <3>1. brk[p] = [min |-> 0, cur |-> 0]
        BY <2>1, Zenon DEF SpaceInv
      <3> QED BY <2>1, <3>1
    <2>2. CASE dir[p] # NoDir
      BY <2>2, Zenon DEF SpaceInv, Lives, MapsHeap
    <2> QED BY <2>1, <2>2, Zenon
  <1>2. dir \in [Proc -> {NoDir} \cup Dirs]
    BY <1>1, Zenon DEF SpaceInv
  <1> QED BY <1>1, <1>2 DEF SpaceInv, SpaceTypeOK, Dirs, FrameOrNone

(* Where the steps start from: a live directory, or a fresh one.           *)
LEMMA LiveIsSound ==
    ASSUME SpaceInv, NEW p \in Proc, dir[p] # NoDir
    PROVE  Sound(Memory(used, dir[p])) /\ Lives(p)
  <1>1. Lives(p)
    BY Zenon DEF SpaceInv
  <1> QED BY <1>1 DEF Memory, Sound, Mems, Lives, SpaceInv

(* A directory just made names its own frame and nothing else.             *)
LEMMA FreshIsSound ==
    ASSUME SpaceInv, NEW f \in Frame, f \notin used
    PROVE  /\ Sound(Memory(used \cup {f}, EmptyDir(f)))
           /\ FramesIn(EmptyDir(f)) = {f}
           /\ \A v \in Stack : EmptyDir(f).pte[v] = None
  <1>1. PICK d : d = EmptyDir(f)
    BY Zenon
  <1>2. /\ d \in Dirs /\ d.pd = f /\ \A t \in Table : d.pt[t] = None
        /\ \A v \in Page : d.pte[v] = None
    BY <1>1 DEF EmptyDir, Dirs, FrameOrNone
  <1>3. None \notin Frame
    BY NoneIsNoFrame
  <1>4. FramesIn(d) = {f}
    BY <1>2, <1>3, SMTT(30) DEF FramesIn
  <1>5. Apart(d)
    BY <1>2, <1>3 DEF Apart
  <1>6. used \cup {f} \in SUBSET Frame
    BY DEF SpaceInv
  <1>7. Sound(Memory(used \cup {f}, d))
    BY <1>2, <1>4, <1>5, <1>6 DEF Memory, Sound, Mems
  <1> QED BY <1>1, <1>2, <1>4, <1>7, StackIsPages

(* paging_destroy_address_space gives back the frames the directory names. *)
LEMMA DestroyedIs ==
    ASSUME NEW u \in SUBSET Frame, NEW d \in Dirs
    PROVE  Destroyed(u, d) = u \ FramesIn(d)
  BY DEF Destroyed, FramesIn, Dirs

(* A step of process p alone: its directory becomes d, and takes frames    *)
(* from the pool only.                                                     *)
Takes(p, d) ==
    /\ used \subseteq used' /\ used' \in SUBSET Frame
    /\ dir' = [dir EXCEPT ![p] = d] /\ d \in Dirs /\ Apart(d) /\ FramesIn(d) \subseteq used'
    /\ \A f \in FramesIn(d) : f \in used => dir[p] # NoDir /\ f \in FramesIn(dir[p])

(* A task that takes only free frames and ones it had keeps the invariant. *)
LEMMA TakesKeeps ==
    ASSUME SpaceInv, NEW p \in Proc, NEW d, Takes(p, d),
           NEW b, brk' = [brk EXCEPT ![p] = b], MapsHeap(p)'
    PROVE  SpaceInv'
  <1>1. dir'[p] = d /\ \A q \in Proc : q # p => dir'[q] = dir[q] /\ brk'[q] = brk[q]
    BY DEF Takes, SpaceInv
  <1>2. /\ DOMAIN dir' = Proc /\ DOMAIN brk' = Proc
        /\ dir' = [q \in Proc |-> dir'[q]] /\ brk' = [q \in Proc |-> brk'[q]]
    BY Zenon DEF Takes, SpaceInv
  <1>3. d # NoDir
    BY DirIsNotNoDir DEF Takes
  <1>4. Lives(p)'
    BY <1>1, Zenon DEF Takes, Lives
  <1>5. ASSUME NEW q \in Proc, q # p, dir[q] # NoDir PROVE Lives(q)'
    <2>1. Lives(q) /\ dir'[q] = dir[q] /\ brk'[q] = brk[q]
      BY <1>1, <1>5, Zenon DEF SpaceInv
    <2>2. FramesIn(dir'[q]) \subseteq used'
      BY <2>1 DEF Lives, Takes
    <2> QED BY <2>1, <2>2, Zenon DEF Lives, MapsHeap
  <1>6. \A q \in Proc : dir'[q] = NoDir \/ Lives(q)'
    BY <1>1, <1>4, <1>5, Zenon
  <1>7. \A q \in Proc : dir'[q] = NoDir => brk'[q] = [min |-> 0, cur |-> 0]
    BY <1>1, <1>3, Zenon DEF SpaceInv
  <1>8. ASSUME NEW q \in Proc, q # p, dir[q] # NoDir PROVE FramesIn(d) \cap FramesIn(dir[q]) = {}
    <2>1. FramesIn(dir[q]) \subseteq used
      BY <1>8, Zenon DEF SpaceInv, Lives
    <2>2. dir[p] # NoDir => FramesIn(dir[p]) \cap FramesIn(dir[q]) = {}
      BY <1>8, Zenon DEF SpaceInv
    <2> QED BY <2>1, <2>2 DEF Takes
  <1>9. ASSUME NEW q \in Proc, NEW r \in Proc, dir'[q] # NoDir, dir'[r] # NoDir, q # r
        PROVE  FramesIn(dir'[q]) \cap FramesIn(dir'[r]) = {}
    <2>1. CASE q = p
      BY <1>1, <1>8, <1>9, <2>1, Zenon
    <2>2. CASE r = p
      BY <1>1, <1>8, <1>9, <2>2
    <2>3. CASE q # p /\ r # p
      BY <1>1, <1>9, <2>3, Zenon DEF SpaceInv
    <2> QED BY <2>1, <2>2, <2>3, Zenon
  <1> QED BY <1>2, <1>6, <1>7, <1>9, Zenon DEF SpaceInv, Takes
-----------------------------------------------------------------------------
(* The steps.  A failed spawn may lose free frames; spawn, exec and sbrk   *)
(* take frames for one process, spawn losing none; exit gives back what    *)
(* the process has.                                                        *)
Loses == used \subseteq used' /\ used' \in SUBSET Frame /\ dir' = dir /\ brk' = brk

Gains(p) ==
    \E d : Takes(p, d) /\ (dir[p] = NoDir => used' \ FramesIn(d) \subseteq used)

Gives(p) ==
    /\ dir[p] # NoDir /\ used' = used \ FramesIn(dir[p])
    /\ dir' = [dir EXCEPT ![p] = NoDir]
    /\ brk' = [brk EXCEPT ![p] = [min |-> 0, cur |-> 0]]

SpaceStep == \E p \in Proc : Loses \/ Gains(p) \/ Gives(p)

(* Frames marked and forgotten keep the invariant.                         *)
LEMMA LosesKeeps ==
    ASSUME SpaceInv, Loses
    PROVE  SpaceInv'
  <1>1. ASSUME NEW p \in Proc, Lives(p) PROVE Lives(p)'
    <2>1. FramesIn(dir'[p]) \subseteq used'
      BY <1>1 DEF Loses, Lives
    <2> QED BY <1>1, <2>1, Zenon DEF Loses, Lives, MapsHeap
  <1> QED BY <1>1, Zenon DEF Loses, SpaceInv

(* A task that gives back its frames keeps the invariant.                  *)
LEMMA GivesKeeps ==
    ASSUME SpaceInv, NEW p \in Proc, Gives(p)
    PROVE  SpaceInv'
  <1>1. /\ dir'[p] = NoDir /\ brk'[p] = [min |-> 0, cur |-> 0]
        /\ \A q \in Proc : q # p => dir'[q] = dir[q] /\ brk'[q] = brk[q]
    BY DEF Gives, SpaceInv
  <1>2. /\ DOMAIN dir' = Proc /\ DOMAIN brk' = Proc
        /\ dir' = [q \in Proc |-> dir'[q]] /\ brk' = [q \in Proc |-> brk'[q]]
    BY Zenon DEF Gives, SpaceInv
  <1>3. ASSUME NEW q \in Proc, q # p, dir[q] # NoDir PROVE Lives(q)'
    <2>1. Lives(q) /\ dir'[q] = dir[q] /\ brk'[q] = brk[q]
      BY <1>1, <1>3, Zenon DEF SpaceInv
    <2>2. FramesIn(dir[p]) \cap FramesIn(dir[q]) = {}
      BY <1>3, Zenon DEF SpaceInv, Gives
    <2>3. FramesIn(dir'[q]) \subseteq used'
      BY <2>1, <2>2 DEF Lives, Gives
    <2> QED BY <2>1, <2>3, Zenon DEF Lives, MapsHeap
  <1>4. \A q \in Proc : dir'[q] = NoDir \/ Lives(q)'
    BY <1>1, <1>3, Zenon
  <1>5. \A q \in Proc : dir'[q] = NoDir => brk'[q] = [min |-> 0, cur |-> 0]
    BY <1>1, Zenon DEF SpaceInv
  <1>6. \A q, r \in Proc : dir'[q] # NoDir /\ dir'[r] # NoDir /\ q # r =>
           FramesIn(dir'[q]) \cap FramesIn(dir'[r]) = {}
    BY <1>1, Zenon DEF SpaceInv
  <1>7. used' \in SUBSET Frame
    BY DEF Gives, SpaceInv
  <1> QED BY <1>2, <1>4, <1>5, <1>6, <1>7, Zenon DEF SpaceInv

(* What a process had mapped stays mapped while its break stays.           *)
LEMMA HeapStays ==
    ASSUME NEW p, MapsHeap(p), brk'[p] = brk[p],
           \A v \in Page : dir[p].pte[v] # None => dir'[p].pte[v] # None
    PROVE  MapsHeap(p)'
  <1>1. \A v \in Stack : v \in Page
    BY StackIsPages
  <1> QED BY <1>1, Zenon DEF MapsHeap

(* A new image has an empty heap.                                          *)
LEMMA HeapStarts ==
    ASSUME NEW p, NEW e \in PageAligned, brk'[p] = [min |-> e, cur |-> e],
           \A v \in Stack : dir'[p].pte[v] # None
    PROVE  MapsHeap(p)'
  <1>1. brk'[p].min = e /\ brk'[p].cur = e /\ brk'[p] \in [min : Nat, cur : Nat]
    BY DEF PageAligned
  <1>2. PageOf(e) = Ceil(e) /\ Ceil(e) \in Nat /\ USER_REGION_START <= e /\ e <= e
    BY CeilIs, SpaceAssumption DEF PageAligned
  <1>3. PageOf(e) .. Ceil(e) - 1 = {}
    BY <1>2
  <1> QED BY <1>1, <1>2, <1>3, ZenonT(60) DEF MapsHeap

(* Process p goes on with what its memory has grown into.                  *)
LEMMA GrownTakes ==
    ASSUME SpaceInv, NEW p \in Proc, dir[p] # NoDir,
           NEW n, Grows(Memory(used, dir[p]), n),
           used' = n.used, dir' = [dir EXCEPT ![p] = n.dir]
    PROVE  /\ Takes(p, n.dir) /\ Gains(p) /\ dir'[p] = n.dir
           /\ \A v \in Page : dir[p].pte[v] # None => dir'[p].pte[v] # None
  <1>1. PICK m : m = Memory(used, dir[p])
    BY Zenon
  <1>2. m.used = used /\ m.dir = dir[p]
    BY <1>1, Zenon DEF Memory
  <1>3. /\ n.used \in SUBSET Frame /\ n.dir \in Dirs /\ Apart(n.dir)
        /\ FramesIn(n.dir) \subseteq n.used /\ used \subseteq n.used
        /\ FramesIn(n.dir) \subseteq FramesIn(dir[p]) \cup (n.used \ used)
    BY <1>1, <1>2 DEF Grows, Sound, Mems
  <1>4. dir'[p] = n.dir
    BY Zenon DEF SpaceInv
  <1>5. Takes(p, n.dir)
    BY <1>3 DEF Takes
  <1>6. \A v \in Page : dir[p].pte[v] # None => dir'[p].pte[v] # None
    BY <1>1, <1>2, <1>4, Zenon DEF Grows
  <1> QED BY <1>4, <1>5, <1>6, Zenon DEF Gains

(* task_create_user_elf.                                                   *)
LEMMA SpawnKeeps ==
    ASSUME SpaceInv, NEW p \in Proc, NEW prog \in Programs, spawn(p, prog)
    PROVE  SpaceInv' /\ SpaceStep
  <1>1. PICK pd : pd = FirstFree(used)
    BY Zenon
  <1>2. PICK m : m = Memory(used \cup {pd}, EmptyDir(pd))
    BY Zenon
  <1>3. PICK n : n = load_elf_into(m, prog)
    BY Zenon
  <1>4. dir[p] = NoDir
    BY Zenon DEF spawn
  <1>5. \/ pd = None /\ UNCHANGED <<used, dir, brk>>
        \/ pd # None /\ ~n.ok /\ used' = Destroyed(n.used, n.dir) /\ UNCHANGED <<dir, brk>>
        \/ /\ pd # None /\ n.ok /\ used' = n.used /\ dir' = [dir EXCEPT ![p] = n.dir]
           /\ brk' = [brk EXCEPT ![p] = [min |-> UserEnd(prog), cur |-> UserEnd(prog)]]
    BY <1>1, <1>2, <1>3, Zenon DEF spawn
  <1>6. used \in SUBSET Frame
    BY DEF SpaceInv
  <1>7. CASE pd = None /\ UNCHANGED <<used, dir, brk>>
    <2>1. Loses
      BY <1>6, <1>7 DEF Loses
    <2> QED BY <2>1, LosesKeeps, Zenon DEF SpaceStep
  <1>8. ASSUME pd # None
        PROVE  /\ Images(m, n) /\ n.used \in SUBSET Frame /\ n.dir \in Dirs /\ Apart(n.dir)
               /\ FramesIn(n.dir) \subseteq n.used /\ used \cup {pd} \subseteq n.used
               /\ FramesIn(n.dir) \cap used = {}
               /\ LosesNone(m, n)
               /\ m.used = used \cup {pd} /\ FramesIn(m.dir) = {pd}
    <2>1. pd \in Frame /\ pd \notin used
      BY <1>1, <1>6, <1>8, FirstFreeIs
    <2>2. /\ Sound(m) /\ FramesIn(EmptyDir(pd)) = {pd}
          /\ \A v \in Stack : EmptyDir(pd).pte[v] = None
      BY <1>2, <2>1, FreshIsSound, Zenon
    <2>3. m.used = used \cup {pd} /\ m.dir = EmptyDir(pd)
      BY <1>2 DEF Memory
    <2>4. Images(m, n)
      BY <1>3, <2>2, ElfLoads, Zenon
    <2>5. LosesNone(m, n) /\ Grows(m, n)
      BY <2>2, <2>3, <2>4, Zenon DEF Images
    <2>6. /\ n.used \in SUBSET Frame /\ n.dir \in Dirs /\ Apart(n.dir)
          /\ FramesIn(n.dir) \subseteq n.used /\ used \cup {pd} \subseteq n.used
          /\ FramesIn(n.dir) \subseteq {pd} \cup (n.used \ (used \cup {pd}))
      BY <2>2, <2>3, <2>5, Zenon DEF Grows, Sound, Mems
    <2>7. FramesIn(n.dir) \cap used = {}
      BY <2>1, <2>6
    <2> QED BY <2>2, <2>3, <2>4, <2>5, <2>6, <2>7, Zenon
  <1>9. CASE pd # None /\ ~n.ok /\ used' = Destroyed(n.used, n.dir) /\ UNCHANGED <<dir, brk>>
    <2>1. used' = n.used \ FramesIn(n.dir)
      BY <1>8, <1>9, DestroyedIs, ZenonT(60)
    <2>2. Loses
      BY <1>8, <1>9, <2>1 DEF Loses
    <2> QED BY <2>2, LosesKeeps, Zenon DEF SpaceStep
  <1>10. CASE /\ pd # None /\ n.ok /\ used' = n.used /\ dir' = [dir EXCEPT ![p] = n.dir]
              /\ brk' = [brk EXCEPT ![p] = [min |-> UserEnd(prog), cur |-> UserEnd(prog)]]
    <2>1. PICK e \in PageAligned : e = UserEnd(prog)
      BY UserEndAligned, Zenon
    <2>2. PICK b : b = [min |-> e, cur |-> e]
      BY Zenon
    <2>3. brk' = [brk EXCEPT ![p] = b]
      BY <1>10, <2>1, <2>2, Zenon
    <2>4. dir'[p] = n.dir /\ brk'[p] = b
      BY <1>10, <2>3, Zenon DEF SpaceInv
    <2>5. \A v \in Stack : dir'[p].pte[v] # None
      BY <1>8, <1>10, <2>4, Zenon DEF Images
    <2>6. MapsHeap(p)'
      BY <2>2, <2>4, <2>5, HeapStarts, ZenonT(60)
    <2>7. Takes(p, n.dir)
      BY <1>8, <1>10, ZenonT(30) DEF Takes
    <2>8. used' \ FramesIn(n.dir) \subseteq used
      BY <1>8, <1>10 DEF LosesNone
    <2>9. SpaceInv'
      BY <2>3, <2>6, <2>7, TakesKeeps, Zenon
    <2> QED BY <2>7, <2>8, <2>9, Zenon DEF SpaceStep, Gains
  <1> QED BY <1>5, <1>7, <1>9, <1>10, Zenon

(* sys_do_exec.                                                            *)
LEMMA ExecKeeps ==
    ASSUME SpaceInv, NEW p \in Proc, NEW prog \in Programs, sys_do_exec(p, prog)
    PROVE  SpaceInv' /\ SpaceStep
  <1>1. PICK n : n = load_elf_into(Memory(used, dir[p]), prog)
    BY Zenon
  <1>2. PICK e \in PageAligned : e = UserEnd(prog)
    BY UserEndAligned, Zenon
  <1>3. /\ dir[p] # NoDir /\ used' = n.used /\ dir' = [dir EXCEPT ![p] = n.dir]
        /\ brk' = IF n.ok THEN [brk EXCEPT ![p] = [min |-> e, cur |-> e]] ELSE brk
    BY <1>1, <1>2, Zenon DEF sys_do_exec
  <1>4. Sound(Memory(used, dir[p])) /\ Lives(p)
    BY <1>3, LiveIsSound, Zenon
  <1>5. Images(Memory(used, dir[p]), n)
    BY <1>1, <1>4, ElfLoads, Zenon
  <1>6. /\ Takes(p, n.dir) /\ Gains(p) /\ dir'[p] = n.dir
        /\ \A v \in Page : dir[p].pte[v] # None => dir'[p].pte[v] # None
    <2>1. Grows(Memory(used, dir[p]), n)
      BY <1>5, Zenon DEF Images
    <2> QED BY <1>3, <2>1, GrownTakes, Zenon
  <1>7. CASE n.ok
    <2>1. PICK b : b = [min |-> e, cur |-> e]
      BY Zenon
    <2>2. brk' = [brk EXCEPT ![p] = b]
      BY <1>3, <1>7, <2>1, Zenon
    <2>3. brk'[p] = [min |-> e, cur |-> e]
      BY <2>1, <2>2, Zenon DEF SpaceInv
    <2>4. \A v \in Stack : dir'[p].pte[v] # None
      BY <1>5, <1>6, <1>7, Zenon DEF Images
    <2>5. MapsHeap(p)'
      BY <2>3, <2>4, HeapStarts, Zenon
    <2>6. SpaceInv'
      BY <1>6, <2>2, <2>5, TakesKeeps, Zenon
    <2> QED BY <1>6, <2>6, Zenon DEF SpaceStep
  <1>8. CASE ~n.ok
    <2>1. brk' = brk
      BY <1>3, <1>8, Zenon
    <2>2. brk' = [brk EXCEPT ![p] = brk[p]]
      BY <2>1 DEF SpaceInv
    <2>3. MapsHeap(p)'
      BY <1>4, <1>6, <2>1, HeapStays, Zenon DEF Lives
    <2>4. SpaceInv'
      BY <1>6, <2>2, <2>3, TakesKeeps, Zenon
    <2> QED BY <1>6, <2>4, Zenon DEF SpaceStep
  <1> QED BY <1>7, <1>8, Zenon

(* sys_do_sbrk.                                                            *)
LEMMA SbrkKeeps ==
    ASSUME SpaceInv, NEW p \in Proc, NEW increment \in Increments, sys_do_sbrk(p, increment)
    PROVE  SpaceInv' /\ SpaceStep
  <1>1. PICK old : old = brk[p].cur
    BY Zenon
  <1>2. PICK new : new = old + increment
    BY Zenon
  <1>3. PICK n : n = Extended(Memory(used, dir[p]), old, new)
    BY Zenon
  <1>4. dir[p] # NoDir
    BY Zenon DEF sys_do_sbrk
  <1>5. \/ UNCHANGED <<used, dir, brk>>
        \/ /\ increment >= 0 /\ new < USER_STACK_BASE_VADDR /\ used' = n.used
           /\ dir' = [dir EXCEPT ![p] = n.dir]
           /\ brk' = IF n.ok THEN [brk EXCEPT ![p].cur = new] ELSE brk
    BY <1>1, <1>2, <1>3, Zenon DEF sys_do_sbrk
  <1>6. Sound(Memory(used, dir[p])) /\ Lives(p)
    BY <1>4, LiveIsSound, Zenon
  <1>7. CASE UNCHANGED <<used, dir, brk>>
    <2>1. Loses
      BY <1>7 DEF Loses, SpaceInv
    <2> QED BY <2>1, LosesKeeps, Zenon DEF SpaceStep
  <1>8. CASE /\ increment >= 0 /\ new < USER_STACK_BASE_VADDR /\ used' = n.used
             /\ dir' = [dir EXCEPT ![p] = n.dir]
             /\ brk' = IF n.ok THEN [brk EXCEPT ![p].cur = new] ELSE brk
    <2>1. PICK low \in Nat : low = brk[p].min
      BY <1>6 DEF Lives, MapsHeap
    <2>2. /\ old \in Nat /\ new \in Nat /\ USER_REGION_START <= low /\ low <= old /\ old <= new
          /\ USER_REGION_START <= old /\ new <= USER_STACK_BASE_VADDR
      BY <1>1, <1>2, <1>6, <1>8, <2>1, SpaceAssumption, SMTT(30) DEF Lives, MapsHeap
    <2>3. PICK from \in Int, to \in Int : from = Ceil(old) /\ to = Ceil(new)
      BY <2>2, RegionPages
    <2>4. from <= to /\ from .. to - 1 \subseteq Page
      BY <2>2, <2>3, RegionPages
    <2>5. FillsFresh(Memory(used, dir[p]), n, from .. to - 1, "heap")
      BY <1>3, <1>6, <2>3, <2>4, MapPagesFills, Zenon DEF Extended
    <2>6. /\ Grows(Memory(used, dir[p]), n)
          /\ n.ok => \A v \in Page : v \in from .. to - 1 => n.dir.pte[v] # None
      BY <2>5, Zenon DEF FillsFresh, Fills
    <2>7. /\ Takes(p, n.dir) /\ Gains(p) /\ dir'[p] = n.dir
          /\ \A v \in Page : dir[p].pte[v] # None => dir'[p].pte[v] # None
      BY <1>4, <1>8, <2>6, GrownTakes, Zenon
    <2>8. CASE n.ok
      <3>1. PICK b : b = [min |-> low, cur |-> new]
        BY Zenon
      <3>2. brk' = [brk EXCEPT ![p] = b]
        <4>1. [brk[p] EXCEPT !.cur = new] = b
          BY <1>6, <2>1, <3>1 DEF Lives, MapsHeap
        <4>2. brk' = [brk EXCEPT ![p] = [brk[p] EXCEPT !.cur = new]]
          BY <1>8, <2>8, Zenon
        <4> QED BY <4>1, <4>2, Zenon
      <3>3. brk'[p] = b
        BY <3>2, Zenon DEF SpaceInv
      <3>4. brk'[p].min = low /\ brk'[p].cur = new /\ brk'[p] \in [min : Nat, cur : Nat]
        BY <2>2, <3>1, <3>3
      <3>5. \A v \in PageOf(low) .. Ceil(new) - 1 :
               v \in Page /\ (v \in PageOf(low) .. Ceil(old) - 1 \/ v \in from .. to - 1)
        BY <2>2, <2>3, RegionPages
      <3>6. \A v \in PageOf(low) .. Ceil(old) - 1 : dir[p].pte[v] # None
        BY <1>1, <1>6, <2>1, Zenon DEF Lives, MapsHeap
      <3>7. \A v \in PageOf(low) .. Ceil(new) - 1 : v \in Page /\ dir'[p].pte[v] # None
        BY <2>6, <2>7, <2>8, <3>5, <3>6, Zenon
      <3>8. \A v \in Stack : dir'[p].pte[v] # None
        BY <1>6, <2>7, StackIsPages, Zenon DEF Lives, MapsHeap
      <3>9. low <= new
        BY <2>2
      <3>10. MapsHeap(p)'
        BY <2>2, <3>4, <3>7, <3>8, <3>9, Zenon DEF MapsHeap
      <3>11. SpaceInv'
        BY <2>7, <3>2, <3>10, TakesKeeps, Zenon
      <3> QED BY <2>7, <3>11, Zenon DEF SpaceStep
    <2>9. CASE ~n.ok
      <3>1. brk' = brk
        BY <1>8, <2>9, Zenon
      <3>2. brk' = [brk EXCEPT ![p] = brk[p]]
        BY <3>1 DEF SpaceInv
      <3>3. MapsHeap(p)'
        BY <1>6, <2>7, <3>1, HeapStays, Zenon DEF Lives
      <3>4. SpaceInv'
        BY <2>7, <3>2, <3>3, TakesKeeps, Zenon
      <3> QED BY <2>7, <3>4, Zenon DEF SpaceStep
    <2> QED BY <2>8, <2>9, ZenonT(60)
  <1> QED BY <1>5, <1>7, <1>8, Zenon

(* task_exit.                                                              *)
LEMMA ExitKeeps ==
    ASSUME SpaceInv, NEW p \in Proc, exit(p)
    PROVE  SpaceInv' /\ SpaceStep
  <1>1. dir[p] # NoDir
    BY Zenon DEF exit
  <1>2. dir[p] \in Dirs /\ used \in SUBSET Frame
    BY <1>1, Zenon DEF SpaceInv, Lives
  <1>3. Gives(p)
    BY <1>1, <1>2, DestroyedIs, Zenon DEF exit, Gives
  <1> QED BY <1>3, GivesKeeps, Zenon DEF SpaceStep

(* At boot no frame is in use.                                             *)
LEMMA SpaceStarts == SpaceInit => SpaceInv
  BY DEF SpaceInit, SpaceInv

(* Every step keeps the invariant and is of one of the three kinds.        *)
LEMMA SpaceKeeps == SpaceInv /\ [SpaceNext]_spaceVars => SpaceInv' /\ (SpaceStep \/ UNCHANGED spaceVars)
  <1> SUFFICES ASSUME SpaceInv, [SpaceNext]_spaceVars
               PROVE  SpaceInv' /\ (SpaceStep \/ UNCHANGED spaceVars)
    OBVIOUS
  <1>1. CASE SpaceNext
    BY <1>1, SpawnKeeps, ExecKeeps, SbrkKeeps, ExitKeeps, Zenon DEF SpaceNext
  <1>2. CASE UNCHANGED spaceVars
    <2>1. Loses
      BY <1>2 DEF spaceVars, Loses, SpaceInv
    <2> QED BY <1>2, <2>1, LosesKeeps, Zenon
  <1> QED BY <1>1, <1>2, Zenon
-----------------------------------------------------------------------------
(* Who has a frame: the one process whose directory names it.              *)
LEMMA FramesOfIs ==
    ASSUME SpaceInv, NEW p \in Proc
    PROVE  FramesOf(p) = IF dir[p] = NoDir THEN {} ELSE FramesIn(dir[p])
  <1>1. CASE dir[p] = NoDir
    BY <1>1, Zenon DEF FramesOf
  <1>2. CASE dir[p] # NoDir
    <2>1. dir[p] \in Dirs
      BY <1>2, Zenon DEF SpaceInv, Lives
    <2> QED BY <1>2, <2>1, NoneIsNoFrame DEF FramesOf, FramesIn, Dirs, FrameOrNone
  <1> QED BY <1>1, <1>2

Uses(p, f) == dir[p] # NoDir /\ f \in FramesIn(dir[p])

(* Free, lost and owned are told apart, and so are owners.                 *)
LEMMA OwnersDiffer ==
    /\ Ownership!Free # Ownership!Lost
    /\ \A p : Ownership!Of(p) # Ownership!Free /\ Ownership!Of(p) # Ownership!Lost
    /\ \A p, q : Ownership!Of(p) = Ownership!Of(q) => p = q
  <1>1. Ownership!Free.kind = "free" /\ Ownership!Lost.kind = "lost"
    BY DEF Ownership!Free, Ownership!Lost
  <1>2. \A p : Ownership!Of(p).kind = "owned" /\ Ownership!Of(p).by = p
    BY DEF Ownership!Of
  <1>3. "free" # "lost" /\ "free" # "owned" /\ "lost" # "owned"
    OBVIOUS
  <1>4. Ownership!Free # Ownership!Lost
    BY <1>1, <1>3
  <1>5. ASSUME NEW p PROVE Ownership!Of(p) # Ownership!Free /\ Ownership!Of(p) # Ownership!Lost
    BY <1>1, <1>2, <1>3
  <1>6. ASSUME NEW p, NEW q, Ownership!Of(p) = Ownership!Of(q) PROVE p = q
    <2>1. Ownership!Of(p).by = p /\ Ownership!Of(q).by = q
      BY <1>2, Zenon
    <2> QED BY <1>6, <2>1, Zenon
  <1> QED BY <1>4, <1>5, <1>6, Zenon

(* Who owns a frame.                                                       *)
LEMMA OwnerIs ==
    ASSUME SpaceInv, NEW f \in Frame
    PROVE  /\ f \notin used => OwnerOf(f) = Ownership!Free
           /\ f \in used /\ (\A p \in Proc : ~Uses(p, f)) => OwnerOf(f) = Ownership!Lost
           /\ \A p \in Proc : Uses(p, f) => f \in used /\ OwnerOf(f) = Ownership!Of(p)
  <1>1. \A p \in Proc : f \in FramesOf(p) <=> Uses(p, f)
    BY FramesOfIs DEF Uses
  <1>2. PICK owners : owners = {p \in Proc : f \in FramesOf(p)}
    BY Zenon
  <1>3. OwnerOf(f) = IF f \notin used THEN [kind |-> "free"]
                     ELSE IF owners = {} THEN [kind |-> "lost"]
                     ELSE [kind |-> "owned", by |-> CHOOSE p \in owners : TRUE]
    BY <1>2, Zenon DEF OwnerOf
  <1>4. ASSUME NEW p \in Proc, Uses(p, f) PROVE f \in used /\ owners = {p}
    <2>1. f \in used
      BY <1>4, Zenon DEF SpaceInv, Lives, Uses
    <2>2. ASSUME NEW q \in Proc, q # p PROVE ~Uses(q, f)
      BY <1>4, <2>2, Zenon DEF SpaceInv, Uses
    <2> QED BY <1>1, <1>2, <1>4, <2>1, <2>2, Zenon
  <1>5. ASSUME NEW p \in Proc, Uses(p, f) PROVE OwnerOf(f) = Ownership!Of(p)
    <2>1. owners = {p} /\ f \in used
      BY <1>4, <1>5, Zenon
    <2>2. (CHOOSE q \in owners : TRUE) = p
      BY <2>1
    <2> QED BY <1>3, <2>1, <2>2 DEF Ownership!Of
  <1>6. f \in used /\ (\A p \in Proc : ~Uses(p, f)) => OwnerOf(f) = Ownership!Lost
    BY <1>1, <1>2, <1>3, Zenon DEF Ownership!Lost
  <1>7. f \notin used => OwnerOf(f) = Ownership!Free
    BY <1>3, Zenon DEF Ownership!Free
  <1> QED BY <1>4, <1>5, <1>6, <1>7, Zenon

OwnersAgree ==
    \A f \in Frame :
        /\ OwnerOf(f) = Ownership!Free <=> f \notin used
        /\ OwnerOf(f) = Ownership!Lost <=> f \in used /\ \A p \in Proc : ~Uses(p, f)
        /\ \A p \in Proc : OwnerOf(f) = Ownership!Of(p) <=> Uses(p, f)

(* The invariant makes owners agree.                                       *)
LEMMA InvOwners == SpaceInv => OwnersAgree
  <1> SUFFICES ASSUME SpaceInv, NEW f \in Frame
               PROVE  /\ OwnerOf(f) = Ownership!Free <=> f \notin used
                      /\ OwnerOf(f) = Ownership!Lost <=> f \in used /\ \A p \in Proc : ~Uses(p, f)
                      /\ \A p \in Proc : OwnerOf(f) = Ownership!Of(p) <=> Uses(p, f)
    BY Zenon DEF OwnersAgree
  <1>1. /\ f \notin used => OwnerOf(f) = Ownership!Free
        /\ f \in used /\ (\A p \in Proc : ~Uses(p, f)) => OwnerOf(f) = Ownership!Lost
        /\ \A p \in Proc : Uses(p, f) => f \in used /\ OwnerOf(f) = Ownership!Of(p)
    BY OwnerIs, Zenon
  <1>2. CASE f \notin used
    BY <1>1, <1>2, OwnersDiffer, Zenon
  <1>3. CASE f \in used /\ \A p \in Proc : ~Uses(p, f)
    BY <1>1, <1>3, OwnersDiffer, Zenon
  <1>4. CASE \E p \in Proc : Uses(p, f)
    BY <1>1, <1>4, OwnersDiffer, Zenon
  <1> QED BY <1>2, <1>3, <1>4, Zenon

(* What each kind of step is to the frames.                                *)
OwnerStep(p, f) ==
    \/ OwnerOf(f)' = OwnerOf(f)
    \/ OwnerOf(f) = Ownership!Free /\ OwnerOf(f)' \in {Ownership!Of(p), Ownership!Lost}
    \/ OwnerOf(f) = Ownership!Of(p) /\ OwnerOf(f)' = Ownership!Lost

(* Steps of single frames that make a step of the ownership.               *)
LEMMA OwnersChange ==
    ASSUME NEW p \in Proc, \A f \in Frame : OwnerStep(p, f),
           \/ \E f \in Frame : OwnerOf(f) = Ownership!Of(p)
           \/ \A f \in Frame : OwnerOf(f)' # Ownership!Of(p)
           \/ \A f \in Frame : OwnerOf(f)' = Ownership!Lost <=> OwnerOf(f) = Ownership!Lost
    PROVE  Ownership!Next
  <1>1. Ownership!Change(p)
    <2>1. \A f \in Frame : LET old == [g \in Frame |-> OwnerOf(g)][f]
                               new == [g \in Frame |-> OwnerOf(g)]'[f]
                           IN  \/ new = old
                               \/ old = Ownership!Free /\ new \in {Ownership!Of(p), Ownership!Lost}
                               \/ old = Ownership!Of(p) /\ new = Ownership!Lost
      BY Zenon DEF OwnerStep
    <2>2. Ownership!Has(p) = {f \in Frame : OwnerOf(f) = Ownership!Of(p)}
      BY DEF Ownership!Has
    <2>3. Ownership!Has(p)' = {f \in Frame : OwnerOf(f)' = Ownership!Of(p)}
      BY DEF Ownership!Has, Ownership!Of
    <2>4. Ownership!LostFrames = {f \in Frame : OwnerOf(f) = Ownership!Lost}
      BY DEF Ownership!LostFrames
    <2>5. Ownership!LostFrames' = {f \in Frame : OwnerOf(f)' = Ownership!Lost}
      BY DEF Ownership!LostFrames, Ownership!Lost
    <2>6. Ownership!Has(p) = {} /\ Ownership!Has(p)' # {} => Ownership!LostFrames' = Ownership!LostFrames
      BY <2>2, <2>3, <2>4, <2>5
    <2> QED BY <2>1, <2>6 DEF Ownership!Change
  <1> QED BY <1>1, Zenon DEF Ownership!Next

(* Frames marked and forgotten become lost.                                *)
LEMMA LosesRefines ==
    ASSUME OwnersAgree, OwnersAgree', NEW p \in Proc, Loses
    PROVE  Ownership!Next
  <1>1. ASSUME NEW q \in Proc, NEW f \in Frame PROVE Uses(q, f)' <=> Uses(q, f)
    BY Zenon DEF Uses, Loses
  <1>2. ASSUME NEW f \in Frame
        PROVE  OwnerStep(p, f) /\ (OwnerOf(f)' = Ownership!Of(p) => OwnerOf(f) = Ownership!Of(p))
    <2>1. OwnerOf(f)' = Ownership!Of(p) => OwnerOf(f) = Ownership!Of(p)
      BY <1>1, Zenon DEF OwnersAgree
    <2>2. CASE \E q \in Proc : Uses(q, f)
      <3>1. PICK q \in Proc : Uses(q, f)
        BY <2>2, Zenon
      <3>2. OwnerOf(f) = Ownership!Of(q) /\ OwnerOf(f)' = Ownership!Of(q)
        BY <1>1, <3>1, Zenon DEF OwnersAgree
      <3> QED BY <2>1, <3>2, Zenon DEF OwnerStep
    <2>3. CASE (\A q \in Proc : ~Uses(q, f)) /\ f \in used'
      <3>1. OwnerOf(f)' = Ownership!Lost
        BY <1>1, <2>3, Zenon DEF OwnersAgree
      <3>2. OwnerOf(f) = Ownership!Lost \/ OwnerOf(f) = Ownership!Free
        BY <2>3, Zenon DEF OwnersAgree
      <3> QED BY <2>1, <3>1, <3>2, Zenon DEF OwnerStep
    <2>4. CASE f \notin used'
      <3>1. f \notin used
        BY <2>4 DEF Loses
      <3>2. OwnerOf(f) = Ownership!Free /\ OwnerOf(f)' = Ownership!Free
        BY <2>4, <3>1, Zenon DEF OwnersAgree
      <3> QED BY <2>1, <3>2, Zenon DEF OwnerStep
    <2> QED BY <2>2, <2>3, <2>4, Zenon
  <1>3. \/ \E f \in Frame : OwnerOf(f) = Ownership!Of(p)
        \/ \A f \in Frame : OwnerOf(f)' # Ownership!Of(p)
    BY <1>2, Zenon
  <1> QED BY <1>2, <1>3, OwnersChange, Zenon

(* Frames a task takes become its own.                                     *)
LEMMA GainsRefines ==
    ASSUME SpaceInv, OwnersAgree, OwnersAgree', NEW p \in Proc, Gains(p)
    PROVE  Ownership!Next
  <1>1. PICK d : Takes(p, d) /\ (dir[p] = NoDir => used' \ FramesIn(d) \subseteq used)
    BY Zenon DEF Gains
  <1>2. d \in Dirs /\ d # NoDir
    BY <1>1, DirIsNotNoDir DEF Takes
  <1>3. dir'[p] = d /\ \A q \in Proc : q # p => dir'[q] = dir[q]
    BY <1>1, Zenon DEF Takes, SpaceInv
  <1>4. \A f \in Frame : Uses(p, f)' <=> f \in FramesIn(d)
    BY <1>2, <1>3, Zenon DEF Uses
  <1>5. \A q \in Proc : q # p => \A f \in Frame : Uses(q, f)' <=> Uses(q, f)
    BY <1>3, Zenon DEF Uses
  <1>6. \A f \in FramesIn(d) : f \in used => Uses(p, f)
    BY <1>1, Zenon DEF Takes, Uses
  <1>7. used \subseteq used'
    BY <1>1 DEF Takes
  <1>8. ASSUME NEW f \in Frame, OwnerOf(f) = Ownership!Lost PROVE OwnerOf(f)' = Ownership!Lost
    <2>1. f \in used /\ \A q \in Proc : ~Uses(q, f)
      BY <1>8, Zenon DEF OwnersAgree
    <2>2. f \in used' /\ f \notin FramesIn(d)
      BY <1>6, <1>7, <2>1
    <2>3. \A q \in Proc : ~Uses(q, f)'
      BY <1>4, <1>5, <2>1, <2>2, Zenon
    <2> QED BY <2>2, <2>3, Zenon DEF OwnersAgree
  <1>9. ASSUME NEW f \in Frame PROVE OwnerStep(p, f)
    <2>1. CASE \E q \in Proc : q # p /\ Uses(q, f)
      <3>1. PICK q \in Proc : q # p /\ Uses(q, f)
        BY <2>1, Zenon
      <3>2. OwnerOf(f) = Ownership!Of(q) /\ OwnerOf(f)' = Ownership!Of(q)
        BY <1>5, <3>1, Zenon DEF OwnersAgree
      <3> QED BY <3>2, Zenon DEF OwnerStep
    <2>2. CASE Uses(p, f) /\ \A q \in Proc : q # p => ~Uses(q, f)
      <3>1. OwnerOf(f) = Ownership!Of(p)
        BY <2>2, Zenon DEF OwnersAgree
      <3>2. f \in used
        BY <2>2, Zenon DEF Uses, SpaceInv, Lives
      <3>3. f \in used'
        BY <1>7, <3>2
      <3>4. CASE f \in FramesIn(d)
        <4>1. OwnerOf(f)' = Ownership!Of(p)
          BY <1>4, <3>4, Zenon DEF OwnersAgree
        <4> QED BY <3>1, <4>1, Zenon DEF OwnerStep
      <3>5. CASE f \notin FramesIn(d)
        <4>1. \A q \in Proc : ~Uses(q, f)'
          BY <1>4, <1>5, <2>2, <3>5, Zenon
        <4>2. OwnerOf(f)' = Ownership!Lost
          BY <3>3, <4>1, Zenon DEF OwnersAgree
        <4> QED BY <3>1, <4>2, Zenon DEF OwnerStep
      <3> QED BY <3>4, <3>5, Zenon
    <2>3. CASE f \in used /\ \A q \in Proc : ~Uses(q, f)
      <3>1. OwnerOf(f) = Ownership!Lost
        BY <2>3, Zenon DEF OwnersAgree
      <3> QED BY <1>8, <3>1, Zenon DEF OwnerStep
    <2>4. CASE f \notin used /\ \A q \in Proc : ~Uses(q, f)
      <3>1. OwnerOf(f) = Ownership!Free
        BY <2>4, Zenon DEF OwnersAgree
      <3>2. CASE f \in FramesIn(d)
        <4>1. OwnerOf(f)' = Ownership!Of(p)
          BY <1>4, <3>2, Zenon DEF OwnersAgree
        <4> QED BY <3>1, <4>1, Zenon DEF OwnerStep
      <3>3. CASE f \notin FramesIn(d)
        <4>1. \A q \in Proc : ~Uses(q, f)'
          BY <1>4, <1>5, <2>4, <3>3, Zenon
        <4>2. OwnerOf(f)' = Ownership!Lost \/ OwnerOf(f)' = Ownership!Free
          BY <4>1, Zenon DEF OwnersAgree
        <4> QED BY <3>1, <4>2, Zenon DEF OwnerStep
      <3> QED BY <3>2, <3>3, Zenon
    <2> QED BY <2>1, <2>2, <2>3, <2>4, Zenon
  <1>10. CASE dir[p] # NoDir
    <2>1. dir[p] \in Dirs
      BY <1>10, Zenon DEF SpaceInv, Lives
    <2>2. PICK f \in Frame : Uses(p, f)
      <3>1. dir[p].pd \in FramesIn(dir[p]) /\ dir[p].pd \in Frame
        BY <2>1, DirIsNotNoDir DEF Dirs
      <3> QED BY <1>10, <3>1, Zenon DEF Uses
    <2>3. OwnerOf(f) = Ownership!Of(p)
      BY <2>2, Zenon DEF OwnersAgree
    <2> QED BY <1>9, <2>3, OwnersChange, Zenon
  <1>11. CASE dir[p] = NoDir
    <2>1. ASSUME NEW f \in Frame, OwnerOf(f)' = Ownership!Lost PROVE OwnerOf(f) = Ownership!Lost
      <3>1. f \in used' /\ \A q \in Proc : ~Uses(q, f)'
        BY <2>1, Zenon DEF OwnersAgree
      <3>2. f \notin FramesIn(d)
        BY <1>4, <3>1, Zenon
      <3>3. f \in used
        BY <1>1, <1>11, <3>1, <3>2
      <3>4. ~Uses(p, f)
        BY <1>11, Zenon DEF Uses
      <3>5. \A q \in Proc : ~Uses(q, f)
        BY <1>5, <3>1, <3>4, Zenon
      <3> QED BY <3>3, <3>5, Zenon DEF OwnersAgree
    <2>2. \A f \in Frame : OwnerOf(f)' = Ownership!Lost <=> OwnerOf(f) = Ownership!Lost
      BY <1>8, <2>1, Zenon
    <2> QED BY <1>9, <2>2, OwnersChange, Zenon
  <1> QED BY <1>10, <1>11, Zenon

(* Frames given back become free.                                          *)
LEMMA GivesRefines ==
    ASSUME SpaceInv, OwnersAgree, OwnersAgree', NEW p \in Proc, Gives(p)
    PROVE  Ownership!Next
  <1>1. dir'[p] = NoDir /\ \A q \in Proc : q # p => dir'[q] = dir[q]
    BY Zenon DEF Gives, SpaceInv
  <1>2. /\ \A f \in Frame : ~Uses(p, f)'
        /\ \A q \in Proc : q # p => \A f \in Frame : Uses(q, f)' <=> Uses(q, f)
    BY <1>1, Zenon DEF Uses
  <1>3. \A f \in Frame : f \in used' <=> f \in used /\ ~Uses(p, f)
    BY DEF Gives, Uses
  <1>4. ASSUME NEW f \in Frame
        PROVE  OwnerOf(f)' = IF OwnerOf(f) = Ownership!Of(p) THEN Ownership!Free ELSE OwnerOf(f)
    <2>1. OwnerOf(f) = Ownership!Of(p) <=> Uses(p, f)
      BY Zenon DEF OwnersAgree
    <2>2. CASE Uses(p, f)
      <3>1. OwnerOf(f)' = Ownership!Free
        BY <1>3, <2>2, Zenon DEF OwnersAgree
      <3> QED BY <2>1, <2>2, <3>1, Zenon
    <2>3. CASE ~Uses(p, f) /\ \E q \in Proc : Uses(q, f)
      <3>1. PICK q \in Proc : q # p /\ Uses(q, f)
        BY <2>3, Zenon
      <3>2. OwnerOf(f) = Ownership!Of(q) /\ OwnerOf(f)' = Ownership!Of(q)
        BY <1>2, <3>1, Zenon DEF OwnersAgree
      <3> QED BY <2>1, <2>3, <3>2, Zenon
    <2>4. CASE (\A q \in Proc : ~Uses(q, f)) /\ f \in used
      <3>1. f \in used' /\ \A q \in Proc : ~Uses(q, f)'
        BY <1>2, <1>3, <2>4, Zenon
      <3>2. OwnerOf(f) = Ownership!Lost /\ OwnerOf(f)' = Ownership!Lost
        BY <2>4, <3>1, Zenon DEF OwnersAgree
      <3> QED BY <2>1, <2>4, <3>2, Zenon
    <2>5. CASE (\A q \in Proc : ~Uses(q, f)) /\ f \notin used
      <3>1. f \notin used'
        BY <1>3, <2>5, Zenon
      <3>2. OwnerOf(f) = Ownership!Free /\ OwnerOf(f)' = Ownership!Free
        BY <2>5, <3>1, Zenon DEF OwnersAgree
      <3> QED BY <2>1, <2>5, <3>2, Zenon
    <2> QED BY <2>2, <2>3, <2>4, <2>5, Zenon
  <1>5. Ownership!Gone(p)
    BY <1>4 DEF Ownership!Gone
  <1> QED BY <1>5 DEF Ownership!Next
-----------------------------------------------------------------------------
(* The invariant holds always.                                             *)
LEMMA SpaceInvariant == SpaceSpec => []SpaceInv
  <1>1. SpaceInv /\ [SpaceNext]_spaceVars => SpaceInv'
    BY SpaceKeeps, Zenon
  <1> QED BY <1>1, SpaceStarts, PTL DEF SpaceSpec

(* Every reachable state is well typed (task_t.page_dir, frame_bitmap).    *)
THEOREM SpaceIsTyped == SpaceSpec => []SpaceTypeOK
  BY SpaceInvariant, InvIsTyped, PTL

(* Whatever the memory, the programs and the requests: no frame is in two  *)
(* address spaces, or twice in one, and every frame in one is marked used  *)
(* (paging_map_page, load_elf_into, sys_do_sbrk).                          *)
THEOREM MemoryStaysPrivate == SpaceSpec => []MemoryIsPrivate
  BY SpaceInvariant, InvIsPrivate, PTL

(* The heap below the break and the stack of a live process are mapped,    *)
(* also after a spawn, exec or sbrk that ran out of frames half way.       *)
THEOREM HeapStaysMapped == SpaceSpec => []HeapIsMapped
  BY SpaceInvariant, InvIsMapped, PTL

(* The processes implement the abstract frame ownership: frames change     *)
(* hands through the free pool only, and a process gives its frames back   *)
(* when it ends.                                                           *)
THEOREM SpacesImplementOwnership == SpaceSpec => FramesChangeHandsOnlyWhenFree
  <1>1. SpaceInit => Ownership!Init
    <2> SUFFICES ASSUME SpaceInit PROVE Ownership!Init
      BY Zenon
    <2>1. \A f \in Frame : OwnerOf(f) = Ownership!Free
      BY DEF SpaceInit, OwnerOf, Ownership!Free
    <2> QED BY <2>1, Zenon DEF Ownership!Init
  <1>2. SpaceInv /\ SpaceInv' /\ OwnersAgree /\ OwnersAgree' /\ [SpaceNext]_spaceVars
           => [Ownership!Next]_([f \in Frame |-> OwnerOf(f)])
    <2> SUFFICES ASSUME SpaceInv, OwnersAgree, OwnersAgree', [SpaceNext]_spaceVars
                 PROVE  [Ownership!Next]_([f \in Frame |-> OwnerOf(f)])
      OBVIOUS
    <2>1. SpaceStep \/ UNCHANGED spaceVars
      BY SpaceKeeps, Zenon
    <2>2. CASE UNCHANGED spaceVars
      BY <2>2 DEF spaceVars, OwnerOf, FramesOf
    <2>3. CASE SpaceStep
      BY <2>3, LosesRefines, GainsRefines, GivesRefines, Zenon DEF SpaceStep
    <2> QED BY <2>1, <2>2, <2>3, Zenon
  <1> QED BY <1>1, <1>2, SpaceInvariant, InvOwners, PTL
          DEF SpaceSpec, FramesChangeHandsOnlyWhenFree, Ownership!Spec
=============================================================================
