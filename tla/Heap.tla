-------------------------------- MODULE Heap --------------------------------
(***************************************************************************)
(* The kernel heap: kmalloc and kfree of liballoc/liballoc_1_1.c over the  *)
(* page allocator of liballoc/liballoc_hooks.c.  Majors are runs of pages, *)
(* minors the allocations in them; both are linked by pointers kept in     *)
(* their headers, which here are functions from addresses to headers.      *)
(* Interrupts are off between liballoc_lock and liballoc_unlock, so a call *)
(* is one step.  Addresses, sizes and headers are counted in one unit.     *)
(***************************************************************************)
EXTENDS Integers, FiniteSets, Sequences, SequencesExt

CONSTANTS KERNEL_HEAP_START, KERNEL_HEAP_END,
          PAGE_SIZE, l_pageCount,
          SizeofMajor, SizeofMinor,     \* sizeof of the two headers
          ALIGNMENT, ALIGN_INFO,
          Requests                      \* sizes callers ask for

NULL == 0

ASSUME HeapAssumption ==
    /\ KERNEL_HEAP_START \in Nat \ {NULL} /\ KERNEL_HEAP_END \in Nat
    /\ PAGE_SIZE \in Nat \ {0} /\ l_pageCount \in Nat
    /\ {SizeofMajor, SizeofMinor, ALIGNMENT, ALIGN_INFO} \subseteq Nat \ {0}
    /\ Requests \subseteq Nat

VARIABLES heap_current,         \* the page allocator's only state
          major, minor,         \* headers in memory, by address
          l_memRoot, l_bestBet,
          blocks,               \* history: pointers given out and not freed
          refused               \* the request the last call refused, or -1

vars == <<heap_current, major, minor, l_memRoot, l_bestBet, blocks, refused>>

Init ==
    /\ heap_current = KERNEL_HEAP_START
    /\ major = <<>> /\ minor = <<>>
    /\ l_memRoot = NULL /\ l_bestBet = NULL
    /\ blocks = {} /\ refused = -1

With(f, a, header) == [x \in DOMAIN f \cup {a} |-> IF x = a THEN header ELSE f[x]]

-----------------------------------------------------------------------------
(* ALIGN and UNALIGN: the distance moved is kept ALIGN_INFO before the     *)
(* pointer.                                                                *)
Padding(a) == (ALIGNMENT - (a % ALIGNMENT)) % ALIGNMENT
Align(ptr) == ptr + ALIGN_INFO + Padding(ptr + ALIGN_INFO)
Unalign(p, info) == IF info < ALIGNMENT + ALIGN_INFO THEN p - info ELSE p

(* Mutant: the size asked for leaves no room for the alignment.            *)
Adjusted_NotAtAll(req_size) == req_size

Adjusted(req_size) == req_size + ALIGNMENT + ALIGN_INFO

Need(size) == size + SizeofMinor

(* Pages for a new major, at least l_pageCount.                            *)
PagesFor(size) ==
    LET st == size + SizeofMajor + SizeofMinor
        pages == (st + PAGE_SIZE - 1) \div PAGE_SIZE
    IN  IF pages < l_pageCount THEN l_pageCount ELSE pages

(* liballoc_alloc finds room; liballoc_free gives none back.               *)
CanGrow(size) == heap_current + PagesFor(size) * PAGE_SIZE <= KERNEL_HEAP_END

NewMajor(size, prev) ==
    [prev |-> prev, next |-> NULL, pages |-> PagesFor(size),
     size |-> PagesFor(size) * PAGE_SIZE, usage |-> SizeofMajor, first |-> NULL]

-----------------------------------------------------------------------------
FreeIn(m) == major[m].size - major[m].usage

EndOf(n) == n + SizeofMinor + minor[n].size

(* The space after minor n: up to the next one or to the end of the major. *)
SpaceAfter(m, n) ==
    (IF minor[n].next = NULL THEN m + major[m].size ELSE minor[n].next) - EndOf(n)

(* CASE 4: the first minor from n on that has room behind it.              *)
RECURSIVE RoomAfter(_, _, _)
RoomAfter(m, n, size) ==
    IF n = NULL THEN NULL
    ELSE IF SpaceAfter(m, n) >= Need(size) THEN n
    ELSE RoomAfter(m, minor[n].next, size)

(* CASE 3: room before the first minor.                                    *)
RoomInFront(m, size) == major[m].first - m - SizeofMajor >= Need(size)

Fits(m, size) ==
    \/ major[m].first = NULL
    \/ RoomInFront(m, size)
    \/ RoomAfter(m, major[m].first, size) # NULL

(* Mutant: a search that starts at the best bet never goes back.           *)
RECURSIVE Search_OnlyBet(_, _, _, _, _)
Search_OnlyBet(m, size, startedBet, bet, bestSize) ==
    LET better == bestSize < FreeIn(m)
        newBet == IF better THEN m ELSE bet
        newSize == IF better THEN FreeIn(m) ELSE bestSize
    IN  IF FreeIn(m) >= Need(size) /\ Fits(m, size)
        THEN [last |-> m, found |-> TRUE, bet |-> newBet, best |-> newSize]
        ELSE IF major[m].next # NULL
        THEN Search_OnlyBet(major[m].next, size, startedBet, newBet, newSize)
        ELSE [last |-> m, found |-> FALSE, bet |-> newBet, best |-> newSize]

(* The loop over the majors: from the best bet to the end, then once more  *)
(* from the root.  The best bet is noted on the way.  Without success it   *)
(* stops at the last major.                                                *)
RECURSIVE Search(_, _, _, _, _)
Search(m, size, startedBet, bet, bestSize) ==
    LET better == bestSize < FreeIn(m)
        newBet == IF better THEN m ELSE bet
        newSize == IF better THEN FreeIn(m) ELSE bestSize
    IN  IF FreeIn(m) >= Need(size) /\ Fits(m, size)
        THEN [last |-> m, found |-> TRUE, bet |-> newBet, best |-> newSize]
        ELSE IF major[m].next # NULL
        THEN Search(major[m].next, size, startedBet, newBet, newSize)
        ELSE IF startedBet
        THEN Search(l_memRoot, size, FALSE, newBet, newSize)
        ELSE [last |-> m, found |-> FALSE, bet |-> newBet, best |-> newSize]

Searched(size) ==
    LET bestSize == IF l_bestBet = NULL THEN 0 ELSE FreeIn(l_bestBet)
        useBet == l_bestBet # NULL /\ bestSize > Need(size)
    IN  Search(IF useBet THEN l_bestBet ELSE l_memRoot, size, useBet, l_bestBet, bestSize)

-----------------------------------------------------------------------------
(* Minor n of this size is put into major m of the majors M, linked        *)
(* between the minors prev and next.                                       *)
Insert(M, m, n, prev, next, size, req_size) ==
    LET header == [prev |-> prev, next |-> next, block |-> m, size |-> size,
                   req_size |-> req_size]
        linked == [x \in DOMAIN minor |->
                      IF x = prev THEN [minor[x] EXCEPT !.next = n]
                      ELSE IF x = next THEN [minor[x] EXCEPT !.prev = n]
                      ELSE minor[x]]
        p == Align(n + SizeofMinor)
    IN  /\ minor' = With(linked, n, header)
        /\ major' = [M EXCEPT ![m].usage = @ + Need(size),
                              ![m].first = IF prev = NULL THEN n ELSE @]
        /\ blocks' = blocks \cup
              {[ptr |-> p, req |-> req_size, info |-> p - (n + SizeofMinor)]}
        /\ refused' = -1

(* CASE 2: the first minor of a major without any.                         *)
InsertFirst(M, m, size, req_size) ==
    Insert(M, m, m + SizeofMajor, NULL, NULL, size, req_size)

Refuse(req_size) ==
    /\ refused' = req_size
    /\ UNCHANGED <<heap_current, major, minor, l_memRoot, blocks>>

(* The very first request, or one after the last major was given up.       *)
malloc_Root(req_size) ==
    LET size == Adjusted(req_size)
        m == heap_current
    IN  /\ l_memRoot = NULL
        /\ \/ /\ ~CanGrow(size) /\ Refuse(req_size) /\ UNCHANGED l_bestBet
           \/ /\ CanGrow(size)
              /\ InsertFirst(With(major, m, NewMajor(size, NULL)), m, size, req_size)
              /\ l_memRoot' = m
              /\ l_bestBet' = m
              /\ heap_current' = heap_current + PagesFor(size) * PAGE_SIZE

(* Room in a major there is: CASE 3, CASE 4.1 and CASE 4.2.                *)
malloc_Fit(req_size) ==
    LET size == Adjusted(req_size)
        s == Searched(size)
        m == s.last
        first == major[m].first
        n == RoomAfter(m, first, size)
    IN  /\ l_memRoot # NULL /\ s.found
        /\ IF RoomInFront(m, size)
           THEN Insert(major, m, m + SizeofMajor, NULL, first, size, req_size)
           ELSE Insert(major, m, EndOf(n), n, minor[n].next, size, req_size)
        /\ l_bestBet' = s.bet
        /\ UNCHANGED <<heap_current, l_memRoot>>

(* CASE 1 and CASE 5: no room anywhere, a new major behind the last.  Only *)
(* CASE 5, where the last had bytes enough but not in one piece, goes      *)
(* round the loop once more and may make the new one the best bet.         *)
malloc_Grow(req_size) ==
    LET size == Adjusted(req_size)
        s == Searched(size)
        m == heap_current
        fresh == NewMajor(size, s.last)
        case5 == FreeIn(s.last) >= Need(size)
    IN  /\ l_memRoot # NULL /\ ~s.found
        /\ \/ /\ ~CanGrow(size) /\ Refuse(req_size) /\ l_bestBet' = s.bet
           \/ /\ CanGrow(size)
              /\ InsertFirst(With([major EXCEPT ![s.last].next = m], m, fresh),
                             m, size, req_size)
              /\ l_bestBet' = IF case5 /\ s.best < fresh.size - fresh.usage THEN m ELSE s.bet
              /\ heap_current' = heap_current + fresh.size
              /\ UNCHANGED l_memRoot

malloc(req_size) ==
    malloc_Root(req_size) \/ malloc_Fit(req_size) \/ malloc_Grow(req_size)

-----------------------------------------------------------------------------
(* Major m, whose last minor is gone, leaves the list.                     *)
Unlinked(m) ==
    LET h == major[m]
    IN  [x \in DOMAIN major \ {m} |->
            IF x = h.prev THEN [major[x] EXCEPT !.next = h.next]
            ELSE IF x = h.next THEN [major[x] EXCEPT !.prev = h.prev]
            ELSE major[x]]

(* Mutant: the best bet is kept although its major is gone.                *)
BetAfter_Kept(m, left, empty) == l_bestBet

(* The best bet after a free in major m, left with that many free units.   *)
BetAfter(m, left, empty) ==
    IF empty
    THEN IF l_bestBet = m THEN NULL ELSE l_bestBet
    ELSE IF l_bestBet # NULL /\ left > (IF l_bestBet = m THEN left ELSE FreeIn(l_bestBet))
    THEN m ELSE l_bestBet

(* The pages of an empty major go back to liballoc_free, which keeps none. *)
free(b) ==
    LET n == Unalign(b.ptr, b.info) - SizeofMinor
        h == minor[n]
        m == h.block
        first == IF h.prev = NULL THEN h.next ELSE major[m].first
    IN  /\ n \in DOMAIN minor
        /\ minor' = [x \in DOMAIN minor \ {n} |->
                        IF x = h.prev THEN [minor[x] EXCEPT !.next = h.next]
                        ELSE IF x = h.next THEN [minor[x] EXCEPT !.prev = h.prev]
                        ELSE minor[x]]
        /\ major' = IF first = NULL THEN Unlinked(m)
                    ELSE [major EXCEPT ![m].usage = @ - Need(h.size), ![m].first = first]
        /\ l_memRoot' = IF first = NULL /\ l_memRoot = m THEN major[m].next ELSE l_memRoot
        /\ l_bestBet' = BetAfter(m, FreeIn(m) + Need(h.size), first = NULL)
        /\ blocks' = blocks \ {b}
        /\ refused' = -1
        /\ UNCHANGED heap_current

Next ==
    \/ \E req_size \in Requests : malloc(req_size)
    \/ \E b \in blocks : free(b)

Spec == Init /\ [][Next]_vars

-----------------------------------------------------------------------------
Units(a, len) == a .. a + len - 1

(* The headers and the blocks in memory, none of them empty.               *)
Pieces ==
    {Units(m, SizeofMajor) : m \in DOMAIN major}
    \cup {Units(n, SizeofMinor) : n \in DOMAIN minor}
    \cup {Units(b.ptr, b.req) : b \in blocks}

(* What kmalloc gave out stays its caller's alone: no block overlaps       *)
(* another, a header of the heap or the end of its major, whichever of the *)
(* cases of malloc placed it and wherever ALIGN moved the pointer.         *)
BlocksAreApart ==
    /\ Cardinality(Pieces) = Cardinality(DOMAIN major) + 2 * Cardinality(blocks)
    /\ \A x, y \in Pieces : x # y => x \cap y = {}
    /\ \A b \in blocks :
          /\ b.ptr % ALIGNMENT = 0
          /\ \E m \in DOMAIN major :
                Units(b.ptr, b.req) \subseteq Units(m, major[m].size)

RECURSIVE MajorsFrom(_)
MajorsFrom(m) == IF m = NULL THEN <<>> ELSE <<m>> \o MajorsFrom(major[m].next)

RECURSIVE MinorsFrom(_)
MinorsFrom(n) == IF n = NULL THEN <<>> ELSE <<n>> \o MinorsFrom(minor[n].next)

RECURSIVE SizesFrom(_)
SizesFrom(n) == IF n = NULL THEN 0 ELSE Need(minor[n].size) + SizesFrom(minor[n].next)

(* The lists malloc and free keep are what they later rely on: from        *)
(* l_memRoot every major is reached once, from a major its minors in the   *)
(* order of their addresses, usage is their sum, no major is empty, and    *)
(* l_bestBet, if any, is a major of the list and not one given up.         *)
ListsAreSound ==
    LET majors == MajorsFrom(l_memRoot)
    IN  /\ ToSet(majors) = DOMAIN major
        /\ \A i \in DOMAIN majors :
              major[majors[i]].prev = IF i = 1 THEN NULL ELSE majors[i - 1]
        /\ l_bestBet \in DOMAIN major \cup {NULL}
        /\ \A m \in DOMAIN major :
              LET minors == MinorsFrom(major[m].first)
              IN  /\ ToSet(minors) = {n \in DOMAIN minor : minor[n].block = m}
                  /\ minors # <<>>
                  /\ \A i \in DOMAIN minors :
                        minor[minors[i]].prev = IF i = 1 THEN NULL ELSE minors[i - 1]
                  /\ \A i \in 2 .. Len(minors) : minors[i - 1] < minors[i]
                  /\ major[m].usage = SizeofMajor + SizesFrom(major[m].first)

(* A run of free units between the headers of a major long enough for a    *)
(* minor of this size.                                                     *)
HasRoom(m, size) ==
    LET taken == UNION {Units(n, Need(minor[n].size)) : n \in DOMAIN minor}
                    \cup Units(m, SizeofMajor)
    IN  \E a \in Units(m, major[m].size - Need(size) + 1) :
           Units(a, Need(size)) \cap taken = {}

(* kmalloc returns NULL only when no major has the room in one piece and   *)
(* the page allocator has no pages for another: starting at the best bet   *)
(* passes over nothing.                                                    *)
MallocTriesEverywhere ==
    refused >= 0 =>
       /\ \A m \in DOMAIN major : ~HasRoom(m, Adjusted(refused))
       /\ ~CanGrow(Adjusted(refused))

-----------------------------------------------------------------------------
(* liballoc_1_1.h on liballoc_free: "0 if the memory was successfully      *)
(* freed."  With nothing allocated, what a fresh heap can give it gives.   *)
FreedPagesComeBack ==
    blocks = {} /\ refused >= 0 =>
       KERNEL_HEAP_START + PagesFor(Adjusted(refused)) * PAGE_SIZE > KERNEL_HEAP_END
=============================================================================
