---------------------------- MODULE AddressSpace ----------------------------
(***************************************************************************)
(* arch/i686/paging.c and the memory half of syscall.c: how spawn, exec,   *)
(* sbrk and exit build, extend and tear down a process's page tables out   *)
(* of the frames of proc/pmm.c.  Addresses are small numbers; a page and a *)
(* page table cover PageSize and TablePages * PageSize of them.  Every     *)
(* handler runs with interrupts off, so each is one step.                  *)
(***************************************************************************)
EXTENDS Integers, Sequences

CONSTANTS Proc,                    \* the processes that may exist
          FrameCount,              \* PMM_FRAME_COUNT
          PageSize, TablePages,
          USER_REGION_START,       \* lowest user address
          USER_STACK_BASE_VADDR,   \* lowest address of the stack
          USER_STACK_PAGES,
          Programs,                \* executable files that spawn and exec load
          Increments               \* arguments of sbrk

(* What memlayout.h fixes, and what the ELF header and the caller may ask. *)
ASSUME SpaceAssumption ==
    /\ FrameCount \in Nat /\ PageSize \in Nat \ {0} /\ TablePages \in Nat \ {0}
    /\ USER_STACK_PAGES \in Nat \ {0}
    /\ USER_REGION_START \in Nat /\ USER_REGION_START % PageSize = 0
    /\ USER_STACK_BASE_VADDR \in Nat /\ USER_STACK_BASE_VADDR % PageSize = 0
    /\ USER_REGION_START <= USER_STACK_BASE_VADDR
    /\ \A prog \in Programs :
          /\ prog.frames \in Nat /\ prog.valid \in BOOLEAN
          /\ prog.segments \in Seq([vaddr : Nat, memsz : Nat])
    /\ Increments \subseteq Int

VARIABLES used,                    \* frame_bitmap: the frames marked used
          dir,                     \* each process's page directory, or NoDir
          brk,                     \* task_t.user_brk and user_brk_min
          result                   \* the last call and whether it succeeded

spaceVars == <<used, dir, brk, result>>

None == -1
NoDir == [pd |-> None]
Frame == 0 .. FrameCount - 1

PageOf(a) == a \div PageSize
Ceil(a) == (a + PageSize - 1) \div PageSize      \* first page at or above a
TableOf(v) == v \div TablePages
StackBase == PageOf(USER_STACK_BASE_VADDR)
Page == PageOf(USER_REGION_START) .. StackBase + USER_STACK_PAGES - 1
Table == {TableOf(v) : v \in Page}
Guard == StackBase - 1                           \* USER_STACK_GUARD_VADDR

(* What load_elf_into and sbrk work on: the bitmap, one directory, and     *)
(* whether everything so far succeeded.                                    *)
Memory(u, d) == [used |-> u, dir |-> d, ok |-> TRUE]
Fails(m) == [m EXCEPT !.ok = FALSE]

FirstFree(u) ==
    IF Frame \subseteq u THEN None
    ELSE CHOOSE f \in Frame \ u : \A g \in Frame \ u : f <= g

FirstRun(u, count) ==
    LET starts == {f \in 0 .. FrameCount - count : (f .. f + count - 1) \cap u = {}}
    IN  IF starts = {} THEN None
        ELSE CHOOSE f \in starts : \A g \in starts : f <= g

(* Mutant: a page table is taken from the pool without being marked used.  *)
paging_map_page_Unmarked(m, v, f) ==
    LET t == TableOf(v)
        table == IF m.dir.pt[t] # None THEN m.dir.pt[t] ELSE FirstFree(m.used)
    IN  IF table = None THEN Fails(m)
        ELSE [m EXCEPT !.dir.pt[t] = table, !.dir.pte[v] = f]

(* Map page v to frame f, with a new page table if there is none.          *)
paging_map_page(m, v, f) ==
    LET t == TableOf(v)
        table == IF m.dir.pt[t] # None THEN m.dir.pt[t] ELSE FirstFree(m.used)
    IN  IF table = None THEN Fails(m)
        ELSE [m EXCEPT !.used = @ \cup {table},
                       !.dir.pt[t] = table, !.dir.pte[v] = f]

(* A zeroed frame for page v: sbrk gives it back when mapping fails, the   *)
(* loader does not.                                                        *)
MapFresh(m, v, gives_back) ==
    LET f == FirstFree(m.used)
        n == paging_map_page([m EXCEPT !.used = @ \cup {f}], v, f)
    IN  IF f = None THEN Fails(m)
        ELSE IF ~n.ok /\ gives_back THEN [n EXCEPT !.used = @ \ {f}]
        ELSE n

(* One page of a segment, the stack or the heap: a segment's page that is  *)
(* already there is kept.                                                  *)
MapPage(m, v, use) ==
    IF ~m.ok \/ (use = "segment" /\ m.dir.pte[v] # None) THEN m
    ELSE MapFresh(m, v, use = "heap")

(* The pages from one up to another, until one cannot be mapped.           *)
MapPages(m, from, to, use) ==
    LET after[i \in 0 .. to - from] ==
            IF i = 0 THEN m ELSE MapPage(after[i - 1], from + i - 1, use)
    IN  after[to - from]

InUserRegion(seg) ==
    /\ seg.vaddr >= USER_REGION_START
    /\ seg.vaddr + seg.memsz <= USER_STACK_BASE_VADDR

LoadSegment(m, seg) ==
    IF ~m.ok THEN m
    ELSE IF ~InUserRegion(seg) THEN Fails(m)
    ELSE MapPages(m, PageOf(seg.vaddr), Ceil(seg.vaddr + seg.memsz), "segment")

LoadSegments(m, segs) ==
    LET after[i \in 0 .. Len(segs)] ==
            IF i = 0 THEN m ELSE LoadSegment(after[i - 1], segs[i])
    IN  after[Len(segs)]

(* The first address after the segments, where the heap starts.            *)
EndOf(seg) == Ceil(seg.vaddr + seg.memsz) * PageSize

UserEnd(prog) ==
    LET end[i \in 0 .. Len(prog.segments)] ==
            IF i = 0 THEN USER_REGION_START
            ELSE IF EndOf(prog.segments[i]) > end[i - 1] THEN EndOf(prog.segments[i])
            ELSE end[i - 1]
    IN  end[Len(prog.segments)]

(* The file is read into a run of temporary frames, given back at every    *)
(* exit; a file that is no valid executable is refused after that.         *)
load_elf_into(m, prog) ==
    LET first == FirstRun(m.used, prog.frames)
        temp  == first .. first + prog.frames - 1
        read  == [m EXCEPT !.used = @ \cup temp]
        segs  == LoadSegments(read, prog.segments)
        stack == MapPages(segs, StackBase, StackBase + USER_STACK_PAGES, "stack")
        done  == IF prog.valid THEN stack ELSE Fails(read)
    IN  IF first = None THEN Fails(m)
        ELSE [done EXCEPT !.used = @ \ temp]

EmptyDir(f) == [pd |-> f,
                pt |-> [t \in Table |-> None],
                pte |-> [v \in Page |-> None]]

(* Mutant: the page tables of the address space are not given back.        *)
Destroyed_KeepsTables(u, d) == u \ ({d.pd} \cup {d.pte[v] : v \in Page})

(* paging_destroy_address_space: every frame the directory still names.    *)
Destroyed(u, d) ==
    u \ ({d.pd} \cup {d.pt[t] : t \in Table} \cup {d.pte[v] : v \in Page})

SpaceInit ==
    /\ used = {}
    /\ dir = [p \in Proc |-> NoDir]
    /\ brk = [p \in Proc |-> [min |-> 0, cur |-> 0]]
    /\ result = [call |-> "none", ok |-> TRUE]

(* task_create_user_elf: a new directory, loaded; destroyed again when the *)
(* load fails.                                                             *)
spawn(p, prog) ==
    /\ dir[p] = NoDir
    /\ LET pd == FirstFree(used)
           m  == load_elf_into(Memory(used \cup {pd}, EmptyDir(pd)), prog)
       IN  \/ /\ pd = None
              /\ result' = [call |-> "spawn", ok |-> FALSE]
              /\ UNCHANGED <<used, dir, brk>>
           \/ /\ pd # None /\ ~m.ok
              /\ used' = Destroyed(m.used, m.dir)
              /\ result' = [call |-> "spawn", ok |-> FALSE]
              /\ UNCHANGED <<dir, brk>>
           \/ /\ pd # None /\ m.ok
              /\ used' = m.used
              /\ dir' = [dir EXCEPT ![p] = m.dir]
              /\ brk' = [brk EXCEPT ![p] = [min |-> UserEnd(prog),
                                            cur |-> UserEnd(prog)]]
              /\ result' = [call |-> "spawn", ok |-> TRUE]

(* The image is loaded over the caller's own directory.                    *)
sys_do_exec(p, prog) ==
    /\ dir[p] # NoDir
    /\ LET m == load_elf_into(Memory(used, dir[p]), prog) IN
       /\ used' = m.used
       /\ dir' = [dir EXCEPT ![p] = m.dir]
       /\ brk' = IF m.ok THEN [brk EXCEPT ![p] = [min |-> UserEnd(prog),
                                                  cur |-> UserEnd(prog)]]
                 ELSE brk
       /\ result' = [call |-> "exec", ok |-> m.ok]

(* Mutant: the partly used page below the new break is not mapped.         *)
Extended_Floor(m, old, new) == MapPages(m, Ceil(old), PageOf(new), "heap")

Extended(m, old, new) == MapPages(m, Ceil(old), Ceil(new), "heap")

sys_do_sbrk(p, increment) ==
    /\ dir[p] # NoDir
    /\ LET old == brk[p].cur
           new == old + increment
           m   == Extended(Memory(used, dir[p]), old, new)
       IN  \/ /\ increment < 0 \/ new >= USER_STACK_BASE_VADDR
              /\ result' = [call |-> "sbrk", ok |-> FALSE]
              /\ UNCHANGED <<used, dir, brk>>
           \/ /\ increment >= 0 /\ new < USER_STACK_BASE_VADDR
              /\ used' = m.used
              /\ dir' = [dir EXCEPT ![p] = m.dir]
              /\ brk' = IF m.ok THEN [brk EXCEPT ![p].cur = new] ELSE brk
              /\ result' = [call |-> "sbrk", ok |-> m.ok]

(* task_terminate: the address space goes with the process.                *)
exit(p) ==
    /\ dir[p] # NoDir
    /\ used' = Destroyed(used, dir[p])
    /\ dir' = [dir EXCEPT ![p] = NoDir]
    /\ brk' = [brk EXCEPT ![p] = [min |-> 0, cur |-> 0]]
    /\ result' = [call |-> "exit", ok |-> TRUE]

SpaceNext ==
    \E p \in Proc :
        \/ \E prog \in Programs : spawn(p, prog) \/ sys_do_exec(p, prog)
        \/ \E increment \in Increments : sys_do_sbrk(p, increment)
        \/ exit(p)

SpaceSpec == SpaceInit /\ [][SpaceNext]_spaceVars
-----------------------------------------------------------------------------
Alive == {p \in Proc : dir[p] # NoDir}

(* Everywhere process p's directory names a frame.                         *)
Names(p) == ({"pd"} \X {0}) \cup ({"pt"} \X Table) \cup ({"pte"} \X Page)

Named(p, n) ==
    CASE n[1] = "pd"  -> dir[p].pd
      [] n[1] = "pt"  -> dir[p].pt[n[2]]
      [] n[1] = "pte" -> dir[p].pte[n[2]]

FramesOf(p) ==
    IF dir[p] = NoDir THEN {}
    ELSE ({dir[p].pd} \cup {dir[p].pt[t] : t \in Table} \cup {dir[p].pte[v] : v \in Page}) \ {None}

Leaked == used \ UNION {FramesOf(p) : p \in Proc}

SpaceTypeOK ==
    /\ used \subseteq Frame
    /\ dir \in [Proc -> {NoDir} \cup
                  [pd : Frame, pt : [Table -> Frame \cup {None}],
                   pte : [Page -> Frame \cup {None}]]]
    /\ \A p \in Proc : brk[p].min <= brk[p].cur

(* A frame that a page directory names, as directory, page table or page,  *)
(* is marked used, and no other directory, nor another place of the same   *)
(* one, names it: spawn, exec and sbrk of several processes never alias    *)
(* each other's memory, even when one runs out of frames half way.         *)
MemoryIsPrivate ==
    \A p, q \in Alive : \A n \in Names(p), k \in Names(q) :
        Named(p, n) # None =>
            /\ Named(p, n) \in used
            /\ Named(p, n) = Named(q, k) => p = q /\ n = k

(* Everything below a live process's break is mapped, and so is its stack: *)
(* what sbrk and the loader said was there can be touched without a fault. *)
HeapIsMapped ==
    \A p \in Alive :
        /\ \A v \in PageOf(brk[p].min) .. Ceil(brk[p].cur) - 1 :
              dir[p].pte[v] # None
        /\ \A v \in StackBase .. StackBase + USER_STACK_PAGES - 1 :
              dir[p].pte[v] # None

OwnerOf(f) ==
    LET owners == {p \in Proc : f \in FramesOf(p)}
    IN  IF f \notin used THEN [kind |-> "free"]
        ELSE IF owners = {} THEN [kind |-> "lost"]
        ELSE [kind |-> "owned", by |-> CHOOSE p \in owners : TRUE]

Ownership == INSTANCE FrameOwnership WITH owner <- [f \in Frame |-> OwnerOf(f)]

(* Over time, too: a frame never passes from one process to another except *)
(* through the free pool, a process's frames are freed only when it ends,  *)
(* and then all of them at once, and a spawn that succeeds loses none      *)
(* (task_terminate, task_create_user_elf, sys_do_exec, sys_do_sbrk).       *)
FramesChangeHandsOnlyWhenFree == Ownership!Spec

(* What memlayout.h says of USER_STACK_GUARD_VADDR: it must remain         *)
(* unmapped, so that a stack overflow faults.                              *)
GuardPageUnmapped == \A p \in Alive : dir[p].pte[Guard] = None

(* What paging.c says of paging_destroy_address_space: it frees the frames *)
(* of the process, so none is used when no process is left.                *)
NothingUsedWhenAllGone == Alive = {} => used = {}

(* What ISSUES.md 2 says of a failed paging_map_page: its callers handle   *)
(* it, so a spawn that fails leaves the free frames as it found them.      *)
FailedSpawnLosesNothing ==
    [][result'.call = "spawn" /\ ~result'.ok => Leaked' \subseteq Leaked]_spaceVars
=============================================================================
