------------------------------- MODULE Fat16 --------------------------------
(***************************************************************************)
(* fs/fat16.c: the FAT16 driver.  The volume is the file allocation table, *)
(* the fixed root directory and the data clusters; on top of it are the    *)
(* open handles and the readdir cache.  Every call runs with interrupts    *)
(* off, so it is one step; a failed call that changes nothing is a         *)
(* stuttering step.                                                        *)
(*                                                                         *)
(* A sector is SectorSize cells of 32 bytes, the size of a directory       *)
(* entry.  File sizes and positions are counted in cells, so directories   *)
(* and files share the clusters as they do on disk.  The copies of the FAT *)
(* and the cache of FAT sectors are in FatTable; here a transfer does not  *)
(* fail.                                                                   *)
(***************************************************************************)
EXTENDS Integers, Sequences, SequencesExt, FiniteSets, Functions, TLC

CONSTANTS ShortNames,         \* names with an 8.3 form, letter case ignored
          LongNames,          \* names without one
          Chunks,             \* entries of 13 characters a long name takes
          FullNames,          \* long names whose last entry is full
          Base,               \* what a long name's aliases have before "~N"
          MaxSuffix,          \* 9: suffixes tried
          Paths,              \* the absolute paths callers use
          DirPaths,           \* those they make and remove directories at
          Listed,             \* the directories they list
          OpenFlags,          \* [access, creat, trunc, append] callers use
          Payloads,           \* what callers write
          Lengths,            \* lengths callers pass to read and ftruncate
          ClusterCount, SectorSize, SectorsPerCluster, RootSectors,
          MaxOpen,            \* FAT16_MAX_OPEN
          RdcacheMax,         \* RDCACHE_MAX
          MaxSize,            \* bound: file sizes reached
          Avoid               \* legal uses the callers keep away from, see below

VARIABLES fat,                \* the FAT entry of each cluster
          disk,               \* sectors of the root directory and the data area
          g_open,
          rdcache

vars == <<fat, disk, g_open, rdcache>>

-----------------------------------------------------------------------------
(* Geometry.  Sector 0 stands for "no sector": the boot sector is there.   *)

Cluster == 2 .. ClusterCount + 1
Unused == 0
Eoc == ClusterCount + 2                \* FAT16_EOC and all of 0xFFF8..0xFFFF
ClusterSize == SectorsPerCluster * SectorSize
RootLba == 1
DataLba == RootLba + RootSectors
Lba == RootLba .. DataLba + ClusterCount * SectorsPerCluster - 1
Offset == 0 .. SectorSize - 1
Position == [lba : Lba, off : Offset]
Nowhere == [lba |-> 0, off |-> 0]
Handle == 0 .. MaxOpen - 1

First(S) == CHOOSE i \in S : \A j \in S : i <= j
Lesser(a, b) == IF a <= b THEN a ELSE b

cluster_to_lba(c) == DataLba + (c - 2) * SectorsPerCluster
SectorsOf(c) == cluster_to_lba(c) .. cluster_to_lba(c) + SectorsPerCluster - 1

(* The i-th cell, from 1, of the sectors from lba on.                      *)
CellFrom(lba, i) == [lba |-> lba + (i - 1) \div SectorSize, off |-> (i - 1) % SectorSize]
RootCells == [i \in 1 .. RootSectors * SectorSize |-> CellFrom(RootLba, i)]
ClusterCells == [c \in Cluster |-> [i \in 1 .. ClusterSize |-> CellFrom(cluster_to_lba(c), i)]]

-----------------------------------------------------------------------------
(* Cells.  A zeroed cell ends a directory.  A deleted entry keeps all but  *)
(* its first name byte.  A cell that is neither reads as an entry no path  *)
(* names.                                                                  *)

Zero == [tag |-> "zero"]
Byte(v) == [tag |-> "byte", val |-> v]
Lfn(n, k) == [tag |-> "lfn", name |-> n, seq |-> k, last |-> k = Chunks[n]]
Entry(n, d, c) ==
    [tag |-> "short", live |-> TRUE, name |-> n, dir |-> d, cluster |-> c, size |-> 0]
Garbage == [tag |-> "garbage"]

(* 8.3 names: a short name's own, an alias, "." and "..", and the eleven   *)
(* blanks fat16_resolve_path leaves for a long name.                       *)
Short(n) == <<n, 0>>
Alias(n, k) == <<Base[n], k>>
Dot == <<".", 0>>
DotDot == <<"..", 0>>
Blanks == <<" ", 0>>
Unmatched == <<"", 0>>

IsShort(e) == e.tag = "short"
IsLive(e) == IsShort(e) /\ e.live
IsDeleted(e) == IsShort(e) /\ ~e.live
IsDir(e) == IsShort(e) /\ e.dir
IsDots(e) == IsLive(e) /\ e.name \in {Dot, DotDot}

(* name[0] = 0xE5                                                          *)
Deleted(e) == [(IF IsShort(e) THEN e ELSE Entry(Blanks, FALSE, Unused)) EXCEPT !.live = FALSE]

-----------------------------------------------------------------------------
(* The volume, as a value the helpers take and return.                     *)

Volume == [fat |-> fat, disk |-> disk]
CellAt(v, p) == v.disk[p.lba][p.off]
Put(v, p, e) == [v EXCEPT !.disk[p.lba][p.off] = e]
Link(v, c, n) == [v EXCEPT !.fat[c] = n]

RECURSIVE Walk(_, _, _)
(* The clusters reached from c, at most n of them.                         *)
Walk(f, c, n) ==
    IF c \notin Cluster \/ n = 0 THEN <<>> ELSE <<c>> \o Walk(f, f[c], n - 1)

ChainFrom(v, c) == Walk(v.fat, c, ClusterCount + 2)
CellsOfChain(chain) == FlattenSeq([i \in DOMAIN chain |-> ClusterCells[chain[i]]])

(* fat16_alloc_cluster takes the first free cluster and zeroes it.         *)
FreeClusters(v) == {c \in Cluster : v.fat[c] = Unused}
IsFull(v) == FreeClusters(v) = {}
NextFree(v) == First(FreeClusters(v))
(* Mutant: a new cluster keeps its old content.                            *)
Zeroed_Not(d, c) == d

Zeroed(d, c) ==
    [l \in Lba |-> IF l \in SectorsOf(c) THEN [o \in Offset |-> Zero] ELSE d[l]]
(* Mutant: the cluster taken is not marked.                                *)
fat16_alloc_cluster_Unmarked(v) == [v EXCEPT !.disk = Zeroed(@, NextFree(v))]

fat16_alloc_cluster(v) ==
    LET c == NextFree(v)
    IN  [fat |-> [v.fat EXCEPT ![c] = Eoc], disk |-> Zeroed(v.disk, c)]

fat16_free_chain(v, c) ==
    LET freed == Range(ChainFrom(v, c))
    IN  [v EXCEPT !.fat = [k \in Cluster |-> IF k \in freed THEN Unused ELSE @[k]]]

RECURSIVE Extend(_, _, _)
(* i links on from c, adding clusters at the end; cluster 0 if none is     *)
(* left.                                                                   *)
Extend(v, c, i) ==
    CASE i = 0                -> [vol |-> v, cluster |-> c]
      [] v.fat[c] \in Cluster -> Extend(v, v.fat[c], i - 1)
      [] IsFull(v)            -> [vol |-> v, cluster |-> 0]
      [] OTHER -> LET n == NextFree(v)
                  IN  Extend(Link(Link(fat16_alloc_cluster(v), c, n), n, Eoc), n, i - 1)

fat16_ensure_cluster_for_index(v, first, idx) ==
    CASE first \in Cluster -> Extend(v, first, idx) @@ [first |-> first]
      [] IsFull(v)         -> [vol |-> v, cluster |-> 0, first |-> first]
      [] OTHER -> LET n == NextFree(v)
                  IN  Extend(fat16_alloc_cluster(v), n, idx) @@ [first |-> n]

fat16_read_file(v, first, pos, len) ==
    LET cells == CellsOfChain(ChainFrom(v, first))
        upto == Lesser(pos + len, Len(cells))
    IN  [i \in 1 .. (IF upto > pos THEN upto - pos ELSE 0) |-> CellAt(v, cells[pos + i])]

-----------------------------------------------------------------------------
(* Directories.  A directory is 0, the root, or its first cluster.         *)

PositionsOf(v, dir) ==
    IF dir = 0 THEN RootCells ELSE CellsOfChain(ChainFrom(v, dir))

(* pending_lfn, the text gathered from the LFN entries before an entry:    *)
(* which name each 13 characters come from, where the text is cut, and     *)
(* whether it is non-empty.  The buffer is on the stack and only its first *)
(* byte is set when it is reset.                                           *)
MaxChunks == 2
NoText == [seq |-> 0, text |-> [k \in 1 .. MaxChunks |-> ""], shown |-> FALSE]
Forgotten(p) == [p EXCEPT !.seq = 0, !.shown = FALSE]
Gathered(p, e) ==
    LET n == IF e.last THEN e.seq ELSE p.seq
    IN  [seq |-> n, text |-> [p.text EXCEPT ![e.seq] = e.name],
         shown |-> n > 0 /\ (e.seq = 1 \/ (p.shown /\ ~e.last))]

(* strcmp(pending_lfn, n) == 0.  The end of a name that does not fill its  *)
(* last entry is not copied: the compare reads a byte the call has not     *)
(* written, which ends the name only by luck.                              *)
Spells(p, n, lucky) ==
    /\ p.shown /\ p.seq >= Chunks[n]
    /\ \A k \in 1 .. Chunks[n] : p.text[k] = n
    /\ lucky \/ (n \in FullNames /\ p.seq = Chunks[n])

(* One scan of a directory for an entry with 8.3 name n83 or long name n   *)
(* ("" for none): where it is, the first free entry before it, and the     *)
(* text pending there.  fat16_lookup_in_dir over fat16_scan_dir_sector.    *)
ScanStart == [hit |-> Nowhere, free |-> Nowhere, pending |-> NoText, over |-> FALSE]
FreeAt(a, p) == IF a.free = Nowhere THEN p ELSE a.free

ScanEntry(v, a, p, n83, n, lucky) ==
    LET e == CellAt(v, p)
        matched == IsLive(e) /\ (e.name = n83 \/ (n \in LongNames /\ Spells(a.pending, n, p \in lucky)))
    IN  CASE a.over          -> a
          [] e = Zero        -> [a EXCEPT !.free = FreeAt(a, p), !.over = TRUE]
          [] IsDeleted(e)    -> [a EXCEPT !.free = FreeAt(a, p), !.pending = Forgotten(@)]
          [] e.tag = "lfn"   -> [a EXCEPT !.pending = Gathered(@, e)]
          [] matched         -> [a EXCEPT !.hit = p, !.over = TRUE]
          [] OTHER           -> [a EXCEPT !.pending = Forgotten(@)]

fat16_lookup_in_dir(v, dir, n83, n, lucky) ==
    FoldLeft(LAMBDA a, p : ScanEntry(v, a, p, n83, n, lucky), ScanStart, PositionsOf(v, dir))

Lookup(v, dir, n, lucky) ==
    fat16_lookup_in_dir(v, dir, IF n \in ShortNames THEN Short(n) ELSE Unmatched, n, lucky)

(* fat16_resolve_path: the parent is None when a directory on the way is   *)
(* missing, and then the caller's copy of it is never written.             *)
None == -1
RECURSIVE ResolveFrom(_, _, _, _)
ResolveFrom(v, dir, path, lucky) ==
    LET a == Lookup(v, dir, Head(path), lucky)
    IN  IF Len(path) = 1
        THEN [parent |-> dir, hit |-> a.hit, free |-> a.free]
        ELSE IF a.hit # Nowhere /\ IsDir(CellAt(v, a.hit))
             THEN ResolveFrom(v, CellAt(v, a.hit).cluster, Tail(path), lucky)
             ELSE [parent |-> None, hit |-> Nowhere, free |-> Nowhere]

fat16_resolve_path(v, path, lucky) == ResolveFrom(v, 0, path, lucky)

(* The entries whose long name is compared with an unwritten byte.         *)
Doubtful ==
    {p \in Position : p.off > 0 /\ IsLive(CellAt(Volume, p))
                     /\ disk[p.lba][p.off - 1].tag = "lfn"
                     /\ disk[p.lba][p.off - 1].name \notin FullNames}

(* The alias fat16_vfs_open and fat16_vfs_rename give a long name: the     *)
(* first suffix not in the directory, 0 when all are taken.                *)
FreeSuffix(v, dir, n) ==
    LET free == {k \in 1 .. MaxSuffix :
                    fat16_lookup_in_dir(v, dir, Alias(n, k), "", {}).hit = Nowhere}
    IN  IF free = {} THEN 0 ELSE First(free)

(* Entry e written for name n from position p: after the LFN entries if    *)
(* they all fit in the sector, alone otherwise.                            *)
EntryPosition(p, n) ==
    IF n \in LongNames /\ p.off + Chunks[n] + 1 <= SectorSize
    THEN [p EXCEPT !.off = @ + Chunks[n]] ELSE p

lfn_write_entries(v, p, n) ==
    [v EXCEPT !.disk[p.lba] = [o \in Offset |->
        IF o >= p.off /\ o < EntryPosition(p, n).off THEN Lfn(n, o - p.off + 1) ELSE @[o]]]

WriteEntry(v, p, n, e) == Put(lfn_write_entries(v, p, n), EntryPosition(p, n), e)

(* The LFN entries directly before a position, in its sector.              *)
fat16_delete_preceding_lfn(v, p) ==
    [v EXCEPT !.disk[p.lba] = [o \in Offset |->
        IF o < p.off /\ \A k \in o .. p.off - 1 : @[k].tag = "lfn" THEN Deleted(@[o]) ELSE @[o]]]

-----------------------------------------------------------------------------
(* What callers keep away from.  Each use is legal; the runs say what      *)
(* holds without it, and which promise it breaks.                          *)

IsOpenAt(p) == \E h \in Handle : g_open[h].in_use /\ g_open[h].dirent = p

(* A file is opened while open, or removed or replaced while open.         *)
Shares(p) == "sharing" \in Avoid /\ IsOpenAt(p)
(* ftruncate lengthens a file that has a second cluster.                   *)
GrowsLong(f, len) == "grow" \in Avoid /\ len > f.size /\ f.size > ClusterSize
(* rename of a file to its own name.                                       *)
RenamesItself(r, n) == "self" \in Avoid /\ r.hit = n.hit
(* rename into a directory that is not there.                              *)
RenamesNowhere(n) == "nowhere" \in Avoid /\ n.parent = None
(* rename of a directory to a place below the root.                        *)
Nests(r, n) == "nest" \in Avoid /\ n.parent > 0 /\ IsDir(CellAt(Volume, r.hit))

-----------------------------------------------------------------------------
(* Handles.                                                                *)

O_RDONLY == 0
O_WRONLY == 1

Closed == [in_use |-> FALSE, access |-> 0, append |-> FALSE, first_cluster |-> 0,
           size |-> 0, pos |-> 0, dirent |-> Nowhere]
FreeHandles == {h \in Handle : ~g_open[h].in_use}

fat16_update_dirent(v, f) ==
    LET e == CellAt(v, f.dirent)
    IN  Put(v, f.dirent, IF IsShort(e)
                         THEN [e EXCEPT !.cluster = f.first_cluster, !.size = f.size, !.dir = FALSE]
                         ELSE Garbage)

Becomes(v) == fat' = v.fat /\ disk' = v.disk
NoListing == [valid |-> FALSE, path |-> <<>>, names |-> <<>>]
(* Mutant: the cache is kept.                                              *)
rdcache_invalidate_Not == UNCHANGED rdcache

rdcache_invalidate == rdcache' = NoListing

(* The volume after the entry for a new file is written; the directory has *)
(* room and, for a long name, an alias is left.                            *)
Created(v, r, n) ==
    WriteEntry(v, r.free, n,
               Entry(IF n \in ShortNames THEN Short(n) ELSE Alias(n, FreeSuffix(v, r.parent, n)),
                     FALSE, Unused))

Truncated(v, p) ==
    Put(fat16_free_chain(v, CellAt(v, p).cluster), p,
        [CellAt(v, p) EXCEPT !.cluster = Unused, !.size = 0])

(* The file is created and cut before a handle is looked for, so an open   *)
(* that finds no handle has done both.                                     *)
OpenedFile(v, p, fl) ==
    LET w == IF fl.trunc /\ fl.access # O_RDONLY THEN Truncated(v, p) ELSE v
    IN  /\ Becomes(w)
        /\ g_open' = IF FreeHandles = {} THEN g_open
                     ELSE [g_open EXCEPT ![First(FreeHandles)] =
                             [in_use |-> TRUE, access |-> fl.access, append |-> fl.append,
                              first_cluster |-> CellAt(w, p).cluster, size |-> CellAt(w, p).size,
                              pos |-> 0, dirent |-> p]]

fat16_vfs_open_existing(path, lucky) ==
    LET r == fat16_resolve_path(Volume, path, lucky)
    IN  /\ r.hit # Nowhere /\ ~IsDir(CellAt(Volume, r.hit))
        /\ ~Shares(r.hit)
        /\ \E fl \in OpenFlags : OpenedFile(Volume, r.hit, fl)
        /\ UNCHANGED rdcache

fat16_vfs_open_new(path, lucky) ==
    LET r == fat16_resolve_path(Volume, path, lucky)
        n == Last(path)
    IN  /\ r.hit = Nowhere /\ r.free # Nowhere
        /\ rdcache_invalidate
        /\ \E fl \in OpenFlags :
              /\ fl.creat
              /\ IF n \in ShortNames \/ FreeSuffix(Volume, r.parent, n) > 0
                 THEN OpenedFile(Created(Volume, r, n), EntryPosition(r.free, n), fl)
                 ELSE UNCHANGED <<fat, disk, g_open>>

fat16_vfs_close(h) ==
    /\ g_open[h].in_use
    /\ g_open' = [g_open EXCEPT ![h] = Closed]
    /\ UNCHANGED <<fat, disk, rdcache>>

(* Reading moves the position by what the chain really had.                *)
fat16_vfs_read(h, len) ==
    LET f == g_open[h]
        n == Len(fat16_read_file(Volume, f.first_cluster, f.pos, Lesser(len, f.size - f.pos)))
    IN  /\ f.in_use /\ f.access # O_WRONLY /\ f.pos < f.size
        /\ g_open' = [g_open EXCEPT ![h].pos = @ + n]
        /\ UNCHANGED <<fat, disk, rdcache>>

RECURSIVE WriteLoop(_, _, _, _)
(* The cells of data put from pos on, until the volume is full.            *)
WriteLoop(v, first, pos, data) ==
    IF data = <<>> THEN [vol |-> v, first |-> first, pos |-> pos]
    ELSE LET e == fat16_ensure_cluster_for_index(v, first, pos \div ClusterSize)
         IN  IF e.cluster = 0 THEN [vol |-> e.vol, first |-> e.first, pos |-> pos]
             ELSE WriteLoop(Put(e.vol, ClusterCells[e.cluster][(pos % ClusterSize) + 1], Byte(Head(data))),
                            e.first, pos + 1, Tail(data))

fat16_vfs_write(h, data) ==
    LET f == g_open[h]
        start == IF f.append THEN f.size ELSE f.pos
        w == WriteLoop(Volume, f.first_cluster, start, data)
        g == [f EXCEPT !.first_cluster = w.first, !.pos = w.pos,
                       !.size = IF w.pos > f.size THEN w.pos ELSE f.size]
    IN  /\ f.in_use /\ f.access # O_RDONLY
        /\ start + Len(data) <= MaxSize
        /\ g_open' = [g_open EXCEPT ![h] = g]
        /\ Becomes(IF w.pos > start THEN fat16_update_dirent(w.vol, g) ELSE w.vol)
        /\ UNCHANGED rdcache

(* The three origins and the clamping reach every position of the file.    *)
fat16_vfs_seek(h, p) ==
    /\ g_open[h].in_use /\ p \in 0 .. g_open[h].size
    /\ g_open' = [g_open EXCEPT ![h].pos = p]
    /\ UNCHANGED <<fat, disk, rdcache>>

(* The last cluster kept by a file cut to len cells.                       *)
LastKept(v, first, len) ==
    LET chain == ChainFrom(v, first)
    IN  chain[Lesser((len - 1) \div ClusterSize + 1, Len(chain))]

Shrunk(v, first, len) ==
    IF len = 0 THEN fat16_free_chain(v, first)
    ELSE LET c == LastKept(v, first, len)
         IN  fat16_free_chain(Link(v, c, Eoc), v.fat[c])

(* The cells zeroed when a file grows.  The sector is counted from the     *)
(* start of the file and added to the last cluster's first sector.         *)
StaleCells(v, first, old, len) ==
    LET base == cluster_to_lba(LastKept(v, first, old))
        cl_end == ((old - 1) \div ClusterSize + 1) * ClusterSize
    IN  {[lba |-> base + p \div SectorSize, off |-> p % SectorSize] :
            p \in old .. Lesser(cl_end, len) - 1}

ZeroTail(v, first, old, len) ==
    IF old = 0 THEN v
    ELSE LET stale == StaleCells(v, first, old, len)
         IN  [v EXCEPT !.disk = [l \in Lba |-> [o \in Offset |->
                IF [lba |-> l, off |-> o] \in stale THEN Zero ELSE @[l][o]]]]

fat16_vfs_ftruncate_shrink(h, len) ==
    LET f == g_open[h]
        g == [f EXCEPT !.first_cluster = IF len = 0 THEN Unused ELSE @,
                       !.size = len, !.pos = Lesser(@, len)]
    IN  /\ f.in_use /\ f.access # O_RDONLY /\ len < f.size
        /\ g_open' = [g_open EXCEPT ![h] = g]
        /\ Becomes(fat16_update_dirent(Shrunk(Volume, f.first_cluster, len), g))
        /\ UNCHANGED rdcache

(* When the volume fills up the clusters already added stay with the       *)
(* handle, and the directory entry is not written.                         *)
fat16_vfs_ftruncate_grow(h, len) ==
    LET f == g_open[h]
        e == fat16_ensure_cluster_for_index(Volume, f.first_cluster, (len - 1) \div ClusterSize)
        g == [f EXCEPT !.first_cluster = e.first, !.size = IF e.cluster = 0 THEN @ ELSE len]
    IN  /\ f.in_use /\ f.access # O_RDONLY /\ len > f.size
        /\ ~GrowsLong(f, len)
        /\ g_open' = [g_open EXCEPT ![h] = g]
        /\ Becomes(IF e.cluster = 0 THEN e.vol
                   ELSE fat16_update_dirent(ZeroTail(e.vol, e.first, f.size, len), g))
        /\ UNCHANGED rdcache

-----------------------------------------------------------------------------
(* Directory operations.  All of them drop the readdir cache first, so a   *)
(* call that fails may still do that.                                      *)

Removed(v, p) == Put(fat16_free_chain(v, CellAt(v, p).cluster), p, Deleted(CellAt(v, p)))

fat16_vfs_unlink(path, lucky) ==
    LET p == fat16_resolve_path(Volume, path, lucky).hit
    IN  /\ ~Shares(p)
        /\ Becomes(IF p = Nowhere \/ IsDir(CellAt(Volume, p)) THEN Volume ELSE Removed(Volume, p))
        /\ rdcache_invalidate
        /\ UNCHANGED g_open

(* The new directory's first sector is written whole; a long name leaves   *)
(* its 8.3 name blank.                                                     *)
MadeDir(v, r, n) ==
    LET c == NextFree(v)
        w == fat16_alloc_cluster(v)
        dots == [o \in Offset |-> CASE o = 0 -> Entry(Dot, TRUE, c)
                                    [] o = 1 -> Entry(DotDot, TRUE, r.parent)
                                    [] OTHER -> Zero]
    IN  Put([w EXCEPT !.disk[cluster_to_lba(c)] = dots], r.free,
            Entry(IF n \in ShortNames THEN Short(n) ELSE Blanks, TRUE, c))

fat16_vfs_mkdir(path, lucky) ==
    LET r == fat16_resolve_path(Volume, path, lucky)
    IN  /\ Becomes(IF r.hit # Nowhere \/ r.free = Nowhere \/ IsFull(Volume) THEN Volume
                   ELSE MadeDir(Volume, r, Last(path)))
        /\ rdcache_invalidate
        /\ UNCHANGED g_open

(* Mutant: any directory may be removed.                                   *)
IsEmptyDir_Any(v, dir) == TRUE

(* Nothing but dots, LFN and deleted entries before the end.               *)
IsEmptyDir(v, dir) ==
    LET pos == PositionsOf(v, dir)
    IN  \A i \in DOMAIN pos :
           \/ LET e == CellAt(v, pos[i]) IN e = Zero \/ e.tag = "lfn" \/ IsDeleted(e) \/ IsDots(e)
           \/ \E j \in 1 .. i - 1 : CellAt(v, pos[j]) = Zero

fat16_vfs_rmdir(path, lucky) ==
    LET p == fat16_resolve_path(Volume, path, lucky).hit
        ok == p # Nowhere /\ IsDir(CellAt(Volume, p)) /\ IsEmptyDir(Volume, CellAt(Volume, p).cluster)
    IN  /\ Becomes(IF ok THEN Removed(Volume, p) ELSE Volume)
        /\ rdcache_invalidate
        /\ UNCHANGED g_open

(* Mutant: the target stays.                                               *)
RenameTargetGone_Not(v, n) == v

(* rename.  A target that is a file is removed first, before anything that *)
(* can still fail.                                                         *)
RenameTargetGone(v, n) ==
    IF n.hit = Nowhere THEN v ELSE fat16_delete_preceding_lfn(Removed(v, n.hit), n.hit)

(* Whether the parents compare equal: new_parent is compared even when it  *)
(* was never written.                                                      *)
SameParent(r, n) == IF n.parent = None THEN BOOLEAN ELSE {r.parent = n.parent}

InPlace(v, p, nm) ==
    LET w == fat16_delete_preceding_lfn(v, p)
    IN  Put(w, p, [CellAt(w, p) EXCEPT !.name = Short(nm), !.live = TRUE])

Moved(v, p, free, n83, nm, e) ==
    LET w == fat16_delete_preceding_lfn(WriteEntry(v, free, nm, [e EXCEPT !.name = n83]), p)
    IN  Put(w, p, Deleted(CellAt(w, p)))

(* Open handles follow to where the new entries start.                     *)
Followed(p, free) ==
    [h \in Handle |-> IF g_open[h].in_use /\ g_open[h].dirent = p
                      THEN [g_open[h] EXCEPT !.dirent = free] ELSE g_open[h]]

fat16_vfs_rename_refused(old, new, lucky) ==
    LET r == fat16_resolve_path(Volume, old, lucky)
        n == fat16_resolve_path(Volume, new, lucky)
    IN  /\ rdcache.valid /\ rdcache_invalidate
        /\ r.hit = Nowhere \/ (n.hit # Nowhere /\ IsDir(CellAt(Volume, n.hit)))
        /\ UNCHANGED <<fat, disk, g_open>>

fat16_vfs_rename(old, new, lucky) ==
    LET r == fat16_resolve_path(Volume, old, lucky)
        n == fat16_resolve_path(Volume, new, lucky)
        nm == Last(new)
        v == RenameTargetGone(Volume, n)
        free == IF n.hit = Nowhere THEN n.free ELSE n.hit
        k == IF nm \in ShortNames THEN 0 ELSE FreeSuffix(v, n.parent, nm)
    IN  /\ r.hit # Nowhere
        /\ n.hit # Nowhere => ~IsDir(CellAt(Volume, n.hit))
        /\ ~RenamesItself(r, n) /\ ~RenamesNowhere(n) /\ ~Nests(r, n)
        /\ n.hit = r.hit \/ ~Shares(n.hit)
        /\ rdcache_invalidate
        /\ \/ /\ TRUE \in SameParent(r, n) /\ nm \in ShortNames
              /\ Becomes(InPlace(v, r.hit, nm))
              /\ UNCHANGED g_open
           \/ /\ FALSE \in SameParent(r, n) \/ nm \in LongNames
              /\ free = Nowhere \/ (nm \in LongNames /\ k = 0)
              /\ Becomes(v)
              /\ UNCHANGED g_open
           \/ /\ FALSE \in SameParent(r, n) \/ nm \in LongNames
              /\ free # Nowhere /\ (nm \in LongNames => k > 0)
              /\ Becomes(Moved(v, r.hit, free, IF k = 0 THEN Short(nm) ELSE Alias(nm, k), nm,
                               CellAt(Volume, r.hit)))
              /\ g_open' = Followed(r.hit, free)

(* The names a full scan lists, as fat16_readdir_fill_cache keeps them.    *)
Spelled(p, lucky) ==
    LET names == {n \in LongNames : Spells(p, n, lucky)}
    IN  IF names = {} THEN Unmatched ELSE Short(CHOOSE n \in names : TRUE)

ListEntry(v, a, p, lucky) ==
    LET e == CellAt(v, p)
    IN  CASE a.over        -> a
          [] e = Zero      -> [a EXCEPT !.over = TRUE]
          [] e.tag = "lfn" -> [a EXCEPT !.pending = Gathered(@, e)]
          [] IsDeleted(e) \/ IsDots(e) \/ Len(a.names) = RdcacheMax
                           -> [a EXCEPT !.pending = Forgotten(@)]
          [] OTHER -> [a EXCEPT !.pending = Forgotten(@),
                         !.names = Append(@, CASE a.pending.shown -> Spelled(a.pending, p \in lucky)
                                               [] IsShort(e)      -> e.name
                                               [] OTHER           -> Unmatched)]

Listing(v, dir, lucky) ==
    FoldLeft(LAMBDA a, p : ListEntry(v, a, p, lucky),
             [names |-> <<>>, pending |-> NoText, over |-> FALSE], PositionsOf(v, dir)).names

(* fat16_resolve_dir: None unless the path names a directory.              *)
fat16_resolve_dir(v, path, lucky) ==
    IF path = <<>> THEN 0
    ELSE LET p == fat16_resolve_path(v, path, lucky).hit
         IN  IF p # Nowhere /\ IsDir(CellAt(v, p)) THEN CellAt(v, p).cluster ELSE None

fat16_vfs_readdir(path, lucky) ==
    LET dir == fat16_resolve_dir(Volume, path, lucky)
    IN  /\ ~(rdcache.valid /\ rdcache.path = path) /\ dir # None
        /\ rdcache' = [valid |-> TRUE, path |-> path, names |-> Listing(Volume, dir, lucky)]
        /\ UNCHANGED <<fat, disk, g_open>>

(* The machine is switched off between calls and mounts the volume again.  *)
fat16_init ==
    /\ g_open' = [h \in Handle |-> Closed]
    /\ rdcache' = NoListing
    /\ UNCHANGED <<fat, disk>>

(* A freshly formatted volume.                                             *)
Init ==
    /\ fat = [c \in Cluster |-> Unused]
    /\ disk = [l \in Lba |-> [o \in Offset |-> Zero]]
    /\ g_open = [h \in Handle |-> Closed]
    /\ rdcache = NoListing

(* The calls, for given paths of files, of directories made and removed    *)
(* and of listings, and for given data.                                    *)
Calls(paths, dirs, listed, payloads) ==
    \/ \E lucky \in SUBSET Doubtful, path \in paths :
          \/ fat16_vfs_open_existing(path, lucky)
          \/ fat16_vfs_open_new(path, lucky)
          \/ fat16_vfs_unlink(path, lucky)
          \/ path \in dirs /\ fat16_vfs_mkdir(path, lucky)
          \/ path \in dirs /\ fat16_vfs_rmdir(path, lucky)
          \/ \E new \in paths : fat16_vfs_rename_refused(path, new, lucky)
          \/ \E new \in paths : fat16_vfs_rename(path, new, lucky)
    \/ \E lucky \in SUBSET Doubtful, path \in listed : fat16_vfs_readdir(path, lucky)
    \/ \E h \in Handle :
          \/ fat16_vfs_close(h)
          \/ \E len \in Lengths : fat16_vfs_read(h, len)
          \/ \E data \in payloads : fat16_vfs_write(h, data)
          \/ \E p \in 0 .. MaxSize : fat16_vfs_seek(h, p)
          \/ \E len \in Lengths : fat16_vfs_ftruncate_shrink(h, len)
          \/ \E len \in Lengths : fat16_vfs_ftruncate_grow(h, len)
    \/ fat16_init

Next == Calls(Paths, DirPaths, Listed, Payloads)

Spec == Init /\ [][Next]_vars

-----------------------------------------------------------------------------
(* Properties.                                                             *)

EntryName == {Short(n) : n \in ShortNames} \cup {Dot, DotDot, Blanks, Unmatched}
             \cup {Alias(n, k) : n \in LongNames, k \in 1 .. MaxSuffix}
Cell == {Zero, Garbage} \cup {Byte(x) : x \in UNION {Range(d) : d \in Payloads}}
        \cup {Lfn(n, k) : n \in LongNames, k \in 1 .. MaxChunks}
        \cup [tag : {"short"}, live : BOOLEAN, name : EntryName, dir : BOOLEAN,
              cluster : Cluster \cup {Unused}, size : 0 .. MaxSize]

(* Every FAT entry is free, a link or the end; every cell is a zero, data  *)
(* or a directory entry; a handle never stands behind the end of its file. *)
TypeOK ==
    /\ fat \in [Cluster -> Cluster \cup {Unused, Eoc}]
    /\ \A l \in Lba : \A o \in Offset : disk[l][o] \in Cell
    /\ \A h \in Handle : LET f == g_open[h] IN
          /\ f.in_use \/ f = Closed
          /\ f.first_cluster \in Cluster \cup {Unused}
          /\ f.size \in 0 .. MaxSize /\ f.pos \in 0 .. f.size

(* The directories: the root and what is reached from it.                  *)
LiveIn(dir) ==
    {p \in Range(PositionsOf(Volume, dir)) :
        IsLive(CellAt(Volume, p)) /\ ~IsDots(CellAt(Volume, p))}
Directories ==
    {0} \cup {CellAt(Volume, p).cluster : p \in {q \in Position : IsDir(CellAt(Volume, q)) /\ IsLive(CellAt(Volume, q))}}
Reached(dir) == dir = 0 \/ \E p \in LiveIn(0) : IsDir(CellAt(Volume, p)) /\ CellAt(Volume, p).cluster = dir
LiveEntries == UNION {LiveIn(dir) : dir \in {d \in Directories : Reached(d)}}
ClustersOf(p) == ChainFrom(Volume, CellAt(Volume, p).cluster)

(* Every file and directory owns its clusters: its chain ends in the       *)
(* end mark, is long enough for the size in the entry, runs over no free   *)
(* cluster, and shares none with another entry.                            *)
ChainsAreSound ==
    /\ \A p \in LiveEntries :
          LET chain == ClustersOf(p)
          IN  /\ IsInjective(chain)
              /\ chain # <<>> => fat[Last(chain)] = Eoc
              /\ Len(chain) * ClusterSize >= CellAt(Volume, p).size
    /\ \A p, q \in LiveEntries : p # q => Range(ClustersOf(p)) \cap Range(ClustersOf(q)) = {}

(* An open handle knows the size and the clusters its directory entry has; *)
(* only a lengthening that failed leaves it knowing more.                  *)
HandlesAgree ==
    \A h \in Handle : g_open[h].in_use =>
        LET f == g_open[h]
            e == CellAt(Volume, f.dirent)
        IN  /\ IsLive(e) /\ ~e.dir
            /\ f.size = e.size
            /\ f.first_cluster = e.cluster \/ (e.cluster = Unused /\ e.size = 0)

(* A valid readdir cache lists what a scan of its directory would list     *)
(* now.                                                                    *)
ReaddirCacheIsFresh ==
    rdcache.valid =>
        \E lucky \in SUBSET Doubtful :
            LET dir == fat16_resolve_dir(Volume, rdcache.path, lucky)
            IN  dir # None /\ rdcache.names = Listing(Volume, dir, lucky)

(* No two entries of a directory answer to one 8.3 name.                   *)
NamesAreUnique ==
    \A dir \in {d \in Directories : Reached(d)} : \A p, q \in LiveIn(dir) :
        p # q => CellAt(Volume, p).name # CellAt(Volume, q).name

(* Creating a file leaves the entries already in the directory alone: "We  *)
(* need lfn_count + 1 consecutive free slots" (fat16.c:999).               *)
CreatingKeepsEntries ==
    [][(\E path \in Paths : fat16_vfs_open_new(path, {})) =>
          \A p \in LiveEntries : disk'[p.lba][p.off] = disk[p.lba][p.off]]_vars

(* A file opened with O_CREAT is found again under the name it was given:  *)
(* "Matches on either 8.3 or LFN" (fat16.c:639).                           *)
CreatedNameIsFound ==
    [][\A path \in Paths :
          fat16_vfs_open_new(path, {}) /\ disk' # disk =>
              fat16_resolve_path([fat |-> fat', disk |-> disk'], path, {}).hit # Nowhere]_vars

(* mkdir makes a directory that is found: "Create a new directory at path" *)
(* (fat16.c:1498).                                                         *)
MadeDirectoryIsFound ==
    [][\A path \in DirPaths :
          fat16_vfs_mkdir(path, {}) /\ disk' # disk =>
              fat16_resolve_dir([fat |-> fat', disk |-> disk'], path, {}) # None]_vars

(* Every file with a short name is listed under it; LFN and deleted        *)
(* entries are skipped (fat16.c:1440).                                     *)
FilesAreListed ==
    \A p \in LiveIn(0) : \A n \in ShortNames :
        CellAt(Volume, p).name = Short(n) => Short(n) \in Range(Listing(Volume, 0, {}))
=============================================================================
