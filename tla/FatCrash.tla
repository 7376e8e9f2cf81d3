------------------------------ MODULE FatCrash ------------------------------
(***************************************************************************)
(* fs/fat16.c, one sector write at a time: what the volume holds if the    *)
(* machine stops, or the drive refuses a write, inside a call.  The table  *)
(* and its cache are FatTable's; a file's content is counted in sectors,   *)
(* and a cluster is one sector.                                            *)
(*                                                                         *)
(* A call works out the writes it will make when it starts.  Each of them  *)
(* knows how the call goes on if the drive refuses it, and whose entry     *)
(* names freed clusters for as long as it is outstanding.  Names have 8.3  *)
(* forms; a directory has no entries but "." and "..".                     *)
(***************************************************************************)
EXTENDS FatTable, Sequences, SequencesExt

CONSTANTS Name,               \* paths
          Parents,            \* the directories they may be in
          Datum,              \* what callers write into a sector
          FAT16_MAX_OPEN,     \* 16
          MaxSectors,         \* bound: sectors of a file
          MaxFaults           \* bound: stops and refused writes

VARIABLES parent,             \* the directory of each path
          dirent,             \* the directory entry of each path
          data,               \* the sectors of the clusters
          g_open,             \* per path: what its open handle has cached
          call, todo,         \* the call under way and its outstanding writes
          settled,            \* history: what each path held when the last call ended
          damaged,            \* history: entries left naming freed or shared clusters
          faults

crashVars == <<disk, fat_cache, fat_cache_next, parent, dirent, data, g_open, call, todo,
               settled, damaged, faults>>

ASSUME CrashAssumption ==
    Cluster \subseteq Value /\ sectors_per_fat * EntriesPerSector \in Value

Unused == 0
Eoc == sectors_per_fat * EntriesPerSector
DataCluster == Cluster \ {0, 1}
Zero == "zero"
Dots == "dots"
Deleted == [first |-> Unused, size |-> 0, attr |-> "deleted"]
Entry(first, size) == [first |-> first, size |-> size, attr |-> "file"]
Closed == [first |-> Unused, size |-> -1]
Handle(first, size) == [first |-> first, size |-> size]
Idle == [active |-> FALSE]

Exists(n) == dirent[n] # Deleted
IsFile(n) == dirent[n].attr = "file"
IsOpen(n) == g_open[n] # Closed

RECURSIVE Walk(_, _, _)
(* The clusters reached from c in table f, at most k of them.              *)
Walk(f, c, k) ==
    IF c \notin DataCluster \/ k = 0 THEN <<>> ELSE <<c>> \o Walk(f, f[c], k - 1)

(* The table as fat16_get_entry reads it, and as the disk has it.          *)
fat16_get_entry ==
    [c \in DataCluster |->
        LET hit == Cached(fat_sec(0, c))
        IN  (IF hit # {} THEN fat_cache[CHOOSE i \in hit : TRUE].data
                         ELSE disk[fat_sec(0, c)])[ent_off(c)]]
OnDisk == [c \in DataCluster |-> disk[fat_sec(0, c)][ent_off(c)]]

Chain(first) == Walk(fat16_get_entry, first, Cardinality(DataCluster))
DiskChain(first) == Walk(OnDisk, first, Cardinality(DataCluster))
Free == SetToSortSeq({c \in DataCluster : fat16_get_entry[c] = Unused}, <)
Lesser(a, b) == IF a <= b THEN a ELSE b
Larger(a, b) == IF a <= b THEN b ELSE a
Upto(s, k) == SubSeq(s, 1, Lesser(k, Len(s)))

(* What a reader of the volume finds at n.                                 *)
Content(n) ==
    CASE dirent[n].attr = "deleted" -> <<"absent">>
      [] dirent[n].attr = "dir" -> [i \in DOMAIN DiskChain(dirent[n].first) |->
                                      data[DiskChain(dirent[n].first)[i]]]
      [] OTHER -> [i \in 1 .. Lesser(dirent[n].size, Len(DiskChain(dirent[n].first))) |->
                      data[DiskChain(dirent[n].first)[i]]]

-----------------------------------------------------------------------------
(* Writes.                                                                 *)

(* fat16_set_entry: one write for each copy.                               *)
SetEntry(c, v) == [i \in 1 .. fat_count |-> [at |-> "fat", copy |-> i - 1, c |-> c, v |-> v]]
SetData(c, d) == <<[at |-> "data", c |-> c, v |-> d]>>
SetDirent(n, e) == <<[at |-> "dirent", n |-> n, v |-> e]>>
MoveDirent(n, m) == <<[at |-> "move", n |-> n, v |-> m]>>

(* Writes ws; if one is refused, the call goes on with then and leaves the *)
(* handles as open.  Until they are made, the entries of risk name         *)
(* clusters that are free or somebody else's.                              *)
Do(ws, risk, then, open) ==
    [i \in DOMAIN ws |-> [w |-> ws[i], risk |-> risk, then |-> then, open |-> open]]

(* Mutants: the cluster is linked before it is marked; it keeps its old    *)
(* content.                                                                *)
fat16_alloc_cluster_Late(c) == SetData(c, Zero)
fat16_alloc_cluster_Unzeroed(c) == SetEntry(c, Eoc)

fat16_alloc_cluster(c) == SetEntry(c, Eoc) \o SetData(c, Zero)

(* fat16_free_chain of n's clusters; from the first write on n is at risk. *)
fat16_free_chain(n, chain, then, open) ==
    LET items == Do(FlattenSeq([i \in DOMAIN chain |-> SetEntry(chain[i], Unused)]), {n}, then, open)
    IN  [i \in DOMAIN items |-> IF i = 1 THEN [items[i] EXCEPT !.risk = {}] ELSE items[i]]

(* What is at risk once chain is freed.                                    *)
Risk(n, chain) == IF chain = <<>> THEN {} ELSE {n}

(* fat16_ensure_cluster_for_index adds the i-th cluster of cs.  The first  *)
(* one is in the handle once it is allocated.                              *)
AddCluster(cs, i, then, open) ==
    IF i = 1 THEN Do(fat16_alloc_cluster(cs[i]), {}, then, g_open)
    ELSE Do(fat16_alloc_cluster(cs[i]) \o SetEntry(cs[i - 1], cs[i]) \o SetEntry(cs[i], Eoc),
            {}, then, open)

fat16_ensure_cluster_for_index(cs, from, to, then, open) ==
    FlattenSeq([k \in 1 .. Larger(0, to - from) |-> AddCluster(cs, from + k, then, open)])

-----------------------------------------------------------------------------
(* Calls.                                                                  *)

(* A call begins; if all goes well it leaves contents and handles so.  On  *)
(* the way the paths of gone do not exist.                                 *)
BeginReplacing(gone, items, content, open) ==
    /\ call = Idle
    /\ items # <<>>
    /\ call' = [active |-> TRUE, settled |-> content, open |-> open, failed |-> FALSE, gone |-> gone]
    /\ todo' = items
    /\ UNCHANGED <<disk, fat_cache, fat_cache_next, dirent, data, g_open, settled, damaged, faults>>

Begin(items, content, open) == BeginReplacing({}, items, content, open)

(* What is done in memory alone.                                           *)
InMemory(open) ==
    /\ call = Idle
    /\ g_open' = open
    /\ UNCHANGED <<disk, fat_cache, fat_cache_next, dirent, data, call, todo, settled, damaged, faults>>

Settle(n, content) == [settled EXCEPT ![n] = content]
Reopen(n, h) == [g_open EXCEPT ![n] = h]

(* The end of fat16_vfs_open: without a free handle it fails, and what it  *)
(* did to the volume stays.                                                *)
Opened(n, h) ==
    IF Cardinality({m \in Name : IsOpen(m)}) < FAT16_MAX_OPEN THEN Reopen(n, h) ELSE g_open

(* fat16_vfs_open with O_CREAT of a name that does not exist.              *)
fat16_vfs_open_new(n) ==
    /\ ~Exists(n)
    /\ Begin(Do(SetDirent(n, Entry(Unused, 0)), {}, <<>>, g_open),
             Settle(n, <<>>), Opened(n, Handle(Unused, 0)))

fat16_vfs_open(n) ==
    /\ IsFile(n) /\ ~IsOpen(n)
    /\ InMemory(Opened(n, Handle(dirent[n].first, dirent[n].size)))

(* With O_TRUNC.                                                           *)
fat16_vfs_open_trunc(n) ==
    LET chain == Chain(dirent[n].first)
    IN  /\ IsFile(n) /\ ~IsOpen(n)
        /\ Begin(fat16_free_chain(n, chain, <<>>, g_open)
                    \o Do(SetDirent(n, Entry(Unused, 0)), Risk(n, chain), <<>>, g_open),
                 Settle(n, <<>>), Opened(n, Handle(Unused, 0)))

fat16_vfs_close(n) == IsOpen(n) /\ InMemory(Reopen(n, Closed))

(* What a file holds once sectors p + 1 .. p + Len(ds) are written, its     *)
(* clusters are cs and its size is size; chain is what it had before.      *)
After(n, chain, cs, size, p, ds) ==
    [i \in 1 .. Lesser(size, Len(cs)) |->
        CASE i \in p + 1 .. p + Len(ds) -> ds[i - p]
          [] i \notin p + 1 .. p + Len(ds) /\ i \in DOMAIN Content(n) -> Content(n)[i]
          [] OTHER -> IF i <= Len(chain) THEN data[chain[i]] ELSE Zero]

update_dirent(n, f) == SetDirent(n, Entry(f.first, f.size))

(* Sector by sector: the cluster, if it is missing, then the data; after   *)
(* the last one, or the last that went well, the entry.                    *)
fat16_vfs_write_Items(n, f, chain, cs, p, ds) ==
    LET done(j) == Handle(cs[1], Larger(f.size, p + j))
        open(j) == Reopen(n, done(j))
        quit(j) == IF j = 0 THEN <<>> ELSE Do(update_dirent(n, done(j)), {}, <<>>, open(j))
    IN  FlattenSeq([j \in 1 .. Len(ds) |->
              fat16_ensure_cluster_for_index(cs, Larger(Len(chain), IF j = 1 THEN 0 ELSE p + j - 1),
                                             p + j, quit(j - 1), open(j - 1))
              \o Do(SetData(cs[p + j], ds[j]), {}, quit(j - 1), open(j - 1))])
        \o quit(Len(ds))

(* ds at position p; what does not fit the volume is not written.  A chain *)
(* shorter than p is filled up first, and if that fills the volume, no     *)
(* more happens.                                                           *)
fat16_vfs_write(n, p, ds) ==
    LET f == g_open[n]
        chain == Chain(f.first)
        cs == chain \o Upto(Free, Larger(0, p + Len(ds) - Len(chain)))
        fit == Upto(ds, Larger(0, Len(cs) - p))
        size == IF fit = <<>> THEN f.size ELSE Larger(f.size, p + Len(fit))
    IN  /\ IsOpen(n) /\ p <= f.size
        /\ p + Len(ds) <= MaxSectors
        /\ cs # <<>>
        /\ Begin(IF fit = <<>>
                    THEN fat16_ensure_cluster_for_index(cs, Len(chain), Len(cs), <<>>,
                                                        Reopen(n, Handle(cs[1], f.size)))
                    ELSE fat16_vfs_write_Items(n, f, chain, cs, p, fit),
                 Settle(n, After(n, chain, cs, size, p, fit)), Reopen(n, Handle(cs[1], size)))

(* Growing fails if the volume is full, and keeps what it allocated.       *)
fat16_vfs_ftruncate_grow(n, length) ==
    LET f == g_open[n]
        chain == Chain(f.first)
        cs == chain \o Upto(Free, Larger(0, length - Len(chain)))
        full == Len(cs) < length
        size == IF full THEN f.size ELSE length
        h == Handle(cs[1], size)
    IN  /\ IsOpen(n) /\ f.size < length /\ cs # <<>>
        /\ Begin(fat16_ensure_cluster_for_index(cs, Len(chain), Len(cs), <<>>,
                                                Reopen(n, Handle(cs[1], f.size)))
                 \o (IF full THEN <<>> ELSE Do(update_dirent(n, h), {}, <<>>, Reopen(n, h))),
                 Settle(n, After(n, chain, cs, size, 0, <<>>)), Reopen(n, h))

(* Shrinking ends the chain, frees the rest, whatever comes of it, and     *)
(* then writes the entry.                                                  *)
fat16_vfs_ftruncate_shrink(n, length) ==
    LET f == g_open[n]
        chain == Chain(f.first)
        keep == Lesser(length, Len(chain))
        h == Handle(f.first, length)
        last == Do(update_dirent(n, h), {}, <<>>, Reopen(n, h))
        rest == fat16_free_chain(n, SubSeq(chain, keep + 1, Len(chain)), last, Reopen(n, h))
    IN  /\ IsOpen(n) /\ 0 < length /\ length < f.size /\ chain # <<>>
        /\ Begin(Do(SetEntry(chain[keep], Eoc), {}, <<>>, g_open)
                    \o [i \in DOMAIN rest |-> [rest[i] EXCEPT !.risk = {}]] \o last,
                 Settle(n, After(n, chain, Upto(chain, keep), length, 0, <<>>)), Reopen(n, h))

fat16_vfs_ftruncate_zero(n) ==
    LET f == g_open[n]
        chain == Chain(f.first)
        h == Handle(Unused, 0)
    IN  /\ IsOpen(n) /\ f.size > 0
        /\ Begin(fat16_free_chain(n, chain, <<>>, g_open)
                    \o Do(update_dirent(n, h), Risk(n, chain), <<>>, Reopen(n, h)),
                 Settle(n, <<>>), Reopen(n, h))

(* fat16_vfs_unlink of a file, fat16_vfs_rmdir of a directory.             *)
fat16_vfs_unlink(n) ==
    LET chain == Chain(dirent[n].first)
    IN  /\ Exists(n) /\ ~IsOpen(n)
        /\ Begin(fat16_free_chain(n, chain, <<>>, g_open)
                    \o Do(SetDirent(n, Deleted), Risk(n, chain), <<>>, g_open),
                 Settle(n, <<"absent">>), g_open)

fat16_vfs_mkdir(n) ==
    LET c == Head(Free)
    IN  /\ ~Exists(n) /\ Free # <<>>
        /\ Begin(Do(fat16_alloc_cluster(c) \o SetData(c, Dots)
                       \o SetDirent(n, [first |-> c, size |-> 0, attr |-> "dir"]), {}, <<>>, g_open),
                 Settle(n, <<Dots>>), g_open)

(* A file that has the new name is deleted first, whatever comes of        *)
(* freeing its clusters.  Within a directory the entry is renamed in       *)
(* place, else written anew and then deleted.                              *)
fat16_vfs_rename(n, m) ==
    LET chain == Chain(dirent[m].first)
        moved == [g_open EXCEPT ![m] = g_open[n], ![n] = Closed]
        move == IF parent[n] = parent[m] THEN Do(MoveDirent(n, m), {}, <<>>, g_open)
                ELSE Do(SetDirent(m, dirent[n]), {}, <<>>, g_open)
                     \o Do(SetDirent(n, Deleted), IF dirent[n].first = Unused THEN {} ELSE {n, m}, <<>>, g_open)
        delete == Do(SetDirent(m, Deleted), Risk(m, chain), <<>>, g_open) \o move
    IN  /\ n # m /\ Exists(n) /\ ~IsOpen(m)
        /\ ~Exists(m) \/ IsFile(m)
        /\ BeginReplacing(IF Exists(m) THEN {m} ELSE {},
                 IF Exists(m) THEN fat16_free_chain(m, chain, delete, moved) \o delete ELSE move,
                 [settled EXCEPT ![m] = settled[n], ![n] = <<"absent">>], moved)

-----------------------------------------------------------------------------
(* Steps inside a call.                                                    *)

Table == <<disk, fat_cache, fat_cache_next>>

(* ata_pio_write takes the next sector.                                    *)
Step ==
    LET w == Head(todo).w
    IN  /\ todo # <<>>
        /\ \/ /\ w.at = "fat"
              /\ disk' = [disk EXCEPT ![fat_sec(w.copy, w.c)][ent_off(w.c)] = w.v]
              /\ fat_cache_evict({fat_sec(w.copy, w.c)})
              /\ UNCHANGED <<fat_cache_next, dirent, data>>
           \/ w.at = "data" /\ data' = [data EXCEPT ![w.c] = w.v] /\ UNCHANGED <<Table, dirent>>
           \/ w.at = "dirent" /\ dirent' = [dirent EXCEPT ![w.n] = w.v] /\ UNCHANGED <<Table, data>>
           \/ /\ w.at = "move"
              /\ dirent' = [dirent EXCEPT ![w.v] = dirent[w.n], ![w.n] = Deleted]
              /\ UNCHANGED <<Table, data>>
        /\ todo' = Tail(todo)
        /\ UNCHANGED <<g_open, call, settled, damaged, faults>>

(* Whose entries name freed or shared clusters if the call ends here.      *)
AtRisk == IF todo = <<>> THEN {} ELSE Head(todo).risk

(* What the paths of the call hold, now that it ended early.               *)
Found == [n \in Name |-> IF call # Idle /\ (call.settled[n] # settled[n] \/ n \in call.gone)
                         THEN Content(n) ELSE settled[n]]

(* The drive refuses the sector, or its read.                              *)
Refuse ==
    LET item == Head(todo)
    IN  /\ todo # <<>> /\ faults < MaxFaults
        /\ faults' = faults + 1
        /\ todo' = item.then
        /\ damaged' = IF item.then = <<>> THEN damaged \cup item.risk ELSE damaged
        /\ call' = [call EXCEPT !.failed = TRUE, !.open = item.open]
        /\ UNCHANGED <<Table, dirent, data, g_open, settled>>

Return ==
    /\ call # Idle /\ todo = <<>>
    /\ settled' = IF call.failed THEN Found ELSE call.settled
    /\ g_open' = call.open
    /\ call' = Idle
    /\ UNCHANGED <<Table, dirent, data, todo, damaged, faults>>

(* The machine stops; fat16_init mounts the volume again.  Between calls   *)
(* that would only close the handles.                                      *)
Stop ==
    /\ call # Idle /\ faults < MaxFaults
    /\ faults' = faults + 1
    /\ fat_cache' = [i \in Slot |-> Empty]
    /\ fat_cache_next' = 0
    /\ g_open' = [n \in Name |-> Closed]
    /\ call' = Idle /\ todo' = <<>>
    /\ settled' = Found
    /\ damaged' = damaged \cup AtRisk
    /\ UNCHANGED <<disk, dirent, data>>

(* fat16_vfs_read and the lookups fill the cache between the other calls.  *)
Read(c) ==
    /\ call = Idle
    /\ fat_cache_get(c)
    /\ UNCHANGED <<dirent, data, g_open, call, todo, settled, damaged, faults>>

(* A damaged path is left alone until the volume is repaired.              *)
CrashNext ==
    /\ UNCHANGED parent
    /\ \/ \E c \in DataCluster : Read(c)
       \/ \E n \in Name \ damaged :
             \/ fat16_vfs_open_new(n)
             \/ fat16_vfs_open(n)
             \/ fat16_vfs_open_trunc(n)
             \/ fat16_vfs_close(n)
             \/ \E p \in 0 .. MaxSectors - 1, ds \in BoundedSeq(Datum, MaxSectors) \ {<<>>} :
                   fat16_vfs_write(n, p, ds)
             \/ \E length \in 1 .. MaxSectors : fat16_vfs_ftruncate_grow(n, length)
             \/ \E length \in 1 .. MaxSectors : fat16_vfs_ftruncate_shrink(n, length)
             \/ fat16_vfs_ftruncate_zero(n)
             \/ fat16_vfs_unlink(n)
             \/ fat16_vfs_mkdir(n)
             \/ \E m \in Name \ damaged : fat16_vfs_rename(n, m)
       \/ Step \/ Refuse \/ Return \/ Stop

(* A volume just formatted.                                                *)
CrashInit ==
    /\ disk = [l \in Lba |-> [o \in 0 .. EntriesPerSector - 1 |->
                  IF ((l - FatStart) % sectors_per_fat) * EntriesPerSector + o < 2 THEN Eoc ELSE Unused]]
    /\ fat_cache = [i \in Slot |-> Empty]
    /\ fat_cache_next = 0
    /\ parent \in Parents
    /\ dirent = [n \in Name |-> Deleted]
    /\ data = [c \in DataCluster |-> Zero]
    /\ g_open = [n \in Name |-> Closed]
    /\ call = Idle /\ todo = <<>>
    /\ settled = [n \in Name |-> <<"absent">>]
    /\ damaged = {} /\ faults = 0

CrashSpec == CrashInit /\ [][CrashNext]_crashVars

-----------------------------------------------------------------------------
(* Paths whose entry names clusters of its own.                            *)
Healthy == {n \in Name : Exists(n)} \ (damaged \cup AtRisk)

(* At every moment, whatever stopped before, the clusters of a path that   *)
(* no stopped call has damaged are its own, marked as used, and end in an  *)
(* end mark: fat16_alloc_cluster marks a cluster before                    *)
(* fat16_ensure_cluster_for_index links it, and an entry names it last.    *)
ChainsSurviveStops ==
    \A n \in Healthy :
       LET chain == DiskChain(dirent[n].first)
       IN  /\ dirent[n].first # Unused => chain # <<>> /\ OnDisk[chain[Len(chain)]] = Eoc
           /\ \A m \in Healthy \ {n} :
                 ToSet(chain) \cap ToSet(DiskChain(dirent[m].first)) = {}

(* What a path may hold while the call under way changes old into new: its *)
(* sectors are old, new, or zeroed ones added at the end.                  *)
Between(old, new, s) ==
    IF "absent" \in {old[1] : i \in DOMAIN old} \cup {new[1] : i \in DOMAIN new}
    THEN s \in {old, new}
    ELSE /\ Lesser(Len(old), Len(new)) <= Len(s) /\ Len(s) <= Larger(Len(old), Len(new))
         /\ \A i \in DOMAIN s : \/ i \in DOMAIN old /\ s[i] = old[i]
                                \/ i \in DOMAIN new /\ s[i] = new[i]
                                \/ i \notin DOMAIN old /\ s[i] = Zero

(* Whatever stops or is refused, a path that is not damaged holds what the *)
(* last call left there; one a call was changing holds for each sector     *)
(* what it held before or what the call writes, or zeroes at its end, and  *)
(* never what another file held: fat16_vfs_write writes the data before    *)
(* the entry that gives it a size.  A file that a rename replaces may be   *)
(* gone.                                                                   *)
ContentSurvivesStops ==
    \A n \in Name \ (damaged \cup AtRisk) :
       \/ Between(settled[n], IF call = Idle THEN settled[n] ELSE call.settled[n], Content(n))
       \/ call # Idle /\ n \in call.gone /\ ~Exists(n)
=============================================================================
