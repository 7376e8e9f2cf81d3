------------------------------ MODULE FatTable ------------------------------
(***************************************************************************)
(* fs/fat16.c: the copies of the file allocation table on disk and the     *)
(* cache of its sectors, over drivers/ata_pio.c, whose transfers may fail. *)
(* Entries are read through the cache and written around it.               *)
(***************************************************************************)
EXTENDS Integers, FiniteSets

CONSTANTS fat_count, sectors_per_fat,
          EntriesPerSector,   \* 256
          FAT_CACHE_SIZE,     \* 8
          Value,              \* what an entry can hold
          Failures            \* how a transfer can fail, see below

ASSUME FatAssumption ==
    /\ fat_count \in Nat \ {0} /\ sectors_per_fat \in Nat \ {0}
    /\ EntriesPerSector \in Nat \ {0} /\ FAT_CACHE_SIZE \in Nat \ {0}
    /\ Failures \subseteq {"read", "refused", "late"}

(* "read": no data came.  "refused": the drive did not take the data.      *)
(* "late": it took the data and then stayed busy.  A single sector moves   *)
(* whole or not at all.                                                    *)

VARIABLES disk,               \* the sectors of all copies
          fat_cache, fat_cache_next

vars == <<disk, fat_cache, fat_cache_next>>

Cluster == 0 .. sectors_per_fat * EntriesPerSector - 1
Slot == 0 .. FAT_CACHE_SIZE - 1
Copy == 0 .. fat_count - 1
FatStart == 1
Lba == FatStart .. FatStart + fat_count * sectors_per_fat - 1
Sector == [0 .. EntriesPerSector - 1 -> Value]
NoLba == 0
Empty == [lba |-> NoLba, data |-> CHOOSE s \in Sector : TRUE]   \* its data is never read

fat_rel_sec(c) == c \div EntriesPerSector
ent_off(c) == c % EntriesPerSector
fat_sec(copy, c) == FatStart + copy * sectors_per_fat + fat_rel_sec(c)

(* ata_pio_read, ata_pio_write: how a transfer of fat16_set_entry can      *)
(* fail, its read of the sector included.                                  *)
ReadCanFail == "read" \in Failures
WriteFailures == Failures \cap {"read", "refused", "late"}

Cached(lba) == {i \in Slot : fat_cache[i].lba = lba}

(* The table of a volume just mounted; the cache is empty.                 *)
Init ==
    /\ \E s \in Sector : disk = [l \in Lba |-> s]
    /\ fat_cache = [i \in Slot |-> Empty]
    /\ fat_cache_next = 0

(* fat16_get_entry of a sector not in the cache: the next slot in turn     *)
(* takes it, and keeps its old sector if the read fails.                   *)
fat_cache_get(c) ==
    LET lba == fat_sec(0, c)
    IN  /\ Cached(lba) = {}
        /\ fat_cache_next' = (fat_cache_next + 1) % FAT_CACHE_SIZE
        /\ \/ fat_cache' = [fat_cache EXCEPT ![fat_cache_next] = [lba |-> lba, data |-> disk[lba]]]
           \/ ReadCanFail /\ UNCHANGED fat_cache
        /\ UNCHANGED disk

(* Mutant: nothing is evicted.                                             *)
fat_cache_evict_None(lbas) == UNCHANGED fat_cache

fat_cache_evict(lbas) ==
    fat_cache' = [i \in Slot |-> IF fat_cache[i].lba \in lbas THEN Empty ELSE fat_cache[i]]

(* The disk with entry c set to v in the first n copies.                   *)
Written(c, v, n) ==
    [l \in Lba |-> IF \E i \in 0 .. n - 1 : l = fat_sec(i, c)
                   THEN [disk[l] EXCEPT ![ent_off(c)] = v] ELSE disk[l]]

(* Every copy is read, changed, written and evicted in turn.               *)
fat16_set_entry(c, v) ==
    /\ disk' = Written(c, v, fat_count)
    /\ fat_cache_evict({fat_sec(i, c) : i \in Copy})
    /\ UNCHANGED fat_cache_next

(* The transfer of copy n fails: those before it are done.                 *)
fat16_set_entry_fails(c, v, n, how) ==
    /\ disk' = Written(c, v, IF how = "late" THEN n + 1 ELSE n)
    /\ fat_cache_evict({fat_sec(i, c) : i \in 0 .. n - 1})
    /\ UNCHANGED fat_cache_next

Next ==
    \E c \in Cluster :
       \/ fat_cache_get(c)
       \/ \E v \in Value : fat16_set_entry(c, v)
       \/ \E v \in Value, n \in Copy, how \in WriteFailures : fat16_set_entry_fails(c, v, n, how)

Spec == Init /\ [][Next]_vars

-----------------------------------------------------------------------------
(* Cached sectors are sectors of the table.                                *)
TypeOK ==
    /\ disk \in [Lba -> Sector]
    /\ fat_cache \in [Slot -> [lba : Lba \cup {NoLba}, data : Sector]]
    /\ fat_cache_next \in Slot

(* What the cache holds for a sector is what the disk holds, so a chain    *)
(* walked through the cache is the chain on disk: fat_cache_evict, "since  *)
(* we wrote new data" (fat16.c:372).                                       *)
CacheMatchesDisk ==
    \A i \in Slot : fat_cache[i].lba # NoLba => fat_cache[i].data = disk[fat_cache[i].lba]

(* A sector is in one slot, so the first match is the only one.            *)
SectorsAreCachedOnce ==
    \A i, j \in Slot : i # j /\ fat_cache[i].lba # NoLba => fat_cache[i].lba # fat_cache[j].lba
=============================================================================
