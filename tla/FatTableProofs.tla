--------------------------- MODULE FatTableProofs ---------------------------
(***************************************************************************)
(* Proofs about FatTable, for any number of copies, sectors, entries and   *)
(* cache slots: unless a write reports failure after the drive took the    *)
(* data, the cache never differs from the disk.                            *)
(***************************************************************************)
EXTENDS FatTable, TLAPS

(* The sectors of the first copy are sectors of the table.                 *)
LEMMA DivisionBound ==
    ASSUME NEW s \in Nat \ {0}, NEW e \in Nat \ {0}, NEW c \in 0 .. s * e - 1
    PROVE  c \div e \in 0 .. s - 1
PROOF
  <1>1. c \div e \in Nat /\ c % e \in 0 .. e - 1 /\ c = e * (c \div e) + (c % e)
    BY SMT
  <1> DEFINE q == c \div e
  <1> HIDE DEF q
  <1>2. q \in Nat /\ e * q <= c
    BY <1>1 DEF q
  <1>3. SUFFICES q < s
    BY <1>2 DEF q
  <1>4. SUFFICES ASSUME q >= s PROVE FALSE
    BY <1>2
  <1>5. e * q >= e * s
    BY <1>2, <1>4, SMT
  <1>6. c < s * e
    OBVIOUS
  <1>7. e * s = s * e
    BY SMT
  <1> QED
    BY <1>2, <1>5, <1>6, <1>7

(* Sector numbers grow with the copy.                                      *)
LEMMA ProductBound ==
    ASSUME NEW n \in Nat \ {0}, NEW s \in Nat \ {0}
    PROVE  n * s \in Nat /\ n * s >= s
PROOF
  BY SMT

(* The first copy of any entry is in the table.                            *)
LEMMA FirstCopy == \A c \in Cluster : fat_sec(0, c) \in Lba
PROOF
  <1> TAKE c \in Cluster
  <1>1. c \div EntriesPerSector \in 0 .. sectors_per_fat - 1
    BY FatAssumption, DivisionBound, Zenon DEF Cluster
  <1>2. fat_count * sectors_per_fat \in Nat /\ fat_count * sectors_per_fat >= sectors_per_fat
    BY FatAssumption, ProductBound
  <1>3. fat_sec(0, c) = 1 + c \div EntriesPerSector
    BY <1>1, FatAssumption DEF fat_sec, fat_rel_sec, FatStart
  <1> DEFINE d == c \div EntriesPerSector
             t == fat_count * sectors_per_fat
  <1> HIDE DEF d, t
  <1>4. 1 + d \in 1 .. 1 + t - 1
    BY <1>1, <1>2, FatAssumption DEF d, t
  <1> QED
    BY <1>3, <1>4 DEF d, t, Lba, FatStart

(* So is the table's first sector.                                         *)
LEMMA FirstSector == FatStart \in Lba
PROOF
  <1>1. fat_count * sectors_per_fat \in Nat /\ fat_count * sectors_per_fat >= sectors_per_fat
    BY FatAssumption, ProductBound
  <1> DEFINE t == fat_count * sectors_per_fat
  <1> HIDE DEF t
  <1>2. 1 \in 1 .. 1 + t - 1
    BY <1>1, FatAssumption DEF t
  <1> QED
    BY <1>2 DEF t, Lba, FatStart

(* No sector of the table has number 0, which marks an empty slot.         *)
LEMMA NoLbaIsNone == NoLba \notin Lba
PROOF
  <1>1. fat_count * sectors_per_fat \in Nat
    BY FatAssumption, ProductBound
  <1> DEFINE t == fat_count * sectors_per_fat
  <1> HIDE DEF t
  <1>2. 0 \notin 1 .. 1 + t - 1
    BY <1>1 DEF t
  <1> QED
    BY <1>2 DEF t, Lba, FatStart, NoLba

(* An empty slot has the type of a slot.                                   *)
LEMMA EmptyType ==
    ASSUME NEW s \in Sector
    PROVE  Empty \in [lba : Lba \cup {NoLba}, data : Sector] /\ Empty.lba = NoLba
PROOF
  <1>1. (CHOOSE t \in Sector : TRUE) \in Sector
    OBVIOUS
  <1> QED
    BY <1>1 DEF Empty

(* Changing the entry of a cluster gives a table again.                    *)
LEMMA WrittenType ==
    ASSUME TypeOK, NEW c \in Cluster, NEW v \in Value, NEW n
    PROVE  Written(c, v, n) \in [Lba -> Sector]
PROOF
  <1>1. \A l \in Lba : [disk[l] EXCEPT ![ent_off(c)] = v] \in Sector
    BY Zenon DEF TypeOK, Sector
  <1> QED
    BY <1>1 DEF Written, TypeOK

Inv == TypeOK /\ CacheMatchesDisk /\ SectorsAreCachedOnce

(* Writing the first n copies and dropping them from the cache keeps the   *)
(* invariant.                                                              *)
LEMMA WriteAndEvict ==
    ASSUME Inv, NEW c \in Cluster, NEW v \in Value, NEW n \in Nat,
           disk' = Written(c, v, n),
           fat_cache_evict({fat_sec(i, c) : i \in 0 .. n - 1}),
           UNCHANGED fat_cache_next
    PROVE  Inv'
PROOF
  <1> DEFINE gone == {fat_sec(i, c) : i \in 0 .. n - 1}
  <1>1. \A i \in Slot : fat_cache'[i] = IF fat_cache[i].lba \in gone THEN Empty ELSE fat_cache[i]
    BY DEF fat_cache_evict
  <1>2. \A i \in Slot : fat_cache[i] \in [lba : Lba \cup {NoLba}, data : Sector]
    BY DEF Inv, TypeOK
  <1>e. Empty \in [lba : Lba \cup {NoLba}, data : Sector] /\ Empty.lba = NoLba
    <2>1. disk[FatStart] \in Sector
      BY FirstSector DEF Inv, TypeOK
    <2> QED
      BY <2>1, EmptyType
  <1>3. \A i \in Slot : fat_cache'[i] \in [lba : Lba \cup {NoLba}, data : Sector]
    BY <1>1, <1>2, <1>e
  <1>4. TypeOK'
    <2>1. fat_cache' \in [Slot -> [lba : Lba \cup {NoLba}, data : Sector]]
      BY <1>3 DEF fat_cache_evict
    <2>2. disk' \in [Lba -> Sector]
      BY WrittenType DEF Inv
    <2> QED
      BY <2>1, <2>2 DEF Inv, TypeOK
  <1>5. \A i \in Slot : fat_cache'[i].lba # NoLba =>
           /\ fat_cache'[i] = fat_cache[i]
           /\ fat_cache[i].lba \in Lba /\ fat_cache[i].lba \notin gone
    BY <1>1, <1>2, <1>e
  <1>6. \A l \in Lba : l \notin gone => disk'[l] = disk[l]
    BY DEF Written
  <1>7. CacheMatchesDisk'
    BY <1>5, <1>6 DEF Inv, CacheMatchesDisk
  <1>8. SectorsAreCachedOnce'
    BY <1>1, <1>2, <1>5 DEF Inv, SectorsAreCachedOnce
  <1> QED
    BY <1>4, <1>7, <1>8 DEF Inv

(* Filling the next slot keeps the invariant.                              *)
LEMMA Fill ==
    ASSUME Inv, NEW c \in Cluster, fat_cache_get(c)
    PROVE  Inv'
PROOF
  <1> DEFINE lba == fat_sec(0, c)
  <1>1. lba \in Lba /\ lba # NoLba
    BY FirstCopy, NoLbaIsNone
  <1> HIDE DEF lba
  <1>2. /\ \A i \in Slot : fat_cache[i].lba # lba
        /\ fat_cache_next' = (fat_cache_next + 1) % FAT_CACHE_SIZE
        /\ \/ fat_cache' = [fat_cache EXCEPT ![fat_cache_next] = [lba |-> lba, data |-> disk[lba]]]
           \/ UNCHANGED fat_cache
        /\ UNCHANGED disk
    BY DEF fat_cache_get, Cached, lba
  <1>3. fat_cache_next' \in Slot
    BY <1>2, FatAssumption DEF Inv, TypeOK, Slot
  <1>4. CASE UNCHANGED fat_cache
    BY <1>2, <1>3, <1>4 DEF Inv, TypeOK, CacheMatchesDisk, SectorsAreCachedOnce
  <1>5. CASE fat_cache' = [fat_cache EXCEPT ![fat_cache_next] = [lba |-> lba, data |-> disk[lba]]]
    <2>1. disk[lba] \in Sector
      BY <1>1 DEF Inv, TypeOK
    <2>2. TypeOK'
      BY <1>1, <1>2, <1>3, <1>5, <2>1 DEF Inv, TypeOK
    <2>3. \A i \in Slot : fat_cache'[i] = IF i = fat_cache_next
                                          THEN [lba |-> lba, data |-> disk[lba]] ELSE fat_cache[i]
      BY <1>5 DEF Inv, TypeOK
    <2>4. CacheMatchesDisk'
      BY <1>2, <2>3 DEF Inv, CacheMatchesDisk
    <2>5. SectorsAreCachedOnce'
      BY <1>2, <2>3 DEF Inv, SectorsAreCachedOnce
    <2> QED
      BY <2>2, <2>4, <2>5 DEF Inv
  <1> QED
    BY <1>2, <1>4, <1>5

(* The FAT cache is coherent (fat_cache_get, fat_cache_evict and           *)
(* fat16_set_entry) if no write fails after the data went out.             *)
THEOREM CacheIsCoherent ==
    ASSUME "late" \notin Failures
    PROVE  Spec => [](TypeOK /\ CacheMatchesDisk /\ SectorsAreCachedOnce)
PROOF
  <1>1. Init => Inv
    <2> SUFFICES ASSUME Init PROVE Inv
      OBVIOUS
    <2>1. PICK s \in Sector : disk = [l \in Lba |-> s]
      BY DEF Init
    <2>2. Empty \in [lba : Lba \cup {NoLba}, data : Sector] /\ Empty.lba = NoLba
      BY <2>1, EmptyType
    <2>3. 0 \in Slot
      BY FatAssumption DEF Slot
    <2> QED
      BY <2>1, <2>2, <2>3 DEF Init, Inv, TypeOK, CacheMatchesDisk, SectorsAreCachedOnce
  <1>2. Inv /\ [Next]_vars => Inv'
    <2> SUFFICES ASSUME Inv, [Next]_vars PROVE Inv'
      OBVIOUS
    <2>1. ASSUME NEW c \in Cluster, fat_cache_get(c) PROVE Inv'
      BY <2>1, Fill
    <2>2. ASSUME NEW c \in Cluster, NEW v \in Value, fat16_set_entry(c, v) PROVE Inv'
      <3>1. Copy = 0 .. fat_count - 1 /\ fat_count \in Nat
        BY FatAssumption DEF Copy
      <3> QED
        BY <2>2, <3>1, WriteAndEvict DEF fat16_set_entry
    <2>3. ASSUME NEW c \in Cluster, NEW v \in Value, NEW n \in Copy, NEW how \in WriteFailures,
                 fat16_set_entry_fails(c, v, n, how)
          PROVE  Inv'
      <3>1. n \in Nat /\ how # "late"
        BY FatAssumption DEF Copy, WriteFailures
      <3> QED
        BY <2>3, <3>1, WriteAndEvict DEF fat16_set_entry_fails
    <2>4. CASE UNCHANGED vars
      BY <2>4 DEF vars, Inv, TypeOK, CacheMatchesDisk, SectorsAreCachedOnce
    <2> QED
      BY <2>1, <2>2, <2>3, <2>4 DEF Next
  <1> QED
    BY <1>1, <1>2, PTL DEF Spec, Inv
=============================================================================
