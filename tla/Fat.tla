-------------------------------- MODULE Fat --------------------------------
(***************************************************************************)
(* The file allocation table of libfat                                     *)
(* (modules/libfat/file_allocation_table.c).  The table is kept as the     *)
(* bytes on the disc, so that the packing of its entries is part of the    *)
(* model.  p stands for the partition: its table and the counters of       *)
(* partition->fat that allocation changes, except numberLastAllocCluster,  *)
(* which nothing reads.                                                    *)
(***************************************************************************)
EXTENDS Integers, Sequences, FiniteSets

CONSTANTS
    lastCluster,        \* partition->fat.lastCluster
    FilesysTypes,       \* the kinds of partition
    Following           \* what the table's bytes behind the last entry hold

ASSUME FatAssumption ==
    /\ lastCluster \in Nat /\ lastCluster >= 2
    /\ FilesysTypes \subseteq {"FS_FAT12", "FS_FAT16", "FS_FAT32"}
    /\ Following \in 0 .. 255

CLUSTER_FREE == 0
CLUSTER_FIRST == 2
CLUSTER_EOF == 268435455                    \* 0x0FFFFFFF
CLUSTER_ERROR == 2147483647                 \* above every cluster, as 0xFFFFFFFF is

Clusters == CLUSTER_FIRST .. lastCluster
IsValidCluster(c) == c \in Clusters

EntryBits(type) == CASE type = "FS_FAT12" -> 12
                     [] type = "FS_FAT16" -> 16
                     [] type = "FS_FAT32" -> 32

\* The bytes of the entries of all clusters and of one more.
TableBytes(type) == 0 .. ((lastCluster + 2) * EntryBits(type) + 7) \div 8 - 1

(***************************************************************************)
(* The entries can tell all clusters from the marks for the end of a       *)
(* chain.  FAT_partition_constructor chooses the type by the number of     *)
(* clusters, which it takes to be less than 2^28.                          *)
(***************************************************************************)
EntriesFit ==
    /\ "FS_FAT12" \in FilesysTypes => lastCluster <= 4085
    /\ "FS_FAT16" \in FilesysTypes => lastCluster <= 65525
    /\ "FS_FAT32" \in FilesysTypes => lastCluster <= 268435445

\* n steps of a loop that ends by leaving its state alone.
Iterate(Step(_), s, n) ==
    LET state[i \in 0 .. n] == IF i = 0 THEN s ELSE Step(state[i - 1])
    IN  state[n]

-----------------------------------------------------------------------------
(* The entries *)

EndOfFile(v, limit) == IF v >= limit THEN CLUSTER_EOF ELSE v

\* The first byte of the entry of c.
EntryAt(p, c) == (c * EntryBits(p.filesysType)) \div 8

\* The entry of c, which starts at byte at of table t, in a table of each type.
Fat12Entry(c, word) == EndOfFile(IF c % 2 = 1 THEN word \div 16 ELSE word % 4096, 4087)
Fat16Entry(word) == EndOfFile(word, 65527)
Fat32Entry(word, high) == IF high >= 4096 THEN CLUSTER_EOF ELSE EndOfFile(word + 65536 * high, 268435447)
EntryOf(type, t, c, at) ==
    CASE type = "FS_FAT12" -> Fat12Entry(c, t[at] + 256 * t[at + 1])
      [] type = "FS_FAT16" -> Fat16Entry(t[at] + 256 * t[at + 1])
      [] type = "FS_FAT32" -> Fat32Entry(t[at] + 256 * t[at + 1], t[at + 2] + 256 * t[at + 3])

\* The cluster linked from c.
NextCluster(p, c) ==
    IF c = CLUSTER_FREE THEN CLUSTER_FREE ELSE EntryOf(p.filesysType, p.table, c, EntryAt(p, c))

\* Two clusters share a byte of a FAT12 table, each has a nibble of it.
PutEntry(p, c, v, at) ==
    CASE p.filesysType = "FS_FAT12" /\ c % 2 = 1 ->
            [p EXCEPT !.table[at] = (v % 16) * 16 + (@ % 16), !.table[at + 1] = (v \div 16) % 256]
      [] p.filesysType = "FS_FAT12" /\ c % 2 = 0 ->
            [p EXCEPT !.table[at] = v % 256, !.table[at + 1] = ((v \div 256) % 16) + (@ \div 16) * 16]
      [] p.filesysType = "FS_FAT16" ->
            [p EXCEPT !.table[at] = v % 256, !.table[at + 1] = (v \div 256) % 256]
      [] p.filesysType = "FS_FAT32" ->
            [p EXCEPT !.table[at] = v % 256, !.table[at + 1] = (v \div 256) % 256,
                      !.table[at + 2] = (v \div 65536) % 256, !.table[at + 3] = v \div 16777216]
WriteFatEntry(p, c, v) == IF IsValidCluster(c) THEN PutEntry(p, c, v, EntryAt(p, c)) ELSE p

-----------------------------------------------------------------------------
(* Allocation *)

IsFree(p, c) == NextCluster(p, c) = CLUSTER_FREE
FreeClusters(p) == {c \in Clusters : IsFree(p, c)}

\* _FAT_fat_freeClusterCount
FreeClusterCount(p) == Cardinality(FreeClusters(p))

Least(S) == CHOOSE c \in S : \A d \in S : c <= d

\* Mutant: a first free cluster that is known is taken without looking whether it is still free.
FirstFree_Known(p) ==
    IF IsValidCluster(p.firstFree) THEN p.firstFree
    ELSE IF FreeClusters(p) = {} THEN CLUSTER_ERROR
    ELSE Least(FreeClusters(p))

(***************************************************************************)
(* The search for a free cluster starts at firstFree, which may be behind  *)
(* the last cluster after a failure, and goes around the table once.       *)
(***************************************************************************)
FirstFree(p) ==
    LET start == IF p.firstFree < CLUSTER_FIRST THEN CLUSTER_FIRST ELSE p.firstFree
        ThenAll(above, all) == IF above \cup all = {} THEN CLUSTER_ERROR
                               ELSE Least(IF above # {} THEN above ELSE all)
    IN  ThenAll({c \in start .. (IF start > lastCluster THEN start ELSE lastCluster) : IsFree(p, c)},
                FreeClusters(p))

\* The cluster free is taken and linked from c.
Linked(p, c, free) ==
    IF free = CLUSTER_ERROR
    THEN [p |-> [p EXCEPT !.firstFree = lastCluster + 1], cluster |-> CLUSTER_ERROR]
    ELSE [p |-> WriteFatEntry(WriteFatEntry([p EXCEPT !.firstFree = free,
                                                      !.numberFreeCluster = IF @ > 0 THEN @ - 1 ELSE 0],
                                            c, free), free, CLUSTER_EOF),
          cluster |-> free]

\* The partition with a cluster appended to c, or a first one if c is free, and that cluster.
LinkFreeCluster(p, c) ==
    IF c > lastCluster THEN [p |-> p, cluster |-> CLUSTER_ERROR]
    ELSE IF IsValidCluster(NextCluster(p, c)) THEN [p |-> p, cluster |-> NextCluster(p, c)]
    ELSE Linked(p, c, FirstFree(p))

\* One cluster of a chain is freed.
Cleared1(s) ==
    IF s.c \in {CLUSTER_EOF, CLUSTER_FREE, CLUSTER_ERROR} THEN s
    ELSE [p |-> [WriteFatEntry(s.p, s.c, CLUSTER_FREE)
                    EXCEPT !.numberFreeCluster = IF @ < lastCluster + 1 THEN @ + 1 ELSE @],
          c |-> NextCluster(s.p, s.c)]

\* Frees the chain that starts at c.
ClearLinks(p, c) ==
    IF ~IsValidCluster(c) THEN p
    ELSE Iterate(Cleared1, [p |-> [p EXCEPT !.firstFree = IF c < @ THEN c ELSE @], c |-> c], lastCluster).p

\* The last of the first n clusters of the chain from c.
Follow(p, c, n) ==
    LET Unless(d, next) == IF next \in {CLUSTER_FREE, CLUSTER_EOF} THEN d ELSE next
    IN  Iterate(LAMBDA d : Unless(d, NextCluster(p, d)), c, n - 1)

\* _FAT_fat_lastCluster
LastClusterOf(p, c) == Follow(p, c, lastCluster + 1)

\* The clusters behind last are freed.
DropAfter(p, last, next) == IF next \in {CLUSTER_FREE, CLUSTER_EOF} THEN p ELSE ClearLinks(p, next)

\* Mutant: the last cluster that is kept is not marked as the end.
TrimChain_NoEnd(p, c, chainLength) ==
    LET Trimmed(last) == [p |-> DropAfter(p, last, NextCluster(p, last)), cluster |-> last]
    IN  IF chainLength = 0
        THEN [p |-> ClearLinks(p, c), cluster |-> CLUSTER_FREE]
        ELSE Trimmed(Follow(p, c, chainLength))

\* Drops all clusters past the first chainLength.
TrimChain(p, c, chainLength) ==
    LET Trimmed(last) == [p |-> WriteFatEntry(DropAfter(p, last, NextCluster(p, last)), last, CLUSTER_EOF),
                          cluster |-> last]
    IN  IF chainLength = 0
        THEN [p |-> ClearLinks(p, c), cluster |-> CLUSTER_FREE]
        ELSE Trimmed(Follow(p, c, chainLength))

-----------------------------------------------------------------------------
(***************************************************************************)
(* The information sector of a FAT32 partition, which keeps the number of  *)
(* free clusters while the partition is not mounted.                       *)
(***************************************************************************)

NoFSinfo == [signed |-> FALSE, numberFreeCluster |-> 0]

\* What FAT_partition_destructor leaves there.
WriteFSinfo(p, info) ==
    IF p.filesysType = "FS_FAT32" /\ info.signed
    THEN [info EXCEPT !.numberFreeCluster = p.numberFreeCluster]
    ELSE info

(***************************************************************************)
(* _FAT_partition_readFSinfo, when a partition is mounted.  The sector is  *)
(* created if it is not there, or says that there is no free cluster.      *)
(***************************************************************************)
ReadFSinfo(p, info) ==
    LET Counted(n) == [p |-> [p EXCEPT !.numberFreeCluster = n],
                       info |-> [signed |-> TRUE, numberFreeCluster |-> n]]
    IN  IF p.filesysType # "FS_FAT32" THEN [p |-> p, info |-> info]
        ELSE Counted(IF ~info.signed \/ info.numberFreeCluster = 0 THEN FreeClusterCount(p)
                     ELSE info.numberFreeCluster)

-----------------------------------------------------------------------------
(* For stating properties *)

\* A partition with no cluster in use, before it is mounted.
EmptyPartition(type) ==
    [filesysType |-> type,
     table |-> [i \in TableBytes(type) |->
                    IF i >= ((lastCluster + 1) * EntryBits(type) + 7) \div 8 THEN Following ELSE 0],
     firstFree |-> CLUSTER_FIRST,
     numberFreeCluster |-> 0]

\* The chain from c as a sequence of clusters.
Chain(p, c) ==
    LET With(s, next) == IF IsValidCluster(next) /\ Len(s) < lastCluster THEN Append(s, next) ELSE s
    IN  IF IsValidCluster(c) THEN Iterate(LAMBDA s : With(s, NextCluster(p, s[Len(s)])), <<c>>, lastCluster)
        ELSE << >>

IsPartition(p) ==
    /\ p.filesysType \in FilesysTypes
    /\ p.table \in [TableBytes(p.filesysType) -> 0 .. 255]
    /\ p.firstFree \in CLUSTER_FREE .. lastCluster + 1
    /\ p.numberFreeCluster \in 0 .. lastCluster + 1
=============================================================================
