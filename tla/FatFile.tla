------------------------------ MODULE FatFile ------------------------------
(***************************************************************************)
(* Files of libfat (modules/libfat/fatfile.c): every open file keeps where *)
(* it is twice, as an offset and as a cluster, a sector and a byte, and    *)
(* the length of its chain must fit the size it remembers.  Each call      *)
(* holds the partition's lock and is one step.  The cache is transparent   *)
(* (see FatCache) and a file's directory entry is its first cluster and    *)
(* its size.  Byte n that is ever written to file f is <<f, n>>, so that   *)
(* a byte that lands in a wrong place is seen.                             *)
(***************************************************************************)
EXTENDS Fat

CONSTANTS
    Files,
    bytesPerSector, sectorsPerCluster,
    MaxSize,            \* bound: offsets
    Lengths,            \* bound: lengths of a read or write
    Offsets,            \* bound: offsets for a seek or truncation
    Modes,              \* bound: how files are opened
    MaxTaken,           \* bound: clusters of other files
    Client              \* what the client takes care of

bytesPerCluster == bytesPerSector * sectorsPerCluster

ASSUME FatFileAssumption ==
    /\ bytesPerSector \in Nat \ {0} /\ sectorsPerCluster \in Nat \ {0}
    /\ MaxSize \in Nat /\ MaxTaken \in Nat
    /\ Lengths \subseteq Nat \ {0} /\ Offsets \subseteq 0 .. MaxSize
    /\ Modes \subseteq {"r", "w", "rw", "w+trunc", "w+append", "rw+append"}
    /\ Client \subseteq {"position", "space", "reread"}

VARIABLES
    p,                  \* the partition
    fsinfo,             \* its information sector
    data,               \* the bytes of all clusters
    entry,              \* the files' directory entries
    file,               \* the FILE_STRUCT of each file
    content,            \* history: what each file contains
    taken               \* the clusters of files that are not looked at

vars == <<p, fsinfo, data, entry, file, content, taken>>

Zero == <<"zero">>
Junk == <<"junk">>

Start(cluster) == [cluster |-> cluster, sector |-> 0, byte |-> 0]

Closed ==
    [inUse |-> FALSE, read |-> FALSE, write |-> FALSE, append |-> FALSE, modified |-> FALSE,
     filesize |-> 0, startCluster |-> CLUSTER_FREE, currentPosition |-> 0,
     rwPosition |-> Start(CLUSTER_FREE), appendPosition |-> Start(CLUSTER_FREE)]

DiscBytes == 0 .. (lastCluster - 1) * bytesPerCluster - 1

\* A partition in which the clusters S are in use, each as a chain of its own.
PartitionWith(type, S) ==
    LET use[c \in 1 .. lastCluster] ==
            IF c = 1 THEN EmptyPartition(type)
            ELSE IF c \in S THEN WriteFatEntry(use[c - 1], c, CLUSTER_EOF) ELSE use[c - 1]
    IN  use[lastCluster]

Init ==
    /\ taken \in {S \in SUBSET Clusters : Cardinality(S) <= MaxTaken}
    /\ \E type \in FilesysTypes :
        \E mounted \in {ReadFSinfo(PartitionWith(type, taken), NoFSinfo)} :
            p = mounted.p /\ fsinfo = mounted.info
    /\ data = [a \in DiscBytes |-> Junk]
    /\ entry = [f \in Files |-> [cluster |-> CLUSTER_FREE, fileSize |-> 0]]
    /\ file = [f \in Files |-> Closed]
    /\ content = [f \in Files |-> << >>]

-----------------------------------------------------------------------------
(* The data area *)

\* Where a position is on the disc.
ByteOf(pos) ==
    (pos.cluster - CLUSTER_FIRST) * bytesPerCluster + pos.sector * bytesPerSector + pos.byte

Written(d, at, n, Value(_)) ==
    [a \in DOMAIN d |-> IF a \in at .. at + n - 1 THEN Value(a - at) ELSE d[a]]

Cleared(d, at, n) == Written(d, at, n, LAMBDA i : Zero)

\* What a free cluster holds is of no interest.
Scrubbed(q, d) ==
    [a \in DOMAIN d |-> IF IsFree(q, CLUSTER_FIRST + a \div bytesPerCluster) THEN Junk ELSE d[a]]

Minimum(m, n) == IF m < n THEN m ELSE n

-----------------------------------------------------------------------------
(* FAT_open and FAT_close *)

\* Mutant: a file that ends with its last cluster is appended to in that cluster.
AppendPosition_NoFlag(start, size) ==
    [cluster |-> LastClusterOf(p, start),
     sector |-> (size % bytesPerCluster) \div bytesPerSector, byte |-> size % bytesPerSector]

AppendPosition(start, size) ==
    [cluster |-> LastClusterOf(p, start),
     sector |-> IF size > 0 /\ size % bytesPerCluster = 0 THEN sectorsPerCluster
                ELSE (size % bytesPerCluster) \div bytesPerSector,
     byte |-> size % bytesPerSector]

FAT_open(f, mode) ==
    LET cut == mode = "w+trunc" /\ entry[f].cluster # CLUSTER_FREE
        start == IF cut THEN CLUSTER_FREE ELSE entry[f].cluster
        size == IF cut THEN 0 ELSE entry[f].fileSize
        append == mode \in {"w+append", "rw+append"}
    IN  /\ ~file[f].inUse
        /\ p' = IF cut THEN ClearLinks(p, entry[f].cluster) ELSE p
        /\ file' = [file EXCEPT ![f] =
                      [inUse |-> TRUE,
                       read |-> mode \in {"r", "rw", "rw+append"},
                       write |-> mode # "r",
                       append |-> append,
                       modified |-> cut,
                       filesize |-> size,
                       startCluster |-> start,
                       currentPosition |-> 0,
                       rwPosition |-> Start(start),
                       appendPosition |-> IF append THEN AppendPosition(start, size) ELSE Start(start)]]
        /\ content' = [content EXCEPT ![f] = IF cut THEN << >> ELSE @]
        /\ data' = Scrubbed(p', data)
        /\ UNCHANGED <<entry, fsinfo, taken>>

\* FAT_syncToDisc: the directory entry takes over what has changed.
Synced(f) ==
    IF file[f].write /\ file[f].modified
    THEN [entry EXCEPT ![f] = [cluster |-> file[f].startCluster, fileSize |-> file[f].filesize]]
    ELSE entry

FAT_fsync(f) ==
    /\ file[f].inUse
    /\ entry' = Synced(f)
    /\ file' = [file EXCEPT ![f].modified = FALSE]
    /\ UNCHANGED <<p, data, content, fsinfo, taken>>

FAT_close(f) ==
    /\ file[f].inUse
    /\ entry' = IF file[f].write THEN Synced(f) ELSE entry
    /\ file' = [file EXCEPT ![f] = Closed]
    /\ UNCHANGED <<p, data, content, fsinfo, taken>>

-----------------------------------------------------------------------------
(***************************************************************************)
(* FAT_read, in the order of the code: up to the next sector, up to the    *)
(* next cluster, whole clusters in contiguous chunks, sectors, and what is *)
(* left.  r has the position, the bytes that remain and those read.        *)
(***************************************************************************)
Take(r, pos, n) ==
    [r EXCEPT !.remain = @ - n,
              !.got = @ \o [i \in 1 .. n |-> LET a == ByteOf(pos) + i - 1
                                             IN  IF a \in DiscBytes THEN data[a] ELSE Junk]]

\* The position n bytes further on in its sector.
Advance(pos, n) ==
    IF pos.byte + n >= bytesPerSector
    THEN [pos EXCEPT !.byte = 0, !.sector = @ + 1]
    ELSE [pos EXCEPT !.byte = @ + n]

ReadToSector(r) ==
    LET n == Minimum(bytesPerSector - r.pos.byte, r.remain)
    IN  IF n < bytesPerSector
        THEN [Take(r, r.pos, n) EXCEPT !.pos = Advance(r.pos, n)]
        ELSE r

\* The whole sectors to transfer before the cluster ends.
SectorsToCluster(r) ==
    IF r.remain > (sectorsPerCluster - r.pos.sector) * bytesPerSector
    THEN sectorsPerCluster - r.pos.sector
    ELSE r.remain \div bytesPerSector

ReadToCluster(r) ==
    LET n == SectorsToCluster(r)
    IN  [Take(r, r.pos, n * bytesPerSector) EXCEPT !.pos.sector = @ + n]

\* After the cluster `last` the position is in `next`, or waits for a cluster to be allocated.
ReadOnto(r, last, next) ==
    IF r.remain = 0 /\ next = CLUSTER_EOF
    THEN [r EXCEPT !.pos.cluster = last, !.pos.sector = sectorsPerCluster]
    ELSE IF ~IsValidCluster(next) THEN [r EXCEPT !.ok = FALSE]
    ELSE [r EXCEPT !.pos.cluster = next, !.pos.sector = 0]

ReadNextCluster(r) ==
    IF r.pos.sector >= sectorsPerCluster
    THEN ReadOnto(r, r.pos.cluster, NextCluster(p, r.pos.cluster))
    ELSE r

\* Mutant: all clusters of a file are taken to be adjacent.
Contiguous_All(c, max) == max

\* The number of clusters from c that are adjacent on the disc, at most max.
Contiguous(c, max) ==
    CHOOSE k \in 1 .. max :
        /\ \A i \in 1 .. k - 1 : NextCluster(p, c + i - 1) = c + i
        /\ k = max \/ NextCluster(p, c + k - 1) # c + k

\* k adjacent clusters are read at once.
Chunked(r, k) ==
    ReadOnto(Take(r, Start(r.pos.cluster), k * bytesPerCluster),
             r.pos.cluster + k - 1, NextCluster(p, r.pos.cluster + k - 1))

ReadWholeClusters(r) ==
    LET Chunk(s) ==
            IF s.remain < bytesPerCluster \/ ~s.ok THEN s
            ELSE Chunked(s, Contiguous(s.pos.cluster, s.remain \div bytesPerCluster))
    IN  Iterate(Chunk, r, lastCluster)

ReadSectors(r) ==
    LET n == r.remain \div bytesPerSector
    IN  IF n > 0 /\ r.ok
        THEN [Take(r, Start(r.pos.cluster), n * bytesPerSector) EXCEPT !.pos.sector = @ + n]
        ELSE r

ReadRest(r) ==
    IF r.remain > 0 /\ r.ok
    THEN [Take(r, [r.pos EXCEPT !.byte = 0], r.remain) EXCEPT !.pos.byte = @ + r.remain]
    ELSE r

\* What FAT_read(f, len) does.
ReadFrom(f, len) ==
    LET h == file[f]
    IN  ReadRest(ReadSectors(ReadWholeClusters(ReadNextCluster(ReadToCluster(ReadToSector(
            [pos |-> h.rwPosition, remain |-> Minimum(len, h.filesize - h.currentPosition),
             got |-> << >>, ok |-> TRUE]))))))

\* The next byte is in a cluster that the position has not moved on to.
AtOldEnd(h) == h.rwPosition.sector = sectorsPerCluster /\ h.currentPosition < h.filesize

\* A file has bytes to read at its position.
Readable(f) ==
    /\ file[f].inUse /\ file[f].read
    /\ file[f].currentPosition < file[f].filesize /\ file[f].startCluster # CLUSTER_FREE
    /\ "reread" \in Client => ~AtOldEnd(file[f])

FAT_read(f, len) ==
    /\ Readable(f)
    /\ \E r \in {ReadFrom(f, len)} :
           file' = [file EXCEPT ![f].rwPosition = r.pos, ![f].currentPosition = @ + Len(r.got)]
    /\ UNCHANGED <<p, data, entry, content, fsinfo, taken>>

-----------------------------------------------------------------------------
(***************************************************************************)
(* FAT_write, in the same order.  w has the partition and the data as they *)
(* are changed, the position, the bytes that remain, and the offset in the *)
(* file of the next one.                                                   *)
(***************************************************************************)

\* The position moves on to the cluster that was linked or taken.
MoveOnto(w, link) ==
    IF IsValidCluster(link.cluster)
    THEN [w EXCEPT !.p = link.p, !.pos.cluster = link.cluster, !.pos.sector = 0]
    ELSE [w EXCEPT !.p = link.p, !.ok = FALSE]

\* _FAT_check_position_for_next_cluster: a position behind its cluster moves on, if more is to come.
CheckPosition(w, remain) ==
    LET Link(next) == IF next \in {CLUSTER_EOF, CLUSTER_FREE}
                      THEN LinkFreeCluster(w.p, w.pos.cluster)
                      ELSE [p |-> w.p, cluster |-> next]
    IN  IF remain = 0 \/ ~w.ok \/ w.pos.sector < sectorsPerCluster THEN w
        ELSE IF w.pos.sector > sectorsPerCluster THEN [w EXCEPT !.ok = FALSE]
        ELSE MoveOnto(w, Link(NextCluster(w.p, w.pos.cluster)))

\* n bytes of file f go to a position.
Give(f, w, pos, n) ==
    [w EXCEPT !.data = Written(@, ByteOf(pos), n, LAMBDA i : <<f, w.offset + i>>),
              !.offset = @ + n, !.remain = @ - n]

WriteToSector(f, w) ==
    LET n == Minimum(bytesPerSector - w.pos.byte, w.remain)
    IN  IF n < bytesPerSector /\ w.ok
        THEN [Give(f, w, w.pos, n) EXCEPT !.pos = Advance(w.pos, n)]
        ELSE w

WriteToCluster(f, w) ==
    LET n == SectorsToCluster(w)
    IN  IF n > 0 /\ n < sectorsPerCluster /\ w.ok
        THEN [Give(f, w, w.pos, n * bytesPerSector) EXCEPT !.pos.sector = @ + n]
        ELSE w

\* The chunk g when v is what was found behind it for the write w.
Found(g, v, w) ==
    LET found == [g EXCEPT !.w = [v EXCEPT !.pos = w.pos]]
    IN  IF ~v.ok THEN [found EXCEPT !.done = TRUE]
        ELSE IF v.pos.cluster # g.last + 1 THEN [found EXCEPT !.done = TRUE, !.next = v.pos.cluster]
        ELSE [found EXCEPT !.next = v.pos.cluster, !.last = v.pos.cluster, !.size = @ + bytesPerCluster]

(***************************************************************************)
(* The clusters for one chunk: clusters are found or allocated ahead while *)
(* they are adjacent.  g has the chunk's last cluster and its size, and    *)
(* the cluster that was found last, which may not be adjacent any more.    *)
(***************************************************************************)
Group(w) ==
    LET More(g) ==
            IF g.done \/ ~g.w.ok \/ g.size + bytesPerCluster >= w.remain THEN g
            ELSE Found(g, CheckPosition([g.w EXCEPT !.pos = [@ EXCEPT !.cluster = g.next,
                                                                      !.sector = sectorsPerCluster]],
                                        w.remain - g.size), w)
    IN  Iterate(More, [w |-> w, last |-> w.pos.cluster, next |-> w.pos.cluster,
                       size |-> bytesPerCluster, done |-> FALSE], lastCluster)

\* The chunk g is written from the cluster first on.
GiveGroup(f, g, first) ==
    [Give(f, g.w, Start(first), g.size) EXCEPT
        !.pos.cluster = g.next, !.pos.sector = IF g.last # g.next THEN 0 ELSE sectorsPerCluster]

WriteWholeClusters(f, w) ==
    LET Write(t) == IF t.ok THEN GiveGroup(f, Group(t), t.pos.cluster) ELSE t
        Chunk(s) == IF s.remain < bytesPerCluster \/ ~s.ok THEN s ELSE Write(CheckPosition(s, s.remain))
    IN  Iterate(Chunk, w, lastCluster)

WriteSectors(f, w) ==
    LET n == w.remain \div bytesPerSector
    IN  IF n > 0 /\ w.ok
        THEN [Give(f, w, Start(w.pos.cluster), n * bytesPerSector) EXCEPT !.pos.sector = @ + n]
        ELSE w

\* The last sector is erased first when the file grows.
WriteRest(f, w, growing) ==
    LET pos == [w.pos EXCEPT !.byte = 0]
        erased == IF growing THEN [w EXCEPT !.data = Cleared(@, ByteOf(pos), bytesPerSector)] ELSE w
    IN  IF w.remain > 0 /\ w.ok
        THEN [Give(f, erased, pos, w.remain) EXCEPT !.pos.byte = @ + w.remain]
        ELSE w

\* Everything FAT_write does once it knows where.
WriteAt(f, w, growing) ==
    LET End(s) == WriteRest(f, WriteSectors(f, CheckPosition(s, s.remain)), growing)
    IN  End(WriteWholeClusters(f, WriteToCluster(f, WriteToSector(f, CheckPosition(w, w.remain)))))

(***************************************************************************)
(* _FAT_file_extend: the file's bytes up to currentPosition become zero.   *)
(* The result has ok = FALSE, and the clusters that were taken stay in the *)
(* chain, if the disc is full.                                             *)
(***************************************************************************)
NewCluster(w) == MoveOnto(w, LinkFreeCluster(w.p, w.pos.cluster))

ClearRest(w, n) ==
    [w EXCEPT !.data = Cleared(@, ByteOf(w.pos), n), !.remain = @ - n, !.pos.byte = @ + n]

\* The rest of a sector that has some of the file's bytes.
ExtendToSector(w) ==
    IF w.pos.byte > 0
    THEN [ClearRest(w, bytesPerSector - w.pos.byte) EXCEPT !.pos.byte = 0, !.pos.sector = @ + 1]
    ELSE w

ExtendSectors(w) ==
    LET Clear(t) == IF ~t.ok THEN t
                    ELSE [t EXCEPT !.data = Cleared(@, ByteOf(t.pos), bytesPerSector),
                                   !.remain = @ - bytesPerSector, !.pos.sector = @ + 1]
        Sector(s) == IF s.remain < bytesPerSector \/ ~s.ok THEN s
                     ELSE Clear(IF s.pos.sector >= sectorsPerCluster THEN NewCluster(s) ELSE s)
    IN  Iterate(Sector, w, MaxSize)

ExtendRest(w) == IF w.ok THEN ClearRest(w, w.remain) ELSE w

\* From a position in the file's last cluster.
ExtendFrom(w) ==
    LET End(s) == ExtendRest(CheckPosition(s, s.remain))
    IN  IF ~w.ok THEN w
        ELSE IF w.remain < bytesPerSector - w.pos.byte THEN ClearRest(w, w.remain)
        ELSE End(ExtendSectors(ExtendToSector(w)))

\* A file that ends with its last cluster needs another one.
Extend(q, d, h) ==
    LET Begin(w) == IF h.filesize > 0 /\ w.pos.sector = 0 /\ w.pos.byte = 0 THEN NewCluster(w) ELSE w
    IN  ExtendFrom(Begin([p |-> q, data |-> d, remain |-> h.currentPosition - h.filesize, ok |-> TRUE,
                          pos |-> [cluster |-> LastClusterOf(q, h.startCluster),
                                   sector |-> (h.filesize % bytesPerCluster) \div bytesPerSector,
                                   byte |-> h.filesize % bytesPerSector]]))

\* A file without clusters gets its first one.
Begun(h) ==
    LET With(link) ==
            IF ~IsValidCluster(link.cluster) THEN [p |-> link.p, h |-> h, ok |-> FALSE]
            ELSE [p |-> link.p, ok |-> TRUE,
                  h |-> [h EXCEPT !.startCluster = link.cluster, !.rwPosition = Start(link.cluster),
                                  !.appendPosition = Start(link.cluster)]]
    IN  IF h.startCluster # CLUSTER_FREE THEN [p |-> p, h |-> h, ok |-> TRUE]
        ELSE With(LinkFreeCluster(p, CLUSTER_FREE))

\* With the zeros before offset n, if the file ends before it.
PaddedTo(s, n) == s \o [i \in 1 .. n - Len(s) |-> Zero]

\* The file's content after bytes at the offsets from .. to - 1 were written.
Overwritten(f, from, to) ==
    LET s == PaddedTo(content[f], to)
    IN  [i \in 1 .. Len(s) |-> IF i - 1 \in from .. to - 1 THEN <<f, i - 1>>
                               ELSE IF i > Len(content[f]) THEN Zero ELSE s[i]]

ClustersFor(size) == (size + bytesPerCluster - 1) \div bytesPerCluster

\* Does the client take care that a file can be extended to this size?
HasRoom(f, size) ==
    "space" \in Client =>
        ClustersFor(size) <= ClustersFor(file[f].filesize) + FreeClusterCount(p)

\* The offset a write starts at, and whether it starts behind the end of the file.
WriteOffset(h) == IF h.append THEN h.filesize ELSE h.currentPosition
Gap(h) == ~h.append /\ h.currentPosition > h.filesize

\* The file after the gap before a write was filled, or as it was if there is none.
Filled(b) ==
    IF b.ok /\ Gap(b.h) THEN Extend(b.p, data, b.h)
    ELSE [p |-> b.p, data |-> data, pos |-> b.h.rwPosition, ok |-> b.ok]

\* The bytes are written to h, which has no gap.
WriteBytes(f, h, len, ext) ==
    \E w \in {WriteAt(f, [p |-> ext.p, data |-> ext.data,
                          pos |-> IF h.append THEN h.appendPosition ELSE h.rwPosition,
                          remain |-> len, offset |-> WriteOffset(h), ok |-> TRUE],
                      h.append \/ WriteOffset(h) + len > h.filesize)} :
        /\ p' = w.p
        /\ data' = w.data
        /\ file' = [file EXCEPT ![f] =
              IF h.append
              THEN [h EXCEPT !.modified = TRUE, !.appendPosition = w.pos, !.filesize = w.offset]
              ELSE [h EXCEPT !.modified = TRUE, !.rwPosition = w.pos, !.currentPosition = w.offset,
                             !.filesize = IF w.offset > @ THEN w.offset ELSE @]]
        /\ content' = [content EXCEPT ![f] = Overwritten(f, WriteOffset(h), w.offset)]

FAT_write(f, len) ==
    /\ file[f].inUse /\ file[f].write
    /\ WriteOffset(file[f]) + len <= MaxSize
    /\ Gap(file[f]) => HasRoom(f, file[f].currentPosition)
    /\ "position" \in Client /\ file[f].append => file[f].currentPosition <= file[f].filesize
    /\ \E b \in {Begun(file[f])} : \E ext \in {Filled(b)} :
        \/ /\ ~b.ok
           /\ p' = b.p
           /\ UNCHANGED <<data, file, content>>
        \/ /\ b.ok /\ ~ext.ok
           /\ p' = ext.p
           /\ data' = ext.data
           /\ file' = [file EXCEPT ![f] = b.h]
           /\ UNCHANGED content
        \/ /\ ext.ok
           /\ WriteBytes(f, IF Gap(b.h) THEN [b.h EXCEPT !.rwPosition = ext.pos, !.filesize = b.h.currentPosition]
                            ELSE b.h, len, ext)
    /\ UNCHANGED <<entry, fsinfo, taken>>

-----------------------------------------------------------------------------
(* FAT_seek and FAT_ftruncate *)

(***************************************************************************)
(* Only a position inside the file is translated, from the current cluster *)
(* when it lies ahead.                                                     *)
(***************************************************************************)
ClustersPassed(h) ==
    h.currentPosition \div bytesPerCluster - (IF h.rwPosition.sector = sectorsPerCluster THEN 1 ELSE 0)

\* The clusters are followed; count is what is left to pass.
Passed(from, count) ==
    LET Unless(s, next) == IF s.count > 0 /\ next \notin {CLUSTER_FREE, CLUSTER_EOF}
                           THEN [cluster |-> next, count |-> s.count - 1]
                           ELSE s
    IN  Iterate(LAMBDA s : Unless(s, NextCluster(p, s.cluster)), [cluster |-> from, count |-> count], lastCluster)

SeekTo(h, pos, s) ==
    LET there == [cluster |-> s.cluster, sector |-> (pos % bytesPerCluster) \div bytesPerSector,
                  byte |-> pos % bytesPerSector]
    IN  IF s.count <= 0
        THEN [h EXCEPT !.currentPosition = pos, !.rwPosition = there]
        ELSE IF s.count = 1 /\ h.filesize = pos /\ there.sector = 0
        THEN [h EXCEPT !.currentPosition = pos,
                       !.rwPosition = [cluster |-> s.cluster, sector |-> sectorsPerCluster, byte |-> 0]]
        ELSE [h EXCEPT !.rwPosition = [there EXCEPT !.cluster = h.rwPosition.cluster]]

Seek(h, pos) ==
    IF pos > h.filesize \/ h.startCluster = CLUSTER_FREE
    THEN [h EXCEPT !.currentPosition = pos]
    ELSE SeekTo(h, pos,
                IF pos >= h.currentPosition
                THEN Passed(h.rwPosition.cluster, pos \div bytesPerCluster - ClustersPassed(h))
                ELSE Passed(h.startCluster, pos \div bytesPerCluster))

FAT_seek(f, pos) ==
    /\ file[f].inUse
    /\ file' = [file EXCEPT ![f] = Seek(file[f], pos)]
    /\ UNCHANGED <<p, data, entry, content, fsinfo, taken>>

\* A file is expanded like a write does it, but its position stays.
ExpandTo(f, newSize, q, h) ==
    \E ext \in {Extend(q, data, [h EXCEPT !.currentPosition = newSize])} :
        /\ p' = ext.p
        /\ data' = ext.data
        /\ file' = [file EXCEPT ![f] =
              [h EXCEPT !.filesize = newSize, !.modified = TRUE,
                        !.appendPosition = IF ~h.append THEN @ ELSE IF ext.ok THEN ext.pos ELSE h.rwPosition]]
        /\ content' = [content EXCEPT ![f] = PaddedTo(@, newSize)]

Expand(f, newSize) ==
    /\ HasRoom(f, newSize)
    /\ \E b \in {Begun(file[f])} :
        \/ /\ ~b.ok
           /\ p' = b.p
           /\ UNCHANGED <<data, file, content>>
        \/ /\ b.ok
           /\ ExpandTo(f, newSize, b.p, [b.h EXCEPT !.appendPosition = file[f].appendPosition])

\* A file that ends with a cluster keeps no cluster behind it.
Shrink(f, newSize) ==
    \E trim \in {TrimChain(p, file[f].startCluster, ClustersFor(newSize))} :
        LET end == [cluster |-> trim.cluster, byte |-> newSize % bytesPerSector,
                    sector |-> IF newSize % bytesPerCluster = 0 THEN sectorsPerCluster
                               ELSE (newSize % bytesPerCluster) \div bytesPerSector]
        IN  /\ p' = trim.p
            /\ data' = Scrubbed(p', data)
            /\ file' = [file EXCEPT ![f] =
                  [file[f] EXCEPT !.filesize = newSize, !.modified = TRUE,
                               !.startCluster = IF newSize = 0 THEN CLUSTER_FREE ELSE @,
                               !.appendPosition = IF newSize = 0 THEN Start(CLUSTER_FREE)
                                                  ELSE IF file[f].append THEN end ELSE @]]
            /\ content' = [content EXCEPT ![f] = SubSeq(@, 1, newSize)]

\* The cluster of the file's position is in its chain before and after the truncation.
PositionKept(h, newSize) ==
    h.currentPosition = 0 \/ (h.currentPosition <= h.filesize /\ h.currentPosition < newSize)

FAT_ftruncate(f, newSize) ==
    /\ file[f].inUse /\ file[f].write
    /\ "position" \in Client => PositionKept(file[f], newSize)
    /\ \/ newSize > file[f].filesize /\ Expand(f, newSize)
       \/ newSize < file[f].filesize /\ Shrink(f, newSize)
       \/ /\ newSize = file[f].filesize
          /\ file' = [file EXCEPT ![f].modified = TRUE]
          /\ UNCHANGED <<p, data, content>>
    /\ UNCHANGED <<entry, fsinfo, taken>>

-----------------------------------------------------------------------------

\* FAT_partition_destructor, and the partition is mounted again.
Remount ==
    /\ \E mounted \in {ReadFSinfo([p EXCEPT !.firstFree = CLUSTER_FIRST, !.numberFreeCluster = 0],
                                   WriteFSinfo(p, fsinfo))} :
           p' = mounted.p /\ fsinfo' = mounted.info
    /\ entry' = [f \in Files |-> Synced(f)[f]]
    /\ file' = [f \in Files |-> Closed]
    /\ UNCHANGED <<data, content, taken>>

Next ==
    \/ Remount
    \/ \E f \in Files :
        \/ \E mode \in Modes : FAT_open(f, mode)
        \/ \E len \in Lengths : FAT_read(f, len) \/ FAT_write(f, len)
        \/ \E pos \in Offsets : FAT_seek(f, pos) \/ FAT_ftruncate(f, pos)
        \/ FAT_fsync(f)
        \/ FAT_close(f)

Spec == Init /\ [][Next]_vars

-----------------------------------------------------------------------------
(* Properties *)

PositionType ==
    [cluster : {CLUSTER_FREE} \cup Clusters, sector : 0 .. sectorsPerCluster, byte : 0 .. bytesPerSector - 1]

\* Type invariant.
TypeOK ==
    /\ IsPartition(p)
    /\ \A f \in Files :
        /\ file[f].filesize \in 0 .. MaxSize /\ file[f].currentPosition \in 0 .. MaxSize
        /\ file[f].startCluster \in {CLUSTER_FREE} \cup Clusters
        /\ file[f].rwPosition \in PositionType /\ file[f].appendPosition \in PositionType
        /\ Len(content[f]) <= MaxSize

\* A file's first cluster and size, from its structure while it is open.
StartOf(f) == IF file[f].inUse THEN file[f].startCluster ELSE entry[f].cluster
SizeOf(f) == IF file[f].inUse THEN file[f].filesize ELSE entry[f].fileSize

(***************************************************************************)
(* The clusters of the files' chains contain what was written, through all *)
(* partial sectors, chunks, gaps, truncations and re-openings.             *)
(***************************************************************************)
Contents ==
    \A f \in Files :
        /\ SizeOf(f) = Len(content[f])
        /\ LET chain == Chain(p, StartOf(f))
           IN  /\ Len(chain) = ClustersFor(SizeOf(f))
               /\ \A i \in 1 .. SizeOf(f) :
                    data[(chain[1 + (i - 1) \div bytesPerCluster] - CLUSTER_FIRST) * bytesPerCluster
                            + ((i - 1) % bytesPerCluster)] = content[f][i]

\* A read returns the bytes at the file's position, as many as there are.
ReadsRight ==
    \A f \in Files, len \in Lengths :
        Readable(f) =>
            ReadFrom(f, len).got =
                SubSeq(content[f], file[f].currentPosition + 1,
                       Minimum(file[f].currentPosition + len, file[f].filesize))

(***************************************************************************)
(* No cluster is in two chains and none is lost: the clusters in use are   *)
(* those of the files, and where the free ones are counted the count is    *)
(* exact, also after the partition was unmounted.                          *)
(***************************************************************************)
ClustersAccounted ==
    /\ \A f, g \in Files : f # g =>
        \A i \in 1 .. Len(Chain(p, StartOf(f))), j \in 1 .. Len(Chain(p, StartOf(g))) :
            Chain(p, StartOf(f))[i] # Chain(p, StartOf(g))[j]
    /\ Clusters \ FreeClusters(p) =
        taken \cup UNION {{Chain(p, StartOf(f))[i] : i \in 1 .. Len(Chain(p, StartOf(f)))} : f \in Files}
    /\ \A a \in DiscBytes : CLUSTER_FIRST + a \div bytesPerCluster \in taken => data[a] = Junk
    /\ p.filesysType = "FS_FAT32" => p.numberFreeCluster = FreeClusterCount(p)

(***************************************************************************)
(* No two files share a cluster, and no chain runs into free ones: only    *)
(* one cluster links to a cluster, what is linked to is in use, and what   *)
(* files start with is in use, different for each file, and not linked to. *)
(***************************************************************************)
ChainsSeparate ==
    /\ \A c, d \in Clusters :
        NextCluster(p, c) \in Clusters =>
            /\ NextCluster(p, c) \notin FreeClusters(p) \cup taken \cup {StartOf(f) : f \in Files}
            /\ NextCluster(p, c) = NextCluster(p, d) => c = d
    /\ \A f \in Files :
        \/ StartOf(f) = CLUSTER_FREE
        \/ /\ StartOf(f) \in Clusters \ (FreeClusters(p) \cup taken)
           /\ \A g \in Files : StartOf(f) = StartOf(g) => f = g
===========================================================================
