--------------------------- MODULE FatFile_proofs ---------------------------
(***************************************************************************)
(* Proofs about the files of libfat, for a partition of any size and type, *)
(* clusters and sectors of any size, any number of files and whatever      *)
(* their clients do: no two files share a cluster, and no chain runs into  *)
(* free ones.  The table is the bytes on the disc, so the first part shows *)
(* that writing an entry changes this entry only; the rest is about links. *)
(***************************************************************************)
EXTENDS FatFile, FiniteSetTheorems, WellFoundedInduction, TLAPS

-----------------------------------------------------------------------------
(* The entries of the table. *)

Bytes == 0 .. 255

\* The clusters with an entry in the table, the one behind the last cluster among them.
Entered == CLUSTER_FIRST .. lastCluster + 1

\* What is written to entries.
Linkable == {CLUSTER_FREE, CLUSTER_EOF} \cup Entered

Partition(q) ==
    /\ q = [filesysType |-> q.filesysType, table |-> q.table, firstFree |-> q.firstFree,
            numberFreeCluster |-> q.numberFreeCluster]
    /\ q.filesysType \in FilesysTypes
    /\ q.table \in [TableBytes(q.filesysType) -> Bytes]
    /\ q.firstFree \in CLUSTER_FREE .. lastCluster + 1
    /\ q.numberFreeCluster \in Nat

\* Where the entry of a cluster is in a FAT12 table: pairs of clusters share three bytes.
LEMMA Fat12Places ==
    ASSUME NEW c \in Entered
    PROVE  /\ c % 2 = 0 => \E k \in Nat : c = 2 * k /\ (c * 12) \div 8 = 3 * k
           /\ c % 2 = 1 => \E k \in Nat : c = 2 * k + 1 /\ (c * 12) \div 8 = 3 * k + 1
           /\ c % 2 \in {0, 1}
           /\ (c * 12) \div 8 \in TableBytes("FS_FAT12") /\ (c * 12) \div 8 + 1 \in TableBytes("FS_FAT12")
  <1>1. lastCluster \in Nat /\ c \in Nat /\ c <= lastCluster + 1 /\ c % 2 \in {0, 1}
    BY FatAssumption DEF Entered, CLUSTER_FIRST
  <1>2. TableBytes("FS_FAT12") = 0 .. ((lastCluster + 2) * 12 + 7) \div 8 - 1
    BY DEF TableBytes, EntryBits
  <1>3. ASSUME c % 2 = 0 PROVE \E k \in Nat : c = 2 * k /\ (c * 12) \div 8 = 3 * k
    <2>1. c \div 2 \in Nat /\ c = 2 * (c \div 2) /\ (c * 12) \div 8 = 3 * (c \div 2)
      BY <1>1, <1>3
    <2> QED BY <2>1
  <1>4. ASSUME c % 2 = 1 PROVE \E k \in Nat : c = 2 * k + 1 /\ (c * 12) \div 8 = 3 * k + 1
    <2>1. c \div 2 \in Nat /\ c = 2 * (c \div 2) + 1 /\ (c * 12) \div 8 = 3 * (c \div 2) + 1
      BY <1>1, <1>4
    <2> QED BY <2>1
  <1>5. (c * 12) \div 8 \in Nat /\ (c * 12) \div 8 + 1 <= ((lastCluster + 2) * 12 + 7) \div 8 - 1
    BY <1>1
  <1> QED BY <1>1, <1>2, <1>3, <1>4, <1>5

\* The bytes that are read back from an entry of each type make up its value.
Fat12Bytes(v, b) ==
    /\ (((v % 16) * 16 + (b % 16)) + 256 * ((v \div 16) % 256)) \div 16 = v % 4096
    /\ ((v % 256) + 256 * (((v \div 256) % 16) + (b \div 16) * 16)) % 4096 = v % 4096
    /\ EndOfFile(v % 4096, 4087) = v
    /\ (v % 16) * 16 + (b % 16) \in Bytes /\ (v \div 16) % 256 \in Bytes /\ v % 256 \in Bytes
    /\ ((v \div 256) % 16) + (b \div 16) * 16 \in Bytes
    /\ ((v % 16) * 16 + (b % 16)) % 16 = b % 16
    /\ (((v \div 256) % 16) + (b \div 16) * 16) \div 16 = b \div 16

\* A value that is written to a FAT12 entry is read back, and the nibble of the neighbour stays.
LEMMA Fat12Value ==
    ASSUME NEW v \in Linkable, lastCluster <= 4085, NEW b \in Bytes
    PROVE  Fat12Bytes(v, b)
  <1>1. v \in Nat /\ b \in Nat /\ b <= 255 /\ (v = CLUSTER_EOF \/ v <= 4086)
    BY FatAssumption DEF Linkable, Entered, CLUSTER_FREE, CLUSTER_EOF, CLUSTER_FIRST, Bytes
  <1>2. PICK h, l : h = v \div 16 /\ l = v % 16
    OBVIOUS
  <1>3. h \in Nat /\ l \in 0 .. 15 /\ v = 16 * h + l
    BY <1>1, <1>2
  <1>4. (((v % 16) * 16 + (b % 16)) + 256 * ((v \div 16) % 256)) \div 16 = v % 4096
    BY <1>1, <1>2, <1>3
  <1>5. ((v % 256) + 256 * (((v \div 256) % 16) + (b \div 16) * 16)) % 4096 = v % 4096
    BY <1>1
  <1>6. EndOfFile(v % 4096, 4087) = v
    BY <1>1 DEF EndOfFile, CLUSTER_EOF
  <1>7. /\ (v % 16) * 16 + (b % 16) \in Bytes /\ (v \div 16) % 256 \in Bytes /\ v % 256 \in Bytes
        /\ ((v \div 256) % 16) + (b \div 16) * 16 \in Bytes
    BY <1>1 DEF Bytes
  <1>8. ((v % 16) * 16 + (b % 16)) % 16 = b % 16
    BY <1>1
  <1>9. (((v \div 256) % 16) + (b \div 16) * 16) \div 16 = b \div 16
    BY <1>1
  <1> QED BY <1>4, <1>5, <1>6, <1>7, <1>8, <1>9 DEF Fat12Bytes

\* The same of the two bytes of a FAT16 entry.
LEMMA Fat16Value ==
    ASSUME NEW v \in Linkable, lastCluster <= 65525
    PROVE  /\ v % 256 \in Bytes /\ (v \div 256) % 256 \in Bytes
           /\ Fat16Entry((v % 256) + 256 * ((v \div 256) % 256)) = v
  <1>1. v \in Nat /\ (v = CLUSTER_EOF \/ v <= 65526)
    BY FatAssumption DEF Linkable, Entered, CLUSTER_FREE, CLUSTER_EOF, CLUSTER_FIRST
  <1>2. v % 256 \in Bytes /\ (v \div 256) % 256 \in Bytes
    BY <1>1 DEF Bytes
  <1>3. (v % 256) + 256 * ((v \div 256) % 256) = v % 65536
    BY <1>1
  <1>4. EndOfFile(v % 65536, 65527) = v
    BY <1>1 DEF EndOfFile, CLUSTER_EOF
  <1> QED BY <1>2, <1>3, <1>4 DEF Fat16Entry

\* The same of the four bytes of a FAT32 entry.
LEMMA Fat32Value ==
    ASSUME NEW v \in Linkable, lastCluster <= 268435445
    PROVE  /\ v % 256 \in Bytes /\ (v \div 256) % 256 \in Bytes
           /\ (v \div 65536) % 256 \in Bytes /\ v \div 16777216 \in Bytes
           /\ Fat32Entry((v % 256) + 256 * ((v \div 256) % 256), ((v \div 65536) % 256) + 256 * (v \div 16777216)) = v
  <1>1. v \in Nat /\ v <= CLUSTER_EOF /\ (v = CLUSTER_EOF \/ v <= 268435446)
    BY FatAssumption DEF Linkable, Entered, CLUSTER_FREE, CLUSTER_EOF, CLUSTER_FIRST
  <1>2. /\ v % 256 \in Bytes /\ (v \div 256) % 256 \in Bytes
        /\ (v \div 65536) % 256 \in Bytes /\ v \div 16777216 \in Bytes
    BY <1>1 DEF Bytes, CLUSTER_EOF
  <1>3. (v % 256) + 256 * ((v \div 256) % 256) = v % 65536
    BY <1>1
  <1>4. ((v \div 65536) % 256) + 256 * (v \div 16777216) = v \div 65536
    BY <1>1
  <1>5. v \div 65536 < 4096 /\ (v % 65536) + 65536 * (v \div 65536) = v
    BY <1>1 DEF CLUSTER_EOF
  <1>6. EndOfFile(v, 268435447) = v
    BY <1>1 DEF EndOfFile, CLUSTER_EOF
  <1> QED BY <1>1, <1>2, <1>3, <1>4, <1>5, <1>6 DEF Fat32Entry

\* The table after an entry is written, byte by byte.
Table12(t, c, v, at) ==
    IF c % 2 = 1
    THEN [t EXCEPT ![at] = (v % 16) * 16 + (t[at] % 16), ![at + 1] = (v \div 16) % 256]
    ELSE [t EXCEPT ![at] = v % 256, ![at + 1] = ((v \div 256) % 16) + (t[at + 1] \div 16) * 16]

\* PutEntry in a FAT12 table: the entry has its value, every other one keeps its own, although it may share a
\* byte.
LEMMA Fat12Written ==
    ASSUME "FS_FAT12" \in FilesysTypes, EntriesFit, NEW t \in [TableBytes("FS_FAT12") -> Bytes],
           NEW c \in Entered, NEW d \in Entered, NEW v \in Linkable, NEW u,
           u = Table12(t, c, v, (c * 12) \div 8)
    PROVE  /\ u \in [TableBytes("FS_FAT12") -> Bytes]
           /\ LET at == (d * 12) \div 8
              IN  Fat12Entry(d, u[at] + 256 * u[at + 1]) =
                    IF d = c THEN v ELSE Fat12Entry(d, t[at] + 256 * t[at + 1])
  <1>0. lastCluster <= 4085
    BY DEF EntriesFit
  <1>1. PICK D : D = TableBytes("FS_FAT12")
    OBVIOUS
  <1>2. PICK a : a = (c * 12) \div 8
    OBVIOUS
  <1>3. PICK e : e = (d * 12) \div 8
    OBVIOUS
  <1>4. a \in D /\ a + 1 \in D /\ e \in D /\ e + 1 \in D /\ c % 2 \in {0, 1} /\ d % 2 \in {0, 1}
    BY <1>1, <1>2, <1>3, Fat12Places
  <1>5. a \in Nat /\ e \in Nat /\ c \in Nat /\ d \in Nat
    <2>1. c \in Nat /\ d \in Nat
      BY FatAssumption DEF Entered, CLUSTER_FIRST
    <2> QED BY <1>2, <1>3, <2>1
  <1>6. PICK x, y : /\ x = IF c % 2 = 1 THEN (v % 16) * 16 + (t[a] % 16) ELSE v % 256
                    /\ y = IF c % 2 = 1 THEN (v \div 16) % 256 ELSE ((v \div 256) % 16) + (t[a + 1] \div 16) * 16
    OBVIOUS
  <1>7. u = [t EXCEPT ![a] = x, ![a + 1] = y]
    BY <1>2, <1>4, <1>6 DEF Table12
  <1>8. t[a] \in Bytes /\ t[a + 1] \in Bytes /\ t[e] \in Bytes /\ t[e + 1] \in Bytes
    BY <1>1, <1>4
  <1>V. Fat12Bytes(v, t[a]) /\ Fat12Bytes(v, t[a + 1])
    BY <1>0, <1>8, Fat12Value
  <1>9. x \in Bytes /\ y \in Bytes
    BY <1>4, <1>6, <1>V DEF Fat12Bytes
  <1>10. u \in [D -> Bytes] /\ \A i \in D : u[i] = IF i = a + 1 THEN y ELSE IF i = a THEN x ELSE t[i]
    BY <1>1, <1>7, <1>9
  <1>11. Fat12Entry(d, u[e] + 256 * u[e + 1]) = IF d = c THEN v ELSE Fat12Entry(d, t[e] + 256 * t[e + 1])
    <2>1. u[a] = x /\ u[a + 1] = y
      BY <1>4, <1>5, <1>10
    <2>2. CASE d = c
      <3>1. a = e
        BY <1>2, <1>3, <2>2
      <3>2. Fat12Entry(c, x + 256 * y) = v
        <4>1. CASE c % 2 = 1
          <5>1. (((v % 16) * 16 + (t[a] % 16)) + 256 * ((v \div 16) % 256)) \div 16 = v % 4096 /\ EndOfFile(v % 4096, 4087) = v
            BY <1>V DEF Fat12Bytes
          <5>2. (x + 256 * y) \div 16 = v % 4096
            BY <1>6, <4>1, <5>1
          <5> QED BY <4>1, <5>1, <5>2 DEF Fat12Entry
        <4>2. CASE c % 2 = 0
          BY <1>6, <4>2, <1>V DEF Fat12Entry, Fat12Bytes
        <4> QED BY <1>4, <4>1, <4>2
      <3> QED BY <2>1, <2>2, <3>1, <3>2
    <2>3. CASE d # c
      <3>1. CASE d % 2 = 0 /\ c % 2 = 0
        <4>1. e # a /\ e # a + 1 /\ e + 1 # a /\ e + 1 # a + 1
          BY <1>2, <1>3, <1>5, <2>3, <3>1
        <4> QED BY <1>4, <1>10, <2>3, <4>1
      <3>2. CASE d % 2 = 1 /\ c % 2 = 1
        <4>1. e # a /\ e # a + 1 /\ e + 1 # a /\ e + 1 # a + 1
          BY <1>2, <1>3, <1>5, <2>3, <3>2
        <4> QED BY <1>4, <1>10, <2>3, <4>1
      <3>3. CASE d % 2 = 0 /\ c % 2 = 1
        \* d may end in the byte that c starts with: its high nibble is c's.
        <4>1. e # a /\ e # a + 1 /\ e + 1 # a + 1
          BY <1>2, <1>3, <1>5, <3>3
        <4>2. u[e] = t[e]
          BY <1>4, <1>10, <4>1
        <4>3. u[e + 1] % 16 = t[e + 1] % 16
          <5>1. CASE e + 1 = a
            <6>1. x % 16 = t[a] % 16
              <7>1. ((v % 16) * 16 + (t[a] % 16)) % 16 = t[a] % 16
                BY <1>V DEF Fat12Bytes
              <7> QED BY <1>6, <3>3, <7>1
            <6> QED BY <2>1, <5>1, <6>1
          <5>2. CASE e + 1 # a
            BY <1>4, <1>10, <4>1, <5>2
          <5> QED BY <5>1, <5>2
        <4>4. u[e + 1] \in Bytes
          BY <1>4, <1>10
        <4>5. PICK m, n, k : m = t[e] /\ n = t[e + 1] /\ k = u[e + 1]
          OBVIOUS
        <4>6. m \in Nat /\ n \in Nat /\ k \in Nat /\ k % 16 = n % 16
          BY <1>8, <4>3, <4>4, <4>5 DEF Bytes
        <4>7. (m + 256 * k) % 4096 = (m + 256 * n) % 4096
          BY <4>6
        <4> QED BY <2>3, <3>3, <4>2, <4>5, <4>7 DEF Fat12Entry
      <3>4. CASE d % 2 = 1 /\ c % 2 = 0
        \* d may start with the byte that c ends in: its low nibble is c's.
        <4>1. e # a /\ e + 1 # a /\ e + 1 # a + 1
          BY <1>2, <1>3, <1>5, <3>4
        <4>2. u[e + 1] = t[e + 1]
          BY <1>4, <1>10, <4>1
        <4>3. u[e] \div 16 = t[e] \div 16
          <5>1. CASE e = a + 1
            <6>1. y \div 16 = t[a + 1] \div 16
              BY <1>6, <3>4, <1>V DEF Fat12Bytes
            <6> QED BY <2>1, <5>1, <6>1
          <5>2. CASE e # a + 1
            BY <1>4, <1>10, <4>1, <5>2
          <5> QED BY <5>1, <5>2
        <4>4. u[e] \in Bytes
          BY <1>4, <1>10
        <4>5. PICK m, n, k : m = t[e] /\ n = t[e + 1] /\ k = u[e]
          OBVIOUS
        <4>6. m \in Nat /\ n \in Nat /\ k \in Nat /\ k \div 16 = m \div 16
          BY <1>8, <4>3, <4>4, <4>5 DEF Bytes
        <4>7. (k + 256 * n) \div 16 = (m + 256 * n) \div 16
          BY <4>6
        <4> QED BY <2>3, <3>4, <4>2, <4>5, <4>7 DEF Fat12Entry
      <3> QED BY <1>4, <3>1, <3>2, <3>3, <3>4
    <2> QED BY <2>2, <2>3
  <1>12. u \in [TableBytes("FS_FAT12") -> Bytes]
    BY <1>1, <1>10
  <1> QED BY <1>3, <1>11, <1>12

Table16(t, v, at) == [t EXCEPT ![at] = v % 256, ![at + 1] = (v \div 256) % 256]

\* PutEntry in a FAT16 table.
LEMMA Fat16Written ==
    ASSUME "FS_FAT16" \in FilesysTypes, EntriesFit, NEW t \in [TableBytes("FS_FAT16") -> Bytes],
           NEW c \in Entered, NEW d \in Entered, NEW v \in Linkable, NEW u,
           u = Table16(t, v, (c * 16) \div 8)
    PROVE  /\ u \in [TableBytes("FS_FAT16") -> Bytes]
           /\ LET at == (d * 16) \div 8
              IN  Fat16Entry(u[at] + 256 * u[at + 1]) =
                    IF d = c THEN v ELSE Fat16Entry(t[at] + 256 * t[at + 1])
  <1>0. lastCluster <= 65525
    BY DEF EntriesFit
  <1>1. lastCluster \in Nat /\ c \in Nat /\ d \in Nat /\ c <= lastCluster + 1 /\ d <= lastCluster + 1
    BY FatAssumption DEF Entered, CLUSTER_FIRST
  <1>2. PICK D : D = TableBytes("FS_FAT16")
    OBVIOUS
  <1>3. D = 0 .. ((lastCluster + 2) * 16 + 7) \div 8 - 1
    <2>1. EntryBits("FS_FAT16") = 16
      BY DEF EntryBits
    <2> QED BY <1>2, <2>1 DEF TableBytes
  <1>4. PICK a, e : a = 2 * c /\ e = 2 * d
    OBVIOUS
  <1>5. a = (c * 16) \div 8 /\ e = (d * 16) \div 8
    BY <1>1, <1>4
  <1>6. a \in D /\ a + 1 \in D /\ e \in D /\ e + 1 \in D
    BY <1>1, <1>3, <1>4
  <1>7. PICK x, y : x = v % 256 /\ y = (v \div 256) % 256
    OBVIOUS
  <1>8. x \in Bytes /\ y \in Bytes /\ Fat16Entry(x + 256 * y) = v
    BY <1>0, <1>7, Fat16Value
  <1>9. u = [t EXCEPT ![a] = x, ![a + 1] = y]
    BY <1>5, <1>7 DEF Table16
  <1>10. u \in [D -> Bytes] /\ \A i \in D : u[i] = IF i = a + 1 THEN y ELSE IF i = a THEN x ELSE t[i]
    <2>1. x \in Bytes /\ y \in Bytes /\ t \in [D -> Bytes]
      BY <1>2, <1>8
    <2> QED BY <1>9, <2>1
  <1>11. d # c => e # a /\ e # a + 1 /\ e + 1 # a /\ e + 1 # a + 1
    BY <1>1, <1>4
  <1>12. a # a + 1
    BY <1>1, <1>4
  <1>13. d = c => u[e] = x /\ u[e + 1] = y
    BY <1>4, <1>6, <1>10, <1>12
  <1>14. d # c => u[e] = t[e] /\ u[e + 1] = t[e + 1]
    BY <1>6, <1>10, <1>11
  <1>15. Fat16Entry(u[e] + 256 * u[e + 1]) = IF d = c THEN v ELSE Fat16Entry(t[e] + 256 * t[e + 1])
    BY <1>8, <1>13, <1>14
  <1>16. u \in [TableBytes("FS_FAT16") -> Bytes]
    BY <1>2, <1>10
  <1> QED BY <1>5, <1>15, <1>16

Put4(t, at, w, x, y, z) == [t EXCEPT ![at] = w, ![at + 1] = x, ![at + 2] = y, ![at + 3] = z]
Table32(t, v, at) == Put4(t, at, v % 256, (v \div 256) % 256, (v \div 65536) % 256, v \div 16777216)

Changed4(u, D, t, a, w, x, y, z) ==
    \A i \in D : u[i] = IF i = a + 3 THEN z ELSE IF i = a + 2 THEN y
                         ELSE IF i = a + 1 THEN x ELSE IF i = a THEN w ELSE t[i]

\* Four bytes in a row are changed.
LEMMA FourBytes ==
    ASSUME NEW D, NEW t \in [D -> Bytes], NEW a \in Nat, NEW w \in Bytes, NEW x \in Bytes, NEW y \in Bytes, NEW z \in Bytes
    PROVE  /\ Put4(t, a, w, x, y, z) \in [D -> Bytes]
           /\ Changed4(Put4(t, a, w, x, y, z), D, t, a, w, x, y, z)
  <1>1. PICK r : r = [t EXCEPT ![a] = w, ![a + 1] = x]
    OBVIOUS
  <1>2. r \in [D -> Bytes] /\ \A i \in D : r[i] = IF i = a + 1 THEN x ELSE IF i = a THEN w ELSE t[i]
    BY <1>1
  <1>3. PICK s : s = [r EXCEPT ![a + 2] = y, ![a + 3] = z]
    OBVIOUS
  <1>4. s \in [D -> Bytes] /\ \A i \in D : s[i] = IF i = a + 3 THEN z ELSE IF i = a + 2 THEN y ELSE r[i]
    BY <1>2, <1>3
  <1>5. s = Put4(t, a, w, x, y, z)
    BY <1>1, <1>3, Zenon DEF Put4
  <1>6. Changed4(s, D, t, a, w, x, y, z)
    BY <1>2, <1>4 DEF Changed4
  <1> QED BY <1>4, <1>5, <1>6

\* PutEntry in a FAT32 table.
LEMMA Fat32Written ==
    ASSUME "FS_FAT32" \in FilesysTypes, EntriesFit, NEW t \in [TableBytes("FS_FAT32") -> Bytes],
           NEW c \in Entered, NEW d \in Entered, NEW v \in Linkable, NEW u,
           u = Table32(t, v, (c * 32) \div 8)
    PROVE  /\ u \in [TableBytes("FS_FAT32") -> Bytes]
           /\ LET at == (d * 32) \div 8
              IN  Fat32Entry(u[at] + 256 * u[at + 1], u[at + 2] + 256 * u[at + 3]) =
                    IF d = c THEN v ELSE Fat32Entry(t[at] + 256 * t[at + 1], t[at + 2] + 256 * t[at + 3])
  <1>0. lastCluster <= 268435445
    BY DEF EntriesFit
  <1>1. lastCluster \in Nat /\ c \in Nat /\ d \in Nat /\ c <= lastCluster + 1 /\ d <= lastCluster + 1
    BY FatAssumption DEF Entered, CLUSTER_FIRST
  <1>2. PICK D : D = TableBytes("FS_FAT32")
    OBVIOUS
  <1>3. D = 0 .. ((lastCluster + 2) * 32 + 7) \div 8 - 1
    <2>1. EntryBits("FS_FAT32") = 32
      BY DEF EntryBits
    <2> QED BY <1>2, <2>1 DEF TableBytes
  <1>4. PICK a, e : a = 4 * c /\ e = 4 * d
    OBVIOUS
  <1>5. a = (c * 32) \div 8 /\ e = (d * 32) \div 8
    BY <1>1, <1>4
  <1>6. \A i \in 0 .. 3 : a + i \in D /\ e + i \in D
    BY <1>1, <1>3, <1>4
  <1>7. PICK w, x, y, z : /\ w = v % 256 /\ x = (v \div 256) % 256
                          /\ y = (v \div 65536) % 256 /\ z = v \div 16777216
    OBVIOUS
  <1>8. w \in Bytes /\ x \in Bytes /\ y \in Bytes /\ z \in Bytes /\ Fat32Entry(w + 256 * x, y + 256 * z) = v
    BY <1>0, <1>7, Fat32Value
  <1>9. u = Put4(t, a, w, x, y, z)
    BY <1>5, <1>7 DEF Table32
  <1>10. a \in Nat /\ e \in Nat /\ a \in D /\ e \in D
    BY <1>1, <1>4, <1>6
  <1>11. /\ a + 1 \in D /\ a + 2 \in D /\ a + 3 \in D
         /\ e + 1 \in D /\ e + 2 \in D /\ e + 3 \in D
    BY <1>6
  <1>12. /\ u \in [D -> Bytes]
         /\ \A i \in D : u[i] = IF i = a + 3 THEN z ELSE IF i = a + 2 THEN y
                                ELSE IF i = a + 1 THEN x ELSE IF i = a THEN w ELSE t[i]
    <2>1. w \in Bytes /\ x \in Bytes /\ y \in Bytes /\ z \in Bytes /\ t \in [D -> Bytes]
      BY <1>2, <1>8
    <2>2. a \in Nat
      BY <1>10
    <2>3. Put4(t, a, w, x, y, z) \in [D -> Bytes]
      BY <2>1, <2>2, FourBytes
    <2>4. Changed4(Put4(t, a, w, x, y, z), D, t, a, w, x, y, z)
      BY <2>1, <2>2, FourBytes
    <2>5. Changed4(u, D, t, a, w, x, y, z)
      BY <1>9, <2>4
    <2> QED BY <1>9, <2>3, <2>5 DEF Changed4
  <1>13. ASSUME d = c PROVE u[e] = w /\ u[e + 1] = x /\ u[e + 2] = y /\ u[e + 3] = z
    BY <1>4, <1>10, <1>11, <1>12, <1>13
  <1>14. ASSUME d # c PROVE u[e] = t[e] /\ u[e + 1] = t[e + 1] /\ u[e + 2] = t[e + 2] /\ u[e + 3] = t[e + 3]
    <2>1. \A i \in 0 .. 3 : e + i # a /\ e + i # a + 1 /\ e + i # a + 2 /\ e + i # a + 3
      BY <1>1, <1>4, <1>14
    <2>2. /\ e # a /\ e # a + 1 /\ e # a + 2 /\ e # a + 3
          /\ e + 1 # a /\ e + 1 # a + 1 /\ e + 1 # a + 2 /\ e + 1 # a + 3
          /\ e + 2 # a /\ e + 2 # a + 1 /\ e + 2 # a + 2 /\ e + 2 # a + 3
          /\ e + 3 # a /\ e + 3 # a + 1 /\ e + 3 # a + 2 /\ e + 3 # a + 3
      BY <1>10, <2>1
    <2> QED BY <1>10, <1>11, <1>12, <2>2
  <1>15. Fat32Entry(u[e] + 256 * u[e + 1], u[e + 2] + 256 * u[e + 3]) =
            IF d = c THEN v ELSE Fat32Entry(t[e] + 256 * t[e + 1], t[e + 2] + 256 * t[e + 3])
    <2>1. CASE d = c
      BY <1>8, <1>13, <2>1
    <2>2. CASE d # c
      BY <1>14, <2>2
    <2> QED BY <2>1, <2>2
  <1>16. u \in [TableBytes("FS_FAT32") -> Bytes]
    BY <1>2, <1>12
  <1> QED BY <1>5, <1>15, <1>16

\* The entry of c in a table of this type.
EntryIn(type, t, c) == EntryOf(type, t, c, (c * EntryBits(type)) \div 8)

\* Bytes of a table, and of the table in the record.
Put2(t, at, x, y) == [t EXCEPT ![at] = x, ![at + 1] = y]
Record2(q, at, x, y) == [q EXCEPT !.table[at] = x, !.table[at + 1] = y]

\* Two bytes of the table that are changed in the record.
LEMMA TableIn2 ==
    ASSUME NEW q, Partition(q), NEW at, NEW x, NEW y
    PROVE  Record2(q, at, x, y) = [q EXCEPT !.table = Put2(q.table, at, x, y)]
  <1>1. PICK b : b = at + 1
    OBVIOUS
  <1>2. [q EXCEPT !.table[at] = x, !.table[b] = y] = [q EXCEPT !.table = [q.table EXCEPT ![at] = x, ![b] = y]]
    BY DEF Partition
  <1> QED BY <1>1, <1>2, Zenon DEF Record2, Put2

Record4(q, at, w, x, y, z) ==
    [q EXCEPT !.table[at] = w, !.table[at + 1] = x, !.table[at + 2] = y, !.table[at + 3] = z]

\* Four bytes of the table that are changed in the record.
LEMMA TableIn4 ==
    ASSUME NEW q, Partition(q), NEW at, NEW w, NEW x, NEW y, NEW z
    PROVE  Record4(q, at, w, x, y, z) = [q EXCEPT !.table = Put4(q.table, at, w, x, y, z)]
  <1> DEFINE Formed(r) == r = [filesysType |-> r.filesysType, table |-> r.table, firstFree |-> r.firstFree,
                               numberFreeCluster |-> r.numberFreeCluster]
  <1>1. PICK r : r = [q EXCEPT !.table[at] = w, !.table[at + 1] = x]
    OBVIOUS
  <1>2. Formed(q)
    BY DEF Partition
  <1>3. Formed(r) /\ r.table = [q.table EXCEPT ![at] = w, ![at + 1] = x] /\ r = [q EXCEPT !.table = r.table]
    BY <1>1, <1>2
  <1>4. [r EXCEPT !.table[at + 2] = y, !.table[at + 3] = z] = [r EXCEPT !.table = [r.table EXCEPT ![at + 2] = y, ![at + 3] = z]]
    BY <1>3
  <1>5. Record4(q, at, w, x, y, z) = [r EXCEPT !.table[at + 2] = y, !.table[at + 3] = z]
    BY <1>1, Zenon DEF Record4
  <1>6. Put4(q.table, at, w, x, y, z) = [r.table EXCEPT ![at + 2] = y, ![at + 3] = z]
    BY <1>3, Zenon DEF Put4
  <1> QED BY <1>2, <1>3, <1>4, <1>5, <1>6

\* What writing an entry changes.
Put(q, c, v) == PutEntry(q, c, v, EntryAt(q, c))

\* PutEntry in a table of any type.
LEMMA TableWritten ==
    ASSUME NEW q, Partition(q), EntriesFit, NEW c \in Entered, NEW v \in Linkable
    PROVE  \E u \in [TableBytes(q.filesysType) -> Bytes] :
              /\ Put(q, c, v) = [q EXCEPT !.table = u]
              /\ \A d \in Entered : EntryIn(q.filesysType, u, d) =
                    IF d = c THEN v ELSE EntryIn(q.filesysType, q.table, d)
  <1>1. PICK t, type : t = q.table /\ type = q.filesysType
    OBVIOUS
  <1>2. t \in [TableBytes(type) -> Bytes] /\ type \in FilesysTypes /\ type \in {"FS_FAT12", "FS_FAT16", "FS_FAT32"}
    BY <1>1, FatAssumption DEF Partition
  <1>3. q = [filesysType |-> type, table |-> t, firstFree |-> q.firstFree, numberFreeCluster |-> q.numberFreeCluster]
    BY <1>1 DEF Partition
  <1>4. PICK a : a = (c * EntryBits(type)) \div 8
    OBVIOUS
  <1>5. Put(q, c, v) = PutEntry(q, c, v, a)
    BY <1>1, <1>4 DEF Put, EntryAt
  <1>6. CASE type = "FS_FAT12"
    <2>1. EntryBits(type) = 12
      BY <1>6 DEF EntryBits
    <2>2. PICK u : u = Table12(t, c, v, a)
      OBVIOUS
    <2>3. c % 2 \in {0, 1}
      BY Fat12Places
    <2>4. Put(q, c, v) = [q EXCEPT !.table = u]
      <3>1. PICK x, y : /\ x = IF c % 2 = 1 THEN (v % 16) * 16 + (t[a] % 16) ELSE v % 256
                        /\ y = IF c % 2 = 1 THEN (v \div 16) % 256
                              ELSE ((v \div 256) % 16) + (t[a + 1] \div 16) * 16
        OBVIOUS
      <3>2. a \in Nat
        <4>1. c \in Nat
          BY FatAssumption DEF Entered, CLUSTER_FIRST
        <4> QED BY <1>4, <2>1, <4>1
      <3>3. PutEntry(q, c, v, a) = Record2(q, a, x, y)
        <4>1. CASE c % 2 = 1
          <5>1. PutEntry(q, c, v, a) = [q EXCEPT !.table[a] = (v % 16) * 16 + (@ % 16), !.table[a + 1] = (v \div 16) % 256]
            BY <1>1, <1>6, <4>1 DEF PutEntry
          <5>2. PutEntry(q, c, v, a) = [q EXCEPT !.table[a] = x, !.table[a + 1] = y]
            BY <1>1, <3>1, <4>1, <5>1
          <5> QED BY <5>2 DEF Record2
        <4>2. CASE c % 2 = 0
          <5>1. PutEntry(q, c, v, a) = [q EXCEPT !.table[a] = v % 256, !.table[a + 1] = ((v \div 256) % 16) + (@ \div 16) * 16]
            BY <1>1, <1>6, <4>2 DEF PutEntry
          <5>2. x = v % 256 /\ y = ((v \div 256) % 16) + (t[a + 1] \div 16) * 16
            BY <3>1, <4>2
          <5>3. PutEntry(q, c, v, a) = [q EXCEPT !.table[a] = x, !.table[a + 1] = y]
            BY <1>1, <1>3, <3>2, <5>1, <5>2
          <5> QED BY <5>3 DEF Record2
        <4> QED BY <2>3, <4>1, <4>2
      <3>4. u = Put2(q.table, a, x, y)
        BY <1>1, <2>2, <3>1 DEF Table12, Put2
      <3>5. Record2(q, a, x, y) = [q EXCEPT !.table = Put2(q.table, a, x, y)]
        BY TableIn2
      <3> QED BY <1>5, <3>3, <3>4, <3>5
    <2>5. u \in [TableBytes(type) -> Bytes]
      BY <1>2, <1>4, <1>6, <2>1, <2>2, Fat12Written
    <2>6. ASSUME NEW d \in Entered
          PROVE  EntryIn(type, u, d) = IF d = c THEN v ELSE EntryIn(type, t, d)
      <3>1. PICK e : e = (d * 12) \div 8
        OBVIOUS
      <3>2. Fat12Entry(d, u[e] + 256 * u[e + 1]) = IF d = c THEN v ELSE Fat12Entry(d, t[e] + 256 * t[e + 1])
        BY <1>2, <1>4, <1>6, <2>1, <2>2, <3>1, Fat12Written
      <3>3. \A s : EntryIn(type, s, d) = EntryOf(type, s, d, e)
        BY <2>1, <3>1 DEF EntryIn
      <3>4. \A s : EntryOf(type, s, d, e) = Fat12Entry(d, s[e] + 256 * s[e + 1])
        BY <1>6 DEF EntryOf
      <3> QED BY <3>2, <3>3, <3>4
    <2> QED BY <1>1, <2>4, <2>5, <2>6
  <1>7. CASE type = "FS_FAT16"
    <2>1. EntryBits(type) = 16
      BY <1>7 DEF EntryBits
    <2>2. PICK u : u = Table16(t, v, a)
      OBVIOUS
    <2>4. Put(q, c, v) = [q EXCEPT !.table = u]
      <3>1. PICK x, y : x = v % 256 /\ y = (v \div 256) % 256
        OBVIOUS
      <3>2. PutEntry(q, c, v, a) = Record2(q, a, x, y)
        BY <1>1, <1>7, <3>1 DEF PutEntry, Record2
      <3>3. u = Put2(q.table, a, x, y)
        BY <1>1, <2>2, <3>1 DEF Table16, Put2
      <3>4. Record2(q, a, x, y) = [q EXCEPT !.table = Put2(q.table, a, x, y)]
        BY TableIn2
      <3> QED BY <1>5, <3>2, <3>3, <3>4
    <2>5. u \in [TableBytes(type) -> Bytes]
      BY <1>2, <1>4, <1>7, <2>1, <2>2, Fat16Written
    <2>6. ASSUME NEW d \in Entered
          PROVE  EntryIn(type, u, d) = IF d = c THEN v ELSE EntryIn(type, t, d)
      <3>1. PICK e : e = (d * 16) \div 8
        OBVIOUS
      <3>2. Fat16Entry(u[e] + 256 * u[e + 1]) = IF d = c THEN v ELSE Fat16Entry(t[e] + 256 * t[e + 1])
        BY <1>2, <1>4, <1>7, <2>1, <2>2, <3>1, Fat16Written
      <3>3. \A s : EntryIn(type, s, d) = EntryOf(type, s, d, e)
        BY <2>1, <3>1 DEF EntryIn
      <3>4. \A s : EntryOf(type, s, d, e) = Fat16Entry(s[e] + 256 * s[e + 1])
        BY <1>7 DEF EntryOf
      <3> QED BY <3>2, <3>3, <3>4
    <2> QED BY <1>1, <2>4, <2>5, <2>6
  <1>8. CASE type = "FS_FAT32"
    <2>1. EntryBits(type) = 32
      BY <1>8 DEF EntryBits
    <2>2. PICK u : u = Table32(t, v, a)
      OBVIOUS
    <2>4. Put(q, c, v) = [q EXCEPT !.table = u]
      <3>1. PICK w, x, y, z : w = v % 256 /\ x = (v \div 256) % 256 /\ y = (v \div 65536) % 256 /\ z = v \div 16777216
        OBVIOUS
      <3>2. PutEntry(q, c, v, a) = Record4(q, a, w, x, y, z)
        BY <1>1, <1>8, <3>1 DEF PutEntry, Record4
      <3>3. u = Put4(q.table, a, w, x, y, z)
        BY <1>1, <2>2, <3>1 DEF Table32
      <3>4. Record4(q, a, w, x, y, z) = [q EXCEPT !.table = Put4(q.table, a, w, x, y, z)]
        BY TableIn4
      <3> QED BY <1>5, <3>2, <3>3, <3>4
    <2>5. u \in [TableBytes(type) -> Bytes]
      BY <1>2, <1>4, <1>8, <2>1, <2>2, Fat32Written
    <2>6. ASSUME NEW d \in Entered
          PROVE  EntryIn(type, u, d) = IF d = c THEN v ELSE EntryIn(type, t, d)
      <3>1. PICK e : e = (d * 32) \div 8
        OBVIOUS
      <3>2. Fat32Entry(u[e] + 256 * u[e + 1], u[e + 2] + 256 * u[e + 3]) =
               IF d = c THEN v ELSE Fat32Entry(t[e] + 256 * t[e + 1], t[e + 2] + 256 * t[e + 3])
        BY <1>2, <1>4, <1>8, <2>1, <2>2, <3>1, Fat32Written
      <3>3. \A s : EntryIn(type, s, d) = EntryOf(type, s, d, e)
        BY <2>1, <3>1 DEF EntryIn
      <3>4. \A s : EntryOf(type, s, d, e) = Fat32Entry(s[e] + 256 * s[e + 1], s[e + 2] + 256 * s[e + 3])
        BY <1>8 DEF EntryOf
      <3> QED BY <3>2, <3>3, <3>4
    <2> QED BY <1>1, <2>4, <2>5, <2>6
  <1> QED BY <1>2, <1>6, <1>7, <1>8

\* What is written to an entry is read from it, and no other entry changes.
THEOREM EntryWritten ==
    ASSUME NEW q, Partition(q), EntriesFit, NEW c \in Clusters, NEW v \in Linkable, NEW r, r = WriteFatEntry(q, c, v)
    PROVE  /\ Partition(r)
           /\ r.filesysType = q.filesysType /\ r.firstFree = q.firstFree /\ r.numberFreeCluster = q.numberFreeCluster
           /\ \A d \in Entered : NextCluster(r, d) = IF d = c THEN v ELSE NextCluster(q, d)
  <1>1. c \in Entered
    BY FatAssumption DEF Entered, Clusters, CLUSTER_FIRST
  <1>2. r = Put(q, c, v)
    BY DEF WriteFatEntry, IsValidCluster, Put
  <1>3. PICK u \in [TableBytes(q.filesysType) -> Bytes] :
              /\ r = [q EXCEPT !.table = u]
              /\ \A d \in Entered : EntryIn(q.filesysType, u, d) =
                    IF d = c THEN v ELSE EntryIn(q.filesysType, q.table, d)
    BY <1>1, <1>2, TableWritten
  <1>4. /\ r = [filesysType |-> q.filesysType, table |-> u, firstFree |-> q.firstFree,
                numberFreeCluster |-> q.numberFreeCluster]
    BY <1>3 DEF Partition
  <1>5. Partition(r)
    BY <1>4 DEF Partition
  <1>6. ASSUME NEW d \in Entered PROVE NextCluster(r, d) = IF d = c THEN v ELSE NextCluster(q, d)
    <2>1. d # CLUSTER_FREE
      BY FatAssumption DEF Entered, CLUSTER_FIRST, CLUSTER_FREE
    <2>2. NextCluster(r, d) = EntryIn(q.filesysType, u, d) /\ NextCluster(q, d) = EntryIn(q.filesysType, q.table, d)
      BY <1>4, <2>1 DEF NextCluster, EntryIn, EntryAt
    <2> QED BY <1>3, <2>2
  <1> QED BY <1>4, <1>5, <1>6

-----------------------------------------------------------------------------
(* Chains. *)

\* What the clusters link to.
Links(q) == [c \in Entered |-> NextCluster(q, c)]

(***************************************************************************)
(* n links clusters to chains that are apart: H are the clusters that      *)
(* chains start with, and only the cluster x may link to a free one.  A    *)
(* cluster that was found behind the last one has no link.                 *)
(***************************************************************************)
Apart(n, H, x) ==
    /\ H \subseteq Clusters /\ \A h \in H : n[h] # CLUSTER_FREE
    /\ \A c \in Clusters : \/ n[c] \in {CLUSTER_FREE, CLUSTER_EOF} \cup Clusters
                           \/ n[c] = lastCluster + 1 /\ n[lastCluster + 1] = CLUSTER_FREE
    /\ \A c \in Clusters : n[c] \in Clusters => n[c] \notin H /\ \A d \in Clusters : n[d] = n[c] => d = c
    /\ \A c \in Clusters : n[c] \in Clusters => c = x \/ n[n[c]] # CLUSTER_FREE

Sound(q, H) == Partition(q) /\ Apart(Links(q), H, CLUSTER_FREE)

\* Clusters, the entry behind the last one, and the marks.
LEMMA ClusterFacts ==
    /\ lastCluster \in Nat /\ lastCluster >= 2 /\ lastCluster + 1 \in Entered /\ lastCluster + 1 \notin Clusters
    /\ Clusters \subseteq Entered /\ Entered = Clusters \cup {lastCluster + 1} /\ Entered \subseteq Nat \ {0}
    /\ CLUSTER_FREE \notin Entered /\ CLUSTER_FREE # CLUSTER_EOF
    /\ CLUSTER_FREE \in Linkable /\ CLUSTER_EOF \in Linkable /\ Entered \subseteq Linkable
  BY FatAssumption DEF Entered, Clusters, CLUSTER_FIRST, CLUSTER_FREE, CLUSTER_EOF, Linkable

\* The marks of a partition are no clusters.
LEMMA MarkFacts ==
    ASSUME EntriesFit, NEW q, Partition(q)
    PROVE  CLUSTER_EOF \notin Entered /\ CLUSTER_ERROR \notin Entered
  <1>1. lastCluster \in Nat /\ lastCluster <= 268435445
    BY FatAssumption DEF EntriesFit, Partition
  <1> QED BY <1>1 DEF Entered, CLUSTER_FIRST, CLUSTER_EOF, CLUSTER_ERROR

\* Links after an entry is written, if there is one for the cluster.
LEMMA LinksWritten ==
    ASSUME EntriesFit, NEW q, Partition(q), NEW c, NEW v \in Linkable, NEW r, r = WriteFatEntry(q, c, v)
    PROVE  /\ Partition(r) /\ r.firstFree = q.firstFree /\ r.numberFreeCluster = q.numberFreeCluster
           /\ Links(r) = IF c \in Clusters THEN [Links(q) EXCEPT ![c] = v] ELSE Links(q)
  <1>1. CASE c \in Clusters
    <2>1. \A d \in Entered : NextCluster(r, d) = IF d = c THEN v ELSE NextCluster(q, d)
      BY <1>1, EntryWritten
    <2>2. Links(r) = [Links(q) EXCEPT ![c] = v]
      BY <2>1 DEF Links
    <2> QED BY <1>1, <2>2, EntryWritten
  <1>2. CASE c \notin Clusters
    BY <1>2 DEF WriteFatEntry, IsValidCluster
  <1> QED BY <1>1, <1>2

\* The counters have no part in the links.
Recounted(q, f, n) == [q EXCEPT !.firstFree = f, !.numberFreeCluster = n]

\* Changing the counters of a partition leaves its table alone.
LEMMA Counters ==
    ASSUME NEW q, Partition(q), NEW f \in CLUSTER_FREE .. lastCluster + 1, NEW n \in Nat, NEW r,
           r = Recounted(q, f, n)
    PROVE  Partition(r) /\ Links(r) = Links(q) /\ r.firstFree = f
  <1>1. r = [filesysType |-> q.filesysType, table |-> q.table, firstFree |-> f, numberFreeCluster |-> n]
    BY DEF Partition, Recounted
  <1>2. Partition(r)
    BY <1>1 DEF Partition
  <1>3. \A c : NextCluster(r, c) = NextCluster(q, c)
    BY <1>1 DEF NextCluster, EntryAt
  <1> QED BY <1>1, <1>2, <1>3 DEF Links

\* A set of natural numbers that is not empty has a least member.
LEMMA LeastOf ==
    ASSUME NEW T, T \subseteq Nat, T # {}
    PROVE  \E x \in T : \A y \in T : x <= y
  <1> DEFINE Less == OpToRel(<, Nat)
  <1>1. IsWellFoundedOn(Less, Nat)
    BY NatLessThanWellFounded
  <1>2. \A x, y \in Nat : y < x => <<y, x>> \in Less
    BY DEF OpToRel
  <1> HIDE DEF Less
  <1>3. PICK x \in T : \A y \in T : ~(<<y, x>> \in Less)
    BY <1>1, WFMin
  <1>4. ASSUME NEW y \in T PROVE x <= y
    <2>1. x \in Nat /\ y \in Nat
      BY <1>3
    <2>2. ~(y < x)
      BY <1>2, <1>3, <2>1
    <2> QED BY <2>1, <2>2
  <1> QED BY <1>3, <1>4

\* Least finds it.
LEMMA LeastMember ==
    ASSUME NEW T, T \subseteq Nat, T # {}
    PROVE  Least(T) \in T
  BY LeastOf DEF Least

-----------------------------------------------------------------------------
(* Allocation. *)

\* What is found has no link, or it is the mark that nothing was found.
LEMMA FoundFree ==
    ASSUME NEW q, Partition(q), NEW f, f = FirstFree(q)
    PROVE  f = CLUSTER_ERROR \/ (f \in Entered /\ Links(q)[f] = CLUSTER_FREE)
  <1> DEFINE start == IF q.firstFree < CLUSTER_FIRST THEN CLUSTER_FIRST ELSE q.firstFree
             above == {c \in start .. (IF start > lastCluster THEN start ELSE lastCluster) : IsFree(q, c)}
             all == FreeClusters(q)
  <1>1. f = IF above \cup all = {} THEN CLUSTER_ERROR ELSE Least(IF above # {} THEN above ELSE all)
    BY DEF FirstFree
  <1>2. q.firstFree \in Nat /\ q.firstFree <= lastCluster + 1 /\ lastCluster \in Nat /\ lastCluster >= 2
    BY FatAssumption DEF Partition, CLUSTER_FREE
  <1>3. above \subseteq Entered
    BY <1>2 DEF Entered, CLUSTER_FIRST
  <1>4. all \subseteq Entered
    BY ClusterFacts DEF FreeClusters
  <1>5. \A c \in above \cup all : NextCluster(q, c) = CLUSTER_FREE
    BY DEF FreeClusters, IsFree
  <1> HIDE DEF above, all
  <1>6. ASSUME f # CLUSTER_ERROR PROVE f \in above \cup all
    <2>1. CASE above # {}
      <3>1. f = Least(above)
        BY <1>1, <1>6, <2>1
      <3> QED BY <1>3, <2>1, <3>1, ClusterFacts, LeastMember
    <2>2. CASE above = {}
      <3>1. f = Least(all) /\ all # {}
        BY <1>1, <1>6, <2>2
      <3> QED BY <1>4, <3>1, ClusterFacts, LeastMember
    <2> QED BY <2>1, <2>2
  <1> QED BY <1>3, <1>4, <1>5, <1>6 DEF Links

\* A cluster that is free is linked from one at most, and ends its chain.
LEMMA LinkedApart ==
    ASSUME EntriesFit, NEW q, NEW H, Sound(q, H), NEW c, NEW f \in Entered, Links(q)[f] = CLUSTER_FREE,
           NEW m, m = IF c \in Clusters THEN [Links(q) EXCEPT ![c] = f] ELSE Links(q),
           NEW n, n = IF f \in Clusters THEN [m EXCEPT ![f] = CLUSTER_EOF] ELSE m
    PROVE  /\ Apart(n, H, CLUSTER_FREE)
           /\ c \notin Clusters /\ f \in Clusters => f \notin H /\ Apart(n, H \cup {f}, CLUSTER_FREE)
  <1>1. PICK l : l = Links(q)
    OBVIOUS
  <1>2. DOMAIN l = Entered /\ Apart(l, H, CLUSTER_FREE)
    BY <1>1 DEF Links, Sound
  <1>3. CLUSTER_EOF \notin Entered /\ CLUSTER_FREE \notin Entered /\ CLUSTER_FREE # CLUSTER_EOF
    BY MarkFacts, ClusterFacts DEF Sound
  <1>4. \A d \in Entered : m[d] = IF d = c /\ c \in Clusters THEN f ELSE l[d]
    BY <1>1, <1>2, ClusterFacts
  <1>5. DOMAIN m = Entered
    BY <1>1, <1>2
  <1>6. \A d \in Entered : n[d] = IF d = f /\ f \in Clusters THEN CLUSTER_EOF
                                  ELSE IF d = c /\ c \in Clusters THEN f ELSE l[d]
    BY <1>4, <1>5
  <1>7. l[f] = CLUSTER_FREE
    BY <1>1
  <1>8. f \notin H /\ \A d \in Clusters : l[d] = f => f \notin Clusters
    BY <1>2, <1>7, ClusterFacts DEF Apart
  <1>9. H \subseteq Clusters /\ \A h \in H : n[h] # CLUSTER_FREE
    <2>1. H \subseteq Clusters /\ \A h \in H : l[h] # CLUSTER_FREE
      BY <1>2 DEF Apart
    <2>2. ASSUME NEW h \in H PROVE n[h] # CLUSTER_FREE
      BY <1>3, <1>6, <1>8, <2>1, ClusterFacts
    <2> QED BY <2>1, <2>2
  <1>10. ASSUME NEW d \in Clusters
         PROVE  \/ n[d] \in {CLUSTER_FREE, CLUSTER_EOF} \cup Clusters
                \/ n[d] = lastCluster + 1 /\ n[lastCluster + 1] = CLUSTER_FREE
    <2>1. n[lastCluster + 1] = l[lastCluster + 1]
      BY <1>6, ClusterFacts
    <2> QED BY <1>2, <1>6, <1>7, <2>1, ClusterFacts DEF Apart
  <1>11. ASSUME NEW d \in Clusters, n[d] \in Clusters
         PROVE  n[d] \notin H /\ (\A e \in Clusters : n[e] = n[d] => e = d) /\ n[n[d]] # CLUSTER_FREE
    <2>1. d # f
      BY <1>3, <1>6, <1>11, ClusterFacts
    <2>2. CASE d = c
      <3>1. n[d] = f /\ f \in Clusters
        BY <1>6, <1>11, <2>1, <2>2, ClusterFacts
      <3>2. \A e \in Clusters : n[e] = f => e = d
        BY <1>3, <1>6, <1>8, <2>2, <3>1, ClusterFacts
      <3> QED BY <1>3, <1>6, <1>8, <3>1, <3>2, ClusterFacts
    <2>3. CASE d # c
      <3>1. n[d] = l[d]
        BY <1>6, <2>1, <2>3, ClusterFacts
      <3>2. l[d] \notin H /\ (\A e \in Clusters : l[e] = l[d] => e = d) /\ l[l[d]] # CLUSTER_FREE /\ l[d] # f
        BY <1>2, <1>8, <1>11, <3>1, ClusterFacts DEF Apart
      <3>3. n[l[d]] # CLUSTER_FREE
        BY <1>3, <1>6, <1>11, <3>1, <3>2, ClusterFacts
      <3>4. ASSUME NEW e \in Clusters, n[e] = l[d] PROVE e = d
        <4>1. e # f
          BY <1>3, <1>6, <1>11, <3>1, <3>4, ClusterFacts
        <4>2. e # c
          BY <1>6, <3>2, <3>4, <4>1, ClusterFacts
        <4> QED BY <1>6, <3>2, <3>4, <4>1, <4>2, ClusterFacts
      <3> QED BY <3>1, <3>2, <3>3, <3>4
    <2> QED BY <2>2, <2>3
  <1>12. Apart(n, H, CLUSTER_FREE)
    BY <1>9, <1>10, <1>11 DEF Apart
  <1>13. ASSUME c \notin Clusters, f \in Clusters PROVE Apart(n, H \cup {f}, CLUSTER_FREE)
    <2>1. n[f] # CLUSTER_FREE
      BY <1>3, <1>6, <1>13
    <2>2. \A d \in Clusters : n[d] # f
      BY <1>3, <1>6, <1>8, <1>13, ClusterFacts
    <2> QED BY <1>12, <1>13, <2>1, <2>2 DEF Apart
  <1> QED BY <1>8, <1>12, <1>13

\* _FAT_fat_linkFreeCluster keeps chains apart; the first cluster of a new chain is in none before.
LEMMA LinkKeeps ==
    ASSUME EntriesFit, NEW q, NEW H, Sound(q, H), NEW c, NEW r, r = LinkFreeCluster(q, c)
    PROVE  /\ Sound(r.p, H)
           /\ c = CLUSTER_FREE /\ r.cluster \in Clusters => r.cluster \notin H /\ Sound(r.p, H \cup {r.cluster})
  <1>1. lastCluster \in Nat /\ CLUSTER_ERROR \notin Clusters /\ ~(CLUSTER_FREE > lastCluster)
        /\ CLUSTER_FREE \notin Clusters
    BY MarkFacts, ClusterFacts DEF Sound, CLUSTER_FREE
  <1>2. NextCluster(q, CLUSTER_FREE) = CLUSTER_FREE
    BY DEF NextCluster
  <1>3. CASE c > lastCluster
    <2>1. r = [p |-> q, cluster |-> CLUSTER_ERROR]
      BY <1>3 DEF LinkFreeCluster
    <2> QED BY <1>1, <2>1
  <1>4. CASE ~(c > lastCluster) /\ IsValidCluster(NextCluster(q, c))
    <2>1. r = [p |-> q, cluster |-> NextCluster(q, c)]
      BY <1>4 DEF LinkFreeCluster
    <2> QED BY <1>1, <1>2, <1>4, <2>1 DEF IsValidCluster
  <1>5. CASE ~(c > lastCluster) /\ ~IsValidCluster(NextCluster(q, c))
    <2>1. PICK f : f = FirstFree(q)
      OBVIOUS
    <2>2. r = Linked(q, c, f)
      BY <1>5, <2>1 DEF LinkFreeCluster
    <2>3. CASE f = CLUSTER_ERROR
      <3>1. r = [p |-> [q EXCEPT !.firstFree = lastCluster + 1], cluster |-> CLUSTER_ERROR]
        BY <2>2, <2>3 DEF Linked
      <3>2. [q EXCEPT !.firstFree = lastCluster + 1] = Recounted(q, lastCluster + 1, q.numberFreeCluster)
        BY DEF Sound, Partition, Recounted
      <3>3. lastCluster + 1 \in CLUSTER_FREE .. lastCluster + 1 /\ q.numberFreeCluster \in Nat
        BY <1>1 DEF Sound, Partition, CLUSTER_FREE
      <3>4. Sound(r.p, H)
        BY <3>1, <3>2, <3>3, Counters DEF Sound
      <3> QED BY <1>1, <3>1, <3>4
    <2>4. CASE f # CLUSTER_ERROR
      <3>1. f \in Entered /\ Links(q)[f] = CLUSTER_FREE
        BY <2>1, <2>4, FoundFree DEF Sound
      <3>2. PICK k : k = IF q.numberFreeCluster > 0 THEN q.numberFreeCluster - 1 ELSE 0
        OBVIOUS
      <3>3. k \in Nat /\ f \in CLUSTER_FREE .. lastCluster + 1 /\ f \in Linkable
        BY <3>1, <3>2, ClusterFacts DEF Sound, Partition, Entered, CLUSTER_FIRST, CLUSTER_FREE
      <3>4. PICK q1 : q1 = Recounted(q, f, k)
        OBVIOUS
      <3>5. Partition(q1) /\ Links(q1) = Links(q)
        BY <3>3, <3>4, Counters DEF Sound
      <3>6. PICK q2 : q2 = WriteFatEntry(q1, c, f)
        OBVIOUS
      <3>7. Partition(q2) /\ Links(q2) = IF c \in Clusters THEN [Links(q) EXCEPT ![c] = f] ELSE Links(q)
        BY <3>3, <3>5, <3>6, LinksWritten
      <3>8. PICK q3 : q3 = WriteFatEntry(q2, f, CLUSTER_EOF)
        OBVIOUS
      <3>9. Partition(q3) /\ Links(q3) = IF f \in Clusters THEN [Links(q2) EXCEPT ![f] = CLUSTER_EOF] ELSE Links(q2)
        BY <3>7, <3>8, LinksWritten, ClusterFacts
      <3>10. r = [p |-> q3, cluster |-> f]
        <4>1. [q EXCEPT !.firstFree = f, !.numberFreeCluster = IF @ > 0 THEN @ - 1 ELSE 0] = q1
          BY <3>2, <3>4 DEF Recounted
        <4> QED BY <2>2, <2>4, <3>6, <3>8, <4>1 DEF Linked
      <3>11. /\ Apart(Links(q3), H, CLUSTER_FREE)
             /\ c \notin Clusters /\ f \in Clusters => f \notin H /\ Apart(Links(q3), H \cup {f}, CLUSTER_FREE)
        BY <3>1, <3>7, <3>9, LinkedApart
      <3> QED BY <1>1, <3>9, <3>10, <3>11 DEF Sound
    <2> QED BY <2>3, <2>4
  <1> QED BY <1>3, <1>4, <1>5

-----------------------------------------------------------------------------
(* Freeing. *)

Cut(l, c) == [l EXCEPT ![c] = CLUSTER_FREE]

\* One more of the links is cut: that of a cluster to which no other cluster than x links.
LEMMA CutApart ==
    ASSUME EntriesFit, NEW l, DOMAIN l = Entered, NEW H, NEW x, Apart(l, H, x), NEW c \in Clusters \ H,
           \A d \in Clusters : l[d] = c => d = x, NEW n, n = Cut(l, c)
    PROVE  /\ Apart(n, H, x)
           /\ l[c] \in Clusters => l[c] \notin H /\ \A d \in Clusters : n[d] = l[c] => d = x
  <1>2. \A d \in Entered : n[d] = IF d = c THEN CLUSTER_FREE ELSE l[d]
    BY DEF Cut
  <1>3. H \subseteq Clusters /\ \A h \in H : n[h] # CLUSTER_FREE
    BY <1>2, ClusterFacts DEF Apart
  <1>4. ASSUME NEW d \in Clusters
        PROVE  \/ n[d] \in {CLUSTER_FREE, CLUSTER_EOF} \cup Clusters
               \/ n[d] = lastCluster + 1 /\ n[lastCluster + 1] = CLUSTER_FREE
    BY <1>2, ClusterFacts DEF Apart
  <1>5. ASSUME NEW d \in Clusters, n[d] \in Clusters
        PROVE  n[d] \notin H /\ (\A e \in Clusters : n[e] = n[d] => e = d) /\ (d = x \/ n[n[d]] # CLUSTER_FREE)
    <2>1. d # c /\ n[d] = l[d]
      BY <1>2, <1>5, ClusterFacts
    <2>2. l[d] \notin H /\ (\A e \in Clusters : l[e] = l[d] => e = d) /\ (d = x \/ l[l[d]] # CLUSTER_FREE)
      BY <1>5, <2>1 DEF Apart
    <2>3. \A e \in Clusters : n[e] = l[d] => e = d
      BY <1>2, <1>5, <2>1, <2>2, ClusterFacts
    <2>4. d = x \/ n[l[d]] # CLUSTER_FREE
      BY <1>2, <1>5, <2>1, <2>2, ClusterFacts
    <2> QED BY <2>1, <2>2, <2>3, <2>4
  <1>6. Apart(n, H, x)
    BY <1>3, <1>4, <1>5 DEF Apart
  <1>7. ASSUME l[c] \in Clusters PROVE l[c] \notin H /\ \A d \in Clusters : n[d] = l[c] => d = x
    <2>1. l[c] \notin H /\ \A d \in Clusters : l[d] = l[c] => d = c
      BY <1>7 DEF Apart
    <2>2. \A d \in Clusters : n[d] # l[c]
      BY <1>2, <1>7, <2>1, ClusterFacts
    <2> QED BY <2>1, <2>2
  <1> QED BY <1>6, <1>7

\* s has cleared a chain up to a cluster that no chain of H has, while only x may link to a free cluster.
Clearing(s, H, x) ==
    /\ s = [p |-> s.p, c |-> s.c] /\ Partition(s.p) /\ Apart(Links(s.p), H, x)
    /\ \/ s.c \in {CLUSTER_FREE, CLUSTER_EOF}
       \/ s.c = lastCluster + 1 /\ Links(s.p)[s.c] = CLUSTER_FREE
       \/ s.c \in Clusters \ H /\ \A d \in Clusters : Links(s.p)[d] = s.c => d = x

\* One turn of _FAT_fat_clearLinks: the cluster that comes next is the only one that a free cluster may have
\* linked to.
LEMMA ClearingStep ==
    ASSUME EntriesFit, NEW H, NEW x, NEW s, Clearing(s, H, x)
    PROVE  Clearing(Cleared1(s), H, x)
  <1>1. PICK l : l = Links(s.p)
    OBVIOUS
  <1>2. DOMAIN l = Entered /\ Apart(l, H, x) /\ Partition(s.p)
    BY <1>1 DEF Links, Clearing
  <1>3. CASE s.c \in {CLUSTER_EOF, CLUSTER_FREE, CLUSTER_ERROR}
    <2>1. Cleared1(s) = s
      BY <1>3 DEF Cleared1
    <2> QED BY <2>1
  <1>4. CASE s.c \notin {CLUSTER_EOF, CLUSTER_FREE, CLUSTER_ERROR}
    <2>1. PICK w : w = WriteFatEntry(s.p, s.c, CLUSTER_FREE)
      OBVIOUS
    <2>2. Partition(w) /\ Links(w) = IF s.c \in Clusters THEN [l EXCEPT ![s.c] = CLUSTER_FREE] ELSE l
      BY <1>1, <1>2, <2>1, ClusterFacts, LinksWritten
    <2>3. PICK k : k = IF w.numberFreeCluster < lastCluster + 1 THEN w.numberFreeCluster + 1 ELSE w.numberFreeCluster
      OBVIOUS
    <2>4. PICK r : r = Recounted(w, w.firstFree, k)
      OBVIOUS
    <2>5. k \in Nat /\ w.firstFree \in CLUSTER_FREE .. lastCluster + 1
      BY <2>2, <2>3 DEF Partition
    <2>6. Partition(r) /\ Links(r) = Links(w)
      BY <2>2, <2>4, <2>5, Counters
    <2>7. s.c \in Entered
      BY <1>4, ClusterFacts DEF Clearing
    <2>8. Cleared1(s) = [p |-> r, c |-> l[s.c]]
      <3>1. r = [w EXCEPT !.numberFreeCluster = IF @ < lastCluster + 1 THEN @ + 1 ELSE @]
        BY <2>2, <2>3, <2>4 DEF Partition, Recounted
      <3>2. l[s.c] = NextCluster(s.p, s.c)
        BY <1>1, <2>7 DEF Links
      <3> QED BY <1>4, <2>1, <3>1, <3>2 DEF Cleared1
    <2>9. CASE s.c = lastCluster + 1
      <3>1. l[s.c] = CLUSTER_FREE /\ Links(r) = l
        BY <1>1, <1>4, <2>2, <2>6, <2>9, ClusterFacts DEF Clearing
      <3> QED BY <1>2, <2>6, <2>8, <3>1 DEF Clearing
    <2>10. CASE s.c # lastCluster + 1
      <3>1. s.c \in Clusters \ H /\ \A d \in Clusters : l[d] = s.c => d = x
        BY <1>1, <1>4, <2>10 DEF Clearing
      <3>2. PICK n : n = [l EXCEPT ![s.c] = CLUSTER_FREE]
        OBVIOUS
      <3>3. Links(r) = n
        BY <2>2, <2>6, <3>1, <3>2
      <3>4. Apart(n, H, x) /\ (l[s.c] \in Clusters => l[s.c] \notin H /\ \A d \in Clusters : n[d] = l[s.c] => d = x)
        <4>1. PICK c : c = s.c
          OBVIOUS
        <4>2. c \in Clusters \ H /\ (\A d \in Clusters : l[d] = c => d = x) /\ n = Cut(l, c)
          BY <3>1, <3>2, <4>1 DEF Cut
        <4>3. Apart(n, H, x) /\ (l[c] \in Clusters => l[c] \notin H /\ \A d \in Clusters : n[d] = l[c] => d = x)
          BY <1>2, <4>2, CutApart
        <4> QED BY <4>1, <4>3
      <3>5. \/ l[s.c] \in {CLUSTER_FREE, CLUSTER_EOF} \cup Clusters
            \/ l[s.c] = lastCluster + 1 /\ n[lastCluster + 1] = CLUSTER_FREE
        BY <1>2, <3>1, <3>2, ClusterFacts DEF Apart
      <3> QED BY <2>6, <2>8, <3>3, <3>4, <3>5 DEF Clearing
    <2> QED BY <2>9, <2>10
  <1> QED BY <1>3, <1>4

\* All turns of it.
LEMMA ClearingAll ==
    ASSUME EntriesFit, NEW H, NEW x, NEW s, Clearing(s, H, x)
    PROVE  Clearing(Iterate(Cleared1, s, lastCluster), H, x)
  <1> DEFINE After(g, m) == [i \in 0 .. m |-> IF i = 0 THEN s ELSE Cleared1(g[i - 1])]
             g == CHOOSE g : g = After(g, lastCluster)
  <1>1. Iterate(Cleared1, s, lastCluster) = g[lastCluster]
    BY DEF Iterate
  <1>2. lastCluster \in Nat
    BY FatAssumption
  <1>3. \E h : h = After(h, lastCluster)
    <2> DEFINE T == {m \in Nat : ~\E h : h = After(h, m)}
    <2> SUFFICES ASSUME T # {} PROVE FALSE
      BY <1>2
    <2> HIDE DEF T
    <2>1. PICK m \in T : \A k \in T : m <= k
      <3>1. T \subseteq Nat
        BY DEF T
      <3> QED BY <3>1, LeastOf
    <2>2. m \in Nat /\ ~\E h : h = After(h, m)
      BY DEF T
    <2>3. CASE m = 0
      <3>1. PICK h : h = [i \in 0 .. 0 |-> s]
        OBVIOUS
      <3>2. h = After(h, 0)
        BY <3>1
      <3> QED BY <2>2, <2>3, <3>2
    <2>4. CASE m # 0
      <3>1. m - 1 \in Nat /\ m - 1 \notin T
        BY <2>1, <2>2, <2>4
      <3>2. PICK h : h = After(h, m - 1)
        BY <3>1 DEF T
      <3>3. PICK u : u = [i \in 0 .. m |-> IF i = m THEN Cleared1(h[m - 1]) ELSE h[i]]
        OBVIOUS
      <3>4. \A i \in 0 .. m - 1 : h[i] = IF i = 0 THEN s ELSE Cleared1(h[i - 1])
        BY <3>2
      <3>5. \A i \in 0 .. m : u[i] = IF i = 0 THEN s ELSE Cleared1(u[i - 1])
        BY <2>2, <2>4, <3>3, <3>4
      <3>6. u = After(u, m)
        BY <3>3, <3>5
      <3> QED BY <2>2, <3>6
    <2> QED BY <2>3, <2>4
  <1>4. g = After(g, lastCluster)
    BY <1>3
  <1> HIDE DEF g
  <1>5. \A i \in 0 .. lastCluster : g[i] = IF i = 0 THEN s ELSE Cleared1(g[i - 1])
    BY <1>4
  <1>6. \A i \in 0 .. lastCluster : Clearing(g[i], H, x)
    <2> DEFINE T == {i \in 0 .. lastCluster : ~Clearing(g[i], H, x)}
    <2> SUFFICES ASSUME T # {} PROVE FALSE
      OBVIOUS
    <2> HIDE DEF T
    <2>1. PICK m \in T : \A k \in T : m <= k
      <3>1. T \subseteq Nat
        BY <1>2 DEF T
      <3> QED BY <3>1, LeastOf
    <2>2. m \in 0 .. lastCluster /\ ~Clearing(g[m], H, x)
      BY DEF T
    <2>3. m # 0
      BY <1>5, <2>2
    <2>4. m - 1 \in 0 .. lastCluster /\ m - 1 \notin T
      BY <1>2, <2>1, <2>2, <2>3
    <2>5. Clearing(g[m - 1], H, x)
      BY <2>4 DEF T
    <2> QED BY <1>5, <2>2, <2>3, <2>5, ClearingStep
  <1> QED BY <1>1, <1>2, <1>6

\* The chain from c is freed, which is the rest of no chain of H unless it is behind x.
LEMMA ClearFrom ==
    ASSUME EntriesFit, NEW q, Partition(q), NEW H, NEW x, Apart(Links(q), H, x), NEW c,
           c \in Clusters => c \notin H /\ \A d \in Clusters : Links(q)[d] = c => d = x
    PROVE  Partition(ClearLinks(q, c)) /\ Apart(Links(ClearLinks(q, c)), H, x)
  <1>1. CASE c \notin Clusters
    <2>1. ClearLinks(q, c) = q
      BY <1>1 DEF ClearLinks, IsValidCluster
    <2> QED BY <2>1
  <1>2. CASE c \in Clusters
    <2>1. PICK f : f = IF c < q.firstFree THEN c ELSE q.firstFree
      OBVIOUS
    <2>2. f \in CLUSTER_FREE .. lastCluster + 1 /\ q.numberFreeCluster \in Nat
      BY <1>2, <2>1, ClusterFacts DEF Partition, Clusters, CLUSTER_FREE, CLUSTER_FIRST
    <2>3. PICK r : r = Recounted(q, f, q.numberFreeCluster)
      OBVIOUS
    <2>4. Partition(r) /\ Links(r) = Links(q)
      BY <2>2, <2>3, Counters
    <2>5. r = [q EXCEPT !.firstFree = IF c < @ THEN c ELSE @]
      BY <2>1, <2>3 DEF Partition, Recounted
    <2>6. PICK s : s = [p |-> r, c |-> c]
      OBVIOUS
    <2>7. ClearLinks(q, c) = Iterate(Cleared1, s, lastCluster).p
      BY <1>2, <2>5, <2>6 DEF ClearLinks, IsValidCluster
    <2>8. Clearing(s, H, x)
      BY <1>2, <2>4, <2>6 DEF Clearing
    <2>9. Clearing(Iterate(Cleared1, s, lastCluster), H, x)
      BY <2>8, ClearingAll
    <2> QED BY <2>7, <2>9 DEF Clearing
  <1> QED BY <1>1, <1>2

\* A chain is freed and the others stay.
LEMMA ClearKeeps ==
    ASSUME EntriesFit, NEW q, NEW H, Sound(q, H), NEW c \in H \cup {CLUSTER_FREE}
    PROVE  Sound(ClearLinks(q, c), H \ {c})
  <1>1. Partition(q) /\ Apart(Links(q), H, CLUSTER_FREE)
    BY DEF Sound
  <1>2. Apart(Links(q), H \ {c}, CLUSTER_FREE)
    BY <1>1 DEF Apart
  <1>3. c \in Clusters => c \notin H \ {c} /\ \A d \in Clusters : Links(q)[d] = c => d = CLUSTER_FREE
    BY <1>1, ClusterFacts DEF Apart
  <1> QED BY <1>1, <1>2, <1>3, ClearFrom DEF Sound

\* What a chain may be followed to.
Reached(q, d) ==
    \/ d = CLUSTER_FREE \/ d \in Clusters
    \/ d = lastCluster + 1 /\ Links(q)[d] = CLUSTER_FREE

\* Following a chain from its start stays in it.
LEMMA FollowFacts ==
    ASSUME EntriesFit, NEW q, NEW H, Sound(q, H), NEW c, Reached(q, c), NEW n \in Nat \ {0}
    PROVE  Reached(q, Follow(q, c, n))
  <1> DEFINE Step(d) == IF NextCluster(q, d) \in {CLUSTER_FREE, CLUSTER_EOF} THEN d ELSE NextCluster(q, d)
             After(g, m) == [i \in 0 .. m |-> IF i = 0 THEN c ELSE Step(g[i - 1])]
             g == CHOOSE g : g = After(g, n - 1)
  <1>1. Follow(q, c, n) = g[n - 1]
    BY DEF Follow, Iterate
  <1>2. n - 1 \in Nat
    OBVIOUS
  <1>3. ASSUME NEW d, Reached(q, d) PROVE Reached(q, Step(d))
    <2>1. CASE d = CLUSTER_FREE
      <3>1. NextCluster(q, d) = CLUSTER_FREE
        BY <2>1 DEF NextCluster
      <3> QED BY <1>3, <3>1
    <2>2. CASE d \in Clusters
      <3>1. NextCluster(q, d) = Links(q)[d]
        BY <2>2, ClusterFacts DEF Links
      <3> QED BY <1>3, <2>2, <3>1 DEF Sound, Apart, Reached
    <2>3. CASE d = lastCluster + 1 /\ Links(q)[d] = CLUSTER_FREE
      <3>1. NextCluster(q, d) = CLUSTER_FREE
        BY <2>3, ClusterFacts DEF Links
      <3> QED BY <1>3, <3>1
    <2> QED BY <1>3, <2>1, <2>2, <2>3 DEF Reached
  <1> HIDE DEF Step
  <1>4. \E h : h = After(h, n - 1)
    <2> DEFINE T == {m \in Nat : ~\E h : h = After(h, m)}
    <2> SUFFICES ASSUME T # {} PROVE FALSE
      BY <1>2
    <2> HIDE DEF T
    <2>1. PICK m \in T : \A k \in T : m <= k
      <3>1. T \subseteq Nat
        BY DEF T
      <3> QED BY <3>1, LeastOf
    <2>2. m \in Nat /\ ~\E h : h = After(h, m)
      BY DEF T
    <2>3. CASE m = 0
      <3>1. PICK h : h = [i \in 0 .. 0 |-> c]
        OBVIOUS
      <3>2. h = After(h, 0)
        BY <3>1
      <3> QED BY <2>2, <2>3, <3>2
    <2>4. CASE m # 0
      <3>1. m - 1 \in Nat /\ m - 1 \notin T
        BY <2>1, <2>2, <2>4
      <3>2. PICK h : h = After(h, m - 1)
        BY <3>1 DEF T
      <3>3. PICK u : u = [i \in 0 .. m |-> IF i = m THEN Step(h[m - 1]) ELSE h[i]]
        OBVIOUS
      <3>4. \A i \in 0 .. m - 1 : h[i] = IF i = 0 THEN c ELSE Step(h[i - 1])
        BY <3>2
      <3>5. \A i \in 0 .. m : u[i] = IF i = 0 THEN c ELSE Step(u[i - 1])
        BY <2>2, <2>4, <3>3, <3>4
      <3>6. u = After(u, m)
        BY <3>3, <3>5
      <3> QED BY <2>2, <3>6
    <2> QED BY <2>3, <2>4
  <1>5. g = After(g, n - 1)
    BY <1>4
  <1> HIDE DEF g
  <1>6. \A i \in 0 .. n - 1 : g[i] = IF i = 0 THEN c ELSE Step(g[i - 1])
    BY <1>5
  <1>7. \A i \in 0 .. n - 1 : Reached(q, g[i])
    <2> DEFINE T == {i \in 0 .. n - 1 : ~Reached(q, g[i])}
    <2> SUFFICES ASSUME T # {} PROVE FALSE
      OBVIOUS
    <2> HIDE DEF T
    <2>1. PICK m \in T : \A k \in T : m <= k
      <3>1. T \subseteq Nat
        BY <1>2 DEF T
      <3> QED BY <3>1, LeastOf
    <2>2. m \in 0 .. n - 1 /\ ~Reached(q, g[m])
      BY DEF T
    <2>3. m # 0
      BY <1>6, <2>2
    <2>4. m - 1 \in 0 .. n - 1 /\ m - 1 \notin T
      BY <1>2, <2>1, <2>2, <2>3
    <2>5. Reached(q, g[m - 1])
      BY <2>4 DEF T
    <2> QED BY <1>3, <1>6, <2>2, <2>3, <2>5
  <1> QED BY <1>1, <1>2, <1>7

\* The cluster that may link to a free one ends its chain.
Ended(l, x) == [l EXCEPT ![x] = CLUSTER_EOF]

\* A chain that is cut behind a cluster ends there.
LEMMA EndApart ==
    ASSUME EntriesFit, NEW l, DOMAIN l = Entered, NEW H, NEW x \in Clusters, Apart(l, H, x), CLUSTER_EOF \notin Entered,
           NEW n, n = Ended(l, x)
    PROVE  Apart(n, H, CLUSTER_FREE)
  <1>1. \A d \in Entered : n[d] = IF d = x THEN CLUSTER_EOF ELSE l[d]
    BY DEF Ended
  <1>2. H \subseteq Clusters /\ \A h \in H : n[h] # CLUSTER_FREE
    BY <1>1, ClusterFacts DEF Apart
  <1>3. ASSUME NEW d \in Clusters
        PROVE  \/ n[d] \in {CLUSTER_FREE, CLUSTER_EOF} \cup Clusters
               \/ n[d] = lastCluster + 1 /\ n[lastCluster + 1] = CLUSTER_FREE
    BY <1>1, ClusterFacts DEF Apart
  <1>4. ASSUME NEW d \in Clusters, n[d] \in Clusters
        PROVE  n[d] \notin H /\ (\A e \in Clusters : n[e] = n[d] => e = d) /\ n[n[d]] # CLUSTER_FREE
    <2>1. d # x /\ n[d] = l[d]
      BY <1>1, <1>4, ClusterFacts
    <2>2. l[d] \notin H /\ (\A e \in Clusters : l[e] = l[d] => e = d) /\ l[l[d]] # CLUSTER_FREE
      BY <1>4, <2>1 DEF Apart
    <2>3. \A e \in Clusters : n[e] = l[d] => e = d
      BY <1>1, <1>4, <2>1, <2>2, ClusterFacts
    <2>4. n[l[d]] # CLUSTER_FREE
      BY <1>1, <1>4, <2>1, <2>2, ClusterFacts
    <2> QED BY <2>1, <2>2, <2>3, <2>4
  <1> QED BY <1>2, <1>3, <1>4 DEF Apart

\* A chain is cut behind a cluster, or freed, and the others stay.
LEMMA TrimKeeps ==
    ASSUME EntriesFit, NEW q, NEW H, Sound(q, H), NEW c \in H \cup {CLUSTER_FREE}, NEW k \in Nat,
           NEW r, r = TrimChain(q, c, k).p
    PROVE  IF k = 0 THEN Sound(r, H \ {c}) ELSE Sound(r, H)
  <1>1. CASE k = 0
    <2>1. r = ClearLinks(q, c)
      BY <1>1 DEF TrimChain
    <2> QED BY <1>1, <2>1, ClearKeeps
  <1>2. CASE k # 0
    <2>1. PICK last : last = Follow(q, c, k)
      OBVIOUS
    <2>2. PICK next : next = NextCluster(q, last)
      OBVIOUS
    <2>3. PICK s : s = DropAfter(q, last, next)
      OBVIOUS
    <2>4. r = WriteFatEntry(s, last, CLUSTER_EOF)
      BY <1>2, <2>1, <2>2, <2>3 DEF TrimChain
    <2>5. Reached(q, last)
      <3>1. Reached(q, c)
        BY DEF Reached, Sound, Apart
      <3> QED BY <1>2, <2>1, <3>1, FollowFacts
    <2>6. CASE last \notin Clusters
      <3>1. next = CLUSTER_FREE
        BY <2>2, <2>5, <2>6, ClusterFacts DEF Reached, NextCluster, Links
      <3>2. r = q
        BY <2>3, <2>4, <2>6, <3>1 DEF DropAfter, WriteFatEntry, IsValidCluster
      <3> QED BY <1>2, <3>2
    <2>7. CASE last \in Clusters
      <3>1. next = Links(q)[last]
        BY <2>2, <2>7, ClusterFacts DEF Links
      <3>2. Partition(q) /\ Apart(Links(q), H, CLUSTER_FREE)
        BY DEF Sound
      <3>3. Apart(Links(q), H, last)
        BY <2>7, <3>2, ClusterFacts DEF Apart
      <3>4. next \in Clusters => next \notin H /\ \A d \in Clusters : Links(q)[d] = next => d = last
        BY <2>7, <3>1, <3>2 DEF Apart
      <3>5. Partition(s) /\ Apart(Links(s), H, last)
        <4>1. Partition(ClearLinks(q, next)) /\ Apart(Links(ClearLinks(q, next)), H, last)
          BY <3>2, <3>3, <3>4, ClearFrom
        <4> QED BY <2>3, <3>2, <3>3, <4>1 DEF DropAfter
      <3>6. Partition(r) /\ Links(r) = Ended(Links(s), last)
        BY <2>4, <2>7, <3>5, ClusterFacts, LinksWritten DEF Ended
      <3>7. CLUSTER_EOF \notin Entered /\ DOMAIN Links(s) = Entered
        BY <3>2, MarkFacts DEF Links
      <3>8. Apart(Links(r), H, CLUSTER_FREE)
        BY <2>7, <3>5, <3>6, <3>7, EndApart
      <3> QED BY <1>2, <3>6, <3>8 DEF Sound
    <2> QED BY <2>6, <2>7
  <1> QED BY <1>1, <1>2

-----------------------------------------------------------------------------
(* Writing a file changes the table only by links to free clusters.  w is a record of a write. *)

\* The partition of the write w is sound.
Holds(w, H) == "p" \in DOMAIN w /\ Sound(w.p, H)

\* Moving a position on to a linked cluster.
LEMMA MoveOntoKeeps ==
    ASSUME NEW H, NEW w, "p" \in DOMAIN w, NEW link, Sound(link.p, H)
    PROVE  Holds(MoveOnto(w, link), H)
  BY DEF Holds, MoveOnto

\* _FAT_check_position_for_next_cluster keeps chains apart.
LEMMA CheckPositionKeeps ==
    ASSUME EntriesFit, NEW H, NEW w, Holds(w, H), NEW remain
    PROVE  Holds(CheckPosition(w, remain), H)
  <1>1. PICK next : next = NextCluster(w.p, w.pos.cluster)
    OBVIOUS
  <1>2. PICK link : link = IF next \in {CLUSTER_EOF, CLUSTER_FREE} THEN LinkFreeCluster(w.p, w.pos.cluster)
                           ELSE [p |-> w.p, cluster |-> next]
    OBVIOUS
  <1>3. Sound(link.p, H)
    <2>1. CASE next \in {CLUSTER_EOF, CLUSTER_FREE}
      BY <1>2, <2>1, LinkKeeps DEF Holds
    <2>2. CASE next \notin {CLUSTER_EOF, CLUSTER_FREE}
      BY <1>2, <2>2 DEF Holds
    <2> QED BY <2>1, <2>2
  <1>4. Holds(MoveOnto(w, link), H)
    BY <1>3, MoveOntoKeeps DEF Holds
  <1>5. Holds([w EXCEPT !.ok = FALSE], H)
    BY DEF Holds
  <1>6. CheckPosition(w, remain) \in {w, [w EXCEPT !.ok = FALSE], MoveOnto(w, link)}
    BY <1>1, <1>2 DEF CheckPosition
  <1> QED BY <1>4, <1>5, <1>6

\* The bytes and the position have no part in the partition.
LEMMA GiveKeeps ==
    ASSUME NEW H, NEW w, Holds(w, H), NEW f, NEW pos, NEW n
    PROVE  Holds(Give(f, w, pos, n), H)
  BY DEF Holds, Give

\* The stages of FAT_write that transfer bytes leave the table alone.
LEMMA WritePartsKeep ==
    ASSUME EntriesFit, NEW H, NEW w, Holds(w, H), NEW f
    PROVE  /\ Holds(WriteToSector(f, w), H) /\ Holds(WriteToCluster(f, w), H) /\ Holds(WriteSectors(f, w), H)
           /\ \A growing : Holds(WriteRest(f, w, growing), H)
  <1>1. Holds(WriteToSector(f, w), H)
    <2>1. PICK n : n = Minimum(bytesPerSector - w.pos.byte, w.remain)
      OBVIOUS
    <2>2. Holds(Give(f, w, w.pos, n), H)
      BY GiveKeeps
    <2>3. Holds([Give(f, w, w.pos, n) EXCEPT !.pos = Advance(w.pos, n)], H)
      BY <2>2 DEF Holds
    <2> QED BY <2>1, <2>3 DEF WriteToSector
  <1>2. Holds(WriteToCluster(f, w), H)
    <2>1. PICK n : n = SectorsToCluster(w)
      OBVIOUS
    <2>2. Holds(Give(f, w, w.pos, n * bytesPerSector), H)
      BY GiveKeeps
    <2>3. Holds([Give(f, w, w.pos, n * bytesPerSector) EXCEPT !.pos.sector = @ + n], H)
      BY <2>2 DEF Holds
    <2> QED BY <2>1, <2>3 DEF WriteToCluster
  <1>3. Holds(WriteSectors(f, w), H)
    <2>1. PICK n : n = w.remain \div bytesPerSector
      OBVIOUS
    <2>2. Holds(Give(f, w, Start(w.pos.cluster), n * bytesPerSector), H)
      BY GiveKeeps
    <2>3. Holds([Give(f, w, Start(w.pos.cluster), n * bytesPerSector) EXCEPT !.pos.sector = @ + n], H)
      BY <2>2 DEF Holds
    <2> QED BY <2>1, <2>3 DEF WriteSectors
  <1>4. ASSUME NEW growing PROVE Holds(WriteRest(f, w, growing), H)
    <2>1. PICK pos : pos = [w.pos EXCEPT !.byte = 0]
      OBVIOUS
    <2>2. PICK erased : erased = IF growing THEN [w EXCEPT !.data = Cleared(@, ByteOf(pos), bytesPerSector)] ELSE w
      OBVIOUS
    <2>3. Holds(erased, H)
      BY <2>2 DEF Holds
    <2>4. Holds(Give(f, erased, pos, w.remain), H)
      BY <2>3, GiveKeeps
    <2>5. Holds([Give(f, erased, pos, w.remain) EXCEPT !.pos.byte = @ + w.remain], H)
      BY <2>4 DEF Holds
    <2> QED BY <2>1, <2>2, <2>5 DEF WriteRest
  <1> QED BY <1>1, <1>2, <1>3, <1>4

\* The same for a chunk.
HoldsChunk(g, H) == "w" \in DOMAIN g /\ Holds(g.w, H)

\* A cluster that is found for a chunk.
LEMMA FoundKeeps ==
    ASSUME NEW H, NEW g, HoldsChunk(g, H), NEW v, Holds(v, H), NEW w
    PROVE  HoldsChunk(Found(g, v, w), H)
  <1>1. PICK found : found = [g EXCEPT !.w = [v EXCEPT !.pos = w.pos]]
    OBVIOUS
  <1>2. HoldsChunk(found, H)
    BY <1>1 DEF HoldsChunk, Holds
  <1> QED BY <1>1, <1>2 DEF Found, HoldsChunk, Holds

\* The clusters that are allocated ahead for a chunk keep chains apart, by looking at the first turn that
\* would not.
LEMMA GroupKeeps ==
    ASSUME EntriesFit, NEW H, NEW w, Holds(w, H)
    PROVE  HoldsChunk(Group(w), H)
  <1> DEFINE Ahead(g) == [g.w EXCEPT !.pos = [@ EXCEPT !.cluster = g.next, !.sector = sectorsPerCluster]]
             Step(g) == IF g.done \/ ~g.w.ok \/ g.size + bytesPerCluster >= w.remain THEN g
                        ELSE Found(g, CheckPosition(Ahead(g), w.remain - g.size), w)
             first == [w |-> w, last |-> w.pos.cluster, next |-> w.pos.cluster, size |-> bytesPerCluster, done |-> FALSE]
             After(g, m) == [i \in 0 .. m |-> IF i = 0 THEN first ELSE Step(g[i - 1])]
             g == CHOOSE g : g = After(g, lastCluster)
  <1>1. Group(w) = g[lastCluster]
    BY DEF Group, Iterate
  <1>2. lastCluster \in Nat
    BY FatAssumption
  <1>8. HoldsChunk(first, H)
    BY DEF HoldsChunk
  <1>3. ASSUME NEW s, HoldsChunk(s, H) PROVE HoldsChunk(Step(s), H)
    <2>1. Holds(Ahead(s), H)
      BY <1>3 DEF HoldsChunk, Holds
    <2>2. Holds(CheckPosition(Ahead(s), w.remain - s.size), H)
      BY <2>1, CheckPositionKeeps
    <2>3. HoldsChunk(Found(s, CheckPosition(Ahead(s), w.remain - s.size), w), H)
      BY <1>3, <2>2, FoundKeeps
    <2> QED BY <1>3, <2>3
  <1> HIDE DEF Step, first
  <1>4. \E h : h = After(h, lastCluster)
    <2> DEFINE T == {m \in Nat : ~\E h : h = After(h, m)}
    <2> SUFFICES ASSUME T # {} PROVE FALSE
      BY <1>2
    <2> HIDE DEF T
    <2>1. PICK m \in T : \A k \in T : m <= k
      <3>1. T \subseteq Nat
        BY DEF T
      <3> QED BY <3>1, LeastOf
    <2>2. m \in Nat /\ ~\E h : h = After(h, m)
      BY DEF T
    <2>3. CASE m = 0
      <3>1. PICK h : h = [i \in 0 .. 0 |-> first]
        OBVIOUS
      <3>2. h = After(h, 0)
        BY <3>1
      <3> QED BY <2>2, <2>3, <3>2
    <2>4. CASE m # 0
      <3>1. m - 1 \in Nat /\ m - 1 \notin T
        BY <2>1, <2>2, <2>4
      <3>2. PICK h : h = After(h, m - 1)
        BY <3>1 DEF T
      <3>3. PICK u : u = [i \in 0 .. m |-> IF i = m THEN Step(h[m - 1]) ELSE h[i]]
        OBVIOUS
      <3>4. \A i \in 0 .. m - 1 : h[i] = IF i = 0 THEN first ELSE Step(h[i - 1])
        BY <3>2
      <3>5. \A i \in 0 .. m : u[i] = IF i = 0 THEN first ELSE Step(u[i - 1])
        BY <2>2, <2>4, <3>3, <3>4
      <3>6. u = After(u, m)
        BY <3>3, <3>5
      <3> QED BY <2>2, <3>6
    <2> QED BY <2>3, <2>4
  <1>5. g = After(g, lastCluster)
    BY <1>4
  <1> HIDE DEF g
  <1>6. \A i \in 0 .. lastCluster : g[i] = IF i = 0 THEN first ELSE Step(g[i - 1])
    BY <1>5
  <1>7. \A i \in 0 .. lastCluster : HoldsChunk(g[i], H)
    <2> DEFINE T == {i \in 0 .. lastCluster : ~HoldsChunk(g[i], H)}
    <2> SUFFICES ASSUME T # {} PROVE FALSE
      OBVIOUS
    <2> HIDE DEF T
    <2>1. PICK m \in T : \A k \in T : m <= k
      <3>1. T \subseteq Nat
        BY <1>2 DEF T
      <3> QED BY <3>1, LeastOf
    <2>2. m \in 0 .. lastCluster /\ ~HoldsChunk(g[m], H)
      BY DEF T
    <2>3. m # 0
      BY <1>6, <1>8, <2>2
    <2>4. m - 1 \in 0 .. lastCluster /\ m - 1 \notin T
      BY <1>2, <2>1, <2>2, <2>3
    <2>5. HoldsChunk(g[m - 1], H)
      BY <2>4 DEF T
    <2> QED BY <1>3, <1>6, <2>2, <2>3, <2>5
  <1> QED BY <1>1, <1>2, <1>7

\* So does writing whole clusters.
LEMMA WholeClustersKeep ==
    ASSUME EntriesFit, NEW H, NEW w, Holds(w, H), NEW f
    PROVE  Holds(WriteWholeClusters(f, w), H)
  <1> DEFINE Write(t) == IF t.ok THEN GiveGroup(f, Group(t), t.pos.cluster) ELSE t
             Step(s) == IF s.remain < bytesPerCluster \/ ~s.ok THEN s ELSE Write(CheckPosition(s, s.remain))
             After(g, m) == [i \in 0 .. m |-> IF i = 0 THEN w ELSE Step(g[i - 1])]
             g == CHOOSE g : g = After(g, lastCluster)
  <1>1. WriteWholeClusters(f, w) = g[lastCluster]
    BY DEF WriteWholeClusters, Iterate
  <1>2. lastCluster \in Nat
    BY FatAssumption
  <1>8. Holds(w, H)
    OBVIOUS
  <1>3. ASSUME NEW s, Holds(s, H) PROVE Holds(Step(s), H)
    <2>1. PICK t : t = CheckPosition(s, s.remain)
      OBVIOUS
    <2>2. Holds(t, H)
      BY <1>3, <2>1, CheckPositionKeeps
    <2>3. PICK c : c = Group(t)
      OBVIOUS
    <2>4. Holds(c.w, H)
      BY <2>2, <2>3, GroupKeeps DEF HoldsChunk
    <2>5. Holds(GiveGroup(f, c, t.pos.cluster), H)
      <3>1. Holds(Give(f, c.w, Start(t.pos.cluster), c.size), H)
        BY <2>4, GiveKeeps
      <3> QED BY <3>1 DEF GiveGroup, Holds
    <2> QED BY <1>3, <2>1, <2>2, <2>3, <2>5
  <1> HIDE DEF Step
  <1>4. \E h : h = After(h, lastCluster)
    <2> DEFINE T == {m \in Nat : ~\E h : h = After(h, m)}
    <2> SUFFICES ASSUME T # {} PROVE FALSE
      BY <1>2
    <2> HIDE DEF T
    <2>1. PICK m \in T : \A k \in T : m <= k
      <3>1. T \subseteq Nat
        BY DEF T
      <3> QED BY <3>1, LeastOf
    <2>2. m \in Nat /\ ~\E h : h = After(h, m)
      BY DEF T
    <2>3. CASE m = 0
      <3>1. PICK h : h = [i \in 0 .. 0 |-> w]
        OBVIOUS
      <3>2. h = After(h, 0)
        BY <3>1
      <3> QED BY <2>2, <2>3, <3>2
    <2>4. CASE m # 0
      <3>1. m - 1 \in Nat /\ m - 1 \notin T
        BY <2>1, <2>2, <2>4
      <3>2. PICK h : h = After(h, m - 1)
        BY <3>1 DEF T
      <3>3. PICK u : u = [i \in 0 .. m |-> IF i = m THEN Step(h[m - 1]) ELSE h[i]]
        OBVIOUS
      <3>4. \A i \in 0 .. m - 1 : h[i] = IF i = 0 THEN w ELSE Step(h[i - 1])
        BY <3>2
      <3>5. \A i \in 0 .. m : u[i] = IF i = 0 THEN w ELSE Step(u[i - 1])
        BY <2>2, <2>4, <3>3, <3>4
      <3>6. u = After(u, m)
        BY <3>3, <3>5
      <3> QED BY <2>2, <3>6
    <2> QED BY <2>3, <2>4
  <1>5. g = After(g, lastCluster)
    BY <1>4
  <1> HIDE DEF g
  <1>6. \A i \in 0 .. lastCluster : g[i] = IF i = 0 THEN w ELSE Step(g[i - 1])
    BY <1>5
  <1>7. \A i \in 0 .. lastCluster : Holds(g[i], H)
    <2> DEFINE T == {i \in 0 .. lastCluster : ~Holds(g[i], H)}
    <2> SUFFICES ASSUME T # {} PROVE FALSE
      OBVIOUS
    <2> HIDE DEF T
    <2>1. PICK m \in T : \A k \in T : m <= k
      <3>1. T \subseteq Nat
        BY <1>2 DEF T
      <3> QED BY <3>1, LeastOf
    <2>2. m \in 0 .. lastCluster /\ ~Holds(g[m], H)
      BY DEF T
    <2>3. m # 0
      BY <1>6, <1>8, <2>2
    <2>4. m - 1 \in 0 .. lastCluster /\ m - 1 \notin T
      BY <1>2, <2>1, <2>2, <2>3
    <2>5. Holds(g[m - 1], H)
      BY <2>4 DEF T
    <2> QED BY <1>3, <1>6, <2>2, <2>3, <2>5
  <1> QED BY <1>1, <1>2, <1>7

\* FAT_write keeps chains apart once it knows where to write.
LEMMA WriteKeeps ==
    ASSUME EntriesFit, NEW H, NEW w, Holds(w, H), NEW f, NEW growing
    PROVE  Holds(WriteAt(f, w, growing), H)
  <1>1. PICK a : a = WriteToSector(f, CheckPosition(w, w.remain))
    OBVIOUS
  <1>2. Holds(a, H)
    BY <1>1, CheckPositionKeeps, WritePartsKeep
  <1>3. PICK b : b = WriteWholeClusters(f, WriteToCluster(f, a))
    OBVIOUS
  <1>4. Holds(b, H)
    BY <1>2, <1>3, WritePartsKeep, WholeClustersKeep
  <1>5. PICK c : c = WriteSectors(f, CheckPosition(b, b.remain))
    OBVIOUS
  <1>6. Holds(c, H)
    BY <1>4, <1>5, CheckPositionKeeps, WritePartsKeep
  <1>7. WriteAt(f, w, growing) = WriteRest(f, c, growing)
    BY <1>1, <1>3, <1>5 DEF WriteAt
  <1> QED BY <1>6, <1>7, WritePartsKeep

\* Extending a file.
LEMMA NewClusterKeeps ==
    ASSUME EntriesFit, NEW H, NEW w, Holds(w, H)
    PROVE  Holds(NewCluster(w), H)
  <1>1. Sound(LinkFreeCluster(w.p, w.pos.cluster).p, H)
    BY LinkKeeps DEF Holds
  <1> QED BY <1>1, MoveOntoKeeps DEF NewCluster, Holds

\* Clearing bytes leaves the table alone.
LEMMA ClearRestKeeps ==
    ASSUME NEW H, NEW w, Holds(w, H), NEW n
    PROVE  Holds(ClearRest(w, n), H)
  BY DEF ClearRest, Holds

\* _FAT_file_extend keeps chains apart while it clears sectors.
LEMMA ExtendSectorsKeeps ==
    ASSUME EntriesFit, NEW H, NEW w, Holds(w, H)
    PROVE  Holds(ExtendSectors(w), H)
  <1> DEFINE Clear(t) == IF ~t.ok THEN t
                         ELSE [t EXCEPT !.data = Cleared(@, ByteOf(t.pos), bytesPerSector),
                                        !.remain = @ - bytesPerSector, !.pos.sector = @ + 1]
             Step(s) == IF s.remain < bytesPerSector \/ ~s.ok THEN s
                        ELSE Clear(IF s.pos.sector >= sectorsPerCluster THEN NewCluster(s) ELSE s)
             After(g, m) == [i \in 0 .. m |-> IF i = 0 THEN w ELSE Step(g[i - 1])]
             g == CHOOSE g : g = After(g, MaxSize)
  <1>1. ExtendSectors(w) = g[MaxSize]
    BY DEF ExtendSectors, Iterate
  <1>2. MaxSize \in Nat
    BY FatFileAssumption
  <1>8. Holds(w, H)
    OBVIOUS
  <1>3. ASSUME NEW s, Holds(s, H) PROVE Holds(Step(s), H)
    <2>1. PICK t : t = IF s.pos.sector >= sectorsPerCluster THEN NewCluster(s) ELSE s
      OBVIOUS
    <2>2. Holds(t, H)
      BY <1>3, <2>1, NewClusterKeeps
    <2>3. Holds(Clear(t), H)
      BY <2>2 DEF Holds
    <2> QED BY <1>3, <2>1, <2>3
  <1> HIDE DEF Step
  <1>4. \E h : h = After(h, MaxSize)
    <2> DEFINE T == {m \in Nat : ~\E h : h = After(h, m)}
    <2> SUFFICES ASSUME T # {} PROVE FALSE
      BY <1>2
    <2> HIDE DEF T
    <2>1. PICK m \in T : \A k \in T : m <= k
      <3>1. T \subseteq Nat
        BY DEF T
      <3> QED BY <3>1, LeastOf
    <2>2. m \in Nat /\ ~\E h : h = After(h, m)
      BY DEF T
    <2>3. CASE m = 0
      <3>1. PICK h : h = [i \in 0 .. 0 |-> w]
        OBVIOUS
      <3>2. h = After(h, 0)
        BY <3>1
      <3> QED BY <2>2, <2>3, <3>2
    <2>4. CASE m # 0
      <3>1. m - 1 \in Nat /\ m - 1 \notin T
        BY <2>1, <2>2, <2>4
      <3>2. PICK h : h = After(h, m - 1)
        BY <3>1 DEF T
      <3>3. PICK u : u = [i \in 0 .. m |-> IF i = m THEN Step(h[m - 1]) ELSE h[i]]
        OBVIOUS
      <3>4. \A i \in 0 .. m - 1 : h[i] = IF i = 0 THEN w ELSE Step(h[i - 1])
        BY <3>2
      <3>5. \A i \in 0 .. m : u[i] = IF i = 0 THEN w ELSE Step(u[i - 1])
        BY <2>2, <2>4, <3>3, <3>4
      <3>6. u = After(u, m)
        BY <3>3, <3>5
      <3> QED BY <2>2, <3>6
    <2> QED BY <2>3, <2>4
  <1>5. g = After(g, MaxSize)
    BY <1>4
  <1> HIDE DEF g
  <1>6. \A i \in 0 .. MaxSize : g[i] = IF i = 0 THEN w ELSE Step(g[i - 1])
    BY <1>5
  <1>7. \A i \in 0 .. MaxSize : Holds(g[i], H)
    <2> DEFINE T == {i \in 0 .. MaxSize : ~Holds(g[i], H)}
    <2> SUFFICES ASSUME T # {} PROVE FALSE
      OBVIOUS
    <2> HIDE DEF T
    <2>1. PICK m \in T : \A k \in T : m <= k
      <3>1. T \subseteq Nat
        BY <1>2 DEF T
      <3> QED BY <3>1, LeastOf
    <2>2. m \in 0 .. MaxSize /\ ~Holds(g[m], H)
      BY DEF T
    <2>3. m # 0
      BY <1>6, <1>8, <2>2
    <2>4. m - 1 \in 0 .. MaxSize /\ m - 1 \notin T
      BY <1>2, <2>1, <2>2, <2>3
    <2>5. Holds(g[m - 1], H)
      BY <2>4 DEF T
    <2> QED BY <1>3, <1>6, <2>2, <2>3, <2>5
  <1> QED BY <1>1, <1>2, <1>7

\* All of _FAT_file_extend does.
LEMMA ExtendKeeps ==
    ASSUME EntriesFit, NEW H, NEW q, Sound(q, H), NEW d, NEW h
    PROVE  Holds(Extend(q, d, h), H)
  <1>1. PICK w : w = [p |-> q, data |-> d, remain |-> h.currentPosition - h.filesize, ok |-> TRUE,
                      pos |-> [cluster |-> LastClusterOf(q, h.startCluster),
                               sector |-> (h.filesize % bytesPerCluster) \div bytesPerSector,
                               byte |-> h.filesize % bytesPerSector]]
    OBVIOUS
  <1>2. Holds(w, H)
    BY <1>1 DEF Holds
  <1>3. PICK b : b = IF h.filesize > 0 /\ w.pos.sector = 0 /\ w.pos.byte = 0 THEN NewCluster(w) ELSE w
    OBVIOUS
  <1>4. Holds(b, H)
    BY <1>2, <1>3, NewClusterKeeps
  <1>5. Extend(q, d, h) = ExtendFrom(b)
    BY <1>1, <1>3 DEF Extend
  <1>6. Holds(ClearRest(b, b.remain), H)
    BY <1>4, ClearRestKeeps
  <1>7. PICK e : e = ExtendToSector(b)
    OBVIOUS
  <1>8. Holds(e, H)
    <2>1. Holds(ClearRest(b, bytesPerSector - b.pos.byte), H)
      BY <1>4, ClearRestKeeps
    <2>2. Holds([ClearRest(b, bytesPerSector - b.pos.byte) EXCEPT !.pos.byte = 0, !.pos.sector = @ + 1], H)
      BY <2>1 DEF Holds
    <2> QED BY <1>4, <1>7, <2>2 DEF ExtendToSector
  <1>9. PICK s : s = ExtendSectors(e)
    OBVIOUS
  <1>10. PICK c : c = CheckPosition(s, s.remain)
    OBVIOUS
  <1>11. Holds(c, H)
    BY <1>8, <1>9, <1>10, ExtendSectorsKeeps, CheckPositionKeeps
  <1>12. Holds(ExtendRest(c), H)
    BY <1>11, ClearRestKeeps DEF ExtendRest
  <1>13. ExtendFrom(b) \in {b, ClearRest(b, b.remain), ExtendRest(c)}
    BY <1>7, <1>9, <1>10 DEF ExtendFrom
  <1> QED BY <1>4, <1>5, <1>6, <1>12, <1>13

-----------------------------------------------------------------------------
(* The invariant. *)

\* Where the chains of taken clusters and of files, which start at s, begin.
Firsts(s, T) == T \cup ({s[f] : f \in Files} \ {CLUSTER_FREE})

Different(s, T) ==
    \A f \in Files : s[f] = CLUSTER_FREE \/ (s[f] \notin T /\ \A g \in Files : s[g] = s[f] => g = f)

Starts == [f \in Files |-> StartOf(f)]

\* What the directory entry of f says while it is open: the file's start unless it has changed since.
EntryKnown(f) ==
    /\ file[f].inUse \/ ~file[f].modified
    /\ file[f].inUse =>
        /\ file[f].modified => file[f].write
        /\ file[f].modified \/ entry[f].cluster \in {CLUSTER_FREE, file[f].startCluster}

Structures ==
    /\ DOMAIN file = Files /\ DOMAIN entry = Files
    /\ \A f \in Files : {"inUse", "write", "modified", "startCluster"} \subseteq DOMAIN file[f] /\ EntryKnown(f)
    /\ fsinfo = [signed |-> fsinfo.signed, numberFreeCluster |-> fsinfo.numberFreeCluster]
    /\ fsinfo.numberFreeCluster \in Nat

ChainsInv == Sound(p, Firsts(Starts, taken)) /\ Different(Starts, taken) /\ Structures

\* Fewer chains are looked at.
LEMMA Fewer ==
    ASSUME NEW q, NEW H, Sound(q, H), NEW G, G \subseteq H
    PROVE  Sound(q, G)
  BY DEF Sound, Apart

\* Files that lose their chains, and one that gets its first cluster.
LEMMA StartsDropped ==
    ASSUME NEW s, NEW T, Different(s, T), NEW t, \A f \in Files : t[f] \in {s[f], CLUSTER_FREE}
    PROVE  Different(t, T) /\ Firsts(t, T) \subseteq Firsts(s, T)
  BY DEF Different, Firsts

\* A file that loses its chain: the chains of the others begin elsewhere.
LEMMA StartCut ==
    ASSUME NEW s, NEW T, CLUSTER_FREE \notin T, Different(s, T), NEW f \in Files, NEW t, t[f] = CLUSTER_FREE,
           \A g \in Files : g # f => t[g] = s[g]
    PROVE  Different(t, T) /\ Firsts(t, T) \subseteq Firsts(s, T) \ {s[f]}
  <1>1. Different(t, T)
    BY DEF Different
  <1>2. s[f] = CLUSTER_FREE \/ (s[f] \notin T /\ \A g \in Files : g # f => s[g] # s[f])
    BY DEF Different
  <1>3. \A g \in Files : t[g] # CLUSTER_FREE => g # f /\ t[g] = s[g] /\ s[g] # s[f]
    BY <1>2
  <1> QED BY <1>1, <1>2, <1>3 DEF Firsts

\* A file that gets its first cluster: no other chain begins there.
LEMMA StartFound ==
    ASSUME NEW s, NEW T, Different(s, T), NEW f \in Files, s[f] = CLUSTER_FREE, NEW t, t[f] \notin Firsts(s, T),
           \A g \in Files : g # f => t[g] = s[g]
    PROVE  Different(t, T) /\ Firsts(t, T) \subseteq Firsts(s, T) \cup {t[f]}
  <1>1. t[f] \notin T /\ \A g \in Files : s[g] = CLUSTER_FREE \/ s[g] # t[f]
    BY DEF Firsts
  <1>2. ASSUME NEW g \in Files, t[g] # CLUSTER_FREE
        PROVE  t[g] \notin T /\ \A k \in Files : t[k] = t[g] => k = g
    <2>1. CASE g = f
      BY <1>1, <1>2, <2>1
    <2>2. CASE g # f
      <3>1. t[g] = s[g] /\ s[g] # CLUSTER_FREE /\ s[g] # t[f]
        BY <1>1, <1>2, <2>2
      <3> QED BY <3>1 DEF Different
    <2> QED BY <2>1, <2>2
  <1>3. Firsts(t, T) \subseteq Firsts(s, T) \cup {t[f]}
    BY DEF Firsts
  <1> QED BY <1>2, <1>3 DEF Different

\* The invariant says what the property does.
LEMMA InvImplies ==
    ASSUME ChainsInv
    PROVE  ChainsSeparate
  <1>1. PICK l, H : l = Links(p) /\ H = Firsts(Starts, taken)
    OBVIOUS
  <1>2. Apart(l, H, CLUSTER_FREE) /\ \A c \in Clusters : l[c] = NextCluster(p, c)
    BY <1>1, ClusterFacts DEF ChainsInv, Sound, Links
  <1>3. ASSUME NEW c \in Clusters, NEW d \in Clusters, NextCluster(p, c) \in Clusters
        PROVE  /\ NextCluster(p, c) \notin FreeClusters(p) \cup taken \cup {StartOf(f) : f \in Files}
               /\ NextCluster(p, c) = NextCluster(p, d) => c = d
    <2>1. PICK e : e = NextCluster(p, c)
      OBVIOUS
    <2>2. e \in Clusters /\ l[c] = e
      BY <1>2, <1>3, <2>1
    <2>3. e \notin H /\ l[e] # CLUSTER_FREE /\ (l[d] = e => d = c)
      BY <1>2, <2>2, ClusterFacts DEF Apart
    <2>4. e \notin FreeClusters(p)
      BY <1>2, <2>2, <2>3 DEF FreeClusters, IsFree
    <2>5. e # CLUSTER_FREE
      BY <2>2, ClusterFacts
    <2>6. e \notin taken /\ \A f \in Files : StartOf(f) # e
      BY <1>1, <2>3, <2>5 DEF Firsts, Starts
    <2> QED BY <1>2, <2>1, <2>3, <2>4, <2>6
  <1>4. ASSUME NEW f \in Files, StartOf(f) # CLUSTER_FREE
        PROVE  /\ StartOf(f) \in Clusters \ (FreeClusters(p) \cup taken)
               /\ \A g \in Files : StartOf(f) = StartOf(g) => f = g
    <2>1. StartOf(f) \in H
      BY <1>1, <1>4 DEF Firsts, Starts
    <2>2. StartOf(f) \in Clusters /\ l[StartOf(f)] # CLUSTER_FREE
      BY <1>2, <2>1 DEF Apart
    <2>3. StartOf(f) \notin FreeClusters(p)
      BY <1>2, <2>2 DEF FreeClusters, IsFree
    <2>4. StartOf(f) \notin taken /\ \A g \in Files : StartOf(f) = StartOf(g) => f = g
      BY <1>4 DEF ChainsInv, Different, Starts
    <2> QED BY <2>2, <2>3, <2>4
  <1> QED BY <1>3, <1>4 DEF ChainsSeparate

-----------------------------------------------------------------------------
(* The first state. *)

\* A table of zeros has free clusters only.
LEMMA EmptyFacts ==
    ASSUME NEW type \in FilesysTypes
    PROVE  /\ Partition(EmptyPartition(type))
           /\ \A c \in Clusters : NextCluster(EmptyPartition(type), c) = CLUSTER_FREE
  <1>1. PICK q, t : q = EmptyPartition(type) /\ t = q.table
    OBVIOUS
  <1>2. q = [filesysType |-> type, table |-> t, firstFree |-> CLUSTER_FIRST, numberFreeCluster |-> 0]
    BY <1>1 DEF EmptyPartition
  <1>3. t = [i \in TableBytes(type) |-> IF i >= ((lastCluster + 1) * EntryBits(type) + 7) \div 8 THEN Following ELSE 0]
    BY <1>1 DEF EmptyPartition
  <1>4. t \in [TableBytes(type) -> Bytes]
    BY <1>3, FatAssumption DEF Bytes
  <1>5. Partition(q)
    BY <1>2, <1>4, ClusterFacts DEF Partition, CLUSTER_FREE, CLUSTER_FIRST
  <1>6. ASSUME NEW c \in Clusters PROVE NextCluster(q, c) = CLUSTER_FREE
    <2>1. c \in Nat /\ c >= 2 /\ c <= lastCluster /\ lastCluster \in Nat /\ c # CLUSTER_FREE
      BY ClusterFacts DEF Clusters, CLUSTER_FIRST, CLUSTER_FREE
    <2>2. PICK a : a = (c * EntryBits(type)) \div 8
      OBVIOUS
    <2>3. NextCluster(q, c) = EntryOf(type, t, c, a)
      BY <1>2, <2>1, <2>2 DEF NextCluster, EntryAt
    <2>4. CASE type = "FS_FAT12"
      <3>1. EntryBits(type) = 12
        BY <2>4 DEF EntryBits
      <3>2. /\ a \in TableBytes(type) /\ a + 1 \in TableBytes(type)
            /\ a + 1 < ((lastCluster + 1) * EntryBits(type) + 7) \div 8 /\ a \in Nat
        BY <2>1, <2>2, <3>1 DEF TableBytes
      <3>3. t[a] = 0 /\ t[a + 1] = 0
        <4>1. PICK b : b = ((lastCluster + 1) * EntryBits(type) + 7) \div 8
          OBVIOUS
        <4>2. b \in Int
          BY <2>1, <3>1, <4>1
        <4> QED BY <1>3, <3>2, <4>1, <4>2
      <3>4. EntryOf(type, t, c, a) = Fat12Entry(c, t[a] + 256 * t[a + 1])
        BY <2>4 DEF EntryOf
      <3> QED BY <2>3, <3>3, <3>4 DEF Fat12Entry, EndOfFile, CLUSTER_FREE
    <2>5. CASE type = "FS_FAT16"
      <3>1. EntryBits(type) = 16
        BY <2>5 DEF EntryBits
      <3>2. /\ a \in TableBytes(type) /\ a + 1 \in TableBytes(type)
            /\ a + 1 < ((lastCluster + 1) * EntryBits(type) + 7) \div 8 /\ a \in Nat
        BY <2>1, <2>2, <3>1 DEF TableBytes
      <3>3. t[a] = 0 /\ t[a + 1] = 0
        <4>1. PICK b : b = ((lastCluster + 1) * EntryBits(type) + 7) \div 8
          OBVIOUS
        <4>2. b \in Int
          BY <2>1, <3>1, <4>1
        <4> QED BY <1>3, <3>2, <4>1, <4>2
      <3>4. EntryOf(type, t, c, a) = Fat16Entry(t[a] + 256 * t[a + 1])
        BY <2>5 DEF EntryOf
      <3> QED BY <2>3, <3>3, <3>4 DEF Fat16Entry, EndOfFile, CLUSTER_FREE
    <2>6. CASE type = "FS_FAT32"
      <3>1. EntryBits(type) = 32
        BY <2>6 DEF EntryBits
      <3>2. /\ \A i \in 0 .. 3 : a + i \in TableBytes(type) /\ a + i < ((lastCluster + 1) * EntryBits(type) + 7) \div 8
            /\ a \in Nat
        BY <2>1, <2>2, <3>1 DEF TableBytes
      <3>3. \A i \in 0 .. 3 : t[a + i] = 0
        <4>1. PICK b : b = ((lastCluster + 1) * EntryBits(type) + 7) \div 8
          OBVIOUS
        <4>2. b \in Int
          BY <2>1, <3>1, <4>1
        <4> QED BY <1>3, <3>2, <4>1, <4>2
      <3>4. t[a] = 0 /\ t[a + 1] = 0 /\ t[a + 2] = 0 /\ t[a + 3] = 0
        BY <3>2, <3>3
      <3>5. EntryOf(type, t, c, a) = Fat32Entry(t[a] + 256 * t[a + 1], t[a + 2] + 256 * t[a + 3])
        BY <2>6 DEF EntryOf
      <3> QED BY <2>3, <3>4, <3>5 DEF Fat32Entry, EndOfFile, CLUSTER_FREE
    <2> QED BY <2>4, <2>5, <2>6, FatAssumption
  <1> QED BY <1>1, <1>5, <1>6

\* The clusters of S up to d end chains, the others are free.
Using(q, S, d) ==
    /\ Partition(q)
    /\ \A c \in Clusters : Links(q)[c] = IF c \in S /\ c <= d THEN CLUSTER_EOF ELSE CLUSTER_FREE

\* The partition with the clusters S in use, by looking at the first one that would be wrong.
LEMMA PartitionWithFacts ==
    ASSUME EntriesFit, NEW type \in FilesysTypes, NEW S \in SUBSET Clusters
    PROVE  Sound(PartitionWith(type, S), S)
  <1> DEFINE Step(q, c) == IF c \in S THEN WriteFatEntry(q, c, CLUSTER_EOF) ELSE q
             After(g, m) == [c \in 1 .. m |-> IF c = 1 THEN EmptyPartition(type) ELSE Step(g[c - 1], c)]
             g == CHOOSE g : g = After(g, lastCluster)
  <1>1. PartitionWith(type, S) = g[lastCluster]
    BY DEF PartitionWith
  <1>2. lastCluster \in Nat /\ lastCluster >= 2
    BY FatAssumption
  <1>8. Using(EmptyPartition(type), S, 1)
    <2>1. \A c \in Clusters : ~(c <= 1)
      BY <1>2 DEF Clusters, CLUSTER_FIRST
    <2>2. \A c \in Clusters : Links(EmptyPartition(type))[c] = CLUSTER_FREE
      BY EmptyFacts, ClusterFacts DEF Links
    <2> QED BY <2>1, <2>2, EmptyFacts DEF Using
  <1>3. ASSUME NEW d \in Clusters, NEW q, Using(q, S, d - 1) PROVE Using(Step(q, d), S, d)
    <2>1. Partition(q) /\ Partition(Step(q, d))
      BY <1>3, LinksWritten, ClusterFacts DEF Using
    <2>2. ASSUME NEW c \in Clusters PROVE Links(Step(q, d))[c] = IF c \in S /\ c <= d THEN CLUSTER_EOF ELSE CLUSTER_FREE
      <3>1. c \in Nat /\ d \in Nat /\ c \in Entered /\ d \in Entered
        BY ClusterFacts
      <3>2. Links(q)[c] = IF c \in S /\ c <= d - 1 THEN CLUSTER_EOF ELSE CLUSTER_FREE
        BY <1>3 DEF Using
      <3>3. CASE d \in S
        <4>1. Links(Step(q, d)) = [Links(q) EXCEPT ![d] = CLUSTER_EOF]
          BY <2>1, <3>3, LinksWritten, ClusterFacts
        <4>2. DOMAIN Links(q) = Entered
          BY DEF Links
        <4> QED BY <3>1, <3>2, <3>3, <4>1, <4>2
      <3>4. CASE d \notin S
        BY <3>1, <3>2, <3>4
      <3> QED BY <3>3, <3>4
    <2> QED BY <2>1, <2>2 DEF Using
  <1> HIDE DEF Step
  <1>4. \E h : h = After(h, lastCluster)
    <2> DEFINE T == {m \in Nat \ {0} : ~\E h : h = After(h, m)}
    <2>0. lastCluster \in Nat \ {0}
      BY <1>2
    <2> SUFFICES ASSUME T # {} PROVE FALSE
      BY <2>0
    <2> HIDE DEF T
    <2>1. PICK m \in T : \A k \in T : m <= k
      <3>1. T \subseteq Nat
        BY DEF T
      <3> QED BY <3>1, LeastOf
    <2>2. m \in Nat /\ m # 0 /\ ~\E h : h = After(h, m)
      BY DEF T
    <2>3. CASE m = 1
      <3>1. PICK h : h = [i \in 1 .. 1 |-> EmptyPartition(type)]
        OBVIOUS
      <3>2. h = After(h, 1)
        BY <3>1
      <3> QED BY <2>2, <2>3, <3>2
    <2>4. CASE m # 1
      <3>1. m - 1 \in Nat /\ m - 1 # 0 /\ m - 1 \notin T
        BY <2>1, <2>2, <2>4
      <3>2. PICK h : h = After(h, m - 1)
        BY <3>1 DEF T
      <3>3. PICK u : u = [i \in 1 .. m |-> IF i = m THEN Step(h[m - 1], m) ELSE h[i]]
        OBVIOUS
      <3>4. \A i \in 1 .. m - 1 : h[i] = IF i = 1 THEN EmptyPartition(type) ELSE Step(h[i - 1], i)
        BY <3>2
      <3>5. \A i \in 1 .. m : u[i] = IF i = 1 THEN EmptyPartition(type) ELSE Step(u[i - 1], i)
        BY <2>2, <2>4, <3>3, <3>4
      <3>6. u = After(u, m)
        BY <3>3, <3>5
      <3> QED BY <2>2, <3>6
    <2> QED BY <2>3, <2>4
  <1>5. g = After(g, lastCluster)
    BY <1>4
  <1> HIDE DEF g
  <1>6. \A i \in 1 .. lastCluster : g[i] = IF i = 1 THEN EmptyPartition(type) ELSE Step(g[i - 1], i)
    BY <1>5
  <1>7. \A i \in 1 .. lastCluster : Using(g[i], S, i)
    <2> DEFINE T == {i \in 1 .. lastCluster : ~Using(g[i], S, i)}
    <2> SUFFICES ASSUME T # {} PROVE FALSE
      OBVIOUS
    <2> HIDE DEF T
    <2>1. PICK m \in T : \A k \in T : m <= k
      <3>1. T \subseteq Nat
        BY <1>2 DEF T
      <3> QED BY <3>1, LeastOf
    <2>2. m \in 1 .. lastCluster /\ ~Using(g[m], S, m)
      BY DEF T
    <2>3. m # 1
      BY <1>6, <1>8, <2>2
    <2>4. m - 1 \in 1 .. lastCluster /\ m - 1 \notin T /\ m \in Clusters
      BY <1>2, <2>1, <2>2, <2>3 DEF Clusters, CLUSTER_FIRST
    <2>5. Using(g[m - 1], S, m - 1)
      BY <2>4 DEF T
    <2> QED BY <1>3, <1>6, <2>2, <2>3, <2>4, <2>5
  <1>9. PICK q : q = PartitionWith(type, S)
    OBVIOUS
  <1>10. Using(q, S, lastCluster)
    BY <1>1, <1>2, <1>7, <1>9
  <1>11. \A c \in Clusters : Links(q)[c] = IF c \in S THEN CLUSTER_EOF ELSE CLUSTER_FREE
    <2>1. \A c \in Clusters : c <= lastCluster
      BY <1>2 DEF Clusters
    <2> QED BY <1>10, <2>1 DEF Using
  <1>12. CLUSTER_EOF \notin Clusters /\ CLUSTER_FREE \notin Clusters /\ CLUSTER_EOF # CLUSTER_FREE
    BY <1>10, MarkFacts, ClusterFacts DEF Using
  <1>13. Apart(Links(q), S, CLUSTER_FREE)
    BY <1>11, <1>12 DEF Apart
  <1> QED BY <1>9, <1>10, <1>13 DEF Sound, Using

\* Mounting a partition counts its free clusters, or takes the number from the information sector.
LEMMA Mounted ==
    ASSUME NEW q, NEW H, Sound(q, H), NEW info, info.numberFreeCluster \in Nat,
           info = [signed |-> info.signed, numberFreeCluster |-> info.numberFreeCluster],
           NEW m, m = ReadFSinfo(q, info)
    PROVE  /\ Sound(m.p, H) /\ m.info.numberFreeCluster \in Nat
           /\ m.info = [signed |-> m.info.signed, numberFreeCluster |-> m.info.numberFreeCluster]
  <1>1. CASE q.filesysType # "FS_FAT32"
    BY <1>1 DEF ReadFSinfo
  <1>2. CASE q.filesysType = "FS_FAT32"
    <2>1. PICK n : n = IF ~info.signed \/ info.numberFreeCluster = 0 THEN FreeClusterCount(q)
                       ELSE info.numberFreeCluster
      OBVIOUS
    <2>2. m = [p |-> [q EXCEPT !.numberFreeCluster = n], info |-> [signed |-> TRUE, numberFreeCluster |-> n]]
      BY <1>2, <2>1 DEF ReadFSinfo
    <2>3. FreeClusterCount(q) \in Nat
      <3>1. IsFiniteSet(Clusters)
        BY ClusterFacts, FS_Interval DEF Clusters, CLUSTER_FIRST
      <3>2. IsFiniteSet(FreeClusters(q))
        BY <3>1, FS_Subset DEF FreeClusters
      <3> QED BY <3>2, FS_CardinalityType DEF FreeClusterCount
    <2>4. n \in Nat
      BY <2>1, <2>3
    <2>5. m.p = Recounted(q, q.firstFree, n)
      <3>1. q = [filesysType |-> q.filesysType, table |-> q.table, firstFree |-> q.firstFree,
                 numberFreeCluster |-> q.numberFreeCluster]
        BY DEF Sound, Partition
      <3>2. [q EXCEPT !.numberFreeCluster = n] = Recounted(q, q.firstFree, n)
        BY <3>1 DEF Recounted
      <3> QED BY <2>2, <3>2
    <2>6. q.firstFree \in CLUSTER_FREE .. lastCluster + 1
      BY DEF Sound, Partition
    <2>7. Partition(m.p) /\ Links(m.p) = Links(q)
      BY <2>4, <2>5, <2>6, Counters DEF Sound
    <2> QED BY <2>2, <2>4, <2>7 DEF Sound
  <1> QED BY <1>1, <1>2

\* The invariant holds when a partition has been mounted.
LEMMA InitInv ==
    ASSUME EntriesFit, Init
    PROVE  ChainsInv
  <1>1. taken \in SUBSET Clusters
    BY DEF Init
  <1>2. PICK type \in FilesysTypes : p = ReadFSinfo(PartitionWith(type, taken), NoFSinfo).p
                                     /\ fsinfo = ReadFSinfo(PartitionWith(type, taken), NoFSinfo).info
    BY DEF Init
  <1>3. Sound(PartitionWith(type, taken), taken)
    BY <1>1, PartitionWithFacts
  <1>4. NoFSinfo.numberFreeCluster \in Nat
        /\ NoFSinfo = [signed |-> NoFSinfo.signed, numberFreeCluster |-> NoFSinfo.numberFreeCluster]
    BY DEF NoFSinfo
  <1>5. /\ Sound(p, taken) /\ fsinfo.numberFreeCluster \in Nat
        /\ fsinfo = [signed |-> fsinfo.signed, numberFreeCluster |-> fsinfo.numberFreeCluster]
    BY <1>2, <1>3, <1>4, Mounted
  <1>6. /\ entry = [f \in Files |-> [cluster |-> CLUSTER_FREE, fileSize |-> 0]]
        /\ file = [f \in Files |-> Closed]
    BY DEF Init
  <1>7. \A f \in Files : StartOf(f) = CLUSTER_FREE
    BY <1>6 DEF StartOf, Closed
  <1>8. Firsts(Starts, taken) = taken /\ Different(Starts, taken)
    BY <1>7 DEF Firsts, Different, Starts
  <1>9. Structures
    BY <1>5, <1>6 DEF Structures, EntryKnown, Closed
  <1> QED BY <1>5, <1>8, <1>9 DEF ChainsInv

-----------------------------------------------------------------------------
(* The steps. *)

\* A call for f leaves the other files alone, and the invariant holds with what f starts with after it.
LEMMA OneFile ==
    ASSUME ChainsInv, NEW f \in Files, UNCHANGED <<taken, fsinfo>>, DOMAIN file' = Files, DOMAIN entry' = Files,
           \A g \in Files : g # f => file'[g] = file[g] /\ entry'[g] = entry[g],
           {"inUse", "write", "modified", "startCluster"} \subseteq DOMAIN file'[f], EntryKnown(f)',
           NEW t, t = [Starts EXCEPT ![f] = StartOf(f)'], Different(t, taken), Sound(p', Firsts(t, taken))
    PROVE  ChainsInv'
  <1>1. \A g \in Files : g # f => StartOf(g)' = StartOf(g)
    BY DEF StartOf
  <1>2. Starts' = t
    BY <1>1 DEF Starts
  <1>3. Structures'
    <2>1. ASSUME NEW g \in Files
          PROVE  {"inUse", "write", "modified", "startCluster"} \subseteq DOMAIN file'[g] /\ EntryKnown(g)'
      <3>1. CASE g = f
        BY <3>1
      <3>2. CASE g # f
        BY <3>2 DEF ChainsInv, Structures, EntryKnown
      <3> QED BY <3>1, <3>2
    <2> QED BY <2>1 DEF ChainsInv, Structures
  <1> QED BY <1>2, <1>3 DEF ChainsInv

\* What the invariant says of one file.
LEMMA InvFacts ==
    ASSUME ChainsInv, NEW f \in Files
    PROVE  /\ Sound(p, Firsts(Starts, taken)) /\ Different(Starts, taken) /\ CLUSTER_FREE \notin taken
           /\ DOMAIN file = Files /\ DOMAIN entry = Files /\ DOMAIN Starts = Files
           /\ {"inUse", "write", "modified", "startCluster"} \subseteq DOMAIN file[f] /\ EntryKnown(f)
           /\ Starts[f] = StartOf(f) /\ StartOf(f) \in Firsts(Starts, taken) \cup {CLUSTER_FREE}
  <1>1. Firsts(Starts, taken) \subseteq Clusters
    BY DEF ChainsInv, Sound, Apart
  <1>2. taken \subseteq Clusters
    BY <1>1 DEF Firsts
  <1>3. Starts[f] = StartOf(f) /\ DOMAIN Starts = Files
    BY DEF Starts
  <1>4. StartOf(f) \in Firsts(Starts, taken) \cup {CLUSTER_FREE}
    BY <1>3 DEF Firsts
  <1> QED BY <1>2, <1>3, <1>4, ClusterFacts DEF ChainsInv, Structures

\* The chains of the others stay when the start of f is dropped.
LEMMA WithStart ==
    ASSUME ChainsInv, NEW f \in Files, NEW c \in {StartOf(f), CLUSTER_FREE}, NEW q, Sound(q, Firsts(Starts, taken)),
           NEW t, t = [Starts EXCEPT ![f] = c]
    PROVE  Different(t, taken) /\ Sound(q, Firsts(t, taken))
  <1>1. \A g \in Files : t[g] \in {Starts[g], CLUSTER_FREE}
    BY InvFacts
  <1>2. Different(t, taken) /\ Firsts(t, taken) \subseteq Firsts(Starts, taken)
    BY <1>1, InvFacts, StartsDropped
  <1> QED BY <1>2, Fewer

\* The chains of the others stay when the chain of f was freed.
LEMMA WithoutStart ==
    ASSUME ChainsInv, NEW f \in Files, NEW q, Sound(q, Firsts(Starts, taken) \ {StartOf(f)}),
           NEW t, t = [Starts EXCEPT ![f] = CLUSTER_FREE]
    PROVE  Different(t, taken) /\ Sound(q, Firsts(t, taken))
  <1>1. t[f] = CLUSTER_FREE /\ \A g \in Files : g # f => t[g] = Starts[g]
    BY InvFacts
  <1>2. Different(t, taken) /\ Firsts(t, taken) \subseteq Firsts(Starts, taken) \ {StartOf(f)}
    BY <1>1, InvFacts, StartCut
  <1> QED BY <1>2, Fewer

\* FAT_open, which truncates a file that is opened to be written from its start.
LEMMA OpenStep ==
    ASSUME EntriesFit, ChainsInv, NEW f \in Files, NEW mode, FAT_open(f, mode)
    PROVE  ChainsInv'
  <1>1. PICK cut : cut = (mode = "w+trunc" /\ entry[f].cluster # CLUSTER_FREE)
    OBVIOUS
  <1>2. /\ ~file[f].inUse
        /\ p' = IF cut THEN ClearLinks(p, entry[f].cluster) ELSE p
        /\ UNCHANGED <<entry, fsinfo, taken>>
    BY <1>1 DEF FAT_open
  <1>0. PICK start, size, append :
            /\ start = IF cut THEN CLUSTER_FREE ELSE entry[f].cluster
            /\ size = IF cut THEN 0 ELSE entry[f].fileSize
            /\ append = (mode \in {"w+append", "rw+append"})
    OBVIOUS
  <1>11. PICK position : position = IF append THEN AppendPosition(start, size) ELSE Start(start)
    OBVIOUS
  <1>12. PICK h : h = [inUse |-> TRUE,
                       read |-> mode \in {"r", "rw", "rw+append"},
                       write |-> mode # "r",
                       append |-> append,
                       modified |-> cut,
                       filesize |-> size,
                       startCluster |-> start,
                       currentPosition |-> 0,
                       rwPosition |-> Start(start),
                       appendPosition |-> position]
    OBVIOUS
  <1>13. file' = [file EXCEPT ![f] = h]
    BY <1>1, <1>0, <1>11, <1>12 DEF FAT_open
  <1>3. /\ {"inUse", "write", "modified", "startCluster"} \subseteq DOMAIN h
        /\ h.inUse = TRUE /\ h.write = (mode # "r") /\ h.modified = cut
        /\ h.startCluster = IF cut THEN CLUSTER_FREE ELSE entry[f].cluster
    BY <1>0, <1>12
  <1>4. file'[f] = h /\ DOMAIN file' = Files /\ DOMAIN entry' = Files /\ StartOf(f) = entry[f].cluster
        /\ \A g \in Files : g # f => file'[g] = file[g] /\ entry'[g] = entry[g]
    BY <1>2, <1>13, InvFacts DEF StartOf
  <1>5. StartOf(f)' = IF cut THEN CLUSTER_FREE ELSE StartOf(f)
    BY <1>3, <1>4 DEF StartOf
  <1>6. EntryKnown(f)'
    BY <1>1, <1>2, <1>3, <1>4 DEF EntryKnown
  <1>7. PICK t : t = [Starts EXCEPT ![f] = StartOf(f)']
    OBVIOUS
  <1>8. Different(t, taken) /\ Sound(p', Firsts(t, taken))
    <2>1. CASE cut
      <3>1. Sound(p', Firsts(Starts, taken) \ {StartOf(f)})
        BY <1>2, <1>4, <2>1, InvFacts, ClearKeeps
      <3> QED BY <1>5, <1>7, <2>1, <3>1, WithoutStart
    <2>2. CASE ~cut
      <3>1. Sound(p', Firsts(Starts, taken))
        BY <1>2, <2>2, InvFacts
      <3> QED BY <1>5, <1>7, <2>2, <3>1, WithStart
    <2> QED BY <2>1, <2>2
  <1>9. UNCHANGED <<taken, fsinfo>>
    BY <1>2
  <1>10. {"inUse", "write", "modified", "startCluster"} \subseteq DOMAIN file'[f]
    BY <1>3, <1>4
  <1> QED BY <1>4, <1>6, <1>7, <1>8, <1>9, <1>10, OneFile

\* A call for f that changes its structure to h, and perhaps the table, but not what f starts with.
LEMMA SameStart ==
    ASSUME ChainsInv, NEW f \in Files, file[f].inUse, UNCHANGED <<entry, taken, fsinfo>>,
           Sound(p', Firsts(Starts, taken)), NEW h, file' = [file EXCEPT ![f] = h],
           {"inUse", "write", "modified", "startCluster"} \subseteq DOMAIN h,
           h.inUse = file[f].inUse, h.write = file[f].write, h.startCluster = file[f].startCluster,
           h.modified = file[f].modified \/ (h.modified = TRUE /\ h.write)
    PROVE  ChainsInv'
  <1>1. file'[f] = h /\ DOMAIN file' = Files /\ DOMAIN entry' = Files
        /\ \A g \in Files : g # f => file'[g] = file[g] /\ entry'[g] = entry[g]
    BY InvFacts
  <1>2. StartOf(f)' = StartOf(f)
    BY <1>1 DEF StartOf
  <1>3. EntryKnown(f)'
    BY <1>1, InvFacts DEF EntryKnown
  <1>4. PICK t : t = [Starts EXCEPT ![f] = StartOf(f)']
    OBVIOUS
  <1>5. Different(t, taken) /\ Sound(p', Firsts(t, taken))
    BY <1>2, <1>4, WithStart
  <1>6. {"inUse", "write", "modified", "startCluster"} \subseteq DOMAIN file'[f] /\ UNCHANGED <<taken, fsinfo>>
    BY <1>1
  <1> QED BY <1>1, <1>3, <1>4, <1>5, <1>6, OneFile

\* FAT_read changes a position only.
LEMMA ReadStep ==
    ASSUME ChainsInv, NEW f \in Files, NEW len, FAT_read(f, len)
    PROVE  ChainsInv'
  <1>1. PICK r : file' = [file EXCEPT ![f].rwPosition = r.pos, ![f].currentPosition = @ + Len(r.got)]
    BY DEF FAT_read
  <1>2. file[f].inUse /\ UNCHANGED <<p, entry, taken, fsinfo>>
    BY DEF FAT_read, Readable
  <1>3. PICK h : h = [file[f] EXCEPT !.rwPosition = r.pos, !.currentPosition = @ + Len(r.got)]
    OBVIOUS
  <1>4. file' = [file EXCEPT ![f] = h]
    BY <1>1, <1>3, InvFacts
  <1>5. /\ {"inUse", "write", "modified", "startCluster"} \subseteq DOMAIN h
        /\ h.inUse = file[f].inUse /\ h.write = file[f].write /\ h.startCluster = file[f].startCluster
        /\ h.modified = file[f].modified
    BY <1>3, InvFacts
  <1>6. Sound(p', Firsts(Starts, taken)) /\ UNCHANGED <<entry, taken, fsinfo>>
    BY <1>2, InvFacts
  <1> QED BY <1>2, <1>4, <1>5, <1>6, SameStart

\* FAT_seek changes a position only, or fails.
LEMMA SeekStep ==
    ASSUME ChainsInv, NEW f \in Files, NEW pos, FAT_seek(f, pos)
    PROVE  ChainsInv'
  <1>1. file' = [file EXCEPT ![f] = Seek(file[f], pos)] /\ file[f].inUse /\ UNCHANGED <<p, entry, taken, fsinfo>>
    BY DEF FAT_seek
  <1>2. ASSUME NEW h, {"inUse", "write", "modified", "startCluster"} \subseteq DOMAIN h, NEW k, k = Seek(h, pos)
        PROVE  /\ {"inUse", "write", "modified", "startCluster"} \subseteq DOMAIN k
               /\ k.inUse = h.inUse /\ k.write = h.write /\ k.startCluster = h.startCluster /\ k.modified = h.modified
    <2>1. ASSUME NEW s, k = SeekTo(h, pos, s)
          PROVE  /\ {"inUse", "write", "modified", "startCluster"} \subseteq DOMAIN k
                 /\ k.inUse = h.inUse /\ k.write = h.write /\ k.startCluster = h.startCluster /\ k.modified = h.modified
      BY <1>2, <2>1 DEF SeekTo
    <2>2. CASE pos > h.filesize \/ h.startCluster = CLUSTER_FREE
      BY <1>2, <2>2 DEF Seek
    <2>3. CASE ~(pos > h.filesize \/ h.startCluster = CLUSTER_FREE)
      <3>1. PICK s : k = SeekTo(h, pos, s)
        BY <1>2, <2>3 DEF Seek
      <3> QED BY <2>1, <3>1
    <2> QED BY <2>2, <2>3
  <1>3. PICK k : k = Seek(file[f], pos)
    OBVIOUS
  <1>4. /\ {"inUse", "write", "modified", "startCluster"} \subseteq DOMAIN k
        /\ k.inUse = file[f].inUse /\ k.write = file[f].write /\ k.startCluster = file[f].startCluster
        /\ k.modified = file[f].modified
    BY <1>2, <1>3, InvFacts
  <1>5. Sound(p', Firsts(Starts, taken)) /\ UNCHANGED <<entry, taken, fsinfo>>
    BY <1>1, InvFacts
  <1> QED BY <1>1, <1>3, <1>4, <1>5, SameStart

\* The directory entry after FAT_syncToDisc.
LEMMA SyncedFacts ==
    ASSUME ChainsInv, NEW f \in Files
    PROVE  /\ DOMAIN Synced(f) = Files /\ \A g \in Files : g # f => Synced(f)[g] = entry[g]
           /\ Synced(f)[f].cluster = IF file[f].write /\ file[f].modified THEN file[f].startCluster ELSE entry[f].cluster
           /\ file[f].inUse => Synced(f)[f].cluster \in {StartOf(f), CLUSTER_FREE}
           /\ ~file[f].write /\ file[f].inUse => entry[f].cluster \in {StartOf(f), CLUSTER_FREE}
  BY InvFacts DEF Synced, EntryKnown, StartOf

\* FAT_fsync: the directory entry then says what the structure did.
LEMMA SyncStep ==
    ASSUME ChainsInv, NEW f \in Files, FAT_fsync(f)
    PROVE  ChainsInv'
  <1>1. file[f].inUse /\ entry' = Synced(f) /\ file' = [file EXCEPT ![f].modified = FALSE] /\ UNCHANGED <<p, fsinfo, taken>>
    BY DEF FAT_fsync
  <1>2. PICK h : h = [file[f] EXCEPT !.modified = FALSE]
    OBVIOUS
  <1>3. file'[f] = h /\ DOMAIN file' = Files /\ DOMAIN entry' = Files
        /\ \A g \in Files : g # f => file'[g] = file[g] /\ entry'[g] = entry[g]
    BY <1>1, <1>2, InvFacts, SyncedFacts
  <1>4. /\ {"inUse", "write", "modified", "startCluster"} \subseteq DOMAIN h
        /\ h.inUse = file[f].inUse /\ h.startCluster = file[f].startCluster /\ h.modified = FALSE
    BY <1>2, InvFacts
  <1>5. StartOf(f)' = StartOf(f) /\ StartOf(f) = file[f].startCluster
    BY <1>1, <1>3, <1>4 DEF StartOf
  <1>6. EntryKnown(f)'
    BY <1>1, <1>3, <1>4, <1>5, SyncedFacts DEF EntryKnown
  <1>7. PICK t : t = [Starts EXCEPT ![f] = StartOf(f)']
    OBVIOUS
  <1>8. Different(t, taken) /\ Sound(p', Firsts(t, taken))
    BY <1>1, <1>5, <1>7, InvFacts, WithStart
  <1>9. {"inUse", "write", "modified", "startCluster"} \subseteq DOMAIN file'[f] /\ UNCHANGED <<taken, fsinfo>>
    BY <1>1, <1>3, <1>4
  <1> QED BY <1>3, <1>6, <1>7, <1>8, <1>9, OneFile

\* FAT_close: the file starts with what its entry says, the same cluster or none.
LEMMA CloseStep ==
    ASSUME ChainsInv, NEW f \in Files, FAT_close(f)
    PROVE  ChainsInv'
  <1>1. file[f].inUse /\ entry' = (IF file[f].write THEN Synced(f) ELSE entry) /\ file' = [file EXCEPT ![f] = Closed]
        /\ UNCHANGED <<p, fsinfo, taken>>
    BY DEF FAT_close
  <1>2. file'[f] = Closed /\ DOMAIN file' = Files /\ DOMAIN entry' = Files
        /\ \A g \in Files : g # f => file'[g] = file[g] /\ entry'[g] = entry[g]
    BY <1>1, InvFacts, SyncedFacts
  <1>3. StartOf(f)' \in {StartOf(f), CLUSTER_FREE}
    <2>1. StartOf(f)' = entry'[f].cluster
      BY <1>2 DEF StartOf, Closed
    <2> QED BY <1>1, <2>1, SyncedFacts
  <1>4. EntryKnown(f)' /\ {"inUse", "write", "modified", "startCluster"} \subseteq DOMAIN file'[f]
    BY <1>2 DEF EntryKnown, Closed
  <1>5. PICK t : t = [Starts EXCEPT ![f] = StartOf(f)']
    OBVIOUS
  <1>6. Different(t, taken) /\ Sound(p', Firsts(t, taken))
    BY <1>1, <1>3, <1>5, InvFacts, WithStart
  <1>7. UNCHANGED <<taken, fsinfo>>
    BY <1>1
  <1> QED BY <1>2, <1>4, <1>5, <1>6, <1>7, OneFile

\* Unmounting writes all entries, and mounting keeps the table.
LEMMA RemountStep ==
    ASSUME EntriesFit, ChainsInv, Remount
    PROVE  ChainsInv'
  <1>1. PICK q, info : q = [p EXCEPT !.firstFree = CLUSTER_FIRST, !.numberFreeCluster = 0] /\ info = WriteFSinfo(p, fsinfo)
    OBVIOUS
  <1>2. p' = ReadFSinfo(q, info).p /\ fsinfo' = ReadFSinfo(q, info).info
    BY <1>1 DEF Remount
  <1>3. /\ entry' = [f \in Files |-> Synced(f)[f]] /\ file' = [f \in Files |-> Closed] /\ UNCHANGED taken
    BY DEF Remount
  <1>4. Partition(p) /\ Apart(Links(p), Firsts(Starts, taken), CLUSTER_FREE)
    BY DEF ChainsInv, Sound
  <1>5. Sound(q, Firsts(Starts, taken))
    <2>1. q = Recounted(p, CLUSTER_FIRST, 0)
      BY <1>1 DEF Recounted
    <2>2. CLUSTER_FIRST \in CLUSTER_FREE .. lastCluster + 1
      BY ClusterFacts DEF CLUSTER_FIRST, CLUSTER_FREE
    <2> QED BY <1>4, <2>1, <2>2, Counters DEF Sound
  <1>6. info.numberFreeCluster \in Nat /\ info = [signed |-> info.signed, numberFreeCluster |-> info.numberFreeCluster]
    <2>1. fsinfo.numberFreeCluster \in Nat /\ p.numberFreeCluster \in Nat
          /\ fsinfo = [signed |-> fsinfo.signed, numberFreeCluster |-> fsinfo.numberFreeCluster]
      BY <1>4 DEF ChainsInv, Structures, Partition
    <2> QED BY <1>1, <2>1 DEF WriteFSinfo
  <1>7. /\ Sound(p', Firsts(Starts, taken)) /\ fsinfo'.numberFreeCluster \in Nat
        /\ fsinfo' = [signed |-> fsinfo'.signed, numberFreeCluster |-> fsinfo'.numberFreeCluster]
    BY <1>2, <1>5, <1>6, Mounted
  <1>8. \A f \in Files : StartOf(f)' \in {StartOf(f), CLUSTER_FREE}
    <2>1. ASSUME NEW f \in Files PROVE StartOf(f)' \in {StartOf(f), CLUSTER_FREE}
      <3>1. StartOf(f)' = Synced(f)[f].cluster
        BY <1>3 DEF StartOf, Closed
      <3>2. CASE file[f].inUse
        BY <3>1, <3>2, SyncedFacts
      <3>3. CASE ~file[f].inUse
        <4>1. Synced(f)[f].cluster = entry[f].cluster
          BY <3>3, InvFacts, SyncedFacts DEF EntryKnown
        <4> QED BY <3>1, <3>3, <4>1 DEF StartOf
      <3> QED BY <3>2, <3>3
    <2> QED BY <2>1
  <1>9. Different(Starts', taken) /\ Firsts(Starts', taken) \subseteq Firsts(Starts, taken)
    <2>1. \A f \in Files : Starts'[f] \in {Starts[f], CLUSTER_FREE}
      BY <1>8 DEF Starts
    <2> QED BY <2>1, StartsDropped DEF ChainsInv
  <1>10. Structures'
    BY <1>3, <1>7 DEF Structures, EntryKnown, Closed
  <1> QED BY <1>3, <1>7, <1>9, <1>10, Fewer DEF ChainsInv

\* The cluster that an empty file gets first is in no chain.
LEMMA BegunFacts ==
    ASSUME EntriesFit, ChainsInv, NEW f \in Files, file[f].inUse, NEW b, b = Begun(file[f]),
           NEW t, t = [Starts EXCEPT ![f] = b.h.startCluster]
    PROVE  /\ Different(t, taken) /\ Sound(b.p, Firsts(t, taken))
           /\ {"inUse", "write", "modified", "startCluster"} \subseteq DOMAIN b.h
           /\ b.h.inUse = file[f].inUse /\ b.h.write = file[f].write /\ b.h.modified = file[f].modified
           /\ b.h.startCluster = file[f].startCluster \/ file[f].startCluster = CLUSTER_FREE
           /\ ~b.ok => b.h = file[f]
  <1>1. PICK h, H : h = file[f] /\ H = Firsts(Starts, taken)
    OBVIOUS
  <1>2. PICK link : link = LinkFreeCluster(p, CLUSTER_FREE)
    OBVIOUS
  <1>3. StartOf(f) = h.startCluster /\ Starts[f] = h.startCluster
    BY <1>1, InvFacts DEF StartOf
  <1>4. CASE h.startCluster # CLUSTER_FREE
    <2>1. b = [p |-> p, h |-> h, ok |-> TRUE]
      BY <1>1, <1>4 DEF Begun
    <2>2. b.h = h /\ b.p = p /\ b.ok = TRUE
      BY <2>1
    <2>3. t = [Starts EXCEPT ![f] = StartOf(f)]
      BY <1>3, <2>2
    <2>4. Different(t, taken) /\ Sound(b.p, Firsts(t, taken))
      BY <2>2, <2>3, InvFacts, WithStart
    <2> QED BY <1>1, <2>2, <2>4, InvFacts
  <1>5. CASE h.startCluster = CLUSTER_FREE /\ ~IsValidCluster(link.cluster)
    <2>1. b = [p |-> link.p, h |-> h, ok |-> FALSE]
      BY <1>1, <1>2, <1>5 DEF Begun
    <2>2. Sound(link.p, H)
      BY <1>1, <1>2, InvFacts, LinkKeeps
    <2>3. b.h = h /\ b.p = link.p
      BY <2>1
    <2>4. t = [Starts EXCEPT ![f] = StartOf(f)]
      BY <1>3, <2>3
    <2>5. Different(t, taken) /\ Sound(b.p, Firsts(t, taken))
      BY <1>1, <2>2, <2>3, <2>4, WithStart
    <2> QED BY <1>1, <2>3, <2>5, InvFacts
  <1>6. CASE h.startCluster = CLUSTER_FREE /\ IsValidCluster(link.cluster)
    <2>1. PICK k : k = [h EXCEPT !.startCluster = link.cluster, !.rwPosition = Start(link.cluster),
                                 !.appendPosition = Start(link.cluster)]
      OBVIOUS
    <2>2. b = [p |-> link.p, ok |-> TRUE, h |-> k]
      BY <1>1, <1>2, <1>6, <2>1 DEF Begun
    <2>3. /\ {"inUse", "write", "modified", "startCluster"} \subseteq DOMAIN k
          /\ k.inUse = h.inUse /\ k.write = h.write /\ k.modified = h.modified
          /\ k.startCluster = link.cluster
      BY <1>1, <2>1, InvFacts
    <2>4. link.cluster \in Clusters
      BY <1>6 DEF IsValidCluster
    <2>5. link.cluster \notin H /\ Sound(link.p, H \cup {link.cluster})
      BY <1>1, <1>2, <2>4, InvFacts, LinkKeeps
    <2>6. t[f] = link.cluster /\ \A g \in Files : g # f => t[g] = Starts[g]
      BY <2>2, <2>3, InvFacts
    <2>7. Different(t, taken) /\ Firsts(t, taken) \subseteq H \cup {link.cluster}
      <3>1. Different(Starts, taken) /\ Starts[f] = CLUSTER_FREE /\ t[f] \notin Firsts(Starts, taken)
        BY <1>1, <1>3, <1>6, <2>5, <2>6, InvFacts
      <3>2. \A g \in Files : g # f => t[g] = Starts[g]
        BY <2>6
      <3>3. PICK s : s = Starts
        OBVIOUS
      <3>4. Different(t, taken) /\ Firsts(t, taken) \subseteq Firsts(Starts, taken) \cup {t[f]}
        BY <3>2, <3>1, <3>3, StartFound
      <3> QED BY <1>1, <2>6, <3>4
    <2>8. b.h = k /\ b.p = link.p /\ b.ok = TRUE
      BY <2>2
    <2>9. Sound(b.p, Firsts(t, taken))
      BY <2>5, <2>7, <2>8, Fewer
    <2> QED BY <1>1, <1>6, <2>3, <2>7, <2>8, <2>9
  <1> QED BY <1>4, <1>5, <1>6

\* The structure of f becomes h, those of the other files stay.
Changed(f, h) == file'[f] = h /\ DOMAIN file' = Files /\ \A g \in Files : g # f => file'[g] = file[g]

\* An assignment to the structure of f.
LEMMA ChangedFacts ==
    ASSUME ChainsInv, NEW f \in Files
    PROVE  /\ \A h : file' = [file EXCEPT ![f] = h] => Changed(f, h)
           /\ file' = file => Changed(f, file[f])
  BY InvFacts DEF Changed

\* A call for f that first gives it a cluster if it has none, and changes its structure to h.
LEMMA BegunStep ==
    ASSUME EntriesFit, ChainsInv, NEW f \in Files, file[f].inUse, NEW b, b = Begun(file[f]),
           NEW t, t = [Starts EXCEPT ![f] = b.h.startCluster], Sound(p', Firsts(t, taken)),
           UNCHANGED <<entry, taken, fsinfo>>, NEW h, Changed(f, h),
           {"inUse", "write", "modified", "startCluster"} \subseteq DOMAIN h,
           h.inUse = b.h.inUse, h.write = b.h.write, h.startCluster = b.h.startCluster,
           h.modified = b.h.modified \/ (h.modified = TRUE /\ h.write)
    PROVE  ChainsInv'
  <1>1. file'[f] = h /\ DOMAIN file' = Files /\ DOMAIN entry' = Files
        /\ \A g \in Files : g # f => file'[g] = file[g] /\ entry'[g] = entry[g]
    BY InvFacts DEF Changed
  <1>2. /\ b.h.inUse = file[f].inUse /\ b.h.write = file[f].write /\ b.h.modified = file[f].modified
        /\ b.h.startCluster = file[f].startCluster \/ file[f].startCluster = CLUSTER_FREE
        /\ Different(t, taken)
    BY BegunFacts
  <1>3. StartOf(f)' = b.h.startCluster
    BY <1>1, <1>2 DEF StartOf
  <1>4. EntryKnown(f)'
    BY <1>1, <1>2, InvFacts DEF EntryKnown
  <1>5. t = [Starts EXCEPT ![f] = StartOf(f)']
    BY <1>3
  <1>6. {"inUse", "write", "modified", "startCluster"} \subseteq DOMAIN file'[f] /\ UNCHANGED <<taken, fsinfo>>
    BY <1>1
  <1> QED BY <1>1, <1>2, <1>4, <1>5, <1>6, OneFile

\* Filling the gap before a write.
LEMMA FilledFacts ==
    ASSUME EntriesFit, NEW b, NEW H, Sound(b.p, H), NEW ext, ext = Filled(b)
    PROVE  Sound(ext.p, H)
  <1>1. CASE b.ok /\ Gap(b.h)
    <2>1. ext = Extend(b.p, data, b.h)
      BY <1>1 DEF Filled
    <2> QED BY <2>1, ExtendKeeps DEF Holds
  <1>2. CASE ~(b.ok /\ Gap(b.h))
    BY <1>2 DEF Filled
  <1> QED BY <1>1, <1>2

\* FAT_write keeps the invariant, in each of its three endings.
LEMMA WriteStep ==
    ASSUME EntriesFit, ChainsInv, NEW f \in Files, NEW len, FAT_write(f, len)
    PROVE  ChainsInv'
  <1>1. PICK b, ext : b = Begun(file[f]) /\ ext = Filled(b)
    OBVIOUS
  <1>2. file[f].inUse /\ file[f].write /\ UNCHANGED <<entry, fsinfo, taken>>
    BY DEF FAT_write
  <1>3. PICK t : t = [Starts EXCEPT ![f] = b.h.startCluster]
    OBVIOUS
  <1>4. /\ Different(t, taken) /\ Sound(b.p, Firsts(t, taken))
        /\ {"inUse", "write", "modified", "startCluster"} \subseteq DOMAIN b.h
        /\ b.h.inUse = file[f].inUse /\ b.h.write = file[f].write
        /\ ~b.ok => b.h = file[f]
    BY <1>1, <1>2, <1>3, BegunFacts
  <1>5. Sound(ext.p, Firsts(t, taken))
    BY <1>1, <1>4, FilledFacts
  <1>6. CASE ~b.ok /\ p' = b.p /\ file' = file
    <2>1. Changed(f, b.h)
      BY <1>4, <1>6, ChangedFacts
    <2> QED BY <1>1, <1>2, <1>3, <1>4, <1>6, <2>1, BegunStep
  <1>7. CASE p' = ext.p /\ file' = [file EXCEPT ![f] = b.h]
    <2>1. Changed(f, b.h)
      BY <1>7, ChangedFacts
    <2> QED BY <1>1, <1>2, <1>3, <1>4, <1>5, <1>7, <2>1, BegunStep
  <1>8. ASSUME NEW h, WriteBytes(f, h, len, ext),
               h = IF Gap(b.h) THEN [b.h EXCEPT !.rwPosition = ext.pos, !.filesize = b.h.currentPosition] ELSE b.h
        PROVE  ChainsInv'
    <2>1. /\ {"inUse", "write", "modified", "startCluster"} \subseteq DOMAIN h
          /\ h.inUse = b.h.inUse /\ h.write = b.h.write /\ h.startCluster = b.h.startCluster
      BY <1>4, <1>8
    <2>2. PICK v : v = [p |-> ext.p, data |-> ext.data, pos |-> IF h.append THEN h.appendPosition ELSE h.rwPosition,
                        remain |-> len, offset |-> WriteOffset(h), ok |-> TRUE]
      OBVIOUS
    <2>3. Holds(v, Firsts(t, taken))
      BY <1>5, <2>2 DEF Holds
    <2>4. PICK w : w = WriteAt(f, v, h.append \/ WriteOffset(h) + len > h.filesize)
      OBVIOUS
    <2>5. Sound(w.p, Firsts(t, taken))
      BY <2>3, <2>4, WriteKeeps DEF Holds
    <2>6. PICK k : k = IF h.append
                       THEN [h EXCEPT !.modified = TRUE, !.appendPosition = w.pos, !.filesize = w.offset]
                       ELSE [h EXCEPT !.modified = TRUE, !.rwPosition = w.pos, !.currentPosition = w.offset,
                                      !.filesize = IF w.offset > @ THEN w.offset ELSE @]
      OBVIOUS
    <2>7. p' = w.p /\ file' = [file EXCEPT ![f] = k]
      BY <1>8, <2>2, <2>4, <2>6 DEF WriteBytes
    <2>8. /\ {"inUse", "write", "modified", "startCluster"} \subseteq DOMAIN k
          /\ k.inUse = b.h.inUse /\ k.write = b.h.write /\ k.startCluster = b.h.startCluster
          /\ k.modified = TRUE /\ k.write
      BY <1>2, <1>4, <2>1, <2>6
    <2>9. Changed(f, k)
      BY <2>7, ChangedFacts
    <2> QED BY <1>1, <1>2, <1>3, <2>5, <2>7, <2>8, <2>9, BegunStep
  <1>9. \/ ~b.ok /\ p' = b.p /\ file' = file
        \/ p' = ext.p /\ file' = [file EXCEPT ![f] = b.h]
        \/ WriteBytes(f, IF Gap(b.h) THEN [b.h EXCEPT !.rwPosition = ext.pos, !.filesize = b.h.currentPosition]
                         ELSE b.h, len, ext)
    BY <1>1 DEF FAT_write
  <1> QED BY <1>6, <1>7, <1>8, <1>9

\* FAT_ftruncate to a larger size.
LEMMA ExpandStep ==
    ASSUME EntriesFit, ChainsInv, NEW f \in Files, NEW newSize, file[f].inUse, file[f].write,
           Expand(f, newSize), UNCHANGED <<entry, fsinfo, taken>>
    PROVE  ChainsInv'
  <1>1. PICK b : b = Begun(file[f])
    OBVIOUS
  <1>2. PICK t : t = [Starts EXCEPT ![f] = b.h.startCluster]
    OBVIOUS
  <1>3. /\ Different(t, taken) /\ Sound(b.p, Firsts(t, taken))
        /\ {"inUse", "write", "modified", "startCluster"} \subseteq DOMAIN b.h
        /\ b.h.inUse = file[f].inUse /\ b.h.write = file[f].write
        /\ ~b.ok => b.h = file[f]
    BY <1>1, <1>2, BegunFacts
  <1>4. CASE ~b.ok /\ p' = b.p /\ file' = file
    <2>1. Changed(f, b.h)
      BY <1>3, <1>4, ChangedFacts
    <2> QED BY <1>1, <1>2, <1>3, <1>4, <2>1, BegunStep
  <1>5. ASSUME NEW h, h = [b.h EXCEPT !.appendPosition = file[f].appendPosition], ExpandTo(f, newSize, b.p, h)
        PROVE  ChainsInv'
    <2>1. PICK ext : ext = Extend(b.p, data, [h EXCEPT !.currentPosition = newSize])
      OBVIOUS
    <2>2. Sound(ext.p, Firsts(t, taken))
      BY <1>3, <2>1, ExtendKeeps DEF Holds
    <2>3. PICK k : k = [h EXCEPT !.filesize = newSize, !.modified = TRUE,
                                 !.appendPosition = IF ~h.append THEN @ ELSE IF ext.ok THEN ext.pos ELSE h.rwPosition]
      OBVIOUS
    <2>4. p' = ext.p /\ file' = [file EXCEPT ![f] = k]
      BY <1>5, <2>1, <2>3 DEF ExpandTo
    <2>5. /\ {"inUse", "write", "modified", "startCluster"} \subseteq DOMAIN k
          /\ k.inUse = b.h.inUse /\ k.write = b.h.write /\ k.startCluster = b.h.startCluster
          /\ k.modified = TRUE /\ k.write
      BY <1>3, <1>5, <2>3
    <2>6. Changed(f, k)
      BY <2>4, ChangedFacts
    <2> QED BY <1>1, <1>2, <2>2, <2>4, <2>5, <2>6, BegunStep
  <1>6. \/ ~b.ok /\ p' = b.p /\ file' = file
        \/ ExpandTo(f, newSize, b.p, [b.h EXCEPT !.appendPosition = file[f].appendPosition])
    BY <1>1 DEF Expand
  <1> QED BY <1>4, <1>5, <1>6

\* A file that is not empty has clusters.
LEMMA ClustersForFacts ==
    ASSUME NEW n \in Nat
    PROVE  ClustersFor(n) \in Nat /\ (n # 0 => ClustersFor(n) # 0)
  <1>1. PICK m : m = bytesPerCluster
    OBVIOUS
  <1>2. m \in Nat /\ m # 0
    <2>1. bytesPerSector \in Nat \ {0} /\ sectorsPerCluster \in Nat \ {0}
      BY FatFileAssumption
    <2> QED BY <1>1, <2>1 DEF bytesPerCluster
  <1>3. PICK k, r : k = (n + m - 1) \div m /\ r = (n + m - 1) % m
    OBVIOUS
  <1>4. k \in Int /\ r \in 0 .. m - 1 /\ n + m - 1 = m * k + r
    BY <1>2, <1>3
  <1>5. k >= 0
    <2> SUFFICES ASSUME k <= -1 PROVE FALSE
      BY <1>4
    <2>1. m * k <= m * (-1)
      BY <1>2, <1>4
    <2> QED BY <1>2, <1>4, <2>1
  <1>6. n # 0 => k # 0
    BY <1>2, <1>4
  <1> QED BY <1>1, <1>3, <1>4, <1>5, <1>6 DEF ClustersFor

\* FAT_ftruncate to a smaller size: the chain is cut, or freed if nothing is left.
LEMMA ShrinkStep ==
    ASSUME EntriesFit, ChainsInv, NEW f \in Files, NEW newSize \in Nat, file[f].inUse, file[f].write,
           Shrink(f, newSize), UNCHANGED <<entry, fsinfo, taken>>
    PROVE  ChainsInv'
  <1>1. PICK trim : trim = TrimChain(p, file[f].startCluster, ClustersFor(newSize))
    OBVIOUS
  <1>2. PICK end : end = [cluster |-> trim.cluster, byte |-> newSize % bytesPerSector,
                          sector |-> IF newSize % bytesPerCluster = 0 THEN sectorsPerCluster
                                     ELSE (newSize % bytesPerCluster) \div bytesPerSector]
    OBVIOUS
  <1>4. p' = trim.p
    BY <1>1 DEF Shrink
  <1>5. file' = [file EXCEPT ![f] =
                    [file[f] EXCEPT !.filesize = newSize, !.modified = TRUE,
                              !.startCluster = IF newSize = 0 THEN CLUSTER_FREE ELSE @,
                              !.appendPosition = IF newSize = 0 THEN Start(CLUSTER_FREE)
                                                 ELSE IF file[f].append THEN end ELSE @]]
    BY <1>1, <1>2 DEF Shrink
  <1>6. /\ {"inUse", "write", "modified", "startCluster"} \subseteq DOMAIN file'[f]
        /\ file'[f].inUse = file[f].inUse /\ file'[f].write = file[f].write /\ file'[f].modified = TRUE
        /\ file'[f].startCluster = IF newSize = 0 THEN CLUSTER_FREE ELSE file[f].startCluster
    BY <1>5, InvFacts
  <1>7. DOMAIN file' = Files /\ DOMAIN entry' = Files /\ StartOf(f) = file[f].startCluster
        /\ \A g \in Files : g # f => file'[g] = file[g] /\ entry'[g] = entry[g]
    BY <1>5, InvFacts DEF StartOf
  <1>8. StartOf(f)' = IF newSize = 0 THEN CLUSTER_FREE ELSE StartOf(f)
    BY <1>6, <1>7 DEF StartOf
  <1>9. PICK t : t = [Starts EXCEPT ![f] = StartOf(f)']
    OBVIOUS
  <1>10. IF ClustersFor(newSize) = 0 THEN Sound(p', Firsts(Starts, taken) \ {StartOf(f)})
         ELSE Sound(p', Firsts(Starts, taken))
    <2>1. ClustersFor(newSize) \in Nat
      BY ClustersForFacts
    <2>2. p' = TrimChain(p, StartOf(f), ClustersFor(newSize)).p
      BY <1>1, <1>4, <1>7
    <2> QED BY <2>1, <2>2, InvFacts, TrimKeeps
  <1>11. Different(t, taken) /\ Sound(p', Firsts(t, taken))
    <2>1. CASE ClustersFor(newSize) = 0
      <3>1. newSize = 0
        BY <2>1, ClustersForFacts
      <3> QED BY <1>8, <1>9, <1>10, <2>1, <3>1, WithoutStart
    <2>2. CASE ClustersFor(newSize) # 0
      BY <1>8, <1>9, <1>10, <2>2, WithStart
    <2> QED BY <2>1, <2>2
  <1>12. EntryKnown(f)'
    BY <1>6 DEF EntryKnown
  <1> QED BY <1>6, <1>7, <1>9, <1>11, <1>12, OneFile

\* FAT_ftruncate, which only marks the file as modified when its size is right.
LEMMA TruncateStep ==
    ASSUME EntriesFit, ChainsInv, NEW f \in Files, NEW newSize \in Offsets, FAT_ftruncate(f, newSize)
    PROVE  ChainsInv'
  <1>1. newSize \in Nat
    BY FatFileAssumption
  <1>2. file[f].inUse /\ file[f].write /\ UNCHANGED <<entry, fsinfo, taken>>
    BY DEF FAT_ftruncate
  <1>3. CASE Expand(f, newSize)
    BY <1>2, <1>3, ExpandStep
  <1>4. CASE Shrink(f, newSize)
    BY <1>1, <1>2, <1>4, ShrinkStep
  <1>5. CASE file' = [file EXCEPT ![f].modified = TRUE] /\ UNCHANGED p
    <2>1. PICK h : h = [file[f] EXCEPT !.modified = TRUE]
      OBVIOUS
    <2>2. file' = [file EXCEPT ![f] = h]
      BY <1>5, <2>1, InvFacts
    <2>3. /\ {"inUse", "write", "modified", "startCluster"} \subseteq DOMAIN h
          /\ h.inUse = file[f].inUse /\ h.write = file[f].write /\ h.startCluster = file[f].startCluster
          /\ h.modified = TRUE
      BY <2>1, InvFacts
    <2>4. Sound(p', Firsts(Starts, taken))
      BY <1>5, InvFacts
    <2> QED BY <1>2, <2>2, <2>3, <2>4, SameStart
  <1> QED BY <1>3, <1>4, <1>5 DEF FAT_ftruncate

\* Every step keeps the invariant.
LEMMA NextInv ==
    ASSUME EntriesFit, ChainsInv, [Next]_vars
    PROVE  ChainsInv'
  <1>1. CASE Remount
    BY <1>1, RemountStep
  <1>2. ASSUME NEW f \in Files, NEW mode \in Modes, FAT_open(f, mode) PROVE ChainsInv'
    BY <1>2, OpenStep
  <1>3. ASSUME NEW f \in Files, NEW len \in Lengths, FAT_read(f, len) \/ FAT_write(f, len) PROVE ChainsInv'
    BY <1>3, ReadStep, WriteStep
  <1>4. ASSUME NEW f \in Files, NEW pos \in Offsets, FAT_seek(f, pos) \/ FAT_ftruncate(f, pos) PROVE ChainsInv'
    BY <1>4, SeekStep, TruncateStep
  <1>5. ASSUME NEW f \in Files, FAT_fsync(f) \/ FAT_close(f) PROVE ChainsInv'
    BY <1>5, SyncStep, CloseStep
  <1>6. CASE UNCHANGED vars
    <2>1. Starts' = Starts
      BY <1>6 DEF vars, Starts, StartOf
    <2>2. Structures'
      BY <1>6 DEF vars, ChainsInv, Structures, EntryKnown
    <2>3. UNCHANGED <<p, taken>>
      BY <1>6 DEF vars
    <2> QED BY <2>1, <2>2, <2>3 DEF ChainsInv
  <1> QED BY <1>1, <1>2, <1>3, <1>4, <1>5, <1>6 DEF Next

\* Files share no cluster, whatever calls are made for them, on every partition whose table can hold
\* the numbers of its clusters.
THEOREM ChainsSeparateTheorem ==
    ASSUME EntriesFit
    PROVE  Spec => []ChainsSeparate
  <1>1. Init => ChainsInv
    BY InitInv
  <1>2. ChainsInv /\ [Next]_vars => ChainsInv'
    BY NextInv
  <1>3. ChainsInv => ChainsSeparate
    BY InvImplies
  <1> QED BY <1>1, <1>2, <1>3, PTL DEF Spec
=============================================================================
