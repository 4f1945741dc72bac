--------------------------- MODULE FatDisk_proofs ---------------------------
(***************************************************************************)
(* Proofs about the parts of libfat below its files.                       *)
(*                                                                         *)
(* The sector cache implements Disk, for every size of the partition, of a *)
(* page and of the cache, when reads of the card do not fail: whatever is  *)
(* in the cache, evicted, saved in part by a failing write or lost with    *)
(* the power, a read returns what was written last.                        *)
(*                                                                         *)
(* Mounting the SD card, for every number of threads, of nested calls and  *)
(* of tries: one call at a time mounts the card, and the driver gives its  *)
(* handle back on every path that does not mount it.                       *)
(***************************************************************************)
EXTENDS FatCache, SdMount, SequenceTheorems, FiniteSetTheorems, WellFoundedInduction, TLAPS

-----------------------------------------------------------------------------
(* The cache: its invariant. *)

PageType == [sector : Nat, count : Nat, last_access : Nat, dirty : BOOLEAN, data : Seq(Values)]

\* A page is free, or holds the sectors around one of the partition.
Shaped(e) ==
    /\ e \in PageType /\ Len(e.data) = e.count
    /\ \/ e.sector = CACHE_FREE /\ e.count = 0 /\ ~e.dirty
       \/ \E s \in Sectors : e.sector = PageStart(s) /\ e.count = PageEnd(s) - PageStart(s)

Typed ==
    /\ card \in [Sectors -> Values] /\ content \in [Sectors -> Values] /\ accessCounter \in Nat
    /\ DOMAIN cacheEntries = Pages /\ \A i \in Pages : Shaped(cacheEntries[i])

\* No two pages hold the same sector.
Alone ==
    \A i, j \in Pages, s \in Sectors : InPage(cacheEntries[i], s) /\ InPage(cacheEntries[j], s) => i = j

\* Page e holds what the file system has written, c, of sector s.
Shows(e, c, s) == InPage(e, s) => e.data[s - e.sector + 1] = c[s]

View == \A i \in Pages, s \in Sectors : Shows(cacheEntries[i], content, s)

\* What is not on the card yet is in a dirty page.
Pending(e, s) == e.dirty /\ InPage(e, s)
Backed == \A s \in Sectors : card[s] # content[s] => \E i \in Pages : Pending(cacheEntries[i], s)

CacheInv == Typed /\ Alone /\ View /\ Backed

-----------------------------------------------------------------------------
(* Pages. *)

\* Multiples of n: the only one in (x - n, x] is the one that division finds.
LEMMA Multiples ==
    ASSUME NEW n \in Nat \ {0}, NEW x \in Nat
    PROVE  /\ (x \div n) * n \in Nat /\ (x \div n) * n <= x /\ x < (x \div n) * n + n
           /\ \A q \in Nat : q * n <= x /\ x < q * n + n => x \div n = q
  <1>1. PICK p, r : p = x \div n /\ r = x % n
    OBVIOUS
  <1>2. p \in Int /\ r \in 0 .. n - 1
    BY <1>1
  <1>3. x = n * p + r
    BY <1>1
  <1>4. p \in Nat
    <2> SUFFICES ASSUME p <= -1 PROVE FALSE
      BY <1>2
    <2>1. n * p <= n * (-1)
      BY <1>2
    <2>2. n * p \in Int
      BY <1>2
    <2> QED BY <1>2, <1>3, <2>1, <2>2
  <1>5. p * n \in Nat /\ p * n <= x /\ x < p * n + n
    <2>1. n * p = p * n /\ p * n \in Nat
      BY <1>4
    <2> QED BY <1>2, <1>3, <2>1
  <1>6. ASSUME NEW a \in Nat, NEW b \in Nat, a < b PROVE a * n \in Nat /\ b * n \in Nat /\ a * n + n <= b * n
    <2>1. PICK d \in Nat : b = a + 1 + d
      <3>1. b - a - 1 \in Nat /\ b = a + 1 + (b - a - 1)
        BY <1>6
      <3> QED BY <3>1
    <2>2. a * n \in Nat /\ b * n \in Nat /\ d * n \in Nat
      OBVIOUS
    <2>3. b * n = a * n + n + d * n
      BY <2>1
    <2> QED BY <2>2, <2>3
  <1>7. ASSUME NEW q \in Nat, q * n <= x, x < q * n + n PROVE p = q
    <2>1. q * n \in Nat
      OBVIOUS
    <2>2. ~(p < q)
      BY <1>4, <1>5, <1>6, <1>7, <2>1
    <2>3. ~(q < p)
      BY <1>4, <1>5, <1>6, <1>7, <2>1
    <2> QED BY <1>4, <2>2, <2>3
  <1> QED BY <1>1, <1>5, <1>7

\* The page around a sector is within the partition and is that of each of its sectors.
LEMMA PageFacts ==
    ASSUME NEW s \in Sectors
    PROVE  /\ PageStart(s) \in Nat /\ PageEnd(s) \in Nat /\ PageStart(s) <= s /\ s < PageEnd(s)
           /\ PageEnd(s) <= endOfPartition
           /\ \A t \in Sectors : PageStart(s) <= t /\ t < PageEnd(s) => PageStart(t) = PageStart(s)
           /\ \A t \in Sectors : PageStart(t) = PageStart(s) => PageEnd(t) = PageEnd(s)
  <1>1. /\ endOfPartition \in Nat \ {0} /\ sectorsPerPage \in Nat \ {0}
        /\ s \in Nat /\ s < endOfPartition
    BY FatCacheAssumption DEF Sectors
  <1>2. PICK n : n = sectorsPerPage
    OBVIOUS
  <1>3. PageStart(s) \in Nat /\ PageStart(s) <= s /\ s < PageStart(s) + n
    BY <1>1, <1>2, Multiples DEF PageStart
  <1>4. PageEnd(s) = IF PageStart(s) + n > endOfPartition THEN endOfPartition ELSE PageStart(s) + n
    BY <1>2 DEF PageEnd
  <1>5. PageEnd(s) \in Nat /\ s < PageEnd(s) /\ PageEnd(s) <= endOfPartition /\ PageEnd(s) <= PageStart(s) + n
    BY <1>1, <1>2, <1>3, <1>4
  <1>6. ASSUME NEW t \in Sectors, PageStart(s) <= t, t < PageEnd(s) PROVE PageStart(t) = PageStart(s)
    <2>1. t \in Nat /\ t < PageStart(s) + n
      BY <1>1, <1>2, <1>3, <1>5, <1>6 DEF Sectors
    <2>2. PICK q : q = s \div n /\ q \in Nat /\ PageStart(s) = q * n
      <3>1. s \div n \in Nat
        BY <1>1, <1>2
      <3> QED BY <1>2, <3>1 DEF PageStart
    <2>3. q * n <= t /\ t < q * n + n
      BY <1>6, <2>1, <2>2
    <2>4. t \div n = q
      BY <1>1, <1>2, <2>1, <2>2, <2>3, Multiples
    <2> QED BY <1>2, <2>2, <2>4 DEF PageStart
  <1>7. \A t \in Sectors : PageStart(t) = PageStart(s) => PageEnd(t) = PageEnd(s)
    BY DEF PageEnd
  <1> QED BY <1>3, <1>5, <1>6, <1>7

\* The sectors of a page, and its data.
LEMMA ShapedFacts ==
    ASSUME NEW e, Shaped(e), NEW s \in Sectors, InPage(e, s)
    PROVE  /\ e.sector = PageStart(s) /\ e.count = PageEnd(s) - PageStart(s)
           /\ \A t \in Sectors : InPage(e, t) <=> PageStart(t) = PageStart(s)
           /\ s - e.sector + 1 \in 1 .. Len(e.data)
  <1>1. e.sector \in Nat /\ e.count \in Nat /\ Len(e.data) = e.count /\ s \in Nat
    BY FatCacheAssumption DEF Shaped, PageType, Sectors
  <1>2. e.sector <= s /\ s < e.sector + e.count
    BY DEF InPage
  <1>3. PICK u \in Sectors : e.sector = PageStart(u) /\ e.count = PageEnd(u) - PageStart(u)
    BY <1>1, <1>2 DEF Shaped
  <1>4. /\ PageStart(u) \in Nat /\ PageEnd(u) \in Nat
        /\ \A t \in Sectors : PageStart(u) <= t /\ t < PageEnd(u) => PageStart(t) = PageStart(u)
    BY PageFacts
  <1>5. s < PageEnd(u) /\ PageStart(u) <= s
    BY <1>1, <1>2, <1>3, <1>4
  <1>6. PageStart(s) = PageStart(u) /\ PageEnd(s) = PageEnd(u)
    BY <1>4, <1>5, PageFacts
  <1>7. ASSUME NEW t \in Sectors PROVE InPage(e, t) <=> PageStart(t) = PageStart(s)
    <2>1. t \in Nat
      BY DEF Sectors
    <2>2. InPage(e, t) <=> PageStart(u) <= t /\ t < PageEnd(u)
      BY <1>3, <1>4, <2>1 DEF InPage
    <2>3. PageStart(t) = PageStart(u) => PageStart(u) <= t /\ t < PageEnd(u)
      BY PageFacts
    <2> QED BY <1>4, <1>6, <2>2, <2>3
  <1>8. s - e.sector + 1 \in 1 .. Len(e.data)
    BY <1>1, <1>2
  <1> QED BY <1>3, <1>6, <1>7, <1>8

\* A set of natural numbers that is not empty has a least member.
LEMMA LeastOf ==
    ASSUME NEW T, T \subseteq Nat, T # {}
    PROVE  \E x \in T : \A y \in T : x <= y
  <1> DEFINE Less == OpToRel(<, Nat)
  <1>1. IsWellFoundedOn(Less, Nat)
    BY NatLessThanWellFounded
  <1>2. \A x, y \in Nat : y < x => <<y, x>> \in Less
    BY DEF OpToRel
  <1> HIDE DEF Less
  <1>3. PICK x \in T : \A y \in T : ~(<<y, x>> \in Less)
    BY <1>1, WFMin
  <1>4. ASSUME NEW y \in T PROVE x <= y
    <2>1. x \in Nat /\ y \in Nat
      BY <1>3
    <2>2. ~(y < x)
      BY <1>2, <1>3, <2>1
    <2> QED BY <2>1, <2>2
  <1> QED BY <1>3, <1>4

\* A function on 1 .. n is a sequence of length n.
LEMMA FcnSeq ==
    ASSUME NEW S, NEW n \in Nat, NEW d \in [1 .. n -> S]
    PROVE  d \in Seq(S) /\ Len(d) = n
  <1>1. d \in Seq(S)
    BY SeqDef
  <1>2. Len(d) \in Nat /\ DOMAIN d = 1 .. Len(d) /\ DOMAIN d = 1 .. n
    BY <1>1, LenProperties
  <1>3. Len(d) = n
    BY <1>2
  <1> QED BY <1>1, <1>3

\* The search takes one of the pages that it looks for.
LEMMA FirstIn ==
    ASSUME NEW T, T \subseteq Pages, T # {}
    PROVE  First(T) \in T
  <1>1. T \subseteq Nat
    BY FatCacheAssumption DEF Pages
  <1> QED BY <1>1, LeastOf DEF First

\* There is always a page to use.
LEMMA OldUsedIn ==
    ASSUME CacheInv
    PROVE  OldUsed \in Pages
  <1>1. CASE FreePages # {}
    <2>1. FreePages \subseteq Pages
      BY DEF FreePages
    <2> QED BY <1>1, <2>1, FirstIn DEF OldUsed
  <1>2. CASE FreePages = {}
    <2> DEFINE times == {cacheEntries[i].last_access : i \in Pages}
               oldest == {i \in Pages : \A j \in Pages : cacheEntries[i].last_access <= cacheEntries[j].last_access}
    <2>1. times \subseteq Nat
      BY DEF CacheInv, Typed, Shaped, PageType
    <2>2. times # {}
      <3>1. 1 \in Pages
        BY FatCacheAssumption DEF Pages
      <3>2. cacheEntries[1].last_access \in times
        BY <3>1
      <3> QED BY <3>2
    <2>3. PICK x \in times : \A y \in times : x <= y
      <3> HIDE DEF times
      <3> QED BY <2>1, <2>2, LeastOf
    <2>4. oldest # {}
      BY <2>3
    <2>5. OldUsed = First(oldest) /\ oldest \subseteq Pages
      BY <1>2 DEF OldUsed
    <2> HIDE DEF oldest
    <2> QED BY <2>4, <2>5, FirstIn
  <1> QED BY <1>1, <1>2

-----------------------------------------------------------------------------
(* _FAT_cache_getPage. *)

\* Page i is to hold e, after which the card has c: nothing gets lost.
Fetched(i, c, e) ==
    /\ i \in Pages /\ Shaped(e)
    /\ c \in [Sectors -> Values] /\ \A t \in Sectors : c[t] \in {card[t], content[t]}
    /\ \A t \in Sectors : Shows(e, content, t)
    /\ \A t \in Sectors, j \in Pages : InPage(e, t) /\ InPage(cacheEntries[j], t) => j = i
    /\ \A t \in Sectors : c[t] # content[t] =>
          Pending(e, t) \/ \E j \in Pages \ {i} : Pending(cacheEntries[j], t)

\* The sector is in a page.
LEMMA HitFetched ==
    ASSUME CacheInv, NEW s \in Sectors, Hits(s) # {}, NEW a \in Nat, NEW i, i = First(Hits(s)),
           NEW e, e = [cacheEntries[i] EXCEPT !.last_access = a]
    PROVE  Fetched(i, card, e) /\ InPage(e, s)
  <1>1. i \in Pages /\ InPage(cacheEntries[i], s)
    <2>1. Hits(s) \subseteq Pages
      BY DEF Hits
    <2>2. i \in Hits(s)
      BY <2>1, FirstIn
    <2> QED BY <2>2 DEF Hits
  <1>2. PICK d : d = cacheEntries[i] /\ Shaped(d)
    BY <1>1 DEF CacheInv, Typed
  <1>3. /\ e.sector = d.sector /\ e.count = d.count /\ e.dirty = d.dirty /\ e.data = d.data
        /\ e \in PageType
    BY <1>2 DEF Shaped, PageType
  <1>4. Shaped(e)
    BY <1>2, <1>3 DEF Shaped
  <1>5. \A t : InPage(e, t) <=> InPage(d, t)
    BY <1>3 DEF InPage
  <1>6. \A t \in Sectors : Shows(e, content, t)
    BY <1>1, <1>2, <1>3, <1>5 DEF Shows, CacheInv, View
  <1>7. \A t \in Sectors, j \in Pages : InPage(e, t) /\ InPage(cacheEntries[j], t) => j = i
    BY <1>1, <1>2, <1>5 DEF CacheInv, Alone
  <1>8. \A t : Pending(d, t) => Pending(e, t)
    BY <1>3, <1>5 DEF Pending
  <1>9. \A t \in Sectors : card[t] # content[t] => Pending(e, t) \/ \E j \in Pages \ {i} : Pending(cacheEntries[j], t)
    BY <1>2, <1>8 DEF CacheInv, Backed
  <1>10. card \in [Sectors -> Values]
    BY DEF CacheInv, Typed
  <1> QED BY <1>1, <1>4, <1>5, <1>6, <1>7, <1>9, <1>10, <1>2 DEF Fetched

\* What is on the card once a page was saved.
LEMMA SavedFacts ==
    ASSUME CacheInv, NEW i \in Pages, NEW c \in [Sectors -> Values]
    PROVE  /\ Saved(c, cacheEntries[i]) \in [Sectors -> Values]
           /\ \A t \in Sectors : Saved(c, cacheEntries[i])[t] =
                  IF InPage(cacheEntries[i], t) THEN content[t] ELSE c[t]
  <1>1. PICK e : e = cacheEntries[i]
    OBVIOUS
  <1>2. ASSUME NEW t \in Sectors PROVE Saved(c, e)[t] = IF InPage(e, t) THEN content[t] ELSE c[t]
    BY <1>1 DEF CacheInv, View, Shows, Saved
  <1>3. \A t \in Sectors : Saved(c, e)[t] \in Values
    BY <1>2 DEF CacheInv, Typed
  <1>4. Saved(c, e) = [t \in Sectors |-> Saved(c, e)[t]]
    BY DEF Saved
  <1>5. Saved(c, e) \in [Sectors -> Values]
    BY <1>3, <1>4
  <1> QED BY <1>1, <1>2, <1>5

\* A page is written back.
LEMMA EvictedFacts ==
    ASSUME CacheInv, NEW i \in Pages
    PROVE  /\ Evicted(i) \in [Sectors -> Values]
           /\ \A t \in Sectors : Evicted(i)[t] = IF Pending(cacheEntries[i], t) THEN content[t] ELSE card[t]
  <1>1. card \in [Sectors -> Values]
    BY DEF CacheInv, Typed
  <1>2. CASE cacheEntries[i].dirty
    BY <1>1, <1>2, SavedFacts DEF Evicted, Pending
  <1>3. CASE ~cacheEntries[i].dirty
    BY <1>1, <1>3 DEF Evicted, Pending
  <1> QED BY <1>2, <1>3

\* The sector is in no page: a page is written back and filled from the card.
LEMMA LoadFetched ==
    ASSUME CacheInv, NEW s \in Sectors, Hits(s) = {}, NEW i, i = OldUsed, NEW c, c = Evicted(i),
           NEW e, e = LoadedPage(c, s)
    PROVE  Fetched(i, c, e) /\ InPage(e, s)
  <1>1. i \in Pages
    BY OldUsedIn
  <1>2. /\ c \in [Sectors -> Values]
        /\ \A t \in Sectors : c[t] = IF Pending(cacheEntries[i], t) THEN content[t] ELSE card[t]
    BY <1>1, EvictedFacts
  <1>3. PICK b, n : /\ b = PageStart(s) /\ n = PageEnd(s) - PageStart(s) /\ b \in Nat /\ n \in Nat
                    /\ b <= s /\ s < b + n /\ b + n <= endOfPartition /\ b + n = PageEnd(s)
    BY PageFacts, FatCacheAssumption DEF Sectors
  <1>4. accessTime \in Nat
    BY FatCacheAssumption DEF accessTime, CacheInv, Typed
  <1>5. e = [sector |-> b, count |-> n, last_access |-> accessTime, dirty |-> FALSE,
             data |-> [k \in 1 .. n |-> c[b + k - 1]]]
    BY <1>3 DEF LoadedPage
  <1>6. /\ e.sector = b /\ e.count = n /\ e.last_access = accessTime /\ e.dirty = FALSE
        /\ e.data = [k \in 1 .. n |-> c[b + k - 1]]
    BY <1>5
  <1>7. e.data \in Seq(Values) /\ Len(e.data) = n
    <2>1. \A k \in 1 .. n : b + k - 1 \in Sectors
      BY <1>3, FatCacheAssumption DEF Sectors
    <2>2. \A k \in 1 .. n : c[b + k - 1] \in Values
      BY <1>2, <2>1
    <2>3. e.data \in [1 .. n -> Values]
      BY <1>6, <2>2
    <2>4. n \in Nat
      BY <1>3
    <2> QED BY ONLY <2>3, <2>4, FcnSeq
  <1>8. Shaped(e)
    <2>1. e \in PageType
      BY <1>3, <1>4, <1>5, <1>6, <1>7 DEF PageType
    <2> QED BY <1>3, <1>6, <1>7, <2>1 DEF Shaped
  <1>9. InPage(e, s)
    BY <1>3, <1>6 DEF InPage
  <1>10. \A t \in Sectors : InPage(e, t) <=> PageStart(t) = PageStart(s)
    BY <1>8, <1>9, ShapedFacts
  <1>11. \A t \in Sectors, j \in Pages : ~(InPage(e, t) /\ InPage(cacheEntries[j], t))
    <2> SUFFICES ASSUME NEW t \in Sectors, NEW j \in Pages, InPage(e, t), InPage(cacheEntries[j], t) PROVE FALSE
      OBVIOUS
    <2>1. Shaped(cacheEntries[j])
      BY DEF CacheInv, Typed
    <2>2. InPage(cacheEntries[j], s)
      BY <1>10, <2>1, ShapedFacts
    <2> QED BY <2>2 DEF Hits
  <1>12. \A t \in Sectors : Shows(e, content, t)
    <2> SUFFICES ASSUME NEW t \in Sectors, InPage(e, t) PROVE e.data[t - e.sector + 1] = content[t]
      BY DEF Shows
    <2>1. t \in Nat /\ t - b + 1 \in 1 .. n
      BY <1>3, <1>6 DEF InPage, Sectors
    <2>2. e.data[t - b + 1] = c[b + (t - b + 1) - 1]
      BY <1>6, <2>1
    <2>3. b + (t - b + 1) - 1 = t
      BY <1>3, <2>1
    <2>4. card[t] = content[t]
      BY <1>11 DEF CacheInv, Backed, Pending
    <2>5. c[t] = content[t]
      BY <1>2, <2>4
    <2> QED BY <1>6, <2>2, <2>3, <2>5
  <1>13. \A t \in Sectors : c[t] # content[t] => \E j \in Pages \ {i} : Pending(cacheEntries[j], t)
    BY <1>2 DEF CacheInv, Backed
  <1> QED BY <1>1, <1>2, <1>8, <1>9, <1>11, <1>12, <1>13 DEF Fetched

-----------------------------------------------------------------------------
(* The calls. *)

\* The page that was fetched is put in its place, as f, when the file system's view becomes c.
Put(i, e, f, c) ==
    /\ Shaped(f) /\ f.sector = e.sector /\ f.count = e.count /\ (e.dirty => f.dirty)
    /\ c \in [Sectors -> Values] /\ \A t \in Sectors : Shows(f, c, t)
    /\ \A t \in Sectors : c[t] # content[t] => Pending(f, t)
    /\ cacheEntries' = [cacheEntries EXCEPT ![i] = f]

\* Putting a page in its place keeps the invariant.
LEMMA PutKeeps ==
    ASSUME CacheInv, NEW i, NEW e, NEW f, Fetched(i, card', e), Put(i, e, f, content'), accessCounter' \in Nat
    PROVE  CacheInv'
  <1>1. i \in Pages /\ card' \in [Sectors -> Values]
    BY DEF Fetched
  <1>2. \A j \in Pages : cacheEntries'[j] = IF j = i THEN f ELSE cacheEntries[j]
    BY <1>1 DEF Put, CacheInv, Typed
  <1>3. \A t : InPage(f, t) <=> InPage(e, t)
    BY DEF Put, InPage
  <1>4. Typed'
    <2>1. DOMAIN cacheEntries' = Pages
      BY DEF Put, CacheInv, Typed
    <2>2. \A j \in Pages : Shaped(cacheEntries'[j])
      BY <1>2 DEF Put, CacheInv, Typed
    <2>3. content' \in [Sectors -> Values]
      BY DEF Put
    <2> QED BY <1>1, <2>1, <2>2, <2>3 DEF Typed
  <1>5. \A t \in Sectors, j \in Pages : InPage(f, t) /\ InPage(cacheEntries[j], t) => j = i
    BY <1>3 DEF Fetched
  <1>6. Alone'
    <2> SUFFICES ASSUME NEW k \in Pages, NEW j \in Pages, NEW t \in Sectors,
                        InPage(cacheEntries'[k], t), InPage(cacheEntries'[j], t)
                 PROVE  k = j
      BY DEF Alone
    <2> QED BY <1>2, <1>5 DEF CacheInv, Alone
  <1>7. View'
    <2> SUFFICES ASSUME NEW j \in Pages, NEW t \in Sectors PROVE Shows(cacheEntries'[j], content', t)
      BY DEF View
    <2>1. CASE j = i
      BY <1>2, <2>1 DEF Put
    <2>2. CASE j # i
      <3>1. InPage(cacheEntries[j], t) => content'[t] = content[t]
        BY <1>5, <2>2 DEF Put, Pending
      <3>2. Shows(cacheEntries[j], content, t)
        BY DEF CacheInv, View
      <3> QED BY <1>2, <2>2, <3>1, <3>2 DEF Shows
    <2> QED BY <2>1, <2>2
  <1>8. Backed'
    <2> SUFFICES ASSUME NEW t \in Sectors, card'[t] # content'[t]
                 PROVE  \E j \in Pages : Pending(cacheEntries'[j], t)
      BY DEF Backed
    <2>1. CASE content'[t] # content[t]
      BY <1>1, <1>2, <2>1 DEF Put
    <2>2. CASE content'[t] = content[t]
      <3>1. Pending(e, t) \/ \E j \in Pages \ {i} : Pending(cacheEntries[j], t)
        BY <2>2 DEF Fetched
      <3>2. Pending(e, t) => Pending(f, t)
        BY <1>3 DEF Put, Pending
      <3> QED BY <1>1, <1>2, <3>1, <3>2
    <2> QED BY <2>1, <2>2
  <1> QED BY <1>4, <1>6, <1>7, <1>8 DEF CacheInv

\* What a call for a page leaves behind, when it succeeds and when writing back a page fails.
Succeeds(s, i, e) == Fetched(i, card', e) /\ InPage(e, s) /\ accessCounter' \in Nat
WriteFails ==
    /\ UNCHANGED <<cacheEntries, accessCounter>> /\ reply' = Error
    /\ \E i \in Pages : cacheEntries[i].dirty /\ card' \in HalfSaved(card, cacheEntries[i])

\* The page that _FAT_cache_getPage returns.
Got(s) ==
    IF Hits(s) # {} THEN [cacheEntries[First(Hits(s))] EXCEPT !.last_access = accessTime]
    ELSE LoadedPage(Evicted(OldUsed), s)

\* Where it is.
Where(s) == IF Hits(s) # {} THEN First(Hits(s)) ELSE OldUsed

\* It can be put in its place.
LEMMA GotSucceeds ==
    ASSUME CacheInv, NEW s \in Sectors, card' = IF Hits(s) # {} THEN card ELSE Evicted(OldUsed),
           accessCounter' = accessTime
    PROVE  Succeeds(s, Where(s), Got(s))
  <1>1. accessTime \in Nat
    BY FatCacheAssumption DEF accessTime, CacheInv, Typed
  <1>2. CASE Hits(s) # {}
    <2>1. Fetched(Where(s), card, Got(s)) /\ InPage(Got(s), s)
      BY <1>1, <1>2, HitFetched DEF Where, Got
    <2> QED BY <1>1, <1>2, <2>1 DEF Succeeds
  <1>3. CASE Hits(s) = {}
    <2>1. Fetched(Where(s), Evicted(OldUsed), Got(s)) /\ InPage(Got(s), s)
      BY <1>3, LoadFetched DEF Where, Got
    <2> QED BY <1>1, <1>3, <2>1 DEF Succeeds
  <1> QED BY <1>2, <1>3

\* _FAT_cache_readSectors gets a page and answers with a part of it.
LEMMA ReadGets ==
    ASSUME CacheInv, "read" \notin Faults, NEW from \in Sectors, NEW to \in Sectors, ReadSectors(from, to)
    PROVE  /\ content' = content
           /\ \/ \E i, e : /\ Succeeds(from, i, e) /\ cacheEntries' = [cacheEntries EXCEPT ![i] = e]
                           /\ reply' = Ok(Part(e, from, to))
              \/ WriteFails
  <1>1. PICK i, e : i = Where(from) /\ e = Got(from)
    OBVIOUS
  <1>2. \/ /\ card' = IF Hits(from) # {} THEN card ELSE Evicted(OldUsed)
           /\ cacheEntries' = [cacheEntries EXCEPT ![i] = e]
           /\ accessCounter' = accessTime
           /\ reply' = Ok(Part(e, from, to))
        \/ /\ cacheEntries[OldUsed].dirty /\ card' \in HalfSaved(card, cacheEntries[OldUsed])
           /\ reply' = Error
           /\ UNCHANGED <<cacheEntries, accessCounter>>
    BY <1>1 DEF ReadSectors, GetPage, Where, Got
  <1>3. content' = content
    BY DEF ReadSectors
  <1> QED BY <1>1, <1>2, <1>3, GotSucceeds, OldUsedIn DEF WriteFails

\* _FAT_cache_writeSectors gets a page and changes a part of it.
LEMMA WriteGets ==
    ASSUME CacheInv, "read" \notin Faults, NEW from \in Sectors, NEW to \in Sectors, NEW v \in Values,
           WriteSectors(from, to, v)
    PROVE  \/ \E i, e : /\ Succeeds(from, i, e) /\ reply' = Ok(<< >>)
                       /\ cacheEntries' = [cacheEntries EXCEPT ![i] = Stored(e, from, to, v)]
                       /\ content' = [s \in Sectors |-> IF s \in from .. to THEN v ELSE content[s]]
           \/ WriteFails /\ content' = content
  <1>1. PICK i, e : i = Where(from) /\ e = Got(from)
    OBVIOUS
  <1>2. \/ /\ card' = IF Hits(from) # {} THEN card ELSE Evicted(OldUsed)
           /\ cacheEntries' = [cacheEntries EXCEPT ![i] = Stored(e, from, to, v)]
           /\ accessCounter' = accessTime
           /\ reply' = Ok(<< >>)
        \/ /\ cacheEntries[OldUsed].dirty /\ card' \in HalfSaved(card, cacheEntries[OldUsed])
           /\ reply' = Error
           /\ UNCHANGED <<cacheEntries, accessCounter>>
    BY <1>1 DEF WriteSectors, GetPage, Where, Got
  <1>3. content' = IF reply'.ok THEN [s \in Sectors |-> IF s \in from .. to THEN v ELSE content[s]] ELSE content
    BY DEF WriteSectors
  <1>4. Ok(<< >>).ok = TRUE /\ Error.ok = FALSE
    BY DEF Ok, Error
  <1> QED BY <1>1, <1>2, <1>3, <1>4, GotSucceeds, OldUsedIn DEF WriteFails

\* f is page e with the sectors from .. to changed to v.
Changed(e, f, from, to, v) ==
    /\ Shaped(f) /\ f.sector = e.sector /\ f.count = e.count /\ f.dirty = TRUE
    /\ \A t \in Sectors : InPage(e, t) =>
          f.data[t - e.sector + 1] = IF t \in from .. to THEN v ELSE e.data[t - e.sector + 1]

\* What a write does to a page.
LEMMA StoredFacts ==
    ASSUME NEW e, Shaped(e), NEW from \in Sectors, NEW to \in Sectors, InPage(e, from), NEW v \in Values,
           NEW f, f = Stored(e, from, to, v)
    PROVE  Changed(e, f, from, to, v)
  <1>1. /\ e \in PageType /\ Len(e.data) = e.count /\ e.sector \in Nat /\ e.count \in Nat
        /\ e.data \in Seq(Values)
    BY DEF Shaped, PageType
  <1>2. PICK d : d = [k \in DOMAIN e.data |-> IF e.sector + k - 1 \in from .. to THEN v ELSE e.data[k]]
    OBVIOUS
  <1>3. f = [e EXCEPT !.dirty = TRUE, !.data = d]
    BY <1>2 DEF Stored
  <1>4. e.data \in [1 .. e.count -> Values] /\ DOMAIN e.data = 1 .. e.count
    BY <1>1, LenProperties
  <1>5. d \in [1 .. e.count -> Values]
    BY <1>2, <1>4
  <1>6. d \in Seq(Values) /\ Len(d) = e.count
    BY ONLY <1>1, <1>5, FcnSeq
  <1>7. f \in PageType /\ f.sector = e.sector /\ f.count = e.count /\ f.dirty = TRUE /\ f.data = d
    BY <1>1, <1>3, <1>6 DEF PageType
  <1>8. ASSUME NEW t \in Sectors, InPage(e, t)
        PROVE  /\ e.count # 0
               /\ d[t - e.sector + 1] = IF t \in from .. to THEN v ELSE e.data[t - e.sector + 1]
    <2>1. t \in Nat /\ t - e.sector + 1 \in 1 .. e.count /\ e.sector + (t - e.sector + 1) - 1 = t
      BY <1>1, <1>8 DEF InPage, Sectors
    <2> QED BY <1>1, <1>2, <1>4, <2>1
  <1>9. Shaped(f)
    BY <1>6, <1>7, <1>8 DEF Shaped
  <1> QED BY <1>7, <1>8, <1>9 DEF Changed

\* Some sectors of dirty pages are saved; a page stays dirty unless all of its sectors are.
Saves ==
    /\ card' \in [Sectors -> Values] /\ \A t \in Sectors : card'[t] \in {card[t], content[t]}
    /\ DOMAIN cacheEntries' = Pages
    /\ \A i \in Pages :
          \/ cacheEntries'[i] = cacheEntries[i]
          \/ /\ cacheEntries'[i] = [cacheEntries[i] EXCEPT !.dirty = FALSE]
             /\ \A t \in Sectors : Pending(cacheEntries[i], t) => card'[t] = content[t]
    /\ UNCHANGED <<accessCounter, content>>

\* Saving keeps the invariant.
LEMMA SavesKeeps ==
    ASSUME CacheInv, Saves
    PROVE  CacheInv'
  <1>1. ASSUME NEW i \in Pages
        PROVE  /\ Shaped(cacheEntries'[i]) /\ cacheEntries'[i].data = cacheEntries[i].data
               /\ cacheEntries'[i].sector = cacheEntries[i].sector
               /\ cacheEntries'[i].count = cacheEntries[i].count
               /\ \A t \in Sectors : Pending(cacheEntries[i], t) =>
                     Pending(cacheEntries'[i], t) \/ card'[t] = content[t]
    <2>1. PICK e, f : e = cacheEntries[i] /\ f = cacheEntries'[i]
      OBVIOUS
    <2>2. Shaped(e) /\ e \in PageType
      BY <2>1 DEF CacheInv, Typed, Shaped
    <2>3. CASE f = e
      BY <2>1, <2>2, <2>3
    <2>4. CASE f # e
      <3>1. f = [e EXCEPT !.dirty = FALSE] /\ \A t \in Sectors : Pending(e, t) => card'[t] = content[t]
        BY <2>1, <2>4 DEF Saves
      <3>2. f \in PageType /\ f.data = e.data /\ f.sector = e.sector /\ f.count = e.count /\ f.dirty = FALSE
        BY <2>2, <3>1 DEF PageType
      <3>3. Shaped(f)
        BY <2>2, <3>2 DEF Shaped
      <3> QED BY <2>1, <3>1, <3>2, <3>3
    <2> QED BY <2>3, <2>4
  <1>2. \A i \in Pages : \A t : InPage(cacheEntries'[i], t) <=> InPage(cacheEntries[i], t)
    BY <1>1 DEF InPage
  <1>3. Typed'
    BY <1>1 DEF Typed, Saves, CacheInv
  <1>4. Alone'
    BY <1>2 DEF Alone, CacheInv
  <1>5. View'
    BY <1>1, <1>2 DEF View, Shows, CacheInv, Saves
  <1>6. Backed'
    <2> SUFFICES ASSUME NEW t \in Sectors, card'[t] # content[t]
                 PROVE  \E i \in Pages : Pending(cacheEntries'[i], t)
      BY DEF Backed, Saves
    <2>1. card[t] # content[t]
      BY DEF Saves
    <2>2. PICK i \in Pages : Pending(cacheEntries[i], t)
      BY <2>1 DEF CacheInv, Backed
    <2> QED BY <1>1, <2>2
  <1> QED BY <1>3, <1>4, <1>5, <1>6 DEF CacheInv

\* A write that fails saves some sectors of a page.
LEMMA HalfSavedFacts ==
    ASSUME CacheInv, NEW i \in Pages, NEW c \in [Sectors -> Values], NEW h \in HalfSaved(c, cacheEntries[i])
    PROVE  h \in [Sectors -> Values] /\ \A t \in Sectors : h[t] \in {c[t], content[t]}
  <1>1. PICK e : e = cacheEntries[i]
    OBVIOUS
  <1>2. PICK S : h = [t \in Sectors |-> IF t \in S THEN Saved(c, e)[t] ELSE c[t]]
    BY <1>1 DEF HalfSaved
  <1>3. Saved(c, e) \in [Sectors -> Values] /\ \A t \in Sectors : Saved(c, e)[t] \in {c[t], content[t]}
    BY <1>1, SavedFacts
  <1> QED BY <1>2, <1>3

-----------------------------------------------------------------------------
(* The calls of Disk. *)

\* A call that fails while a page is written back.
LEMMA WriteFailsKeeps ==
    ASSUME CacheInv, WriteFails, content' = content
    PROVE  CacheInv' /\ AsDisk!DiskNext
  <1>1. card \in [Sectors -> Values] /\ DOMAIN cacheEntries = Pages
    BY DEF CacheInv, Typed
  <1>2. card' \in [Sectors -> Values] /\ \A t \in Sectors : card'[t] \in {card[t], content[t]}
    BY <1>1, HalfSavedFacts DEF WriteFails
  <1>3. Saves
    BY <1>1, <1>2 DEF Saves, WriteFails
  <1>4. AsDisk!Fail
    BY <1>2 DEF AsDisk!Fail, AsDisk!Reaches, WriteFails, Error
  <1> QED BY <1>3, <1>4, SavesKeeps DEF AsDisk!DiskNext

\* A read.
LEMMA ReadKeeps ==
    ASSUME CacheInv, "read" \notin Faults, NEW from \in Sectors, NEW to \in Sectors, from <= to,
           PageStart(from) = PageStart(to), ReadSectors(from, to)
    PROVE  CacheInv' /\ AsDisk!DiskNext
  <1>1. CASE WriteFails
    BY <1>1, ReadGets, WriteFailsKeeps
  <1>2. CASE ~WriteFails
    <2>1. PICK i, e : /\ Succeeds(from, i, e) /\ cacheEntries' = [cacheEntries EXCEPT ![i] = e]
                      /\ reply' = Ok(Part(e, from, to))
      BY <1>2, ReadGets
    <2>2. content' = content /\ content \in [Sectors -> Values]
      BY ReadGets DEF CacheInv, Typed
    <2>3. Shaped(e) /\ InPage(e, from) /\ \A t \in Sectors : Shows(e, content, t)
      BY <2>1 DEF Succeeds, Fetched
    <2>4. Put(i, e, e, content')
      BY <2>1, <2>2, <2>3 DEF Put
    <2>5. CacheInv'
      BY <2>1, <2>4, PutKeeps DEF Succeeds
    <2>6. Part(e, from, to) = [k \in 1 .. to - from + 1 |-> content[from + k - 1]]
      <3>1. /\ from \in Nat /\ to \in Nat /\ Len(e.data) = e.count /\ e.data \in Seq(Values)
            /\ to < endOfPartition /\ endOfPartition \in Nat
        BY <2>3, FatCacheAssumption DEF Sectors, Shaped, PageType
      <3>2. PICK q, a, b : q = e.sector /\ q \in Nat /\ a = from - q + 1 /\ b = to - q + 1
        BY <2>3 DEF Shaped, PageType
      <3>3. InPage(e, to)
        BY <2>3, ShapedFacts
      <3>4. a \in 1 .. Len(e.data) /\ b \in 1 .. Len(e.data)
        BY <2>3, <3>2, <3>3, ShapedFacts
      <3>5. \A k \in a .. b : e.data[k] \in Values
        <4>1. \A k \in a .. b : k \in 1 .. Len(e.data)
          BY <3>4
        <4> QED BY <3>1, <4>1, ElementOfSeq
      <3>6. /\ SubSeq(e.data, a, b) \in Seq(Values) /\ Len(SubSeq(e.data, a, b)) = b - a + 1
            /\ \A k \in 1 .. b - a + 1 : SubSeq(e.data, a, b)[k] = e.data[a + k - 1]
        <4>1. a <= b
          BY <3>1, <3>2
        <4>2. a \in Int /\ b \in Int
          BY <3>1, <3>2
        <4> QED BY <3>5, <4>1, <4>2, SubSeqProperties
      <3>7. b - a + 1 = to - from + 1
        <4>1. from \in Int /\ to \in Int /\ q \in Int /\ a = from - q + 1 /\ b = to - q + 1
          BY <3>1, <3>2
        <4> QED BY ONLY <4>1
      <3>8. ASSUME NEW k \in 1 .. to - from + 1 PROVE e.data[a + k - 1] = content[from + k - 1]
        <4>1. PICK t : t = from + k - 1
          OBVIOUS
        <4>2. t \in Nat /\ a + k - 1 = t - q + 1 /\ t <= to /\ from <= t /\ t < endOfPartition
          BY <3>1, <3>2, <3>8, <4>1
        <4>3. t \in Sectors
          BY <3>1, <4>2 DEF Sectors
        <4>4. InPage(e, t)
          <5>1. PICK n : n = e.count /\ n \in Nat
            BY <2>3 DEF Shaped, PageType
          <5>2. q <= from /\ to < q + n
            BY <2>3, <3>2, <3>3, <5>1 DEF InPage
          <5>3. q <= t /\ t < q + n
            <6>1. q \in Nat /\ n \in Nat /\ t \in Nat /\ from \in Nat /\ to \in Nat
              BY <3>1, <3>2, <4>2, <5>1
            <6>2. from <= t /\ t <= to
              BY <4>2
            <6> QED BY ONLY <5>2, <6>1, <6>2
          <5> QED BY <3>2, <5>1, <5>3 DEF InPage
        <4> QED BY <2>3, <3>2, <4>1, <4>2, <4>3, <4>4 DEF Shows
      <3>9. DOMAIN SubSeq(e.data, a, b) = 1 .. to - from + 1
        BY <3>6, <3>7, LenProperties
      <3>10. SubSeq(e.data, a, b) = [k \in 1 .. to - from + 1 |-> content[from + k - 1]]
        BY <3>6, <3>7, <3>8, <3>9
      <3> QED BY <3>2, <3>10 DEF Part
    <2>7. Len(Part(e, from, to)) = to - from + 1
      BY <2>6 DEF Sectors
    <2>8. AsDisk!Reaches(content)
      BY <2>1 DEF AsDisk!Reaches, Succeeds, Fetched
    <2>9. AsDisk!Read(from, to)
      BY <2>1, <2>2, <2>6, <2>7, <2>8 DEF AsDisk!Read, AsDisk!Done, Ok
    <2> QED BY <2>5, <2>9 DEF AsDisk!DiskNext
  <1> QED BY <1>1, <1>2

\* A write.
LEMMA WriteKeeps ==
    ASSUME CacheInv, "read" \notin Faults, NEW from \in Sectors, NEW to \in Sectors, from <= to,
           PageStart(from) = PageStart(to), NEW v \in Values, WriteSectors(from, to, v)
    PROVE  CacheInv' /\ AsDisk!DiskNext
  <1>1. CASE WriteFails /\ content' = content
    BY <1>1, WriteFailsKeeps
  <1>2. CASE ~(WriteFails /\ content' = content)
    <2>1. PICK i, e : /\ Succeeds(from, i, e) /\ reply' = Ok(<< >>)
                      /\ cacheEntries' = [cacheEntries EXCEPT ![i] = Stored(e, from, to, v)]
                      /\ content' = [s \in Sectors |-> IF s \in from .. to THEN v ELSE content[s]]
      BY <1>2, WriteGets
    <2>2. Shaped(e) /\ InPage(e, from) /\ \A t \in Sectors : Shows(e, content, t)
      BY <2>1 DEF Succeeds, Fetched
    <2>3. PICK f : f = Stored(e, from, to, v)
      OBVIOUS
    <2>4. /\ Shaped(f) /\ f.sector = e.sector /\ f.count = e.count /\ f.dirty = TRUE
          /\ \A t \in Sectors : InPage(e, t) =>
                f.data[t - e.sector + 1] = IF t \in from .. to THEN v ELSE e.data[t - e.sector + 1]
      <3>1. Changed(e, f, from, to, v)
        BY <2>2, <2>3, StoredFacts
      <3> QED BY <3>1 DEF Changed
    <2>5. \A t : InPage(f, t) <=> InPage(e, t)
      BY <2>4 DEF InPage
    <2>6. content' \in [Sectors -> Values]
      BY <2>1 DEF CacheInv, Typed
    <2>7. \A t \in Sectors : Shows(f, content', t)
      <3> SUFFICES ASSUME NEW t \in Sectors, InPage(f, t) PROVE f.data[t - f.sector + 1] = content'[t]
        BY DEF Shows
      <3>1. e.data[t - e.sector + 1] = content[t]
        BY <2>2, <2>5 DEF Shows
      <3>2. content'[t] = IF t \in from .. to THEN v ELSE content[t]
        BY <2>1
      <3> QED BY <2>4, <2>5, <3>1, <3>2
    <2>8. \A t \in Sectors : t \in from .. to => InPage(e, t)
      <3> SUFFICES ASSUME NEW t \in Sectors, t \in from .. to PROVE PageStart(t) = PageStart(from)
        BY <2>2, ShapedFacts
      <3>1. from \in Nat /\ to \in Nat /\ t \in Nat /\ from <= t /\ t <= to
        BY DEF Sectors
      <3>2. /\ PageStart(from) \in Nat /\ PageStart(from) <= from
            /\ PageEnd(from) \in Nat /\ to < PageEnd(from)
        BY PageFacts
      <3>3. PageStart(from) <= t /\ t < PageEnd(from)
        BY ONLY <3>1, <3>2
      <3> QED BY <3>3, PageFacts
    <2>9. \A t \in Sectors : content'[t] # content[t] => Pending(f, t)
      BY <2>1, <2>4, <2>5, <2>8 DEF Pending
    <2>10. Put(i, e, f, content')
      BY <2>1, <2>3, <2>4, <2>6, <2>7, <2>9 DEF Put
    <2>11. CacheInv'
      BY <2>1, <2>10, PutKeeps DEF Succeeds
    <2>12. AsDisk!Reaches(content)
      BY <2>1 DEF AsDisk!Reaches, Succeeds, Fetched
    <2>13. content' = [s \in Sectors |-> IF from <= s /\ s <= to THEN v ELSE content[s]]
      <3>1. \A s \in Sectors : s \in from .. to <=> from <= s /\ s <= to
        BY DEF Sectors
      <3> QED BY <2>1, <3>1
    <2>14. AsDisk!Write(from, to, v)
      BY <2>1, <2>12, <2>13 DEF AsDisk!Write, AsDisk!Done, Ok
    <2> QED BY <2>11, <2>14 DEF AsDisk!DiskNext
  <1> QED BY <1>1, <1>2

\* The cards while the pages are written back one after the other.
LEMMA FlushedFacts ==
    ASSUME CacheInv, NEW n \in 0 .. numberOfPages
    PROVE  /\ FlushedTo(n) \in [Sectors -> Values]
           /\ \A t \in Sectors : FlushedTo(n)[t] =
                 IF \E j \in 1 .. n : Pending(cacheEntries[j], t) THEN content[t] ELSE card[t]
  <1>0. n \in Nat /\ \A i \in 0 .. n : i # 0 => i \in Pages /\ i - 1 \in 0 .. n
    BY FatCacheAssumption DEF Pages
  <1> DEFINE F(i) == [t \in Sectors |-> IF \E j \in 1 .. i : Pending(cacheEntries[j], t) THEN content[t] ELSE card[t]]
             After(g) == [i \in 0 .. n |-> IF i = 0 THEN card
                                           ELSE IF cacheEntries[i].dirty THEN Saved(g[i - 1], cacheEntries[i])
                                                ELSE g[i - 1]]
             c == CHOOSE g : g = After(g)
  <1>1. FlushedTo(n) = c[n]
    BY DEF FlushedTo
  <1>2. card \in [Sectors -> Values] /\ content \in [Sectors -> Values]
    BY DEF CacheInv, Typed
  <1>3. F(0) = card
    BY <1>2
  <1>4. \A i : F(i) \in [Sectors -> Values]
    BY <1>2
  <1>5. ASSUME NEW i \in 0 .. n, i # 0
        PROVE  F(i) = IF cacheEntries[i].dirty THEN Saved(F(i - 1), cacheEntries[i]) ELSE F(i - 1)
    <2>1. i \in Pages /\ i \in Nat
      BY <1>0, <1>5
    <2>2. PICK G, H : G = F(i) /\ H = F(i - 1)
      OBVIOUS
    <2>3. \A t \in Sectors : G[t] = IF Pending(cacheEntries[i], t) THEN content[t] ELSE H[t]
      <3>1. \A j : j \in 1 .. i <=> j \in 1 .. i - 1 \/ j = i
        BY <1>5, <2>1
      <3> QED BY <2>2, <3>1
    <2>4. G \in [Sectors -> Values] /\ H \in [Sectors -> Values]
      BY <1>4, <2>2
    <2>5. CASE cacheEntries[i].dirty
      <3>1. PICK K : K = Saved(H, cacheEntries[i])
        OBVIOUS
      <3>2. /\ K \in [Sectors -> Values]
            /\ \A t \in Sectors : K[t] = IF InPage(cacheEntries[i], t) THEN content[t] ELSE H[t]
        BY <2>1, <2>4, <3>1, SavedFacts
      <3>3. G = K
        BY <2>3, <2>4, <2>5, <3>2 DEF Pending
      <3> QED BY <2>2, <2>5, <3>1, <3>3
    <2>6. CASE ~cacheEntries[i].dirty
      <3>1. G = H
        BY <2>3, <2>4, <2>6 DEF Pending
      <3> QED BY <2>2, <2>6, <3>1
    <2> QED BY <2>5, <2>6
  <1> HIDE DEF F
  <1>6. PICK g : g = [i \in 0 .. n |-> F(i)]
    OBVIOUS
  <1>7. g = After(g)
    <2>1. ASSUME NEW i \in 0 .. n PROVE g[i] = After(g)[i]
      <3>1. CASE i = 0
        BY <1>3, <1>6, <3>1
      <3>2. CASE i # 0
        BY <1>0, <1>5, <1>6, <3>2
      <3> QED BY <3>1, <3>2
    <2>2. DOMAIN g = 0 .. n /\ DOMAIN After(g) = 0 .. n /\ g = [i \in 0 .. n |-> g[i]]
      BY <1>6
    <2> QED BY <2>1, <2>2
  <1>8. c = After(c)
    BY <1>7
  <1>9. \A i \in 0 .. n : c[i] = IF i = 0 THEN card
                                 ELSE IF cacheEntries[i].dirty THEN Saved(c[i - 1], cacheEntries[i]) ELSE c[i - 1]
    BY <1>8
  <1> HIDE DEF c, After
  <1>10. \A i \in 0 .. n : c[i] = F(i)
    <2> DEFINE T == {i \in 0 .. n : c[i] # F(i)}
    <2> SUFFICES ASSUME T # {} PROVE FALSE
      OBVIOUS
    <2>1. T \subseteq Nat
      BY <1>0
    <2> HIDE DEF T
    <2>2. PICK x \in T : \A y \in T : x <= y
      BY <2>1, LeastOf
    <2> USE DEF T
    <2>3. x \in 0 .. n /\ c[x] # F(x)
      OBVIOUS
    <2>4. x # 0
      BY <1>3, <1>9, <2>3
    <2>5. x - 1 \in 0 .. n /\ ~(x <= x - 1)
      BY <1>0, <2>3, <2>4
    <2>6. c[x - 1] = F(x - 1)
      BY <2>2, <2>5
    <2> QED BY <1>5, <1>9, <2>3, <2>4, <2>6
  <1>11. FlushedTo(n) = F(n) /\ F(n) \in [Sectors -> Values]
    BY <1>0, <1>1, <1>4, <1>10
  <1> QED BY <1>11 DEF F

\* The pages up to one are written back, and the last perhaps in part.
LEMMA FlushSaves ==
    ASSUME CacheInv, NEW n \in 0 .. numberOfPages, cacheEntries' = Cleaned(n), UNCHANGED <<accessCounter, content>>,
           card' \in [Sectors -> Values], \A t \in Sectors : card'[t] \in {FlushedTo(n)[t], content[t]}
    PROVE  Saves
  <1>1. \A t \in Sectors : FlushedTo(n)[t] =
                 IF \E j \in 1 .. n : Pending(cacheEntries[j], t) THEN content[t] ELSE card[t]
    BY FlushedFacts
  <1>2. \A t \in Sectors : card'[t] \in {card[t], content[t]}
    BY <1>1
  <1>3. ASSUME NEW i \in Pages
        PROVE  \/ cacheEntries'[i] = cacheEntries[i]
               \/ /\ cacheEntries'[i] = [cacheEntries[i] EXCEPT !.dirty = FALSE]
                  /\ \A t \in Sectors : Pending(cacheEntries[i], t) => card'[t] = content[t]
    <2>1. cacheEntries'[i] = IF i <= n THEN [cacheEntries[i] EXCEPT !.dirty = FALSE] ELSE cacheEntries[i]
      BY DEF Cleaned
    <2>2. i <= n => i \in 1 .. n
      BY FatCacheAssumption DEF Pages
    <2>3. i <= n => \A t \in Sectors : Pending(cacheEntries[i], t) => card'[t] = content[t]
      BY <1>1, <2>2
    <2> QED BY <2>1, <2>3
  <1>4. DOMAIN cacheEntries' = Pages
    BY DEF Cleaned
  <1> QED BY <1>2, <1>3, <1>4 DEF Saves

\* _FAT_cache_flush.
LEMMA FlushKeeps ==
    ASSUME CacheInv, FlushPages
    PROVE  CacheInv' /\ AsDisk!DiskNext
  <1>1. numberOfPages \in 0 .. numberOfPages /\ \A i \in Pages : i - 1 \in 0 .. numberOfPages
    BY FatCacheAssumption DEF Pages
  <1>2. CASE /\ card' = FlushedTo(numberOfPages) /\ cacheEntries' = Cleaned(numberOfPages)
             /\ reply' = Ok(<< >>) /\ UNCHANGED <<accessCounter, content>>
    <2>1. /\ card' \in [Sectors -> Values]
          /\ \A t \in Sectors : card'[t] =
                IF \E j \in 1 .. numberOfPages : Pending(cacheEntries[j], t) THEN content[t] ELSE card[t]
      BY <1>1, <1>2, FlushedFacts
    <2>2. CacheInv'
      BY <1>1, <1>2, <2>1, FlushSaves, SavesKeeps
    <2>3. \A t \in Sectors : card'[t] = content[t]
      BY <2>1 DEF CacheInv, Backed, Pages
    <2>4. card' = content
      BY <2>1, <2>3 DEF CacheInv, Typed
    <2>5. AsDisk!Flush
      BY <1>2, <2>4 DEF AsDisk!Flush, AsDisk!Done, Ok
    <2> QED BY <2>2, <2>5 DEF AsDisk!DiskNext
  <1>3. ASSUME NEW i \in Pages, card' \in HalfSaved(FlushedTo(i - 1), cacheEntries[i]),
               cacheEntries' = Cleaned(i - 1), reply' = Error, UNCHANGED <<accessCounter, content>>
        PROVE  CacheInv' /\ AsDisk!DiskNext
    <2>1. PICK n : n = i - 1 /\ n \in 0 .. numberOfPages
      BY <1>1
    <2>2. PICK c : c = FlushedTo(n) /\ c \in [Sectors -> Values]
      BY <2>1, FlushedFacts
    <2>3. card' \in [Sectors -> Values] /\ \A t \in Sectors : card'[t] \in {c[t], content[t]}
      BY <1>3, <2>1, <2>2, HalfSavedFacts
    <2>4. Saves
      BY <1>3, <2>1, <2>2, <2>3, FlushSaves
    <2>5. AsDisk!Fail
      BY <1>3, <2>4 DEF AsDisk!Fail, AsDisk!Reaches, Saves, Error
    <2> QED BY <2>4, <2>5, SavesKeeps DEF AsDisk!DiskNext
  <1> QED BY <1>2, <1>3 DEF FlushPages

\* A free page holds no sector.
LEMMA FreeFacts == Shaped(FreePage) /\ \A s \in Sectors : ~InPage(FreePage, s)
  <1>1. CACHE_FREE \in Nat
    BY FatCacheAssumption DEF CACHE_FREE
  <1>2. << >> \in Seq(Values) /\ Len(<< >>) = 0
    OBVIOUS
  <1>3. Shaped(FreePage)
    BY <1>1, <1>2 DEF Shaped, FreePage, PageType
  <1>4. ASSUME NEW s \in Sectors PROVE ~InPage(FreePage, s)
    <2>1. FreePage.sector = CACHE_FREE /\ FreePage.count = 0 /\ s \in Nat
      BY DEF FreePage, Sectors
    <2>2. ~(CACHE_FREE <= s /\ s < CACHE_FREE + 0)
      BY <1>1, <2>1
    <2> QED BY <2>1, <2>2 DEF InPage
  <1> QED BY <1>3, <1>4

\* An empty cache over a card that has everything.
LEMMA EmptyCache ==
    ASSUME card \in [Sectors -> Values], content = card, accessCounter = 0, cacheEntries = NewCache
    PROVE  CacheInv
  <1>1. DOMAIN cacheEntries = Pages /\ \A i \in Pages : cacheEntries[i] = FreePage
    BY DEF NewCache
  <1>2. Typed
    BY <1>1, FreeFacts DEF Typed
  <1>3. Alone /\ View /\ Backed
    BY <1>1, FreeFacts DEF Alone, View, Shows, Backed
  <1> QED BY <1>2, <1>3 DEF CacheInv

\* The cache is empty again after a loss of power.
LEMMA PowerOffKeeps ==
    ASSUME CacheInv, PowerOff
    PROVE  CacheInv' /\ AsDisk!DiskNext
  <1>1. card' \in [Sectors -> Values] /\ content' = card' /\ accessCounter' = 0 /\ cacheEntries' = NewCache
    BY DEF PowerOff, CacheInv, Typed
  <1>2. DOMAIN cacheEntries' = Pages /\ \A i \in Pages : cacheEntries'[i] = FreePage
    BY <1>1 DEF NewCache
  <1>3. Typed'
    BY <1>1, <1>2, FreeFacts DEF Typed
  <1>4. Alone' /\ View' /\ Backed'
    BY <1>1, <1>2, FreeFacts DEF Alone, View, Shows, Backed
  <1>5. AsDisk!LosePower
    BY DEF PowerOff, AsDisk!LosePower, AsDisk!Done, Ok
  <1> QED BY <1>3, <1>4, <1>5 DEF CacheInv, AsDisk!DiskNext

\* Every step keeps the invariant and is a step of Disk.
LEMMA CacheStep ==
    ASSUME CacheInv, "read" \notin Faults, [CacheNext]_cacheVars
    PROVE  CacheInv' /\ [AsDisk!DiskNext]_(AsDisk!diskVars)
  <1>1. ASSUME NEW from \in Sectors, NEW to \in Sectors, from <= to, PageStart(from) = PageStart(to),
               ReadSectors(from, to) \/ \E v \in Values : WriteSectors(from, to, v)
        PROVE  CacheInv' /\ AsDisk!DiskNext
    BY <1>1, ReadKeeps, WriteKeeps
  <1>2. CASE FlushPages
    BY <1>2, FlushKeeps
  <1>3. CASE PowerOff
    BY <1>3, PowerOffKeeps
  <1>4. CASE UNCHANGED cacheVars
    <2>1. UNCHANGED <<card, cacheEntries, accessCounter, reply, content>>
      BY <1>4 DEF cacheVars
    <2>2. CacheInv'
      BY <2>1 DEF CacheInv, Typed, Alone, View, Backed
    <2> QED BY <2>1, <2>2 DEF AsDisk!diskVars
  <1> QED BY <1>1, <1>2, <1>3, <1>4 DEF CacheNext

-----------------------------------------------------------------------------
(* The theorems. *)

(***************************************************************************)
(* When reads of the card do not fail, the sectors that differ on the card *)
(* from what was written are in dirty pages, and every sector is in at     *)
(* most one page, whichever pages are evicted and whichever writes fail.   *)
(***************************************************************************)
THEOREM CacheInvariant == "read" \notin Faults => (CacheSpec => []CacheInv)
  <1> SUFFICES ASSUME "read" \notin Faults PROVE CacheSpec => []CacheInv
    OBVIOUS
  <1>1. CacheInit => CacheInv
    BY EmptyCache DEF CacheInit
  <1>2. CacheInv /\ [CacheNext]_cacheVars => CacheInv'
    BY CacheStep
  <1> QED BY <1>1, <1>2, PTL DEF CacheSpec

(***************************************************************************)
(* The cache is transparent for every size of the partition, of its pages  *)
(* and of the cache: what _FAT_cache_readSectors returns is what was       *)
(* written last, _FAT_cache_flush saves everything, and a call that fails  *)
(* changes nothing that a later one could see.                             *)
(***************************************************************************)
THEOREM CacheTransparent == "read" \notin Faults => (CacheSpec => Transparent)
  <1> SUFFICES ASSUME "read" \notin Faults PROVE CacheSpec => Transparent
    OBVIOUS
  <1>1. CacheInit => AsDisk!DiskInit
    BY DEF CacheInit, AsDisk!DiskInit, Ok
  <1>2. CacheInv /\ [CacheNext]_cacheVars => [AsDisk!DiskNext]_(AsDisk!diskVars)
    BY CacheStep
  <1> QED BY <1>1, <1>2, CacheInvariant, PTL DEF CacheSpec, Transparent, AsDisk!DiskSpec


-----------------------------------------------------------------------------
(* Mounting: the invariant. *)

Places == {"lock", "check", "startup", "construct", "exit"}

\* Every thread has a stack of calls.
StacksTyped == pc \in [Threads -> Seq(Places)]

(***************************************************************************)
(* A thread has at most one call within another: the outer one is mounting *)
(* the card and the inner one returns as soon as it has the mutex.         *)
(***************************************************************************)
Shape ==
    \A t \in Threads :
        /\ Len(pc[t]) \in {0, 1, 2} /\ Len(pc[t]) <= MaxCalls
        /\ Len(pc[t]) = 2 => pc[t][1] \in {"lock", "check"} /\ pc[t][2] \in {"startup", "construct"}

Stacks == StacksTyped /\ Shape

\* The mutex counts the calls of its owner that are past OSLockMutex; nobody else is past it.
Held ==
    /\ mutex \in [owner : Threads \cup {NoThread}, lock_count : Int]
    /\ mutex.owner = NoThread => mutex.lock_count = 0
    /\ \A t \in Threads :
        /\ mutex.owner # t => Len(pc[t]) = 0 \/ (Len(pc[t]) = 1 /\ pc[t][1] = "lock")
        /\ mutex.owner = t =>
            \/ Len(pc[t]) = 1 /\ pc[t][1] # "lock" /\ mutex.lock_count = 1
            \/ Len(pc[t]) = 2 /\ pc[t][1] = "lock" /\ mutex.lock_count = 1
            \/ Len(pc[t]) = 2 /\ pc[t][1] = "check" /\ mutex.lock_count = 2

\* The outermost call of thread t is at p.
Busy(t, p) == Len(pc[t]) > 0 /\ pc[t][Len(pc[t])] = p

\* The driver's variables are those it starts with, and the handles are counted.
DriverType == DOMAIN sdio = DOMAIN DriverStopped /\ handles \in Int

\* The driver has a handle and knows the card, or has neither.
Up == sdio.fd /\ sdio.sdio_initialized /\ sdio.sd0_initialized /\ sdio.sdhc = KindTold
Down == ~sdio.fd /\ ~sdio.sdio_initialized /\ ~sdio.sd0_initialized

\* What the driver has done at each of its places.
Driver ==
    /\ handles = IF sdio.fd THEN 1 ELSE 0
    /\ sdio.ok => sdio.io = "end" /\ Up
    /\ sdio.io # "idle" => \E t \in Threads : Busy(t, "startup")
    /\ sdio.io # "idle" /\ ~sdio.ok => ~sdio.sdio_initialized /\ ~sdio.sd0_initialized
    /\ sdio.io \in {"status", "reopen", "power", "opcond", "ids", "setup"} => sdio.fd
    /\ sdio.io \in {"ids", "setup"} => sdio.sdhc = KindTold
    /\ \A t \in Threads : Busy(t, "startup") => ~hasInit /\ (sdio.io = "idle" => Down)
    /\ \A t \in Threads : Busy(t, "construct") => ~hasInit /\ sdio.io = "idle" /\ Up
    /\ (\A t \in Threads : ~Busy(t, "startup") /\ ~Busy(t, "construct")) => IF hasInit THEN Up ELSE Down

MountInv == Stacks /\ Held /\ DriverType /\ Driver

-----------------------------------------------------------------------------
(* What the three ways of changing a stack do to it. *)

\* The stacks of the other threads stay as they are.
Others(t) == \A u \in Threads \ {t} : pc'[u] = pc[u]

\* Goto changes the last call of the thread.
LEMMA GotoStack ==
    ASSUME Stacks, NEW t \in Threads, NEW where \in Places, Len(pc[t]) > 0, Goto(t, where)
    PROVE  /\ StacksTyped' /\ Others(t)
           /\ Len(pc'[t]) = Len(pc[t]) /\ pc'[t][1] = where
           /\ Len(pc[t]) = 2 => pc'[t][2] = pc[t][2]
  <1>1. pc[t] \in Seq(Places) /\ Len(pc[t]) \in Nat
    BY DEF Stacks, StacksTyped
  <1>2. pc'[t] = [pc[t] EXCEPT ![1] = where] /\ Others(t)
    BY DEF Goto, Stacks, StacksTyped, Others
  <1>3. [pc[t] EXCEPT ![1] = where] \in Seq(Places)
    BY <1>1
  <1>4. StacksTyped'
    BY <1>2, <1>3 DEF Goto, Stacks, StacksTyped
  <1> QED BY <1>1, <1>2, <1>4

\* Return takes the last call off the stack.
LEMMA ReturnStack ==
    ASSUME Stacks, NEW t \in Threads, Len(pc[t]) > 0, Return(t)
    PROVE  /\ StacksTyped' /\ Others(t)
           /\ Len(pc'[t]) = Len(pc[t]) - 1
           /\ Len(pc[t]) = 2 => pc'[t][1] = pc[t][2]
  <1>1. pc[t] \in Seq(Places) /\ Len(pc[t]) \in Nat /\ pc[t] # << >>
    BY DEF Stacks, StacksTyped
  <1>2. pc'[t] = Tail(pc[t]) /\ Others(t)
    BY DEF Return, Stacks, StacksTyped, Others
  <1>3. Tail(pc[t]) \in Seq(Places) /\ Len(Tail(pc[t])) = Len(pc[t]) - 1
    BY <1>1
  <1>4. Len(pc[t]) = 2 => Tail(pc[t])[1] = pc[t][2]
    BY <1>1
  <1>5. StacksTyped'
    BY <1>2, <1>3 DEF Return, Stacks, StacksTyped
  <1> QED BY <1>2, <1>3, <1>4, <1>5

\* Call puts a call on the stack.
LEMMA CallStack ==
    ASSUME Stacks, NEW t \in Threads, Call(t)
    PROVE  /\ StacksTyped' /\ Others(t)
           /\ Len(pc'[t]) = Len(pc[t]) + 1 /\ pc'[t][1] = "lock"
           /\ Len(pc[t]) = 1 => pc'[t][2] = pc[t][1]
  <1>1. pc[t] \in Seq(Places) /\ <<"lock">> \in Seq(Places)
    BY DEF Stacks, StacksTyped, Places
  <1>2. pc'[t] = <<"lock">> \o pc[t] /\ Others(t)
    BY DEF Call, Stacks, StacksTyped, Others
  <1>3. /\ <<"lock">> \o pc[t] \in Seq(Places) /\ Len(<<"lock">> \o pc[t]) = Len(pc[t]) + 1
        /\ (<<"lock">> \o pc[t])[1] = "lock"
        /\ Len(pc[t]) = 1 => (<<"lock">> \o pc[t])[2] = pc[t][1]
    BY <1>1
  <1>4. StacksTyped'
    BY <1>2, <1>3 DEF Call, Stacks, StacksTyped
  <1> QED BY <1>2, <1>3, <1>4

\* A thread that is somewhere is in a call, and only the owner of the mutex is past the lock.
LEMMA AtStack ==
    ASSUME MountInv, NEW t \in Threads, NEW where \in Places, At(t, where)
    PROVE  /\ Len(pc[t]) \in {1, 2} /\ pc[t][1] = where
           /\ where # "lock" => mutex.owner = t
           /\ where \in {"startup", "construct", "exit"} => Len(pc[t]) = 1 /\ Busy(t, where)
  <1>1. pc[t] \in Seq(Places) /\ pc[t] # << >> /\ pc[t][1] = where
    BY DEF MountInv, Stacks, StacksTyped, At
  <1>2. Len(pc[t]) \in {1, 2}
    <2>1. Len(pc[t]) \in {0, 1, 2}
      BY DEF MountInv, Stacks, Shape
    <2>2. Len(pc[t]) # 0
      BY <1>1
    <2> QED BY <2>1, <2>2
  <1>3. where # "lock" => mutex.owner = t
    BY <1>1, <1>2 DEF MountInv, Held
  <1>4. where \in {"startup", "construct", "exit"} => Len(pc[t]) = 1
    BY <1>1, <1>2 DEF MountInv, Stacks, Shape
  <1> QED BY <1>1, <1>2, <1>3, <1>4 DEF Busy

-----------------------------------------------------------------------------
(* The steps of SD_Mount. *)

\* A call begins.
LEMMA CallKeeps ==
    ASSUME MountInv, NEW t \in Threads, Call(t)
    PROVE  MountInv'
  <1> USE DEF MountInv
  <1>1. /\ StacksTyped' /\ Others(t)
        /\ Len(pc'[t]) = Len(pc[t]) + 1 /\ pc'[t][1] = "lock"
        /\ Len(pc[t]) = 1 => pc'[t][2] = pc[t][1]
    BY CallStack
  <1>2. Len(pc[t]) < MaxCalls /\ UNCHANGED <<hasInit, mutex, sdio, handles, isHighCapacity>>
    BY DEF Call
  <1>3. \/ Len(pc[t]) = 0
        \/ Len(pc[t]) = 1 /\ pc[t][1] \in {"startup", "construct"} /\ mutex.owner = t
    <2>1. CASE pc[t] = << >>
      BY <2>1
    <2>2. CASE At(t, "startup") \/ At(t, "construct")
      BY <2>2, AtStack DEF Places
    <2> QED BY <2>1, <2>2 DEF Call
  <1>0. \/ Len(pc'[t]) = 1 /\ MaxCalls >= 1
        \/ /\ Len(pc'[t]) = 2 /\ MaxCalls >= 2
           /\ pc'[t][2] \in {"startup", "construct"} /\ mutex.owner = t /\ Len(pc[t]) = 1
    <2>1. CASE Len(pc[t]) = 0
      BY <1>1, <1>2, <2>1, SdMountAssumption
    <2>2. CASE Len(pc[t]) = 1
      BY <1>1, <1>2, <1>3, <2>2, SdMountAssumption
    <2> QED BY <1>3, <2>1, <2>2
  <1>4. Stacks'
    <2>1. ASSUME NEW u \in Threads
        PROVE  /\ Len(pc'[u]) \in {0, 1, 2} /\ Len(pc'[u]) <= MaxCalls
               /\ Len(pc'[u]) = 2 => pc'[u][1] \in {"lock", "check"} /\ pc'[u][2] \in {"startup", "construct"}
      <3>1. CASE u = t
        <4>1. CASE Len(pc'[t]) = 1 /\ MaxCalls >= 1
          BY <3>1, <4>1, SdMountAssumption
        <4>2. CASE Len(pc'[t]) = 2 /\ MaxCalls >= 2 /\ pc'[t][2] \in {"startup", "construct"}
          BY <1>1, <3>1, <4>2, SdMountAssumption
        <4> QED BY <1>0, <4>1, <4>2
      <3>2. CASE u # t
        <4>1. pc'[u] = pc[u]
          BY <1>1, <3>2 DEF Others
        <4> QED BY <4>1 DEF Stacks, Shape
      <3> QED BY <3>1, <3>2
    <2> QED BY <1>1, <2>1 DEF Stacks, Shape
  <1>5. Held'
    <2>1. ASSUME NEW u \in Threads
        PROVE  /\ mutex.owner # u => Len(pc'[u]) = 0 \/ (Len(pc'[u]) = 1 /\ pc'[u][1] = "lock")
               /\ mutex.owner = u =>
                   \/ Len(pc'[u]) = 1 /\ pc'[u][1] # "lock" /\ mutex.lock_count = 1
                   \/ Len(pc'[u]) = 2 /\ pc'[u][1] = "lock" /\ mutex.lock_count = 1
                   \/ Len(pc'[u]) = 2 /\ pc'[u][1] = "check" /\ mutex.lock_count = 2
      <3>1. CASE u = t
        <4>1. CASE Len(pc[t]) = 0
          BY <1>0, <1>1, <3>1, <4>1 DEF Held
        <4>2. CASE Len(pc[t]) = 1
          BY <1>0, <1>1, <1>3, <3>1, <4>2 DEF Held
        <4> QED BY <1>3, <4>1, <4>2
      <3>2. CASE u # t
        <4>1. pc'[u] = pc[u]
          BY <1>1, <3>2 DEF Others
        <4> QED BY <4>1 DEF Held
      <3> QED BY <3>1, <3>2
    <2> QED BY <1>2, <2>1 DEF Held
  <1>6. \A u \in Threads, p \in {"startup", "construct"} : Busy(u, p)' <=> Busy(u, p)
    BY <1>1, <1>3 DEF Busy, Stacks, Shape, Others
  <1>7. DriverType' /\ Driver'
    BY <1>2, <1>6 DEF DriverType, DriverStopped, Driver, Up, Down, KindTold
  <1> QED BY <1>4, <1>5, <1>7

\* The mutex is taken.
LEMMA LockKeeps ==
    ASSUME MountInv, NEW t \in Threads, OSLockMutex(t)
    PROVE  MountInv'
  <1> USE DEF MountInv
  <1>1. /\ Len(pc[t]) \in {1, 2} /\ pc[t][1] = "lock"
        /\ mutex.owner \in {NoThread, t}
        /\ mutex' = [owner |-> t, lock_count |-> mutex.lock_count + 1]
        /\ UNCHANGED <<hasInit, sdio, handles, isHighCapacity>>
    BY AtStack DEF OSLockMutex, Places
  <1>2. /\ StacksTyped' /\ Others(t)
        /\ Len(pc'[t]) = Len(pc[t]) /\ pc'[t][1] = "check"
        /\ Len(pc[t]) = 2 => pc'[t][2] = pc[t][2]
    BY <1>1, GotoStack DEF OSLockMutex, Places
  <1>3. Stacks'
    BY <1>1, <1>2 DEF Stacks, Shape, Others
  <1>4. Held'
    BY <1>1, <1>2, SdMountAssumption DEF Held, Stacks, Shape, Others
  <1>5. \A u \in Threads, p \in {"startup", "construct"} : Busy(u, p)' <=> Busy(u, p)
    BY <1>1, <1>2 DEF Busy, Stacks, Shape, Others
  <1>6. DriverType' /\ Driver'
    BY <1>1, <1>5 DEF DriverType, DriverStopped, Driver, Up, Down, KindTold
  <1> QED BY <1>3, <1>4, <1>6

(***************************************************************************)
(* The thread returns and unlocks the mutex: at the end of the call, or    *)
(* when the card is mounted or being mounted by the outer call.            *)
(***************************************************************************)
LEMMA UnlockKeeps ==
    ASSUME MountInv, NEW t \in Threads, NEW where \in {"check", "exit"}, At(t, where),
           mutex' = Unlocked, Return(t), UNCHANGED <<hasInit, sdio, handles, isHighCapacity>>
    PROVE  MountInv'
  <1> USE DEF MountInv
  <1>1. Len(pc[t]) \in {1, 2} /\ pc[t][1] = where /\ mutex.owner = t
    BY AtStack DEF Places
  <1>2. /\ StacksTyped' /\ Others(t)
        /\ Len(pc'[t]) = Len(pc[t]) - 1
        /\ Len(pc[t]) = 2 => pc'[t][1] = pc[t][2]
    BY <1>1, ReturnStack
  <1>3. Stacks'
    <2>1. ASSUME NEW u \in Threads
        PROVE  /\ Len(pc'[u]) \in {0, 1, 2} /\ Len(pc'[u]) <= MaxCalls
               /\ Len(pc'[u]) = 2 => pc'[u][1] \in {"lock", "check"} /\ pc'[u][2] \in {"startup", "construct"}
      <3>1. CASE u = t
        <4>1. Len(pc'[t]) \in {0, 1} /\ 1 <= MaxCalls
          BY <1>1, <1>2, SdMountAssumption
        <4>2. PICK k : k = Len(pc'[u]) /\ (k = 0 \/ k = 1)
          BY <3>1, <4>1
        <4>3. k \in {0, 1, 2} /\ k <= MaxCalls /\ k # 2
          <5>1. MaxCalls \in Nat /\ 1 <= MaxCalls
            BY SdMountAssumption
          <5>2. k \in Nat /\ (k = 0 \/ k = 1)
            BY <4>2
          <5> QED BY ONLY <5>1, <5>2
        <4> QED BY <4>2, <4>3
      <3>2. CASE u # t
        <4>1. pc'[u] = pc[u]
          BY <1>2, <3>2 DEF Others
        <4> QED BY <4>1 DEF Stacks, Shape
      <3> QED BY <3>1, <3>2
    <2> QED BY <1>2, <2>1 DEF Stacks, Shape
  <1>4. /\ Len(pc[t]) = 1 => mutex'.owner = NoThread /\ mutex'.lock_count = 0
        /\ Len(pc[t]) = 2 => mutex'.owner = t /\ mutex'.lock_count = 1
        /\ mutex' \in [owner : Threads \cup {NoThread}, lock_count : Int]
    BY <1>1, SdMountAssumption DEF Held, Unlocked
  <1>5. Held'
    <2>1. CASE Len(pc[t]) = 1
      BY <1>1, <1>2, <1>4, <2>1, SdMountAssumption DEF Held, Stacks, Shape, Others
    <2>2. CASE Len(pc[t]) = 2
      <3>1. pc'[t][1] \in {"startup", "construct"} /\ Len(pc'[t]) = 1
        BY <1>2, <2>2 DEF Stacks, Shape
      <3>2. \A u \in Threads \ {t} : Len(pc'[u]) = 0 \/ (Len(pc'[u]) = 1 /\ pc'[u][1] = "lock")
        BY <1>1, <1>2 DEF Held, Others
      <3>3. mutex'.owner = t /\ mutex'.lock_count = 1 /\ t # NoThread
        BY <1>4, <2>2, SdMountAssumption
      <3> QED BY <1>4, <3>1, <3>2, <3>3 DEF Held
    <2> QED BY <1>1, <2>1, <2>2
  <1>6. \A u \in Threads, p \in {"startup", "construct"} : Busy(u, p)' <=> Busy(u, p)
    <2>1. \A p \in {"startup", "construct"} : Busy(t, p)' <=> Busy(t, p)
      <3>1. CASE Len(pc[t]) = 1
        BY <1>1, <1>2, <3>1 DEF Busy
      <3>2. CASE Len(pc[t]) = 2
        BY <1>1, <1>2, <3>2 DEF Busy
      <3> QED BY <1>1, <3>1, <3>2
    <2>2. \A u \in Threads \ {t} : \A p : Busy(u, p)' <=> Busy(u, p)
      BY <1>2 DEF Busy, Others
    <2> QED BY <2>1, <2>2
  <1>7. DriverType' /\ Driver'
    BY <1>6 DEF DriverType, DriverStopped, Driver, Up, Down, KindTold
  <1> QED BY <1>3, <1>5, <1>7

\* The owner of the mutex goes on to another place of its only call.
LEMMA OwnerGoes ==
    ASSUME MountInv, NEW t \in Threads, mutex.owner = t, Len(pc[t]) = 1,
           NEW where \in {"startup", "construct", "exit"}, Goto(t, where), UNCHANGED mutex
    PROVE  /\ Stacks' /\ Held'
           /\ \A u \in Threads, p \in {"startup", "construct"} : Busy(u, p)' <=> u = t /\ p = where
           /\ \A u \in Threads \ {t} : ~Busy(u, "startup") /\ ~Busy(u, "construct")
  <1> USE DEF MountInv
  <1>1. /\ StacksTyped' /\ Others(t)
        /\ Len(pc'[t]) = 1 /\ pc'[t][1] = where
    <2>1. where \in Places /\ Len(pc[t]) > 0
      BY DEF Places
    <2> QED BY <2>1, GotoStack
  <1>2. Stacks'
    BY <1>1 DEF Stacks, Shape, Others
  <1>3. Held'
    BY <1>1 DEF Held, Stacks, Shape, Others
  <1>4. \A u \in Threads \ {t} : ~Busy(u, "startup") /\ ~Busy(u, "construct")
    BY DEF Held, Busy
  <1>5. \A p : Busy(t, p)' <=> p = where
    BY <1>1 DEF Busy
  <1>6. \A u \in Threads \ {t} : \A p : Busy(u, p)' <=> Busy(u, p)
    BY <1>1 DEF Busy, Others
  <1> QED BY <1>2, <1>3, <1>4, <1>5, <1>6

\* The call goes on to start the driver, or returns.
LEMMA CheckKeeps ==
    ASSUME MountInv, NEW t \in Threads, Check(t)
    PROVE  MountInv'
  <1> USE DEF MountInv
  <1>1. At(t, "check") /\ Len(pc[t]) \in {1, 2} /\ pc[t][1] = "check" /\ mutex.owner = t
        /\ UNCHANGED <<hasInit, sdio, handles, isHighCapacity>>
    BY AtStack DEF Check, Places
  <1>2. CASE hasInit \/ mutex.lock_count > 1
    BY <1>1, <1>2, UnlockKeeps DEF Check
  <1>3. CASE ~(hasInit \/ mutex.lock_count > 1)
    <2>1. Len(pc[t]) = 1 /\ Goto(t, "startup") /\ UNCHANGED mutex /\ ~hasInit
      BY <1>1, <1>3 DEF Check, Held
    <2>2. /\ Stacks' /\ Held'
          /\ \A u \in Threads, p \in {"startup", "construct"} : Busy(u, p)' <=> u = t /\ p = "startup"
          /\ \A u \in Threads \ {t} : ~Busy(u, "startup") /\ ~Busy(u, "construct")
      BY <1>1, <2>1, OwnerGoes
    <2>3. ~Busy(t, "startup") /\ ~Busy(t, "construct")
      BY <1>1, <2>1 DEF Busy
    <2>4. Down /\ sdio.io = "idle" /\ ~sdio.ok
      BY <2>1, <2>2, <2>3 DEF Driver, DriverType
    <2>5. DriverType' /\ Driver'
      BY <1>1, <2>1, <2>2, <2>4 DEF DriverType, DriverStopped, Driver, Up, Down, KindTold
    <2> QED BY <2>2, <2>5
  <1> QED BY <1>2, <1>3

-----------------------------------------------------------------------------
(* The steps of the driver. *)

\* Where the driver is before a step of its own.
LEMMA IoStack ==
    ASSUME MountInv, NEW t \in Threads, NEW from, Io(t, from)
    PROVE  Busy(t, "startup") /\ sdio.io = from /\ mutex.owner = t /\ Len(pc[t]) = 1
  BY AtStack DEF Io, Places

\* A step of the driver leaves the calls alone.
LEMMA DriverFrame ==
    ASSUME MountInv, Idle
    PROVE  /\ Stacks' /\ Held'
           /\ \A u \in Threads, p \in {"startup", "construct"} : Busy(u, p)' <=> Busy(u, p)
  BY DEF MountInv, Idle, Stacks, StacksTyped, Shape, Held, Busy

\* What a step of the driver has to do.
LEMMA DriverStep ==
    ASSUME MountInv, NEW t \in Threads, Io(t, sdio.io), Idle,
           DOMAIN sdio' = DOMAIN sdio,
           handles' = IF sdio'.fd THEN 1 ELSE 0,
           sdio'.io # "idle",
           sdio'.ok => sdio'.io = "end" /\ Up',
           ~sdio'.ok => ~sdio'.sdio_initialized /\ ~sdio'.sd0_initialized,
           sdio'.io \in {"status", "reopen", "power", "opcond", "ids", "setup"} => sdio'.fd,
           sdio'.io \in {"ids", "setup"} => sdio'.sdhc = KindTold'
    PROVE  MountInv'
  <1>1. Busy(t, "startup") /\ mutex.owner = t /\ Len(pc[t]) = 1
    BY IoStack
  <1>2. /\ Stacks' /\ Held'
        /\ \A u \in Threads, p \in {"startup", "construct"} : Busy(u, p)' <=> Busy(u, p)
    BY DriverFrame
  <1>3. UNCHANGED <<hasInit, isHighCapacity>> /\ ~hasInit
    BY <1>1 DEF Idle, MountInv, Driver
  <1>4. \A u \in Threads : ~Busy(u, "construct")
    BY <1>1 DEF MountInv, Held, Busy
  <1>5. DriverType'
    BY DEF MountInv, DriverType, DriverStopped
  <1>6. Driver'
    BY <1>1, <1>2, <1>3, <1>4 DEF Driver
  <1> QED BY <1>2, <1>5, <1>6 DEF MountInv

\* What holds in the driver before a step of its own.
LEMMA DriverBefore ==
    ASSUME MountInv, NEW t \in Threads, NEW from, from # "end", Io(t, from)
    PROVE  /\ Io(t, sdio.io) /\ sdio.io = from
           /\ DOMAIN sdio = {"io", "fd", "sdio_initialized", "sd0_initialized", "sdhc", "tries", "ok", "misread"}
           /\ handles = IF sdio.fd THEN 1 ELSE 0
           /\ ~sdio.ok /\ ~sdio.sdio_initialized /\ ~sdio.sd0_initialized
           /\ from = "idle" => ~sdio.fd
           /\ from \in {"status", "reopen", "power", "opcond", "ids", "setup"} => sdio.fd
           /\ from \in {"ids", "setup"} => sdio.sdhc = KindTold
  <1>1. sdio.io = from /\ Busy(t, "startup")
    BY IoStack
  <1>2. DOMAIN sdio = {"io", "fd", "sdio_initialized", "sd0_initialized", "sdhc", "tries", "ok", "misread"}
    BY DEF MountInv, DriverType, DriverStopped
  <1> QED BY <1>1, <1>2 DEF MountInv, Driver, Down, Io

\* The heap, the buffer and the first handle.
LEMMA BeginKeeps ==
    ASSUME MountInv, NEW t \in Threads, Begin(t)
    PROVE  MountInv'
  <1>1. Io(t, "idle") /\ Idle
    BY DEF Begin
  <1>2. /\ Io(t, sdio.io) /\ sdio.io = "idle"
        /\ DOMAIN sdio = {"io", "fd", "sdio_initialized", "sd0_initialized", "sdhc", "tries", "ok", "misread"}
        /\ handles = IF sdio.fd THEN 1 ELSE 0
        /\ ~sdio.ok /\ ~sdio.sdio_initialized /\ ~sdio.sd0_initialized
        /\ ~sdio.fd
    BY <1>1, DriverBefore
  <1>3. CASE sdio' = [sdio EXCEPT !.io = "end"] /\ UNCHANGED handles
    <2>1. /\ sdio'.io = "end" /\ sdio'.fd = sdio.fd /\ DOMAIN sdio' = DOMAIN sdio
          /\ sdio'.sdio_initialized = sdio.sdio_initialized /\ sdio'.sd0_initialized = sdio.sd0_initialized
          /\ sdio'.sdhc = sdio.sdhc /\ sdio'.ok = sdio.ok
      BY <1>2, <1>3
    <2>2. handles' = IF sdio'.fd THEN 1 ELSE 0
      BY <1>2, <1>3, <2>1
    <2> QED BY <1>1, <1>2, <2>1, <2>2, DriverStep
  <1>4. CASE sdio' = [sdio EXCEPT !.io = "status", !.fd = TRUE] /\ handles' = handles + 1
    <2>1. /\ sdio'.io = "status" /\ sdio'.fd = TRUE /\ DOMAIN sdio' = DOMAIN sdio
          /\ sdio'.sdio_initialized = sdio.sdio_initialized /\ sdio'.sd0_initialized = sdio.sd0_initialized
          /\ sdio'.sdhc = sdio.sdhc /\ sdio'.ok = sdio.ok
      BY <1>2, <1>4
    <2>2. handles' = IF sdio'.fd THEN 1 ELSE 0
      BY <1>2, <1>4, <2>1
    <2> QED BY <1>1, <1>2, <2>1, <2>2, DriverStep
  <1> QED BY <1>2, <1>3, <1>4 DEF Begin, MoveTo

\* The status of the card.
LEMMA GetStatusKeeps ==
    ASSUME MountInv, NEW t \in Threads, GetStatus(t)
    PROVE  MountInv'
  <1>1. Io(t, "status") /\ Idle
    BY DEF GetStatus
  <1>2. /\ Io(t, sdio.io) /\ sdio.io = "status"
        /\ DOMAIN sdio = {"io", "fd", "sdio_initialized", "sd0_initialized", "sdhc", "tries", "ok", "misread"}
        /\ handles = IF sdio.fd THEN 1 ELSE 0
        /\ ~sdio.ok /\ ~sdio.sdio_initialized /\ ~sdio.sd0_initialized
        /\ sdio.fd
    BY <1>1, DriverBefore
  <1>3. CASE sdio' = [sdio EXCEPT !.io = "end"] /\ UNCHANGED handles
    <2>1. /\ sdio'.io = "end" /\ sdio'.fd = sdio.fd /\ DOMAIN sdio' = DOMAIN sdio
          /\ sdio'.sdio_initialized = sdio.sdio_initialized /\ sdio'.sd0_initialized = sdio.sd0_initialized
          /\ sdio'.sdhc = sdio.sdhc /\ sdio'.ok = sdio.ok
      BY <1>2, <1>3
    <2>2. handles' = IF sdio'.fd THEN 1 ELSE 0
      BY <1>2, <1>3, <2>1
    <2> QED BY <1>1, <1>2, <2>1, <2>2, DriverStep
  <1>4. CASE /\ \/ sdio' = [sdio EXCEPT !.io = "setup", !.sdhc = isHighCapacity, !.misread = FALSE]
                \/ sdio' = [sdio EXCEPT !.io = "setup", !.sdhc = TRUE, !.misread = TRUE]
             /\ UNCHANGED handles
    <2>1. /\ sdio'.io = "setup" /\ sdio'.fd = sdio.fd /\ DOMAIN sdio' = DOMAIN sdio
          /\ sdio'.sdio_initialized = sdio.sdio_initialized /\ sdio'.sd0_initialized = sdio.sd0_initialized
          /\ sdio'.sdhc = (IF sdio'.misread THEN TRUE ELSE isHighCapacity) /\ sdio'.ok = sdio.ok
      BY <1>2, <1>4
    <2>2. handles' = IF sdio'.fd THEN 1 ELSE 0
      BY <1>2, <1>4, <2>1
    <2>3. sdio'.sdhc = KindTold'
      BY <1>1, <2>1 DEF Idle, KindTold
    <2> QED BY <1>1, <1>2, <2>1, <2>2, <2>3, DriverStep
  <1>5. CASE sdio' = [sdio EXCEPT !.io = "reopen"] /\ UNCHANGED handles
    <2>1. /\ sdio'.io = "reopen" /\ sdio'.fd = sdio.fd /\ DOMAIN sdio' = DOMAIN sdio
          /\ sdio'.sdio_initialized = sdio.sdio_initialized /\ sdio'.sd0_initialized = sdio.sd0_initialized
          /\ sdio'.sdhc = sdio.sdhc /\ sdio'.ok = sdio.ok
      BY <1>2, <1>5
    <2>2. handles' = IF sdio'.fd THEN 1 ELSE 0
      BY <1>2, <1>5, <2>1
    <2> QED BY <1>1, <1>2, <2>1, <2>2, DriverStep
  <1> QED BY <1>2, <1>3, <1>4, <1>5 DEF GetStatus, MoveTo

\* The handle is opened again.
LEMMA ReopenKeeps ==
    ASSUME MountInv, NEW t \in Threads, Reopen(t)
    PROVE  MountInv'
  <1>1. Io(t, "reopen") /\ Idle
    BY DEF Reopen
  <1>2. /\ Io(t, sdio.io) /\ sdio.io = "reopen"
        /\ DOMAIN sdio = {"io", "fd", "sdio_initialized", "sd0_initialized", "sdhc", "tries", "ok", "misread"}
        /\ handles = IF sdio.fd THEN 1 ELSE 0
        /\ ~sdio.ok /\ ~sdio.sdio_initialized /\ ~sdio.sd0_initialized
        /\ sdio.fd
    BY <1>1, DriverBefore
  <1>3. CASE sdio' = [sdio EXCEPT !.io = "power", !.fd = TRUE] /\ handles' = Reopened
    <2>1. /\ sdio'.io = "power" /\ sdio'.fd = TRUE /\ DOMAIN sdio' = DOMAIN sdio
          /\ sdio'.sdio_initialized = sdio.sdio_initialized /\ sdio'.sd0_initialized = sdio.sd0_initialized
          /\ sdio'.sdhc = sdio.sdhc /\ sdio'.ok = sdio.ok
      BY <1>2, <1>3
    <2>2. handles' = IF sdio'.fd THEN 1 ELSE 0
      BY <1>2, <1>3, <2>1 DEF Reopened
    <2> QED BY <1>1, <1>2, <2>1, <2>2, DriverStep
  <1>4. CASE sdio' = [sdio EXCEPT !.io = "fail", !.fd = FALSE] /\ handles' = Reopened - 1
    <2>1. /\ sdio'.io = "fail" /\ sdio'.fd = FALSE /\ DOMAIN sdio' = DOMAIN sdio
          /\ sdio'.sdio_initialized = sdio.sdio_initialized /\ sdio'.sd0_initialized = sdio.sd0_initialized
          /\ sdio'.sdhc = sdio.sdhc /\ sdio'.ok = sdio.ok
      BY <1>2, <1>4
    <2>2. handles' = IF sdio'.fd THEN 1 ELSE 0
      BY <1>2, <1>4, <2>1 DEF Reopened
    <2> QED BY <1>1, <1>2, <2>1, <2>2, DriverStep
  <1> QED BY <1>2, <1>3, <1>4 DEF Reopen

\* The controller is reset and the card powered.
LEMMA PowerUpKeeps ==
    ASSUME MountInv, NEW t \in Threads, PowerUp(t)
    PROVE  MountInv'
  <1>1. Io(t, "power") /\ Idle
    BY DEF PowerUp
  <1>2. /\ Io(t, sdio.io) /\ sdio.io = "power"
        /\ DOMAIN sdio = {"io", "fd", "sdio_initialized", "sd0_initialized", "sdhc", "tries", "ok", "misread"}
        /\ handles = IF sdio.fd THEN 1 ELSE 0
        /\ ~sdio.ok /\ ~sdio.sdio_initialized /\ ~sdio.sd0_initialized
        /\ sdio.fd
    BY <1>1, DriverBefore
  <1>3. CASE sdio' = [sdio EXCEPT !.io = "fail"] /\ UNCHANGED handles
    <2>1. /\ sdio'.io = "fail" /\ sdio'.fd = sdio.fd /\ DOMAIN sdio' = DOMAIN sdio
          /\ sdio'.sdio_initialized = sdio.sdio_initialized /\ sdio'.sd0_initialized = sdio.sd0_initialized
          /\ sdio'.sdhc = sdio.sdhc /\ sdio'.ok = sdio.ok
      BY <1>2, <1>3
    <2>2. handles' = IF sdio'.fd THEN 1 ELSE 0
      BY <1>2, <1>3, <2>1
    <2> QED BY <1>1, <1>2, <2>1, <2>2, DriverStep
  <1>4. CASE sdio' = [sdio EXCEPT !.io = "fail", !.sdhc = TRUE] /\ UNCHANGED handles
    <2>1. /\ sdio'.io = "fail" /\ sdio'.fd = sdio.fd /\ DOMAIN sdio' = DOMAIN sdio
          /\ sdio'.sdio_initialized = sdio.sdio_initialized /\ sdio'.sd0_initialized = sdio.sd0_initialized
          /\ sdio'.sdhc = TRUE /\ sdio'.ok = sdio.ok
      BY <1>2, <1>4
    <2>2. handles' = IF sdio'.fd THEN 1 ELSE 0
      BY <1>2, <1>4, <2>1
    <2> QED BY <1>1, <1>2, <2>1, <2>2, DriverStep
  <1>5. CASE sdio' = [sdio EXCEPT !.io = "opcond", !.sdhc = TRUE, !.tries = MaxTries] /\ UNCHANGED handles
    <2>1. /\ sdio'.io = "opcond" /\ sdio'.fd = sdio.fd /\ DOMAIN sdio' = DOMAIN sdio
          /\ sdio'.sdio_initialized = sdio.sdio_initialized /\ sdio'.sd0_initialized = sdio.sd0_initialized
          /\ sdio'.sdhc = TRUE /\ sdio'.ok = sdio.ok
      BY <1>2, <1>5
    <2>2. handles' = IF sdio'.fd THEN 1 ELSE 0
      BY <1>2, <1>5, <2>1
    <2> QED BY <1>1, <1>2, <2>1, <2>2, DriverStep
  <1> QED BY <1>2, <1>3, <1>4, <1>5 DEF PowerUp, MoveTo

\* The card is asked whether it is ready.
LEMMA SendOpCondKeeps ==
    ASSUME MountInv, NEW t \in Threads, SendOpCond(t)
    PROVE  MountInv'
  <1>1. Io(t, "opcond") /\ Idle
    BY DEF SendOpCond
  <1>2. /\ Io(t, sdio.io) /\ sdio.io = "opcond"
        /\ DOMAIN sdio = {"io", "fd", "sdio_initialized", "sd0_initialized", "sdhc", "tries", "ok", "misread"}
        /\ handles = IF sdio.fd THEN 1 ELSE 0
        /\ ~sdio.ok /\ ~sdio.sdio_initialized /\ ~sdio.sd0_initialized
        /\ sdio.fd
    BY <1>1, DriverBefore
  <1>3. CASE /\ sdio' = [sdio EXCEPT !.io = "ids", !.sdhc = isHighCapacity, !.misread = FALSE]
             /\ UNCHANGED handles
    <2>1. /\ sdio'.io = "ids" /\ sdio'.fd = sdio.fd /\ DOMAIN sdio' = DOMAIN sdio
          /\ sdio'.sdio_initialized = sdio.sdio_initialized /\ sdio'.sd0_initialized = sdio.sd0_initialized
          /\ sdio'.sdhc = isHighCapacity /\ ~sdio'.misread /\ sdio'.ok = sdio.ok
      BY <1>2, <1>3
    <2>2. handles' = IF sdio'.fd THEN 1 ELSE 0
      BY <1>2, <1>3, <2>1
    <2>3. sdio'.sdhc = KindTold'
      BY <1>1, <2>1 DEF Idle, KindTold
    <2> QED BY <1>1, <1>2, <2>1, <2>2, <2>3, DriverStep
  <1>4. CASE sdio' = [sdio EXCEPT !.tries = @ - 1] /\ UNCHANGED handles
    <2>1. /\ sdio'.io = sdio.io /\ sdio'.fd = sdio.fd /\ DOMAIN sdio' = DOMAIN sdio
          /\ sdio'.sdio_initialized = sdio.sdio_initialized /\ sdio'.sd0_initialized = sdio.sd0_initialized
          /\ sdio'.sdhc = sdio.sdhc /\ sdio'.ok = sdio.ok
      BY <1>2, <1>4
    <2>2. handles' = IF sdio'.fd THEN 1 ELSE 0
      BY <1>2, <1>4, <2>1
    <2> QED BY <1>1, <1>2, <2>1, <2>2, DriverStep
  <1>5. CASE sdio' = [sdio EXCEPT !.io = "fail"] /\ UNCHANGED handles
    <2>1. /\ sdio'.io = "fail" /\ sdio'.fd = sdio.fd /\ DOMAIN sdio' = DOMAIN sdio
          /\ sdio'.sdio_initialized = sdio.sdio_initialized /\ sdio'.sd0_initialized = sdio.sd0_initialized
          /\ sdio'.sdhc = sdio.sdhc /\ sdio'.ok = sdio.ok
      BY <1>2, <1>5
    <2>2. handles' = IF sdio'.fd THEN 1 ELSE 0
      BY <1>2, <1>5, <2>1
    <2> QED BY <1>1, <1>2, <2>1, <2>2, DriverStep
  <1> QED BY <1>2, <1>3, <1>4, <1>5 DEF SendOpCond, MoveTo

\* The card gives its identification.
LEMMA GetIdsKeeps ==
    ASSUME MountInv, NEW t \in Threads, GetIds(t)
    PROVE  MountInv'
  <1>1. Io(t, "ids") /\ Idle
    BY DEF GetIds
  <1>2. /\ Io(t, sdio.io) /\ sdio.io = "ids"
        /\ DOMAIN sdio = {"io", "fd", "sdio_initialized", "sd0_initialized", "sdhc", "tries", "ok", "misread"}
        /\ handles = IF sdio.fd THEN 1 ELSE 0
        /\ ~sdio.ok /\ ~sdio.sdio_initialized /\ ~sdio.sd0_initialized
        /\ sdio.fd
        /\ sdio.sdhc = KindTold
    BY <1>1, DriverBefore
  <1>3. CASE sdio' = [sdio EXCEPT !.io = "setup"] /\ UNCHANGED handles
    <2>1. /\ sdio'.io = "setup" /\ sdio'.fd = sdio.fd /\ DOMAIN sdio' = DOMAIN sdio
          /\ sdio'.sdio_initialized = sdio.sdio_initialized /\ sdio'.sd0_initialized = sdio.sd0_initialized
          /\ sdio'.sdhc = sdio.sdhc /\ sdio'.misread = sdio.misread /\ sdio'.ok = sdio.ok
      BY <1>2, <1>3
    <2>2. handles' = IF sdio'.fd THEN 1 ELSE 0
      BY <1>2, <1>3, <2>1
    <2>3. sdio'.sdhc = KindTold'
      BY <1>1, <1>2, <2>1 DEF Idle, KindTold
    <2> QED BY <1>1, <1>2, <2>1, <2>2, <2>3, DriverStep
  <1>4. CASE sdio' = [sdio EXCEPT !.io = "fail"] /\ UNCHANGED handles
    <2>1. /\ sdio'.io = "fail" /\ sdio'.fd = sdio.fd /\ DOMAIN sdio' = DOMAIN sdio
          /\ sdio'.sdio_initialized = sdio.sdio_initialized /\ sdio'.sd0_initialized = sdio.sd0_initialized
          /\ sdio'.sdhc = sdio.sdhc /\ sdio'.ok = sdio.ok
      BY <1>2, <1>4
    <2>2. handles' = IF sdio'.fd THEN 1 ELSE 0
      BY <1>2, <1>4, <2>1
    <2> QED BY <1>1, <1>2, <2>1, <2>2, DriverStep
  <1> QED BY <1>2, <1>3, <1>4 DEF GetIds, MoveTo

\* The card is set up, or is not.
LEMMA SetUpKeeps ==
    ASSUME MountInv, NEW t \in Threads, SetUp(t)
    PROVE  MountInv'
  <1>1. Io(t, "setup") /\ Idle
    BY DEF SetUp
  <1>2. /\ Io(t, sdio.io) /\ sdio.io = "setup"
        /\ DOMAIN sdio = {"io", "fd", "sdio_initialized", "sd0_initialized", "sdhc", "tries", "ok", "misread"}
        /\ handles = IF sdio.fd THEN 1 ELSE 0
        /\ ~sdio.ok /\ ~sdio.sdio_initialized /\ ~sdio.sd0_initialized
        /\ sdio.fd
        /\ sdio.sdhc = KindTold
    BY <1>1, DriverBefore
  <1>3. CASE sdio' = [sdio EXCEPT !.io = "end", !.ok = TRUE, !.sd0_initialized = TRUE, !.sdio_initialized = TRUE] /\ UNCHANGED handles
    <2>1. /\ sdio'.io = "end" /\ sdio'.fd = sdio.fd /\ DOMAIN sdio' = DOMAIN sdio
          /\ sdio'.sdio_initialized = TRUE /\ sdio'.sd0_initialized = TRUE
          /\ sdio'.sdhc = sdio.sdhc /\ sdio'.misread = sdio.misread /\ sdio'.ok = TRUE
      BY <1>2, <1>3
    <2>2. handles' = IF sdio'.fd THEN 1 ELSE 0
      BY <1>2, <1>3, <2>1
    <2>3. Up'
      BY <1>1, <1>2, <2>1 DEF Up, Idle, KindTold
    <2> QED BY <1>1, <1>2, <2>1, <2>2, <2>3, DriverStep
  <1>4. CASE sdio' = [sdio EXCEPT !.io = "end"] /\ UNCHANGED handles
    <2>1. /\ sdio'.io = "end" /\ sdio'.fd = sdio.fd /\ DOMAIN sdio' = DOMAIN sdio
          /\ sdio'.sdio_initialized = sdio.sdio_initialized /\ sdio'.sd0_initialized = sdio.sd0_initialized
          /\ sdio'.sdhc = sdio.sdhc /\ sdio'.ok = sdio.ok
      BY <1>2, <1>4
    <2>2. handles' = IF sdio'.fd THEN 1 ELSE 0
      BY <1>2, <1>4, <2>1
    <2> QED BY <1>1, <1>2, <2>1, <2>2, DriverStep
  <1> QED BY <1>2, <1>3, <1>4 DEF SetUp, MoveTo

\* The controller is reset once more.
LEMMA FailedKeeps ==
    ASSUME MountInv, NEW t \in Threads, Failed(t)
    PROVE  MountInv'
  <1>1. Io(t, "fail") /\ Idle
    BY DEF Failed
  <1>2. /\ Io(t, sdio.io) /\ sdio.io = "fail"
        /\ DOMAIN sdio = {"io", "fd", "sdio_initialized", "sd0_initialized", "sdhc", "tries", "ok", "misread"}
        /\ handles = IF sdio.fd THEN 1 ELSE 0
        /\ ~sdio.ok /\ ~sdio.sdio_initialized /\ ~sdio.sd0_initialized
    BY <1>1, DriverBefore
  <1>3. CASE sdio' = [sdio EXCEPT !.io = "end", !.fd = TRUE] /\ handles' = Reopened
    <2>1. /\ sdio'.io = "end" /\ sdio'.fd = TRUE /\ DOMAIN sdio' = DOMAIN sdio
          /\ sdio'.sdio_initialized = sdio.sdio_initialized /\ sdio'.sd0_initialized = sdio.sd0_initialized
          /\ sdio'.sdhc = sdio.sdhc /\ sdio'.ok = sdio.ok
      BY <1>2, <1>3
    <2>2. handles' = IF sdio'.fd THEN 1 ELSE 0
      BY <1>2, <1>3, <2>1 DEF Reopened
    <2> QED BY <1>1, <1>2, <2>1, <2>2, DriverStep
  <1>4. CASE sdio' = [sdio EXCEPT !.io = "end", !.fd = FALSE] /\ handles' = Reopened - 1
    <2>1. /\ sdio'.io = "end" /\ sdio'.fd = FALSE /\ DOMAIN sdio' = DOMAIN sdio
          /\ sdio'.sdio_initialized = sdio.sdio_initialized /\ sdio'.sd0_initialized = sdio.sd0_initialized
          /\ sdio'.sdhc = sdio.sdhc /\ sdio'.ok = sdio.ok
      BY <1>2, <1>4
    <2>2. handles' = IF sdio'.fd THEN 1 ELSE 0
      BY <1>2, <1>4, <2>1 DEF Reopened
    <2> QED BY <1>1, <1>2, <2>1, <2>2, DriverStep
  <1> QED BY <1>2, <1>3, <1>4 DEF Failed

\* sdio_Startup returns.
LEMMA StartupKeeps ==
    ASSUME MountInv, NEW t \in Threads, Startup(t)
    PROVE  MountInv'
  <1> USE DEF MountInv
  <1>1. Io(t, "end") /\ UNCHANGED <<hasInit, mutex, isHighCapacity>>
    BY DEF Startup
  <1>2. Busy(t, "startup") /\ sdio.io = "end" /\ mutex.owner = t /\ Len(pc[t]) = 1 /\ ~hasInit
    BY <1>1, IoStack DEF Driver
  <1>3. CASE sdio.ok
    <2>1. Goto(t, "construct") /\ sdio' = [sdio EXCEPT !.io = "idle", !.ok = FALSE, !.tries = 0] /\ UNCHANGED handles
      BY <1>3 DEF Startup
    <2>2. /\ Stacks' /\ Held'
          /\ \A u \in Threads, p \in {"startup", "construct"} : Busy(u, p)' <=> u = t /\ p = "construct"
      BY <1>1, <1>2, <2>1, OwnerGoes
    <2>3. DriverType'
      BY <1>1, <2>1 DEF DriverType, DriverStopped
    <2>4. Driver'
      BY <1>1, <1>2, <1>3, <2>1, <2>2 DEF DriverType, DriverStopped, Driver, Up, Down, KindTold
    <2> QED BY <2>2, <2>3, <2>4
  <1>4. CASE ~sdio.ok
    <2>1. /\ Goto(t, "exit") /\ sdio' = [Deinitialized(sdio) EXCEPT !.io = "idle", !.tries = 0]
          /\ handles' = HandlesClosed
      BY <1>4 DEF Startup
    <2>2. /\ Stacks' /\ Held'
          /\ \A u \in Threads, p \in {"startup", "construct"} : ~Busy(u, p)'
      BY <1>1, <1>2, <2>1, OwnerGoes
    <2>3. DriverType'
      BY <1>1, <2>1 DEF DriverType, DriverStopped, Deinitialized, HandlesClosed
    <2>4. Driver'
      BY <1>1, <1>2, <1>4, <2>1, <2>2 DEF DriverType, DriverStopped, Driver, Up, Down, KindTold, Deinitialized, HandlesClosed
    <2> QED BY <2>2, <2>3, <2>4
  <1> QED BY <1>3, <1>4

\* The partition is built, or the card is given up.
LEMMA ConstructKeeps ==
    ASSUME MountInv, NEW t \in Threads, Construct(t)
    PROVE  MountInv'
  <1> USE DEF MountInv
  <1>1. At(t, "construct") /\ Goto(t, "exit") /\ UNCHANGED <<mutex, isHighCapacity>>
    BY DEF Construct
  <1>2. Busy(t, "construct") /\ mutex.owner = t /\ Len(pc[t]) = 1
    BY <1>1, AtStack DEF Places
  <1>3. Up /\ sdio.io = "idle" /\ ~sdio.ok /\ ~hasInit
    BY <1>2 DEF Driver, DriverType
  <1>4. /\ Stacks' /\ Held'
        /\ \A u \in Threads, p \in {"startup", "construct"} : ~Busy(u, p)'
    BY <1>1, <1>2, OwnerGoes
  <1>5. CASE hasInit' = TRUE /\ UNCHANGED <<sdio, handles>>
    BY <1>1, <1>3, <1>4, <1>5 DEF DriverType, DriverStopped, Driver, Up, Down, KindTold
  <1>6. CASE /\ sdio' = [Deinitialized(sdio) EXCEPT !.sd0_initialized = FALSE]
             /\ handles' = HandlesClosed /\ UNCHANGED hasInit
    <2>1. DriverType'
      BY <1>1, <1>6 DEF DriverType, DriverStopped, Deinitialized, HandlesClosed
    <2>2. Driver'
      BY <1>1, <1>3, <1>4, <1>6 DEF DriverType, DriverStopped, Driver, Up, Down, Deinitialized, HandlesClosed
    <2> QED BY <1>4, <2>1, <2>2
  <1> QED BY <1>3, <1>5, <1>6 DEF Construct, Up

-----------------------------------------------------------------------------
\* The initial state satisfies the invariant.
LEMMA MountInvInit == MountInit => MountInv
  <1> SUFFICES ASSUME MountInit PROVE MountInv
    OBVIOUS
  <1>1. Stacks /\ Held
    BY SdMountAssumption DEF MountInit, Stacks, StacksTyped, Shape, Held
  <1>2. DriverType
    BY DEF MountInit, DriverType, DriverStopped
  <1>3. \A t \in Threads : ~Busy(t, "startup") /\ ~Busy(t, "construct")
    BY <1>1 DEF MountInit, Busy
  <1>4. Driver
    BY <1>3 DEF MountInit, Driver, DriverStopped, Up, Down
  <1> QED BY <1>1, <1>2, <1>4 DEF MountInv

\* The invariant holds in every reachable state.
LEMMA MountInvariant == MountSpec => []MountInv
  <1>1. MountInv /\ UNCHANGED mountVars => MountInv'
    <2>1. UNCHANGED mountVars => KindTold' = KindTold
      BY DEF KindTold, mountVars
    <2> QED BY <2>1 DEF MountInv, Stacks, StacksTyped, Shape, Held, DriverType, Driver, Up, Down, Busy, mountVars
  <1>2. ASSUME MountInv, NEW t \in Threads, OSUnlockMutex(t) PROVE MountInv'
    BY <1>2, UnlockKeeps DEF OSUnlockMutex
  <1>3. ASSUME MountInv, MountNext PROVE MountInv'
    BY <1>2, <1>3, CallKeeps, LockKeeps, CheckKeeps, BeginKeeps,
       GetStatusKeeps, ReopenKeeps, PowerUpKeeps, SendOpCondKeeps, GetIdsKeeps, SetUpKeeps, FailedKeeps,
       StartupKeeps, ConstructKeeps DEF MountNext
  <1>4. MountInv /\ [MountNext]_mountVars => MountInv'
    BY <1>1, <1>3
  <1> QED BY <1>4, MountInvInit, PTL DEF MountSpec

\* Mounting holds at most the outermost call of the owner of the mutex.
LEMMA MountingOwner ==
    ASSUME MountInv
    PROVE  /\ \/ Mounting = {}
              \/ \E x : Mounting = {x}
           /\ hasInit => Mounting = {}
           /\ Mounting = {} => \A t \in Threads : ~Busy(t, "startup") /\ ~Busy(t, "construct")
  <1> USE DEF MountInv
  <1>1. ASSUME NEW m \in Mounting
        PROVE  /\ mutex.owner \in Threads /\ m = <<mutex.owner, Len(pc[mutex.owner])>>
               /\ Busy(mutex.owner, "startup") \/ Busy(mutex.owner, "construct")
    <2>1. PICK t \in Threads, i \in 1 .. MaxCalls :
              m = <<t, i>> /\ i \in DOMAIN pc[t] /\ pc[t][i] \in {"startup", "construct"}
      BY DEF Mounting
    <2>2. i \in 1 .. Len(pc[t]) /\ Len(pc[t]) \in {0, 1, 2}
      <3>1. pc[t] \in Seq(Places)
        BY DEF Stacks, StacksTyped
      <3>2. i \in 1 .. Len(pc[t])
        BY <2>1, <3>1
      <3> QED BY <3>2 DEF Stacks, Shape
    <2>3. mutex.owner = t
      BY <2>1, <2>2 DEF Held
    <2>4. i = Len(pc[t])
      <3>1. CASE Len(pc[t]) = 2
        <4>1. i # 1
          BY <2>1, <3>1 DEF Stacks, Shape
        <4> QED BY <2>2, <3>1, <4>1
      <3>2. CASE Len(pc[t]) = 1
        BY <2>2, <3>2
      <3>3. CASE Len(pc[t]) = 0
        BY <2>2, <3>3
      <3> QED BY <2>2, <3>1, <3>2, <3>3
    <2> QED BY <2>1, <2>2, <2>3, <2>4 DEF Busy
  <1>2. \/ Mounting = {}
        \/ \E x : Mounting = {x}
    <2> DEFINE outer == <<mutex.owner, Len(pc[mutex.owner])>>
    <2>1. Mounting \subseteq {outer}
      BY <1>1
    <2>2. Mounting = {} \/ Mounting = {outer}
      BY <2>1
    <2> QED BY <2>2
  <1>3. hasInit => Mounting = {}
    BY <1>1 DEF Driver
  <1>4. ASSUME NEW t \in Threads, NEW p \in {"startup", "construct"}, Busy(t, p)
        PROVE  Mounting # {}
    <2>1. Len(pc[t]) \in 1 .. MaxCalls /\ Len(pc[t]) \in DOMAIN pc[t] /\ pc[t][Len(pc[t])] = p
      BY <1>4, SdMountAssumption DEF Stacks, Shape, Busy
    <2>2. <<t, Len(pc[t])>> \in Mounting
      BY <2>1 DEF Mounting
    <2> QED BY <2>2
  <1> QED BY <1>2, <1>3, <1>4

-----------------------------------------------------------------------------
(***************************************************************************)
(* However many threads call SD_Mount, and however their modules call it   *)
(* again from inside, at most one call is between its check of has_init    *)
(* and the end of FAT_partition_constructor, and none is once the card is  *)
(* mounted.                                                                *)
(***************************************************************************)
THEOREM SdMountedOnce == MountSpec => []MountedOnce
  <1>1. MountInv => MountedOnce
    <2> SUFFICES ASSUME MountInv PROVE MountedOnce
      OBVIOUS
    <2>1. CASE Mounting = {}
      <3>1. Cardinality(Mounting) = 0
        BY <2>1, FS_EmptySet
      <3> QED BY <3>1 DEF MountedOnce
    <2>2. CASE Mounting # {}
      <3>1. PICK x : Mounting = {x}
        BY <2>2, MountingOwner
      <3>2. Cardinality(Mounting) = 1
        BY <3>1, FS_Singleton
      <3>3. ~hasInit
        BY <2>2, MountingOwner
      <3> QED BY <3>2, <3>3 DEF MountedOnce
    <2> QED BY <2>1, <2>2
  <1> QED BY <1>1, MountInvariant, PTL

(***************************************************************************)
(* Whichever request to IOS fails, sdio_Startup and sdio_Shutdown leave no *)
(* handle of the card slot open and none twice, and a mounted card has one *)
(* and is addressed in its own units, however often it was tried before.   *)
(***************************************************************************)
THEOREM SdDriverConsistent == MountSpec => []DriverConsistent
  <1>1. MountInv => DriverConsistent
    <2> SUFFICES ASSUME MountInv PROVE DriverConsistent
      OBVIOUS
    <2>1. handles = IF sdio.fd THEN 1 ELSE 0
      BY DEF MountInv, Driver
    <2>2. ASSUME Mounting = {} PROVE IF hasInit THEN Up ELSE Down
      BY <2>2, MountingOwner DEF MountInv, Driver
    <2>3. hasInit => Mounting = {}
      BY MountingOwner
    <2> QED BY <2>1, <2>2, <2>3 DEF DriverConsistent, Up, Down, MountInv, DriverType
  <1> QED BY <1>1, MountInvariant, PTL

=============================================================================
