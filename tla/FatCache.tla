------------------------------ MODULE FatCache ------------------------------
(***************************************************************************)
(* The sector cache of libfat (modules/libfat/cache.c) above the SD card   *)
(* (modules/libsd/wiisd.c).  A call for several pages is a sequence of     *)
(* calls for one page each, as the loops in cache.c make it, and ends with *)
(* the first that fails.  A sector is one value: which of its bytes a call *)
(* changes does not matter to the cache.                                   *)
(***************************************************************************)
EXTENDS Integers, FiniteSets, Sequences

CONSTANTS
    endOfPartition,     \* number of sectors
    sectorsPerPage, numberOfPages,
    Values,             \* what a sector may contain
    AccessLimit,        \* accessCounter wraps around here
    Faults              \* the operations of the card that may fail

ASSUME FatCacheAssumption ==
    /\ endOfPartition \in Nat \ {0} /\ sectorsPerPage \in Nat \ {0}
    /\ numberOfPages \in Nat /\ numberOfPages >= 2
    /\ AccessLimit \in Nat \ {0}
    /\ Faults \subseteq {"read", "write"}

VARIABLES
    card,               \* the sectors of the SD card
    cacheEntries,
    accessCounter,
    reply,              \* what the last call returned
    content             \* history: what the file system has written

cacheVars == <<card, cacheEntries, accessCounter, reply, content>>

Sectors == 0 .. endOfPartition - 1
Pages == 1 .. numberOfPages
CACHE_FREE == endOfPartition + sectorsPerPage        \* above every sector, as UINT_MAX is

\* data holds the sectors of the page from `sector` on.
FreePage == [sector |-> CACHE_FREE, count |-> 0, last_access |-> 0, dirty |-> FALSE, data |-> << >>]

\* _FAT_cache_constructor
NewCache == [i \in Pages |-> FreePage]

Error == [ok |-> FALSE, read |-> << >>]
Ok(read) == [ok |-> TRUE, read |-> read]

CacheInit ==
    /\ \E v \in Values : card = [s \in Sectors |-> v]
    /\ cacheEntries = NewCache
    /\ accessCounter = 0
    /\ reply = Ok(<< >>)
    /\ content = card

-----------------------------------------------------------------------------
(* The card *)

InPage(e, s) == e.sector <= s /\ s < e.sector + e.count

\* sdio_WriteSectors: the card with the page's sectors.
Saved(c, e) == [s \in Sectors |-> IF InPage(e, s) THEN e.data[s - e.sector + 1] ELSE c[s]]

\* A write that fails may have reached any of the sectors.
HalfSaved(c, e) ==
    IF "write" \in Faults
    THEN {[s \in Sectors |-> IF s \in S THEN Saved(c, e)[s] ELSE c[s]] : S \in SUBSET {s \in Sectors : InPage(e, s)}}
    ELSE {}

-----------------------------------------------------------------------------
(* _FAT_cache_getPage *)

Hits(s) == {i \in Pages : InPage(cacheEntries[i], s)}
FreePages == {i \in Pages : cacheEntries[i].sector = CACHE_FREE}
First(S) == CHOOSE i \in S : \A j \in S : i <= j

\* The page to use: a free one, or the one whose last access is the oldest.
OldUsed ==
    IF FreePages # {} THEN First(FreePages)
    ELSE First({i \in Pages : \A j \in Pages : cacheEntries[i].last_access <= cacheEntries[j].last_access})

accessTime == (accessCounter + 1) % AccessLimit

\* Mutant: the page is used again before its sectors are written.
Evicted_Dropped(i) == card

\* The card after page i was written back.
Evicted(i) == IF cacheEntries[i].dirty THEN Saved(card, cacheEntries[i]) ELSE card

PageStart(s) == (s \div sectorsPerPage) * sectorsPerPage
PageEnd(s) ==
    IF PageStart(s) + sectorsPerPage > endOfPartition THEN endOfPartition ELSE PageStart(s) + sectorsPerPage

\* The page with the sectors around s.
LoadedPage(c, s) ==
    [sector |-> PageStart(s), count |-> PageEnd(s) - PageStart(s), last_access |-> accessTime, dirty |-> FALSE,
     data |-> [k \in 1 .. PageEnd(s) - PageStart(s) |-> c[PageStart(s) + k - 1]]]

(***************************************************************************)
(* The sector is in a page, or the oldest page is written back and filled. *)
(* Use is what the caller does with the page.  If the card fails to read,  *)
(* the page's buffer has been used but its sector number has not changed.  *)
(***************************************************************************)
GetPage(s, Use(_), result(_)) ==
    LET hit == First(Hits(s))
        old == OldUsed
        e == IF Hits(s) # {} THEN [cacheEntries[hit] EXCEPT !.last_access = accessTime]
             ELSE LoadedPage(Evicted(old), s)
    IN  \/ /\ card' = IF Hits(s) # {} THEN card ELSE Evicted(old)
           /\ cacheEntries' = [cacheEntries EXCEPT ![IF Hits(s) # {} THEN hit ELSE old] = Use(e)]
           /\ accessCounter' = accessTime
           /\ reply' = result(e)
        \/ /\ Hits(s) = {} /\ FreePages = {} /\ cacheEntries[old].dirty
           /\ card' \in HalfSaved(card, cacheEntries[old])
           /\ reply' = Error
           /\ UNCHANGED <<cacheEntries, accessCounter>>
        \/ /\ Hits(s) = {} /\ "read" \in Faults
           /\ card' = Evicted(old)
           /\ \E garbage \in [1 .. Len(cacheEntries[old].data) -> Values] :
                cacheEntries' = [cacheEntries EXCEPT ![old].data = garbage, ![old].dirty = FALSE]
           /\ reply' = Error
           /\ UNCHANGED accessCounter

-----------------------------------------------------------------------------
(* The calls *)

\* The part of a page's data for the sectors from .. to.
Part(e, from, to) == SubSeq(e.data, from - e.sector + 1, to - e.sector + 1)

\* _FAT_cache_readSectors, _FAT_cache_readPartialSector
ReadSectors(from, to) ==
    /\ GetPage(from, LAMBDA e : e, LAMBDA e : Ok(Part(e, from, to)))
    /\ UNCHANGED content

Stored(e, from, to, v) ==
    [e EXCEPT !.dirty = TRUE,
              !.data = [k \in DOMAIN @ |-> IF e.sector + k - 1 \in from .. to THEN v ELSE @[k]]]

\* _FAT_cache_writeSectors, _FAT_cache_writePartialSector, _FAT_cache_eraseWritePartialSector
WriteSectors(from, to, v) ==
    /\ GetPage(from, LAMBDA e : Stored(e, from, to, v), LAMBDA e : Ok(<< >>))
    /\ content' = IF reply'.ok THEN [s \in Sectors |-> IF s \in from .. to THEN v ELSE content[s]] ELSE content

\* The cards while the pages 1 .. n are written back.
FlushedTo(n) ==
    LET c[i \in 0 .. n] == IF i = 0 THEN card
                           ELSE IF cacheEntries[i].dirty THEN Saved(c[i - 1], cacheEntries[i]) ELSE c[i - 1]
    IN  c[n]

Cleaned(n) == [i \in Pages |-> IF i <= n THEN [cacheEntries[i] EXCEPT !.dirty = FALSE] ELSE cacheEntries[i]]

\* _FAT_cache_flush: the pages in order, up to the first that fails.
FlushPages ==
    \/ /\ card' = FlushedTo(numberOfPages)
       /\ cacheEntries' = Cleaned(numberOfPages)
       /\ reply' = Ok(<< >>)
       /\ UNCHANGED <<accessCounter, content>>
    \/ \E i \in Pages :
        /\ cacheEntries[i].dirty
        /\ card' \in HalfSaved(FlushedTo(i - 1), cacheEntries[i])
        /\ cacheEntries' = Cleaned(i - 1)
        /\ reply' = Error
        /\ UNCHANGED <<accessCounter, content>>

\* The console is switched off, and the card is mounted again.
PowerOff ==
    /\ cacheEntries' = NewCache
    /\ accessCounter' = 0
    /\ reply' = Ok(<< >>)
    /\ content' = card
    /\ UNCHANGED card

CacheNext ==
    \/ \E from, to \in Sectors :
        /\ from <= to /\ PageStart(from) = PageStart(to)
        /\ ReadSectors(from, to) \/ \E v \in Values : WriteSectors(from, to, v)
    \/ FlushPages
    \/ PowerOff

CacheSpec == CacheInit /\ [][CacheNext]_cacheVars

-----------------------------------------------------------------------------
(* Properties *)

\* Type invariant.
CacheTypeOK ==
    /\ card \in [Sectors -> Values]
    /\ accessCounter \in 0 .. AccessLimit - 1
    /\ \A i \in Pages :
        LET e == cacheEntries[i]
        IN  /\ e.sector \in {CACHE_FREE} \cup {PageStart(s) : s \in Sectors}
            /\ e.count \in 0 .. sectorsPerPage /\ e.dirty \in BOOLEAN
            /\ e.data \in [1 .. e.count -> Values]

AsDisk == INSTANCE Disk

(***************************************************************************)
(* Through hits, evictions, failing writes and a wrapping access counter,  *)
(* the cache is transparent: a read returns what was written last, a flush *)
(* that succeeds saves everything, and only what was written after it can  *)
(* be lost with the power.                                                 *)
(***************************************************************************)
Transparent == AsDisk!DiskSpec
=============================================================================
