------------------------------- MODULE FatDir -------------------------------
(***************************************************************************)
(* Directories of libfat (modules/libfat/directory.c and fatdir.c).  A     *)
(* directory is a chain of clusters, each an array of slots; a short name  *)
(* takes one slot, the alias entry, a long name some slots before it.      *)
(* Each call holds the partition's lock and is one step.                   *)
(*                                                                         *)
(* A name is its word, two names with one word differ in the case of       *)
(* letters only, and lfn, the number of slots its long form needs.  All    *)
(* names in LongNames shorten to the same stem of eight characters, so     *)
(* that the numeric tails of the aliases have to tell them apart.  A name  *)
(* with a blank ("a b") shortens to a stem of fewer characters, itself a   *)
(* short name ("AB").  That stem is not padded, and the tail is written    *)
(* behind its NUL until it has digits enough to reach back to it.          *)
(***************************************************************************)
EXTENDS Fat

CONSTANTS
    DirSlots, RootSlots,            \* slots of a cluster, of the root directory before FAT32
    MAX_NUMERIC_TAIL,
    ShortNames, MixedNames,         \* names in upper case, names that also have lower case
    LongNames, LongSlots,           \* longer names and the slots they need before the alias
    BlankNames,                     \* short names to which the same name with a blank is shortened
    FirstLongTail,                  \* the first numeric tail that reaches the end of such a stem
    TailEnds,                       \* whether the byte behind that tail, never written, is a NUL
    TailNames,                      \* short names that look like the alias of a long one
    DirNames,                       \* bound: the words of the directories that are made
    MaxChanges,                     \* bound: calls that change the disc
    Via,                            \* bound: how paths start
    DirClient                       \* what the client takes care of

ASSUME FatDirAssumption ==
    /\ DirSlots \in Nat /\ DirSlots >= 2 /\ RootSlots \in Nat \ {0}
    /\ MAX_NUMERIC_TAIL \in Nat /\ LongSlots \in Nat \ {0}
    /\ TailNames \subseteq 1 .. MAX_NUMERIC_TAIL
    /\ BlankNames \subseteq ShortNames /\ FirstLongTail \in Nat \ {0} /\ TailEnds \in BOOLEAN
    /\ DirNames \subseteq ShortNames \cup MixedNames
    /\ Via \subseteq {"root", "up", "sub"}
    /\ DirClient \subseteq {"gap", "closed", "room", "parents"}

VARIABLES
    fs,                 \* the partition p and the slots of its directories
    cwdCluster,
    handle,             \* one FILE_STRUCT
    dirState,           \* one DIR_STATE_STRUCT
    tree,               \* history: the files there should be
    honest,             \* history: the last call answered what the tree says
    due,                \* history: entries there since diropen that dirnext has not told
    told,               \* history: entries there since diropen that dirnext has told
    changes             \* the calls that changed the disc

dirVars == <<fs, cwdCluster, handle, dirState, tree, honest, due, told, changes>>

BLANK == -1             \* the second component of the word of a name with a blank
Short(w) == [word |-> w, lfn |-> 0]
DirectoryNames == {Short(<<n, 0>>) : n \in ShortNames} \cup {Short(<<"~", i>>) : i \in TailNames}
             \cup {[word |-> <<n, 0>>, lfn |-> 1] : n \in MixedNames}
             \cup {[word |-> <<n, 0>>, lfn |-> LongSlots] : n \in LongNames}
             \cup {[word |-> <<n, BLANK>>, lfn |-> 1] : n \in BlankNames}
Dot == <<".", 0>>
DotDot == <<"..", 0>>

FAT16_ROOT_DIR_CLUSTER == 0
rootDirCluster == IF fs.p.filesysType = "FS_FAT32" THEN CLUSTER_FIRST ELSE FAT16_ROOT_DIR_CLUSTER

LastSlot == [kind |-> "last"]
FreeSlot(slot) == [kind |-> "free", lfn |-> slot.kind = "lfn"]
Blank(n) == [i \in 0 .. n - 1 |-> LastSlot]
NoPosition == [cluster |-> CLUSTER_ERROR, slot |-> 0]
NoEntry == [found |-> FALSE]
\* More than the slots of a directory.
SlotCount == 1 + IF (lastCluster - 1) * DirSlots > RootSlots THEN (lastCluster - 1) * DirSlots ELSE RootSlots

SlotAt(f, pos) == f.slots[pos.cluster][pos.slot]
PutSlot(f, pos, slot) == [f EXCEPT !.slots[pos.cluster][pos.slot] = slot]

-----------------------------------------------------------------------------
(* Reading directories *)

\* _FAT_directory_incrementDirEntryPosition that does not extend the directory.
NextPosition(f, pos) ==
    IF pos.slot + 1 < (IF pos.cluster = FAT16_ROOT_DIR_CLUSTER THEN RootSlots ELSE DirSlots)
    THEN [pos EXCEPT !.slot = @ + 1]
    ELSE IF pos.cluster = FAT16_ROOT_DIR_CLUSTER \/ NextCluster(f.p, pos.cluster) = CLUSTER_EOF THEN NoPosition
    ELSE [cluster |-> NextCluster(f.p, pos.cluster), slot |-> 0]

\* The positions behind pos in its directory, and their slots.
Behind(f, pos) ==
    LET More(s) == IF s.next = NoPosition THEN s
                   ELSE [all |-> Append(s.all, [at |-> s.next, slot |-> SlotAt(f, s.next)]),
                         next |-> NextPosition(f, s.next)]
    IN  Iterate(More, [all |-> << >>, next |-> NextPosition(f, pos)], SlotCount).all

\* Mutant: a removed entry ends the listing.
IsEnd_Free(slot) == slot.kind \in {"last", "free"}

IsEnd(slot) == slot.kind = "last"

\* The last slot before slot i that begins a long name, or 0.
LongNameBefore(all, i) ==
    LET starts == {0} \cup {j \in 1 .. i - 1 : all[j].slot.kind = "lfn" /\ all[j].slot.end}
    IN  CHOOSE j \in starts : \A k \in starts : k <= j

(***************************************************************************)
(* The long name that begins at start counts for the alias in slot i if    *)
(* none of its slots has been removed and all have the alias' check sum.   *)
(***************************************************************************)
LongNameCounts(all, start, i) ==
    /\ start > 0
    /\ all[start].slot.sum = all[i].slot.alias
    /\ \A k \in start + 1 .. i - 1 :
        \/ all[k].slot.kind = "lfn" /\ all[k].slot.sum = all[start].slot.sum
        \/ all[k].slot.kind = "free" /\ ~all[k].slot.lfn

\* The entry whose alias is in slot i.
EntryIn(all, i) ==
    LET From(start, word) == [found |-> TRUE, end |-> all[i].at, data |-> all[i].slot,
                              start |-> all[start].at, word |-> word]
        Named(start) == IF LongNameCounts(all, start, i) THEN From(start, all[start].slot.word)
                        ELSE From(i, all[i].slot.alias)
    IN  Named(LongNameBefore(all, i))

EntriesIn(all) ==
    LET over == {i \in DOMAIN all : IsEnd(all[i].slot)}
        In(aliases) == [n \in DOMAIN aliases |-> EntryIn(all, aliases[n])]
    IN  In(SelectSeq([i \in 1 .. (IF over = {} THEN Len(all) ELSE Least(over) - 1) |-> i],
                     LAMBDA i : all[i].slot.kind = "alias"))

\* What repeated calls of _FAT_directory_getNextEntry find behind pos.
EntriesBehind(f, pos) == EntriesIn(Behind(f, pos))

FirstOf(entries) == IF entries = << >> THEN NoEntry ELSE entries[1]

GetNextEntry(f, pos) == FirstOf(EntriesBehind(f, pos))

\* Where _FAT_directory_getFirstEntry starts.
Before(cluster) ==
    [cluster |-> IF cluster = FAT16_ROOT_DIR_CLUSTER THEN rootDirCluster ELSE cluster, slot |-> -1]

GetFirstEntry(f, cluster) == GetNextEntry(f, Before(cluster))

Entries(f, cluster) == EntriesBehind(f, Before(cluster))

Called(entry, word) == word \in {entry.word, entry.data.alias}

\* _FAT_directory_entryExists
EntryExists(f, cluster, word) ==
    \E e \in {Entries(f, cluster)} : \E i \in DOMAIN e : Called(e[i], word)

\* _FAT_directory_getRootEntry
RootEntry ==
    LET at == [cluster |-> FAT16_ROOT_DIR_CLUSTER, slot |-> 0]
    IN  [found |-> TRUE, start |-> at, end |-> at, word |-> Dot,
         data |-> [kind |-> "alias", alias |-> Dot, isDir |-> TRUE,
                   cluster |-> rootDirCluster, size |-> 0]]

\* Mutant: the alias is not compared.
LookUp_LongOnly(f, cluster, word, goesOn) ==
    IF cluster = rootDirCluster /\ word \in {Dot, DotDot} THEN RootEntry
    ELSE FirstOf(SelectSeq(Entries(f, cluster), LAMBDA e : word = e.word /\ (goesOn => e.data.isDir)))

\* The first entry called word, which must be a directory if the path goes on.
LookUp(f, cluster, word, goesOn) ==
    IF cluster = rootDirCluster /\ word \in {Dot, DotDot} THEN RootEntry
    ELSE FirstOf(SelectSeq(Entries(f, cluster), LAMBDA e : Called(e, word) /\ (goesOn => e.data.isDir)))

\* A directory whose cluster is 0 is the root directory.
RootIfZero(cluster) == IF cluster = FAT16_ROOT_DIR_CLUSTER THEN rootDirCluster ELSE cluster

\* _FAT_directory_entryFromPath
EntryFromPath(f, path) ==
    LET Onto(s, entry) == [rest |-> Tail(s.rest), entry |-> entry,
                           cluster |-> RootIfZero(IF entry.found THEN entry.data.cluster ELSE 0)]
        Follow1(s) == IF s.rest = << >> \/ ~s.entry.found THEN s
                      ELSE Onto(s, LookUp(f, s.cluster, Head(s.rest), Len(s.rest) > 1))
        Last(entry) == IF entry.found /\ entry.data.isDir /\ entry.data.cluster = FAT16_ROOT_DIR_CLUSTER
                       THEN RootEntry ELSE entry
    IN  Last(Iterate(Follow1, [rest |-> path.words, entry |-> RootEntry,
                               cluster |-> IF path.root THEN rootDirCluster ELSE cwdCluster],
                     Len(path.words)).entry)

\* The cluster of the directory a new entry goes to, or CLUSTER_ERROR.
ParentCluster(path) ==
    LET Of(parent) == IF ~parent.found \/ ~parent.data.isDir THEN CLUSTER_ERROR ELSE parent.data.cluster
    IN  IF path.words = << >> /\ ~path.root THEN cwdCluster ELSE Of(EntryFromPath(fs, path))

-----------------------------------------------------------------------------
(* Changing directories *)

\* _FAT_directory_incrementDirEntryPosition that extends the directory by a cleared cluster.
Extended(f, pos) ==
    LET Grown(link) ==
            IF ~IsValidCluster(link.cluster) THEN [fs |-> [f EXCEPT !.p = link.p], pos |-> NoPosition]
            ELSE [fs |-> [p |-> link.p, slots |-> [f.slots EXCEPT ![link.cluster] = Blank(DirSlots)]],
                  pos |-> [cluster |-> link.cluster, slot |-> 0]]
        To(next) == IF next # NoPosition \/ pos.cluster = FAT16_ROOT_DIR_CLUSTER THEN [fs |-> f, pos |-> next]
                    ELSE Grown(LinkFreeCluster(f.p, pos.cluster))
    IN  To(NextPosition(f, pos))

\* What a slot means for the row of free slots that starts at s.start.
Counted(s, kind, size) ==
    CASE kind = "last" -> [s EXCEPT !.start = s.end, !.remain = @ - 1, !.atEnd = TRUE]
      [] kind = "free" -> [s EXCEPT !.start = IF s.remain = size THEN s.end ELSE @, !.remain = @ - 1]
      [] OTHER -> [s EXCEPT !.remain = size]

\* The search of _FAT_directory_findEntryGap for size free slots in a row, or for the end.
GapSearch(f, cluster, size) ==
    LET Onto(t, step) == [t EXCEPT !.fs = step.fs, !.valid = step.pos # NoPosition,
                                   !.end = IF step.pos # NoPosition THEN step.pos ELSE @]
        Unless(t) == IF t.atEnd \/ t.remain = 0 THEN t ELSE Onto(t, Extended(t.fs, t.end))
        Step(s) == IF ~s.valid \/ s.atEnd \/ s.remain = 0 THEN s
                   ELSE Unless(Counted(s, SlotAt(s.fs, s.end).kind, size))
        first == [cluster |-> cluster, slot |-> 0]
    IN  Iterate(Step, [fs |-> f, start |-> first, end |-> first, remain |-> size,
                       atEnd |-> FALSE, valid |-> TRUE, dataEnd |-> first], SlotCount)

\* At the end of the directory, the slots of the entry and one more are made blank.
BlankedGap(gap, size) ==
    LET At(s, step, pos) == [s EXCEPT !.dataEnd = s.end, !.end = pos, !.remain = @ - 1,
                                      !.valid = step.pos # NoPosition,
                                      !.fs = PutSlot(step.fs, pos, LastSlot)]
        Onto(s, step) == At(s, step, IF step.pos # NoPosition THEN step.pos ELSE s.end)
        Step(s) == IF s.remain = 0 \/ ~s.valid THEN s ELSE Onto(s, Extended(s.fs, s.end))
    IN  IF gap.valid /\ gap.atEnd
        THEN Iterate(Step, [gap EXCEPT !.remain = @ + 1], size + 1)
        ELSE [gap EXCEPT !.dataEnd = gap.end]

FindEntryGap(f, cluster, size) == BlankedGap(GapSearch(f, cluster, size), size)

\* The stem of name with the numeric tail i: it stays as it was while the tail is behind its end.
Tailed(name, i) ==
    IF name.word[2] # BLANK THEN <<"~", i>>
    ELSE <<name.word[1], IF i < FirstLongTail THEN 0 ELSE i>>

\* An entry answers to the stem with its tail.  What is never written may make the tail longer.
Taken(entries, name, i) ==
    /\ name.word[2] = BLANK /\ i >= FirstLongTail => TailEnds
    /\ \E k \in DOMAIN entries : Called(entries[k], Tailed(name, i))

\* Mutant: the first tail is taken without looking.
Aliases_First(f, cluster, name) ==
    IF name.lfn = 0 \/ name.word[1] \in MixedNames THEN {name.word} ELSE {Tailed(name, 1)}

\* What a name may be shortened to: a long one gets the first tail that is free.
Aliases(f, cluster, name) ==
    LET Free(entries) == {i \in 1 .. MAX_NUMERIC_TAIL : ~Taken(entries, name, i)}
        FirstTail(free) == IF free = {} THEN {} ELSE {Tailed(name, Least(free))}
    IN  IF name.lfn = 0 \/ name.word[1] \in MixedNames THEN {name.word}
        ELSE FirstTail(Free(Entries(f, cluster)))

\* The slots of an entry are written to a gap.
PutEntries(gap, name, alias, data) ==
    LET Slot(i) == IF i > 0
                   THEN [kind |-> "lfn", word |-> name.word, sum |-> alias, end |-> i = name.lfn]
                   ELSE [kind |-> "alias", alias |-> alias, isDir |-> data.isDir,
                         cluster |-> data.cluster, size |-> data.size]
        Write(s) == IF s.i < 0 \/ s.pos = NoPosition THEN s
                    ELSE [i |-> s.i - 1, pos |-> NextPosition(s.fs, s.pos),
                          fs |-> PutSlot(s.fs, s.pos, Slot(s.i))]
    IN  IF ~gap.valid THEN [ok |-> FALSE, fs |-> gap.fs]
        ELSE [ok |-> TRUE, alias |-> alias, end |-> gap.dataEnd,
              fs |-> Iterate(Write, [i |-> name.lfn, pos |-> gap.start, fs |-> gap.fs], name.lfn + 1).fs]

\* _FAT_directory_addEntry
AddEntry(f, cluster, name, data) ==
    LET As(aliases) ==
            IF EntryExists(f, cluster, name.word) \/ aliases = {} THEN [ok |-> FALSE, fs |-> f]
            ELSE PutEntries(FindEntryGap(f, cluster, name.lfn + 1), name, CHOOSE a \in aliases : TRUE, data)
    IN  As(Aliases(f, cluster, name))

\* Mutant: only the alias is marked as free.
RemoveEntry_AliasOnly(f, entry) ==
    [ok |-> TRUE, fs |-> PutSlot(f, entry.end, FreeSlot(entry.data))]

\* _FAT_directory_removeEntry.  It fails, with the slots free, when there is no slot behind them.
RemoveEntry(f, entry) ==
    LET Step(s) == IF s.over \/ s.pos = NoPosition THEN s
                   ELSE [pos |-> NextPosition(f, s.pos), over |-> s.pos = entry.end,
                         fs |-> PutSlot(s.fs, s.pos, FreeSlot(SlotAt(s.fs, s.pos)))]
        Result(done) == [ok |-> done.pos # NoPosition, fs |-> done.fs]
    IN  Result(Iterate(Step, [pos |-> entry.start, over |-> FALSE, fs |-> f], SlotCount))

-----------------------------------------------------------------------------
(***************************************************************************)
(* The tree as it should be: a set of entries, each in the directory whose *)
(* first cluster is dir.  Paths are resolved in it a second time.          *)
(***************************************************************************)

InTree(dir, word) == {e \in tree : e.dir = dir /\ word \in {e.word, e.alias}}

Resolved(dir, word) ==
    CASE word = DotDot -> IF dir = rootDirCluster THEN dir ELSE (CHOOSE e \in tree : e.isDir /\ e.cluster = dir).dir
      [] word \in {e.word : e \in {d \in InTree(dir, word) : d.isDir}} ->
            (CHOOSE e \in InTree(dir, word) : TRUE).cluster
      [] OTHER -> CLUSTER_ERROR

\* The directory that a path starts in.
TreeDir(path) ==
    LET start == IF path.root THEN rootDirCluster ELSE cwdCluster
    IN  IF path.words = << >> THEN start ELSE Resolved(start, path.words[1])

\* Paths of directories, and the ways to write the directory part of a path.
Places == [root : {TRUE}, words : {<< >>}]
     \cup [root : {FALSE}, words : {<<DotDot>>} \cup {<< <<n, 0>> >> : n \in DirNames}]
Here == [root |-> FALSE, words |-> << >>]
Paths == {Here} \cup {path \in Places :
                        \/ path.root /\ "root" \in Via
                        \/ path.words = <<DotDot>> /\ "up" \in Via
                        \/ path.words \notin {<< >>, <<DotDot>>} /\ "sub" \in Via}

Under(path, word) == [path EXCEPT !.words = Append(@, word)]

-----------------------------------------------------------------------------
(* What the client takes care of *)

\* There is no row of free slots before the end of a directory that is too short for a new entry.
GapKept(path, name) ==
    "gap" \in DirClient /\ name.lfn > 0 =>
        \A parent \in {ParentCluster(path)} \ {CLUSTER_ERROR} :
            \A gap \in {GapSearch(fs, parent, name.lfn + 1)} :
                gap.valid /\ gap.atEnd => gap.remain = name.lfn

\* A file that is open, or a directory that is read or worked in, is neither removed nor moved.
NotOpen(entry) ==
    "closed" \in DirClient /\ entry.found =>
        /\ handle.inUse => handle.end # entry.end
        /\ entry.data.isDir => entry.data.cluster # cwdCluster /\ ~dirState.inUse

\* A directory stays in the directory that its ".." names.
StaysUnder(entry, oldDir, newDir) ==
    "parents" \in DirClient /\ entry.found => (entry.data.isDir => oldDir = newDir)

-----------------------------------------------------------------------------
(* The calls *)

ClosedHandle == [inUse |-> FALSE]
NoState == [inUse |-> FALSE]

DirInit ==
    /\ \E type \in FilesysTypes :
        LET q == EmptyPartition(type)
            root == IF type = "FS_FAT32" THEN WriteFatEntry(q, CLUSTER_FIRST, CLUSTER_EOF) ELSE q
        IN  fs = [p |-> ReadFSinfo(root, NoFSinfo).p,
                  slots |-> [c \in {FAT16_ROOT_DIR_CLUSTER} \cup Clusters |->
                                Blank(IF c = FAT16_ROOT_DIR_CLUSTER THEN RootSlots ELSE DirSlots)]]
    /\ cwdCluster = rootDirCluster
    /\ handle = ClosedHandle /\ dirState = NoState
    /\ tree = {} /\ due = {} /\ told = {}
    /\ honest = TRUE /\ changes = 0

TreeEntry(dir, word, alias, isDir, cluster, size) ==
    [dir |-> dir, word |-> word, alias |-> alias, isDir |-> isDir, cluster |-> cluster, size |-> size]

\* A call that answers right changes the tree to t, one that fails leaves it alone.
Answered(reply, right, t) ==
    /\ honest' = (reply \in right)
    /\ tree' = IF reply = "ok" THEN t ELSE tree
    /\ due' = due \cap tree'       \* what is removed or renamed need not be told any more
    /\ told' = told \cap tree'
    /\ changes < MaxChanges
    /\ changes' = IF fs' = fs THEN changes ELSE changes + 1

MayLackSpace(dir) ==
    IF FreeClusterCount(fs.p) < 2 \/ dir = FAT16_ROOT_DIR_CLUSTER THEN {"ok", "ENOSPC"} ELSE {"ok"}

\* FAT_open for writing, which creates a file that is not there.
FAT_open(path, name) ==
    LET Opened(end, cluster, size, modified) ==
            [inUse |-> TRUE, end |-> end, startCluster |-> cluster, filesize |-> size,
             modified |-> modified, dir |-> TreeDir(path), word |-> name.word]
        Refused(reply, f) == [reply |-> reply, fs |-> f, handle |-> handle]
        Created(added) ==
            IF ~added.ok THEN Refused("ENOSPC", added.fs)
            ELSE [reply |-> "ok", fs |-> added.fs, alias |-> added.alias,
                  handle |-> Opened(added.end, CLUSTER_FREE, 0, TRUE)]
        CreatedIn(parent) ==
            IF parent = CLUSTER_ERROR THEN Refused("ENOTDIR", fs)
            ELSE Created(AddEntry(fs, parent, name, [isDir |-> FALSE, cluster |-> CLUSTER_FREE, size |-> 0]))
        OpenedAs(entry) ==
            IF ~entry.found THEN CreatedIn(ParentCluster(path))
            ELSE IF entry.data.isDir THEN Refused("EISDIR", fs)
            ELSE [reply |-> "ok", fs |-> fs, alias |-> entry.data.alias,
                  handle |-> Opened(entry.end, entry.data.cluster, entry.data.size, FALSE)]
    IN  OpenedAs(EntryFromPath(fs, Under(path, name.word)))

DirOpenFile(path, name) ==
    /\ ~handle.inUse
    /\ GapKept(path, name)
    /\ \E dir \in {TreeDir(path)}, r \in {FAT_open(path, name)} :
        /\ fs' = r.fs
        /\ handle' = r.handle
        /\ Answered(r.reply,
                    IF dir = CLUSTER_ERROR THEN {"ENOTDIR"}
                    ELSE IF InTree(dir, name.word) = {} THEN MayLackSpace(dir)
                    ELSE IF \E e \in InTree(dir, name.word) : e.isDir THEN {"EISDIR"} ELSE {"ok"},
                    IF InTree(dir, name.word) # {} THEN tree
                    ELSE tree \cup {TreeEntry(dir, name.word, r.alias, FALSE, CLUSTER_FREE, 0)})
    /\ UNCHANGED <<cwdCluster, dirState>>

\* A first write to the open file, which takes a cluster.
DirWriteFile ==
    /\ handle.inUse /\ handle.startCluster = CLUSTER_FREE
    /\ \E link \in {LinkFreeCluster(fs.p, CLUSTER_FREE)} :
        /\ IsValidCluster(link.cluster)
        /\ fs' = [p |-> link.p, slots |-> [fs.slots EXCEPT ![link.cluster] = Blank(DirSlots)]]
        /\ handle' = [handle EXCEPT !.startCluster = link.cluster, !.filesize = 1, !.modified = TRUE]
    /\ UNCHANGED <<cwdCluster, dirState, tree, honest, due, told, changes>>

\* _FAT_syncToDisc writes the cluster and the size over what is at the end of the entry.
Synchronized(slot, h) ==
    IF slot.kind = "alias" THEN [slot EXCEPT !.cluster = h.startCluster, !.size = h.filesize]
    ELSE IF slot.kind = "lfn" THEN [slot EXCEPT !.word = <<"garbled", 0>>] ELSE slot

DirCloseFile ==
    LET Now(e) == IF e.dir = handle.dir /\ handle.word \in {e.word, e.alias}
                  THEN [e EXCEPT !.cluster = handle.startCluster, !.size = handle.filesize] ELSE e
    IN  /\ handle.inUse
        /\ fs' = IF handle.modified
                 THEN PutSlot(fs, handle.end, Synchronized(SlotAt(fs, handle.end), handle)) ELSE fs
        /\ tree' = {Now(e) : e \in tree}
        /\ due' = {Now(e) : e \in due}
        /\ told' = {Now(e) : e \in told}
        /\ handle' = ClosedHandle
        /\ UNCHANGED <<cwdCluster, dirState, honest, changes>>

\* Mutant: the chain is kept.
Freed_Kept(cluster) == fs

\* A chain is freed.  What a free cluster holds is of no interest, it is blank when it is taken.
Freed(cluster) ==
    LET Now(q) == [p |-> q, slots |-> [c \in DOMAIN fs.slots |->
                      IF c \in Clusters /\ IsFree(q, c) THEN Blank(DirSlots) ELSE fs.slots[c]]]
    IN  Now(ClearLinks(fs.p, cluster))

\* FAT_unlink's look for entries other than "." and "..".
NonEmpty(entry) ==
    entry.data.isDir /\ \E all \in {Entries(fs, entry.data.cluster)} :
        \E i \in DOMAIN all : all[i].word \notin {Dot, DotDot}

FAT_unlink(path, word) ==
    LET Reply(removed) == [reply |-> IF removed.ok THEN "ok" ELSE "EIO", fs |-> removed.fs]
        Unlink(entry) ==
            IF ~entry.found THEN [reply |-> "ENOENT", fs |-> fs]
            ELSE IF NonEmpty(entry) THEN [reply |-> "EPERM", fs |-> fs]
            ELSE Reply(RemoveEntry(Freed(entry.data.cluster), entry))
    IN  Unlink(EntryFromPath(fs, Under(path, word)))

DirUnlink(path, word) ==
    /\ NotOpen(EntryFromPath(fs, Under(path, word)))
    /\ \E there \in {InTree(TreeDir(path), word)}, r \in {FAT_unlink(path, word)} :
        /\ fs' = r.fs
        /\ Answered(r.reply,
                    IF there = {} THEN {"ENOENT"}
                    ELSE IF \E e \in there, g \in tree : e.isDir /\ g.dir = e.cluster
                    THEN {"EPERM"} ELSE {"ok"},
                    tree \ there)
    /\ UNCHANGED <<cwdCluster, handle, dirState>>

\* FAT_rename of the entry old that the first path leads to.
FAT_rename(old, path, name) ==
    LET Refused(reply) == [reply |-> reply, fs |-> fs, alias |-> << >>]
        Reply(removed, alias) == [reply |-> IF removed.ok THEN "ok" ELSE "EIO", fs |-> removed.fs, alias |-> alias]
        Moved(added) ==
            IF ~added.ok THEN [reply |-> "ENOSPC", fs |-> added.fs, alias |-> << >>]
            ELSE Reply(RemoveEntry(added.fs, old), added.alias)
        MovedTo(parent) ==
            IF parent = CLUSTER_ERROR THEN Refused("ENOTDIR")
            ELSE Moved(AddEntry(fs, parent, name, old.data))
    IN  IF ~old.found THEN Refused("ENOENT")
        ELSE IF EntryFromPath(fs, Under(path, name.word)).found THEN Refused("EEXIST")
        ELSE MovedTo(ParentCluster(path))

DirRename(oldPath, oldWord) ==
    /\ \E old \in {EntryFromPath(fs, Under(oldPath, oldWord))}, there \in {InTree(TreeDir(oldPath), oldWord)} :
        /\ NotOpen(old)
        /\ \E path \in Paths, name \in DirectoryNames : \E dir \in {TreeDir(path)} :
            /\ StaysUnder(old, TreeDir(oldPath), dir)
            /\ old.found => GapKept(path, name)
            /\ \E r \in {FAT_rename(old, path, name)} :
                /\ fs' = r.fs
                /\ Answered(r.reply,
                            IF there = {} THEN {"ENOENT"}
                            ELSE IF InTree(dir, name.word) # {} THEN {"EEXIST"}
                            ELSE IF dir = CLUSTER_ERROR THEN {"ENOTDIR"} ELSE MayLackSpace(dir),
                            (tree \ there) \cup {[e EXCEPT !.dir = dir, !.word = name.word, !.alias = r.alias]
                                                    : e \in there})
    /\ UNCHANGED <<cwdCluster, handle, dirState>>

\* The first two entries of the directory new in parent.
DotEntries(new, parent) ==
    LET DotSlot(word, cluster) ==
            [kind |-> "alias", alias |-> word, isDir |-> TRUE, cluster |-> cluster, size |-> 0]
        up == IF parent = rootDirCluster THEN FAT16_ROOT_DIR_CLUSTER ELSE parent
    IN  [Blank(DirSlots) EXCEPT ![0] = DotSlot(Dot, new), ![1] = DotSlot(DotDot, up)]

FAT_mkdir(path, name) ==
    LET Refused(reply, f) == [reply |-> reply, fs |-> f]
        Made(parent, new, added) ==
            IF ~added.ok THEN Refused("ENOSPC", added.fs)
            ELSE [reply |-> "ok", alias |-> added.alias, cluster |-> new,
                  fs |-> [added.fs EXCEPT !.slots[new] = DotEntries(new, parent)]]
        With(parent, link) ==
            IF ~IsValidCluster(link.cluster) THEN Refused("ENOSPC", [fs EXCEPT !.p = link.p])
            ELSE Made(parent, link.cluster,
                      AddEntry([p |-> link.p, slots |-> [fs.slots EXCEPT ![link.cluster] = Blank(DirSlots)]],
                               parent, name, [isDir |-> TRUE, cluster |-> link.cluster, size |-> 0]))
        MadeIn(parent) ==
            IF parent = CLUSTER_ERROR THEN Refused("ENOTDIR", fs)
            ELSE With(parent, LinkFreeCluster(fs.p, CLUSTER_FREE))
    IN  IF EntryFromPath(fs, Under(path, name.word)).found THEN Refused("EEXIST", fs)
        ELSE MadeIn(ParentCluster(path))

DirMkdir(path, name) ==
    /\ name.word[1] \in DirNames
    /\ GapKept(path, name)
    /\ \E dir \in {TreeDir(path)}, r \in {FAT_mkdir(path, name)} :
        /\ "room" \in DirClient => r.reply # "ENOSPC"
        /\ fs' = r.fs
        /\ Answered(r.reply,
                    IF InTree(dir, name.word) # {} THEN {"EEXIST"}
                    ELSE IF dir = CLUSTER_ERROR THEN {"ENOTDIR"} ELSE MayLackSpace(dir),
                    tree \cup {TreeEntry(dir, name.word, r.alias, TRUE, r.cluster, 0)})
    /\ UNCHANGED <<cwdCluster, handle, dirState>>

FAT_chdir(path) ==
    /\ ~handle.inUse /\ ~dirState.inUse                        \* bound
    /\ \E entry \in {EntryFromPath(fs, path)} :
        LET ok == entry.found /\ entry.data.isDir
        IN  /\ honest' = (ok <=> TreeDir(path) # CLUSTER_ERROR)
            /\ cwdCluster' = IF ok THEN entry.data.cluster ELSE cwdCluster
    /\ UNCHANGED <<fs, handle, dirState, tree, due, told, changes>>

-----------------------------------------------------------------------------
(* Reading a directory: the entry that dirnext will tell is read one call ahead. *)

FAT_diropen(path) ==
    /\ ~dirState.inUse
    /\ ~handle.inUse                                               \* bound
    /\ \E entry \in {EntryFromPath(fs, path)} :
        /\ entry.found /\ entry.data.isDir
        /\ dirState' = [inUse |-> TRUE, startCluster |-> entry.data.cluster,
                        current |-> GetFirstEntry(fs, entry.data.cluster)]
        /\ due' = {e \in tree : e.dir = entry.data.cluster} /\ told' = {}
    /\ UNCHANGED <<fs, cwdCluster, handle, tree, honest, changes>>

FAT_dirnext ==
    /\ dirState.inUse /\ dirState.current.found
    /\ due' = {e \in due : dirState.current.word \notin {e.word, e.alias}}
    /\ told' = told \cup (due \ due')
    /\ dirState' = [dirState EXCEPT !.current = GetNextEntry(fs, @.end)]
    /\ UNCHANGED <<fs, cwdCluster, handle, tree, honest, changes>>

FAT_dirreset ==
    /\ dirState.inUse
    /\ dirState' = [dirState EXCEPT !.current = GetFirstEntry(fs, dirState.startCluster)]
    /\ due' = {e \in tree : e.dir = dirState.startCluster} /\ told' = {}
    /\ UNCHANGED <<fs, cwdCluster, handle, tree, honest, changes>>

FAT_dirclose ==
    /\ dirState.inUse
    /\ dirState' = NoState /\ due' = {} /\ told' = {}
    /\ UNCHANGED <<fs, cwdCluster, handle, tree, honest, changes>>

\* f_bfree of FAT_statvfs: FAT32 keeps a count.
FreeBlocks == IF fs.p.filesysType = "FS_FAT32" THEN fs.p.numberFreeCluster ELSE FreeClusterCount(fs.p)

DirNext ==
    \/ \E name \in DirectoryNames :
        \/ DirOpenFile(Here, name)
        \/ DirMkdir(Here, name)
        \/ DirUnlink(Here, name.word)
        \/ DirRename(Here, name.word)
    \/ \E path \in Places : FAT_chdir(path) \/ (path.root /\ FAT_diropen(path))
    \/ DirWriteFile
    \/ DirCloseFile
    \/ FAT_dirnext
    \/ FAT_dirreset
    \/ FAT_dirclose

DirSpec == DirInit /\ [][DirNext]_dirVars

-----------------------------------------------------------------------------
(* Properties *)

DirTypeOK ==
    /\ IsPartition(fs.p)
    /\ cwdCluster \in Clusters \cup {FAT16_ROOT_DIR_CLUSTER}
    /\ handle.inUse \in BOOLEAN /\ dirState.inUse \in BOOLEAN
    /\ IsFiniteSet(tree) /\ due \subseteq tree /\ told \subseteq tree \ due
    /\ honest \in BOOLEAN

\* What the slots of a directory say, without "." and "..", for an entry that is not open.
DirContents(dir) ==
    LET As(own) == [i \in DOMAIN own |-> TreeEntry(dir, own[i].word, own[i].data.alias, own[i].data.isDir,
                                                  own[i].data.cluster, own[i].data.size)]
    IN  As(SelectSeq(Entries(fs, dir), LAMBDA e : e.word \notin {Dot, DotDot}))

Directories == {rootDirCluster} \cup {e.cluster : e \in {d \in tree : d.isDir}}

(***************************************************************************)
(* Every directory holds each of its entries once, under its name and with *)
(* its first cluster and size, and nothing else, after every sequence of   *)
(* creating, removing and renaming in the slots that others have left.     *)
(***************************************************************************)
TreeStored ==
    \A dir \in Directories :
        \A stored \in {DirContents(dir)}, entries \in {{e \in tree : e.dir = dir}} :
            /\ {stored[i] : i \in DOMAIN stored} = entries
            /\ Len(stored) = Cardinality(entries)

\* No two entries of a directory answer to one name, be it a long name or a generated alias.
NamesDistinct ==
    \A e, g \in tree :
        e # g /\ e.dir = g.dir => {e.word, e.alias} \cap {g.word, g.alias} = {}

\* A call succeeds exactly when the tree lets it, and names the right reason if it does not, while
\* the disc has room and a numeric tail is left.
RepliesRight == honest

(***************************************************************************)
(* Every cluster is free or belongs to one chain: the root's, that of an   *)
(* entry or that of the open file, and FAT_statvfs tells the free ones.    *)
(***************************************************************************)
ChainsOwned ==
    LET heads == (Directories \cup {e.cluster : e \in tree}
                    \cup (IF handle.inUse THEN {handle.startCluster} ELSE {})) \ {CLUSTER_FREE}
        of(c) == LET chain == Chain(fs.p, c) IN {chain[i] : i \in DOMAIN chain}
    IN  /\ UNION {of(c) : c \in heads} = Clusters \ FreeClusters(fs.p)
        /\ \A c, d \in heads : c # d => of(c) \cap of(d) = {}
        /\ FreeBlocks = Cardinality(FreeClusters(fs.p))

(***************************************************************************)
(* Of the entries that were in the directory the whole time, whatever was  *)
(* created or removed meanwhile, dirnext has told every one once it has    *)
(* told all, and the entry it will tell next is none that it has told.     *)
(***************************************************************************)
ListingComplete ==
    /\ dirState.inUse /\ ~dirState.current.found => due = {}
    /\ dirState.inUse /\ dirState.current.found =>
        \A e \in told : dirState.current.word \notin {e.word, e.alias}
=============================================================================
