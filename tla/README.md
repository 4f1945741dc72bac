# A TLA+ model of Wii NetPlay (netslug)

netslug lets two Wii consoles play one local-multiplayer game over TCP. A channel (`src/src`, derived from BrainSlug)
loads the game from disc, links modules into it and connects the consoles; the module `src/modules/netslug_main` then
intercepts the game's controller, disc and retrace calls so that both consoles compute the same frames. Other modules of
the repository give a game a FAT file system on the SD card. This directory holds specifications of the parts whose
correctness depends on interleaving, ordering, bounds or formats, the TLC runs that check them and TLAPS proofs about
them. Paths below are relative to the repository root (`src/` here).

## 1. Inventory

| Component | Source | State | Operations | What makes it correct |
|---|---|---|---|---|
| Lock-step play | `modules/netslug_main/main.c` | `ctrlBuffer` (ring of control packets), `sendBuffer`, `frameCount`, the threads' positions | controller, send and recv thread, retrace handler, first `OSCreateThread` | both games read the same inputs at the same frame; nobody waits for ever |
| Synchronised disc reads | same | `IoctlBuffer` | `MyIOS_IoctlAsync`, `ourCallback`, `callback_sector` of a frame, retrace | a read is called back once, in the same frame on both consoles |
| Packets on the stream | same | how much of a packet is through | `reliable_send`, `reliable_recv` | whole packets, in order |
| Wiimote interface | same | callbacks, formats | `MyWPAD*` | games see connect and extension changes at the same frame |
| Random numbers, dances | same | table of 64 generators | `ActualRNG`, `SMNDance_*` | equal numbers on both consoles |
| Network layer | `network_wii.c` (twice) | `net_ip_top_fd`, open devices | start-up, wrappers of IOS, conversion of errors | no device is left open, errors are told |
| Connection | `src/main.c` | sockets | `ConnectHOST`, `ConnectGUEST` | a game starts with its end of the connection |
| Event | `src/library/event.h` | flag and semaphore | `Event_Init/Wait/Trigger` | a latch |
| Channel start-up | `src/main.c` | program counter | `main` | gets to the launch or the exit; launches only a complete game |
| Apploader | `src/apploader/apploader.c` | game sections, entry point | `Aploader_Main` | leaves room for the modules |
| Module loader | `src/modules/module.c` | lists of modules, entries, relocations; `space` | `Module_*` | replacements chain, modules fit, relocated words are right |
| Symbol search | `src/search/*.c` | symbols, state machine | `Search_*`, `Symbol_*`, `FSM_*` | every place of a symbol is found, and no other |
| Settings | `src/settings/settings.c` | parser state | `settings_*` | config.ini is obeyed |
| libelf | `src/libelf/*.c` | - | `_libelf_xlate` and the converters | data survive the translation in place and back |
| libfat: files | `modules/libfat/fatfile.c`, `file_allocation_table.c`, `partition.c` | open files, table, free count | `FAT_open/read/write/seek/ftruncate/...` | a file holds what was written; clusters are owned once |
| libfat: directories | `directory.c`, `fatdir.c` | slots, current directory | `FAT_unlink/rename/mkdir/chdir/diropen/...` | the slots are the tree that the calls built |
| libfat: cache | `cache.c` | pages | read, write, evict, flush | the file system sees a card |
| SD card | `modules/libfat-sd/main.c`, `modules/libsd/wiisd.c` | `has_init`, mutex, the driver's state | `SD_Mount`, `sdio_Startup` | mounted once, no handle lost |
| Disc interface | `src/di/di.c` | file handle | wrappers of IOS | - |
| Spinner, gecko, consoles, https | `modules/*` | drawing and serial output | hooks | - |

**Interaction.** In the channel four threads run (main, apploader, module loader, search). They share the SD card, the
list of modules with its size, and error flags, and meet only at six events. The module loader reads files through libelf;
the search gives it the addresses of the game's functions. Main connects the consoles before it launches the game and
hands the socket over through symbols of the module. In the game, each console has three network threads, the game's
threads and the retrace interrupt; they share the ring, `sendBuffer` and `IoctlBuffer` under disabled interrupts and sleep
on queues that the retrace wakes. The guest sends readings and disc reads in one TCP stream; the host sends one control
packet for each frame in the other direction. A module that wants files calls `SD_Mount`, which starts the card's driver
and constructs a partition; libfat's calls take the partition's lock and reach the card through the cache.

**What is hard.** The interleavings of eight actors around a five-entry ring (`HostWaitsForFuture`, `LockStep`); waiting
that only a later frame ends (`Progress`); the same disc read at different times on two consoles (`CompletedOnce`,
`CalledBack`); packets cut up by the network (`Framed`); waits in a circle and error exits of the loader (`StartupEnds`); the
order of replacements (`CalledInOrder`); two pieces of code that compute the same size (`WordAlignedFits`, `Fits`); relocations that are
applied late (`RelocationsRight`); a product of automata (`SearchExact`); conversions in place (`MembersRight`); two
notions of a file's position (`Contents`, `ReadsRight`); power loss between two pages (`Transparent`); aliases of long names
(`NamesDistinct`). `PROJECT.json` lists each hazard at its line.

## 2. Modules

| Module | Models | Composed with |
|---|---|---|
| `NetPlay` (`MCNetPlay`, `NetPlay_proofs`) | lock-step play | |
| `DiscSync` (`DiscSync_proofs`) | disc reads, on top of an abstraction of `NetPlay`'s frames | |
| `Connect` | the network's start, the connection, and packets on the stream | gives `NetPlay` its streams |
| `Settings` | reading config.ini | the step `LoadSettings` of `Loader` |
| `Channel` (`MCChannel`, `Channel_proofs`) | `Settings` and `Connect` side by side | |
| `Latch` | what an event promises | |
| `Event` (`Event_proofs`) | event.h over libogc's semaphore | implements `Latch` |
| `Loader` (`Loader_proofs`) | the channel's four threads | uses events as latches |
| `Startup` | `Loader` and `Event` side by side | |
| `ElfXlate` | libelf's translation of data | what `Reloc` reads |
| `Search` | symbol files, state machines, the run over the game | the steps of `Search_Main` in `Loader` |
| `Layout` | estimated and used memory of modules | `module_list_size` of `Loader` |
| `Reloc` | module files, lists, sections' places, relocations | `Module_LoadElf`, `Module_ListLink` of `Loader` |
| `Link` | exports, replacements and relocations between modules | the step `ModuleLinkFinal` of `Loader` |
| `Linking` (`MCLinking`; `Linking_proofs` about `Layout`, `Reloc` and `Link`) | the five above side by side | |
| `Fat` | the file allocation table, its entries byte by byte | used by `FatFile` and `FatDir` |
| `FatFile` (`FatFile_proofs`) | files | assumes the cache transparent |
| `FatDir` | directories | assumes the cache transparent |
| `Disk` | what the cache promises | |
| `FatCache` | the sector cache | implements `Disk` |
| `SdMount` | mounting and the driver's start | |
| `FatDisk` (`FatDisk_proofs` about `FatCache` and `SdMount`) | `FatCache`, `SdMount` and `FatDir` side by side | |

`Startup`, `Channel`, `Linking` and `FatDisk` join components that share no state in one specification: the variable `part` says which
one a behaviour belongs to, and the others rest in an initial state. Nothing is multiplied; the states of the joined
specification are those of its parts.

### NetPlay
`ctrlBuffer[n]` is console n's ring, one record for each slot with the fields of `struct ctrlPacket` that control the
protocol; the five arrays of readings (format, status, extension, inputs, gravity) are one field `inputs`. `sendBuffer` is
the guest's FIFO of packets with `sent = 1`. `toGuest` and `toHost` are the TCP streams, of whole packets in order, which
`Connect` justifies. `nextInput`, `nextFrameToSend` and `recvCount` are the threads' local counters. Each action is one
iteration of a thread, from its wait to its next wait; a wait loop and what follows it are one step because nothing undoes
the awaited condition. Sending on the host is four steps because the packet is read from the live entry with interrupts
enabled (line 819). The wiimotes 2 and 3, which are always disconnected, the random seed and the dance bytes ride along
with a packet and are left out.

### DiscSync
Frames are relative: `frames[n]` holds the `callback_sector` of the frames console n has and has not played, at most
`BUFFER_SIZE - 1`, which is what the ring allows (proved for NetPlay as `BoundedSkew`). A read has the number that the
code computes from the file and its access count, the same on both consoles. `Refused` reads fail on both, the case in
which the code says that "all is well". Interception that is switched off (the first 40 reads, other devices) passes the
call through and is left out.

### Connect
A program counter for each console goes through `Mynet_init`, `ConnectHOST` or `ConnectGUEST` and the game. IOS and the
network are external: every call may fail, a transfer may be of a part, the connection may break once. Errors are
converted as `_net_convert_error` does. In the game the bytes of packets are numbered, so that a byte at a wrong place is
seen; `SendPart` and `RecvPart` are turns of the loops of `reliable_send` and `reliable_recv`, `SendFails` and `RecvFails`
their error returns, after which the threads repeat the whole packet. `torn` records that a part was lost that way.

### Settings
One action for each class of character. `line` is a history variable. Names are one character, an address has two octets
in the run, and an int goes from `-IntHalf` to `IntHalf - 1`, 16 bits in the run; `ParseInt` and `ParseIp` are the
conversions with their edge cases (a leading 0 is octal and a lone "0" is refused; text after a dot behind the last octet is
ignored and shifts the address). The loops over the text are recursive functions: `Number` over digits, and `Octets`, which
takes an address one character at a time (`OctetStep`) as the two nested loops of the code do.

### Event and Latch
One step for each access to the flag or the semaphore. `LWP_SemWait` and `LWP_SemPost` belong to libogc: a FIFO
of blocked threads, a count with limit 1, and a post that hands over directly. `Event_Reset` and `Event_Destroy` have no caller.

### Loader
Each thread is a program counter; the labels are the places where it can block or touch shared state. Whether a file is a
module, its size, whether a link step or the automaton's construction fails and whether the game has an entry point are
choices. `Reading` says where a thread uses the SD card.

### ElfXlate
Memory is a function from addresses to bytes. Types are lists of members with widths; the offsets of a structure in memory
follow from the widths by the C rules of alignment, those in a file do not have gaps. Each pair of converters `X_tof` and
`X_tom` is a list of fields (`ADDR32` ... `XWORDS`) that `tof` and `tom` go over, upwards or downwards as the code does, so
that a translation in place overwrites what it would in memory. Versions, notes and GNU hashes are converted by their own
operators, which follow the offsets they find.

### Search
A symbol is a list of bytes of two nibbles, each a value or unknown. `FSM_Create` builds a machine level by level with a
fallback for each node, `FSM_Merge` the product, with epsilon nodes that report a symbol; `RunByte` is one byte of the game.
A nibble has `Nibbles` values where the code has 16. An element of a symbol file may have no name and is skipped; one that is
malformed is in the list of symbols when the parser gives it up. An assertion of `FSM_Create` stops the program at such a
symbol and at one without data (`AbortBuild`). What the memory of a malformed symbol happens to hold, and a relocation's
mask that reaches behind the data of its symbol (`symbol.c:283-290`), are not modelled.

### Layout
Two passes over the same sections, as in the code: `Estimate` (`Module_LoadElf`) and `Place` (`Module_LinkModuleElf`),
then the stubs. Memory is counted downwards from 0x81800000, which is aligned.

### Reloc
Files are records with what `Module_Load` and `Module_LoadElf` look at; sections are one word of `2 * Half` bits. Each kind of relocation is
a pair of what it computes and where the result goes, which is how the two switches of `Module_ElfLinkOne` are built. The
list of entries has an address that a growing allocation may change (`Allocated`); relocations of undefined symbols are
queued with the address their section has at that time. An allocation that never ends is the stage "hung".

### Link
Code is a set of places with a first instruction and what is behind it, which is all that the stubs of
`Module_ListLinkFinalReplaceFunction` change; the three shapes of stub (`bc`, `b`, other) preserve both and are one
action. The names of a module's entries are processed in any order.

### Fat, FatFile
A partition is a record with its type, the bytes of its table, the first free cluster and the count of free ones. FAT12
entries share bytes, so a write of one entry must keep a nibble of its neighbour. A call of libfat holds the partition's lock and is one action; the
stages of `FAT_read` and `FAT_write` (to the end of the sector, to the end of the cluster, whole clusters, whole sectors,
the rest) are operators on a record of what remains. `content` is the history of what was written. Remounting reads the
information sector, which the code trusts. `EntriesFit` says when the entries of a table can tell its clusters from the
marks for the end of a chain; the code sees to it for FAT12 and FAT16 by how it chooses the type (`partition.c:256`), and
takes it for granted for FAT32.

### FatDir
Directories are chains of clusters of slots. A name is a word and the number of slots of its long form; all long names
shorten to one stem of eight characters, so that the numeric tails have to tell them apart. A name of `BlankNames` with a blank in
it ("a b") shortens to a stem of n < 8 characters without an extension, itself a name ("AB"). The code does not pad this stem: the tail
is written behind its NUL and changes nothing (`Tailed`) until it has digits enough to reach back to it, at
`FirstLongTail`, in the code `10^(6 - n)`; up to there the stem itself is taken. As the last tail is 999999, a name of one
character or more gets an alias in the end, after as many look-ups. `tree` is the history of what the calls built; `due` and `told` are the
entries that a listing has before it and behind it.

### FatCache and Disk
A page is a row of sectors with a dirty flag and a time of last use; a call for several pages is a sequence of calls for
one page. The card may fail to write after some sectors, and power may go at any time, which brings back what is on the
card. `Disk` says what a file system may rely on.

### SdMount
A stack of calls for each thread, since a module that is called while the card is mounted may call `SD_Mount` again; the
mutex is recursive. `sdio_Startup` is one step for each request to IOS, all of which may fail. The error of a failed
GETSTATUS is taken for a status (`wiisd.c:206`): an odd one has the bits of an initialized card of high capacity. The history
`misread` says that this happened, and `KindTold` which kind of card the driver then believes in.

## 3. Runs

| Run | Shows | Bounds |
|---|---|---|
| `netplay` | `LockStep`, `BoundedSkew`, `HostWaitsForFuture`, `CurrentFrameStable`, and `Progress` under fairness | the code's ring of 5, 10 frames: two turns of the ring, each slot is used for frames without and with readings |
| `netplay_begins` | *violated:* the game may hang at the start | 7 frames |
| `disc_sync` | `UnknownCallbackImpossible`, `CompletedOnce`, and `ReadsComplete` under fairness | 3 reads, the second refused, up to 2 outstanding, 2 buffer entries, so entries are used again and the buffer is full at times |
| `disc_sync_lost` | *violated:* two reads ready for one frame, one is lost | 2 reads |
| `startup` | threads: `LaunchReady`, `SizeAgreed`, `UnmountQuiet`, and `StartupEnds` under fairness | 2 modules of 2 sizes, 2 sections |
| | events: `NoLostWakeup`, and `IsLatch` under fairness | 4 waiters, 2 triggers |
| `linking` | libelf: `MembersRight`, `FileGivenBack` | every type in both classes and byte orders, up to 3 objects, in place and elsewhere |
| | search: `SearchExact` | 2 symbols with 4 bytes together, 4 bytes of the game, nibbles of 2 values: a symbol is a prefix of, in the middle of, or equal to the other |
| | layout: `WordAlignedFits`: what is placed stays in the memory kept free, and below its end if a stub is shorter than its estimate | 2 modules of 3 sections |
| | relocation: `RelocationsRight`, `EntriesDelimited` | 2 files, words of 8 bits, every kind of relocation and of symbol, lists that grow |
| | link: `CalledInOrder`, `ErrorJustified` | 3 modules, one name: names do not influence each other except by an error. `ErrorJustified`: linking fails only when a function is unavailable |
| `layout_fits` | *violated:* the assertion of `Module_Main` | 1 module of 2 sections |
| `link_skipped` | *violated:* replacements of a function that is in no symbol file are skipped (`MissingSkipped`) | 2 modules, one name |
| `channel` | settings: `AddressHonoured`, `OnlyAssignments` | lines of 6 characters, any number of lines, a buffer of 4 so that it overflows |
| | connection: `StartedConnected`, `Framed` | ints of 2 bytes and packets of 3, so that there are parts of different lengths; 2 packets each way, 2 failures |
| `settings_port` | *violated:* ports are refused | lines of 5 characters |
| `fat_file` | `Contents`, `ReadsRight`, `ClustersAccounted`, `ChainsSeparate` | 4 clusters of 2 sectors of 2 bytes, up to 3 of them taken by other files, so chains have gaps and the disc is full; lengths below a cluster and above three; FAT12 and FAT32 |
| `fat_disk` | cache: `Transparent` (implements `Disk`) | 5 sectors in pages of 2 (the last one is cut off), 2 pages, so pages are evicted |
| | mounting: `MountedOnce`, `DriverConsistent` | 2 threads with 2 nested calls |
| | directories: `TreeStored`, `NamesDistinct`, `RepliesRight`, `ChainsOwned`, `ListingComplete` | 3 changes, 4 slots a cluster, 5 in a root before FAT32: directories are extended and full; a short, a mixed-case and a long name, the short one with a blank, and one that looks like an alias; 3 numeric tails, as many as there can be names in the way |

**What the clients are assumed to do.** Some properties hold only for callers that keep a discipline; it is a constant of
the module, so that the case without it can be run. `Client` of FatFile: "reread" (a file that was read to its end at the end of
a cluster and has grown since is not read on without a seek; without it `ReadsRight` fails), "position" (a file is not
truncated or expanded with its position at or behind the new end, or behind the old one) and "space" (no call needs more
clusters than are free); without these `Contents` fails. `ChainsSeparate` needs none of them: a careless client spoils its
own file only. `DirClient` of FatDir: "closed" (an open file or a directory in use is not removed) and "room" (there
is a slot for what is made); without them `ChainsOwned` fails: `FAT_mkdir` does not give back the cluster of a directory whose
entry it could not add (`fatdir.c:382`). "gap" excludes a row of free slots at the end of a directory that is too short, and "parents" a
directory that is moved, since `FAT_rename` does not change its "..". `TailEnds` says that the byte behind a tail that has replaced the
NUL of an unpadded stem is 0. The code never writes this byte; with another one the alias that is looked up is longer than the one
that is stored, is therefore always free, and two such names get one alias, against `NamesDistinct`. A stem that is not padded because
its extension is short, and a name that shortens to nothing, are left out for the same reason. `Faults` of FatCache has failing writes only: a page
whose reading failed keeps the number of the sectors it held before (`cache.c:145`), so with failing reads `Transparent` fails. `Following` is
what the table's bytes behind the last entry hold: after a failure the search for a free cluster begins there
(`file_allocation_table.c:236`), and takes a cluster that does not exist if they are 0.

`UnmountQuiet` states what does hold: after a failed link the module loader gives up without waiting for the search, and
main may unmount the card while the search reads it. `Framed` holds as long as no call fails within a packet; after such
a failure the repeated packet follows its own beginning. `RelocationsRight` holds as long as the list of entries does not
grow behind a queued relocation, for symbols in the table, and not for `R_PPC_SECTOFF`, for which the code subtracts the
offset of the place and not of the symbol (`module.c:1063`).

`WordAlignedFits` is about sections aligned to words at most. That the memory used does not reach below the memory kept free is what the
game's safety needs; the assertion at `module.c:170` is strict. Sections and stubs that fill the memory exactly would trip it and harm
nothing; if any stub is shorter than the twelve bytes estimated for it, the strict bound holds as well and is part of the
property. `Fits` is the assertion as it stands, for all alignments. `ErrorJustified` excludes (`ProvidedTwice`) a function in no
symbol file that is replaced by two modules, or by one and exported by another: then the code fails for no reason that the
documents name, which `link_skipped` shows. `DriverConsistent` says that a mounted card is addressed by the kind of
blocks that the driver was told; when a failed GETSTATUS told it, this is high capacity whatever the card is. `RepliesRight` holds
while a numeric tail is left.

Deadlock checking is off where the model stops by design: at a frame bound (NetPlay), when all calls have returned
(Event, SdMount), at the launch or the exit (Loader), both joined in Startup, at the end of linking, of the file or of the packets, and at the
bound on changes (FatDir). `DiscSync` has it on: frames go on for ever.

**Fairness.** NetPlay and DiscSync: weak fairness of each thread, because every sleeping thread is woken by each retrace
(`WAKEUP`) or by the thread that frees what it waits for, of the retrace, which keeps firing while a game is stalled, and
of the disc and TCP. Event: a thread that has begun a call and is not blocked goes on. Loader: the threads run, a disc is
inserted, the user presses a button, and a directory has an end: the scan step that leaves the directory has strong
fairness because a scan is interrupted by waits for the disc. Startup has the fairness of the part that a behaviour is of. The other modules have safety properties only.

## 4. Proofs

Each `_proofs` module states an inductive invariant as a conjunction of named parts, has one lemma for each action that
shows that the action keeps it, and derives the properties from it. The constants are arbitrary: the assumptions used are
the named `ASSUME`s of the modules, which bound nothing from above. TLC has checked each invariant on small instances first.
`Channel_proofs`, `FatDisk_proofs` and `Linking_proofs` are each about two or three modules that share no state.

| Module | Theorems | Assumptions |
|---|---|---|
| `NetPlay_proofs` | `TypeCorrect`, `LockStepTheorem`, `SkewTheorem`, `StableTheorem`, `WaitsTheorem` (`HostWaitsForFuture`) | `BUFFER_SIZE >= 3`: with fewer entries no console could take a reading for a frame in time |
| `DiscSync_proofs` | `DiscInvariant`, `DiscUnknownCallbackImpossible`, `DiscCompletedOnce` | `BUFFER_SIZE >= 3`, `IOCTL_BUFFER_SIZE >= 1`, any reads and refusals |
| `Event_proofs` | `EventTypeCorrect`, `WakeupTheorem`, `LatchTheorem` | any disjoint sets of threads |
| `Loader_proofs` | `LoaderSizeAgreed`, `LoaderUnmountQuiet`, `LoaderLaunchReady` | sizes are natural numbers |
| `Channel_proofs` | `ConnectInvariant`, `ConnectStartedConnected`, `ConnectFramed` | ints and packets are not empty, IOS errors are negative |
| | `SettingsTypeTheorem` (`SettingsTypeOK`), `OnlyAssignmentsTheorem`, `AddressHonouredTheorem` | the buffer, an address and an int are not empty; any characters and length of lines |
| | `ChannelParts`: `ChannelSpec` implies the specifications of both | |
| `Linking_proofs` | `LayoutFitsTheorem` (`WordAlignedFits`) | sizes are natural numbers, alignments positive ones |
| | `EntriesDelimitedTheorem`, `RelocationsRightTheorem` | half a word has two bits or more and an opcode at most half a word; files as `ModuleFiles` describes; the memory for modules ends at a word |
| | `LinkInvariant`, `LinkCalledInOrder`, `LinkErrorJustified` | a number of modules |
| `FatDisk_proofs` | `SdMountedOnce`, `SdDriverConsistent` | at least one call and one try |
| | `CacheInvariant`, `CacheTransparent` (refinement of `Disk`) | at least two pages; `"read" \notin Faults` is a hypothesis of both theorems |
| `FatFile_proofs` | `EntryWritten`, `ChainsSeparateTheorem` | `EntriesFit` is a hypothesis of both; any files, sizes, calls and clients |

**NetPlay.** `LockStep` is not inductive: it looks at one entry, but whether that entry is right depends on packets in flight. The
inductive invariant therefore has, for each console, that every entry of the ring belongs to a frame of its slot, that
every reading that is marked as present is the one taken for that frame, that the readings and packets in `sendBuffer` and
in both streams carry consecutive frame numbers between the counters of their sender and receiver, and how the counters
bound each other. Frame `BUFFER_SIZE` at the guest is treated separately, since
`netplay_begins` shows that its entry can be overwritten; the theorems hold nevertheless, because such a game does not
get past that frame. For `WaitsTheorem` a second invariant, `Future`, says that the host's ring is the window of the next
`BUFFER_SIZE` frames (`Window`), that the guest's readings reach the host in order from the one that is due (`InOrder`),
that a reading is filed only once it was due (`RingFiled`), and that the host plays no frame before the readings for it
(`Ahead`). An entry whose frame has gone by would then have been played without a reading.

**DiscSync.** `UnknownCallbackImpossible` speaks of one frame on one console; why it holds lies in the host's table when
the frame was made. `DiscInv` follows a read through both tables, both queues and both games: a read that a game waits for
has one entry (`Held`, `Alone`), the host's entry tells the truth about the guest (`Entries`), a guest's read on its way
is news to the host (`News`), and a sector in a coming frame is of a read that both games have issued, that the host has
marked as sent, and that comes once (`Awaited`). That a read may be marked and not sent at all (`disc_sync_lost`) does not
disturb this: `Sent` is marked, not told.

**Event.** The invariant says that a blocked thread is queued once, that a thread is only
released after a trigger began, and that once a post has been made the permission to run is never lost: it is in the count
or with a released thread. `LatchTheorem` is the safety part of the refinement of `Latch`.

**Loader.** An event that is triggered stays triggered, so the invariant says for each event where the thread that
triggers it has got to (`Announced`), and for each place behind a wait what was waited for (`PlacedLate`,
`LinkedOrFailed`, `MainWaited`). The last two have the error exits, on which a thread announces completion early.

**Connect.** `ConnectInv` has, up to the game, who has asked and who has answered and which bytes of it are on their way
(`Handshake`), and from then on an equation between the bytes sent, received and on their way together with the place of
each byte in the stream (`Carried`); the bytes of the handshake may still be in front of the first packet. `Framed` needs
that the parts that a receiver has put together are a beginning of its next packet (`Assembled`).

**Link.** `CalledInOrder` speaks of the end. `LinkInv` says what is true in between: of the replacements that are done,
each branches to the next, the code behind the last one is the game's, the symbol refers to it (`Chains`), and the modules that
are linked are bound to the last replacement up to their own (`Bounds`), which a later replacement extends and does not change.
For `ErrorJustified` it has who provides an added symbol (`Symbols`) and that a function that was replaced is known from then
on (`Replaced`), so that what is not found was never made up; when no function is provided twice, a replacement meets no
symbol that a module added.

**SdMount.** A thread has at most two calls, the inner one in front of the mutex or just behind it (`Stacks`); the
mutex counts the calls of its owner that are past the lock (`Held`); and at each place of `sdio_Startup` it is known which
of the handle and the flags are set (`Driver`), and from which status the kind of the card comes.

**FatCache.** Every sector is in at most one page (`Alone`), a page shows what was written (`View`), and what the card
lacks is in a dirty page (`Backed`). Pages are aligned, so a page that is loaded for a sector overlaps no other one; that is
where `Multiples` and `PageFacts` are needed. Every step is then a step of `Disk`. `FlushedTo`, a recursive function, is shown to be the
card with all dirty pages up to n, by looking at the least n for which it would not be. When a read of the card fails,
the theorems do not hold (section 3), so this is a hypothesis.

**FatFile.** `EntryWritten` is about bytes: in a table of 12, 16 or 32 bits for each entry, what is written is what is read, and
no other entry changes, although two FAT12 entries share a byte. From there on the table is a function from clusters to
what they link to (`Links`). `ChainsInv` says that the links keep chains apart (`Sound`): what is linked to is in use, linked to once, and not
where a file or another chain starts; that files start with different clusters (`Different`), and what an open file's
structure and its directory entry know of each other (`EntryKnown`), without which a file that is closed could go on with a
start that was freed. While a chain is freed cluster by cluster, or its tail before its new end is marked, one cluster may
link to a free one; `Apart` has that cluster as a parameter. Cutting (`CutApart`), ending (`EndApart`) and extending
(`LinkedApart`) a chain are facts about such functions, and every stage of a write or an expansion is a number of links to free clusters
(`LinkKeeps`). The loops are recursive functions over the number of turns; that each turn keeps the chains apart is shown by
looking at the first one that would not. After a failed allocation the search begins behind the last cluster and may find
the entry there to be free; `Apart` allows a link to this cluster that does not exist, from which no chain goes on.

**Settings.** Both properties of the reader compare what it stores with the whole line, while the reader has only a buffer,
a flag and a pointer; the invariants say what these know of the line. `WrittenInv`: in text, no character so far is "#";
there is a place from which the buffer was collected (`Begins`), the character there is the "=" that selected the setting
and behind its name (`Selected`), and the buffer is the text from there without the blanks around it (`Collected`), or
agrees with it up to a first blank within. The last is the trap: the flag for a blank stays set, so that text and buffer
differ behind that blank, and `OnlyAssignments` only holds because at a blank each conversion refuses the text or has seen
all that it looks at (`SameValue`). `AddressInv` goes the other way: whenever the line is a beginning of `name = address`
in a known category, the reader waits for the rest, with exactly these characters in the buffer (`NoText`, `NameRead`,
`AddressRead`); that these fit is a hypothesis of the property, and a buffer that an address fits in has room for the name too,
since an empty text is no address. An action of the reader changes a line by one character, so `AddressReads` does the cases once for all
characters. What the conversions compute is not unfolded; that they read a text up to its first blank in the same way is
shown by looking at the least place at which two readings would differ.

**Layout.** The estimate and the placing are sums over the same sections, in words (`ModulesWords`): the memory that is kept
free is at least four times the sum over all modules, and what is used, with three words for each entry, is four times the sum
over the sections before the current one (`WordsBefore`). Sums are recursive functions; that the sum up to n + 1 is the
sum up to n and one number more is `SumStep`. Stubs only take what these three words kept for them, and a shorter one leaves room (`shorter`).

**Reloc.** `RelocInv` follows each relocation: before its turn the word in memory is the one of the file; afterwards the
word is its result and nothing is queued for it (`Resolved`), or the word is still that of the file and one entry of the
queue keeps what the result needs (`Pending`); the queue has no other entry for the place. The sections have their places
once the module is linked (`Destinations`) and the list of entries stays where its first allocation put it while it is not
longer than this one (`Unmoved`), which is where the hypothesis of `RelocationsRight` is needed. The other half is
arithmetic: a word is an upper part, a field and a lower part (`MadeOf`), so that what is stored in a field is read from it
and nothing else changes (`WithBitsField`, `WithBitsBelow`, `WithBitsAbove`), and the upper half of an address makes
up for the sign of the lower one (`PairHA`), for halves of any width. `EntriesDelimited` is the invariant `Counted`: the count
is the sum over the modules that have a place for their entries.

**Only model-checked**, and why. Everything under fairness (`Progress`, `CalledBack`, `ReadsComplete`, `StartupEnds`, the
liveness of `IsLatch`) is beyond this prover. `Search` and `ElfXlate` compute with recursive operators, which the
prover does not support, so `SearchExact`, `MembersRight` and `FileGivenBack` stay with TLC. `Contents`, `ReadsRight` and
`ClustersAccounted` of `FatFile` and the invariants of `FatDir` are about whole chains and what folds over them compute, the
n-th cluster of a file above all, for which the induction theorems of the library cannot be used here; of the chains it is proved that
they are separate, and not that no cluster is lost.

## 5. Findings

Five disagreements between the code and its documents, comments or assertions are kept as runs that must fail;
`PROJECT.json` quotes them: the lost frame at the start (`netplay_begins`), the lost disc callback (`disc_sync_lost`), the
memory estimate (`layout_fits`), the function that is not skipped (`link_skipped`) and the port that cannot be set (`settings_port`).

Others were met while modelling and are part of the models, or excluded from them as said above:

- `module.c:189`: a first request above the default capacity of a list never returns. `module.c:916`: queued relocations
  keep the address of a list that may be moved. `module.c:878`: the index right behind the symbols is accepted.
- `main.c:772` and `783` of the module: frame `BUFFER_SIZE` is still sent with all controllers disconnected, one frame later
  than the comments there say, which is why `LockStep` begins at `BUFFER_SIZE + 1`.
- `settings.c`: the parser does not clear the bit that a blank sets, so that every later character of the text gets a space
  in front of it (`Text`); an address has no blanks and is not affected. An error of `read` (line 95) is taken for a
  length, 2^32 - 1, and the parser goes on over whatever is in memory; this is not modelled.
- `wiisd.c:206`: the error of a failed GETSTATUS is taken for a status, so that a standard card may be addressed as one of high capacity.
- `directory.c:994-1015`: a stem without an extension is not padded, so that its numeric tail is behind its end: "a b" beside "AB" costs
  thousands of look-ups, and its alias ends with a byte that was never written.
- `symbol.c:136-192`: a malformed symbol stays in the list with memory that was never written.
- `network_wii.c`: error -61 reads one byte behind the map (line 209); `_open_manage_fd` compares a converted error with
  IPC_ENOENT and therefore never repeats its call; an error of `Mynet_gethostip` is taken for an address; `ConnectHOST` and
  `ConnectGUEST` look for -1 only. `StartedConnected` shows that the game is not started nevertheless.
- libfat: `_FAT_directory_removeEntry` and `entryFromPosition` report failure for the last slot of a directory although they
  did their work; the current directory, "." and "/" can be removed; `FAT_setAttr` has no room for the entry it looks up and uses a null pointer
  (`fatfile.c:74`); `_FAT_fat_nextCluster` does not look at errors of reading; the counter of accesses wraps around, which
  only makes eviction choose worse; `FAT_dirnext` tells an entry that it read one call ahead.

## 6. Plan

1. `Rng`: the table of generators and the order of draws; the wiimote callbacks; disc reads issued by a callback inside
   the retrace handler.
2. `Settings`: saving, and loading what was saved.
3. Proofs: that no cluster is lost (`ClustersAccounted`), on top of `ChainsInv`, with the clusters that a chain reaches as a set.

## 7. Not modelled

IOS, the disc's contents and the game itself are choices of the environment. Drawing and console output, the spinner, the
gecko and console modules move data to hardware and keep no protocol state. Random numbers and dances depend on the order
in which the game's threads draw, which is not in the repository. Of libelf only the translation is modelled: opening
files and walking over sections are plain look-ups, and nothing calls `elf_update` and the functions that build files. Of
libfat time stamps, attributes, character sets and `stat` are left out. The XML library is external; what `Symbol_ParseFile`
takes from it is an input. The hooks of the wiimote library other than `MyWPADRead` are left out.
