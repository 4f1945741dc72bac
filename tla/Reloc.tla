------------------------------- MODULE Reloc -------------------------------
(***************************************************************************)
(* How a module file becomes code in memory (src/modules/module.c).        *)
(* Module_Load checks a file and reads its metadata; later                 *)
(* Module_LinkModuleElf gives each section a place, works out the symbols  *)
(* and applies the relocations; those that refer to other modules or to    *)
(* the game are queued for Module_ListLinkFinal.                           *)
(*                                                                         *)
(* A file has a section .text and a section .bslug.load, in either order,  *)
(* .bslug.meta, and at most one relocation; its symbols are those that the *)
(* relocation may name.  A section is one word of 2 * Half bits, of which  *)
(* the code's words have 32; the first OpBits are the opcode of a branch.  *)
(* Files are read from the card twice and are the same both times.         *)
(***************************************************************************)
EXTENDS Integers, Sequences, FiniteSets, SequencesExt

CONSTANTS
    Half,               \* the bits of half a word: 16 in the code
    OpBits,             \* the bits of the opcode: 6 in the code
    MODULE_ENTRIES_CAPACITY_DEFAULT,
    MaxFiles,           \* bound: modules on the list
    MaxRelocs,          \* bound: relocations of them
    Files,              \* the files that may be in the directory
    Blocks,             \* addresses that malloc and realloc may return
    Space               \* the end of the memory for modules

Pow2[n \in Nat] == IF n = 0 THEN 1 ELSE 2 * Pow2[n - 1]

Word == Pow2[2 * Half]
Keys == {"game", "name", "author", "version", "license", "bslug"}
Fields == {"32", "24", "16", "HI", "HA", "LO", "14", "14T", "14N", "30"}

(***************************************************************************)
(* The types of relocations, by what they compute and where it goes:       *)
(* R_PPC_ADDR*, R_PPC_REL* and ADDR30, R_PPC_SECTOFF*, R_PPC_EMB_NADDR*.   *)
(***************************************************************************)
Known == ({"absolute"} \X {"32", "24", "16", "HI", "HA", "LO", "14", "14T", "14N"})
    \cup ({"relative"} \X {"24", "14", "14T", "14N", "32", "30"})
    \cup ({"sectoff"} \X {"32", "LO", "HI", "HA"})
    \cup ({"negative"} \X {"32", "16", "LO", "HI", "HA"})
RelocTypes == Known \cup {<<"unknown", "32">>}

\* st_shndx: a section or a special index; "meta" is .bslug.meta.
Indices == {"text", "load", "meta", "ABS", "COMMON", "UNDEF"}

\* The value of an undefined symbol is what the search will find, or NotFound.
NotFound == -1
NoSection == -1
ElfSymbols == [st_shndx : Indices, st_value : (0 .. Word - 1) \cup {NotFound}]

\* A relocation, with the symbol that it refers to: in the symbol table, at its end or
\* beyond.  It has an addend of its own or the one in the word.
Relocations ==
    [section : {"text", "load", "meta"}, type : RelocTypes, symbol : ElfSymbols, addend : Int,
     rela : BOOLEAN, index : {"in", "at", "beyond"}]

\* What is looked at of a file.  header, symtab, bslug and game say whether these are accepted,
\* allocated whether .bslug.load is to be loaded; leading is the first of the two sections.
ModuleFiles ==
    [extension : STRING, elf_kind : STRING, header : BOOLEAN, symtab : BOOLEAN, keys : Seq(STRING),
     bslug : BOOLEAN, game : BOOLEAN, entries : Nat \cup {NoSection}, allocated : BOOLEAN,
     leading : {"text", "load"}, word : 0 .. Word - 1, relocs : Seq(Relocations)]

\* The memory for modules ends at the end of a word.
ASSUME RelocAssumption ==
    /\ Half \in Nat /\ Half >= 2 /\ OpBits \in 1 .. Half
    /\ MODULE_ENTRIES_CAPACITY_DEFAULT \in Nat \ {0}
    /\ MaxFiles \in Nat /\ MaxRelocs \in Nat
    /\ Files \subseteq ModuleFiles
    /\ Blocks \subseteq Nat /\ Space \in Nat /\ Space % 4 = 0

VARIABLES
    linkStage,          \* "load", "place", "relocate", "final", "done", "failed" or "hung"
    module_list,        \* the files that were accepted
    linking,            \* the module that is linked ...
    relocated,          \* ... and how many of its relocations are done
    destinations,       \* by module: the addresses of its sections, by name
    room,               \* where the memory for modules ends: *space
    module_entries,     \* the list of entries: its block, base, capacity and count
    memory,             \* by module and section: its word
    module_relocations  \* the relocations that are not resolved yet

relocVars == <<linkStage, module_list, linking, relocated, destinations,
               room, module_entries, memory, module_relocations>>

Nowhere == [text |-> NotFound, load |-> NotFound]

RelocInit ==
    /\ linkStage = "load"
    /\ module_list = << >>
    /\ linking = 1
    /\ relocated = 0
    /\ destinations = [m \in 1 .. MaxFiles |-> Nowhere]
    /\ room = Space
    /\ module_entries = [block |-> 0, base |-> NotFound, capacity |-> 0, count |-> 0]
    /\ memory = [m \in 1 .. MaxFiles |-> [text |-> 0, load |-> 0]]
    /\ module_relocations = << >>

-----------------------------------------------------------------------------
(* The words *)

\* The bits of x from bit lo up to and without bit hi.
BitField(x, lo, hi) == (x \div Pow2[lo]) % Pow2[hi - lo]

\* The word w with these bits taken from the same bits of x.
WithBits(w, lo, hi, x) == w + (BitField(x, lo, hi) - BitField(w, lo, hi)) * Pow2[lo]

\* The bit of a conditional branch that is set when it is predicted to be taken.
Predicted == Half + 1

\* The value that a relocation of a kind computes; target is what it is applied to.
Computed(kind, symbol_addr, offset, addend, target) ==
    (CASE kind = "absolute" -> symbol_addr + addend
       [] kind = "relative" -> symbol_addr + addend - target
       [] kind = "sectoff" -> offset + addend
       [] kind = "negative" -> addend - symbol_addr) % Word

\* Mutant: the upper half does not make up for the sign of the lower one.
Stored16_NoCarry(field, value) ==
    CASE field \in {"16", "LO"} -> value
      [] field \in {"HI", "HA"} -> value \div Pow2[Half]

\* What is put in a half of a word.
Stored16(field, value) ==
    CASE field \in {"16", "LO"} -> value
      [] field = "HI" -> value \div Pow2[Half]
      [] field = "HA" -> value \div Pow2[Half] + BitField(value, Half - 1, Half)

\* Module_ElfLinkOne: the word w with the value in the relocation's field.
ElfLinkOne(type, w, symbol_addr, offset, addend, target) ==
    LET field == type[2]
        value == Computed(type[1], symbol_addr, offset, addend, target)
        branch == WithBits(w, 2, Half, value)
    IN  CASE field = "32" -> value
          [] field = "24" -> WithBits(w, 2, 2 * Half - OpBits, value)
          [] field \in {"16", "HI", "HA", "LO"} -> WithBits(w, 0, Half, Stored16(field, value))
          [] field = "14" -> branch
          [] field = "14T" -> WithBits(branch, Predicted, Predicted + 1, Word - 1)
          [] field = "14N" -> WithBits(branch, Predicted, Predicted + 1, 0)
          [] field = "30" -> WithBits(w, 2, 2 * Half, value)

-----------------------------------------------------------------------------
(* Finding modules *)

\* Module_CheckFile and Module_Load: archives are not supported.
Module_Load(f) == f.extension \in {"mod", "o", "a", "elf"} /\ f.elf_kind = "ELF"

\* A key is compared up to its length, so a prefix will do; "" is taken for "game".
KeyOf(key) == IF key = "" THEN "game" ELSE key

DeclaredTimes(f, key) == Cardinality({i \in DOMAIN f.keys : KeyOf(f.keys[i]) = key})

\* Whether Module_ElfLink succeeds on .bslug.meta: nothing else has an address yet.
MetaLinks(r) ==
    r.section = "meta" =>
        /\ r.index = "in"
        /\ r.symbol.st_shndx \in {"meta", "ABS"}
        /\ r.type \in Known

\* Module_MetadataRead accepts the metadata.  f.bslug says that the version is "0.1".
MetadataAccepted(f) ==
    /\ \A i \in DOMAIN f.relocs : MetaLinks(f.relocs[i])
    /\ \A key \in Keys : DeclaredTimes(f, key) <= 1
    /\ \A key \in Keys \ {"game"} : DeclaredTimes(f, key) = 1
    /\ f.bslug

\* metadata->entries_count: a section .bslug.load counts whatever its flags are.
EntriesCount(f) == IF f.entries = NoSection THEN 0 ELSE f.entries

RelocCount(list) == FoldLeft(LAMBDA n, f : n + Len(f.relocs), 0, list)

\* Module_LoadElf: f.header stands for the checks of the ELF header, f.game for that
\* of the game's name.  A file that is refused is left out.
LoadFile(f) ==
    /\ Len(module_list) < MaxFiles
    /\ RelocCount(Append(module_list, f)) <= MaxRelocs
    /\ IF Module_Load(f) /\ f.header /\ f.symtab /\ MetadataAccepted(f) /\ f.game
       THEN module_list' = Append(module_list, f)
       ELSE UNCHANGED module_list
    /\ UNCHANGED <<linkStage, linking, relocated, destinations, room, module_entries, memory,
                   module_relocations>>

AllLoaded ==
    /\ linkStage = "load"
    /\ Len(module_list) > 0
    /\ linkStage' = "place"
    /\ UNCHANGED <<module_list, linking, relocated, destinations, room,
                   module_entries, memory, module_relocations>>

-----------------------------------------------------------------------------
(* Module_ListAllocate *)

\* The first request is for more than the default: the loop does not end.
Endless(list, num) == list.count = 0 /\ list.capacity < num
                        /\ MODULE_ENTRIES_CAPACITY_DEFAULT < num

\* The capacity after the loop.
CapacityFor(list, num) ==
    LET start == IF list.count = 0 /\ list.capacity < num
                 THEN MODULE_ENTRIES_CAPACITY_DEFAULT ELSE list.capacity
    IN  CHOOSE c \in {start * Pow2[k] : k \in 0 .. num} :
            /\ c >= list.count + num
            /\ c = start \/ c \div 2 < list.count + num

\* The list with room for num more entries, when the memory for it is at base.
Allocated(list, num, base) ==
    LET grown == CapacityFor(list, num) # list.capacity
    IN  [block |-> IF grown THEN list.block + 1 ELSE list.block,
         base |-> IF grown THEN base ELSE list.base,
         capacity |-> CapacityFor(list, num),
         count |-> list.count + num]

-----------------------------------------------------------------------------
(* Module_LinkModuleElf: the places of the sections *)

Linked == module_list[linking]

LinkFailed ==
    /\ linkStage' = "failed"
    /\ UNCHANGED <<module_list, linking, relocated, destinations, room,
                   module_entries, memory, module_relocations>>

\* .text goes below what was placed before it, in whole words.
PlaceText ==
    /\ room' = room - 4
    /\ destinations' = [destinations EXCEPT ![linking].text = room - 4]
    /\ memory' = [memory EXCEPT ![linking].text = Linked.word]
    /\ UNCHANGED <<linkStage, module_list, linking, relocated, module_entries,
                   module_relocations>>

\* .bslug.load goes to the list of entries; an empty list has no address.
PlaceLoad ==
    LET num == Linked.entries
    IN  \/ /\ Endless(module_entries, num)
           /\ linkStage' = "hung"
           /\ UNCHANGED <<module_list, linking, relocated, destinations, room,
                          module_entries, memory, module_relocations>>
        \/ /\ module_entries.count + num > module_entries.capacity
           /\ LinkFailed
        \/ module_entries.capacity = 0 /\ num = 0 /\ LinkFailed
        \/ /\ ~Endless(module_entries, num)
           /\ module_entries.capacity + num > 0
           /\ \E base \in Blocks :
                 /\ module_entries' = Allocated(module_entries, num, base)
                 /\ destinations' = [destinations EXCEPT ![linking].load =
                        module_entries'.base + 4 * module_entries.count]
           /\ memory' = [memory EXCEPT ![linking].load = Linked.word]
           /\ UNCHANGED <<linkStage, module_list, linking, relocated, room,
                          module_relocations>>

\* The next section of the file that is loaded and has no place yet.
SectionToPlace ==
    LET loaded == IF Linked.entries # NoSection /\ Linked.allocated THEN {"text", "load"} ELSE {"text"}
        left == {s \in loaded : destinations[linking][s] = NotFound}
    IN  IF left = {"text", "load"} THEN {Linked.leading} ELSE left

\* Mutant: a module without entries is linked.
NoEntries_Accepted == FALSE

\* entries is NULL after all sections were placed.
NoEntries == destinations[linking].load = NotFound

PlaceSection ==
    /\ linkStage = "place"
    /\ \/ SectionToPlace = {"text"} /\ PlaceText
       \/ SectionToPlace = {"load"} /\ PlaceLoad
       \/ /\ SectionToPlace = {}
          /\ IF NoEntries
             THEN LinkFailed
             ELSE /\ linkStage' = "relocate"
                  /\ UNCHANGED <<module_list, linking, relocated, destinations, room,
                                 module_entries, memory, module_relocations>>

-----------------------------------------------------------------------------
(* Module_ElfLink *)

\* st_value of a symbol, after Module_ElfLoadSymbols when its section was placed.
SymbolAddress(s) ==
    IF s.st_shndx \in {"text", "load"}
    THEN destinations[linking][s.st_shndx] + s.st_value
    ELSE s.st_value

\* A relocation of a section SHT_REL has its addend in the word.
AddendOf(r, w) == IF r.rela THEN r.addend ELSE w

\* The relocation is kept with the address of the section at this moment.
Queue(r, s) ==
    /\ module_relocations' = Append(module_relocations,
           [module |-> linking, section |-> r.section, block |-> module_entries.block,
            address |-> destinations[linking][r.section], type |-> r.type,
            offset |-> 0, addend |-> AddendOf(r, memory[linking][r.section]),
            found |-> s.st_value])
    /\ UNCHANGED memory

Apply(r, s) ==
    LET w == memory[linking][r.section]
    IN  /\ memory' = [memory EXCEPT ![linking][r.section] =
               ElfLinkOne(r.type, w, SymbolAddress(s), 0, AddendOf(r, w),
                          destinations[linking][r.section])]
        /\ UNCHANGED module_relocations

\* The symbols that a relocation may refer to: behind the table there may be any.
SymbolsOf(r) ==
    CASE r.index = "in" -> {r.symbol}
      [] r.index = "at" -> {x.symbol : x \in UNION {Range(f.relocs) : f \in Files}}
      [] r.index = "beyond" -> {}

\* The relocation r refers to symbol s; memory for the queue may be exhausted.
ElfLink(r, s) ==
    \/ /\ \/ s.st_shndx \in {"COMMON", "meta", "UNDEF"}
          \/ r.type \notin Known
       /\ LinkFailed
    \/ /\ \/ s.st_shndx = "UNDEF" /\ Queue(r, s)
          \/ s.st_shndx \in {"text", "load", "ABS"} /\ r.type \in Known /\ Apply(r, s)
       /\ relocated' = relocated + 1
       /\ UNCHANGED <<linkStage, module_list, linking, destinations, room,
                      module_entries>>

\* .bslug.meta is not linked again.
Relocate ==
    /\ linkStage = "relocate"
    /\ relocated < Len(Linked.relocs)
    /\ LET r == Linked.relocs[relocated + 1]
       IN  \/ /\ r.section = "meta"
              /\ relocated' = relocated + 1
              /\ UNCHANGED <<linkStage, module_list, linking, destinations,
                             room, module_entries, memory, module_relocations>>
           \/ r.section # "meta" /\ SymbolsOf(r) = {} /\ LinkFailed
           \/ r.section # "meta" /\ \E s \in SymbolsOf(r) : ElfLink(r, s)

\* Module_ListLink goes on with the next module.
ModuleLinked ==
    /\ linkStage = "relocate"
    /\ relocated = Len(Linked.relocs)
    /\ relocated' = 0
    /\ linking' = linking + 1
    /\ linkStage' = IF linking < Len(module_list) THEN "place" ELSE "final"
    /\ UNCHANGED <<module_list, destinations, room, module_entries, memory,
                   module_relocations>>

-----------------------------------------------------------------------------
(***************************************************************************)
(* Module_ListLinkFinal applies the queued relocations to the addresses    *)
(* they were queued with.  When the list of entries was moved since, the   *)
(* address is that of the freed list.  What this stage does with the       *)
(* entries is the subject of the module Link.                              *)
(***************************************************************************)
Resolve ==
    /\ linkStage = "final"
    /\ module_relocations # << >>
    /\ LET q == Head(module_relocations)
           live == q.section = "text" \/ q.block = module_entries.block
       IN  IF q.found = NotFound \/ q.type \notin Known
           THEN LinkFailed
           ELSE /\ memory' = IF live
                             THEN [memory EXCEPT ![q.module][q.section] =
                                      ElfLinkOne(q.type, @, q.found, q.offset, q.addend, q.address)]
                             ELSE memory
                /\ module_relocations' = Tail(module_relocations)
                /\ UNCHANGED <<linkStage, module_list, linking, relocated,
                               destinations, room, module_entries>>

AllResolved ==
    /\ linkStage = "final"
    /\ module_relocations = << >>
    /\ linkStage' = "done"
    /\ UNCHANGED <<module_list, linking, relocated, destinations, room,
                   module_entries, memory, module_relocations>>

RelocNext ==
    \/ linkStage = "load" /\ \E f \in Files : LoadFile(f)
    \/ AllLoaded
    \/ PlaceSection
    \/ Relocate
    \/ ModuleLinked
    \/ Resolve
    \/ AllResolved

RelocSpec == RelocInit /\ [][RelocNext]_relocVars

-----------------------------------------------------------------------------
(* Properties *)

\* The signed number that n bits hold.
Signed(x, n) == IF x >= Pow2[n - 1] THEN x - Pow2[n] ELSE x

\* The number that code reads from the field of word w; a half is one of two that make it up.
ReadBack(field, w, value) ==
    CASE field = "32" -> w
      [] field = "30" -> BitField(w, 2, 2 * Half) * 4
      [] field = "24" -> Signed(BitField(w, 2, 2 * Half - OpBits) * 4, 2 * Half - OpBits) % Word
      [] field \in {"14", "14T", "14N"} -> Signed(BitField(w, 2, Half) * 4, Half) % Word
      [] field \in {"16", "LO"} -> Signed(BitField(w, 0, Half), Half) % Word
      [] field = "HI" -> BitField(w, 0, Half) * Pow2[Half] + (value % Pow2[Half])
      [] field = "HA" -> (BitField(w, 0, Half) * Pow2[Half] + Signed(value % Pow2[Half], Half)) % Word

\* The value can be held in the field.
Holds(field, value) ==
    LET n == CASE field \in {"32", "30", "HI", "HA"} -> 2 * Half
               [] field = "24" -> 2 * Half - OpBits
               [] OTHER -> Half
    IN  /\ field \in {"24", "14", "14T", "14N", "30"} => value % 4 = 0
        /\ Signed(value % Pow2[n], n) % Word = value

\* Where the symbol of relocation r of module m is in the end.
FinalAddress(m, r) ==
    CASE r.symbol.st_shndx = "text" -> destinations[m].text + r.symbol.st_value
      [] r.symbol.st_shndx = "load" -> destinations[m].load + r.symbol.st_value
      [] OTHER -> r.symbol.st_value

\* The value that the ABI gives for the relocation r of module m.
Meant(m, r) ==
    LET a == FinalAddress(m, r)
        addend == IF r.rela THEN r.addend ELSE module_list[m].word
    IN  (CASE r.type[1] = "absolute" -> a + addend
           [] r.type[1] = "relative" -> a + addend - destinations[m][r.section]
           [] r.type[1] = "negative" -> addend - a) % Word

\* The sum of the first n numbers of f.
SumTo(f, n) ==
    LET sum[i \in 0 .. n] == IF i = 0 THEN 0 ELSE sum[i - 1] + f[i]
    IN  sum[n]

\* A relocation the linker promises to get right: see RelocationsRight.
Promised(m, i) ==
    LET r == module_list[m].relocs[i]
    IN  /\ r.section # "meta"
        /\ r.index = "in"
        /\ r.type[1] # "sectoff"
        /\ \A j \in DOMAIN module_list[m].relocs \ {i} :
               module_list[m].relocs[j].section # r.section

(***************************************************************************)
(* When the modules are linked, what code reads from the field of a        *)
(* relocation is the address of its symbol, with the addend, in the place  *)
(* that the symbol's section has in the end, whichever section came first, *)
(* and whether the relocation was applied at once or queued: as long as    *)
(* the list of entries did not grow after its first allocation and the     *)
(* value can be held in the field.  The two halves of an address make it   *)
(* up as lis and addi do, with a signed lower half.  The bits around the   *)
(* field are those of the file.  R_PPC_SECTOFF is left out: the code takes *)
(* the offset of the word for that of the symbol.                          *)
(***************************************************************************)
RelocationsRight ==
    linkStage = "done" /\ module_entries.count <= MODULE_ENTRIES_CAPACITY_DEFAULT =>
        \A m \in 1 .. Len(module_list) : \A i \in DOMAIN module_list[m].relocs :
            LET r == module_list[m].relocs[i]
                w == memory[m][r.section]
            IN  Promised(m, i) =>
                    /\ Holds(r.type[2], Meant(m, r))
                           => ReadBack(r.type[2], w, Meant(m, r)) = Meant(m, r)
                    /\ r.type[2] \in {"24", "14"}
                           => BitField(w, 2 * Half - OpBits, 2 * Half)
                                  = BitField(module_list[m].word, 2 * Half - OpBits, 2 * Half)

(***************************************************************************)
(* Module_ListLinkFinal walks the list of all entries by the numbers in    *)
(* the modules' metadata and asserts that it gets to its end: the metadata *)
(* read when a module was found and the entries allocated when it is       *)
(* linked agree, or the modules are not used.                              *)
(***************************************************************************)
EntriesDelimited ==
    linkStage \in {"final", "done"} =>
        module_entries.count =
            SumTo([m \in 1 .. Len(module_list) |-> EntriesCount(module_list[m])], Len(module_list))

=============================================================================
