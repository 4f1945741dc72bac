------------------------------ MODULE ElfXlate ------------------------------
(***************************************************************************)
(* libelf's translation between the file's and the memory's representation *)
(* of ELF data (_libelf_xlate and the converters of libelf_convert.c), by  *)
(* which the module loader reads headers, symbols and relocations.         *)
(*                                                                         *)
(* Memory is a function from addresses to bytes.  A byte that decides      *)
(* nothing is a number of its own, so that a run shows where each one      *)
(* goes, whatever its value; one that is part of a size or an offset is    *)
(* below 256.                                                              *)
(***************************************************************************)
EXTENDS Integers, Sequences, FiniteSets, SequencesExt

CONSTANTS
    Byteorder,          \* of the machine: "LSB" or "MSB"
    MaxCount,           \* bound: objects of a translation
    Versions,           \* bound: the numbers of auxiliary entries of version sections
    Notes,              \* bound: the sizes of names and descriptions of note sections
    Hashes              \* bound: buckets, mask words and chains of hash sections

ASSUME ElfAssumption ==
    /\ Byteorder \in {"LSB", "MSB"} /\ MaxCount \in Nat
    /\ Versions \subseteq Seq(Nat) /\ Notes \subseteq Seq(Nat \X Nat) /\ Hashes \subseteq Nat \X Nat \X Nat

VARIABLES
    job,                \* the data and the places it is translated between
    mem,
    step,               \* "choose", "read", "memory", "file"
    xlated              \* of the last _libelf_xlate

elfVars == <<job, mem, step, xlated>>

-----------------------------------------------------------------------------
(* The structures in memory *)

BYTE == 1
HALF == 2
WORD == 4
LWORD == 8
XWORD == 8
IDENT == 16

Struct(names, widths) == [i \in DOMAIN names |-> [name |-> names[i], width |-> widths[i]]]

Elf32_Cap == Struct(<<"c_tag", "c_un">>, <<4, 4>>)
Elf64_Cap == Struct(<<"c_tag", "c_un">>, <<8, 8>>)
Elf32_Dyn == Struct(<<"d_tag", "d_un">>, <<4, 4>>)
Elf64_Dyn == Struct(<<"d_tag", "d_un">>, <<8, 8>>)
Elf32_Ehdr == Struct(<<"e_ident", "e_type", "e_machine", "e_version", "e_entry", "e_phoff", "e_shoff", "e_flags",
                       "e_ehsize", "e_phentsize", "e_phnum", "e_shentsize", "e_shnum", "e_shstrndx">>,
                     <<16, 2, 2, 4, 4, 4, 4, 4, 2, 2, 2, 2, 2, 2>>)
Elf64_Ehdr == Struct(<<"e_ident", "e_type", "e_machine", "e_version", "e_entry", "e_phoff", "e_shoff", "e_flags",
                       "e_ehsize", "e_phentsize", "e_phnum", "e_shentsize", "e_shnum", "e_shstrndx">>,
                     <<16, 2, 2, 4, 8, 8, 8, 4, 2, 2, 2, 2, 2, 2>>)
Elf32_Phdr == Struct(<<"p_type", "p_offset", "p_vaddr", "p_paddr", "p_filesz", "p_memsz", "p_flags", "p_align">>,
                     <<4, 4, 4, 4, 4, 4, 4, 4>>)
Elf64_Phdr == Struct(<<"p_type", "p_flags", "p_offset", "p_vaddr", "p_paddr", "p_filesz", "p_memsz", "p_align">>,
                     <<4, 4, 8, 8, 8, 8, 8, 8>>)
Elf32_Move == Struct(<<"m_value", "m_info", "m_poffset", "m_repeat", "m_stride">>, <<8, 4, 4, 2, 2>>)
Elf64_Move == Struct(<<"m_value", "m_info", "m_poffset", "m_repeat", "m_stride">>, <<8, 8, 8, 2, 2>>)
Elf32_Shdr == Struct(<<"sh_name", "sh_type", "sh_flags", "sh_addr", "sh_offset", "sh_size", "sh_link", "sh_info",
                       "sh_addralign", "sh_entsize">>, <<4, 4, 4, 4, 4, 4, 4, 4, 4, 4>>)
Elf64_Shdr == Struct(<<"sh_name", "sh_type", "sh_flags", "sh_addr", "sh_offset", "sh_size", "sh_link", "sh_info",
                       "sh_addralign", "sh_entsize">>, <<4, 4, 8, 8, 8, 8, 4, 4, 8, 8>>)
Elf32_Sym == Struct(<<"st_name", "st_value", "st_size", "st_info", "st_other", "st_shndx">>, <<4, 4, 4, 1, 1, 2>>)
Elf64_Sym == Struct(<<"st_name", "st_info", "st_other", "st_shndx", "st_value", "st_size">>, <<4, 1, 1, 2, 8, 8>>)
Elf32_Syminfo == Struct(<<"si_boundto", "si_flags">>, <<2, 2>>)
Elf64_Syminfo == Struct(<<"si_boundto", "si_flags">>, <<2, 2>>)
Elf32_Rel == Struct(<<"r_offset", "r_info">>, <<4, 4>>)
Elf64_Rel == Struct(<<"r_offset", "r_info">>, <<8, 8>>)
Elf32_Rela == Struct(<<"r_offset", "r_info", "r_addend">>, <<4, 4, 4>>)
Elf64_Rela == Struct(<<"r_offset", "r_info", "r_addend">>, <<8, 8, 8>>)
Scalar(width) == Struct(<<"t">>, <<width>>)

\* What _libelf_msize and _libelf_malign know of a type; << >> for one that is as long as its file.
Structs(type, class) ==
    LET Of(c32, c64) == IF class = 32 THEN c32 ELSE c64
    IN  CASE type \in {"ADDR", "OFF"} -> Of(Scalar(4), Scalar(8))
          [] type = "HALF" -> Scalar(2)
          [] type \in {"WORD", "SWORD"} -> Scalar(4)
          [] type \in {"LWORD", "XWORD", "SXWORD"} -> Scalar(8)
          [] type = "CAP" -> Of(Elf32_Cap, Elf64_Cap)
          [] type = "DYN" -> Of(Elf32_Dyn, Elf64_Dyn)
          [] type = "EHDR" -> Of(Elf32_Ehdr, Elf64_Ehdr)
          [] type = "PHDR" -> Of(Elf32_Phdr, Elf64_Phdr)
          [] type = "MOVE" -> Of(Elf32_Move, Elf64_Move)
          [] type = "SHDR" -> Of(Elf32_Shdr, Elf64_Shdr)
          [] type = "SYM" -> Of(Elf32_Sym, Elf64_Sym)
          [] type = "SYMINFO" -> Of(Elf32_Syminfo, Elf64_Syminfo)
          [] type = "REL" -> Of(Elf32_Rel, Elf64_Rel)
          [] type = "RELA" -> Of(Elf32_Rela, Elf64_Rela)
          [] OTHER -> << >>

AlignUp(n, a) == ((n + a - 1) \div a) * a
AlignOf(width) == IF width = IDENT THEN 1 ELSE width
Largest(S) == CHOOSE n \in S : \A k \in S : k <= n

\* Where the compiler places the members, and what it makes the size of the whole.
Offsets(s) ==
    LET off[i \in DOMAIN s] ==
            IF i = 1 THEN 0 ELSE AlignUp(off[i - 1] + s[i - 1].width, AlignOf(s[i].width))
    IN  off

StructAlign(s) == Largest({AlignOf(s[i].width) : i \in DOMAIN s})
SizeOf(s) == AlignUp(Offsets(s)[Len(s)] + s[Len(s)].width, StructAlign(s))

Variable == {"BYTE", "GNUHASH", "NOTE", "VDEF", "VNEED"}
ElfTypes == Variable \cup {"ADDR", "CAP", "DYN", "EHDR", "HALF", "LWORD", "MOVE", "MOVEP", "OFF", "PHDR", "REL", "RELA",
                        "SHDR", "SWORD", "SXWORD", "SYMINFO", "SYM", "WORD", "XWORD"}

_libelf_msize(type, class) ==
    IF type \in Variable THEN 1
    ELSE IF type = "MOVEP" \/ (class = 32 /\ type \in {"XWORD", "SXWORD"}) THEN 0
    ELSE SizeOf(Structs(type, class))

_libelf_malign(type, class) ==
    CASE type = "BYTE" -> 1
      [] type \in {"NOTE", "VDEF", "VNEED"} -> 4
      [] type = "GNUHASH" -> IF class = 32 THEN 4 ELSE 8
      [] OTHER -> StructAlign(Structs(type, class))

\* The sizes in the file, in 32 and 64 bit objects.
fsize == [ADDR |-> <<4, 8>>, BYTE |-> <<1, 1>>, CAP |-> <<8, 16>>, DYN |-> <<8, 16>>, EHDR |-> <<52, 64>>,
          GNUHASH |-> <<1, 1>>, HALF |-> <<2, 2>>, LWORD |-> <<8, 8>>, MOVE |-> <<20, 28>>, MOVEP |-> <<0, 0>>,
          NOTE |-> <<1, 1>>, OFF |-> <<4, 8>>, PHDR |-> <<32, 56>>, REL |-> <<8, 16>>, RELA |-> <<12, 24>>,
          SHDR |-> <<40, 64>>, SWORD |-> <<4, 4>>, SXWORD |-> <<0, 8>>, SYMINFO |-> <<4, 4>>, SYM |-> <<16, 24>>,
          VDEF |-> <<1, 1>>, VNEED |-> <<1, 1>>, WORD |-> <<4, 4>>, XWORD |-> <<0, 8>>]

_libelf_fsize(type, class) == fsize[type][IF class = 32 THEN 1 ELSE 2]

-----------------------------------------------------------------------------
(* The members as the converters of each type read, swap and write them *)

ADDR32 == Scalar(WORD)
ADDR64 == Scalar(XWORD)
OFF32 == Scalar(WORD)
OFF64 == Scalar(XWORD)
HALFS == Scalar(HALF)
WORDS == Scalar(WORD)
SWORDS == Scalar(WORD)
LWORDS == Scalar(LWORD)
XWORDS == Scalar(XWORD)
SXWORDS == Scalar(XWORD)
CAP32 == Struct(<<"c_tag", "c_un">>, <<WORD, WORD>>)
CAP64 == Struct(<<"c_tag", "c_un">>, <<XWORD, XWORD>>)
DYN32 == Struct(<<"d_tag", "d_un">>, <<WORD, WORD>>)
DYN64 == Struct(<<"d_tag", "d_un">>, <<XWORD, XWORD>>)
EHDR32 == Struct(<<"e_ident", "e_type", "e_machine", "e_version", "e_entry", "e_phoff", "e_shoff", "e_flags",
                   "e_ehsize", "e_phentsize", "e_phnum", "e_shentsize", "e_shnum", "e_shstrndx">>,
                 <<IDENT, HALF, HALF, WORD, WORD, WORD, WORD, WORD, HALF, HALF, HALF, HALF, HALF, HALF>>)
EHDR64 == Struct(<<"e_ident", "e_type", "e_machine", "e_version", "e_entry", "e_phoff", "e_shoff", "e_flags",
                   "e_ehsize", "e_phentsize", "e_phnum", "e_shentsize", "e_shnum", "e_shstrndx">>,
                 <<IDENT, HALF, HALF, WORD, XWORD, XWORD, XWORD, WORD, HALF, HALF, HALF, HALF, HALF, HALF>>)
MOVE32 == Struct(<<"m_value", "m_info", "m_poffset", "m_repeat", "m_stride">>, <<LWORD, WORD, WORD, HALF, HALF>>)
MOVE64 == Struct(<<"m_value", "m_info", "m_poffset", "m_repeat", "m_stride">>, <<LWORD, XWORD, XWORD, HALF, HALF>>)
PHDR32 == Struct(<<"p_type", "p_offset", "p_vaddr", "p_paddr", "p_filesz", "p_memsz", "p_flags", "p_align">>,
                 <<WORD, WORD, WORD, WORD, WORD, WORD, WORD, WORD>>)
PHDR64 == Struct(<<"p_type", "p_flags", "p_offset", "p_vaddr", "p_paddr", "p_filesz", "p_memsz", "p_align">>,
                 <<WORD, WORD, XWORD, XWORD, XWORD, XWORD, XWORD, XWORD>>)
REL32 == Struct(<<"r_offset", "r_info">>, <<WORD, WORD>>)
REL64 == Struct(<<"r_offset", "r_info">>, <<XWORD, XWORD>>)
RELA32 == Struct(<<"r_offset", "r_info", "r_addend">>, <<WORD, WORD, WORD>>)
RELA64 == Struct(<<"r_offset", "r_info", "r_addend">>, <<XWORD, XWORD, XWORD>>)
SHDR32 == Struct(<<"sh_name", "sh_type", "sh_flags", "sh_addr", "sh_offset", "sh_size", "sh_link", "sh_info",
                   "sh_addralign", "sh_entsize">>, [i \in 1 .. 10 |-> WORD])
SHDR64 == Struct(<<"sh_name", "sh_type", "sh_flags", "sh_addr", "sh_offset", "sh_size", "sh_link", "sh_info",
                   "sh_addralign", "sh_entsize">>,
                 <<WORD, WORD, XWORD, XWORD, XWORD, XWORD, WORD, WORD, XWORD, XWORD>>)
SYMINFO32 == Struct(<<"si_boundto", "si_flags">>, <<HALF, HALF>>)
SYMINFO64 == Struct(<<"si_boundto", "si_flags">>, <<HALF, HALF>>)
SYM32 == Struct(<<"st_name", "st_value", "st_size", "st_info", "st_other", "st_shndx">>,
                <<WORD, WORD, WORD, BYTE, BYTE, HALF>>)
SYM64 == Struct(<<"st_name", "st_info", "st_other", "st_shndx", "st_value", "st_size">>,
                <<WORD, BYTE, BYTE, HALF, XWORD, XWORD>>)

\* _libelf_get_translator for the types of a fixed size.
cvt(type, class) ==
    LET Of(c32, c64) == IF class = 32 THEN c32 ELSE c64
    IN  CASE type = "ADDR" -> Of(ADDR32, ADDR64)
          [] type = "CAP" -> Of(CAP32, CAP64)
          [] type = "DYN" -> Of(DYN32, DYN64)
          [] type = "EHDR" -> Of(EHDR32, EHDR64)
          [] type = "HALF" -> HALFS
          [] type = "LWORD" -> LWORDS
          [] type = "MOVE" -> Of(MOVE32, MOVE64)
          [] type = "OFF" -> Of(OFF32, OFF64)
          [] type = "PHDR" -> Of(PHDR32, PHDR64)
          [] type = "REL" -> Of(REL32, REL64)
          [] type = "RELA" -> Of(RELA32, RELA64)
          [] type = "SHDR" -> Of(SHDR32, SHDR64)
          [] type = "SWORD" -> SWORDS
          [] type = "SXWORD" -> SXWORDS
          [] type = "SYMINFO" -> Of(SYMINFO32, SYMINFO64)
          [] type = "SYM" -> Of(SYM32, SYM64)
          [] type = "WORD" -> WORDS
          [] type = "XWORD" -> XWORDS

-----------------------------------------------------------------------------
(* The macros and the loops of the converters *)

READ(m, a, width) == [i \in 1 .. width |-> m[a + i - 1]]

WRITE(m, a, bytes) ==
    [x \in DOMAIN m |-> IF x \in a .. a + Len(bytes) - 1 THEN bytes[x - a + 1] ELSE m[x]]

SWAP(bytes, byteswap) == IF ~byteswap \/ Len(bytes) = IDENT THEN bytes ELSE Reverse(bytes)

NumberOf(bytes) ==
    FoldLeft(LAMBDA n, b : 256 * n + b, 0, IF Byteorder = "MSB" THEN bytes ELSE Reverse(bytes))

Junk == -1              \* what the stack held

\* Index of the member of a structure in a list.
Member(s, name) == CHOOSE i \in DOMAIN s : s[i].name = name

\* The bytes of the members one after the other, each swapped.
FileBytes(fields, struct, object, byteswap) ==
    LET off == Offsets(struct)
        Bytes(f) == READ(object, off[Member(struct, f.name)], f.width)
    IN  FlattenSeq([i \in DOMAIN fields |-> SWAP(Bytes(fields[i]), byteswap)])

\* Where each member begins in the file, by the widths of those before it.
FileOffsets(fields) ==
    LET off[i \in DOMAIN fields] == IF i = 1 THEN 0 ELSE off[i - 1] + fields[i - 1].width
    IN  off

FileSize(fields) == FileOffsets(fields)[Len(fields)] + fields[Len(fields)].width

\* A whole structure is stored, with what the stack held between its members.
MemoryBytes(fields, struct, m, s, byteswap) ==
    LET off == Offsets(struct)
        foff == FileOffsets(fields)
        Value(i) == SWAP(READ(m, s + foff[Member(fields, struct[i].name)], struct[i].width), byteswap)
        At(x) == {i \in DOMAIN struct : x - off[i] \in 0 .. struct[i].width - 1}
    IN  [x \in 1 .. SizeOf(struct) |->
            IF At(x - 1) = {} THEN Junk ELSE LET i == CHOOSE k \in At(x - 1) : TRUE IN Value(i)[x - off[i]]]

\* Mutant: the objects are written from the last on.
tof_Descending(fields, struct, m, dst, src, count, byteswap) ==
    LET Object(n, c) == WRITE(n, dst + (c - 1) * FileSize(fields),
                              FileBytes(fields, struct, [x \in 0 .. SizeOf(struct) - 1 |->
                                                            n[src + (c - 1) * SizeOf(struct) + x]], byteswap))
    IN  FoldLeft(Object, m, [c \in 1 .. count |-> count + 1 - c])

\* The objects from the first on, the destination going on as it is written.
tof(fields, struct, m, dst, src, count, byteswap) ==
    LET Object(n, c) == WRITE(n, dst + (c - 1) * FileSize(fields),
                              FileBytes(fields, struct, [x \in 0 .. SizeOf(struct) - 1 |->
                                                            n[src + (c - 1) * SizeOf(struct) + x]], byteswap))
    IN  FoldLeft(Object, m, [c \in 1 .. count |-> c])

\* Mutant: the objects are read from the first on.
tom_Ascending(fields, struct, fsz, m, dst, src, count, byteswap) ==
    LET Object(n, c) == WRITE(n, dst + (c - 1) * SizeOf(struct),
                              MemoryBytes(fields, struct, n, src + (c - 1) * fsz, byteswap))
    IN  FoldLeft(Object, m, [c \in 1 .. count |-> c])

\* The objects from the last on.
tom(fields, struct, fsz, m, dst, src, count, byteswap) ==
    LET Object(n, c) == WRITE(n, dst + (c - 1) * SizeOf(struct),
                              MemoryBytes(fields, struct, n, src + (c - 1) * fsz, byteswap))
    IN  FoldLeft(Object, m, [c \in 1 .. count |-> count + 1 - c])

-----------------------------------------------------------------------------
(* The converters of the types whose size their contents say.  Each one is *)
(* given where it reads and writes, how much, and in which direction, and  *)
(* returns whether it succeeds and the memory it leaves.                   *)

VDEF32 == [ver |-> Struct(<<"version", "flags", "ndx", "cnt", "hash", "aux", "next">>,
                          <<HALF, HALF, HALF, HALF, WORD, WORD, WORD>>),
           aux |-> Struct(<<"name", "next">>, <<WORD, WORD>>)]
VDEF64 == [ver |-> Struct(<<"version", "flags", "ndx", "cnt", "hash", "aux", "next">>,
                          <<HALF, HALF, HALF, HALF, WORD, WORD, WORD>>),
           aux |-> Struct(<<"name", "next">>, <<WORD, WORD>>)]
VNEED32 == [ver |-> Struct(<<"version", "cnt", "file", "aux", "next">>, <<HALF, HALF, WORD, WORD, WORD>>),
            aux |-> Struct(<<"hash", "flags", "other", "name", "next">>, <<WORD, HALF, HALF, WORD, WORD>>)]
VNEED64 == [ver |-> Struct(<<"version", "cnt", "file", "aux", "next">>, <<HALF, HALF, WORD, WORD, WORD>>),
            aux |-> Struct(<<"hash", "flags", "other", "name", "next">>, <<WORD, HALF, HALF, WORD, WORD>>)]

VersionOf(type, class) ==
    IF type = "VDEF" THEN IF class = 32 THEN VDEF32 ELSE VDEF64
    ELSE IF class = 32 THEN VNEED32 ELSE VNEED64

Fail(m) == [ok |-> FALSE, mem |-> m]
Done(m) == [ok |-> TRUE, mem |-> m]

\* Whether a record at an offset is within both buffers.
Inside(c, off, fields) == off + FileSize(fields) <= c.dsz /\ off + FileSize(fields) <= c.count

\* The bytes of a record at an offset, as they are written.
Record(c, fields, m, off) ==
    LET foff == FileOffsets(fields)
    IN  FlattenSeq([i \in DOMAIN fields |-> SWAP(READ(m, c.src + off + foff[i], fields[i].width), c.swap)])

\* A number of the record at an offset, in the memory's representation.
Number(c, fields, m, off, name) ==
    LET i == Member(fields, name)
        bytes == READ(m, c.src + off + FileOffsets(fields)[i], fields[i].width)
    IN  NumberOf(IF c.tomemory THEN SWAP(bytes, c.swap) ELSE bytes)

\* The chain of auxiliary entries of a version; anext is not 0 before the first.
RECURSIVE ConvertAux(_, _, _, _, _)
ConvertAux(c, m, off, cnt, anext) ==
    IF cnt = 0 \/ anext = 0 \/ ~Inside(c, off, c.version.aux) THEN [ok |-> anext = 0 /\ cnt = 0, mem |-> m]
    ELSE LET next == Number(c, c.version.aux, m, off, "next")
         IN  ConvertAux(c, WRITE(m, c.dst + off, Record(c, c.version.aux, m, off)), off + next, cnt - 1, next)

\* The chain of versions.
RECURSIVE ConvertVersions(_, _, _)
ConvertVersions(c, m, off) ==
    LET ver == c.version.ver
        aux == Number(c, ver, m, off, "aux")
        next == Number(c, ver, m, off, "next")
        auxs == ConvertAux(c, WRITE(m, c.dst + off, Record(c, ver, m, off)), off + aux,
                           Number(c, ver, m, off, "cnt"), -1)
    IN  IF ~Inside(c, off, ver) THEN Fail(m)
        ELSE IF aux < FileSize(ver) THEN Fail(WRITE(m, c.dst + off, Record(c, ver, m, off)))
        ELSE IF ~auxs.ok \/ next = 0 THEN auxs
        ELSE ConvertVersions(c, auxs.mem, off + next)

_libelf_cvt_BYTE_tox(c, m) ==
    IF c.dsz < c.count THEN Fail(m) ELSE Done(WRITE(m, c.dst, READ(m, c.src, c.count)))

\* The header, the bloom filter, the buckets and the chains, each of its own width.
_libelf_cvt_GNUHASH32(c, m) ==
    IF c.tomemory /\ c.dsz < 4 * (c.count \div 4) THEN Fail(m)
    ELSE Done(WRITE(m, c.dst, FlattenSeq([i \in 1 .. c.count \div 4 |-> SWAP(READ(m, c.src + 4 * (i - 1), 4), c.swap)])))

HashHeader == Struct(<<"nbuckets", "symndx", "maskwords", "shift2">>, <<WORD, WORD, WORD, WORD>>)

HashFields(nbuckets, maskwords, nchains) ==
    HashHeader \o Struct([i \in 1 .. maskwords + nbuckets + nchains |-> "word"],
                         [i \in 1 .. maskwords + nbuckets + nchains |-> IF i <= maskwords THEN XWORD ELSE WORD])

_libelf_cvt_GNUHASH64(c, m) ==
    LET nbuckets == Number(c, HashHeader, m, 0, "nbuckets")
        maskwords == Number(c, HashHeader, m, 0, "maskwords")
        sz == 16 + 4 * nbuckets + 8 * maskwords
        To(nchains) == WRITE(m, c.dst, Record(c, HashFields(nbuckets, maskwords, nchains), m, 0))
    IN  IF c.dsz < 16 \/ c.count < 16 THEN Fail(m)
        ELSE IF c.count < sz \/ c.dsz < sz THEN Fail(m)
        ELSE IF c.dsz < c.count THEN Fail(To(0))
        ELSE Done(To((c.count - sz) \div 4))

NoteHeader == Struct(<<"namesz", "descsz", "type">>, <<WORD, WORD, WORD>>)

\* A header and what its sizes say follows.  A note that is a header only and the last is left out.
RECURSIVE NoteToMemory(_, _, _)
NoteToMemory(c, m, off) ==
    LET sz == AlignUp(Number(c, NoteHeader, m, off, "namesz"), 4) + AlignUp(Number(c, NoteHeader, m, off, "descsz"), 4)
        head == WRITE(m, c.dst + off, Record(c, NoteHeader, m, off))
    IN  IF c.count - off <= 12 THEN Done(m)
        ELSE IF c.count - off - 12 < sz THEN Fail(head)
        ELSE NoteToMemory(c, WRITE(head, c.dst + off + 12, READ(head, c.src + off + 12, sz)), off + 12 + sz)

(***************************************************************************)
(* The other direction counts with sizes it has already swapped, does not  *)
(* count the header, and so copies what is left and a header's length      *)
(* more.                                                                   *)
(***************************************************************************)
RECURSIVE NoteToFile(_, _, _, _)
NoteToFile(c, m, off, count) ==
    LET Swapped(name) == NumberOf(Reverse(READ(m, c.src + off + FileOffsets(NoteHeader)[Member(NoteHeader, name)], 4)))
        said == AlignUp(Swapped("namesz"), 4) + AlignUp(Swapped("descsz"), 4)
        sz == IF count < said THEN count ELSE said
        head == WRITE(m, c.dst + off, Record(c, NoteHeader, m, off))
    IN  IF count <= 12 THEN Done(m)
        ELSE NoteToFile(c, WRITE(head, c.dst + off + 12, READ(head, c.src + off + 12, sz)), off + 12 + sz, count - sz)

_libelf_cvt_NOTE(c, m) ==
    IF c.dsz < c.count \/ (c.tomemory /\ c.count < 12) THEN Fail(m)
    ELSE IF ~c.swap THEN Done(WRITE(m, c.dst, READ(m, c.src, c.count)))
    ELSE IF c.tomemory THEN NoteToMemory(c, m, 0) ELSE NoteToFile(c, m, 0, c.count)

-----------------------------------------------------------------------------
(* _libelf_xlate *)

\* The converter of a type, called for cnt objects.
Convert(type, class, c, m) ==
    LET fields == cvt(type, class)
        struct == Structs(type, class)
    IN  CASE type = "BYTE" -> _libelf_cvt_BYTE_tox(c, m)
          [] type = "GNUHASH" -> IF class = 32 THEN _libelf_cvt_GNUHASH32(c, m) ELSE _libelf_cvt_GNUHASH64(c, m)
          [] type = "NOTE" -> _libelf_cvt_NOTE(c, m)
          [] type \in {"VDEF", "VNEED"} -> ConvertVersions([c EXCEPT !.version = VersionOf(type, class)], m, 0)
          [] OTHER -> IF ~c.tomemory THEN Done(tof(fields, struct, m, c.dst, c.src, c.count, c.swap))
                      ELSE IF c.dsz < c.count * SizeOf(struct) THEN Fail(m)
                      ELSE Done(tom(fields, struct, _libelf_fsize(type, class), m, c.dst, c.src, c.count, c.swap))

\* Why a translation of d_size bytes at sb to a buffer at db is refused before it begins.
Refused(type, class, encoding, tomemory, sb, src_size, db, dst_size) ==
    LET fsz == _libelf_fsize(type, class)
        msz == _libelf_msize(type, class)
        unit == IF tomemory THEN fsz ELSE msz
    IN  \/ encoding \notin {"LSB", "MSB", "NONE"}
        \/ fsz = 0
        \/ src_size % unit # 0
        \/ dst_size < (src_size \div unit) * (IF tomemory THEN msz ELSE fsz)
        \/ db # sb /\ db + dst_size > sb /\ sb + src_size > db
        \/ (IF tomemory THEN db ELSE sb) % _libelf_malign(type, class) # 0

\* The xlated and the size of the destination after it.
_libelf_xlate(type, class, encoding, tomemory, sb, src_size, db, dst_size, m) ==
    LET fsz == _libelf_fsize(type, class)
        msz == _libelf_msize(type, class)
        cnt == src_size \div (IF tomemory THEN fsz ELSE msz)
        dsz == cnt * (IF tomemory THEN msz ELSE fsz)
        byteswap == encoding # "NONE" /\ encoding # Byteorder
        done == Convert(type, class, [dst |-> db, src |-> sb, dsz |-> dsz, count |-> cnt, swap |-> byteswap,
                                      tomemory |-> tomemory, version |-> VDEF32], m)
    IN  IF Refused(type, class, encoding, tomemory, sb, src_size, db, dst_size) THEN Fail(m)
        ELSE IF src_size = 0 \/ (db = sb /\ ~byteswap /\ fsz = msz) THEN Done(m)
        ELSE done

-----------------------------------------------------------------------------
(* The files that are translated.  A file's parts are its members and the  *)
(* bytes of its strings: where each is in the file and in memory, how wide *)
(* it is and which number it has to be, if any.                            *)

Part(foff, moff, width, number) == [file |-> foff, mem |-> moff, width |-> width, number |-> number]
NoNumber == -1

\* The members of a record at an offset, of which some have to be certain numbers.
RecordParts(fields, off, numbers) ==
    {Part(off + FileOffsets(fields)[i], off + FileOffsets(fields)[i], fields[i].width,
          IF fields[i].name \in DOMAIN numbers THEN numbers[fields[i].name] ELSE NoNumber) : i \in DOMAIN fields}

Sum(s, n) == FoldLeft(LAMBDA k, x : k + x, 0, SubSeq(s, 1, n))

\* A version section of Len(counts) versions, each with its entries behind it or all of them behind the versions.
VersionParts(version, counts, nested, fault) ==
    LET V == FileSize(version.ver)
        A == FileSize(version.aux)
        n == Len(counts)
        Ver(k) == IF nested THEN (k - 1) * V + Sum(counts, k - 1) * A ELSE (k - 1) * V
        Aux(k, i) == IF nested THEN Ver(k) + V + (i - 1) * A ELSE n * V + (Sum(counts, k - 1) + i - 1) * A
        cnt(k) == counts[k] + (IF fault = "count" /\ k = n THEN 1 ELSE 0)
        aux(k) == IF fault = "aux" /\ k = n THEN V - 1 ELSE Aux(k, 1) - Ver(k)
    IN  UNION {RecordParts(version.ver, Ver(k), [cnt |-> cnt(k), aux |-> aux(k),
                                                 next |-> IF k = n THEN 0 ELSE Ver(k + 1) - Ver(k)])
               \cup UNION {RecordParts(version.aux, Aux(k, i), [next |-> IF i = counts[k] THEN 0 ELSE A]) :
                               i \in 1 .. counts[k]} : k \in 1 .. n}

NoteParts(notes) ==
    LET sz(i) == AlignUp(notes[i][1], 4) + AlignUp(notes[i][2], 4)
        off[i \in 1 .. Len(notes) + 1] == IF i = 1 THEN 0 ELSE off[i - 1] + 12 + sz(i - 1)
    IN  UNION {RecordParts(NoteHeader, off[i], [namesz |-> notes[i][1], descsz |-> notes[i][2]])
               \cup {Part(off[i] + 12 + x, off[i] + 12 + x, 1, NoNumber) : x \in 0 .. sz(i) - 1} : i \in DOMAIN notes}

ObjectParts(type, class, count) ==
    LET struct == Structs(type, class)
        foff == FileOffsets(struct)
        moff == Offsets(struct)
    IN  {Part(k * _libelf_fsize(type, class) + foff[i], k * SizeOf(struct) + moff[i], struct[i].width, NoNumber) :
            k \in 0 .. count - 1, i \in DOMAIN struct}

\* The parts of the files of a type, and whether they are as they should be.
FilesOf(type, class) ==
    CASE type = "BYTE" -> {[parts |-> {Part(x, x, 1, NoNumber) : x \in 0 .. n - 1}, valid |-> TRUE] : n \in 0 .. MaxCount}
      [] type = "GNUHASH" -> {[parts |-> RecordParts(HashFields(h[1], IF class = 32 THEN 0 ELSE h[2], h[3]), 0,
                                                     [nbuckets |-> h[1], maskwords |-> h[2]]), valid |-> TRUE] : h \in Hashes}
      [] type = "NOTE" -> {[parts |-> NoteParts(notes), valid |-> TRUE] : notes \in Notes}
      [] type \in {"VDEF", "VNEED"} ->
            {[parts |-> VersionParts(VersionOf(type, class), v, nested, fault), valid |-> fault = "none"] :
                v \in Versions, nested \in BOOLEAN, fault \in {"none", "count", "aux"}}
      [] OTHER -> {[parts |-> ObjectParts(type, class, n), valid |-> TRUE] : n \in 0 .. MaxCount}

FileEnd(file) == Largest({0} \cup {p.file + p.width : p \in file.parts})

Elsewhere == 256            \* a place for the destination that is none of the file's
Memory == 0 .. 2 * Elsewhere - 1

\* The memory with the file at 0: numbers in the file's encoding, and bytes of their own.
Original(file, encoding) ==
    LET Bytes(p) == LET high == [i \in 1 .. p.width |-> IF i = p.width THEN p.number ELSE 0]
                    IN  IF encoding = "LSB" \/ (encoding = "NONE" /\ Byteorder = "LSB") THEN Reverse(high) ELSE high
        numbers == {p \in file.parts : p.number # NoNumber}
    IN  [x \in Memory |-> LET in == {p \in numbers : x \in p.file .. p.file + p.width - 1}
                          IN  IF in = {} THEN 1000 + x ELSE LET p == CHOOSE q \in in : TRUE IN Bytes(p)[x - p.file + 1]]

ElfInit ==
    /\ job = [type |-> "BYTE"] /\ step = "choose" /\ xlated = FALSE
    /\ mem = << >>

\* A caller with a file of some type, whole or a byte short, and a buffer in the same place or another one.
Choose ==
    /\ step = "choose"
    /\ \E type \in ElfTypes, class \in {32, 64}, encoding \in {"LSB", "MSB", "NONE"} :
        \E file \in FilesOf(type, class), dst \in {0, 4, Elsewhere, Elsewhere + 1}, cut \in {0, 1} :
            /\ type # "MOVEP" /\ FileEnd(file) >= cut
            /\ job' = [type |-> type, class |-> class, encoding |-> encoding, file |-> file, dst |-> dst,
                       back |-> dst, size |-> FileEnd(file) - cut]
            /\ mem' = Original(file, encoding)
    /\ step' = "read" /\ UNCHANGED xlated

MemorySize == (job.size \div _libelf_fsize(job.type, job.class)) * _libelf_msize(job.type, job.class)

ToMemory ==
    /\ step = "read"
    /\ \E size \in IF _libelf_fsize(job.type, job.class) = 0 THEN {0} ELSE {MemorySize} :
        \E done \in {_libelf_xlate(job.type, job.class, job.encoding, TRUE, 0, job.size, job.dst, size, mem)} :
            /\ xlated' = done.ok /\ mem' = done.mem
    /\ step' = "memory" /\ UNCHANGED job

\* The data goes back to where the file was, or stays where it is.
ToFile ==
    /\ step = "memory" /\ xlated
    /\ \E back \in {0, job.dst} :
        \E done \in {_libelf_xlate(job.type, job.class, job.encoding, FALSE, job.dst, MemorySize, back, job.size, mem)} :
            /\ xlated' = done.ok /\ mem' = done.mem
            /\ job' = [job EXCEPT !.back = back]
    /\ step' = "file"

ElfNext == Choose \/ ToMemory \/ ToFile

ElfSpec == ElfInit /\ [][ElfNext]_elfVars

-----------------------------------------------------------------------------
(* Properties *)

Swaps == job.encoding # "NONE" /\ job.encoding # Byteorder

(***************************************************************************)
(* A translation that succeeds leaves every member where the structure has *)
(* it, swapped as a whole if the byte orders differ, also if the file's    *)
(* objects are shorter and are overwritten by the structures; and a chain  *)
(* of versions that is not as it says is refused, unless nothing has to be *)
(* done.                                                                   *)
(***************************************************************************)
MembersRight ==
    step = "memory" /\ xlated => \E original \in {Original(job.file, job.encoding)} :
        /\ job.file.valid \/ (job.dst = 0 /\ ~Swaps)
        /\ \A p \in job.file.parts : p.file + p.width <= job.size =>
               READ(mem, job.dst + p.mem, p.width) =
                   LET bytes == READ(original, p.file, p.width)
                   IN  IF Swaps /\ p.width # IDENT THEN Reverse(bytes) ELSE bytes

(***************************************************************************)
(* Going back gives the file again, and neither direction writes outside   *)
(* of its buffers.  (Notes in the other byte order are left out:           *)
(* _libelf_cvt_NOTE_tof does not give them back.)                          *)
(***************************************************************************)
FileGivenBack ==
    step = "file" /\ ~(job.type = "NOTE" /\ Swaps) => \E original \in {Original(job.file, job.encoding)} :
        /\ xlated
        /\ \A p \in job.file.parts : p.file + p.width <= job.size =>
               READ(mem, job.back + p.file, p.width) = READ(original, p.file, p.width)
        /\ \A x \in Memory : mem[x] # original[x] =>
               x \in (job.dst .. job.dst + MemorySize - 1) \cup (job.back .. job.back + job.size - 1)
=============================================================================
