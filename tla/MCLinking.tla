----------------------------- MODULE MCLinking -----------------------------
EXTENDS Linking

\* Sections of versions, notes and hashes, by the numbers that make them up.
SomeVersions == {<<1>>, <<2, 1>>}
SomeNotes == {<<<<3, 5>>>>, <<<<4, 0>>, <<0, 1>>>>}
SomeHashes == {<<0, 0, 0>>, <<2, 1, 3>>}

\* Bytes of symbols that are known, half known and unknown, and symbols with and
\* without an offset, a part behind the data and a relocation.
SomePatterns == {<<0, 1>>, <<0, AnyBits>>, <<AnyBits, 0>>}
SomeShapes == {<<0, 0, {}>>, <<1, 1, {1}>>}

AllKeys == <<"name", "author", "version", "license", "bslug">>

File == [extension |-> "mod", elf_kind |-> "ELF", header |-> TRUE, symtab |-> TRUE,
         keys |-> AllKeys, bslug |-> TRUE, game |-> TRUE, entries |-> 1,
         allocated |-> TRUE, leading |-> "text", word |-> 0, relocs |-> << >>]

\* Files that Module_Load or Module_LinkModule refuse, and others without relocations.
PlainFiles ==
    {[File EXCEPT !.extension = "txt"], [File EXCEPT !.elf_kind = "AR"],
     [File EXCEPT !.elf_kind = "none"], [File EXCEPT !.header = FALSE],
     [File EXCEPT !.symtab = FALSE], [File EXCEPT !.bslug = FALSE],
     [File EXCEPT !.game = FALSE], [File EXCEPT !.keys = Tail(AllKeys)],
     [File EXCEPT !.keys = AllKeys \o <<"", "game">>], [File EXCEPT !.allocated = FALSE]}
    \cup {[File EXCEPT !.entries = n, !.leading = s] : n \in {NoSection, 0, 1, 2, 3}, s \in {"text", "load"}}

ARelocation(s, t, x, a) ==
    [section |-> s, type |-> t, symbol |-> x, addend |-> a, rela |-> TRUE, index |-> "in"]

ASymbol(i, v) == [st_shndx |-> i, st_value |-> v]
SomeSymbols ==
    {ASymbol("text", 4), ASymbol("load", 12), ASymbol("ABS", 12), ASymbol("meta", 0),
     ASymbol("COMMON", 4), ASymbol("UNDEF", NotFound), ASymbol("UNDEF", 248)}

RelocFiles ==
    {[File EXCEPT !.leading = l, !.word = w, !.relocs = <<ARelocation(s, t, x, a)>>] :
        l \in {"text", "load"}, w \in {0, 255}, s \in {"text", "load"},
        t \in RelocTypes, x \in SomeSymbols, a \in {4}}
    \cup {[File EXCEPT !.relocs = <<ARelocation("meta", t, x, 0)>>] :
        t \in {<<"absolute", "32">>, <<"unknown", "32">>}, x \in SomeSymbols}
    \cup {[File EXCEPT !.word = 4, !.relocs = <<[ARelocation("text", t, x, 0) EXCEPT !.rela = FALSE]>>] :
        t \in {<<"absolute", "32">>, <<"relative", "32">>}, x \in SomeSymbols}
    \cup {[File EXCEPT !.relocs = <<[ARelocation("text", <<"absolute", "32">>, x, 0) EXCEPT !.index = i]>>] :
        i \in {"at", "beyond"}, x \in {ASymbol("text", 0)}}

SomeFiles == PlainFiles \cup RelocFiles
=============================================================================
