------------------------------- MODULE Layout -------------------------------
(***************************************************************************)
(* The memory that modules are loaded into (src/modules/module.c).  When a *)
(* module is found, Module_LoadElf estimates what it will need, and the    *)
(* apploader keeps the sum free below the end of memory; when the modules  *)
(* are linked, Module_LinkModuleElf takes memory for each section and      *)
(* Module_ListLinkFinal for each replaced function, downwards from the     *)
(* end.  The end is aligned, so memory is counted from it, upwards.        *)
(***************************************************************************)
EXTENDS Integers, Sequences

CONSTANTS
    MaxModules,         \* bound: modules
    MaxSections,        \* bound: sections of a module
    Sizes,              \* bound: sh_size of a section
    Aligns,             \* bound: sh_addralign of a section
    MaxEntries          \* bound: entries of .bslug.load

ASSUME LayoutAssumption ==
    /\ MaxModules \in Nat /\ MaxSections \in Nat /\ MaxEntries \in Nat
    /\ Sizes \subseteq Nat
    /\ Aligns \subseteq Nat \ {0}

\* The section .bslug.load has entries and no other section does.
Load == [type : {"load"}, entries : 1 .. MaxEntries]
PlainSections == [type : {"plain"}, sh_size : Sizes, sh_addralign : Aligns]

VARIABLES
    phase,              \* "load", "link", "replace" or "done"
    modules,            \* the list of modules, each with its sections
    size,               \* metadata->size of the module that is being loaded
    module_list_size,
    current,            \* the module and the section that is linked next
    module_entries_count,
    used,               \* memory in use: the end of memory minus space
    shorter             \* history: some entry took less than the longest stub

layoutVars == <<phase, modules, size, module_list_size, current, module_entries_count, used,
                shorter>>

LayoutInit ==
    /\ phase = "load"
    /\ modules = << << >> >>
    /\ size = 0
    /\ module_list_size = 0
    /\ current = <<1, 1>>
    /\ module_entries_count = 0
    /\ used = 0
    /\ shorter = FALSE

RoundUp(x, a) == ((x + a - 1) \div a) * a
Alignment(sec) == IF sec.sh_addralign > 3 THEN sec.sh_addralign ELSE 4

-----------------------------------------------------------------------------
(* Module_LoadElf *)

\* Mutant: a stub is taken to have two instructions.
Estimate_Short(sec) ==
    IF sec.type = "load" THEN size + sec.entries * 8
    ELSE RoundUp(size + sec.sh_size, Alignment(sec))

\* metadata->size with the section added.
Estimate(sec) ==
    IF sec.type = "load" THEN size + sec.entries * 12
    ELSE RoundUp(size + sec.sh_size, Alignment(sec))

HasLoad(sections) == \E i \in 1 .. Len(sections) : sections[i].type = "load"

LoadSection(sec) ==
    /\ phase = "load"
    /\ Len(modules[Len(modules)]) < MaxSections
    /\ sec.type = "load" => ~HasLoad(modules[Len(modules)])
    /\ modules' = [modules EXCEPT ![Len(modules)] = Append(@, sec)]
    /\ size' = Estimate(sec)
    /\ UNCHANGED <<phase, module_list_size, current, module_entries_count, used, shorter>>

\* The module is put on the list; Module_Main rounds the sum after the last one.
ModuleLoaded ==
    /\ phase = "load"
    /\ HasLoad(modules[Len(modules)])
    /\ size' = 0
    /\ LET sum == module_list_size + RoundUp(size, 4)
       IN  \/ /\ Len(modules) < MaxModules
              /\ modules' = Append(modules, << >>)
              /\ module_list_size' = sum
              /\ UNCHANGED phase
           \/ /\ module_list_size' = RoundUp(sum, 32)
              /\ phase' = "link"
              /\ UNCHANGED modules
    /\ UNCHANGED <<current, module_entries_count, used, shorter>>

-----------------------------------------------------------------------------
(* Module_LinkModuleElf *)

\* space is lowered by the section's size and then aligned.
Place(sec) == RoundUp(used + sec.sh_size, Alignment(sec))

\* The section after the one that is linked, in this module or in the next.
Following ==
    IF current[2] < Len(modules[current[1]])
    THEN <<current[1], current[2] + 1>>
    ELSE <<current[1] + 1, 1>>

LinkSection ==
    /\ phase = "link"
    /\ LET sec == modules[current[1]][current[2]]
       IN  \/ /\ sec.type = "load"
              /\ module_entries_count' = module_entries_count + sec.entries
              /\ UNCHANGED used
           \/ /\ sec.type = "plain"
              /\ used' = Place(sec)
              /\ UNCHANGED module_entries_count
    /\ current' = Following
    /\ phase' = IF Following[1] > Len(modules) THEN "replace" ELSE "link"
    /\ UNCHANGED <<modules, size, module_list_size, shorter>>

-----------------------------------------------------------------------------
(***************************************************************************)
(* Module_ListLinkFinal: an export takes no memory, the stub of a missing  *)
(* function one instruction, of one that begins with a conditional branch  *)
(* three, of any other two.                                                *)
(***************************************************************************)
LinkEntry ==
    /\ phase = "replace"
    /\ \/ /\ module_entries_count > 0
          /\ module_entries_count' = module_entries_count - 1
          /\ \E stub \in {0, 4, 8, 12} :
                /\ used' = used + stub
                /\ shorter' = (shorter \/ stub < 12)
          /\ UNCHANGED phase
       \/ /\ module_entries_count = 0
          /\ phase' = "done"
          /\ UNCHANGED <<module_entries_count, used, shorter>>
    /\ UNCHANGED <<modules, size, module_list_size, current>>

LayoutNext ==
    \/ \E sec \in Load \cup PlainSections : LoadSection(sec)
    \/ ModuleLoaded
    \/ LinkSection
    \/ LinkEntry

LayoutSpec == LayoutInit /\ [][LayoutNext]_layoutVars

-----------------------------------------------------------------------------
(* Properties *)

\* No section asks for more than the alignment of a word.
WordAligned ==
    \A m \in 1 .. Len(modules) : \A i \in 1 .. Len(modules[m]) :
        modules[m][i].type = "plain" => modules[m][i].sh_addralign <= 4

(***************************************************************************)
(* When all sections are word aligned the estimate covers what is used,    *)
(* with the longest stub for every entry that is still to be linked: the   *)
(* modules do not grow into the game below them.  As soon as one entry is  *)
(* no function that begins with a conditional branch there is room to      *)
(* spare, as Module_Main asserts of the end.                               *)
(***************************************************************************)
WordAlignedFits ==
    WordAligned /\ phase # "load" =>
        /\ used + 12 * module_entries_count <= module_list_size
        /\ shorter => used + 12 * module_entries_count < module_list_size

(***************************************************************************)
(* Module_Main asserts that space is above 0x81800000 - module_list_size   *)
(* in the end: with any sections the modules stay in the memory that was   *)
(* kept free for them, and do not fill it.                                 *)
(***************************************************************************)
Fits == phase = "done" => used < module_list_size

=============================================================================
