-------------------------------- MODULE Link --------------------------------
(***************************************************************************)
(* The last stage of linking (src/modules/module.c): the modules' exports  *)
(* are added to the symbols, then, module by module, the game's functions  *)
(* are replaced and the module's references are resolved.  The symbols are *)
(* those of src/search/search.c.                                           *)
(*                                                                         *)
(* Code is abstracted to places that can be branched to, each with its     *)
(* first instruction: Plain, which goes on to what is behind it, or a      *)
(* branch to another place.  A stub's second instruction goes to the       *)
(* second instruction of the code it was made for, so what is behind a     *)
(* stub is what is behind that code.  The names "_start" and               *)
(* "bslug_game_*" are left out, and a name with two addresses counts as    *)
(* one that is not found.                                                  *)
(***************************************************************************)
EXTENDS Integers, FiniteSets, FiniteSetsExt

CONSTANTS
    module_list_count,  \* the modules that were loaded
    Names               \* the names of functions

ASSUME LinkAssumption == module_list_count \in Nat

Modules == 1 .. module_list_count

\* "REPLACE" and "MUST" are BSLUG_LOADER_ENTRY_FUNCTION and _MANDATORY.
Types == {"none", "REPLACE", "MUST", "EXPORT"}

\* A symbol file has the name and the game the function; only the former; neither.
Kinds == {"found", "absent", "unknown"}

Game(n) == [place |-> "game", module |-> 0, name |-> n]
Hook(m, n) == [place |-> "hook", module |-> m, name |-> n]
Export(m, n) == [place |-> "export", module |-> m, name |-> n]
Stub(m, n) == [place |-> "stub", module |-> m, name |-> n]
Plain == [place |-> "plain", module |-> 0, name |-> "plain"]
Null == [place |-> "null", module |-> 0, name |-> "null"]

Places == [place : {"game", "hook", "export", "stub"}, module : Modules \cup {0}, name : Names]

VARIABLES
    kind,               \* by name: what the search has found
    entry,              \* by module and name: the type of its entry, if any
    refs,               \* by module: the names it has relocations for
    module_index,       \* 0 before Module_ListLoadSymbols
    replaced,           \* the names of the current module's entries that are done
    search_module_symbols,  \* the added symbols: pairs of a name and a place
    address,            \* by name: the address the search has for it, or Null
    first,              \* by place: its first instruction
    behind,             \* by place: the code that is behind its first instruction
    link,               \* by module and name: what the relocations refer to
    has_error,
    result              \* "running", "success" or "error"

inputs == <<kind, entry, refs>>
linkVars == <<inputs, module_index, replaced, search_module_symbols, address, first, behind,
          link, has_error, result>>

LinkInit ==
    /\ kind \in [Names -> Kinds]
    /\ entry \in [Modules -> [Names -> Types]]
    /\ refs \in [Modules -> SUBSET Names]
    /\ \A m \in Modules : \A n \in refs[m] : entry[m][n] # "EXPORT"
    /\ module_index = 0
    /\ replaced = {}
    /\ search_module_symbols = {}
    /\ address = [n \in Names |-> IF kind[n] = "found" THEN Game(n) ELSE Null]
    /\ first = [p \in Places |-> Plain]
    /\ behind = [p \in Places |-> p]
    /\ link = [m \in Modules |-> [n \in Names |-> Null]]
    /\ has_error = FALSE
    /\ result = "running"

-----------------------------------------------------------------------------
(* The symbols *)

\* Of several added symbols of one name the binary search may find any.
Search_SymbolLookup(n) ==
    LET added == {p \in Places : <<n, p>> \in search_module_symbols}
    IN  IF added # {} THEN added ELSE {address[n]} \ {Null}

\* Mutant: the symbol keeps its address.
SetAddress_Keep(n, p) == UNCHANGED address

\* Search_SymbolReplace changes the address of a function that was found ...
SetAddress(n, p) ==
    address' = IF address[n] # Null THEN [address EXCEPT ![n] = p] ELSE address

\* Mutant: a function that the game does not have cannot be replaced.
CanReplace_Found(n) == kind[n] = "found"

\* ... and fails when no symbol file has the name.
CanReplace(n) == kind[n] # "unknown"

-----------------------------------------------------------------------------
Module_ListLoadSymbols ==
    /\ result = "running" /\ module_index = 0
    /\ search_module_symbols' =
           {x \in Names \X Places : \E m \in Modules : entry[m][x[1]] = "EXPORT" /\ x[2] = Export(m, x[1])}
    /\ module_index' = 1
    /\ UNCHANGED <<inputs, replaced, address, first, behind, link, has_error, result>>

Replacements(m) == {n \in Names : entry[m][n] \in {"REPLACE", "MUST"}}

\* The function is missing: make up a symbol, a stub that branches to itself.
MakeUp(m, n) ==
    /\ first' = [first EXCEPT ![Stub(m, n)] = Stub(m, n)]
    /\ search_module_symbols' = search_module_symbols \cup {<<n, Stub(m, n)>>}
    /\ UNCHANGED <<behind, address, result>>

\* Move the first instruction of data to a stub and branch to the hook instead.
Divert(m, n, data) ==
    /\ first' = [first EXCEPT ![Stub(m, n)] = first[data], ![data] = Hook(m, n)]
    /\ behind' = [behind EXCEPT ![Stub(m, n)] = behind[data]]
    /\ IF CanReplace(n) THEN SetAddress(n, Stub(m, n)) /\ UNCHANGED result
                        ELSE result' = "error" /\ UNCHANGED address
    /\ UNCHANGED search_module_symbols

\* Module_ListLinkFinalReplaceFunction
ReplaceFunction(n) ==
    LET m == module_index
    IN  /\ result = "running"
        /\ m \in Modules
        /\ n \in Replacements(m) \ replaced
        /\ replaced' = replaced \cup {n}
        /\ \/ \E data \in Search_SymbolLookup(n) : Divert(m, n, data)
           \/ /\ Search_SymbolLookup(n) = {}
              /\ \/ entry[m][n] = "REPLACE" /\ MakeUp(m, n)
                 \/ /\ entry[m][n] = "MUST"
                    /\ result' = "error"
                    /\ UNCHANGED <<search_module_symbols, address, first, behind>>
        /\ UNCHANGED <<inputs, module_index, link, has_error>>

\* The relocations of the module whose replacements are done; then the next one.
ResolveRelocations ==
    LET m == module_index
        missing == {n \in refs[m] : Search_SymbolLookup(n) = {}}
    IN  /\ result = "running"
        /\ m \in Modules
        /\ replaced = Replacements(m)
        /\ \E found \in [refs[m] \ missing -> Places] :
              /\ \A n \in refs[m] \ missing : found[n] \in Search_SymbolLookup(n)
              /\ link' = [link EXCEPT ![m] = [n \in Names |->
                             IF n \in refs[m] \ missing THEN found[n] ELSE Null]]
        /\ has_error' = (has_error \/ missing # {})
        /\ module_index' = m + 1
        /\ replaced' = {}
        /\ UNCHANGED <<inputs, search_module_symbols, address, first, behind, result>>

Finish ==
    /\ result = "running"
    /\ module_index > 0 /\ module_index \notin Modules
    /\ result' = IF has_error THEN "error" ELSE "success"
    /\ UNCHANGED <<inputs, module_index, replaced, search_module_symbols, address, first,
                   behind, link, has_error>>

LinkNext ==
    \/ Module_ListLoadSymbols
    \/ \E n \in Names : ReplaceFunction(n)
    \/ ResolveRelocations
    \/ Finish

LinkSpec == LinkInit /\ [][LinkNext]_linkVars

-----------------------------------------------------------------------------
(* Properties *)

\* Where control is after a branch to p: at the code that does the work.
Enter(p) == IF first[p] = Plain THEN behind[p] ELSE first[p]

\* The modules that replace n.
Replacing(n) == {m \in Modules : n \in Replacements(m)}
Exporting(n) == {m \in Modules : entry[m][n] = "EXPORT"}

\* The code that the replacements from module m on put in front of the game's function.
From(m, n) ==
    IF \E k \in Replacing(n) : k >= m
    THEN Hook(Min({k \in Replacing(n) : k >= m}), n)
    ELSE Game(n)

(***************************************************************************)
(* "multiple modules can replace the same function" (modules/README) and   *)
(* "otherwise two replacements to the same function will cause an infinite *)
(* loop" (Module_ListLinkFinal): the game's call of a function gets to the *)
(* first module's replacement, a module's call of it to the replacement of *)
(* the next module in the list that has one, and the last one's to the     *)
(* game's own code, so that each replacement runs once.                    *)
(***************************************************************************)
CalledInOrder ==
    result = "success" =>
        \A n \in Names : kind[n] = "found" /\ Exporting(n) = {} =>
            /\ Enter(Game(n)) = From(1, n)
            /\ \A m \in Modules : n \in refs[m] => Enter(link[m][n]) = From(m + 1, n)

\* The game does not have the function and no module provides it.
Missing(n) == kind[n] # "found" /\ Exporting(n) = {}

\* A reason to fail that modules/README names: a function that must be replaced is
\* missing, or one that is called is, and no module up to the caller made it up.
Unavailable(n) ==
    Missing(n) /\ \E m \in Modules :
        \/ entry[m][n] = "MUST"
        \/ n \in refs[m] /\ \A k \in 1 .. m : k \notin Replacing(n)

\* A function in no symbol file is replaced although another module provides or replaces it.
ProvidedTwice(n) ==
    kind[n] = "unknown" /\ Replacing(n) # {}
        /\ Cardinality(Replacing(n)) + Cardinality(Exporting(n)) > 1

(***************************************************************************)
(* A function that the game does not have "is skipped for BSLUG_REPLACE"   *)
(* and "multiple modules can replace the same function" (modules/README):  *)
(* modules that only replace functions of the game fail to load only when  *)
(* a function is unavailable.                                              *)
(***************************************************************************)
MissingSkipped ==
    result = "error" /\ (\A n \in Names : Exporting(n) = {}) => \E n \in Names : Unavailable(n)

(***************************************************************************)
(* The same of modules of which no two provide one function that is in no  *)
(* symbol file: Module_ListLinkFinal has no other way to fail.             *)
(***************************************************************************)
ErrorJustified ==
    result = "error" /\ (\A n \in Names : ~ProvidedTwice(n)) => \E n \in Names : Unavailable(n)

=============================================================================
