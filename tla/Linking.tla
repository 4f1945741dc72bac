------------------------------ MODULE Linking ------------------------------
(***************************************************************************)
(* The stages that a module file goes through and that do not share state: *)
(* its data are translated by libelf, its functions are searched for in    *)
(* the game, memory is kept free for it, its sections are relocated, and   *)
(* the modules are linked with each other and with the game.  A behaviour  *)
(* is one of one part, the others rest.                                    *)
(***************************************************************************)
EXTENDS ElfXlate, Search, Layout, Reloc, Link

VARIABLE part

linkingVars == <<elfVars, searchVars, layoutVars, relocVars, linkVars, part>>

\* The last part while another one runs.
LinkRests ==
    /\ kind = << >> /\ entry = << >> /\ refs = << >>
    /\ module_index = 0 /\ replaced = {} /\ search_module_symbols = {}
    /\ address = << >> /\ first = << >> /\ behind = << >> /\ link = << >>
    /\ has_error = FALSE /\ result = "running"

LinkingInit ==
    /\ ElfInit /\ SearchInit /\ LayoutInit /\ RelocInit
    /\ part \in {"libelf", "search", "layout", "relocation", "link"}
    /\ IF part = "link" THEN LinkInit ELSE LinkRests

LinkingNext ==
    /\ UNCHANGED part
    /\ \/ part = "libelf" /\ ElfNext /\ UNCHANGED <<searchVars, layoutVars, relocVars, linkVars>>
       \/ part = "search" /\ SearchNext /\ UNCHANGED <<elfVars, layoutVars, relocVars, linkVars>>
       \/ part = "layout" /\ LayoutNext /\ UNCHANGED <<elfVars, searchVars, relocVars, linkVars>>
       \/ part = "relocation" /\ RelocNext /\ UNCHANGED <<elfVars, searchVars, layoutVars, linkVars>>
       \/ part = "link" /\ LinkNext /\ UNCHANGED <<elfVars, searchVars, layoutVars, relocVars>>

LinkingSpec == LinkingInit /\ [][LinkingNext]_linkingVars
=============================================================================
