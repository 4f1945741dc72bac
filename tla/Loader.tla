------------------------------- MODULE Loader -------------------------------
(***************************************************************************)
(* The four threads that load and patch the game: main (src/main.c), the   *)
(* apploader, the module loader and the symbol search.  They meet only at  *)
(* events, which are latches (Event), and share the SD card, the list of   *)
(* modules with the memory it needs, and the error flags.                  *)
(*                                                                         *)
(* What a file holds is a choice: a module of some size or nothing, symbols *)
(* or none; a step that reads, links or builds may fail where the code can. *)
(* The retries of the disc interface are one step that may take its time.  *)
(***************************************************************************)
EXTENDS Integers, FiniteSets

CONSTANTS
    MaxModules,         \* bound: modules on the SD card
    Sizes,              \* bound: what a module may need, in bytes
    MaxSections         \* bound: sections of the game

ASSUME LoaderAssumption ==
    /\ MaxModules \in Nat /\ MaxSections \in Nat
    /\ Sizes \subseteq Nat

Workers == {"apploader", "module", "search"}
Procs == Workers \cup {"main"}

Events == {"main_event_fat_loaded", "apploader_event_disk_id", "apploader_event_complete",
           "module_event_list_loaded", "module_event_complete", "search_event_complete"}

VARIABLES
    started,            \* worker threads that exist
    pc,                 \* where each thread is
    triggeredEvents,    \* the events that are triggered
    sd,                 \* "none", "mounted" or "unmounted"
    module_list_count,
    module_list_size,
    linked,             \* modules that Module_ListLink has linked
    has_error,          \* the threads that set module_has_error, search_has_error
    symbol_count,       \* 0, or 1 for any number of symbols
    sections,           \* sections of the game that are loaded
    placed,             \* the values of module_list_size the game was moved by
    apploader_game_entry_fn     \* FALSE for NULL

listVars == <<module_list_count, module_list_size, linked>>
gameVars == <<sections, placed, apploader_game_entry_fn>>
vars == <<started, pc, triggeredEvents, sd, listVars, has_error, symbol_count, gameVars>>

Init ==
    /\ started = {}
    /\ pc = [main |-> "start", apploader |-> "disc", module |-> "fat", search |-> "fat"]
    /\ triggeredEvents = {}
    /\ sd = "none"
    /\ module_list_count = 0
    /\ module_list_size = 0
    /\ linked = 0
    /\ has_error = {}
    /\ symbol_count = 0
    /\ sections = 0
    /\ placed = {}
    /\ apploader_game_entry_fn = FALSE

\* Thread p is at the label from, exists if it is a worker, and goes to another.
Go(p, from, to) ==
    /\ pc[p] = from
    /\ p \in Workers => p \in started
    /\ pc' = [pc EXCEPT ![p] = to]

IsTriggered(e) == e \in triggeredEvents
Trigger(e) == triggeredEvents' = triggeredEvents \cup {e}

-----------------------------------------------------------------------------
(* main *)

\* The initialisation of a subsystem or the creation of a thread may fail.
RunBackground ==
    /\ pc["main"] = "start"
    /\ \/ /\ started # Workers
          /\ started' = started \cup
                 {IF "apploader" \notin started THEN "apploader"
                  ELSE IF "module" \notin started THEN "module" ELSE "search"}
          /\ UNCHANGED pc
       \/ started = Workers /\ Go("main", "start", "sd") /\ UNCHANGED started
       \/ started # Workers /\ Go("main", "start", "exit") /\ UNCHANGED started
    /\ UNCHANGED <<triggeredEvents, sd, listVars, has_error, symbol_count, gameVars>>

MountSD ==
    /\ \/ Go("main", "sd", "settings") /\ sd' = "mounted" /\ Trigger("main_event_fat_loaded")
       \/ Go("main", "sd", "exit") /\ UNCHANGED <<sd, triggeredEvents>>
    /\ UNCHANGED <<started, listVars, has_error, symbol_count, gameVars>>

\* settings_load reads or writes the SD card.
LoadSettings ==
    /\ Go("main", "settings", "disk_id")
    /\ UNCHANGED <<started, triggeredEvents, sd, listVars, has_error, symbol_count, gameVars>>

MainWaitDisc ==
    /\ IsTriggered("apploader_event_disk_id")
    /\ Go("main", "disk_id", "list")
    /\ UNCHANGED <<started, triggeredEvents, sd, listVars, has_error, symbol_count, gameVars>>

MainWaitList ==
    /\ IsTriggered("module_event_list_loaded")
    /\ Go("main", "list", IF module_list_count = 0 THEN "exit" ELSE "patch")
    /\ UNCHANGED <<started, triggeredEvents, sd, listVars, has_error, symbol_count, gameVars>>

\* Mutant: the modules are not waited for.
Unmount_Early ==
    /\ IsTriggered("apploader_event_complete")
    /\ Go("main", "patch", "ready")
    /\ sd' = "unmounted"
    /\ UNCHANGED <<started, triggeredEvents, listVars, has_error, symbol_count, gameVars>>

Unmount ==
    /\ IsTriggered("apploader_event_complete")
    /\ IsTriggered("module_event_complete")
    /\ Go("main", "patch", "ready")
    /\ sd' = "unmounted"
    /\ UNCHANGED <<started, triggeredEvents, listVars, has_error, symbol_count, gameVars>>

\* The user starts the game, as host or as guest.
Launch ==
    /\ Go("main", "ready", IF "module" \notin has_error /\ apploader_game_entry_fn
                           THEN "launch" ELSE "exit")
    /\ UNCHANGED <<started, triggeredEvents, sd, listVars, has_error, symbol_count, gameVars>>

Main == RunBackground \/ MountSD \/ LoadSettings \/ MainWaitDisc \/ MainWaitList
            \/ Unmount \/ Launch

-----------------------------------------------------------------------------
(* The apploader *)

\* A disc is in the drive and the drive has been reset.
FindDisc ==
    /\ Go("apploader", "disc", "list")
    /\ Trigger("apploader_event_disk_id")
    /\ UNCHANGED <<started, sd, listVars, has_error, symbol_count, gameVars>>

\* Mutant: the game is loaded without waiting for the list of modules.
AploaderWaitList_Skip ==
    /\ Go("apploader", "list", "sections")
    /\ UNCHANGED <<started, triggeredEvents, sd, listVars, has_error, symbol_count, gameVars>>

AploaderWaitList ==
    /\ IsTriggered("module_event_list_loaded")
    /\ Go("apploader", "list", "sections")
    /\ UNCHANGED <<started, triggeredEvents, sd, listVars, has_error, symbol_count, gameVars>>

\* A section above APPLOADER_APP1_BOUNDARY is moved down to make room.
LoadSection ==
    /\ Go("apploader", "sections", "sections")
    /\ sections < MaxSections
    /\ sections' = sections + 1
    /\ placed' \in {placed, placed \cup {module_list_size}}
    /\ UNCHANGED <<started, triggeredEvents, sd, listVars, has_error, symbol_count,
                   apploader_game_entry_fn>>

\* The arena and the file table are moved too, and the entry point is known.
FinishGame ==
    /\ Go("apploader", "sections", "done")
    /\ placed' = placed \cup {module_list_size}
    /\ apploader_game_entry_fn' \in BOOLEAN
    /\ Trigger("apploader_event_complete")
    /\ UNCHANGED <<started, sd, listVars, has_error, symbol_count, sections>>

Aploader_Main == FindDisc \/ AploaderWaitList \/ LoadSection \/ FinishGame

-----------------------------------------------------------------------------
(* The module loader *)

ModuleWaitFat ==
    /\ IsTriggered("main_event_fat_loaded")
    /\ Go("module", "fat", "scan")
    /\ UNCHANGED <<started, triggeredEvents, sd, listVars, has_error, symbol_count, gameVars>>

\* A directory, or a module for one game, needs the disc's id.
ModuleNeedsDisc ==
    /\ \/ Go("module", "scan", "scan_disc")
       \/ IsTriggered("apploader_event_disk_id") /\ Go("module", "scan_disc", "scan")
    /\ UNCHANGED <<started, triggeredEvents, sd, listVars, has_error, symbol_count, gameVars>>

\* A valid module is added to the list; other files are ignored.
Module_LoadElf ==
    /\ Go("module", "scan", "scan")
    /\ module_list_count < MaxModules
    /\ module_list_count' = module_list_count + 1
    /\ \E size \in Sizes : module_list_size' = module_list_size + size
    /\ UNCHANGED <<started, triggeredEvents, sd, linked, has_error, symbol_count, gameVars>>

ModuleListLoaded ==
    /\ Go("module", "scan", "link")
    /\ module_list_size' = module_list_size + ((- module_list_size) % 32)
    /\ Trigger("module_event_list_loaded")
    /\ UNCHANGED <<started, sd, module_list_count, linked, has_error, symbol_count, gameVars>>

\* exit_error of Module_Main.
ModuleError ==
    /\ has_error' = has_error \cup {"module"}
    /\ Trigger("module_event_complete")

\* Each module is read again and linked; either may fail.
Module_ListLink ==
    /\ \/ /\ linked < module_list_count
          /\ Go("module", "link", "link")
          /\ linked' = linked + 1
          /\ UNCHANGED <<triggeredEvents, has_error>>
       \/ linked < module_list_count /\ Go("module", "link", "done") /\ ModuleError
             /\ UNCHANGED linked
       \/ linked = module_list_count /\ Go("module", "link", "apploader")
             /\ UNCHANGED <<linked, triggeredEvents, has_error>>
    /\ UNCHANGED <<started, sd, module_list_count, module_list_size, symbol_count, gameVars>>

ModuleWaitAploader ==
    /\ IsTriggered("apploader_event_complete")
    /\ Go("module", "apploader", "search")
    /\ UNCHANGED <<started, triggeredEvents, sd, listVars, has_error, symbol_count, gameVars>>

\* Mutant: an error of the search is not looked at.
ModuleWaitSearch_NoCheck ==
    /\ IsTriggered("search_event_complete")
    /\ Go("module", "search", "final")
    /\ UNCHANGED <<started, triggeredEvents, sd, listVars, has_error, symbol_count, gameVars>>

ModuleWaitSearch ==
    /\ IsTriggered("search_event_complete")
    /\ \/ /\ "search" \in has_error
          /\ Go("module", "search", "done")
          /\ ModuleError
       \/ /\ "search" \notin has_error
          /\ Go("module", "search", "final")
          /\ UNCHANGED <<triggeredEvents, has_error>>
    /\ UNCHANGED <<started, sd, listVars, symbol_count, gameVars>>

\* Module_ListLoadSymbols and Module_ListLinkFinal (module Link).
ModuleLinkFinal ==
    /\ Go("module", "final", "done")
    /\ \/ ModuleError
       \/ Trigger("module_event_complete") /\ UNCHANGED has_error
    /\ UNCHANGED <<started, sd, listVars, symbol_count, gameVars>>

Module_Main == ModuleWaitFat \/ ModuleNeedsDisc \/ Module_LoadElf \/ ModuleListLoaded
                   \/ Module_ListLink \/ ModuleWaitAploader \/ ModuleWaitSearch
                   \/ ModuleLinkFinal

-----------------------------------------------------------------------------
(* The symbol search *)

SearchWaitFat ==
    /\ IsTriggered("main_event_fat_loaded")
    /\ Go("search", "fat", "scan")
    /\ UNCHANGED <<started, triggeredEvents, sd, listVars, has_error, symbol_count, gameVars>>

SearchNeedsDisc ==
    /\ \/ Go("search", "scan", "scan_disc")
       \/ IsTriggered("apploader_event_disk_id") /\ Go("search", "scan_disc", "scan")
    /\ UNCHANGED <<started, triggeredEvents, sd, listVars, has_error, symbol_count, gameVars>>

Search_Load ==
    /\ Go("search", "scan", "scan")
    /\ symbol_count' = 1
    /\ UNCHANGED <<started, triggeredEvents, sd, listVars, has_error, gameVars>>

SearchLoaded ==
    /\ \/ /\ symbol_count = 0
          /\ Go("search", "scan", "done")
          /\ Trigger("search_event_complete")
       \/ symbol_count > 0 /\ Go("search", "scan", "build") /\ UNCHANGED triggeredEvents
    /\ UNCHANGED <<started, sd, listVars, has_error, symbol_count, gameVars>>

\* Mutant: the error exit does not trigger the event.
Search_BuildFSM_Silent ==
    /\ \/ /\ Go("search", "build", "done")
          /\ has_error' = has_error \cup {"search"}
       \/ Go("search", "build", "run") /\ UNCHANGED has_error
    /\ UNCHANGED <<started, triggeredEvents, sd, listVars, symbol_count, gameVars>>

Search_BuildFSM ==
    /\ \/ /\ Go("search", "build", "done")
          /\ has_error' = has_error \cup {"search"}
          /\ Trigger("search_event_complete")
       \/ Go("search", "build", "run") /\ UNCHANGED <<has_error, triggeredEvents>>
    /\ UNCHANGED <<started, sd, listVars, symbol_count, gameVars>>

\* The game is in memory: search it.
SearchRun ==
    /\ IsTriggered("apploader_event_complete")
    /\ Go("search", "run", "done")
    /\ Trigger("search_event_complete")
    /\ UNCHANGED <<started, sd, listVars, has_error, symbol_count, gameVars>>

Search_Main == SearchWaitFat \/ SearchNeedsDisc \/ Search_Load \/ SearchLoaded
                   \/ Search_BuildFSM \/ SearchRun

-----------------------------------------------------------------------------
Next == Main \/ Aploader_Main \/ Module_Main \/ Search_Main

(***************************************************************************)
(* The threads run, a disc is put in and read, the user presses a button,  *)
(* and a directory has an end: its scan is left in the end.                *)
(***************************************************************************)
Fairness ==
    /\ WF_vars(Main)
    /\ WF_vars(FindDisc \/ AploaderWaitList \/ FinishGame)
    /\ WF_vars(ModuleWaitFat) /\ SF_vars(ModuleListLoaded)
    /\ WF_vars(pc["module"] = "scan_disc" /\ ModuleNeedsDisc)
    /\ WF_vars(Module_ListLink \/ ModuleWaitAploader \/ ModuleWaitSearch \/ ModuleLinkFinal)
    /\ WF_vars(SearchWaitFat) /\ SF_vars(SearchLoaded)
    /\ WF_vars(pc["search"] = "scan_disc" /\ SearchNeedsDisc)
    /\ WF_vars(Search_BuildFSM \/ SearchRun)

Spec == Init /\ [][Next]_vars /\ Fairness

-----------------------------------------------------------------------------
(* Properties *)

\* Type invariant.
TypeOK ==
    /\ started \subseteq Workers
    /\ pc \in [Procs -> {"start", "sd", "settings", "disk_id", "list", "patch", "ready",
                         "launch", "exit", "disc", "sections", "done", "fat", "scan",
                         "scan_disc", "link", "apploader", "search", "final", "build", "run"}]
    /\ triggeredEvents \subseteq Events
    /\ sd \in {"none", "mounted", "unmounted"}
    /\ module_list_count \in 0 .. MaxModules
    /\ module_list_size \in Nat
    /\ linked \in 0 .. module_list_count
    /\ has_error \subseteq {"module", "search"}
    /\ symbol_count \in 0 .. 1
    /\ sections \in 0 .. MaxSections
    /\ placed \subseteq Nat
    /\ apploader_game_entry_fn \in BOOLEAN

(***************************************************************************)
(* Everything in the game's memory is moved down by one and the same       *)
(* module_list_size, the one that covers all modules.                      *)
(***************************************************************************)
SizeAgreed == placed \subseteq {module_list_size}

Reading(p) == pc[p] \in {"scan", "scan_disc", "link"}

(***************************************************************************)
(* main unmounts the SD card when no thread reads it any more, unless a    *)
(* module did not link: Module_Main then gives up without waiting for the  *)
(* search, which may still be reading.                                     *)
(***************************************************************************)
UnmountQuiet ==
    sd = "unmounted" =>
        /\ ~Reading("module")
        /\ Reading("search") => "module" \in has_error

(***************************************************************************)
(* A game is only launched when it is loaded, has been searched and has    *)
(* every module linked into it, without an error of any thread.            *)
(***************************************************************************)
LaunchReady ==
    pc["main"] = "launch" =>
        /\ \A p \in Workers : pc[p] = "done"
        /\ has_error = {}
        /\ linked = module_list_count /\ module_list_count > 0
        /\ apploader_game_entry_fn

(***************************************************************************)
(* The threads never wait for each other in a circle, on the error paths   *)
(* either: main always gets to the launch or to the exit.                  *)
(***************************************************************************)
Ends == <>(pc["main"] \in {"launch", "exit"})

=============================================================================
