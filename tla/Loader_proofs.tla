---------------------------- MODULE Loader_proofs ----------------------------
(***************************************************************************)
(* Proofs about the loader's threads, for every number of modules, their   *)
(* sizes and the sections of the game: what has been announced by an event *)
(* stays true, so the threads agree on the size of the modules, the card   *)
(* is unmounted when no thread reads it, and a game that is launched is    *)
(* complete.                                                               *)
(***************************************************************************)
EXTENDS Loader, TLAPS

\* All labels of the four threads.
Places == {"start", "sd", "settings", "disk_id", "list", "patch", "ready", "launch", "exit", "disc",
           "sections", "done", "fat", "scan", "scan_disc", "link", "apploader", "search", "final",
           "build", "run"}

\* Where each thread can be.
Labels ==
    /\ pc["main"] \in {"start", "sd", "settings", "disk_id", "list", "patch", "ready", "launch", "exit"}
    /\ pc["apploader"] \in {"disc", "list", "sections", "done"}
    /\ pc["module"] \in {"fat", "scan", "scan_disc", "link", "apploader", "search", "final", "done"}
    /\ pc["search"] \in {"fat", "scan", "scan_disc", "build", "run", "done"}

\* An event that is triggered tells where the thread that triggers it has got to.
Announced ==
    /\ "module_event_list_loaded" \in triggeredEvents => pc["module"] \notin {"fat", "scan", "scan_disc"}
    /\ "apploader_event_complete" \in triggeredEvents => pc["apploader"] = "done"
    /\ "module_event_complete" \in triggeredEvents => pc["module"] = "done"
    /\ "search_event_complete" \in triggeredEvents => pc["search"] = "done"

\* The list of modules is complete before anything is moved by its size.
PlacedLate ==
    /\ pc["apploader"] \in {"sections", "done"} => "module_event_list_loaded" \in triggeredEvents
    /\ placed # {} => pc["apploader"] \in {"sections", "done"}

\* The module loader gives up, or has waited for the search and linked everything.
LinkedOrFailed ==
    /\ pc["module"] \in {"apploader", "search", "final"} => linked = module_list_count
    /\ pc["module"] = "final" => "search_event_complete" \in triggeredEvents /\ has_error = {}
    /\ pc["module"] = "done" =>
        \/ "module" \in has_error
        \/ "search_event_complete" \in triggeredEvents /\ has_error = {} /\ linked = module_list_count
    /\ "module" \in has_error => pc["module"] = "done"

\* main goes on when both are complete.
MainWaited ==
    /\ sd = "unmounted" \/ pc["main"] \in {"ready", "launch"} =>
        {"apploader_event_complete", "module_event_complete"} \subseteq triggeredEvents
    /\ pc["main"] \in {"patch", "ready", "launch"} => module_list_count > 0
    /\ pc["main"] = "launch" => "module" \notin has_error /\ apploader_game_entry_fn

LoaderInv ==
    TypeOK /\ Labels /\ Announced /\ PlacedLate /\ SizeAgreed /\ LinkedOrFailed /\ MainWaited

-----------------------------------------------------------------------------
\* The initial state satisfies the invariant.
LEMMA LoaderInvInit == Init => LoaderInv
  <1> SUFFICES ASSUME Init PROVE LoaderInv
    OBVIOUS
  <1>1. TypeOK
    <2>1. pc["main"] = "start" /\ pc["apploader"] = "disc" /\ pc["module"] = "fat" /\ pc["search"] = "fat"
      BY DEF Init
    <2>2. apploader_game_entry_fn \in BOOLEAN
      BY Zenon DEF Init
    <2> QED BY <2>1, <2>2, LoaderAssumption DEF Init, TypeOK, Procs, Workers, Events
  <1>2. Labels /\ Announced /\ PlacedLate /\ SizeAgreed /\ LinkedOrFailed /\ MainWaited
    BY DEF Init, Labels, Announced, PlacedLate, SizeAgreed, LinkedOrFailed, MainWaited
  <1> QED BY <1>1, <1>2 DEF LoaderInv

\* No step of main breaks the invariant.
LEMMA MainKeeps ==
    ASSUME LoaderInv, Main
    PROVE  LoaderInv'
  <1> USE LoaderAssumption DEF LoaderInv, TypeOK, Go, IsTriggered, Trigger, Procs, Workers, Events,
                               listVars, gameVars
  <1>1. CASE RunBackground
    <2>1. TypeOK'
      BY <1>1 DEF RunBackground
    <2>2. Labels' /\ Announced' /\ PlacedLate' /\ SizeAgreed' /\ LinkedOrFailed' /\ MainWaited'
      BY <1>1 DEF RunBackground, Labels, Announced, PlacedLate, SizeAgreed, LinkedOrFailed, MainWaited
    <2> QED BY <2>1, <2>2
  <1>2. CASE MountSD
    <2>1. TypeOK'
      BY <1>2 DEF MountSD
    <2>2. Labels' /\ Announced' /\ PlacedLate' /\ SizeAgreed' /\ LinkedOrFailed' /\ MainWaited'
      BY <1>2 DEF MountSD, Labels, Announced, PlacedLate, SizeAgreed, LinkedOrFailed, MainWaited
    <2> QED BY <2>1, <2>2
  <1>3. CASE LoadSettings
    <2>1. TypeOK'
      BY <1>3 DEF LoadSettings
    <2>2. Labels' /\ Announced' /\ PlacedLate' /\ SizeAgreed' /\ LinkedOrFailed' /\ MainWaited'
      BY <1>3 DEF LoadSettings, Labels, Announced, PlacedLate, SizeAgreed, LinkedOrFailed, MainWaited
    <2> QED BY <2>1, <2>2
  <1>4. CASE MainWaitDisc
    <2>1. TypeOK'
      BY <1>4 DEF MainWaitDisc
    <2>2. Labels' /\ Announced' /\ PlacedLate' /\ SizeAgreed' /\ LinkedOrFailed' /\ MainWaited'
      BY <1>4 DEF MainWaitDisc, Labels, Announced, PlacedLate, SizeAgreed, LinkedOrFailed, MainWaited
    <2> QED BY <2>1, <2>2
  <1>5. CASE MainWaitList
    <2>1. TypeOK'
      BY <1>5 DEF MainWaitList
    <2>2. Labels' /\ Announced' /\ PlacedLate' /\ SizeAgreed' /\ LinkedOrFailed' /\ MainWaited'
      BY <1>5 DEF MainWaitList, Labels, Announced, PlacedLate, SizeAgreed, LinkedOrFailed, MainWaited
    <2> QED BY <2>1, <2>2
  <1>6. CASE Unmount
    <2>1. TypeOK'
      BY <1>6 DEF Unmount
    <2>2. Labels' /\ Announced' /\ PlacedLate' /\ SizeAgreed' /\ LinkedOrFailed' /\ MainWaited'
      BY <1>6 DEF Unmount, Labels, Announced, PlacedLate, SizeAgreed, LinkedOrFailed, MainWaited
    <2> QED BY <2>1, <2>2
  <1>7. CASE Launch
    <2>1. TypeOK'
      BY <1>7 DEF Launch
    <2>2. Labels' /\ Announced' /\ PlacedLate' /\ SizeAgreed' /\ LinkedOrFailed' /\ MainWaited'
      BY <1>7 DEF Launch, Labels, Announced, PlacedLate, SizeAgreed, LinkedOrFailed, MainWaited
    <2> QED BY <2>1, <2>2
  <1> QED BY <1>1, <1>2, <1>3, <1>4, <1>5, <1>6, <1>7 DEF Main

\* No step of the apploader breaks the invariant.
LEMMA AploaderMainKeeps ==
    ASSUME LoaderInv, Aploader_Main
    PROVE  LoaderInv'
  <1> USE LoaderAssumption DEF LoaderInv, TypeOK, Go, IsTriggered, Trigger, Procs, Workers, Events,
                               listVars, gameVars
  <1>1. CASE FindDisc
    <2>1. TypeOK'
      BY <1>1 DEF FindDisc
    <2>2. Labels' /\ Announced' /\ PlacedLate' /\ SizeAgreed' /\ LinkedOrFailed' /\ MainWaited'
      BY <1>1 DEF FindDisc, Labels, Announced, PlacedLate, SizeAgreed, LinkedOrFailed, MainWaited
    <2> QED BY <2>1, <2>2
  <1>2. CASE AploaderWaitList
    <2>1. TypeOK'
      BY <1>2 DEF AploaderWaitList
    <2>2. Labels' /\ Announced' /\ PlacedLate' /\ SizeAgreed' /\ LinkedOrFailed' /\ MainWaited'
      BY <1>2 DEF AploaderWaitList, Labels, Announced, PlacedLate, SizeAgreed, LinkedOrFailed, MainWaited
    <2> QED BY <2>1, <2>2
  <1>3. CASE LoadSection
    <2>1. TypeOK'
      BY <1>3 DEF LoadSection
    <2>2. Labels' /\ Announced' /\ PlacedLate' /\ SizeAgreed' /\ LinkedOrFailed' /\ MainWaited'
      BY <1>3 DEF LoadSection, Labels, Announced, PlacedLate, SizeAgreed, LinkedOrFailed, MainWaited
    <2> QED BY <2>1, <2>2
  <1>4. CASE FinishGame
    <2>1. TypeOK'
      BY <1>4 DEF FinishGame
    <2>2. Labels' /\ Announced' /\ PlacedLate' /\ SizeAgreed' /\ LinkedOrFailed' /\ MainWaited'
      BY <1>4 DEF FinishGame, Labels, Announced, PlacedLate, SizeAgreed, LinkedOrFailed, MainWaited
    <2> QED BY <2>1, <2>2
  <1> QED BY <1>1, <1>2, <1>3, <1>4 DEF Aploader_Main

\* No step of the module loader breaks the invariant.
LEMMA ModuleMainKeeps ==
    ASSUME LoaderInv, Module_Main
    PROVE  LoaderInv'
  <1> USE LoaderAssumption DEF LoaderInv, TypeOK, Go, IsTriggered, Trigger, Procs, Workers, Events,
                               listVars, gameVars
  <1>1. CASE ModuleWaitFat
    <2>1. TypeOK'
      BY <1>1 DEF ModuleWaitFat
    <2>2. Labels' /\ Announced' /\ PlacedLate' /\ SizeAgreed' /\ LinkedOrFailed' /\ MainWaited'
      BY <1>1 DEF ModuleWaitFat, Labels, Announced, PlacedLate, SizeAgreed, LinkedOrFailed, MainWaited
    <2> QED BY <2>1, <2>2
  <1>2. CASE ModuleNeedsDisc
    <2>1. TypeOK'
      BY <1>2 DEF ModuleNeedsDisc
    <2>2. Labels' /\ Announced' /\ PlacedLate' /\ SizeAgreed' /\ LinkedOrFailed' /\ MainWaited'
      BY <1>2 DEF ModuleNeedsDisc, Labels, Announced, PlacedLate, SizeAgreed, LinkedOrFailed, MainWaited
    <2> QED BY <2>1, <2>2
  <1>3. CASE Module_LoadElf
    <2>1. TypeOK'
      BY <1>3 DEF Module_LoadElf
    <2>2. Labels' /\ Announced' /\ PlacedLate' /\ SizeAgreed' /\ LinkedOrFailed' /\ MainWaited'
      BY <1>3 DEF Module_LoadElf, Labels, Announced, PlacedLate, SizeAgreed, LinkedOrFailed, MainWaited
    <2> QED BY <2>1, <2>2
  <1>4. CASE ModuleListLoaded
    <2>1. TypeOK'
      BY <1>4 DEF ModuleListLoaded
    <2>2. Labels' /\ Announced' /\ PlacedLate' /\ SizeAgreed' /\ LinkedOrFailed' /\ MainWaited'
      BY <1>4 DEF ModuleListLoaded, Labels, Announced, PlacedLate, SizeAgreed, LinkedOrFailed, MainWaited
    <2> QED BY <2>1, <2>2
  <1>5. CASE Module_ListLink
    <2>a. pc' \in [Procs -> Places]
      BY <1>5 DEF Module_ListLink, Places
    <2>b. triggeredEvents' \subseteq Events
      BY <1>5 DEF Module_ListLink, ModuleError
    <2>c. linked' \in 0 .. module_list_count
      BY <1>5 DEF Module_ListLink, ModuleError
    <2>d. has_error' \subseteq {"module", "search"}
      BY <1>5 DEF Module_ListLink, ModuleError
    <2>1. TypeOK'
      BY <1>5, <2>a, <2>b, <2>c, <2>d DEF Module_ListLink, Places
    <2>2. Labels' /\ Announced' /\ PlacedLate' /\ SizeAgreed' /\ LinkedOrFailed' /\ MainWaited'
      BY <1>5 DEF Module_ListLink, ModuleError, Labels, Announced, PlacedLate, SizeAgreed, LinkedOrFailed, MainWaited
    <2> QED BY <2>1, <2>2
  <1>6. CASE ModuleWaitAploader
    <2>1. TypeOK'
      BY <1>6 DEF ModuleWaitAploader
    <2>2. Labels' /\ Announced' /\ PlacedLate' /\ SizeAgreed' /\ LinkedOrFailed' /\ MainWaited'
      BY <1>6 DEF ModuleWaitAploader, Labels, Announced, PlacedLate, SizeAgreed, LinkedOrFailed, MainWaited
    <2> QED BY <2>1, <2>2
  <1>7. CASE ModuleWaitSearch
    <2>a. pc' \in [Procs -> Places]
      BY <1>7 DEF ModuleWaitSearch, Places
    <2>b. triggeredEvents' \subseteq Events
      BY <1>7 DEF ModuleWaitSearch, ModuleError
    <2>c. linked' \in 0 .. module_list_count
      BY <1>7 DEF ModuleWaitSearch, ModuleError
    <2>d. has_error' \subseteq {"module", "search"}
      BY <1>7 DEF ModuleWaitSearch, ModuleError
    <2>1. TypeOK'
      BY <1>7, <2>a, <2>b, <2>c, <2>d DEF ModuleWaitSearch, Places
    <2>2. CASE "search" \in has_error
      <3>1. pc["module"] = "search" /\ pc' = [pc EXCEPT !["module"] = "done"] /\ ModuleError
        BY <1>7, <2>2 DEF ModuleWaitSearch
      <3> QED BY <1>7, <2>1, <3>1 DEF ModuleWaitSearch, ModuleError, Labels, Announced, PlacedLate, SizeAgreed, LinkedOrFailed, MainWaited
    <2>3. CASE "search" \notin has_error
      <3>1. pc["module"] = "search" /\ pc' = [pc EXCEPT !["module"] = "final"]
            /\ UNCHANGED <<triggeredEvents, has_error>>
        BY <1>7, <2>3 DEF ModuleWaitSearch
      <3>2. has_error = {}
        BY <2>3, <3>1 DEF LinkedOrFailed
      <3> QED BY <1>7, <2>1, <3>1, <3>2 DEF ModuleWaitSearch, Labels, Announced, PlacedLate, SizeAgreed, LinkedOrFailed, MainWaited
    <2> QED BY <2>2, <2>3
  <1>8. CASE ModuleLinkFinal
    <2>1. TypeOK'
      BY <1>8 DEF ModuleLinkFinal, ModuleError
    <2>2. Labels' /\ Announced' /\ PlacedLate' /\ SizeAgreed' /\ LinkedOrFailed' /\ MainWaited'
      BY <1>8 DEF ModuleLinkFinal, ModuleError, Labels, Announced, PlacedLate, SizeAgreed, LinkedOrFailed, MainWaited
    <2> QED BY <2>1, <2>2
  <1> QED BY <1>1, <1>2, <1>3, <1>4, <1>5, <1>6, <1>7, <1>8 DEF Module_Main

\* No step of the symbol search breaks the invariant.
LEMMA SearchMainKeeps ==
    ASSUME LoaderInv, Search_Main
    PROVE  LoaderInv'
  <1> USE LoaderAssumption DEF LoaderInv, TypeOK, Go, IsTriggered, Trigger, Procs, Workers, Events,
                               listVars, gameVars
  <1>1. CASE SearchWaitFat
    <2>1. TypeOK'
      BY <1>1 DEF SearchWaitFat
    <2>2. Labels' /\ Announced' /\ PlacedLate' /\ SizeAgreed' /\ LinkedOrFailed' /\ MainWaited'
      BY <1>1 DEF SearchWaitFat, Labels, Announced, PlacedLate, SizeAgreed, LinkedOrFailed, MainWaited
    <2> QED BY <2>1, <2>2
  <1>2. CASE SearchNeedsDisc
    <2>1. TypeOK'
      BY <1>2 DEF SearchNeedsDisc
    <2>2. Labels' /\ Announced' /\ PlacedLate' /\ SizeAgreed' /\ LinkedOrFailed' /\ MainWaited'
      BY <1>2 DEF SearchNeedsDisc, Labels, Announced, PlacedLate, SizeAgreed, LinkedOrFailed, MainWaited
    <2> QED BY <2>1, <2>2
  <1>3. CASE Search_Load
    <2>1. TypeOK'
      BY <1>3 DEF Search_Load
    <2>2. Labels' /\ Announced' /\ PlacedLate' /\ SizeAgreed' /\ LinkedOrFailed' /\ MainWaited'
      BY <1>3 DEF Search_Load, Labels, Announced, PlacedLate, SizeAgreed, LinkedOrFailed, MainWaited
    <2> QED BY <2>1, <2>2
  <1>4. CASE SearchLoaded
    <2>1. TypeOK'
      <3>1. \/ pc' = [pc EXCEPT !["search"] = "done"] /\ triggeredEvents' = triggeredEvents \cup {"search_event_complete"}
            \/ pc' = [pc EXCEPT !["search"] = "build"] /\ triggeredEvents' = triggeredEvents
        BY <1>4 DEF SearchLoaded
      <3>2. UNCHANGED <<started, sd, listVars, has_error, symbol_count, gameVars>>
        BY <1>4 DEF SearchLoaded
      <3> QED BY <3>1, <3>2
    <2>2. Labels' /\ Announced'
      BY <1>4 DEF SearchLoaded, Labels, Announced
    <2>3. PlacedLate' /\ SizeAgreed'
      BY <1>4 DEF SearchLoaded, Labels, PlacedLate, SizeAgreed
    <2>4. LinkedOrFailed'
      <3>1. pc'["module"] = pc["module"] /\ UNCHANGED <<linked, module_list_count, has_error>>
        BY <1>4 DEF SearchLoaded
      <3>2. triggeredEvents \subseteq triggeredEvents'
        BY <1>4 DEF SearchLoaded
      <3> QED BY <3>1, <3>2 DEF LinkedOrFailed
    <2>5. MainWaited'
      BY <1>4 DEF SearchLoaded, Labels, LinkedOrFailed, MainWaited
    <2> QED BY <2>1, <2>2, <2>3, <2>4, <2>5
  <1>5. CASE Search_BuildFSM
    <2>1. TypeOK'
      <3>1. /\ \E to \in {"done", "run"} : pc' = [pc EXCEPT !["search"] = to]
            /\ triggeredEvents' \subseteq triggeredEvents \cup {"search_event_complete"}
            /\ has_error' \subseteq has_error \cup {"search"}
        BY <1>5 DEF Search_BuildFSM
      <3>2. UNCHANGED <<started, sd, listVars, symbol_count, gameVars>>
        BY <1>5 DEF Search_BuildFSM
      <3> QED BY <3>1, <3>2
    <2>2. Labels' /\ Announced'
      BY <1>5 DEF Search_BuildFSM, Labels, Announced
    <2>3. PlacedLate' /\ SizeAgreed'
      BY <1>5 DEF Search_BuildFSM, Labels, PlacedLate, SizeAgreed
    <2>4. LinkedOrFailed'
      <3>1. pc'["module"] = pc["module"] /\ UNCHANGED <<linked, module_list_count>>
        BY <1>5 DEF Search_BuildFSM
      <3>2. has_error' = has_error \/ has_error' = has_error \cup {"search"}
        BY <1>5 DEF Search_BuildFSM
      <3>3. "search_event_complete" \notin triggeredEvents
        BY <1>5 DEF Search_BuildFSM, Announced
      <3> QED BY <3>1, <3>2, <3>3 DEF LinkedOrFailed
    <2>5. MainWaited'
      BY <1>5 DEF Search_BuildFSM, Labels, LinkedOrFailed, MainWaited
    <2> QED BY <2>1, <2>2, <2>3, <2>4, <2>5
  <1>6. CASE SearchRun
    <2>1. TypeOK'
      BY <1>6 DEF SearchRun
    <2>2. Labels' /\ Announced'
      BY <1>6 DEF SearchRun, Labels, Announced
    <2>3. PlacedLate' /\ SizeAgreed'
      BY <1>6 DEF SearchRun, Labels, PlacedLate, SizeAgreed
    <2>4. LinkedOrFailed'
      BY <1>6 DEF SearchRun, Labels, Announced, LinkedOrFailed
    <2>5. MainWaited'
      BY <1>6 DEF SearchRun, Labels, LinkedOrFailed, MainWaited
    <2> QED BY <2>1, <2>2, <2>3, <2>4, <2>5
  <1> QED BY <1>1, <1>2, <1>3, <1>4, <1>5, <1>6 DEF Search_Main

\* The invariant holds in every reachable state.
LEMMA LoaderInvariant == Spec => []LoaderInv
  <1>1. LoaderInv /\ UNCHANGED vars => LoaderInv'
    BY DEF LoaderInv, TypeOK, Labels, Announced, PlacedLate, SizeAgreed, LinkedOrFailed, MainWaited,
           vars, listVars, gameVars
  <1>2. LoaderInv /\ [Next]_vars => LoaderInv'
    BY <1>1, MainKeeps, AploaderMainKeeps, ModuleMainKeeps, SearchMainKeeps DEF Next
  <1> QED BY <1>2, LoaderInvInit, PTL DEF Spec

-----------------------------------------------------------------------------
(***************************************************************************)
(* However many modules there are and whatever they need, the apploader    *)
(* moves every section, the arena and the file table of the game down by   *)
(* the same module_list_size: it waits for module_event_list_loaded, and   *)
(* the module loader never changes the size after it has triggered that.   *)
(***************************************************************************)
THEOREM LoaderSizeAgreed == Spec => []SizeAgreed
  BY LoaderInvariant, PTL DEF LoaderInv

(***************************************************************************)
(* main unmounts the SD card after module_event_complete, and then neither *)
(* the module loader nor the search reads it, except that the search may   *)
(* still be reading when Module_Main has left by its error exit.           *)
(***************************************************************************)
THEOREM LoaderUnmountQuiet == Spec => []UnmountQuiet
  <1>1. LoaderInv => UnmountQuiet
    BY DEF LoaderInv, Announced, LinkedOrFailed, MainWaited, UnmountQuiet, Reading
  <1> QED BY <1>1, LoaderInvariant, PTL

(***************************************************************************)
(* main launches the game only when all three threads have finished, none  *)
(* of them with an error, all modules are linked, and the entry point of   *)
(* the game is known, although main itself only looks at module_has_error  *)
(* and at the entry point.                                                 *)
(***************************************************************************)
THEOREM LoaderLaunchReady == Spec => []LaunchReady
  <1>1. LoaderInv => LaunchReady
    BY DEF LoaderInv, Announced, LinkedOrFailed, MainWaited, LaunchReady, Workers
  <1> QED BY <1>1, LoaderInvariant, PTL

=============================================================================
