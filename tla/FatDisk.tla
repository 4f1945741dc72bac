------------------------------ MODULE FatDisk ------------------------------
(***************************************************************************)
(* The parts of libfat below its files, which do not share state: the      *)
(* sector cache over the card, the card's driver and mounting, and the     *)
(* directories.  A behaviour is one of one part, the others rest.          *)
(***************************************************************************)
EXTENDS FatCache, SdMount, FatDir

VARIABLE part

diskPartVars == <<cacheVars, mountVars, dirVars, part>>

FatDiskInit ==
    /\ CacheInit /\ MountInit /\ DirInit
    /\ part \in {"cache", "mount", "directories"}
    \* A part that rests does so in one state.
    /\ part # "cache" => \A s \in Sectors : card[s] = CHOOSE v \in Values : TRUE
    /\ part # "mount" => ~isHighCapacity
    /\ part # "directories" => fs.p.filesysType = CHOOSE type \in FilesysTypes : TRUE

FatDiskNext ==
    \/ part = "cache" /\ CacheNext /\ UNCHANGED <<mountVars, dirVars, part>>
    \/ part = "mount" /\ MountNext /\ UNCHANGED <<cacheVars, dirVars, part>>
    \/ part = "directories" /\ DirNext /\ UNCHANGED <<cacheVars, mountVars, part>>

FatDiskSpec == FatDiskInit /\ [][FatDiskNext]_diskPartVars
=============================================================================
