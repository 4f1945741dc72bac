------------------------------ MODULE SdMount ------------------------------
(***************************************************************************)
(* Mounting the SD card inside a game: SD_Mount (modules/libfat-sd/main.c) *)
(* may be called by every module from every thread, and starts the driver  *)
(* of the card slot (modules/libsd/wiisd.c), whose requests to IOS may all *)
(* fail.  A module that is called while the card is being mounted may call *)
(* SD_Mount again.                                                         *)
(***************************************************************************)
EXTENDS Integers, FiniteSets, Sequences

CONSTANTS
    Threads, NoThread,
    MaxTries,           \* how often the driver asks the card whether it is ready
    MaxCalls            \* bound: SD_Mount calls of a thread, one within the other

ASSUME SdMountAssumption == NoThread \notin Threads /\ MaxTries \in Nat \ {0} /\ MaxCalls \in Nat \ {0}

VARIABLES
    hasInit,
    mutex,              \* init_mutex: its owner and lock_count
    pc,                 \* the stack of each thread's calls of SD_Mount, the last one first
    sdio,               \* the driver's variables
    handles,            \* how many handles of /dev/sdio/slot0 IOS has open
    isHighCapacity      \* the card's kind

mountVars == <<hasInit, mutex, pc, sdio, handles, isHighCapacity>>

\* io is where sdio_Startup is; misread is history: an error was taken for the card's status.
DriverStopped == [io |-> "idle", fd |-> FALSE, sdio_initialized |-> FALSE, sd0_initialized |-> FALSE,
                  sdhc |-> FALSE, tries |-> 0, ok |-> FALSE, misread |-> FALSE]

MountInit ==
    /\ hasInit = FALSE
    /\ mutex = [owner |-> NoThread, lock_count |-> 0]
    /\ pc = [t \in Threads |-> << >>]
    /\ sdio = DriverStopped
    /\ handles = 0
    /\ isHighCapacity \in BOOLEAN

-----------------------------------------------------------------------------
(* SD_Mount *)

At(t, where) == pc[t] # << >> /\ pc[t][1] = where
Goto(t, where) == pc' = [pc EXCEPT ![t][1] = where]
Return(t) == pc' = [pc EXCEPT ![t] = Tail(@)]

\* Called from the game, or by a module that the driver or the file system has called.
Call(t) ==
    /\ Len(pc[t]) < MaxCalls
    /\ pc[t] = << >> \/ At(t, "startup") \/ At(t, "construct")
    /\ ~hasInit
    /\ pc' = [pc EXCEPT ![t] = <<"lock">> \o @]
    /\ UNCHANGED <<hasInit, mutex, sdio, handles, isHighCapacity>>

\* A mutex may be locked again by its owner.
OSLockMutex(t) ==
    /\ At(t, "lock")
    /\ mutex.owner \in {NoThread, t}
    /\ mutex' = [owner |-> t, lock_count |-> mutex.lock_count + 1]
    /\ Goto(t, "check")
    /\ UNCHANGED <<hasInit, sdio, handles, isHighCapacity>>

Unlocked == [owner |-> IF mutex.lock_count = 1 THEN NoThread ELSE mutex.owner, lock_count |-> mutex.lock_count - 1]

\* Mutant: a call within a call is not noticed.
Check_NoCycle(t) ==
    /\ At(t, "check")
    /\ IF hasInit
       THEN mutex' = Unlocked /\ Return(t)
       ELSE Goto(t, "startup") /\ UNCHANGED mutex
    /\ UNCHANGED <<hasInit, sdio, handles, isHighCapacity>>

Check(t) ==
    /\ At(t, "check")
    /\ IF hasInit \/ mutex.lock_count > 1
       THEN mutex' = Unlocked /\ Return(t)
       ELSE Goto(t, "startup") /\ UNCHANGED mutex
    /\ UNCHANGED <<hasInit, sdio, handles, isHighCapacity>>

-----------------------------------------------------------------------------
(* sdio_Startup and __sd0_initio *)

\* The driver goes from one place to another.
Io(t, from) == At(t, "startup") /\ sdio.io = from
MoveTo(to) == sdio' = [sdio EXCEPT !.io = to]
Idle == UNCHANGED <<hasInit, mutex, pc, isHighCapacity>>

\* The heap, the buffer and the handle.
Begin(t) ==
    /\ Io(t, "idle")
    /\ \/ sdio.sdio_initialized /\ sdio' = [sdio EXCEPT !.io = "end", !.ok = TRUE] /\ UNCHANGED handles
       \/ ~sdio.sdio_initialized /\ MoveTo("end") /\ UNCHANGED handles
       \/ /\ ~sdio.sdio_initialized
          /\ sdio' = [sdio EXCEPT !.io = "status", !.fd = TRUE]
          /\ handles' = handles + 1
    /\ Idle

(***************************************************************************)
(* IOS has initialized the card, has not, or there is none.  The error of  *)
(* a request that fails is taken for a status: an even one has no card in  *)
(* it, an odd one an initialized card of high capacity.                    *)
(***************************************************************************)
GetStatus(t) ==
    /\ Io(t, "status")
    /\ \/ MoveTo("end")
       \/ sdio' = [sdio EXCEPT !.io = "setup", !.sdhc = isHighCapacity, !.misread = FALSE]
       \/ sdio' = [sdio EXCEPT !.io = "setup", !.sdhc = TRUE, !.misread = TRUE]
       \/ MoveTo("reopen")
    /\ UNCHANGED handles
    /\ Idle

\* Mutant: the handle is not closed before it is opened again.
Reopened_Leak == handles + 1

\* The handles once one was closed, if there was one, and another opened.
Reopened == handles - (IF sdio.fd THEN 1 ELSE 0) + 1

\* The handle is opened again to make IOS clean up, and the host controller is reset.
Reopen(t) ==
    /\ Io(t, "reopen")
    /\ \/ /\ sdio' = [sdio EXCEPT !.io = "power", !.fd = TRUE]
          /\ handles' = Reopened
       \/ /\ sdio' = [sdio EXCEPT !.io = "fail", !.fd = FALSE]
          /\ handles' = Reopened - 1
    /\ Idle

\* Reset, interrupts, power, clock and time-out; each may fail.
PowerUp(t) ==
    /\ Io(t, "power")
    /\ \/ MoveTo("fail")
       \/ sdio' = [sdio EXCEPT !.io = "fail", !.sdhc = TRUE]
       \/ sdio' = [sdio EXCEPT !.io = "opcond", !.sdhc = TRUE, !.tries = MaxTries]
    /\ UNCHANGED handles
    /\ Idle

\* The card is asked until it is ready.
SendOpCond(t) ==
    /\ Io(t, "opcond")
    /\ \/ sdio.tries > 0 /\ sdio' = [sdio EXCEPT !.io = "ids", !.sdhc = isHighCapacity, !.misread = FALSE]
       \/ sdio.tries > 0 /\ sdio' = [sdio EXCEPT !.tries = @ - 1]
       \/ MoveTo("fail")
    /\ UNCHANGED handles
    /\ Idle

GetIds(t) ==
    /\ Io(t, "ids")
    /\ MoveTo("setup") \/ MoveTo("fail")
    /\ UNCHANGED handles
    /\ Idle

\* Bus width, clock, selection and block length.
SetUp(t) ==
    /\ Io(t, "setup")
    /\ \/ sdio' = [sdio EXCEPT !.io = "end", !.ok = TRUE, !.sd0_initialized = TRUE, !.sdio_initialized = TRUE]
       \/ MoveTo("end")
    /\ UNCHANGED handles
    /\ Idle

\* The controller is reset and the handle opened again, and closed at the end.
Failed(t) ==
    /\ Io(t, "fail")
    /\ \/ /\ sdio' = [sdio EXCEPT !.io = "end", !.fd = TRUE]
          /\ handles' = Reopened
       \/ /\ sdio' = [sdio EXCEPT !.io = "end", !.fd = FALSE]
          /\ handles' = Reopened - 1
    /\ Idle

\* sdio_Deinitialize
Deinitialized(d) == [d EXCEPT !.fd = FALSE, !.sdio_initialized = FALSE]
HandlesClosed == handles - (IF sdio.fd THEN 1 ELSE 0)

Startup(t) ==
    /\ Io(t, "end")
    /\ IF sdio.ok
       THEN /\ sdio' = [sdio EXCEPT !.io = "idle", !.ok = FALSE, !.tries = 0]
            /\ Goto(t, "construct")
            /\ UNCHANGED handles
       ELSE /\ sdio' = [Deinitialized(sdio) EXCEPT !.io = "idle", !.tries = 0]
            /\ handles' = HandlesClosed
            /\ Goto(t, "exit")
    /\ UNCHANGED <<hasInit, mutex, isHighCapacity>>

-----------------------------------------------------------------------------

\* FAT_partition_constructor, and sdio_Shutdown if it fails.
Construct(t) ==
    /\ At(t, "construct")
    /\ \/ /\ hasInit' = TRUE
          /\ UNCHANGED <<sdio, handles>>
       \/ /\ IF sdio.sd0_initialized
             THEN /\ sdio' = [Deinitialized(sdio) EXCEPT !.sd0_initialized = FALSE]
                  /\ handles' = HandlesClosed
             ELSE UNCHANGED <<sdio, handles>>
          /\ UNCHANGED hasInit
    /\ Goto(t, "exit")
    /\ UNCHANGED <<mutex, isHighCapacity>>

OSUnlockMutex(t) ==
    /\ At(t, "exit")
    /\ mutex' = Unlocked
    /\ Return(t)
    /\ UNCHANGED <<hasInit, sdio, handles, isHighCapacity>>

MountNext ==
    \E t \in Threads :
        \/ Call(t) \/ OSLockMutex(t) \/ Check(t)
        \/ Begin(t) \/ GetStatus(t) \/ Reopen(t) \/ PowerUp(t) \/ SendOpCond(t) \/ GetIds(t) \/ SetUp(t)
        \/ Failed(t) \/ Startup(t)
        \/ Construct(t) \/ OSUnlockMutex(t)

MountSpec == MountInit /\ [][MountNext]_mountVars

-----------------------------------------------------------------------------
(* Properties *)

\* The calls that are mounting the card.
Mounting == {c \in Threads \X (1 .. MaxCalls) :
                 c[2] \in DOMAIN pc[c[1]] /\ pc[c[1]][c[2]] \in {"startup", "construct"}}

(***************************************************************************)
(* Whatever threads and nested calls there are, one call at a time mounts  *)
(* the card, and none once it is mounted: the partition that the others    *)
(* use is not built again below them.                                      *)
(***************************************************************************)
MountedOnce == Cardinality(Mounting) + (IF hasInit THEN 1 ELSE 0) <= 1

\* What the driver was told of the card's kind.
KindTold == IF sdio.misread THEN TRUE ELSE isHighCapacity

(***************************************************************************)
(* After every error exit the driver has given its handle back, and a card *)
(* that is mounted has one and is addressed by its own kind of blocks, or, *)
(* after a request for its status that failed, by those of a card of high  *)
(* capacity.                                                               *)
(***************************************************************************)
DriverConsistent ==
    /\ handles = IF sdio.fd THEN 1 ELSE 0
    /\ Mounting = {} => (sdio.fd <=> hasInit) /\ (sdio.sd0_initialized <=> hasInit)
    /\ hasInit => sdio.sdhc = KindTold
=============================================================================
