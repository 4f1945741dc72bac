------------------------------ MODULE DiscSync ------------------------------
(***************************************************************************)
(* Synchronised completion of disc reads (modules/netslug_main/main.c).    *)
(*                                                                         *)
(* The game's asynchronous disc reads finish at different times on the two *)
(* consoles, so the game's callback is held back in IoctlBuffer until both *)
(* consoles have issued the read and the host has put its sector in a      *)
(* frame's callback_sector; each console then calls the game back when it  *)
(* advances to that frame.  Both games issue the same reads in the same    *)
(* order, MaxOutstanding at a time, and a read is named by its number.     *)
(*                                                                         *)
(* Frames are counted relative to the frame each game is playing: a queue  *)
(* holds the callback_sector of every frame that is broadcast but not yet  *)
(* played, and the readings of NetPlay are tokens.  They matter here       *)
(* because reads and readings share the stream to the host: a recv thread  *)
(* that waits for a free entry of IoctlBuffer holds up the readings that   *)
(* the host's game needs to advance, and so to free an entry.              *)
(***************************************************************************)
EXTENDS Integers, Sequences, FiniteSets, FiniteSetsExt

CONSTANTS
    BUFFER_SIZE,            \* frames in the ring of control packets
    IOCTL_BUFFER_SIZE,      \* entries of IoctlBuffer
    Reads,                  \* how many reads the game issues
    MaxOutstanding,         \* how many it issues without waiting
    Refused                 \* the reads that IOS refuses, on both consoles

ASSUME DiscAssumption ==
    /\ BUFFER_SIZE \in Nat /\ BUFFER_SIZE >= 3
    /\ IOCTL_BUFFER_SIZE \in Nat \ {0}
    /\ Reads \in Nat /\ MaxOutstanding \in Nat
    /\ Refused \subseteq 1 .. Reads

Host == 0
Guest == 1
Consoles == {Host, Guest}
Sectors == 1 .. Reads
NoSector == 0
Index == 0 .. IOCTL_BUFFER_SIZE - 1

VARIABLES
    IoctlBuffer,    \* by console and index
    issued,         \* by console: reads the game has issued
    read,           \* by console and sector: the game's view of the read
    toHost,         \* the stream to the host: readings and sectors
    ahead,          \* by console: the guest's readings it has for frames to come
    frames,         \* by console: callback_sector of the frames it may play next
    toGuest         \* the stream to the guest: callback_sector of each frame

vars == <<IoctlBuffer, issued, read, toHost, ahead, frames, toGuest>>

\* A controller packet in the stream to the host; a sector is a di_read packet.
Reading == -1

\* IoctlManager.state: 0 free, 1 issued, 2 the disc has answered.
EmptyEntry == [state |-> 0, sector |-> NoSector, pending |-> FALSE,
               haveCallback |-> [n \in Consoles |-> FALSE], haveSent |-> FALSE]

Init ==
    /\ IoctlBuffer = [n \in Consoles |-> [i \in Index |-> EmptyEntry]]
    /\ issued = [n \in Consoles |-> 0]
    /\ read = [n \in Consoles |-> [s \in Sectors |-> "none"]]
    /\ toHost = << >>
    /\ ahead = [n \in Consoles |-> 0]
    /\ frames = [n \in Consoles |-> << >>]
    /\ toGuest = << >>

-----------------------------------------------------------------------------
(***************************************************************************)
(* IoctlBufferAllocator: the entry that has the sector, else the first     *)
(* free one; when there is neither the caller sleeps.                      *)
(***************************************************************************)
Holding(n, s) == {i \in Index : IoctlBuffer[n][i].state >= 1 /\ IoctlBuffer[n][i].sector = s}
Free(n) == {i \in Index : IoctlBuffer[n][i].state = 0}

\* Mutant: always takes a free entry.
Candidates_NoLookup(n, s) == Free(n)

Candidates(n, s) == IF Holding(n, s) # {} THEN Holding(n, s) ELSE Free(n)

Allocated(n, s, i) ==
    IF IoctlBuffer[n][i].state = 0
    THEN [EmptyEntry EXCEPT !.state = 1, !.sector = s]
    ELSE IoctlBuffer[n][i]

(***************************************************************************)
(* MyIOS_IoctlAsync, up to the call of ProcessPacket: the read is given to *)
(* IOS with ourCallback.  A read that IOS refuses frees its entry.         *)
(***************************************************************************)
IssueRead(n) ==
    LET s == issued[n] + 1
        open == {t \in Sectors : read[n][t] \in {"issued", "registered"}}
    IN  /\ s \in Sectors
        /\ Cardinality(open) < MaxOutstanding
        /\ Candidates(n, s) # {}
        /\ issued' = [issued EXCEPT ![n] = s]
        /\ LET i == Min(Candidates(n, s))
           IN  IF s \in Refused
               THEN /\ IoctlBuffer' = [IoctlBuffer EXCEPT ![n][i] =
                                          [Allocated(n, s, i) EXCEPT !.state = 0]]
                    /\ read' = [read EXCEPT ![n][s] = "refused"]
               ELSE /\ IoctlBuffer' = [IoctlBuffer EXCEPT ![n][i] =
                                          [Allocated(n, s, i) EXCEPT !.pending = TRUE]]
                    /\ read' = [read EXCEPT ![n][s] = "issued"]
        /\ UNCHANGED <<toHost, ahead, frames, toGuest>>

\* ProcessPacket of the host for a read of console p.
HaveCallback(s, p) ==
    /\ Candidates(Host, s) # {}
    /\ LET i == Min(Candidates(Host, s))
       IN  IoctlBuffer' = [IoctlBuffer EXCEPT ![Host][i] =
                              [Allocated(Host, s, i) EXCEPT !.haveCallback[p] = TRUE]]

\* MyIOS_IoctlAsync calls ProcessPacket: the host is told of the read.
Register(n, s) ==
    /\ read[n][s] = "issued"
    /\ read' = [read EXCEPT ![n][s] = "registered"]
    /\ IF n = Host
       THEN HaveCallback(s, Host) /\ UNCHANGED toHost
       ELSE toHost' = Append(toHost, s) /\ UNCHANGED IoctlBuffer
    /\ UNCHANGED <<issued, ahead, frames, toGuest>>

RecvRead ==
    /\ toHost # << >>
    /\ Head(toHost) # Reading
    /\ HaveCallback(Head(toHost), Guest)
    /\ toHost' = Tail(toHost)
    /\ UNCHANGED <<issued, read, ahead, frames, toGuest>>

\* The disc answers.
ourCallback(n, i) ==
    /\ IoctlBuffer[n][i].pending
    /\ IoctlBuffer' = [IoctlBuffer EXCEPT ![n][i].state = 2, ![n][i].pending = FALSE]
    /\ UNCHANGED <<issued, read, toHost, ahead, frames, toGuest>>

-----------------------------------------------------------------------------
(***************************************************************************)
(* The guest's controller thread, at most BUFFER_SIZE - 2 frames ahead of  *)
(* its game, and the host's recv thread, which needs an entry of the ring. *)
(***************************************************************************)
TakeReading ==
    /\ ahead[Guest] < BUFFER_SIZE - 2
    /\ ahead' = [ahead EXCEPT ![Guest] = @ + 1]
    /\ toHost' = Append(toHost, Reading)
    /\ UNCHANGED <<IoctlBuffer, issued, read, frames, toGuest>>

RecvReading ==
    /\ toHost # << >>
    /\ Head(toHost) = Reading
    /\ ahead[Host] < BUFFER_SIZE - 1
    /\ ahead' = [ahead EXCEPT ![Host] = @ + 1]
    /\ toHost' = Tail(toHost)
    /\ UNCHANGED <<IoctlBuffer, issued, read, frames, toGuest>>

(***************************************************************************)
(* The host's send thread: every read that all have issued is marked as    *)
(* sent, and the last one found is the frame's callback_sector.            *)
(***************************************************************************)
\* Mutant: one console's word is enough.
Ready_AnyConsole ==
    {i \in Index : /\ IoctlBuffer[Host][i].state >= 1
                   /\ ~IoctlBuffer[Host][i].haveSent
                   /\ \E p \in Consoles : IoctlBuffer[Host][i].haveCallback[p]}

Ready ==
    {i \in Index : /\ IoctlBuffer[Host][i].state >= 1
                   /\ ~IoctlBuffer[Host][i].haveSent
                   /\ \A p \in Consoles : IoctlBuffer[Host][i].haveCallback[p]}

\* Mutant: the read is not marked as sent.
Broadcast_NoMark ==
    /\ Len(frames[Host]) < BUFFER_SIZE - 1
    /\ LET callback_sector == IF Ready = {} THEN NoSector
                              ELSE IoctlBuffer[Host][Max(Ready)].sector
       IN  /\ frames' = [frames EXCEPT ![Host] = Append(@, callback_sector)]
           /\ toGuest' = Append(toGuest, callback_sector)
    /\ UNCHANGED <<IoctlBuffer, issued, read, toHost, ahead>>

Broadcast ==
    /\ Len(frames[Host]) < BUFFER_SIZE - 1
    /\ LET callback_sector == IF Ready = {} THEN NoSector
                              ELSE IoctlBuffer[Host][Max(Ready)].sector
       IN  /\ frames' = [frames EXCEPT ![Host] = Append(@, callback_sector)]
           /\ toGuest' = Append(toGuest, callback_sector)
    /\ IoctlBuffer' = [IoctlBuffer EXCEPT ![Host] =
                          [i \in Index |-> IF i \in Ready
                                           THEN [@[i] EXCEPT !.haveSent = TRUE]
                                           ELSE @[i]]]
    /\ UNCHANGED <<issued, read, toHost, ahead>>

RecvFrame ==
    /\ toGuest # << >>
    /\ Len(frames[Guest]) < BUFFER_SIZE - 1
    /\ frames' = [frames EXCEPT ![Guest] = Append(@, Head(toGuest))]
    /\ toGuest' = Tail(toGuest)
    /\ UNCHANGED <<IoctlBuffer, issued, read, toHost, ahead>>

(***************************************************************************)
(* The retrace.  It stalls while the read that the next frame completes    *)
(* has not been answered; otherwise it calls the game back and frees the   *)
(* entry.  A sector that no entry holds is reported and ignored.           *)
(***************************************************************************)
VIRetraceHandler(n) ==
    /\ frames[n] # << >>
    /\ ahead[n] > 0
    /\ ahead' = [ahead EXCEPT ![n] = @ - 1]
    /\ frames' = [frames EXCEPT ![n] = Tail(@)]
    /\ LET s == Head(frames[n])
       IN  \/ /\ s = NoSector \/ Holding(n, s) = {}
              /\ UNCHANGED <<IoctlBuffer, read>>
           \/ /\ s # NoSector /\ Holding(n, s) # {}
              /\ LET i == Min(Holding(n, s))
                 IN  /\ IoctlBuffer[n][i].state = 2
                     /\ IoctlBuffer' = [IoctlBuffer EXCEPT ![n][i].state = 0]
              /\ read' = [read EXCEPT ![n][s] = "done"]
    /\ UNCHANGED <<issued, toHost, toGuest>>

-----------------------------------------------------------------------------
Next ==
    \/ \E n \in Consoles :
          \/ IssueRead(n)
          \/ \E s \in Sectors : Register(n, s)
          \/ \E i \in Index : ourCallback(n, i)
          \/ VIRetraceHandler(n)
    \/ RecvRead
    \/ TakeReading
    \/ RecvReading
    \/ Broadcast
    \/ RecvFrame

(***************************************************************************)
(* The threads run, the disc answers, the retrace keeps coming, and both   *)
(* games go on to their next read when they can.                           *)
(***************************************************************************)
Fairness ==
    /\ \A n \in Consoles :
          /\ WF_vars(IssueRead(n))
          /\ \A s \in Sectors : WF_vars(Register(n, s))
          /\ \A i \in Index : WF_vars(ourCallback(n, i))
          /\ WF_vars(VIRetraceHandler(n))
    /\ WF_vars(RecvRead \/ RecvReading)
    /\ WF_vars(TakeReading)
    /\ WF_vars(Broadcast)
    /\ WF_vars(RecvFrame)

Spec == Init /\ [][Next]_vars /\ Fairness

-----------------------------------------------------------------------------
(* Properties *)

\* Type invariant.
TypeOK ==
    /\ IoctlBuffer \in [Consoles -> [Index -> [state        : 0 .. 2,
                                               sector       : Sectors \cup {NoSector},
                                               pending      : BOOLEAN,
                                               haveCallback : [Consoles -> BOOLEAN],
                                               haveSent     : BOOLEAN]]]
    /\ issued \in [Consoles -> 0 .. Reads]
    /\ read \in [Consoles -> [Sectors -> {"none", "issued", "registered", "done", "refused"}]]
    /\ \A i \in 1 .. Len(toHost) : toHost[i] = Reading \/ toHost[i] \in Sectors
    /\ ahead \in [Consoles -> 0 .. BUFFER_SIZE - 1]
    /\ \A n \in Consoles : Len(frames[n]) < BUFFER_SIZE

(***************************************************************************)
(* "[DECC] Unknown callback from host. This is impossible."                *)
(* (My__VIRetraceHandler): when a console comes to a frame that completes  *)
(* a read, its own game has issued that read and waits for it.             *)
(***************************************************************************)
UnknownCallbackImpossible ==
    \A n \in Consoles :
        frames[n] # << >> /\ Head(frames[n]) # NoSector => Holding(n, Head(frames[n])) # {}

(***************************************************************************)
(* A read is completed by at most one frame: no console has a frame to     *)
(* play that completes a read its game has already been called back for,   *)
(* and no two frames complete the same read.                               *)
(***************************************************************************)
CompletedOnce ==
    \A n \in Consoles :
        LET q == IF n = Guest THEN frames[n] \o toGuest ELSE frames[n]
        IN  /\ \A i \in 1 .. Len(q) : q[i] # NoSector => read[n][q[i]] # "done"
            /\ \A i, j \in 1 .. Len(q) : i # j /\ q[i] # NoSector => q[i] # q[j]

(***************************************************************************)
(* "All have called back!" (sendThread_main): a read that both games have  *)
(* issued is called back on both consoles.                                 *)
(***************************************************************************)
CalledBack ==
    \A s \in Sectors :
        (\A n \in Consoles : read[n][s] \in {"registered", "done"})
            ~> (\A n \in Consoles : read[n][s] = "done")

(***************************************************************************)
(* Unless two reads become ready between two frames (CalledBack), the      *)
(* games never get stuck on the disc: every read is completed, or refused  *)
(* ("If it did, all is well.", MyIOS_IoctlAsync), on both.                 *)
(***************************************************************************)
ReadsComplete ==
    [](Cardinality(Ready) <= 1)
        => <>(\A n \in Consoles, s \in Sectors : read[n][s] \in {"done", "refused"})

=============================================================================
