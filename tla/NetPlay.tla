------------------------------ MODULE NetPlay ------------------------------
(***************************************************************************)
(* Lock-step play of one game on two consoles (modules/netslug_main/main.c).*)
(*                                                                         *)
(* Each console keeps a ring of BUFFER_SIZE control packets, one for each  *)
(* of the next frames of the game.  On the host the controller thread and  *)
(* the recv thread put the two players' readings in the ring and the send  *)
(* thread broadcasts each frame; on the guest the controller thread puts   *)
(* its own reading in its ring and in sendBuffer, which its send thread    *)
(* drains to the host, and the recv thread merges each broadcast frame     *)
(* into the ring.  On both, the retrace interrupt advances the game by one *)
(* frame when the ring's entry for that frame is complete, and otherwise   *)
(* stalls the game until the next retrace.                                 *)
(*                                                                         *)
(* The data is abstracted: a reading stands for a wiimote's format,        *)
(* status, extension, inputs and gravity units, and Input(w, f) is the     *)
(* reading that player w's controller thread takes for frame f.  The       *)
(* wiimotes 2 and 3 never have a player and are left out.  Code that runs  *)
(* with interrupts disabled is one step; so is a wait loop with what       *)
(* follows it, because nothing undoes the awaited condition.               *)
(***************************************************************************)
EXTENDS Integers, Sequences

CONSTANTS
    BUFFER_SIZE,        \* entries of ctrlBuffer and of sendBuffer
    MaxFrame,           \* bound: the frame at which the exploration stops
    Input(_, _),        \* the reading of a wiimote for a frame
    Disconnected,       \* a reading with WPAD_STATUS_DISCONNECTED
    Zeroed              \* what a static buffer holds before it is written

\* With two entries a console would need a frame's reading before it takes it.
ASSUME BufferAssumption == BUFFER_SIZE \in Nat /\ BUFFER_SIZE >= 3
ASSUME MaxFrameAssumption == MaxFrame \in Nat

Host == 0
Guest == 1
Consoles == {Host, Guest}

\* HOSTS_WIIMOTE_NUMBER and CLIENTS_WIIMOTE_NUMBER: a console's own number.
Wiimotes == {0, 1}

VARIABLES
    createdThread,      \* by console: the network threads exist
    frameCount,         \* by console: the frame the game is playing
    ctrlBuffer,         \* by console: the ring of control packets
    sendPc,             \* where the host's send thread is
    nextFrameToSend,    \* the frame the host's send thread works on
    outHave,            \* the haveInput flags it has copied for transmission
    toGuest,            \* the stream of control packets to the guest
    recvCount,          \* control packets the guest's recv thread has merged
    nextInput,          \* by console: the controller thread's next frame
    enqueuing,          \* the guest's controller thread waits for sendBuffer
    sendBuffer,         \* the guest's packets with sent = 1, oldest first
    toHost              \* the stream of controller packets to the host

hostVars == <<sendPc, nextFrameToSend, outHave>>
guestVars == <<recvCount, enqueuing, sendBuffer>>
vars == <<createdThread, frameCount, ctrlBuffer, sendPc, nextFrameToSend, outHave,
          toGuest, recvCount, nextInput, enqueuing, sendBuffer, toHost>>

Slots == 0 .. BUFFER_SIZE - 1
Slot(f) == f % BUFFER_SIZE

\* The ring's entry for frame f on console n, if it has one.
Entry(n, f) == ctrlBuffer[n][Slot(f)]
SetEntry(n, f, e) == ctrlBuffer' = [ctrlBuffer EXCEPT ![n][Slot(f)] = e]

NoInput == [w \in Wiimotes |-> FALSE]
AllInput == [w \in Wiimotes |-> TRUE]

-----------------------------------------------------------------------------
Init ==
    /\ createdThread = [n \in Consoles |-> FALSE]
    /\ frameCount = [n \in Consoles |-> 0]
    /\ ctrlBuffer = [n \in Consoles |-> [k \in Slots |->
                        [frameNumber    |-> 0,
                         haveSentOrRecv |-> FALSE,
                         haveInput      |-> NoInput,
                         inputs         |-> [w \in Wiimotes |-> Zeroed]]]]
    /\ sendPc = "wait"
    /\ nextFrameToSend = 0
    /\ outHave = NoInput
    /\ toGuest = << >>
    /\ recvCount = 0
    /\ nextInput = [n \in Consoles |-> BUFFER_SIZE]
    /\ enqueuing = FALSE
    /\ sendBuffer = << >>
    /\ toHost = << >>

(***************************************************************************)
(* The game's first call of OSCreateThread.  The send thread is created    *)
(* first and with the highest priority, so it numbers the ring's entries   *)
(* before any other thread looks at them.                                  *)
(***************************************************************************)
Number(e, k) ==
    [e EXCEPT !.frameNumber = k,
              !.inputs = IF k = 0 THEN [w \in Wiimotes |-> Disconnected] ELSE @]

MyOSCreateThread(n) ==
    /\ ~createdThread[n]
    /\ createdThread' = [createdThread EXCEPT ![n] = TRUE]
    /\ ctrlBuffer' = [ctrlBuffer EXCEPT ![n] =
           [k \in Slots |-> Number(@[k], k)]]
    /\ UNCHANGED <<frameCount, toGuest, nextInput, toHost, hostVars, guestVars>>

-----------------------------------------------------------------------------
(***************************************************************************)
(* The host's send thread.  It completes a frame's entry with interrupts   *)
(* disabled, but the packet is copied out of the live entry: the other     *)
(* threads may write it between the copy of the flags and the copy of the  *)
(* readings, which lie behind them.                                        *)
(***************************************************************************)
Disconnect(e) == [e EXCEPT !.haveInput = AllInput,
                           !.inputs = [w \in Wiimotes |-> Disconnected]]

SendPrepare ==
    /\ createdThread[Host]
    /\ sendPc = "wait"
    /\ LET e == Entry(Host, nextFrameToSend)
       IN  /\ e.frameNumber = nextFrameToSend
           /\ nextFrameToSend > BUFFER_SIZE => e.haveInput[Host]
    /\ IF nextFrameToSend > BUFFER_SIZE
       THEN UNCHANGED ctrlBuffer
       ELSE SetEntry(Host, nextFrameToSend, Disconnect(Entry(Host, nextFrameToSend)))
    /\ sendPc' = "flags"
    /\ UNCHANGED <<createdThread, frameCount, nextFrameToSend, outHave, toGuest,
                   nextInput, toHost, guestVars>>

SendFlags ==
    /\ sendPc = "flags"
    /\ outHave' = Entry(Host, nextFrameToSend).haveInput
    /\ sendPc' = "inputs"
    /\ UNCHANGED <<createdThread, frameCount, ctrlBuffer, nextFrameToSend, toGuest,
                   nextInput, toHost, guestVars>>

SendInputs ==
    /\ sendPc = "inputs"
    /\ toGuest' = Append(toGuest, [frameNumber |-> Entry(Host, nextFrameToSend).frameNumber,
                                   haveInput   |-> outHave,
                                   inputs      |-> Entry(Host, nextFrameToSend).inputs])
    /\ outHave' = NoInput
    /\ sendPc' = "sent"
    /\ UNCHANGED <<createdThread, frameCount, ctrlBuffer, nextFrameToSend,
                   nextInput, toHost, guestVars>>

MarkSent(e) == [e EXCEPT !.haveSentOrRecv = TRUE]

SendDone ==
    /\ sendPc = "sent"
    /\ SetEntry(Host, nextFrameToSend, MarkSent(Entry(Host, nextFrameToSend)))
    /\ nextFrameToSend' = nextFrameToSend + 1
    /\ sendPc' = "wait"
    /\ UNCHANGED <<createdThread, frameCount, outHave, toGuest, nextInput, toHost, guestVars>>

(***************************************************************************)
(* The guest's recv thread: the packet it has received is the head of      *)
(* toGuest until it is merged.  It waits for the entry to become free,     *)
(* but not when the entry is numbered 0.                                   *)
(***************************************************************************)
RecvReady(e, pkt) == e.frameNumber # 0 => e.frameNumber = pkt.frameNumber

Merge(e, pkt) ==
    LET own(w) == ~pkt.haveInput[w] /\ e.haveInput[w]
    IN  [frameNumber    |-> pkt.frameNumber,
         haveSentOrRecv |-> TRUE,
         haveInput      |-> [w \in Wiimotes |-> pkt.haveInput[w] \/ own(w)],
         inputs         |-> [w \in Wiimotes |-> IF own(w) THEN e.inputs[w] ELSE pkt.inputs[w]]]

RecvCtrl ==
    /\ createdThread[Guest]
    /\ toGuest # << >>
    /\ RecvReady(Entry(Guest, recvCount), Head(toGuest))
    /\ SetEntry(Guest, recvCount, Merge(Entry(Guest, recvCount), Head(toGuest)))
    /\ toGuest' = Tail(toGuest)
    /\ recvCount' = recvCount + 1
    /\ UNCHANGED <<createdThread, frameCount, nextInput, enqueuing, sendBuffer, toHost, hostVars>>

-----------------------------------------------------------------------------
(***************************************************************************)
(* The controller threads.  ProcessPacket files a reading in the entry of  *)
(* the frame it is for, when the ring has one, and on the guest passes it  *)
(* on through sendBuffer.                                                  *)
(***************************************************************************)
File(e, w, reading) == [e EXCEPT !.inputs[w] = reading, !.haveInput[w] = TRUE]

\* Mutant: the reading is filed whatever frame the entry is for.
Deliver_NoWait(n, w, f, reading) == SetEntry(n, f, File(Entry(n, f), w, reading))

Deliver(n, w, f, reading) ==
    /\ Entry(n, f).frameNumber = f
    /\ SetEntry(n, f, File(Entry(n, f), w, reading))

\* Mutant: one frame too early.
Polls_Early(n) == createdThread[n] /\ frameCount[n] + BUFFER_SIZE >= nextInput[n] + 1

\* The controller thread takes a reading once the game is near enough.
Polls(n) == createdThread[n] /\ frameCount[n] + BUFFER_SIZE > nextInput[n] + 1

SendPacket(f) == [frameNumberToDeliverOn |-> f, reading |-> Input(Guest, f)]

HostController ==
    /\ Polls(Host)
    /\ Deliver(Host, Host, nextInput[Host], Input(Host, nextInput[Host]))
    /\ nextInput' = [nextInput EXCEPT ![Host] = @ + 1]
    /\ UNCHANGED <<createdThread, frameCount, toGuest, toHost, hostVars, guestVars>>

GuestController ==
    /\ Polls(Guest)
    /\ ~enqueuing
    /\ Deliver(Guest, Guest, nextInput[Guest], Input(Guest, nextInput[Guest]))
    /\ \/ /\ Len(sendBuffer) < BUFFER_SIZE
          /\ sendBuffer' = Append(sendBuffer, SendPacket(nextInput[Guest]))
          /\ nextInput' = [nextInput EXCEPT ![Guest] = @ + 1]
          /\ UNCHANGED enqueuing
       \/ /\ Len(sendBuffer) = BUFFER_SIZE
          /\ enqueuing' = TRUE
          /\ UNCHANGED <<sendBuffer, nextInput>>
    /\ UNCHANGED <<createdThread, frameCount, toGuest, recvCount, toHost, hostVars>>

GuestEnqueue ==
    /\ enqueuing
    /\ Len(sendBuffer) < BUFFER_SIZE
    /\ sendBuffer' = Append(sendBuffer, SendPacket(nextInput[Guest]))
    /\ nextInput' = [nextInput EXCEPT ![Guest] = @ + 1]
    /\ enqueuing' = FALSE
    /\ UNCHANGED <<createdThread, frameCount, ctrlBuffer, toGuest, recvCount, toHost, hostVars>>

\* The guest's send thread: transmit the oldest packet and free its entry.
GuestSend ==
    /\ sendBuffer # << >>
    /\ toHost' = Append(toHost, Head(sendBuffer))
    /\ sendBuffer' = Tail(sendBuffer)
    /\ UNCHANGED <<createdThread, frameCount, ctrlBuffer, toGuest, recvCount, nextInput,
                   enqueuing, hostVars>>

\* The host's recv thread: the received packet is the head of toHost.
RecvInput ==
    /\ createdThread[Host]
    /\ toHost # << >>
    /\ Deliver(Host, Guest, Head(toHost).frameNumberToDeliverOn, Head(toHost).reading)
    /\ toHost' = Tail(toHost)
    /\ UNCHANGED <<createdThread, frameCount, toGuest, nextInput, hostVars, guestVars>>

-----------------------------------------------------------------------------
(***************************************************************************)
(* The retrace interrupt, when it does not stall the game: it steps to the *)
(* next frame and gives the entry of the last one to the frame             *)
(* BUFFER_SIZE later.  A stalled retrace changes nothing modelled here.    *)
(***************************************************************************)
\* Mutant: a broadcast frame is played without waiting for the readings.
Stall_NoInput(n) ==
    LET e == Entry(n, frameCount[n] + 1)
    IN  e.frameNumber # frameCount[n] + 1 \/ ~e.haveSentOrRecv

Stall(n) ==
    LET e == Entry(n, frameCount[n] + 1)
    IN  \/ e.frameNumber # frameCount[n] + 1
        \/ ~e.haveSentOrRecv
        \/ \E w \in Wiimotes : ~e.haveInput[w]

\* Mutants: the entry is not renumbered, or with the wrong sign.
Retire_NoRenumber(e) == [e EXCEPT !.haveSentOrRecv = FALSE, !.haveInput = NoInput]
Retire_WrongSign(e) == [e EXCEPT !.haveSentOrRecv = FALSE,
                                 !.haveInput = NoInput,
                                 !.frameNumber = @ - BUFFER_SIZE]

Retire(e) == [e EXCEPT !.haveSentOrRecv = FALSE,
                       !.haveInput = NoInput,
                       !.frameNumber = @ + BUFFER_SIZE]

VIRetraceHandler(n) ==
    /\ createdThread[n]
    /\ frameCount[n] < MaxFrame
    /\ ~Stall(n)
    /\ frameCount' = [frameCount EXCEPT ![n] = @ + 1]
    /\ SetEntry(n, frameCount[n], Retire(Entry(n, frameCount[n])))
    /\ UNCHANGED <<createdThread, toGuest, nextInput, toHost, hostVars, guestVars>>

-----------------------------------------------------------------------------
HostSendThread == SendPrepare \/ SendFlags \/ SendInputs \/ SendDone

Next ==
    \/ \E n \in Consoles : MyOSCreateThread(n) \/ VIRetraceHandler(n)
    \/ HostSendThread
    \/ RecvCtrl
    \/ HostController
    \/ GuestController
    \/ GuestEnqueue
    \/ GuestSend
    \/ RecvInput

Spec == Init /\ [][Next]_vars

(***************************************************************************)
(* Every waiting thread is woken by the next retrace (WAKEUP) or by the    *)
(* thread that frees what it waits for, the retrace interrupt keeps coming *)
(* while the game is stalled, and the stream is TCP.                       *)
(***************************************************************************)
Fairness ==
    /\ \A n \in Consoles : WF_vars(MyOSCreateThread(n)) /\ WF_vars(VIRetraceHandler(n))
    /\ WF_vars(HostSendThread)
    /\ WF_vars(RecvCtrl)
    /\ WF_vars(HostController)
    /\ WF_vars(GuestController)
    /\ WF_vars(GuestEnqueue)
    /\ WF_vars(GuestSend)
    /\ WF_vars(RecvInput)

FairSpec == Spec /\ Fairness

-----------------------------------------------------------------------------
(* Properties *)

Frames == 0 .. MaxFrame + 2 * BUFFER_SIZE
Readings == {Disconnected, Zeroed} \cup {Input(w, f) : w \in Wiimotes, f \in Frames}
Flags == [Wiimotes -> BOOLEAN]
Entries == [frameNumber    : Nat,
            haveSentOrRecv : BOOLEAN,
            haveInput      : Flags,
            inputs         : [Wiimotes -> Readings]]
CtrlPackets == [frameNumber : Nat, haveInput : Flags, inputs : [Wiimotes -> Readings]]
SendPackets == [frameNumberToDeliverOn : Nat, reading : Readings]

\* Type invariant.
TypeOK ==
    /\ createdThread \in [Consoles -> BOOLEAN]
    /\ frameCount \in [Consoles -> 0 .. MaxFrame]
    /\ ctrlBuffer \in [Consoles -> [Slots -> Entries]]
    /\ sendPc \in {"wait", "flags", "inputs", "sent"}
    /\ nextFrameToSend \in Nat
    /\ outHave \in Flags
    /\ toGuest \in Seq(CtrlPackets)
    /\ recvCount \in Nat
    /\ nextInput \in [Consoles -> Frames]
    /\ enqueuing \in BOOLEAN
    /\ sendBuffer \in Seq(SendPackets)
    /\ toHost \in Seq(SendPackets)

\* What the game on console n reads with MyWPADRead.
Playing(n) == Entry(n, frameCount[n]).inputs

(***************************************************************************)
(* From frame BUFFER_SIZE + 1 on, what a game reads at frame f are the two *)
(* readings the players took for f: so both consoles play the same inputs, *)
(* however their threads, the network and their retraces interleave.       *)
(***************************************************************************)
LockStep ==
    \A n \in Consoles : frameCount[n] > BUFFER_SIZE =>
        Playing(n) = [w \in Wiimotes |-> Input(w, frameCount[n])]

(***************************************************************************)
(* The consoles stay within BUFFER_SIZE - 2 frames of each other: neither  *)
(* game can outrun the readings the other one's controller thread takes.   *)
(***************************************************************************)
BoundedSkew ==
    \A n, m \in Consoles : frameCount[n] > BUFFER_SIZE =>
        frameCount[n] <= frameCount[m] + BUFFER_SIZE - 2

(***************************************************************************)
(* No ProcessPacket on the host waits for a frame whose entry has already  *)
(* moved on to a later frame: it would sleep for ever, and with it its     *)
(* thread.                                                                 *)
(***************************************************************************)
HostWaitsForFuture ==
    createdThread[Host] =>
        /\ Entry(Host, nextInput[Host]).frameNumber <= nextInput[Host]
        /\ toHost # << >> =>
               LET f == Head(toHost).frameNumberToDeliverOn
               IN  Entry(Host, f).frameNumber <= f

(***************************************************************************)
(* While the game plays a frame after BUFFER_SIZE no thread changes what   *)
(* it reads: MyWPADRead may be called many times in a frame.               *)
(***************************************************************************)
CurrentFrameStable ==
    [][\A n \in Consoles :
          frameCount[n] > BUFFER_SIZE /\ frameCount'[n] = frameCount[n]
              => Playing(n)' = Playing(n)]_vars

(***************************************************************************)
(* The guest's entry 0 was given to frame BUFFER_SIZE while its game still *)
(* played frame 0, and retired with it: that frame's packet is lost.       *)
(***************************************************************************)
FrameLost ==
    createdThread[Guest]
        /\ Entry(Guest, frameCount[Guest]).frameNumber # frameCount[Guest]

(***************************************************************************)
(* Unless that frame is lost, no wait lasts for ever: both games play on   *)
(* (to the bound).                                                         *)
(***************************************************************************)
Progress ==
    [](~FrameLost) => <>(\A n \in Consoles : frameCount[n] = MaxFrame)

(***************************************************************************)
(* "if the connection succeeds, the game will begin" (USAGE): the games    *)
(* get past the frames that are played without readings.                   *)
(***************************************************************************)
GameBegins == <>(\A n \in Consoles : frameCount[n] > BUFFER_SIZE)

=============================================================================
