--------------------------- MODULE NetPlay_proofs ---------------------------
(***************************************************************************)
(* The safety of lock-step play for every BUFFER_SIZE, every bound and     *)
(* every sequence of readings.                                             *)
(***************************************************************************)
EXTENDS NetPlay, TLAPS

-----------------------------------------------------------------------------
(* Slots of the ring. *)

\* A frame number selects one of the ring's entries.
LEMMA SlotType == \A f \in Nat : Slot(f) \in Slots
  BY BufferAssumption DEF Slot, Slots

\* A small frame number is its own slot.
LEMMA SlotSmall == \A k \in Slots : Slot(k) = k
  BY BufferAssumption DEF Slot, Slots

\* Frame BUFFER_SIZE is the second frame to use entry 0.
LEMMA SlotWrap == Slot(BUFFER_SIZE) = 0
  BY BufferAssumption DEF Slot, Slots

\* Two successive frames have different entries.
LEMMA SlotSucc == \A f \in Nat : Slot(f + 1) # Slot(f)
  <1> SUFFICES ASSUME NEW f \in Nat, (f + 1) % BUFFER_SIZE = f % BUFFER_SIZE
               PROVE  FALSE
    BY DEF Slot
  <1> DEFINE p == f \div BUFFER_SIZE
             q == (f + 1) \div BUFFER_SIZE
  <1>1. p \in Int /\ q \in Int
    BY BufferAssumption
  <1>2. f = BUFFER_SIZE * p + (f % BUFFER_SIZE)
    BY BufferAssumption
  <1>3. f + 1 = BUFFER_SIZE * q + ((f + 1) % BUFFER_SIZE)
    BY BufferAssumption
  <1>4. BUFFER_SIZE * (q - p) = 1
    <2> HIDE DEF p, q
    <2>1. f % BUFFER_SIZE \in Int
      BY BufferAssumption
    <2> QED BY <1>1, <1>2, <1>3, <2>1, BufferAssumption
  <1>5. \A d \in Int : BUFFER_SIZE * d # 1
    BY BufferAssumption
  <1> QED BY <1>1, <1>4, <1>5

-----------------------------------------------------------------------------
(* Type correctness. *)

\* The guest's controller thread sleeps in ProcessPacket only for a frame that
\* it was allowed to poll.
Pending == enqueuing => Polls(Guest)

TypeInv == TypeOK /\ Pending

USE DEF Consoles, Wiimotes, Host, Guest

\* Appending to a sequence and removing its head keep its type.
LEMMA SeqType ==
  ASSUME NEW S, NEW s \in Seq(S)
  PROVE  /\ \A x \in S : Append(s, x) \in Seq(S)
         /\ s # << >> => Head(s) \in S /\ Tail(s) \in Seq(S)
  OBVIOUS

\* A reading taken for a frame within the bound is a reading.
LEMMA InputType == \A w \in Wiimotes, f \in Frames : Input(w, f) \in Readings
  BY DEF Readings

\* The constants that the entries start with are readings and flags.
LEMMA ConstType ==
  /\ Disconnected \in Readings /\ Zeroed \in Readings
  /\ NoInput \in Flags /\ AllInput \in Flags
  BY DEF Readings, Flags, NoInput, AllInput

\* What one update of the ring does to every entry.
LEMMA SetEntryIs ==
  ASSUME ctrlBuffer \in [Consoles -> [Slots -> Entries]],
         NEW n \in Consoles, NEW f \in Nat, NEW e \in Entries, SetEntry(n, f, e)
  PROVE  /\ ctrlBuffer' \in [Consoles -> [Slots -> Entries]]
         /\ \A m \in Consoles, k \in Slots :
               ctrlBuffer'[m][k] = IF m = n /\ k = Slot(f) THEN e ELSE ctrlBuffer[m][k]
  <1>1. Slot(f) \in Slots
    BY SlotType
  <1> HIDE DEF Consoles
  <1> QED BY <1>1 DEF SetEntry

\* An entry of the ring is an entry.
LEMMA EntryType ==
  ASSUME TypeOK, NEW n \in Consoles, NEW f \in Nat
  PROVE  Entry(n, f) \in Entries
  BY SlotType DEF TypeOK, Entry

\* Filing a reading sets one reading and its flag.
LEMMA FileIs ==
  ASSUME NEW e \in Entries, NEW w \in Wiimotes, NEW r \in Readings
  PROVE  /\ File(e, w, r) \in Entries
         /\ File(e, w, r).frameNumber = e.frameNumber
         /\ File(e, w, r).haveSentOrRecv = e.haveSentOrRecv
         /\ File(e, w, r).haveInput[w] /\ File(e, w, r).inputs[w] = r
         /\ \A v \in Wiimotes : v # w =>
               /\ File(e, w, r).haveInput[v] = e.haveInput[v]
               /\ File(e, w, r).inputs[v] = e.inputs[v]
  <1> HIDE DEF Wiimotes
  <1> QED BY DEF File, Entries, Flags

\* Merging a packet keeps the types, and an own reading the packet lacks.
LEMMA MergeIs ==
  ASSUME NEW e \in Entries, NEW pkt \in CtrlPackets
  PROVE  /\ Merge(e, pkt) \in Entries
         /\ Merge(e, pkt).frameNumber = pkt.frameNumber
         /\ \A v \in Wiimotes :
               /\ e.haveInput[v] => Merge(e, pkt).haveInput[v]
               /\ Merge(e, pkt).haveInput[v] =>
                     \/ pkt.haveInput[v] /\ Merge(e, pkt).inputs[v] = pkt.inputs[v]
                     \/ e.haveInput[v] /\ Merge(e, pkt).inputs[v] = e.inputs[v]
  <1> HIDE DEF Wiimotes
  <1> QED BY DEF Merge, Entries, CtrlPackets, Flags

\* The fields of an entry that the retrace and the send thread's updates give.
LEMMA UpdateIs ==
  ASSUME NEW e \in Entries
  PROVE  /\ Retire(e) \in Entries
         /\ Retire(e).frameNumber = e.frameNumber + BUFFER_SIZE
         /\ ~Retire(e).haveSentOrRecv
         /\ \A v \in Wiimotes : ~Retire(e).haveInput[v]
         /\ Disconnect(e) \in Entries
         /\ Disconnect(e).frameNumber = e.frameNumber
         /\ Disconnect(e).haveSentOrRecv = e.haveSentOrRecv
         /\ \A v \in Wiimotes : Disconnect(e).haveInput[v]
         /\ MarkSent(e) \in Entries
         /\ MarkSent(e).frameNumber = e.frameNumber
         /\ MarkSent(e).haveInput = e.haveInput
         /\ MarkSent(e).inputs = e.inputs
  <1> HIDE DEF Wiimotes
  <1>1. /\ Retire(e) \in Entries
        /\ Retire(e).frameNumber = e.frameNumber + BUFFER_SIZE
        /\ ~Retire(e).haveSentOrRecv
        /\ \A v \in Wiimotes : ~Retire(e).haveInput[v]
    <2>1. e.frameNumber + BUFFER_SIZE \in Nat
      BY BufferAssumption DEF Entries
    <2>2. Retire(e) = [e EXCEPT !.haveSentOrRecv = FALSE, !.haveInput = NoInput,
                                !.frameNumber = e.frameNumber + BUFFER_SIZE]
      BY DEF Retire
    <2>3. \A v \in Wiimotes : ~NoInput[v]
      BY DEF NoInput
    <2> QED BY <2>1, <2>2, <2>3, ConstType DEF Entries
  <1>2. /\ Disconnect(e) \in Entries
        /\ Disconnect(e).frameNumber = e.frameNumber
        /\ Disconnect(e).haveSentOrRecv = e.haveSentOrRecv
        /\ \A v \in Wiimotes : Disconnect(e).haveInput[v]
    BY ConstType DEF Disconnect, Entries, AllInput
  <1>3. /\ MarkSent(e) \in Entries
        /\ MarkSent(e).frameNumber = e.frameNumber
        /\ MarkSent(e).haveInput = e.haveInput
        /\ MarkSent(e).inputs = e.inputs
    BY DEF MarkSent, Entries
  <1> QED BY <1>1, <1>2, <1>3

\* The fields of an entry that the numbering of the ring gives.
LEMMA NumberIs ==
  ASSUME NEW e \in Entries, NEW k \in Nat
  PROVE  /\ Number(e, k) \in Entries
         /\ Number(e, k).frameNumber = k
         /\ Number(e, k).haveSentOrRecv = e.haveSentOrRecv
  <1> HIDE DEF Wiimotes
  <1> DEFINE i == IF k = 0 THEN [w \in Wiimotes |-> Disconnected] ELSE e.inputs
  <1>1. i \in [Wiimotes -> Readings]
    BY ConstType DEF Entries
  <1>2. Number(e, k) = [e EXCEPT !.frameNumber = k, !.inputs = i]
    BY DEF Number
  <1> HIDE DEF i
  <1> QED BY <1>1, <1>2 DEF Entries

\* The ring has its type after ProcessPacket files a reading.
LEMMA DeliverType ==
  ASSUME TypeOK, NEW n \in Consoles, NEW w \in Wiimotes, NEW f \in Nat,
         NEW r \in Readings, Deliver(n, w, f, r)
  PROVE  ctrlBuffer' \in [Consoles -> [Slots -> Entries]]
  <1>1. File(Entry(n, f), w, r) \in Entries
    BY EntryType, FileIs
  <1> QED BY <1>1, SetEntryIs DEF TypeOK, Deliver

\* Init establishes the type invariant and the facts about pending readings.
LEMMA TypeInit == Init => TypeInv
  <1> SUFFICES ASSUME Init PROVE TypeInv
    OBVIOUS
  <1>1. TypeOK
    <2>1. ctrlBuffer \in [Consoles -> [Slots -> Entries]]
      BY ConstType DEF Init, Entries
    <2>2. /\ nextInput \in [Consoles -> Frames]
          /\ frameCount \in [Consoles -> 0 .. MaxFrame]
      BY BufferAssumption, MaxFrameAssumption DEF Init, Frames
    <2>3. toGuest \in Seq(CtrlPackets) /\ sendBuffer \in Seq(SendPackets)
          /\ toHost \in Seq(SendPackets)
      BY DEF Init
    <2> QED BY <2>1, <2>2, <2>3, ConstType DEF Init, TypeOK
  <1>2. Pending
    BY DEF Init, Pending
  <1> QED BY <1>1, <1>2 DEF TypeInv

\* Every step of either console keeps them.
LEMMA TypeStep == TypeInv /\ [Next]_vars => TypeInv'
  <1> SUFFICES ASSUME TypeInv, [Next]_vars PROVE TypeInv'
    OBVIOUS
  <1> USE BufferAssumption, MaxFrameAssumption, ConstType DEF TypeInv
  <1>1. ASSUME NEW n \in Consoles, MyOSCreateThread(n) PROVE TypeInv'
    <2>1. ctrlBuffer' \in [Consoles -> [Slots -> Entries]]
      <3>1. \A k \in Slots : Number(ctrlBuffer[n][k], k) \in Entries
        <4> SUFFICES ASSUME NEW k \in Slots PROVE Number(ctrlBuffer[n][k], k) \in Entries
          OBVIOUS
        <4>1. k \in Nat /\ ctrlBuffer[n][k] \in Entries
          BY DEF TypeOK, Slots
        <4> QED BY <4>1, NumberIs
      <3> HIDE DEF Consoles
      <3> QED BY <1>1, <3>1 DEF MyOSCreateThread, TypeOK
    <2> QED BY <1>1, <2>1 DEF MyOSCreateThread, TypeOK, Pending, Polls, hostVars, guestVars
  <1>2. ASSUME NEW n \in Consoles, VIRetraceHandler(n) PROVE TypeInv'
    <2>1. ctrlBuffer' \in [Consoles -> [Slots -> Entries]]
      <3>1. frameCount[n] \in Nat /\ Entry(n, frameCount[n]) \in Entries
        BY EntryType DEF TypeOK
      <3>2. Retire(Entry(n, frameCount[n])) \in Entries
        BY <3>1, UpdateIs
      <3> QED BY <1>2, <3>1, <3>2, SetEntryIs DEF VIRetraceHandler, TypeOK
    <2>2. frameCount' \in [Consoles -> 0 .. MaxFrame] /\ Pending'
      BY <1>2 DEF VIRetraceHandler, TypeOK, Pending, Polls, Frames, hostVars, guestVars
    <2> QED BY <1>2, <2>1, <2>2 DEF VIRetraceHandler, TypeOK, hostVars, guestVars
  <1>3. CASE SendPrepare
    <2>1. ctrlBuffer' \in [Consoles -> [Slots -> Entries]]
      <3>1. nextFrameToSend \in Nat /\ Entry(Host, nextFrameToSend) \in Entries
        BY EntryType DEF TypeOK
      <3>2. Disconnect(Entry(Host, nextFrameToSend)) \in Entries
        BY <3>1, UpdateIs
      <3> QED BY <1>3, <3>1, <3>2, SetEntryIs DEF SendPrepare, TypeOK
    <2> QED BY <1>3, <2>1 DEF SendPrepare, TypeOK, Pending, Polls, guestVars
  <1>4. CASE SendFlags
    <2>1. Entry(Host, nextFrameToSend) \in Entries
      BY EntryType DEF TypeOK
    <2> QED BY <1>4, <2>1 DEF SendFlags, TypeOK, Entries, Pending, Polls, guestVars
  <1>5. CASE SendInputs
    <2>1. Entry(Host, nextFrameToSend) \in Entries
      BY EntryType DEF TypeOK
    <2>2. toGuest' \in Seq(CtrlPackets)
      BY <1>5, <2>1, SeqType DEF SendInputs, TypeOK, Entries, CtrlPackets
    <2> QED BY <1>5, <2>2 DEF SendInputs, TypeOK, Pending, Polls, guestVars
  <1>6. CASE SendDone
    <2>1. ctrlBuffer' \in [Consoles -> [Slots -> Entries]]
      <3>1. nextFrameToSend \in Nat /\ Entry(Host, nextFrameToSend) \in Entries
        BY EntryType DEF TypeOK
      <3>2. MarkSent(Entry(Host, nextFrameToSend)) \in Entries
        BY <3>1, UpdateIs
      <3> QED BY <1>6, <3>1, <3>2, SetEntryIs DEF SendDone, TypeOK
    <2> QED BY <1>6, <2>1 DEF SendDone, TypeOK, Pending, Polls, guestVars
  <1>7. CASE RecvCtrl
    <2>1. Head(toGuest) \in CtrlPackets /\ Tail(toGuest) \in Seq(CtrlPackets)
      BY <1>7, SeqType DEF RecvCtrl, TypeOK
    <2>2. Merge(Entry(Guest, recvCount), Head(toGuest)) \in Entries
      BY <2>1, EntryType, MergeIs DEF TypeOK
    <2>3. ctrlBuffer' \in [Consoles -> [Slots -> Entries]]
      BY <1>7, <2>2, SetEntryIs DEF RecvCtrl, TypeOK
    <2> QED BY <1>7, <2>1, <2>3 DEF RecvCtrl, TypeOK, Pending, Polls, hostVars
  <1>8. CASE HostController
    <2>1. nextInput[Host] \in Frames /\ nextInput[Host] + 1 \in Frames
      BY <1>8 DEF HostController, Polls, TypeOK, Frames
    <2>2. nextInput[Host] \in Nat /\ Input(Host, nextInput[Host]) \in Readings
      BY <2>1, InputType DEF Frames
    <2>3. ctrlBuffer' \in [Consoles -> [Slots -> Entries]]
      BY <1>8, <2>2, DeliverType DEF HostController
    <2> QED BY <1>8, <2>1, <2>3
            DEF HostController, TypeOK, Pending, Polls, hostVars, guestVars
  <1>9. CASE GuestController
    <2>1. nextInput[Guest] \in Frames /\ nextInput[Guest] + 1 \in Frames
      BY <1>9 DEF GuestController, Polls, TypeOK, Frames
    <2>2. nextInput[Guest] \in Nat /\ Input(Guest, nextInput[Guest]) \in Readings
      BY <2>1, InputType DEF Frames
    <2>3. ctrlBuffer' \in [Consoles -> [Slots -> Entries]]
      BY <1>9, <2>2, DeliverType DEF GuestController
    <2>4. Append(sendBuffer, SendPacket(nextInput[Guest])) \in Seq(SendPackets)
      BY <2>2, SeqType DEF TypeOK, SendPacket, SendPackets
    <2>5. Pending'
      BY <1>9, <2>1 DEF GuestController, TypeOK, Pending, Polls
    <2> QED BY <1>9, <2>1, <2>3, <2>4, <2>5 DEF GuestController, TypeOK, hostVars
  <1>10. CASE GuestEnqueue
    <2>1. nextInput[Guest] \in Frames /\ nextInput[Guest] + 1 \in Frames
      BY <1>10 DEF GuestEnqueue, Pending, Polls, TypeOK, Frames
    <2>2. nextInput[Guest] \in Nat /\ Input(Guest, nextInput[Guest]) \in Readings
      BY <2>1, InputType DEF Frames
    <2>3. Append(sendBuffer, SendPacket(nextInput[Guest])) \in Seq(SendPackets)
      BY <2>2, SeqType DEF TypeOK, SendPacket, SendPackets
    <2> QED BY <1>10, <2>1, <2>3 DEF GuestEnqueue, TypeOK, Pending, Polls, hostVars
  <1>11. CASE GuestSend
    <2>1. Head(sendBuffer) \in SendPackets /\ Tail(sendBuffer) \in Seq(SendPackets)
      BY <1>11, SeqType DEF GuestSend, TypeOK
    <2>2. Append(toHost, Head(sendBuffer)) \in Seq(SendPackets)
      BY <2>1, SeqType DEF TypeOK
    <2> QED BY <1>11, <2>1, <2>2 DEF GuestSend, TypeOK, Pending, Polls, hostVars
  <1>12. CASE RecvInput
    <2>1. Head(toHost) \in SendPackets /\ Tail(toHost) \in Seq(SendPackets)
      BY <1>12, SeqType DEF RecvInput, TypeOK
    <2>2. ctrlBuffer' \in [Consoles -> [Slots -> Entries]]
      BY <1>12, <2>1, DeliverType DEF RecvInput, SendPackets
    <2> QED BY <1>12, <2>1, <2>2 DEF RecvInput, TypeOK, Pending, Polls, hostVars, guestVars
  <1>13. CASE UNCHANGED vars
    BY <1>13 DEF vars, TypeOK, Pending, Polls
  <1> QED
    BY <1>1, <1>2, <1>3, <1>4, <1>5, <1>6, <1>7, <1>8, <1>9, <1>10, <1>11, <1>12, <1>13
       DEF Next, HostSendThread

\* Every behaviour keeps the types of the program's variables.
THEOREM TypeCorrect == Spec => []TypeOK
  <1>1. TypeInv => TypeOK
    BY DEF TypeInv
  <1> QED BY <1>1, TypeInit, TypeStep, PTL DEF Spec

-----------------------------------------------------------------------------
(***************************************************************************)
(* The inductive invariant of lock-step play.  LockStep alone is not       *)
(* inductive: it says nothing of the entries and packets that future       *)
(* frames will be played from.                                             *)
(***************************************************************************)

\* A flagged reading for a frame after BUFFER_SIZE is the one its player took,
\* at a time when that player's game was near enough.
Sound(f, have, readings) ==
    \A w \in Wiimotes : f > BUFFER_SIZE /\ have[w] =>
        readings[w] = Input(w, f) /\ f <= frameCount[w] + BUFFER_SIZE - 2

RingSound ==
    \A n \in Consoles, k \in Slots :
        Sound(ctrlBuffer[n][k].frameNumber, ctrlBuffer[n][k].haveInput, ctrlBuffer[n][k].inputs)

StreamSound ==
    \A i \in 1 .. Len(toGuest) :
        Sound(toGuest[i].frameNumber, toGuest[i].haveInput, toGuest[i].inputs)

\* The same for a controller packet on its way to the host.
PacketSound(pkt) ==
    /\ pkt.reading = Input(Guest, pkt.frameNumberToDeliverOn)
    /\ pkt.frameNumberToDeliverOn <= frameCount[Guest] + BUFFER_SIZE - 2

PacketsSound ==
    /\ \A i \in 1 .. Len(sendBuffer) : PacketSound(sendBuffer[i])
    /\ \A i \in 1 .. Len(toHost) : PacketSound(toHost[i])

\* Before a console has its threads nothing has happened on it.
Boot ==
    /\ \A n \in Consoles : ~createdThread[n] => frameCount[n] = 0
    /\ ~createdThread[Guest] => recvCount = 0
    /\ ~createdThread[Host] =>
           sendPc = "wait" /\ \A k \in Slots : ~ctrlBuffer[Host][k].haveSentOrRecv

\* The entry of the frame that is played is numbered with it (on the guest only
\* once the game has left frame 0) and, after BUFFER_SIZE, complete.
CurrentEntry ==
    \A n \in Consoles :
        /\ createdThread[n] /\ (n = Host \/ frameCount[n] > 0) =>
               Entry(n, frameCount[n]).frameNumber = frameCount[n]
        /\ frameCount[n] > BUFFER_SIZE =>
               \A w \in Wiimotes : Entry(n, frameCount[n]).haveInput[w]

\* The entry being transmitted stays in place, with every flag already copied.
Sending ==
    /\ sendPc # "wait" => Entry(Host, nextFrameToSend).frameNumber = nextFrameToSend
    /\ sendPc = "inputs" =>
           \A w \in Wiimotes : outHave[w] => Entry(Host, nextFrameToSend).haveInput[w]
    /\ \A k \in Slots : ctrlBuffer[Host][k].haveSentOrRecv =>
           ctrlBuffer[Host][k].frameNumber < nextFrameToSend

\* The stream to the guest is the broadcast frames in order.
StreamOrder ==
    /\ \A i \in 1 .. Len(toGuest) : toGuest[i].frameNumber = recvCount + i - 1
    /\ recvCount + Len(toGuest) = IF sendPc = "sent" THEN nextFrameToSend + 1
                                                      ELSE nextFrameToSend

\* Only entry 0 can be numbered 0, and not once frame BUFFER_SIZE is merged.
GuestZero ==
    createdThread[Guest] =>
        \A k \in Slots : ctrlBuffer[Guest][k].frameNumber = 0 => k = 0 /\ recvCount <= BUFFER_SIZE

Inv ==
    /\ RingSound
    /\ StreamSound
    /\ PacketsSound
    /\ Boot
    /\ CurrentEntry
    /\ Sending
    /\ StreamOrder
    /\ GuestZero

\* What appending to and removing from a sequence do to its elements.
LEMMA SeqElements ==
  ASSUME NEW S, NEW s \in Seq(S)
  PROVE  /\ Len(s) \in Nat
         /\ \A i \in 1 .. Len(s) : s[i] \in S
         /\ \A x \in S : /\ Len(Append(s, x)) = Len(s) + 1
                         /\ Append(s, x)[Len(s) + 1] = x
                         /\ \A i \in 1 .. Len(s) : Append(s, x)[i] = s[i]
         /\ s # << >> => /\ Len(s) > 0
                         /\ Head(s) = s[1]
                         /\ Len(Tail(s)) = Len(s) - 1
                         /\ \A i \in 1 .. Len(s) - 1 : Tail(s)[i] = s[i + 1]
  OBVIOUS

\* The part of the invariant that is about the rings alone.
RingInv == RingSound /\ Boot /\ CurrentEntry /\ Sending /\ GuestZero

\* The variables that RingInv reads besides the rings.
ringContext == <<createdThread, frameCount, sendPc, nextFrameToSend, outHave, recvCount>>

\* Filing the right reading in an entry keeps the rings sound.
LEMMA DeliverInv ==
  ASSUME TypeOK, RingInv, UNCHANGED ringContext,
         NEW n \in Consoles, NEW w \in Wiimotes, NEW f \in Nat,
         Input(w, f) \in Readings, f <= frameCount[w] + BUFFER_SIZE - 2,
         Deliver(n, w, f, Input(w, f))
  PROVE  RingInv'
  <1> DEFINE e == File(Entry(n, f), w, Input(w, f))
  <1>1. Entry(n, f) \in Entries /\ e \in Entries
    BY EntryType, FileIs
  <1>2. /\ e.frameNumber = f /\ e.haveSentOrRecv = Entry(n, f).haveSentOrRecv
        /\ e.haveInput[w] /\ e.inputs[w] = Input(w, f)
        /\ \A v \in Wiimotes : v # w => /\ e.haveInput[v] = Entry(n, f).haveInput[v]
                                       /\ e.inputs[v] = Entry(n, f).inputs[v]
    <2>1. Entry(n, f).frameNumber = f
      BY DEF Deliver
    <2> QED BY <1>1, <2>1, FileIs
  <1>3. \A m \in Consoles, k \in Slots :
           ctrlBuffer'[m][k] = IF m = n /\ k = Slot(f) THEN e ELSE ctrlBuffer[m][k]
    BY <1>1, SetEntryIs DEF TypeOK, Deliver
  <1> HIDE DEF e
  <1>4. \A m \in Consoles, k \in Slots :
           /\ ctrlBuffer'[m][k].frameNumber = ctrlBuffer[m][k].frameNumber
           /\ ctrlBuffer'[m][k].haveSentOrRecv = ctrlBuffer[m][k].haveSentOrRecv
           /\ \A v \in Wiimotes : ctrlBuffer[m][k].haveInput[v] => ctrlBuffer'[m][k].haveInput[v]
    <2> TAKE m \in Consoles, k \in Slots
    <2>1. CASE m = n /\ k = Slot(f)
      <3>1. ctrlBuffer'[m][k] = e /\ ctrlBuffer[m][k] = Entry(n, f)
        BY <2>1, <1>3 DEF Entry
      <3>2. Entry(n, f).frameNumber = f
        BY DEF Deliver
      <3> QED BY <3>1, <3>2, <1>2
    <2>2. CASE ~(m = n /\ k = Slot(f))
      <3>1. ctrlBuffer'[m][k] = ctrlBuffer[m][k]
        BY <2>2, <1>3
      <3> QED BY <3>1
    <2> QED BY <2>1, <2>2
  <1>5. RingSound'
    <2> SUFFICES ASSUME NEW m \in Consoles, NEW k \in Slots, NEW v \in Wiimotes,
                        ctrlBuffer'[m][k].frameNumber > BUFFER_SIZE,
                        ctrlBuffer'[m][k].haveInput[v]
                 PROVE  /\ ctrlBuffer'[m][k].inputs[v] = Input(v, ctrlBuffer'[m][k].frameNumber)
                        /\ ctrlBuffer'[m][k].frameNumber <= frameCount'[v] + BUFFER_SIZE - 2
      BY DEF RingSound, Sound
    <2>0. frameCount' = frameCount
      BY DEF ringContext
    <2>1. CASE m = n /\ k = Slot(f)
      <3>1. ctrlBuffer'[m][k] = e /\ ctrlBuffer[m][k] = Entry(n, f)
        BY <2>1, <1>3 DEF Entry
      <3>2. Entry(n, f).frameNumber = f
        BY DEF Deliver
      <3>3. CASE v = w
        BY <3>1, <3>3, <2>0, <1>2
      <3>4. CASE v # w
        <4>1. Entry(n, f).haveInput[v] /\ e.inputs[v] = Entry(n, f).inputs[v]
          BY <3>1, <3>4, <1>2
        <4>2. Sound(Entry(n, f).frameNumber, Entry(n, f).haveInput, Entry(n, f).inputs)
          BY <3>1 DEF RingInv, RingSound
        <4> QED BY <3>1, <3>2, <2>0, <1>2, <4>1, <4>2 DEF Sound
      <3> QED BY <3>3, <3>4
    <2>2. CASE ~(m = n /\ k = Slot(f))
      <3>1. ctrlBuffer'[m][k] = ctrlBuffer[m][k]
        BY <2>2, <1>3
      <3> QED BY <3>1, <2>0 DEF RingInv, RingSound, Sound
    <2> QED BY <2>1, <2>2
  <1>6. Boot'
    BY <1>4 DEF RingInv, Boot, ringContext
  <1>7. CurrentEntry'
    <2>1. \A m \in Consoles : Slot(frameCount[m]) \in Slots
      BY SlotType DEF TypeOK
    <2> QED BY <1>4, <2>1 DEF RingInv, CurrentEntry, Entry, Slot, ringContext
  <1>8. Sending'
    <2>1. Slot(nextFrameToSend) \in Slots
      BY SlotType DEF TypeOK
    <2> QED BY <1>4, <2>1 DEF RingInv, Sending, Entry, Slot, ringContext
  <1>9. GuestZero'
    BY <1>4 DEF RingInv, GuestZero, ringContext
  <1> QED BY <1>5, <1>6, <1>7, <1>8, <1>9 DEF RingInv

\* The initial state satisfies the invariant.
LEMMA InvInit == Init => Inv
  <1> SUFFICES ASSUME Init PROVE Inv
    OBVIOUS
  <1>1. RingSound /\ GuestZero /\ Boot /\ StreamOrder
    BY BufferAssumption DEF Init, RingSound, Sound, GuestZero, Boot, StreamOrder, NoInput
  <1>2. StreamSound /\ PacketsSound
    BY DEF Init, StreamSound, PacketsSound
  <1>3. CurrentEntry /\ Sending
    BY BufferAssumption DEF Init, CurrentEntry, Sending
  <1> QED BY <1>1, <1>2, <1>3 DEF Inv

\* Numbering a console's ring when its threads are created keeps the invariant.
LEMMA CreateInv ==
  ASSUME TypeOK, Inv, NEW n \in Consoles, MyOSCreateThread(n)
  PROVE  Inv'
  <1>1. \A k \in Slots : /\ k \in Nat
                         /\ ctrlBuffer'[n][k].frameNumber = k
                         /\ ctrlBuffer'[n][k].haveSentOrRecv = ctrlBuffer[n][k].haveSentOrRecv
    <2> SUFFICES ASSUME NEW k \in Slots
                 PROVE  /\ k \in Nat
                        /\ ctrlBuffer'[n][k].frameNumber = k
                        /\ ctrlBuffer'[n][k].haveSentOrRecv = ctrlBuffer[n][k].haveSentOrRecv
      OBVIOUS
    <2>0. k \in Nat
      BY BufferAssumption DEF Slots
    <2>1. ctrlBuffer[n][k] \in Entries
      BY DEF TypeOK
    <2>2. ctrlBuffer'[n][k] = Number(ctrlBuffer[n][k], k)
      BY DEF MyOSCreateThread, TypeOK
    <2>3. /\ Number(ctrlBuffer[n][k], k).frameNumber = k
          /\ Number(ctrlBuffer[n][k], k).haveSentOrRecv = ctrlBuffer[n][k].haveSentOrRecv
      BY <2>0, <2>1, NumberIs
    <2> QED BY <2>0, <2>2, <2>3
  <1>2. \A m \in Consoles : m # n => ctrlBuffer'[m] = ctrlBuffer[m]
    BY DEF MyOSCreateThread, TypeOK
  <1>3. /\ frameCount' = frameCount /\ toGuest' = toGuest /\ toHost' = toHost
        /\ sendBuffer' = sendBuffer /\ sendPc' = sendPc /\ outHave' = outHave
        /\ nextFrameToSend' = nextFrameToSend /\ recvCount' = recvCount
    BY DEF MyOSCreateThread, hostVars, guestVars
  <1>4. /\ ~createdThread[n] /\ createdThread'[n]
        /\ \A m \in Consoles : m # n => createdThread'[m] = createdThread[m]
    BY DEF MyOSCreateThread, TypeOK
  <1>5. RingSound'
    <2>1. \A k \in Slots : ~(ctrlBuffer'[n][k].frameNumber > BUFFER_SIZE)
      BY <1>1, BufferAssumption DEF Slots
    <2> QED BY <1>2, <1>3, <2>1 DEF Inv, RingSound, Sound
  <1>6. StreamSound' /\ PacketsSound' /\ StreamOrder'
    BY <1>3 DEF Inv, StreamSound, PacketsSound, PacketSound, StreamOrder, Sound
  <1>7. Boot'
    BY <1>2, <1>3, <1>4 DEF Inv, Boot
  <1>8. CurrentEntry'
    <2>1. frameCount[n] = 0 /\ Slot(0) = 0 /\ 0 \in Slots
      BY <1>4, SlotSmall, BufferAssumption DEF Inv, Boot, Slots
    <2>2. Entry(n, frameCount[n])'.frameNumber = frameCount'[n]
      BY <1>1, <1>3, <2>1 DEF Entry, Slot
    <2>3. ~(frameCount'[n] > BUFFER_SIZE)
      BY <1>3, <2>1, BufferAssumption
    <2> QED BY <1>2, <1>3, <1>4, <2>2, <2>3 DEF Inv, CurrentEntry, Entry, Slot
  <1>9. Sending'
    <2>1. CASE n = Host
      BY <1>1, <1>3, <1>4, <2>1 DEF Inv, Boot, Sending
    <2>2. CASE n = Guest
      BY <1>2, <1>3, <2>2 DEF Inv, Sending, Entry, Slot
    <2> QED BY <2>1, <2>2
  <1>10. GuestZero'
    <2>1. CASE n = Host
      BY <1>2, <1>3, <1>4, <2>1 DEF Inv, GuestZero
    <2>2. CASE n = Guest
      BY <1>1, <1>3, <1>4, <2>2, BufferAssumption DEF Inv, Boot, GuestZero
    <2> QED BY <2>1, <2>2
  <1> QED BY <1>5, <1>6, <1>7, <1>8, <1>9, <1>10 DEF Inv

\* Advancing the game to a complete entry and retiring the last one keep the
\* invariant; the retired entry is never the one the send thread is copying.
LEMMA RetraceInv ==
  ASSUME TypeOK, Inv, NEW n \in Consoles, VIRetraceHandler(n)
  PROVE  Inv'
  <1> DEFINE c == frameCount[n]
             old == Entry(n, c)
  <1>1. c \in Nat /\ old \in Entries /\ Slot(c) \in Slots /\ Slot(c + 1) \in Slots
        /\ Slot(c + 1) # Slot(c)
    <2>1. c \in Nat
      BY MaxFrameAssumption DEF TypeOK
    <2> HIDE DEF c
    <2> QED BY <2>1, EntryType, SlotType, SlotSucc
  <1>2. /\ Retire(old) \in Entries /\ Retire(old).frameNumber = old.frameNumber + BUFFER_SIZE
        /\ ~Retire(old).haveSentOrRecv /\ \A v \in Wiimotes : ~Retire(old).haveInput[v]
    BY <1>1, UpdateIs
  <1>3. \A m \in Consoles, k \in Slots :
           ctrlBuffer'[m][k] = IF m = n /\ k = Slot(c) THEN Retire(old) ELSE ctrlBuffer[m][k]
    BY <1>1, <1>2, SetEntryIs DEF VIRetraceHandler, TypeOK
  <1>4. /\ createdThread' = createdThread /\ toGuest' = toGuest /\ toHost' = toHost
        /\ sendBuffer' = sendBuffer /\ sendPc' = sendPc /\ outHave' = outHave
        /\ nextFrameToSend' = nextFrameToSend /\ recvCount' = recvCount
        /\ createdThread[n]
    BY DEF VIRetraceHandler, hostVars, guestVars
  <1>5. /\ frameCount'[n] = c + 1
        /\ \A m \in Consoles : m # n => frameCount'[m] = frameCount[m]
        /\ \A m \in Consoles : frameCount[m] \in Nat /\ frameCount[m] <= frameCount'[m]
                               /\ frameCount'[m] \in Nat
    BY MaxFrameAssumption DEF VIRetraceHandler, TypeOK
  <1>6. /\ Entry(n, c + 1).frameNumber = c + 1
        /\ Entry(n, c + 1).haveSentOrRecv
        /\ \A w \in Wiimotes : Entry(n, c + 1).haveInput[w]
    BY DEF VIRetraceHandler, Stall
  <1> HIDE DEF c, old
  <1>7. RingSound'
    <2> SUFFICES ASSUME NEW m \in Consoles, NEW k \in Slots, NEW v \in Wiimotes,
                        ctrlBuffer'[m][k].frameNumber > BUFFER_SIZE,
                        ctrlBuffer'[m][k].haveInput[v]
                 PROVE  /\ ctrlBuffer'[m][k].inputs[v] = Input(v, ctrlBuffer'[m][k].frameNumber)
                        /\ ctrlBuffer'[m][k].frameNumber <= frameCount'[v] + BUFFER_SIZE - 2
      BY DEF RingSound, Sound
    <2>1. ctrlBuffer'[m][k] = ctrlBuffer[m][k]
      BY <1>2, <1>3
    <2>2. /\ ctrlBuffer[m][k].inputs[v] = Input(v, ctrlBuffer[m][k].frameNumber)
          /\ ctrlBuffer[m][k].frameNumber <= frameCount[v] + BUFFER_SIZE - 2
      BY <2>1 DEF Inv, RingSound, Sound
    <2>3. ctrlBuffer[m][k].frameNumber \in Nat
      BY DEF TypeOK, Entries
    <2> QED BY <2>1, <2>2, <2>3, <1>5, BufferAssumption
  <1>8. StreamSound'
    <2> SUFFICES ASSUME NEW i \in 1 .. Len(toGuest), NEW v \in Wiimotes,
                        toGuest[i].frameNumber > BUFFER_SIZE, toGuest[i].haveInput[v]
                 PROVE  /\ toGuest[i].inputs[v] = Input(v, toGuest[i].frameNumber)
                        /\ toGuest[i].frameNumber <= frameCount'[v] + BUFFER_SIZE - 2
      BY <1>4 DEF StreamSound, Sound
    <2>1. toGuest[i].frameNumber \in Nat
      <3>1. toGuest[i] \in CtrlPackets
        BY SeqElements DEF TypeOK
      <3> QED BY <3>1 DEF CtrlPackets
    <2>2. /\ toGuest[i].inputs[v] = Input(v, toGuest[i].frameNumber)
          /\ toGuest[i].frameNumber <= frameCount[v] + BUFFER_SIZE - 2
      BY DEF Inv, StreamSound, Sound
    <2>3. frameCount[v] \in Nat /\ frameCount'[v] \in Nat /\ frameCount[v] <= frameCount'[v]
      BY <1>5
    <2>4. toGuest[i].frameNumber <= frameCount'[v] + BUFFER_SIZE - 2
      BY <2>1, <2>2, <2>3, BufferAssumption
    <2> QED BY <2>2, <2>4
  <1>9. PacketsSound'
    <2>1. ASSUME NEW s \in Seq(SendPackets), NEW i \in 1 .. Len(s), PacketSound(s[i])
          PROVE  /\ s[i].reading = Input(Guest, s[i].frameNumberToDeliverOn)
                 /\ s[i].frameNumberToDeliverOn <= frameCount'[Guest] + BUFFER_SIZE - 2
      <3>1. s[i].frameNumberToDeliverOn \in Nat
        <4>1. s[i] \in SendPackets
          BY SeqElements
        <4> QED BY <4>1 DEF SendPackets
      <3> QED BY <2>1, <3>1, <1>5, BufferAssumption DEF PacketSound
    <2> QED BY <1>4, <2>1 DEF TypeOK, Inv, PacketsSound, PacketSound
  <1>10. StreamOrder'
    BY <1>4 DEF Inv, StreamOrder
  <1>11. Boot'
    BY <1>3, <1>4, <1>5 DEF Inv, Boot
  <1>12. CurrentEntry'
    <2> SUFFICES ASSUME NEW m \in Consoles
                 PROVE  /\ createdThread'[m] /\ (m = Host \/ frameCount'[m] > 0) =>
                              ctrlBuffer'[m][Slot(frameCount'[m])].frameNumber = frameCount'[m]
                        /\ frameCount'[m] > BUFFER_SIZE =>
                              \A w \in Wiimotes : ctrlBuffer'[m][Slot(frameCount'[m])].haveInput[w]
      BY DEF CurrentEntry, Entry, Slot
    <2>1. CASE m = n
      <3>1. ctrlBuffer'[m][Slot(frameCount'[m])] = Entry(n, c + 1)
        BY <2>1, <1>1, <1>3, <1>5 DEF Entry
      <3> QED BY <2>1, <3>1, <1>5, <1>6
    <2>2. CASE m # n
      <3>1. frameCount'[m] = frameCount[m] /\ Slot(frameCount[m]) \in Slots
        BY <2>2, <1>5, SlotType
      <3>2. ctrlBuffer'[m][Slot(frameCount'[m])] = Entry(m, frameCount[m])
        BY <2>2, <3>1, <1>3 DEF Entry
      <3> QED BY <3>1, <3>2, <1>4 DEF Inv, CurrentEntry
    <2> QED BY <2>1, <2>2
  <1>13. Sending'
    <2>1. Slot(nextFrameToSend) \in Slots /\ nextFrameToSend \in Nat
      BY SlotType DEF TypeOK
    <2>2. CASE n = Host
      <3>1. c < nextFrameToSend
        BY <2>1, <2>2, <1>1, <1>6 DEF Inv, Sending, Entry
      <3>2. sendPc # "wait" => Slot(nextFrameToSend) # Slot(c)
        BY <2>1, <2>2, <3>1, <1>1, <1>4 DEF Inv, Sending, CurrentEntry, Entry, c
      <3>3. sendPc # "wait" =>
               ctrlBuffer'[Host][Slot(nextFrameToSend)] = Entry(Host, nextFrameToSend)
        BY <2>1, <3>2, <1>3 DEF Entry
      <3>4. \A k \in Slots : ctrlBuffer'[Host][k].haveSentOrRecv =>
               ctrlBuffer'[Host][k].frameNumber < nextFrameToSend
        BY <1>2, <1>3 DEF Inv, Sending
      <3> QED BY <3>3, <3>4, <1>4 DEF Inv, Sending, Entry, Slot
    <2>3. CASE n # Host
      <3>1. \A k \in Slots : ctrlBuffer'[Host][k] = ctrlBuffer[Host][k]
        BY <2>3, <1>3
      <3> QED BY <2>1, <3>1, <1>4 DEF Inv, Sending, Entry, Slot
    <2> QED BY <2>2, <2>3
  <1>14. GuestZero'
    <2>1. Retire(old).frameNumber # 0
      BY <1>1, <1>2, BufferAssumption DEF Entries
    <2> QED BY <2>1, <1>3, <1>4 DEF Inv, GuestZero
  <1> QED BY <1>7, <1>8, <1>9, <1>10, <1>11, <1>12, <1>13, <1>14 DEF Inv

\* The host's send thread completes an entry.
LEMMA PrepareInv ==
  ASSUME TypeOK, Inv, SendPrepare
  PROVE  Inv'
  <1> DEFINE f == nextFrameToSend
             e == Entry(Host, f)
  <1>1. f \in Nat /\ Slot(f) \in Slots /\ e \in Entries /\ e.frameNumber = f
    BY SlotType, EntryType DEF TypeOK, SendPrepare
  <1>2. /\ Disconnect(e) \in Entries /\ Disconnect(e).frameNumber = f
        /\ Disconnect(e).haveSentOrRecv = e.haveSentOrRecv
        /\ \A v \in Wiimotes : Disconnect(e).haveInput[v]
    BY <1>1, UpdateIs
  <1>3. \A m \in Consoles, k \in Slots :
           \/ ctrlBuffer'[m][k] = ctrlBuffer[m][k]
           \/ /\ m = Host /\ k = Slot(f) /\ ~(f > BUFFER_SIZE)
              /\ ctrlBuffer'[m][k] = Disconnect(e)
    BY <1>1, <1>2, SetEntryIs DEF SendPrepare, TypeOK
  <1>4. /\ createdThread' = createdThread /\ toGuest' = toGuest /\ toHost' = toHost
        /\ sendBuffer' = sendBuffer /\ outHave' = outHave /\ frameCount' = frameCount
        /\ nextFrameToSend' = f /\ recvCount' = recvCount
        /\ createdThread[Host] /\ sendPc = "wait" /\ sendPc' = "flags"
    BY DEF SendPrepare, guestVars
  <1>5. ctrlBuffer[Host][Slot(f)] = e
    BY DEF Entry
  <1> HIDE DEF f, e
  <1>6. \A m \in Consoles, k \in Slots :
           /\ ctrlBuffer'[m][k].frameNumber = ctrlBuffer[m][k].frameNumber
           /\ ctrlBuffer'[m][k].haveSentOrRecv = ctrlBuffer[m][k].haveSentOrRecv
           /\ \A v \in Wiimotes : ctrlBuffer[m][k].haveInput[v] => ctrlBuffer'[m][k].haveInput[v]
    BY <1>1, <1>2, <1>3, <1>5
  <1>7. RingSound'
    <2> SUFFICES ASSUME NEW m \in Consoles, NEW k \in Slots,
                        ctrlBuffer'[m][k].frameNumber > BUFFER_SIZE
                 PROVE  ctrlBuffer'[m][k] = ctrlBuffer[m][k]
      BY <1>4, <1>6 DEF Inv, RingSound, Sound
    <2> QED BY <1>2, <1>3
  <1>8. StreamSound' /\ PacketsSound' /\ StreamOrder'
    BY <1>4 DEF Inv, StreamSound, PacketsSound, PacketSound, StreamOrder, Sound, f
  <1>9. Boot'
    BY <1>4 DEF Inv, Boot
  <1>10. CurrentEntry'
    <2>1. \A m \in Consoles : Slot(frameCount[m]) \in Slots
      BY SlotType DEF TypeOK
    <2> QED BY <1>4, <1>6, <2>1 DEF Inv, CurrentEntry, Entry, Slot
  <1>11. Sending'
    <2>1. ctrlBuffer'[Host][Slot(f)].frameNumber = f
      BY <1>1, <1>5, <1>6
    <2> QED BY <1>4, <1>6, <2>1 DEF Inv, Sending, Entry, Slot, f
  <1>12. GuestZero'
    BY <1>4, <1>6 DEF Inv, GuestZero
  <1> QED BY <1>7, <1>8, <1>9, <1>10, <1>11, <1>12 DEF Inv

\* It copies the entry's flags, then the rest of it, to the stream.
LEMMA CopyInv ==
  ASSUME TypeOK, Inv, SendFlags \/ SendInputs
  PROVE  Inv'
  <1> DEFINE f == nextFrameToSend
             e == Entry(Host, f)
  <1>1. f \in Nat /\ e \in Entries
    BY EntryType DEF TypeOK
  <1>2. /\ createdThread' = createdThread /\ toHost' = toHost /\ ctrlBuffer' = ctrlBuffer
        /\ sendBuffer' = sendBuffer /\ frameCount' = frameCount
        /\ nextFrameToSend' = nextFrameToSend /\ recvCount' = recvCount
        /\ sendPc # "wait" /\ sendPc' # "wait" /\ sendPc # "sent"
    BY DEF SendFlags, SendInputs, guestVars
  <1>3. e.frameNumber = f
    BY <1>2 DEF Inv, Sending
  <1>4. RingSound' /\ PacketsSound' /\ Boot' /\ CurrentEntry' /\ GuestZero'
    BY <1>2 DEF Inv, RingSound, PacketsSound, PacketSound, Sound, Boot, CurrentEntry,
                Entry, Slot, GuestZero
  <1>5. CASE SendFlags
    <2>1. toGuest' = toGuest /\ outHave' = e.haveInput /\ sendPc' = "inputs"
      BY <1>5 DEF SendFlags
    <2>2. StreamSound' /\ StreamOrder'
      BY <1>2, <2>1 DEF Inv, StreamSound, StreamOrder, Sound
    <2>3. Sending'
      BY <1>2, <2>1 DEF Inv, Sending, Entry, Slot
    <2> QED BY <1>4, <2>2, <2>3 DEF Inv
  <1>6. CASE SendInputs
    <2> DEFINE pkt == [frameNumber |-> e.frameNumber, haveInput |-> outHave,
                       inputs |-> e.inputs]
    <2>1. toGuest' = Append(toGuest, pkt) /\ sendPc' = "sent" /\ sendPc = "inputs"
      BY <1>6 DEF SendInputs
    <2>2. pkt \in CtrlPackets /\ pkt.frameNumber = f
          /\ pkt.haveInput = outHave /\ pkt.inputs = e.inputs
      BY <1>1, <1>3 DEF TypeOK, Entries, CtrlPackets
    <2> HIDE DEF pkt
    <2>3. /\ Len(toGuest) \in Nat /\ Len(toGuest') = Len(toGuest) + 1
          /\ toGuest'[Len(toGuest) + 1] = pkt
          /\ \A i \in 1 .. Len(toGuest) : toGuest'[i] = toGuest[i]
      BY <2>1, <2>2, SeqElements DEF TypeOK
    <2>4. Sound(pkt.frameNumber, pkt.haveInput, pkt.inputs)
      <3>1. Sound(e.frameNumber, e.haveInput, e.inputs)
        BY <1>1, SlotType DEF Inv, RingSound, Entry
      <3>2. \A w \in Wiimotes : outHave[w] => e.haveInput[w]
        BY <2>1 DEF Inv, Sending
      <3> QED BY <2>2, <3>1, <3>2, <1>3 DEF Sound
    <2>5. StreamSound'
      <3> SUFFICES ASSUME NEW i \in 1 .. Len(toGuest')
                   PROVE  Sound(toGuest'[i].frameNumber, toGuest'[i].haveInput,
                                toGuest'[i].inputs)
        BY <1>2 DEF StreamSound, Sound
      <3>1. CASE i = Len(toGuest) + 1
        BY <3>1, <2>3, <2>4
      <3>2. CASE i # Len(toGuest) + 1
        <4>1. i \in 1 .. Len(toGuest)
          BY <3>2, <2>3
        <4> QED BY <4>1, <2>3 DEF Inv, StreamSound
      <3> QED BY <3>1, <3>2
    <2>6. StreamOrder'
      <3>1. recvCount + Len(toGuest) = f
        BY <2>1 DEF Inv, StreamOrder
      <3>2. recvCount \in Nat
        BY DEF TypeOK
      <3>3. recvCount + Len(toGuest') = f + 1
        BY <1>1, <2>3, <3>1, <3>2
      <3>4. \A i \in 1 .. Len(toGuest') : toGuest'[i].frameNumber = recvCount + i - 1
        <4> SUFFICES ASSUME NEW i \in 1 .. Len(toGuest')
                     PROVE  toGuest'[i].frameNumber = recvCount + i - 1
          OBVIOUS
        <4>1. CASE i = Len(toGuest) + 1
          BY <4>1, <2>2, <2>3, <3>1, <3>2
        <4>2. CASE i # Len(toGuest) + 1
          <5>1. i \in 1 .. Len(toGuest)
            BY <4>2, <2>3
          <5> QED BY <5>1, <2>3 DEF Inv, StreamOrder
        <4> QED BY <4>1, <4>2
      <3> QED BY <3>3, <3>4, <1>2, <2>1 DEF StreamOrder
    <2>7. Sending'
      BY <1>2, <2>1 DEF Inv, Sending, Entry, Slot
    <2> QED BY <1>4, <2>5, <2>6, <2>7 DEF Inv
  <1> QED BY <1>5, <1>6

\* It marks the entry as sent and turns to the next frame.
LEMMA DoneInv ==
  ASSUME TypeOK, Inv, SendDone
  PROVE  Inv'
  <1> DEFINE f == nextFrameToSend
             e == Entry(Host, f)
  <1>1. f \in Nat /\ Slot(f) \in Slots /\ e \in Entries
    BY SlotType, EntryType DEF TypeOK
  <1>2. /\ MarkSent(e) \in Entries /\ MarkSent(e).frameNumber = e.frameNumber
        /\ MarkSent(e).haveInput = e.haveInput /\ MarkSent(e).inputs = e.inputs
    BY <1>1, UpdateIs
  <1>3. \A m \in Consoles, k \in Slots :
           ctrlBuffer'[m][k] = IF m = Host /\ k = Slot(f) THEN MarkSent(e) ELSE ctrlBuffer[m][k]
    BY <1>1, <1>2, SetEntryIs DEF SendDone, TypeOK
  <1>4. /\ createdThread' = createdThread /\ toGuest' = toGuest /\ toHost' = toHost
        /\ sendBuffer' = sendBuffer /\ frameCount' = frameCount /\ recvCount' = recvCount
        /\ nextFrameToSend' = f + 1 /\ sendPc = "sent" /\ sendPc' = "wait"
    BY DEF SendDone, guestVars
  <1>5. ctrlBuffer[Host][Slot(f)] = e /\ e.frameNumber = f /\ createdThread[Host]
    BY <1>4 DEF Inv, Sending, Boot, Entry
  <1> HIDE DEF e
  <1>6. \A m \in Consoles, k \in Slots :
           /\ ctrlBuffer'[m][k].frameNumber = ctrlBuffer[m][k].frameNumber
           /\ ctrlBuffer'[m][k].haveInput = ctrlBuffer[m][k].haveInput
           /\ ctrlBuffer'[m][k].inputs = ctrlBuffer[m][k].inputs
    BY <1>2, <1>3, <1>5
  <1>7. RingSound'
    BY <1>4, <1>6 DEF Inv, RingSound, Sound
  <1>8. StreamSound' /\ PacketsSound'
    BY <1>4 DEF Inv, StreamSound, PacketsSound, PacketSound, Sound
  <1>9. StreamOrder'
    BY <1>4 DEF Inv, StreamOrder
  <1>10. Boot'
    BY <1>4, <1>5 DEF Inv, Boot
  <1>11. CurrentEntry'
    <2>1. \A m \in Consoles : Slot(frameCount[m]) \in Slots
      BY SlotType DEF TypeOK
    <2> QED BY <1>4, <1>6, <2>1 DEF Inv, CurrentEntry, Entry, Slot
  <1>12. Sending'
    <2> SUFFICES ASSUME NEW k \in Slots, ctrlBuffer'[Host][k].haveSentOrRecv
                 PROVE  ctrlBuffer'[Host][k].frameNumber < f + 1
      BY <1>4 DEF Sending
    <2>1. CASE k = Slot(f)
      BY <2>1, <1>1, <1>5, <1>6
    <2>2. CASE k # Slot(f)
      <3>1. ctrlBuffer'[Host][k] = ctrlBuffer[Host][k] /\ ctrlBuffer[Host][k].frameNumber \in Nat
        BY <2>2, <1>3 DEF TypeOK, Entries
      <3> QED BY <3>1, <1>1 DEF Inv, Sending
    <2> QED BY <2>1, <2>2
  <1>13. GuestZero'
    BY <1>4, <1>6 DEF Inv, GuestZero
  <1> QED BY <1>7, <1>8, <1>9, <1>10, <1>11, <1>12, <1>13 DEF Inv

\* The guest merges a broadcast frame.  An own reading that the packet lacks is
\* kept only in an entry that is numbered with the packet's frame, or for one
\* of the frames that are played without readings.
LEMMA RecvInv ==
  ASSUME TypeOK, Inv, RecvCtrl
  PROVE  Inv'
  <1> DEFINE pkt == Head(toGuest)
             e == Entry(Guest, recvCount)
             r == recvCount
  <1>1. r \in Nat /\ Slot(r) \in Slots /\ e \in Entries
    BY SlotType, EntryType DEF TypeOK
  <1>2. /\ Len(toGuest) \in Nat /\ Len(toGuest) > 0 /\ pkt = toGuest[1]
        /\ Len(toGuest') = Len(toGuest) - 1
        /\ \A i \in 1 .. Len(toGuest) - 1 : toGuest'[i] = toGuest[i + 1]
    BY SeqElements DEF RecvCtrl, TypeOK
  <1>3. pkt \in CtrlPackets
    BY SeqType DEF RecvCtrl, TypeOK
  <1>4. /\ createdThread' = createdThread /\ toHost' = toHost /\ outHave' = outHave
        /\ sendBuffer' = sendBuffer /\ frameCount' = frameCount /\ recvCount' = r + 1
        /\ nextFrameToSend' = nextFrameToSend /\ sendPc' = sendPc
        /\ createdThread[Guest] /\ (e.frameNumber # 0 => e.frameNumber = pkt.frameNumber)
    BY DEF RecvCtrl, RecvReady, hostVars
  <1>5. pkt.frameNumber = r
    BY <1>1, <1>2 DEF Inv, StreamOrder
  <1> DEFINE g == Merge(e, pkt)
  <1>6. /\ g \in Entries /\ g.frameNumber = r
        /\ \A v \in Wiimotes :
              /\ e.haveInput[v] => g.haveInput[v]
              /\ g.haveInput[v] => \/ pkt.haveInput[v] /\ g.inputs[v] = pkt.inputs[v]
                                   \/ e.haveInput[v] /\ g.inputs[v] = e.inputs[v]
    <2> HIDE DEF e, pkt
    <2> QED BY <1>1, <1>3, <1>5, MergeIs
  <1>7. \A m \in Consoles, k \in Slots :
           ctrlBuffer'[m][k] = IF m = Guest /\ k = Slot(r) THEN g ELSE ctrlBuffer[m][k]
    BY <1>1, <1>6, SetEntryIs DEF RecvCtrl, TypeOK
  <1>8. ctrlBuffer[Guest][Slot(r)] = e
    BY DEF Entry
  <1>9. Sound(pkt.frameNumber, pkt.haveInput, pkt.inputs)
    BY <1>2 DEF Inv, StreamSound
  <1>10. Sound(e.frameNumber, e.haveInput, e.inputs)
    BY <1>1, <1>8 DEF Inv, RingSound
  <1>11. r > BUFFER_SIZE => e.frameNumber = r
    BY <1>1, <1>4, <1>5, <1>8, BufferAssumption DEF Inv, GuestZero
  <1> HIDE DEF pkt, e, g, r
  <1>12. RingSound'
    <2> SUFFICES ASSUME NEW m \in Consoles, NEW k \in Slots, NEW v \in Wiimotes,
                        ctrlBuffer'[m][k].frameNumber > BUFFER_SIZE,
                        ctrlBuffer'[m][k].haveInput[v]
                 PROVE  /\ ctrlBuffer'[m][k].inputs[v] = Input(v, ctrlBuffer'[m][k].frameNumber)
                        /\ ctrlBuffer'[m][k].frameNumber <= frameCount[v] + BUFFER_SIZE - 2
      BY <1>4 DEF RingSound, Sound
    <2>1. CASE m = Guest /\ k = Slot(r)
      <3>1. ctrlBuffer'[m][k] = g
        BY <2>1, <1>7
      <3>2. r > BUFFER_SIZE /\ e.frameNumber = r
        BY <3>1, <1>6, <1>11
      <3>3. CASE pkt.haveInput[v] /\ g.inputs[v] = pkt.inputs[v]
        BY <3>1, <3>2, <3>3, <1>5, <1>6, <1>9 DEF Sound
      <3>4. CASE e.haveInput[v] /\ g.inputs[v] = e.inputs[v]
        BY <3>1, <3>2, <3>4, <1>6, <1>10 DEF Sound
      <3> QED BY <3>1, <3>3, <3>4, <1>6
    <2>2. CASE ~(m = Guest /\ k = Slot(r))
      <3>1. ctrlBuffer'[m][k] = ctrlBuffer[m][k]
        BY <2>2, <1>7
      <3> QED BY <3>1 DEF Inv, RingSound, Sound
    <2> QED BY <2>1, <2>2
  <1>13. StreamSound'
    <2> SUFFICES ASSUME NEW i \in 1 .. Len(toGuest')
                 PROVE  Sound(toGuest'[i].frameNumber, toGuest'[i].haveInput, toGuest'[i].inputs)
      BY <1>4 DEF StreamSound, Sound
    <2>1. i \in 1 .. Len(toGuest) - 1 /\ i + 1 \in 1 .. Len(toGuest)
      BY <1>2
    <2> QED BY <2>1, <1>2 DEF Inv, StreamSound
  <1>14. PacketsSound'
    BY <1>4 DEF Inv, PacketsSound, PacketSound
  <1>15. StreamOrder'
    <2>1. \A i \in 1 .. Len(toGuest') : toGuest'[i].frameNumber = recvCount' + i - 1
      <3> SUFFICES ASSUME NEW i \in 1 .. Len(toGuest')
                   PROVE  toGuest'[i].frameNumber = r + 1 + i - 1
        BY <1>4
      <3>1. i \in 1 .. Len(toGuest) - 1 /\ i + 1 \in 1 .. Len(toGuest)
        BY <1>2
      <3>2. toGuest[i + 1].frameNumber = r + (i + 1) - 1
        BY <3>1 DEF Inv, StreamOrder, r
      <3> QED BY <3>1, <3>2, <1>1, <1>2
    <2>2. recvCount' + Len(toGuest') = r + Len(toGuest)
      BY <1>1, <1>2, <1>4
    <2> QED BY <2>1, <2>2, <1>4 DEF Inv, StreamOrder, r
  <1>16. Boot'
    BY <1>4, <1>7 DEF Inv, Boot
  <1>17. CurrentEntry'
    <2> SUFFICES ASSUME NEW m \in Consoles
                 PROVE  /\ createdThread[m] /\ (m = Host \/ frameCount[m] > 0) =>
                              ctrlBuffer'[m][Slot(frameCount[m])].frameNumber = frameCount[m]
                        /\ frameCount[m] > BUFFER_SIZE =>
                              \A w \in Wiimotes : ctrlBuffer'[m][Slot(frameCount[m])].haveInput[w]
      BY <1>4 DEF CurrentEntry, Entry, Slot
    <2>1. frameCount[m] \in Nat /\ Slot(frameCount[m]) \in Slots
      BY SlotType, MaxFrameAssumption DEF TypeOK
    <2>2. CASE m = Guest /\ Slot(frameCount[m]) = Slot(r)
      <3>1. ctrlBuffer'[m][Slot(frameCount[m])] = g /\ Entry(m, frameCount[m]) = e
        BY <2>1, <2>2, <1>7, <1>8 DEF Entry
      <3>2. frameCount[m] > 0 => g.frameNumber = frameCount[m]
        BY <2>1, <2>2, <3>1, <1>4, <1>5, <1>6 DEF Inv, CurrentEntry
      <3>3. frameCount[m] > BUFFER_SIZE => \A w \in Wiimotes : g.haveInput[w]
        BY <3>1, <1>6 DEF Inv, CurrentEntry
      <3> QED BY <2>2, <3>1, <3>2, <3>3
    <2>3. CASE ~(m = Guest /\ Slot(frameCount[m]) = Slot(r))
      <3>1. ctrlBuffer'[m][Slot(frameCount[m])] = Entry(m, frameCount[m])
        BY <2>1, <2>3, <1>7 DEF Entry
      <3> QED BY <3>1 DEF Inv, CurrentEntry
    <2> QED BY <2>2, <2>3
  <1>18. Sending'
    <2>1. \A k \in Slots : ctrlBuffer'[Host][k] = ctrlBuffer[Host][k]
      BY <1>7
    <2>2. Slot(nextFrameToSend) \in Slots
      BY SlotType DEF TypeOK
    <2> QED BY <2>1, <2>2, <1>4 DEF Inv, Sending, Entry, Slot
  <1>19. GuestZero'
    <2> SUFFICES ASSUME NEW k \in Slots, ctrlBuffer'[Guest][k].frameNumber = 0
                 PROVE  k = 0 /\ r + 1 <= BUFFER_SIZE
      BY <1>4 DEF GuestZero
    <2>1. CASE k = Slot(r)
      <3>1. r = 0
        BY <2>1, <1>6, <1>7
      <3>2. Slot(0) = 0
        BY SlotSmall, BufferAssumption DEF Slots
      <3> QED BY <2>1, <3>1, <3>2, BufferAssumption
    <2>2. CASE k # Slot(r)
      <3>1. ctrlBuffer[Guest][k].frameNumber = 0
        BY <2>2, <1>7
      <3>2. k = 0 /\ r <= BUFFER_SIZE
        BY <3>1, <1>4 DEF Inv, GuestZero, r
      <3> QED BY <2>2, <3>2, <1>1, SlotWrap, BufferAssumption
    <2> QED BY <2>1, <2>2
  <1> QED BY <1>12, <1>13, <1>14, <1>15, <1>16, <1>17, <1>18, <1>19 DEF Inv

\* The controller threads and the two ends of the stream to the host.
LEMMA InputInv ==
  ASSUME TypeInv, Inv,
         HostController \/ GuestController \/ GuestEnqueue \/ GuestSend \/ RecvInput
  PROVE  Inv'
  <1>0. RingInv
    BY DEF Inv, RingInv
  <1>1. /\ UNCHANGED ringContext /\ toGuest' = toGuest
    BY DEF HostController, GuestController, GuestEnqueue, GuestSend, RecvInput,
           hostVars, guestVars, ringContext
  <1>2. StreamSound' /\ StreamOrder'
    BY <1>1 DEF Inv, StreamSound, StreamOrder, Sound, ringContext
  <1>3. ASSUME NEW n \in Consoles, Polls(n)
        PROVE  /\ nextInput[n] \in Nat /\ Input(n, nextInput[n]) \in Readings
               /\ nextInput[n] <= frameCount[n] + BUFFER_SIZE - 2
    <2>1. nextInput[n] \in Frames /\ nextInput[n] \in Nat /\ frameCount[n] \in Nat
      BY MaxFrameAssumption, BufferAssumption DEF TypeInv, TypeOK, Frames
    <2> QED BY <1>3, <2>1, InputType, BufferAssumption DEF Polls
  <1>4. ASSUME Polls(Guest)
        PROVE  /\ SendPacket(nextInput[Guest]) \in SendPackets
               /\ PacketSound(SendPacket(nextInput[Guest]))
    BY <1>3, <1>4 DEF SendPacket, SendPackets, PacketSound
  <1>5. ASSUME Polls(Guest), sendBuffer' = Append(sendBuffer, SendPacket(nextInput[Guest])),
               toHost' = toHost
        PROVE  PacketsSound'
    <2> DEFINE pkt == SendPacket(nextInput[Guest])
    <2>1. pkt \in SendPackets /\ PacketSound(pkt)
      BY <1>4, <1>5
    <2> HIDE DEF pkt
    <2>2. /\ Len(sendBuffer) \in Nat /\ Len(sendBuffer') = Len(sendBuffer) + 1
          /\ sendBuffer'[Len(sendBuffer) + 1] = pkt
          /\ \A i \in 1 .. Len(sendBuffer) : sendBuffer'[i] = sendBuffer[i]
      BY <1>5, <2>1, SeqElements DEF TypeInv, TypeOK, pkt
    <2>3. \A i \in 1 .. Len(sendBuffer') : PacketSound(sendBuffer'[i])
      <3> SUFFICES ASSUME NEW i \in 1 .. Len(sendBuffer') PROVE PacketSound(sendBuffer'[i])
        OBVIOUS
      <3>1. CASE i = Len(sendBuffer) + 1
        BY <3>1, <2>1, <2>2
      <3>2. CASE i # Len(sendBuffer) + 1
        <4>1. i \in 1 .. Len(sendBuffer)
          BY <3>2, <2>2
        <4> QED BY <4>1, <2>2 DEF Inv, PacketsSound
      <3> QED BY <3>1, <3>2
    <2> QED BY <2>3, <1>1, <1>5 DEF Inv, PacketsSound, PacketSound, ringContext
  <1>6. CASE HostController
    <2>1. RingInv'
      BY <1>0, <1>1, <1>3, <1>6, DeliverInv DEF HostController, TypeInv
    <2>2. PacketsSound'
      BY <1>1, <1>6 DEF HostController, guestVars, Inv, PacketsSound, PacketSound, ringContext
    <2> QED BY <1>2, <2>1, <2>2 DEF Inv, RingInv
  <1>7. CASE GuestController
    <2>1. RingInv'
      BY <1>0, <1>1, <1>3, <1>7, DeliverInv DEF GuestController, TypeInv
    <2>2. ASSUME UNCHANGED sendBuffer PROVE PacketsSound'
      BY <1>1, <1>7, <2>2 DEF GuestController, Inv, PacketsSound, PacketSound, ringContext
    <2>3. ASSUME sendBuffer' = Append(sendBuffer, SendPacket(nextInput[Guest]))
          PROVE  PacketsSound'
      BY <1>5, <1>7, <2>3 DEF GuestController
    <2>4. PacketsSound'
      BY <1>7, <2>2, <2>3 DEF GuestController
    <2> QED BY <1>2, <2>1, <2>4 DEF Inv, RingInv
  <1>8. ASSUME ctrlBuffer' = ctrlBuffer PROVE RingInv'
    BY <1>0, <1>1, <1>8 DEF RingInv, RingSound, Sound, Boot, CurrentEntry, Sending, GuestZero,
                            Entry, Slot, ringContext
  <1>9. CASE GuestEnqueue
    <2>1. RingInv' /\ PacketsSound'
      BY <1>5, <1>8, <1>9 DEF GuestEnqueue, TypeInv, Pending
    <2> QED BY <1>2, <2>1 DEF Inv, RingInv
  <1>10. CASE GuestSend
    <2> DEFINE pkt == Head(sendBuffer)
    <2>1. /\ Len(sendBuffer) \in Nat /\ Len(sendBuffer) > 0
          /\ pkt = sendBuffer[1] /\ pkt \in SendPackets
          /\ Len(sendBuffer') = Len(sendBuffer) - 1
          /\ \A i \in 1 .. Len(sendBuffer) - 1 : sendBuffer'[i] = sendBuffer[i + 1]
      BY <1>10, SeqElements, SeqType DEF GuestSend, TypeInv, TypeOK
    <2>2. toHost' = Append(toHost, pkt)
      BY <1>10 DEF GuestSend
    <2> HIDE DEF pkt
    <2>3. /\ Len(toHost) \in Nat /\ Len(toHost') = Len(toHost) + 1
          /\ toHost'[Len(toHost) + 1] = pkt
          /\ \A i \in 1 .. Len(toHost) : toHost'[i] = toHost[i]
      BY <2>1, <2>2, SeqElements DEF TypeInv, TypeOK
    <2>4. PacketSound(pkt)
      BY <2>1 DEF Inv, PacketsSound
    <2>5. \A i \in 1 .. Len(toHost') : PacketSound(toHost'[i])
      <3> SUFFICES ASSUME NEW i \in 1 .. Len(toHost') PROVE PacketSound(toHost'[i])
        OBVIOUS
      <3>1. CASE i = Len(toHost) + 1
        BY <3>1, <2>3, <2>4
      <3>2. CASE i # Len(toHost) + 1
        <4>1. i \in 1 .. Len(toHost)
          BY <3>2, <2>3
        <4> QED BY <4>1, <2>3 DEF Inv, PacketsSound
      <3> QED BY <3>1, <3>2
    <2>6. \A i \in 1 .. Len(sendBuffer') : PacketSound(sendBuffer'[i])
      <3> SUFFICES ASSUME NEW i \in 1 .. Len(sendBuffer') PROVE PacketSound(sendBuffer'[i])
        OBVIOUS
      <3>1. i \in 1 .. Len(sendBuffer) - 1 /\ i + 1 \in 1 .. Len(sendBuffer)
        BY <2>1
      <3> QED BY <3>1, <2>1 DEF Inv, PacketsSound
    <2>7. PacketsSound'
      BY <2>5, <2>6, <1>1 DEF PacketsSound, PacketSound, ringContext
    <2>8. RingInv'
      BY <1>8, <1>10 DEF GuestSend
    <2> QED BY <1>2, <2>7, <2>8 DEF Inv, RingInv
  <1>11. CASE RecvInput
    <2> DEFINE f == Head(toHost).frameNumberToDeliverOn
    <2>1. /\ Len(toHost) \in Nat /\ Len(toHost) > 0
          /\ Head(toHost) = toHost[1] /\ Head(toHost) \in SendPackets
          /\ Len(toHost') = Len(toHost) - 1
          /\ \A i \in 1 .. Len(toHost) - 1 : toHost'[i] = toHost[i + 1]
      BY <1>11, SeqElements, SeqType DEF RecvInput, TypeInv, TypeOK
    <2>2. PacketSound(Head(toHost))
      BY <2>1 DEF Inv, PacketsSound
    <2>3. /\ f \in Nat /\ Head(toHost).reading = Input(Guest, f) /\ Input(Guest, f) \in Readings
          /\ f <= frameCount[Guest] + BUFFER_SIZE - 2
      BY <2>1, <2>2 DEF SendPackets, PacketSound
    <2>4. Deliver(Host, Guest, f, Input(Guest, f))
      BY <1>11, <2>3 DEF RecvInput
    <2> HIDE DEF f
    <2>5. RingInv'
      BY <1>0, <1>1, <2>3, <2>4, DeliverInv DEF TypeInv
    <2>6. \A i \in 1 .. Len(toHost') : PacketSound(toHost'[i])
      <3> SUFFICES ASSUME NEW i \in 1 .. Len(toHost') PROVE PacketSound(toHost'[i])
        OBVIOUS
      <3>1. i \in 1 .. Len(toHost) - 1 /\ i + 1 \in 1 .. Len(toHost)
        BY <2>1
      <3> QED BY <3>1, <2>1 DEF Inv, PacketsSound
    <2>7. PacketsSound'
      BY <1>1, <1>11, <2>6 DEF RecvInput, guestVars, Inv, PacketsSound, PacketSound, ringContext
    <2> QED BY <1>2, <2>5, <2>7 DEF Inv, RingInv
  <1> QED BY <1>6, <1>7, <1>9, <1>10, <1>11

\* Every step keeps the invariant.
LEMMA InvStep == TypeInv /\ Inv /\ [Next]_vars => Inv'
  <1> SUFFICES ASSUME TypeInv, Inv, [Next]_vars PROVE Inv'
    OBVIOUS
  <1>1. TypeOK
    BY DEF TypeInv
  <1>2. ASSUME NEW n \in Consoles, MyOSCreateThread(n) \/ VIRetraceHandler(n) PROVE Inv'
    BY <1>1, <1>2, CreateInv, RetraceInv
  <1>3. CASE HostSendThread
    BY <1>1, <1>3, PrepareInv, CopyInv, DoneInv DEF HostSendThread
  <1>4. CASE RecvCtrl
    BY <1>1, <1>4, RecvInv
  <1>5. CASE HostController \/ GuestController \/ GuestEnqueue \/ GuestSend \/ RecvInput
    BY <1>5, InputInv
  <1>6. CASE UNCHANGED vars
    BY <1>6 DEF vars, Inv, RingSound, StreamSound, PacketsSound, PacketSound, Sound, Boot,
                CurrentEntry, Sending, StreamOrder, GuestZero, Entry, Slot
  <1> QED BY <1>2, <1>3, <1>4, <1>5, <1>6 DEF Next

-----------------------------------------------------------------------------
(* The theorems. *)

\* The invariant gives lock-step play in every state.
LEMMA InvLockStep == TypeOK /\ Inv => LockStep /\ BoundedSkew
  <1> SUFFICES ASSUME TypeOK, Inv, NEW n \in Consoles, frameCount[n] > BUFFER_SIZE
               PROVE  /\ Playing(n) = [w \in Wiimotes |-> Input(w, frameCount[n])]
                      /\ \A m \in Consoles : frameCount[n] <= frameCount[m] + BUFFER_SIZE - 2
    BY DEF LockStep, BoundedSkew
  <1>1. frameCount[n] \in Nat /\ Slot(frameCount[n]) \in Slots
    BY MaxFrameAssumption, SlotType DEF TypeOK
  <1> DEFINE e == Entry(n, frameCount[n])
  <1>2. e \in Entries
    BY <1>1, EntryType
  <1>3. createdThread[n] /\ frameCount[n] > 0
    BY <1>1, BufferAssumption DEF Inv, Boot, TypeOK
  <1>4. e.frameNumber = frameCount[n] /\ \A w \in Wiimotes : e.haveInput[w]
    BY <1>3 DEF Inv, CurrentEntry
  <1>5. Sound(e.frameNumber, e.haveInput, e.inputs)
    BY <1>1 DEF Inv, RingSound, Entry
  <1>6. \A w \in Wiimotes : /\ e.inputs[w] = Input(w, frameCount[n])
                            /\ frameCount[n] <= frameCount[w] + BUFFER_SIZE - 2
    BY <1>4, <1>5 DEF Sound
  <1>7. e.inputs \in [Wiimotes -> Readings]
    BY <1>2 DEF Entries
  <1>8. Playing(n) = [w \in Wiimotes |-> Input(w, frameCount[n])]
    <2> HIDE DEF Wiimotes, e
    <2>1. e.inputs = [w \in Wiimotes |-> Input(w, frameCount[n])]
      BY <1>6, <1>7
    <2> QED BY <2>1 DEF Playing, e
  <1> QED BY <1>6, <1>8

\* After frame BUFFER_SIZE both consoles play, at every frame, the two readings
\* that the players took for it, for every ring size and all readings.
THEOREM LockStepTheorem == Spec => []LockStep
  BY TypeInit, TypeStep, InvInit, InvStep, InvLockStep, PTL DEF Spec, TypeInv

\* Neither console runs more than BUFFER_SIZE - 2 frames ahead of the other.
THEOREM SkewTheorem == Spec => []BoundedSkew
  BY TypeInit, TypeStep, InvInit, InvStep, InvLockStep, PTL DEF Spec, TypeInv

\* What a game reads does not change while it plays a frame after BUFFER_SIZE.
THEOREM StableTheorem == Spec => CurrentFrameStable
  <1>1. LockStep /\ LockStep' =>
           [\A n \in Consoles :
               frameCount[n] > BUFFER_SIZE /\ frameCount'[n] = frameCount[n]
                   => Playing(n)' = Playing(n)]_vars
    BY DEF LockStep
  <1> QED BY <1>1, LockStepTheorem, PTL DEF CurrentFrameStable

-----------------------------------------------------------------------------
(***************************************************************************)
(* The host never waits for a frame that has passed.  The invariant says   *)
(* that the host's ring holds exactly the frames from the one it plays on, *)
(* that the readings on their way to it are in order, and that it has not  *)
(* played a frame whose readings are still to come.                        *)
(***************************************************************************)

\* The frame of the guest's next reading that the host files.
Due == nextInput[Guest] - Len(sendBuffer) - Len(toHost)

\* The host's ring before and after the entries are numbered.
Window ==
    IF createdThread[Host]
    THEN \A k \in Slots :
            /\ Slot(ctrlBuffer[Host][k].frameNumber) = k
            /\ frameCount[Host] <= ctrlBuffer[Host][k].frameNumber
            /\ ctrlBuffer[Host][k].frameNumber < frameCount[Host] + BUFFER_SIZE
    ELSE frameCount[Host] = 0 /\ \A k \in Slots : ctrlBuffer[Host][k].frameNumber = 0

\* A reading that the host has for a later frame is one that was due.
Filed(e) ==
    e.frameNumber > BUFFER_SIZE =>
        /\ e.haveInput[Host] => e.frameNumber < nextInput[Host]
        /\ e.haveInput[Guest] => e.frameNumber < Due

RingFiled == \A k \in Slots : Filed(ctrlBuffer[Host][k])

InOrder ==
    /\ \A i \in 1 .. Len(toHost) : toHost[i].frameNumberToDeliverOn = Due + i - 1
    /\ \A i \in 1 .. Len(sendBuffer) : sendBuffer[i].frameNumberToDeliverOn = Due + Len(toHost) + i - 1

Ahead ==
    /\ Due >= BUFFER_SIZE /\ nextInput[Host] >= BUFFER_SIZE
    /\ frameCount[Host] > BUFFER_SIZE => frameCount[Host] < Due /\ frameCount[Host] < nextInput[Host]

Future == Window /\ RingFiled /\ InOrder /\ Ahead

\* Two frames that share an entry are BUFFER_SIZE apart.
LEMMA SlotApart ==
  ASSUME NEW f \in Nat, NEW g \in Nat, Slot(f) = Slot(g), f < g
  PROVE  f + BUFFER_SIZE <= g
  <1> DEFINE p == f \div BUFFER_SIZE
             q == g \div BUFFER_SIZE
  <1>1. p \in Int /\ q \in Int /\ f % BUFFER_SIZE \in Int
    BY BufferAssumption
  <1>2. f = BUFFER_SIZE * p + (f % BUFFER_SIZE)
    BY BufferAssumption
  <1>3. g = BUFFER_SIZE * q + (g % BUFFER_SIZE)
    BY BufferAssumption
  <1>4. f % BUFFER_SIZE = g % BUFFER_SIZE
    BY DEF Slot
  <1>5. BUFFER_SIZE * (q - p) = g - f
    <2> HIDE DEF p, q
    <2> QED BY <1>1, <1>2, <1>3, <1>4, BufferAssumption
  <1>6. \A d \in Int : BUFFER_SIZE * d > 0 => BUFFER_SIZE * d >= BUFFER_SIZE
    BY BufferAssumption
  <1>7. BUFFER_SIZE * (q - p) >= BUFFER_SIZE
    BY <1>1, <1>5, <1>6
  <1> QED BY <1>5, <1>7, BufferAssumption

\* The frame BUFFER_SIZE later has the same entry.
LEMMA SlotNext == \A f \in Nat : Slot(f + BUFFER_SIZE) = Slot(f)
  <1> SUFFICES ASSUME NEW f \in Nat PROVE (f + BUFFER_SIZE) % BUFFER_SIZE = f % BUFFER_SIZE
    BY DEF Slot
  <1> DEFINE p == f \div BUFFER_SIZE
             q == (f + BUFFER_SIZE) \div BUFFER_SIZE
             r == f % BUFFER_SIZE
             s == (f + BUFFER_SIZE) % BUFFER_SIZE
  <1>1. p \in Int /\ r \in 0 .. BUFFER_SIZE - 1 /\ q \in Int /\ s \in 0 .. BUFFER_SIZE - 1
    BY BufferAssumption
  <1>2. f = BUFFER_SIZE * p + r
    BY BufferAssumption
  <1>3. f + BUFFER_SIZE = BUFFER_SIZE * q + s
    BY BufferAssumption
  <1> HIDE DEF p, q, r, s
  <1>4. BUFFER_SIZE * (q - p - 1) = r - s
    BY <1>1, <1>2, <1>3, BufferAssumption
  <1>5. \A d \in Int : BUFFER_SIZE * d < BUFFER_SIZE /\ BUFFER_SIZE * d > -BUFFER_SIZE => BUFFER_SIZE * d = 0
    BY BufferAssumption
  <1>6. r - s < BUFFER_SIZE /\ r - s > -BUFFER_SIZE
    BY <1>1, BufferAssumption
  <1>7. r - s = 0
    BY <1>1, <1>4, <1>5, <1>6
  <1> QED BY <1>1, <1>7 DEF r, s

\* The numbers that the invariant relates.
LEMMA FutureTypes ==
  ASSUME TypeOK
  PROVE  /\ frameCount[Host] \in Nat /\ nextInput[Host] \in Nat /\ nextInput[Guest] \in Nat
         /\ Len(sendBuffer) \in Nat /\ Len(toHost) \in Nat /\ Due \in Int
         /\ \A k \in Slots : ctrlBuffer[Host][k] \in Entries /\ ctrlBuffer[Host][k].frameNumber \in Nat
  <1>1. frameCount[Host] \in Nat /\ nextInput[Host] \in Nat /\ nextInput[Guest] \in Nat
    BY BufferAssumption, MaxFrameAssumption DEF TypeOK, Frames
  <1>2. Len(sendBuffer) \in Nat /\ Len(toHost) \in Nat
    BY SeqElements DEF TypeOK
  <1>3. Due \in Int
    BY <1>1, <1>2 DEF Due
  <1>4. \A k \in Slots : ctrlBuffer[Host][k] \in Entries
    BY DEF TypeOK
  <1>5. \A k \in Slots : ctrlBuffer[Host][k].frameNumber \in Nat
    BY <1>4 DEF Entries
  <1> QED BY <1>1, <1>2, <1>3, <1>4, <1>5

\* Nothing that the invariant speaks of changes.
LEMMA FutureCalm ==
  ASSUME Future, ctrlBuffer'[Host] = ctrlBuffer[Host], frameCount'[Host] = frameCount[Host],
         createdThread'[Host] = createdThread[Host], UNCHANGED <<nextInput, sendBuffer, toHost>>
  PROVE  Future'
  BY DEF Future, Window, RingFiled, Filed, InOrder, Ahead, Due

\* A reading, or the news that all are disconnected, is put into the host's ring.
LEMMA HostEntry ==
  ASSUME TypeOK, Future, createdThread[Host], NEW f \in Nat, NEW e \in Entries, SetEntry(Host, f, e),
         e.frameNumber = Entry(Host, f).frameNumber, UNCHANGED <<createdThread, frameCount>>,
         nextInput'[Host] >= nextInput[Host], nextInput'[Host] \in Nat, Due' >= Due, Due' \in Int, Filed(e)'
  PROVE  Window' /\ RingFiled' /\ Ahead'
  <1>0. /\ frameCount[Host] \in Nat /\ nextInput[Host] \in Nat /\ Due \in Int
        /\ \A k \in Slots : ctrlBuffer[Host][k] \in Entries /\ ctrlBuffer[Host][k].frameNumber \in Nat
    BY FutureTypes
  <1>1. \A k \in Slots : ctrlBuffer'[Host][k] = IF k = Slot(f) THEN e ELSE ctrlBuffer[Host][k]
    BY SetEntryIs DEF TypeOK
  <1>2. \A k \in Slots : ctrlBuffer'[Host][k].frameNumber = ctrlBuffer[Host][k].frameNumber
    BY <1>1 DEF Entry
  <1>3. Window'
    BY <1>2 DEF Future, Window
  <1>4. RingFiled'
    <2>1. ASSUME NEW k \in Slots PROVE Filed(ctrlBuffer[Host][k])'
      <3>1. CASE k = Slot(f)
        BY <1>1, <3>1
      <3>2. CASE k # Slot(f)
        <4>1. PICK x : x = ctrlBuffer[Host][k] /\ x = ctrlBuffer'[Host][k] /\ x.frameNumber \in Nat
          BY <1>0, <1>1, <3>2
        <4>2. Filed(x)
          BY <4>1 DEF Future, RingFiled
        <4>3. Filed(x)'
          BY <1>0, <4>1, <4>2 DEF Filed
        <4> QED BY <4>1, <4>3
      <3> QED BY <3>1, <3>2
    <2> QED BY <2>1 DEF RingFiled
  <1>5. Ahead'
    BY <1>0, BufferAssumption DEF Future, Ahead
  <1> QED BY <1>3, <1>4, <1>5

\* The guest's controller thread passes a reading on.
LEMMA EnqueueFuture ==
  ASSUME TypeOK, Future, sendBuffer' = Append(sendBuffer, SendPacket(nextInput[Guest])),
         nextInput' = [nextInput EXCEPT ![Guest] = @ + 1], nextInput[Guest] \in Frames,
         ctrlBuffer'[Host] = ctrlBuffer[Host], UNCHANGED <<createdThread, frameCount, toHost>>
  PROVE  Future'
  <1>0. /\ nextInput[Host] \in Nat /\ nextInput[Guest] \in Nat
        /\ Len(sendBuffer) \in Nat /\ Len(toHost) \in Nat /\ Due \in Int
    BY FutureTypes
  <1>1. nextInput'[Host] = nextInput[Host] /\ nextInput'[Guest] = nextInput[Guest] + 1
    BY DEF TypeOK
  <1>2. PICK p : p = SendPacket(nextInput[Guest]) /\ p \in SendPackets /\ p.frameNumberToDeliverOn = nextInput[Guest]
    BY <1>0, InputType DEF SendPacket, SendPackets
  <1>3. /\ Len(sendBuffer') = Len(sendBuffer) + 1 /\ sendBuffer'[Len(sendBuffer) + 1] = p
        /\ \A i \in 1 .. Len(sendBuffer) : sendBuffer'[i] = sendBuffer[i]
    BY <1>2, SeqElements DEF TypeOK
  <1>4. Due' = Due /\ nextInput[Guest] = Due + Len(toHost) + Len(sendBuffer)
    BY <1>0, <1>1, <1>3 DEF Due
  <1>5. InOrder'
    <2>1. ASSUME NEW i \in 1 .. Len(sendBuffer')
          PROVE  sendBuffer'[i].frameNumberToDeliverOn = Due + Len(toHost) + i - 1
      <3>1. CASE i = Len(sendBuffer) + 1
        BY <1>0, <1>2, <1>3, <1>4, <3>1
      <3>2. CASE i # Len(sendBuffer) + 1
        <4>1. i \in 1 .. Len(sendBuffer)
          BY <1>0, <1>3, <3>2
        <4> QED BY <1>3, <4>1 DEF Future, InOrder
      <3> QED BY <3>1, <3>2
    <2> QED BY <1>4, <2>1 DEF Future, InOrder
  <1>6. Window' /\ Ahead' /\ RingFiled'
    BY <1>1, <1>4 DEF Future, Window, Ahead, RingFiled, Filed
  <1> QED BY <1>5, <1>6 DEF Future

\* The guest's send thread transmits a reading.
LEMMA SendFuture ==
  ASSUME TypeOK, Future, GuestSend
  PROVE  Future'
  <1>0. Len(sendBuffer) \in Nat /\ Len(toHost) \in Nat /\ Due \in Int /\ nextInput[Guest] \in Nat
    BY FutureTypes
  <1>1. /\ sendBuffer # << >> /\ toHost' = Append(toHost, Head(sendBuffer)) /\ sendBuffer' = Tail(sendBuffer)
        /\ UNCHANGED <<createdThread, frameCount, ctrlBuffer, nextInput>>
    BY DEF GuestSend
  <1>2. PICK p : p = Head(sendBuffer) /\ p \in SendPackets
    BY <1>1, SeqType DEF TypeOK
  <1>3. /\ Len(sendBuffer) > 0 /\ p = sendBuffer[1] /\ Len(sendBuffer') = Len(sendBuffer) - 1
        /\ \A i \in 1 .. Len(sendBuffer) - 1 : sendBuffer'[i] = sendBuffer[i + 1]
    BY <1>1, <1>2, SeqElements DEF TypeOK
  <1>4. /\ Len(toHost') = Len(toHost) + 1 /\ toHost'[Len(toHost) + 1] = p
        /\ \A i \in 1 .. Len(toHost) : toHost'[i] = toHost[i]
    BY <1>1, <1>2, SeqElements DEF TypeOK
  <1>5. Due' = Due
    <2>1. Len(sendBuffer') = Len(sendBuffer) - 1 /\ Len(toHost') = Len(toHost) + 1 /\ nextInput'[Guest] = nextInput[Guest]
      BY <1>1, <1>3, <1>4
    <2>2. \A x, y, z \in Int : x - (y - 1) - (z + 1) = x - y - z
      OBVIOUS
    <2>3. Due' = nextInput[Guest] - (Len(sendBuffer) - 1) - (Len(toHost) + 1)
      BY <2>1 DEF Due
    <2> QED BY <1>0, <2>2, <2>3 DEF Due
  <1>6. p.frameNumberToDeliverOn = Due + Len(toHost)
    <2>1. 1 \in 1 .. Len(sendBuffer)
      BY <1>0, <1>3
    <2>2. p.frameNumberToDeliverOn = Due + Len(toHost) + 1 - 1
      BY <1>3, <2>1 DEF Future, InOrder
    <2> QED BY <1>0, <2>2
  <1>7. ASSUME NEW i \in 1 .. Len(toHost') PROVE toHost'[i].frameNumberToDeliverOn = Due + i - 1
    <2>1. CASE i = Len(toHost) + 1
      BY <1>0, <1>4, <1>6, <2>1
    <2>2. CASE i # Len(toHost) + 1
      <3>1. i \in 1 .. Len(toHost)
        BY <1>0, <1>4, <2>2
      <3> QED BY <1>4, <3>1 DEF Future, InOrder
    <2> QED BY <2>1, <2>2
  <1>8. ASSUME NEW i \in 1 .. Len(sendBuffer')
        PROVE  sendBuffer'[i].frameNumberToDeliverOn = Due + Len(toHost') + i - 1
    <2>1. PICK j : j = i + 1 /\ j \in 1 .. Len(sendBuffer) /\ sendBuffer'[i] = sendBuffer[j] /\ i \in Int
      BY <1>0, <1>3
    <2>2. sendBuffer[j].frameNumberToDeliverOn = Due + Len(toHost) + j - 1
      BY <2>1 DEF Future, InOrder
    <2>3. Due + Len(toHost) + j - 1 = Due + Len(toHost') + i - 1
      BY <1>0, <1>4, <2>1
    <2> QED BY <2>1, <2>2, <2>3
  <1>9. InOrder'
    BY <1>5, <1>7, <1>8 DEF InOrder
  <1>10. Window' /\ Ahead' /\ RingFiled'
    BY <1>1, <1>5 DEF Future, Window, Ahead, RingFiled, Filed
  <1> QED BY <1>9, <1>10 DEF Future

\* The host's recv thread files a reading of the guest.
LEMMA RecvInputFuture ==
  ASSUME TypeOK, Future, RecvInput
  PROVE  Future'
  <1>0. /\ Len(sendBuffer) \in Nat /\ Len(toHost) \in Nat /\ Due \in Int
        /\ nextInput[Guest] \in Nat /\ nextInput[Host] \in Nat
    BY FutureTypes
  <1>1. /\ toHost # << >> /\ toHost' = Tail(toHost) /\ createdThread[Host]
        /\ UNCHANGED <<createdThread, frameCount, nextInput, sendBuffer>>
    BY DEF RecvInput, guestVars
  <1>2. PICK p : p = Head(toHost) /\ p \in SendPackets
    BY <1>1, SeqType DEF TypeOK
  <1>3. PICK f, r : f = p.frameNumberToDeliverOn /\ r = p.reading /\ f \in Nat /\ r \in Readings
    BY <1>2 DEF SendPackets
  <1>4. /\ Len(toHost) > 0 /\ p = toHost[1] /\ Len(toHost') = Len(toHost) - 1
        /\ \A i \in 1 .. Len(toHost) - 1 : toHost'[i] = toHost[i + 1]
    BY <1>1, <1>2, SeqElements DEF TypeOK
  <1>5. Due' = Due + 1
    BY <1>0, <1>1, <1>4 DEF Due
  <1>6. f = Due
    <2>1. 1 \in 1 .. Len(toHost)
      BY <1>0, <1>4
    <2>2. f = Due + 1 - 1
      BY <1>3, <1>4, <2>1 DEF Future, InOrder
    <2> QED BY <1>0, <2>2
  <1>7. PICK a, e : a = Entry(Host, f) /\ a \in Entries /\ e = File(a, Guest, r)
    BY <1>3, EntryType
  <1>8. /\ e \in Entries /\ e.frameNumber = a.frameNumber /\ e.haveInput[Host] = a.haveInput[Host]
    BY <1>3, <1>7, FileIs
  <1>9. a.frameNumber = f /\ SetEntry(Host, f, e)
    BY <1>2, <1>3, <1>7 DEF RecvInput, Deliver
  <1>10. Filed(e)'
    <2>1. Filed(a)
      BY <1>3, <1>7, SlotType DEF Future, RingFiled, Entry
    <2> QED BY <1>0, <1>1, <1>3, <1>5, <1>6, <1>8, <1>9, <2>1 DEF Filed
  <1>11. Window' /\ RingFiled' /\ Ahead'
    BY <1>0, <1>1, <1>3, <1>5, <1>7, <1>8, <1>9, <1>10, HostEntry
  <1>12. ASSUME NEW i \in 1 .. Len(toHost') PROVE toHost'[i].frameNumberToDeliverOn = Due' + i - 1
    <2>1. PICK j : j = i + 1 /\ j \in 1 .. Len(toHost) /\ toHost'[i] = toHost[j] /\ i \in Int
      BY <1>0, <1>4
    <2>2. toHost[j].frameNumberToDeliverOn = Due + j - 1
      BY <2>1 DEF Future, InOrder
    <2> QED BY <1>0, <1>5, <2>1, <2>2
  <1>13. ASSUME NEW i \in 1 .. Len(sendBuffer')
         PROVE  sendBuffer'[i].frameNumberToDeliverOn = Due' + Len(toHost') + i - 1
    <2>1. sendBuffer[i].frameNumberToDeliverOn = Due + Len(toHost) + i - 1
      BY <1>1 DEF Future, InOrder
    <2>2. i \in Int /\ Due + Len(toHost) + i - 1 = Due' + Len(toHost') + i - 1
      BY <1>0, <1>1, <1>4, <1>5
    <2> QED BY <1>1, <2>1, <2>2
  <1>14. InOrder'
    BY <1>12, <1>13 DEF InOrder
  <1> QED BY <1>11, <1>14 DEF Future

\* The host's controller thread files a reading.
LEMMA HostControllerFuture ==
  ASSUME TypeOK, Future, HostController
  PROVE  Future'
  <1>0. nextInput[Host] \in Nat /\ Due \in Int
    BY FutureTypes
  <1>1. /\ createdThread[Host] /\ nextInput' = [nextInput EXCEPT ![Host] = @ + 1]
        /\ UNCHANGED <<createdThread, frameCount, sendBuffer, toHost>>
    BY DEF HostController, Polls, guestVars
  <1>2. nextInput'[Host] = nextInput[Host] + 1 /\ nextInput'[Guest] = nextInput[Guest] /\ Due' = Due
    BY <1>1 DEF TypeOK, Due
  <1>3. PICK f, r : f = nextInput[Host] /\ r = Input(Host, f) /\ f \in Nat /\ r \in Readings
    BY <1>0, InputType DEF TypeOK
  <1>4. PICK a, e : a = Entry(Host, f) /\ a \in Entries /\ e = File(a, Host, r)
    BY <1>3, EntryType
  <1>5. e \in Entries /\ e.frameNumber = a.frameNumber /\ e.haveInput[Guest] = a.haveInput[Guest]
    BY <1>3, <1>4, FileIs
  <1>6. a.frameNumber = f /\ SetEntry(Host, f, e)
    BY <1>3, <1>4 DEF HostController, Deliver
  <1>7. Filed(e)'
    <2>1. Filed(a)
      BY <1>3, <1>4, SlotType DEF Future, RingFiled, Entry
    <2> QED BY <1>0, <1>2, <1>3, <1>5, <1>6, <2>1 DEF Filed
  <1>8. Window' /\ RingFiled' /\ Ahead'
    BY <1>0, <1>1, <1>2, <1>3, <1>4, <1>5, <1>6, <1>7, HostEntry
  <1>9. InOrder'
    BY <1>1, <1>2 DEF Future, InOrder
  <1> QED BY <1>8, <1>9 DEF Future

\* The host's send thread prepares a frame, and marks it as sent.
LEMMA HostSendFuture ==
  ASSUME TypeOK, Future, createdThread[Host], NEW f \in Nat, NEW e, f = nextFrameToSend,
         \/ e = MarkSent(Entry(Host, f))
         \/ e = Disconnect(Entry(Host, f)) /\ f <= BUFFER_SIZE /\ Entry(Host, f).frameNumber = f,
         SetEntry(Host, f, e), UNCHANGED <<createdThread, frameCount, nextInput, sendBuffer, toHost>>
  PROVE  Future'
  <1>0. nextInput[Host] \in Nat /\ Due \in Int
    BY FutureTypes
  <1>1. Due' = Due
    BY DEF Due
  <1>2. PICK a : a = Entry(Host, f) /\ a \in Entries
    BY EntryType
  <1>3. e \in Entries /\ e.frameNumber = a.frameNumber
    BY <1>2, UpdateIs
  <1>4. Filed(e)'
    <2>1. Filed(a)
      BY <1>2, SlotType DEF Future, RingFiled, Entry
    <2>2. CASE e = MarkSent(a)
      <3>1. e.haveInput = a.haveInput
        BY <1>2, <2>2, UpdateIs
      <3> QED BY <1>1, <1>3, <2>1, <3>1 DEF Filed
    <2>3. CASE f <= BUFFER_SIZE /\ a.frameNumber = f
      BY <1>3, <2>3, BufferAssumption DEF Filed
    <2> QED BY <1>2, <2>2, <2>3
  <1>5. Window' /\ RingFiled' /\ Ahead'
    BY <1>0, <1>1, <1>2, <1>3, <1>4, HostEntry
  <1>6. InOrder'
    BY <1>1 DEF Future, InOrder
  <1> QED BY <1>5, <1>6 DEF Future

\* The host's game creates its first thread.
LEMMA CreateFuture ==
  ASSUME TypeOK, Future, MyOSCreateThread(Host)
  PROVE  Future'
  <1>0. frameCount[Host] = 0
    BY DEF MyOSCreateThread, Future, Window
  <1>1. /\ createdThread'[Host] /\ UNCHANGED <<frameCount, nextInput, sendBuffer, toHost>>
        /\ ctrlBuffer' = [ctrlBuffer EXCEPT ![Host] = [k \in Slots |-> Number(ctrlBuffer[Host][k], k)]]
    BY DEF MyOSCreateThread, TypeOK, guestVars
  <1>2. \A k \in Slots : ctrlBuffer'[Host][k] = Number(ctrlBuffer[Host][k], k)
    BY <1>1 DEF TypeOK
  <1>3. \A k \in Slots : k \in Nat /\ k < BUFFER_SIZE /\ Slot(k) = k
    BY BufferAssumption, SlotSmall DEF Slots
  <1>4. \A k \in Slots : ctrlBuffer'[Host][k].frameNumber = k
    <2> TAKE k \in Slots
    <2>1. k \in Nat /\ ctrlBuffer[Host][k] \in Entries
      BY <1>3, FutureTypes
    <2> QED BY <1>2, <2>1, NumberIs
  <1>5. Window'
    BY <1>0, <1>1, <1>3, <1>4, BufferAssumption DEF Window
  <1>6. Due' = Due
    BY <1>1 DEF Due
  <1>7. \A k \in Slots : ~(ctrlBuffer'[Host][k].frameNumber > BUFFER_SIZE)
    BY <1>3, <1>4, BufferAssumption
  <1>8. RingFiled'
    BY <1>7 DEF RingFiled, Filed
  <1>9. InOrder' /\ Ahead'
    BY <1>1, <1>6 DEF Future, InOrder, Ahead
  <1> QED BY <1>5, <1>8, <1>9 DEF Future

\* The host's game goes on to the next frame.
LEMMA RetraceFuture ==
  ASSUME TypeOK, Future, VIRetraceHandler(Host)
  PROVE  Future'
  <1>0. /\ frameCount[Host] \in Nat /\ nextInput[Host] \in Nat /\ Due \in Int
        /\ \A k \in Slots : ctrlBuffer[Host][k] \in Entries /\ ctrlBuffer[Host][k].frameNumber \in Nat
    BY FutureTypes
  <1>1. PICK c : c = frameCount[Host]
    OBVIOUS
  <1>2. /\ createdThread[Host] /\ UNCHANGED <<createdThread, nextInput, sendBuffer, toHost>>
        /\ frameCount'[Host] = c + 1 /\ SetEntry(Host, c, Retire(Entry(Host, c))) /\ ~Stall(Host)
    BY <1>1 DEF VIRetraceHandler, TypeOK, guestVars
  <1>3. Slot(c) \in Slots /\ Slot(c + 1) \in Slots /\ c \in Nat
    BY <1>0, <1>1, SlotType
  <1>4. PICK e : e = Retire(Entry(Host, c)) /\ e \in Entries /\ e.frameNumber = Entry(Host, c).frameNumber + BUFFER_SIZE
                 /\ ~e.haveInput[Host] /\ ~e.haveInput[Guest]
    BY <1>3, EntryType, UpdateIs
  <1>5. \A k \in Slots : ctrlBuffer'[Host][k] = IF k = Slot(c) THEN e ELSE ctrlBuffer[Host][k]
    BY <1>2, <1>3, <1>4, SetEntryIs DEF TypeOK
  <1>6. ASSUME NEW k \in Slots
        PROVE  /\ Slot(ctrlBuffer[Host][k].frameNumber) = k
               /\ c <= ctrlBuffer[Host][k].frameNumber /\ ctrlBuffer[Host][k].frameNumber < c + BUFFER_SIZE
    BY <1>1, <1>2 DEF Future, Window
  <1>7. Entry(Host, c).frameNumber = c
    <2>1. PICK g : g = ctrlBuffer[Host][Slot(c)].frameNumber /\ g \in Nat
      BY <1>0, <1>3
    <2>2. Slot(g) = Slot(c) /\ c <= g /\ g < c + BUFFER_SIZE
      BY <1>3, <1>6, <2>1
    <2>3. ~(c < g)
      BY <1>3, <2>1, <2>2, SlotApart, BufferAssumption
    <2>4. c = g
      BY <1>3, <2>1, <2>2, <2>3
    <2> QED BY <2>1, <2>4 DEF Entry
  <1>8. Slot(c + BUFFER_SIZE) = Slot(c)
    BY <1>3, SlotNext
  <1>9. Window'
    <2>1. ASSUME NEW k \in Slots
          PROVE  /\ Slot(ctrlBuffer'[Host][k].frameNumber) = k
                 /\ c + 1 <= ctrlBuffer'[Host][k].frameNumber
                 /\ ctrlBuffer'[Host][k].frameNumber < c + 1 + BUFFER_SIZE
      <3>1. CASE k = Slot(c)
        <4>1. ctrlBuffer'[Host][k].frameNumber = c + BUFFER_SIZE
          BY <1>4, <1>5, <1>7, <3>1
        <4> QED BY <1>3, <1>8, <3>1, <4>1, BufferAssumption
      <3>2. CASE k # Slot(c)
        <4>1. PICK g : g = ctrlBuffer[Host][k].frameNumber /\ g = ctrlBuffer'[Host][k].frameNumber /\ g \in Nat
          BY <1>0, <1>5, <3>2
        <4>2. Slot(g) = k /\ c <= g /\ g < c + BUFFER_SIZE
          BY <1>6, <4>1
        <4>3. g # c
          BY <3>2, <4>2
        <4>4. c + 1 <= g /\ g < c + 1 + BUFFER_SIZE
          BY <1>3, <4>1, <4>2, <4>3, BufferAssumption
        <4> QED BY <4>1, <4>2, <4>4
      <3> QED BY <3>1, <3>2
    <2> QED BY <1>2, <2>1 DEF Window
  <1>10. Due' = Due
    BY <1>2 DEF Due
  <1>11. RingFiled'
    <2>1. ASSUME NEW k \in Slots PROVE Filed(ctrlBuffer[Host][k])'
      <3>1. CASE k = Slot(c)
        <4>1. Filed(e)'
          BY <1>4 DEF Filed
        <4> QED BY <1>5, <3>1, <4>1
      <3>2. CASE k # Slot(c)
        <4>1. PICK x : x = ctrlBuffer[Host][k] /\ x = ctrlBuffer'[Host][k]
          BY <1>5, <3>2
        <4>2. Filed(x)
          BY <4>1 DEF Future, RingFiled
        <4>3. Filed(x)'
          BY <1>2, <1>10, <4>2 DEF Filed
        <4> QED BY <4>1, <4>3
      <3> QED BY <3>1, <3>2
    <2> QED BY <2>1 DEF RingFiled
  <1>12. Ahead'
    <2>1. PICK x : x = Entry(Host, c + 1) /\ x.frameNumber = c + 1 /\ x.haveInput[Host] /\ x.haveInput[Guest]
      BY <1>1, <1>2 DEF Stall
    <2>2. Filed(x)
      BY <1>3, <2>1 DEF Future, RingFiled, Entry
    <2>3. c + 1 > BUFFER_SIZE => c + 1 < Due /\ c + 1 < nextInput[Host]
      BY <2>1, <2>2 DEF Filed
    <2> QED BY <1>2, <1>10, <2>3 DEF Future, Ahead
  <1>13. InOrder'
    BY <1>2, <1>10 DEF Future, InOrder
  <1> QED BY <1>9, <1>11, <1>12, <1>13 DEF Future

\* The threads have not been created, and no reading has been taken.
LEMMA FutureInit == Init => Future
  <1> SUFFICES ASSUME Init PROVE Future
    OBVIOUS
  <1>1. Len(sendBuffer) = 0 /\ Len(toHost) = 0 /\ nextInput[Host] = BUFFER_SIZE /\ nextInput[Guest] = BUFFER_SIZE
    BY DEF Init
  <1>2. Due = BUFFER_SIZE
    BY <1>1, BufferAssumption DEF Due
  <1>3. ~createdThread[Host] /\ frameCount[Host] = 0 /\ \A k \in Slots : ctrlBuffer[Host][k].frameNumber = 0
    BY DEF Init
  <1>4. RingFiled
    BY <1>3, BufferAssumption DEF RingFiled, Filed
  <1> QED BY <1>1, <1>2, <1>3, <1>4, BufferAssumption DEF Future, Window, InOrder, Ahead

\* Before the threads exist the send thread is nowhere.
SendBegins == ~createdThread[Host] => sendPc = "wait"

\* The send thread does not run before it is created.
LEMMA SendBeginsStep == TypeOK /\ SendBegins /\ [Next]_vars => SendBegins'
  BY DEF SendBegins, Next, vars, MyOSCreateThread, VIRetraceHandler, HostSendThread, SendPrepare, SendFlags,
         SendInputs, SendDone, RecvCtrl, HostController, GuestController, GuestEnqueue, GuestSend, RecvInput,
         hostVars, TypeOK

\* Every step of either console keeps the invariant.
LEMMA FutureStep == TypeOK /\ Future /\ SendBegins /\ [Next]_vars => Future'
  <1> SUFFICES ASSUME TypeOK, Future, SendBegins, [Next]_vars PROVE Future'
    OBVIOUS
  <1>2. ASSUME NEW n \in Consoles, MyOSCreateThread(n) PROVE Future'
    <2>1. CASE n = Host
      BY <1>2, <2>1, CreateFuture
    <2>2. CASE n = Guest
      <3>1. /\ ctrlBuffer'[Host] = ctrlBuffer[Host] /\ frameCount'[Host] = frameCount[Host]
            /\ createdThread'[Host] = createdThread[Host] /\ UNCHANGED <<nextInput, sendBuffer, toHost>>
        BY <1>2, <2>2 DEF MyOSCreateThread, guestVars, TypeOK
      <3> QED BY <3>1, FutureCalm
    <2> QED BY <2>1, <2>2
  <1>3. ASSUME NEW n \in Consoles, VIRetraceHandler(n) PROVE Future'
    <2>1. CASE n = Host
      BY <1>3, <2>1, RetraceFuture
    <2>2. CASE n = Guest
      <3>1. /\ ctrlBuffer'[Host] = ctrlBuffer[Host] /\ frameCount'[Host] = frameCount[Host]
            /\ createdThread'[Host] = createdThread[Host] /\ UNCHANGED <<nextInput, sendBuffer, toHost>>
        BY <1>3, <2>2 DEF VIRetraceHandler, SetEntry, guestVars, TypeOK
      <3> QED BY <3>1, FutureCalm
    <2> QED BY <2>1, <2>2
  <1>4. CASE SendPrepare \/ SendDone
    <2>1. PICK f : f = nextFrameToSend /\ f \in Nat
      BY DEF TypeOK
    <2>2. createdThread[Host] /\ UNCHANGED <<createdThread, frameCount, nextInput, sendBuffer, toHost>>
      BY <1>4 DEF SendPrepare, SendDone, SendBegins, guestVars
    <2>3. CASE SendDone
      <3>1. PICK e : e = MarkSent(Entry(Host, f)) /\ SetEntry(Host, f, e)
        BY <2>1, <2>3 DEF SendDone
      <3> QED BY <2>1, <2>2, <3>1, HostSendFuture
    <2>4. CASE SendPrepare /\ f <= BUFFER_SIZE
      <3>1. Entry(Host, f).frameNumber = f /\ ~(f > BUFFER_SIZE)
        BY <2>1, <2>4, BufferAssumption DEF SendPrepare
      <3>2. PICK e : e = Disconnect(Entry(Host, f)) /\ SetEntry(Host, f, e)
        BY <2>1, <2>4, <3>1 DEF SendPrepare
      <3> QED BY <2>1, <2>2, <2>4, <3>1, <3>2, HostSendFuture
    <2>5. CASE SendPrepare /\ f > BUFFER_SIZE
      <3>1. UNCHANGED ctrlBuffer
        BY <2>1, <2>5 DEF SendPrepare
      <3> QED BY <2>2, <3>1, FutureCalm
    <2>6. f <= BUFFER_SIZE \/ f > BUFFER_SIZE
      BY <2>1, BufferAssumption
    <2> QED BY <1>4, <2>3, <2>4, <2>5, <2>6
  <1>5. CASE SendFlags \/ SendInputs
    <2>1. UNCHANGED <<createdThread, frameCount, ctrlBuffer, nextInput, sendBuffer, toHost>>
      BY <1>5 DEF SendFlags, SendInputs, guestVars
    <2> QED BY <2>1, FutureCalm
  <1>6. CASE RecvCtrl
    <2>1. ctrlBuffer'[Host] = ctrlBuffer[Host] /\ UNCHANGED <<createdThread, frameCount, nextInput, sendBuffer, toHost>>
      BY <1>6 DEF RecvCtrl, SetEntry, TypeOK
    <2> QED BY <2>1, FutureCalm
  <1>7. CASE HostController
    BY <1>7, HostControllerFuture
  <1>8. CASE GuestController \/ GuestEnqueue
    <2>1. /\ ctrlBuffer'[Host] = ctrlBuffer[Host] /\ UNCHANGED <<createdThread, frameCount, toHost>>
          /\ \/ /\ sendBuffer' = Append(sendBuffer, SendPacket(nextInput[Guest]))
                /\ nextInput' = [nextInput EXCEPT ![Guest] = @ + 1]
             \/ UNCHANGED <<nextInput, sendBuffer>>
      BY <1>8 DEF GuestController, GuestEnqueue, Deliver, SetEntry, TypeOK
    <2>2. nextInput[Guest] \in Frames
      BY DEF TypeOK
    <2> QED BY <2>1, <2>2, EnqueueFuture, FutureCalm
  <1>9. CASE GuestSend
    BY <1>9, SendFuture
  <1>10. CASE RecvInput
    BY <1>10, RecvInputFuture
  <1>11. CASE UNCHANGED vars
    BY <1>11, FutureCalm DEF vars
  <1> QED BY <1>2, <1>3, <1>4, <1>5, <1>6, <1>7, <1>8, <1>9, <1>10, <1>11 DEF Next, HostSendThread

\* The entry of a frame that is not over belongs to that frame or to an earlier one.
LEMMA EntryNotLater ==
  ASSUME TypeOK, Future, createdThread[Host], NEW f \in Nat, frameCount[Host] <= f
  PROVE  Entry(Host, f).frameNumber <= f
  <1>1. PICK g, c : g = Entry(Host, f).frameNumber /\ c = frameCount[Host] /\ g \in Nat /\ c \in Nat
    BY SlotType, FutureTypes DEF Entry
  <1>2. Slot(g) = Slot(f) /\ g < c + BUFFER_SIZE
    BY <1>1, SlotType DEF Future, Window, Entry
  <1>3. ~(f < g)
    <2> SUFFICES ASSUME f < g PROVE FALSE
      OBVIOUS
    <2>1. f + BUFFER_SIZE <= g
      BY <1>1, <1>2, SlotApart
    <2> QED BY <1>1, <1>2, <2>1, BufferAssumption
  <1> QED BY <1>1, <1>3

\* No thread of the host waits for a frame whose entry has moved on to a later
\* frame (ProcessPacket), for every ring size: it would sleep for ever.
THEOREM WaitsTheorem == Spec => []HostWaitsForFuture
  <1>1. ASSUME TypeOK, Future, createdThread[Host]
        PROVE  /\ Entry(Host, nextInput[Host]).frameNumber <= nextInput[Host]
               /\ toHost # << >> =>
                     Entry(Host, Head(toHost).frameNumberToDeliverOn).frameNumber <= Head(toHost).frameNumberToDeliverOn
    <2>1. frameCount[Host] \in Nat /\ nextInput[Host] \in Nat /\ Due \in Int /\ Len(toHost) \in Nat
      BY <1>1, FutureTypes
    <2>2. frameCount[Host] <= nextInput[Host] /\ frameCount[Host] <= Due
      BY <1>1, <2>1, BufferAssumption DEF Future, Ahead
    <2>3. Entry(Host, nextInput[Host]).frameNumber <= nextInput[Host]
      BY <1>1, <2>1, <2>2, EntryNotLater
    <2>4. ASSUME toHost # << >>
          PROVE  Entry(Host, Head(toHost).frameNumberToDeliverOn).frameNumber <= Head(toHost).frameNumberToDeliverOn
      <3>1. PICK f : f = Head(toHost).frameNumberToDeliverOn /\ f \in Nat
        <4>1. Head(toHost) \in SendPackets
          BY <1>1, <2>4, SeqType DEF TypeOK
        <4> QED BY <4>1 DEF SendPackets
      <3>2. Len(toHost) > 0 /\ Head(toHost) = toHost[1]
        BY <1>1, <2>4, SeqElements DEF TypeOK
      <3>3. 1 \in 1 .. Len(toHost)
        BY <2>1, <3>2
      <3>4. f = Due + 1 - 1
        BY <1>1, <3>1, <3>2, <3>3 DEF Future, InOrder
      <3>5. frameCount[Host] <= f
        BY <2>1, <2>2, <3>4
      <3> QED BY <1>1, <3>1, <3>5, EntryNotLater
    <2> QED BY <2>3, <2>4
  <1>2. TypeOK /\ Future => HostWaitsForFuture
    BY <1>1 DEF HostWaitsForFuture
  <1>3. Init => SendBegins
    BY DEF Init, SendBegins
  <1> QED BY <1>2, <1>3, TypeInit, TypeStep, FutureInit, FutureStep, SendBeginsStep, PTL DEF Spec, TypeInv

=============================================================================
