--------------------------- MODULE Channel_proofs ---------------------------
(***************************************************************************)
(* Proofs about the two things that the channel does.                      *)
(*                                                                         *)
(* The connection of the consoles, for every size of an int and of a       *)
(* packet, every number of packets and of failing calls, and however the   *)
(* bytes are cut up: a game is only started with its own end of the        *)
(* connection, and packets arrive whole and in order.                      *)
(*                                                                         *)
(* The reader of config.ini, for every set of characters, length of lines  *)
(* and size of the buffer and of an int: a setting only gets the value     *)
(* that a line gives it, and a line with an address sets it.               *)
(***************************************************************************)
EXTENDS Channel, SequenceTheorems, WellFoundedInduction, TLAPS

Byte == Nat \X Nat

\* Console c has sent all of its int; console c has received all of the other's.
Greeted(c) == pc[c] \in IF c = "host" THEN {"recv", "start", "game"} ELSE {"start", "game"}
Answered(c) == pc[c] \in IF c = "host" THEN {"start", "game"} ELSE {"send", "start", "game"}

\* Everything is kept for each of the two consoles.
Domains ==
    /\ DOMAIN pc = Consoles /\ DOMAIN net_ip_top_fd = Consoles /\ DOMAIN open = Consoles
    /\ DOMAIN sock = Consoles /\ DOMAIN whatigot = Consoles /\ DOMAIN given = Consoles

\* Where each console can be.
Labels ==
    /\ pc["host"] \in {"init", "socket", "bind", "listen", "accept", "send", "recv", "start",
                       "game", "error"}
    /\ pc["guest"] \in {"init", "socket", "connect", "recv", "send", "start", "game", "error"}

\* The types of what is on its way, and of what is sent and received of packets.
Streams == stream \in [Consoles -> Seq(Byte)]
Packets ==
    /\ receiving \in [Consoles -> Seq(Byte)]
    /\ received \in [Consoles -> Seq(Seq(Byte))]
    /\ sending \in [Consoles -> [packet : Nat \ {0}, i : 0 .. PacketSize - 1]]
    /\ \A c \in Consoles : Len(receiving[c]) < PacketSize

\* Which sockets and devices a console can have where it is.
Sockets ==
    /\ \A c \in Consoles : pc[c] \notin {"init", "error"} => net_ip_top_fd[c] = 0 /\ open[c] = {"top"}
    /\ \A c \in Consoles : net_ip_top_fd[c] < 0 => open[c] = {}
    /\ pc["host"] \in {"init", "socket", "bind", "listen"} => connection = "none"
    /\ sock["host"] # "connected" /\ sock["guest"] # "accepted"
    /\ Greeted("host") => sock["host"] = "accepted"
    /\ pc["guest"] \in {"recv", "send", "start", "game"} => sock["guest"] = "connected"
    /\ \A c \in Consoles : pc[c] = "game" =>
          given[c] = [communicationSock |-> sock[c], net_ip_top_fd |-> 0, host |-> c]

\* Who has asked and who has answered, and what of it is on its way.
Handshake ==
    /\ Answered("guest") => pc["host"] \in {"recv", "start", "game", "error"} /\ whatigot["guest"] = 1
    /\ Answered("host") => pc["guest"] \in {"start", "game"}
    /\ \A c \in Consoles :
        /\ connection = "broken" => Len(stream[c]) = 0
        /\ ~Greeted(c) /\ pc[c] # "error" => Len(stream[c]) = 0
        /\ pc[c] # "game" => Len(stream[c]) <= IntSize
        /\ pc[c] # "game" /\ Answered(Other(c)) => Len(stream[c]) = 0
        /\ ~Answered(Other(c)) /\ pc[Other(c)] # "error" =>
            /\ \A j \in 1 .. Len(stream[c]) : j <= IntSize => stream[c][j] = <<0, j>>
            /\ Greeted(c) /\ connection # "broken" => Len(stream[c]) >= IntSize
    /\ ~Answered("host") /\ pc["host"] # "error" /\ pc["guest"] = "error" => Len(stream["guest"]) < IntSize

\* Before its game a console sends and receives nothing of a packet, and the other receives nothing.
Resting ==
    \A c \in Consoles : pc[c] # "game" =>
        /\ sending[c] = [packet |-> 1, i |-> 0]
        /\ \A d \in Consoles : Len(receiving[d]) = 0 /\ Len(received[d]) = 0

\* The bytes of the int in front of the packets on the way to console r.
Off(r) == IF Answered(r) THEN 0 ELSE IntSize

\* The bytes of packets that console r has received.
Taken(r) == Len(received[r]) * PacketSize + Len(receiving[r])

(***************************************************************************)
(* The bytes that console c has sent are those the other has received and  *)
(* those on their way, and each byte on its way is the one that comes at   *)
(* its place in the sequence of packets.                                   *)
(***************************************************************************)
Carried(c) ==
    /\ (sending[c].packet - 1) * PacketSize + sending[c].i + Off(Other(c)) = Taken(Other(c)) + Len(stream[c])
    /\ \A j \in 1 .. Len(stream[c]) : j > Off(Other(c)) =>
          /\ stream[c][j][1] > 0 /\ stream[c][j][2] \in 1 .. PacketSize
          /\ (stream[c][j][1] - 1) * PacketSize + stream[c][j][2] = Taken(Other(c)) + j - Off(Other(c))

Conveyed ==
    ~torn /\ connection # "broken" =>
        \A c \in Consoles : pc[c] = "game" /\ pc[Other(c)] # "error" => Carried(c)

\* The packets that are received, and the part of the one that is being received.
Assembled ==
    ~torn => \A c \in Consoles :
        /\ \A k \in 1 .. Len(received[c]) : received[c][k] = PacketBytes(k)
        /\ \A k \in 1 .. Len(receiving[c]) : receiving[c][k] = <<Len(received[c]) + 1, k>>

ConnectInv ==
    /\ Domains /\ Labels /\ Streams /\ Packets
    /\ Sockets /\ Handshake /\ Resting /\ Conveyed /\ Assembled

-----------------------------------------------------------------------------
(* The two things that happen to the stream of a console. *)

\* Console c sends the bytes t.
LEMMA Push ==
    ASSUME Streams, NEW c \in Consoles, NEW t \in Seq(Byte),
           stream' = [stream EXCEPT ![c] = @ \o t]
    PROVE  /\ Streams' /\ \A d \in Consoles \ {c} : stream'[d] = stream[d]
           /\ Len(stream'[c]) = Len(stream[c]) + Len(t)
           /\ \A j \in 1 .. Len(stream[c]) : stream'[c][j] = stream[c][j]
           /\ \A j \in Len(stream[c]) + 1 .. Len(stream[c]) + Len(t) : stream'[c][j] = t[j - Len(stream[c])]
           /\ Len(stream[c]) \in Nat
  <1>1. stream[c] \in Seq(Byte)
    BY DEF Streams
  <1>2. stream'[c] = stream[c] \o t /\ \A d \in Consoles \ {c} : stream'[d] = stream[d]
    BY DEF Streams
  <1>3. stream[c] \o t \in Seq(Byte)
    BY <1>1, ConcatProperties
  <1>4. Streams'
    BY <1>3 DEF Streams
  <1>5. Len(stream[c]) \in Nat /\ Len(t) \in Nat
    BY <1>1, LenProperties
  <1>6. /\ Len(stream[c] \o t) = Len(stream[c]) + Len(t)
        /\ \A i \in 1 .. Len(stream[c]) + Len(t) : (stream[c] \o t)[i] =
               IF i <= Len(stream[c]) THEN stream[c][i] ELSE t[i - Len(stream[c])]
    BY <1>1, ConcatProperties
  <1> HIDE DEF Streams
  <1> QED BY <1>2, <1>4, <1>5, <1>6

\* The first n bytes that console c sent are received.
LEMMA Pull ==
    ASSUME Streams, NEW c \in Consoles, NEW n \in Nat, n <= Len(stream[c]),
           stream' = [stream EXCEPT ![c] = SubSeq(@, n + 1, Len(@))]
    PROVE  /\ Streams' /\ \A d \in Consoles \ {c} : stream'[d] = stream[d]
           /\ Len(stream[c]) \in Nat /\ Len(stream'[c]) = Len(stream[c]) - n
           /\ \A j \in 1 .. Len(stream[c]) - n : stream'[c][j] = stream[c][n + j]
  <1>1. stream[c] \in Seq(Byte) /\ Len(stream[c]) \in Nat
    BY LenProperties DEF Streams
  <1>2. stream'[c] = SubSeq(stream[c], n + 1, Len(stream[c])) /\ \A d \in Consoles \ {c} : stream'[d] = stream[d]
    BY DEF Streams
  <1>3. \A i \in n + 1 .. Len(stream[c]) : stream[c][i] \in Byte
    <2> TAKE i \in n + 1 .. Len(stream[c])
    <2>1. i \in 1 .. Len(stream[c])
      BY <1>1
    <2> QED BY <1>1, <2>1, ElementOfSeq
  <1> DEFINE m == n + 1  l == Len(stream[c])
  <1>4. m \in Int /\ l \in Int
    BY <1>1
  <1>5. /\ SubSeq(stream[c], m, l) \in Seq(Byte)
        /\ Len(SubSeq(stream[c], m, l)) = IF m <= l THEN l - m + 1 ELSE 0
        /\ \A i \in 1 .. l - m + 1 : SubSeq(stream[c], m, l)[i] = stream[c][m + i - 1]
    BY <1>3, <1>4, SubSeqProperties
  <1>6. Streams'
    BY <1>5 DEF Streams
  <1>7. Len(stream'[c]) = Len(stream[c]) - n
    BY <1>1, <1>2, <1>5
  <1>8. \A j \in 1 .. Len(stream[c]) - n : stream'[c][j] = stream[c][n + j]
    BY <1>1, <1>2, <1>5
  <1> QED BY <1>1, <1>2, <1>6, <1>7, <1>8

\* A part of a sequence from its start.
LEMMA StartOfSeq ==
    ASSUME NEW s \in Seq(Byte), NEW n \in Nat, n <= Len(s)
    PROVE  /\ SubSeq(s, 1, n) \in Seq(Byte) /\ Len(SubSeq(s, 1, n)) = n
           /\ \A j \in 1 .. n : SubSeq(s, 1, n)[j] = s[j]
  <1>1. Len(s) \in Nat
    BY LenProperties
  <1>2. \A i \in 1 .. n : s[i] \in Byte
    BY <1>1, ElementOfSeq
  <1>3. /\ SubSeq(s, 1, n) \in Seq(Byte)
        /\ Len(SubSeq(s, 1, n)) = IF 1 <= n THEN n - 1 + 1 ELSE 0
        /\ \A i \in 1 .. n - 1 + 1 : SubSeq(s, 1, n)[i] = s[1 + i - 1]
    BY <1>2, SubSeqProperties
  <1> QED BY <1>1, <1>3

\* The int of the greeting is a sequence of bytes.
LEMMA IntBytesSeq ==
    /\ IntBytes \in Seq(Byte) /\ Len(IntBytes) = IntSize
    /\ \A j \in 1 .. IntSize : IntBytes[j] = <<0, j>>
  <1>1. IntBytes \in [1 .. IntSize -> Byte]
    BY ConnectAssumption DEF IntBytes, Byte
  <1> QED BY <1>1, ConnectAssumption DEF IntBytes

\* So is a packet.
LEMMA PacketBytesSeq ==
    ASSUME NEW p \in Nat
    PROVE  /\ PacketBytes(p) \in Seq(Byte) /\ Len(PacketBytes(p)) = PacketSize
           /\ \A j \in 1 .. PacketSize : PacketBytes(p)[j] = <<p, j>>
  <1>1. PacketBytes(p) \in [1 .. PacketSize -> Byte]
    BY ConnectAssumption DEF PacketBytes, Byte
  <1> QED BY <1>1, ConnectAssumption DEF PacketBytes

\* A byte's place determines its packet and its index in the packet.
LEMMA PlaceUnique ==
    ASSUME NEW P \in Nat \ {0}, NEW a \in Int, NEW b \in Int, NEW x \in 1 .. P, NEW y \in 1 .. P,
           a * P + x = b * P + y
    PROVE  a = b /\ x = y
  <1>1. ASSUME NEW u \in Int, NEW v \in Int, u < v PROVE u * P + P <= v * P
    <2>1. (v - u - 1) * P >= 0
      <3> DEFINE d == v - u - 1
      <3>1. d \in Nat
        BY <1>1
      <3> HIDE DEF d
      <3>2. d * P >= 0
        BY <3>1
      <3> QED BY <3>2 DEF d
    <2>2. (v - u - 1) * P = v * P - u * P - P
      OBVIOUS
    <2> QED BY <2>1, <2>2
  <1>2. ~(a < b)
    BY <1>1
  <1>3. ~(b < a)
    BY <1>1
  <1> QED BY <1>2, <1>3

-----------------------------------------------------------------------------
(* Until the consoles greet each other. *)

\* Console c is on its way to the greeting.
Early(c) == ~Greeted(c) /\ ~Answered(c) /\ pc[c] # "error"

(***************************************************************************)
(* A step that leaves the streams and the packets alone, in which a        *)
(* console may go on towards the greeting or give up.                      *)
(***************************************************************************)
LEMMA Calm ==
    ASSUME ConnectInv, UNCHANGED <<stream, whatigot, gameVars>>,
           (connection = "broken")' <=> connection = "broken",
           \A c \in Consoles :
              \/ pc'[c] = pc[c]
              \/ Early(c) /\ ~Greeted(c)' /\ ~Answered(c)' /\ pc'[c] # "game"
    PROVE  Streams' /\ Packets' /\ Handshake' /\ Resting' /\ Conveyed' /\ Assembled'
  <1> USE DEF ConnectInv
  <1>1. UNCHANGED <<sending, receiving, received, torn>>
    BY DEF gameVars
  <1>2. Streams' /\ Packets' /\ Assembled'
    BY <1>1 DEF Streams, Packets, Assembled
  <1>3. \A c \in Consoles :
          /\ Greeted(c)' <=> Greeted(c)
          /\ Answered(c)' <=> Answered(c)
          /\ pc'[c] = "game" <=> pc[c] = "game"
          /\ pc[c] = "error" => pc'[c] = "error"
          /\ pc'[c] = "error" => pc[c] = "error" \/ Early(c)
    BY DEF Early, Greeted, Answered, Consoles
  <1>4. Handshake'
    <2>1. \A c \in Consoles : Early(c) => Len(stream[c]) = 0
      BY DEF Early, Handshake
    <2>2. /\ Answered("guest")' => pc'["host"] \in {"recv", "start", "game", "error"} /\ whatigot'["guest"] = 1
          /\ Answered("host")' => pc'["guest"] \in {"start", "game"}
      BY <1>3 DEF Handshake, Early, Greeted, Answered, Consoles
    <2>3. ASSUME NEW c \in Consoles
          PROVE  /\ connection' = "broken" => Len(stream[c]) = 0
                 /\ ~Greeted(c)' /\ pc'[c] # "error" => Len(stream[c]) = 0
                 /\ pc'[c] # "game" => Len(stream[c]) <= IntSize
                 /\ pc'[c] # "game" /\ Answered(Other(c))' => Len(stream[c]) = 0
                 /\ ~Answered(Other(c))' /\ pc'[Other(c)] # "error" =>
                     /\ \A j \in 1 .. Len(stream[c]) : j <= IntSize => stream[c][j] = <<0, j>>
                     /\ Greeted(c)' /\ connection' # "broken" => Len(stream[c]) >= IntSize
      <3>1. Other(c) \in Consoles
        BY DEF Other, Consoles
      <3> QED BY <1>3, <3>1 DEF Handshake
    <2>4. ~Answered("host")' /\ pc'["host"] # "error" /\ pc'["guest"] = "error" => Len(stream["guest"]) < IntSize
      BY <1>3, <2>1, ConnectAssumption DEF Handshake, Consoles
    <2> QED BY <2>2, <2>3, <2>4 DEF Handshake
  <1>5. Resting'
    BY <1>1, <1>3 DEF Resting
  <1>6. Conveyed'
    <2>1. \A c \in Consoles : Other(c) \in Consoles
      BY DEF Other, Consoles
    <2>2. \A c \in Consoles : Carried(c)' <=> Carried(c)
      BY <1>1, <1>3, <2>1 DEF Carried, Taken, Off
    <2> QED BY <1>1, <1>3, <2>1, <2>2 DEF Conveyed
  <1> QED BY <1>2, <1>4, <1>5, <1>6

\* The network is started, or is not.
LEMMA InitKeeps ==
    ASSUME ConnectInv, NEW c \in Consoles, Mynet_init(c)
    PROVE  ConnectInv'
  <1> USE DEF ConnectInv
  <1>1. Domains'
    BY DEF Mynet_init, Goto, netVars, Domains, AfterFailure
  <1>2. Labels'
    BY DEF Mynet_init, Goto, netVars, Domains, Labels, Consoles
  <1>3. Sockets'
    <2>1. pc[c] = "init" /\ UNCHANGED <<sock, given, connection>>
      BY DEF Mynet_init, netVars
    <2>2. CASE /\ net_ip_top_fd' = [net_ip_top_fd EXCEPT ![c] = 0]
               /\ open' = [open EXCEPT ![c] = {"top"}] /\ pc' = [pc EXCEPT ![c] = "socket"]
      BY <2>1, <2>2 DEF Domains, Labels, Sockets, Greeted, Consoles
    <2>3. CASE /\ \E fd : net_ip_top_fd' = [net_ip_top_fd EXCEPT ![c] = fd]
               /\ open' = [open EXCEPT ![c] = {}] /\ pc' = [pc EXCEPT ![c] = "error"]
      BY <2>1, <2>3 DEF Domains, Labels, Sockets, Greeted, Consoles
    <2> QED BY <2>2, <2>3 DEF Mynet_init, AfterFailure
  <1>4. UNCHANGED <<stream, whatigot, gameVars>> /\ ((connection = "broken")' <=> connection = "broken")
    BY DEF Mynet_init, Goto, netVars, Sockets
  <1>5. \A d \in Consoles :
          \/ pc'[d] = pc[d]
          \/ Early(d) /\ ~Greeted(d)' /\ ~Answered(d)' /\ pc'[d] # "game"
    BY DEF Mynet_init, Goto, netVars, Domains, Early, Greeted, Answered, Consoles
  <1> QED BY <1>1, <1>2, <1>3, <1>4, <1>5, Calm

\* A socket is asked for.
LEMMA SocketKeeps ==
    ASSUME ConnectInv, NEW c \in Consoles, Mynet_socket(c)
    PROVE  ConnectInv'
  <1> USE DEF ConnectInv
  <1>1. Domains'
    BY DEF Mynet_socket, Goto, netVars, Domains
  <1>2. Labels'
    BY DEF Mynet_socket, Goto, netVars, Domains, Labels, Consoles
  <1>3. Sockets'
    BY DEF Mynet_socket, Goto, netVars, Domains, Labels, Sockets, Greeted, Consoles
  <1>4. UNCHANGED <<stream, whatigot, gameVars>> /\ ((connection = "broken")' <=> connection = "broken")
    BY DEF Mynet_socket, Goto, netVars, Sockets
  <1>5. \A d \in Consoles :
          \/ pc'[d] = pc[d]
          \/ Early(d) /\ ~Greeted(d)' /\ ~Answered(d)' /\ pc'[d] # "game"
    BY DEF Mynet_socket, Goto, netVars, Domains, Early, Greeted, Answered, Consoles
  <1> QED BY <1>1, <1>2, <1>3, <1>4, <1>5, Calm

\* The host binds its socket.
LEMMA BindKeeps ==
    ASSUME ConnectInv, Mynet_bind
    PROVE  ConnectInv'
  <1> USE DEF ConnectInv
  <1>1. Domains'
    BY DEF Mynet_bind, Goto, netVars, Domains
  <1>2. Labels'
    BY DEF Mynet_bind, Goto, netVars, Domains, Labels, Consoles
  <1>3. Sockets'
    BY DEF Mynet_bind, Goto, netVars, Domains, Labels, Sockets, Greeted, Consoles
  <1>4. UNCHANGED <<stream, whatigot, gameVars>> /\ ((connection = "broken")' <=> connection = "broken")
    BY DEF Mynet_bind, Goto, netVars, Sockets
  <1>5. \A d \in Consoles :
          \/ pc'[d] = pc[d]
          \/ Early(d) /\ ~Greeted(d)' /\ ~Answered(d)' /\ pc'[d] # "game"
    BY DEF Mynet_bind, Goto, netVars, Domains, Early, Greeted, Answered, Consoles
  <1> QED BY <1>1, <1>2, <1>3, <1>4, <1>5, Calm

\* The host listens.
LEMMA ListenKeeps ==
    ASSUME ConnectInv, Mynet_listen
    PROVE  ConnectInv'
  <1> USE DEF ConnectInv
  <1>1. Domains'
    BY DEF Mynet_listen, Goto, netVars, Domains
  <1>2. Labels'
    BY DEF Mynet_listen, Goto, netVars, Domains, Labels, Consoles
  <1>3. Sockets'
    BY DEF Mynet_listen, Goto, netVars, Domains, Labels, Sockets, Greeted, Consoles
  <1>4. UNCHANGED <<stream, whatigot, gameVars>> /\ ((connection = "broken")' <=> connection = "broken")
    BY DEF Mynet_listen, Goto, netVars, Sockets
  <1>5. \A d \in Consoles :
          \/ pc'[d] = pc[d]
          \/ Early(d) /\ ~Greeted(d)' /\ ~Answered(d)' /\ pc'[d] # "game"
    BY DEF Mynet_listen, Goto, netVars, Domains, Early, Greeted, Answered, Consoles
  <1> QED BY <1>1, <1>2, <1>3, <1>4, <1>5, Calm

\* The guest asks for a connection.
LEMMA ConnectKeeps ==
    ASSUME ConnectInv, Mynet_connect
    PROVE  ConnectInv'
  <1> USE DEF ConnectInv
  <1>1. Domains'
    BY DEF Mynet_connect, Goto, netVars, Domains
  <1>2. Labels'
    BY DEF Mynet_connect, Goto, netVars, Domains, Labels, Consoles
  <1>3. Sockets'
    BY DEF Mynet_connect, Goto, netVars, Domains, Labels, Sockets, Greeted, Consoles
  <1>4. UNCHANGED <<stream, whatigot, gameVars>> /\ ((connection = "broken")' <=> connection = "broken")
    BY DEF Mynet_connect, Goto, netVars, Sockets
  <1>5. \A d \in Consoles :
          \/ pc'[d] = pc[d]
          \/ Early(d) /\ ~Greeted(d)' /\ ~Answered(d)' /\ pc'[d] # "game"
    BY DEF Mynet_connect, Goto, netVars, Domains, Early, Greeted, Answered, Consoles
  <1> QED BY <1>1, <1>2, <1>3, <1>4, <1>5, Calm

\* The host accepts it.
LEMMA AcceptKeeps ==
    ASSUME ConnectInv, Mynet_accept
    PROVE  ConnectInv'
  <1> USE DEF ConnectInv
  <1>1. Domains'
    BY DEF Mynet_accept, Goto, netVars, Domains
  <1>2. Labels'
    BY DEF Mynet_accept, Goto, netVars, Domains, Labels, Consoles
  <1>3. Sockets'
    BY DEF Mynet_accept, Goto, netVars, Domains, Labels, Sockets, Greeted, Consoles
  <1>4. UNCHANGED <<stream, whatigot, gameVars>> /\ ((connection = "broken")' <=> connection = "broken")
    BY DEF Mynet_accept, Goto, netVars, Sockets
  <1>5. \A d \in Consoles :
          \/ pc'[d] = pc[d]
          \/ Early(d) /\ ~Greeted(d)' /\ ~Answered(d)' /\ pc'[d] # "game"
    BY DEF Mynet_accept, Goto, netVars, Domains, Early, Greeted, Answered, Consoles
  <1> QED BY <1>1, <1>2, <1>3, <1>4, <1>5, Calm

-----------------------------------------------------------------------------
(* The greeting. *)

\* The game is started, or the other console did not answer as it should.
LEMMA StartGameKeeps ==
    ASSUME ConnectInv, NEW c \in Consoles, StartGame(c)
    PROVE  ConnectInv'
  <1> USE DEF ConnectInv
  <1>1. /\ pc[c] = "start" /\ UNCHANGED <<net_ip_top_fd, open, sock, whatigot, connection, stream>>
        /\ UNCHANGED <<sending, receiving, received, failures, torn>>
    BY DEF StartGame, netVars, gameVars
  <1>2. Streams' /\ Packets' /\ Assembled'
    BY <1>1 DEF Streams, Packets, Assembled
  <1>3. \A d \in Consoles : Other(d) \in Consoles
    BY DEF Other, Consoles
  <1>4. CASE /\ pc' = [pc EXCEPT ![c] = "game"]
             /\ given' = [given EXCEPT ![c] = [communicationSock |-> sock[c],
                                net_ip_top_fd |-> net_ip_top_fd[c], host |-> c]]
    <2>1. Domains' /\ Labels'
      BY <1>1, <1>4 DEF Domains, Labels, Consoles
    <2>2. Sockets'
      BY <1>1, <1>4 DEF Domains, Sockets, Greeted, Consoles
    <2>3. \A d \in Consoles :
            /\ Greeted(d)' <=> Greeted(d)
            /\ Answered(d)' <=> Answered(d)
            /\ pc'[d] = "game" => pc[d] = "game" \/ d = c
            /\ pc[d] = "game" => pc'[d] = "game"
            /\ pc[d] = "error" <=> pc'[d] = "error"
      BY <1>1, <1>4 DEF Domains, Greeted, Answered, Consoles
    <2>4. Handshake'
      <3>1. /\ Answered("guest")' => pc'["host"] \in {"recv", "start", "game", "error"} /\ whatigot'["guest"] = 1
            /\ Answered("host")' => pc'["guest"] \in {"start", "game"}
        BY <1>1, <1>4, <2>3 DEF Domains, Handshake, Consoles
      <3>2. ~Answered("host")' /\ pc'["host"] # "error" /\ pc'["guest"] = "error" => Len(stream["guest"]) < IntSize
        BY <2>3 DEF Handshake, Consoles
      <3> QED BY <1>1, <1>3, <2>3, <3>1, <3>2 DEF Handshake
    <2>5. Resting'
      BY <1>1, <2>3 DEF Resting
    <2>6. Conveyed'
      <3>1. ASSUME ~torn, connection # "broken", pc'[Other(c)] # "error" PROVE Carried(c)'
        <4> DEFINE r == Other(c)
        <4>1. sending[c].packet = 1 /\ sending[c].i = 0 /\ Len(received[r]) = 0 /\ Len(receiving[r]) = 0
          BY <1>1, <1>3 DEF Resting
        <4>2. Greeted(c)
          BY <1>1 DEF Greeted
        <4>3. Len(stream[c]) = Off(r)
          <5>1. Len(stream[c]) \in Nat /\ IntSize \in Nat
            BY LenProperties, ConnectAssumption DEF Streams
          <5> QED BY <1>1, <1>3, <2>3, <3>1, <4>2, <5>1 DEF Handshake, Off
        <4>4. Off(r)' = Off(r) /\ Off(r) \in Nat
          BY <1>3, <2>3, ConnectAssumption DEF Off
        <4>5. Taken(r)' = 0 /\ Len(stream'[c]) = Off(r)'
          BY <1>1, <4>1, <4>3, <4>4, ConnectAssumption DEF Taken
        <4>6. sending'[c].packet = 1 /\ sending'[c].i = 0
          BY <1>1, <4>1
        <4> HIDE DEF r
        <4>7. (sending'[c].packet - 1) * PacketSize + sending'[c].i + Off(r)' = Taken(r)' + Len(stream'[c])
          BY <4>4, <4>5, <4>6, ConnectAssumption
        <4>8. \A j \in 1 .. Len(stream'[c]) : ~(j > Off(r)')
          BY <4>4, <4>5
        <4> QED BY <4>7, <4>8 DEF Carried, r
      <3>2. \A d \in Consoles : Carried(d)' <=> Carried(d)
        BY <1>1, <1>3, <2>3 DEF Carried, Taken, Off
      <3> QED BY <1>1, <1>3, <2>3, <3>1, <3>2 DEF Conveyed
    <2> QED BY <1>2, <2>1, <2>2, <2>4, <2>5, <2>6
  <1>5. CASE whatigot[c] # 1 /\ UNCHANGED given /\ pc' = [pc EXCEPT ![c] = "error"]
    <2>1. c = "host"
      BY <1>1, <1>5 DEF Handshake, Answered, Consoles
    <2>2. pc'["host"] = "error" /\ pc'["guest"] = pc["guest"]
      BY <1>5, <2>1 DEF Domains, Consoles
    <2>3. Domains' /\ Labels'
      BY <1>1, <1>5, <2>2 DEF Domains, Labels, Consoles
    <2>4. Sockets'
      BY <1>1, <1>5, <2>2 DEF Sockets, Greeted, Consoles
    <2>5. ~Answered("host")' /\ ~Greeted("host")'
      BY <2>2 DEF Answered, Greeted
    <2>6. (Answered("guest")' <=> Answered("guest")) /\ (Greeted("guest")' <=> Greeted("guest"))
      BY <2>2 DEF Answered, Greeted
    <2>7. Handshake'
      BY <1>1, <2>1, <2>2, <2>5, <2>6 DEF Handshake, Other, Consoles
    <2>8. Resting'
      BY <1>1, <2>1, <2>2 DEF Resting, Consoles
    <2>9. Conveyed'
      BY <2>2 DEF Conveyed, Other, Consoles
    <2> QED BY <1>2, <2>3, <2>4, <2>7, <2>8, <2>9
  <1> QED BY <1>4, <1>5 DEF StartGame, Goto, GivenSocket

\* The connection breaks.
LEMMA BreakKeeps ==
    ASSUME ConnectInv, Break
    PROVE  ConnectInv'
  <1> USE DEF ConnectInv
  <1>1. /\ connection' = "broken" /\ stream' = [c \in Consoles |-> << >>] /\ connection # "none"
        /\ UNCHANGED <<pc, net_ip_top_fd, open, sock, whatigot, given>>
        /\ UNCHANGED <<sending, receiving, received, failures, torn>>
    BY DEF Break, gameVars
  <1>2. Streams' /\ Packets' /\ Assembled'
    BY <1>1 DEF Streams, Packets, Assembled
  <1>3. Domains' /\ Labels' /\ Sockets' /\ Resting' /\ Conveyed'
    BY <1>1 DEF Domains, Labels, Sockets, Resting, Conveyed, Greeted
  <1>4. \A c \in Consoles : Len(stream'[c]) = 0
    BY <1>1
  <1>5. \A c \in Consoles : (Answered(c)' <=> Answered(c)) /\ (Greeted(c)' <=> Greeted(c)) /\ Other(c) \in Consoles
    BY <1>1 DEF Answered, Greeted, Other, Consoles
  <1>6. Handshake'
    <2>1. /\ Answered("guest")' => pc'["host"] \in {"recv", "start", "game", "error"} /\ whatigot'["guest"] = 1
          /\ Answered("host")' => pc'["guest"] \in {"start", "game"}
      BY <1>1, <1>5 DEF Handshake, Consoles
    <2>2. \A c \in Consoles : 0 <= IntSize /\ 0 < IntSize /\ \A j \in 1 .. Len(stream'[c]) : FALSE
      BY <1>4, ConnectAssumption
    <2> QED BY <1>1, <1>4, <2>1, <2>2 DEF Handshake, Consoles
  <1> QED BY <1>2, <1>3, <1>6

\* While a console is sending its int the other has not received it, and nobody is in the game.
LEMMA NobodyPlays ==
    ASSUME ConnectInv, NEW c \in Consoles, pc[c] = "send"
    PROVE  /\ Len(stream[c]) = 0 /\ ~Answered(Other(c)) /\ \A d \in Consoles : pc[d] # "game"
           /\ ~Greeted(c) /\ Other(c) \in Consoles /\ Consoles = {c, Other(c)} /\ Other(c) # c
  <1>1. Other(c) \in Consoles /\ Consoles = {c, Other(c)} /\ Other(c) # c
    BY DEF Other, Consoles
  <1>2. ~Greeted(c)
    BY DEF Greeted
  <1>3. Len(stream[c]) = 0
    BY <1>2 DEF ConnectInv, Handshake
  <1>4. ~Answered(Other(c))
    BY DEF ConnectInv, Handshake, Other, Consoles
  <1>5. pc[Other(c)] # "game"
    BY <1>4 DEF Answered
  <1> QED BY <1>1, <1>2, <1>3, <1>4, <1>5

\* A console sends its int, a part of it or nothing.
LEMMA SendLetsgoKeeps ==
    ASSUME ConnectInv, NEW c \in Consoles, SendLetsgo(c)
    PROVE  ConnectInv'
  <1> USE DEF ConnectInv
  <1>0. PICK r : r = Other(c) /\ Other(r) = c
    BY DEF Other, Consoles
  <1>1. /\ pc[c] = "send" /\ UNCHANGED <<net_ip_top_fd, open, sock, whatigot, given, connection>>
        /\ UNCHANGED <<sending, receiving, received, failures, torn>>
    BY DEF SendLetsgo, gameVars
  <1>2. /\ Len(stream[c]) = 0 /\ ~Answered(r) /\ \A d \in Consoles : pc[d] # "game"
        /\ ~Greeted(c) /\ r \in Consoles /\ Consoles = {c, r} /\ r # c
    BY <1>0, <1>1, NobodyPlays
  <1>3. PICK n \in 0 .. IntSize :
          /\ Streams' /\ stream'[r] = stream[r] /\ Len(stream'[c]) = n
          /\ \A j \in 1 .. n : stream'[c][j] = <<0, j>>
          /\ n # 0 => Usable(c) /\ connection # "broken"
          /\ pc' = [pc EXCEPT ![c] = IF n # IntSize THEN "error" ELSE IF c = "host" THEN "recv" ELSE "start"]
    <2>1. CASE UNCHANGED stream /\ Goto(c, "error")
      <3>1. 0 \in 0 .. IntSize /\ 0 # IntSize
        BY ConnectAssumption
      <3>2. Streams' /\ stream'[r] = stream[r] /\ Len(stream'[c]) = 0
        BY <1>2, <2>1 DEF Streams
      <3>3. \A j \in 1 .. 0 : stream'[c][j] = <<0, j>>
        OBVIOUS
      <3>4. pc' = [pc EXCEPT ![c] = IF 0 # IntSize THEN "error" ELSE IF c = "host" THEN "recv" ELSE "start"]
        BY <2>1, <3>1 DEF Goto
      <3> QED BY <3>1, <3>2, <3>3, <3>4
    <2>2. CASE /\ Usable(c) /\ connection # "broken"
               /\ \E n \in 1 .. IntSize :
                     /\ stream' = [stream EXCEPT ![c] = @ \o SubSeq(IntBytes, 1, n)]
                     /\ Goto(c, IF n # IntSize THEN "error" ELSE IF c = "host" THEN "recv" ELSE "start")
      <3>1. PICK n \in 1 .. IntSize :
                     /\ stream' = [stream EXCEPT ![c] = @ \o SubSeq(IntBytes, 1, n)]
                     /\ Goto(c, IF n # IntSize THEN "error" ELSE IF c = "host" THEN "recv" ELSE "start")
        BY <2>2
      <3> DEFINE t == SubSeq(IntBytes, 1, n)
      <3>2. n \in Nat /\ n <= IntSize /\ n \in 0 .. IntSize /\ n # 0
        BY ConnectAssumption
      <3>3. t \in Seq(Byte) /\ Len(t) = n /\ \A j \in 1 .. n : t[j] = IntBytes[j]
        BY <3>2, IntBytesSeq, StartOfSeq
      <3>4. \A j \in 1 .. n : t[j] = <<0, j>>
        BY <3>2, <3>3, IntBytesSeq, ConnectAssumption
      <3> HIDE DEF t
      <3>5. /\ Streams' /\ \A d \in Consoles \ {c} : stream'[d] = stream[d]
            /\ Len(stream'[c]) = Len(stream[c]) + Len(t)
            /\ \A j \in Len(stream[c]) + 1 .. Len(stream[c]) + Len(t) : stream'[c][j] = t[j - Len(stream[c])]
        BY <3>1, <3>3, Push DEF t
      <3>6. Len(stream'[c]) = n
        BY <1>2, <3>2, <3>3, <3>5
      <3>7. \A j \in 1 .. n : stream'[c][j] = <<0, j>>
        BY <1>2, <3>2, <3>3, <3>4, <3>5
      <3> QED BY <1>2, <2>2, <3>1, <3>2, <3>5, <3>6, <3>7 DEF Goto
    <2> QED BY <2>1, <2>2 DEF SendLetsgo
  <1>4. Packets' /\ Assembled'
    BY <1>1 DEF Packets, Assembled
  <1>5. Domains' /\ Labels'
    BY <1>1, <1>3 DEF Domains, Labels, Consoles
  <1>6. n \in Int /\ IntSize \in Nat /\ IntSize > 0
    BY ConnectAssumption
  <1>7. pc'[r] = pc[r] /\ pc'[c] \in {"recv", "start", "error"} /\ (pc'[c] # "error" => n = IntSize)
    BY <1>2, <1>3 DEF Domains
  <1>8. Sockets'
    BY <1>1, <1>2, <1>3, <1>6, <1>7 DEF Domains, Sockets, Greeted, Usable, Consoles
  <1>9. /\ Greeted(r)' <=> Greeted(r)
        /\ ~Answered(r)'
        /\ Greeted(c)' <=> pc'[c] # "error"
        /\ Answered(c)' => Answered(c)
        /\ pc'[c] # "error" => (Answered(c)' <=> Answered(c))
    BY <1>1, <1>2, <1>3, <1>7 DEF Domains, Greeted, Answered, Consoles
  <1>10. Handshake'
    <2>1. Answered("guest")' => pc'["host"] \in {"recv", "start", "game", "error"} /\ whatigot'["guest"] = 1
      BY <1>1, <1>2, <1>7, <1>9 DEF Handshake, Consoles
    <2>2. Answered("host")' => pc'["guest"] \in {"start", "game"}
      BY <1>1, <1>2, <1>7, <1>9 DEF Handshake, Consoles
    <2>3. /\ connection' = "broken" => Len(stream'[c]) = 0
          /\ ~Greeted(c)' /\ pc'[c] # "error" => Len(stream'[c]) = 0
          /\ pc'[c] # "game" => Len(stream'[c]) <= IntSize
          /\ pc'[c] # "game" /\ Answered(r)' => Len(stream'[c]) = 0
          /\ ~Answered(r)' /\ pc'[r] # "error" =>
              /\ \A j \in 1 .. Len(stream'[c]) : j <= IntSize => stream'[c][j] = <<0, j>>
              /\ Greeted(c)' /\ connection' # "broken" => Len(stream'[c]) >= IntSize
      BY <1>1, <1>3, <1>6, <1>7, <1>9
    <2>4. /\ connection' = "broken" => Len(stream'[r]) = 0
          /\ ~Greeted(r)' /\ pc'[r] # "error" => Len(stream'[r]) = 0
          /\ pc'[r] # "game" => Len(stream'[r]) <= IntSize
          /\ pc'[r] # "game" /\ Answered(c)' => Len(stream'[r]) = 0
          /\ ~Answered(c)' /\ pc'[c] # "error" =>
              /\ \A j \in 1 .. Len(stream'[r]) : j <= IntSize => stream'[r][j] = <<0, j>>
              /\ Greeted(r)' /\ connection' # "broken" => Len(stream'[r]) >= IntSize
      BY <1>0, <1>1, <1>2, <1>3, <1>7, <1>9 DEF Handshake
    <2>5. ~Answered("host")' /\ pc'["host"] # "error" /\ pc'["guest"] = "error" => Len(stream'["guest"]) < IntSize
      <3>1. CASE c = "guest"
        <4>1. n # IntSize \/ pc'["guest"] # "error"
          BY <1>3, <3>1 DEF Domains, Consoles
        <4> QED BY <1>3, <1>6, <3>1, <4>1
      <3>2. CASE c = "host"
        <4>1. r = "guest" /\ ~Answered("host")
          BY <1>0, <1>1, <3>2 DEF Other, Answered
        <4> QED BY <1>1, <1>3, <1>7, <3>2, <4>1 DEF Handshake
      <3> QED BY <3>1, <3>2 DEF Consoles
    <2>6. \A d \in Consoles :
          /\ connection' = "broken" => Len(stream'[d]) = 0
          /\ ~Greeted(d)' /\ pc'[d] # "error" => Len(stream'[d]) = 0
          /\ pc'[d] # "game" => Len(stream'[d]) <= IntSize
          /\ pc'[d] # "game" /\ Answered(Other(d))' => Len(stream'[d]) = 0
          /\ ~Answered(Other(d))' /\ pc'[Other(d)] # "error" =>
              /\ \A j \in 1 .. Len(stream'[d]) : j <= IntSize => stream'[d][j] = <<0, j>>
              /\ Greeted(d)' /\ connection' # "broken" => Len(stream'[d]) >= IntSize
      BY <1>0, <1>2, <2>3, <2>4
    <2> QED BY <2>1, <2>2, <2>5, <2>6 DEF Handshake
  <1>11. Resting'
    BY <1>1, <1>2, <1>7 DEF Resting
  <1>12. Conveyed'
    BY <1>2, <1>7 DEF Conveyed
  <1> QED BY <1>3, <1>4, <1>5, <1>8, <1>10, <1>11, <1>12

(***************************************************************************)
(* A console that waits for the other's int: what it finds there is that   *)
(* int, and the other is not past the greeting unless it has sent it.      *)
(***************************************************************************)
LEMMA Awaiting ==
    ASSUME ConnectInv, NEW c \in Consoles, pc[c] = "recv", NEW o, o = Other(c),
           Len(stream[o]) # 0
    PROVE  /\ ~Answered(c) /\ connection # "broken"
           /\ pc[o] \in {"recv", "start", "game", "error"} /\ (Greeted(o) \/ pc[o] = "error")
           /\ pc[o] = "game" => c = "host"
           /\ IntSize <= Len(stream[o]) => c = "guest" \/ pc[o] \in {"start", "game"}
           /\ IntSize <= Len(stream[o]) => SubSeq(stream[o], 1, IntSize) = IntBytes
  <1> USE DEF ConnectInv
  <1>1. o \in Consoles /\ Other(o) = c
    BY DEF Other, Consoles
  <1>2. ~Answered(c)
    BY DEF Answered
  <1>3. connection # "broken" /\ (Greeted(o) \/ pc[o] = "error")
    BY <1>1 DEF Handshake
  <1>4. pc[o] \in {"recv", "start", "game", "error"}
    BY <1>3 DEF Greeted
  <1>5. ASSUME pc[o] = "game", c = "guest" PROVE FALSE
    <2>1. o = "host" /\ Answered("host")
      BY <1>5 DEF Other, Answered
    <2> QED BY <1>5, <2>1 DEF Handshake
  <1>6. ASSUME IntSize <= Len(stream[o]), c = "host" PROVE pc[o] \in {"start", "game"}
    <2>1. o = "guest" /\ ~Answered("host") /\ pc["host"] # "error"
      BY <1>2, <1>6 DEF Other
    <2>2. Len(stream["guest"]) \in Nat
      BY LenProperties DEF Streams, Consoles
    <2>3. pc["guest"] # "error"
      BY <1>6, <2>1, <2>2, ConnectAssumption DEF Handshake
    <2> QED BY <1>3, <2>1, <2>3 DEF Greeted
  <1>7. ASSUME IntSize <= Len(stream[o]) PROVE SubSeq(stream[o], 1, IntSize) = IntBytes
    <2>1. stream[o] \in Seq(Byte) /\ IntSize \in Nat /\ Len(stream[o]) \in Nat
      BY <1>1, LenProperties, ConnectAssumption DEF Streams
    <2>2. /\ SubSeq(stream[o], 1, IntSize) \in Seq(Byte) /\ Len(SubSeq(stream[o], 1, IntSize)) = IntSize
          /\ \A j \in 1 .. IntSize : SubSeq(stream[o], 1, IntSize)[j] = stream[o][j]
      BY <1>7, <2>1, StartOfSeq
    <2>3. \A j \in 1 .. Len(stream[o]) : j <= IntSize => stream[o][j] = <<0, j>>
      BY <1>1, <1>2 DEF Handshake
    <2>4. \A j \in 1 .. IntSize : stream[o][j] = <<0, j>>
      BY <1>7, <2>1, <2>3
    <2>5. \A j \in 1 .. IntSize : SubSeq(stream[o], 1, IntSize)[j] = IntBytes[j]
      BY <2>2, <2>4, IntBytesSeq
    <2> QED BY <2>2, <2>5, IntBytesSeq, SeqEqual
  <1> QED BY <1>1, <1>2, <1>3, <1>4, <1>5, <1>6, <1>7 DEF Consoles

\* A console receives the other's int or a part of it, or receiving fails.
LEMMA RecvWhatigotKeeps ==
    ASSUME ConnectInv, NEW c \in Consoles, RecvWhatigot(c)
    PROVE  ConnectInv'
  <1> USE DEF ConnectInv
  <1>0. PICK o : o = Other(c) /\ Other(o) = c /\ o \in Consoles /\ Consoles = {c, o} /\ o # c
    BY DEF Other, Consoles
  <1>1. /\ pc[c] = "recv" /\ UNCHANGED <<net_ip_top_fd, open, sock, given, connection>>
        /\ UNCHANGED <<sending, receiving, received, failures, torn>>
    BY DEF RecvWhatigot, gameVars
  <1>2. ~Answered(c)
    BY <1>1 DEF Answered
  <1>3. Packets' /\ Assembled'
    BY <1>1 DEF Packets, Assembled
  <1>4. IntSize \in Nat /\ IntSize > 0
    BY ConnectAssumption
  <1>5. CASE UNCHANGED <<stream, whatigot>> /\ Goto(c, "error")
    <2>1. pc'[c] = "error" /\ pc'[o] = pc[o]
      BY <1>0, <1>5 DEF Goto, Domains
    <2>2. Domains' /\ Labels' /\ Streams'
      BY <1>0, <1>1, <1>5, <2>1 DEF Goto, Domains, Labels, Streams, Consoles
    <2>3. Sockets'
      BY <1>0, <1>1, <1>5, <2>1 DEF Sockets, Greeted, Consoles
    <2>4. Resting'
      BY <1>0, <1>1, <2>1 DEF Resting
    <2>5. ~Greeted(c)' /\ ~Answered(c)' /\ (Greeted(o)' <=> Greeted(o)) /\ (Answered(o)' <=> Answered(o))
      BY <2>1 DEF Greeted, Answered
    <2>6. Conveyed'
      <3>1. pc'[o] = "game" => pc'[Other(o)] = "error"
        BY <1>0, <2>1
      <3> QED BY <1>0, <2>1, <3>1 DEF Conveyed
    <2>7. Handshake'
      <3>1. Answered("guest")' => pc'["host"] \in {"recv", "start", "game", "error"} /\ whatigot'["guest"] = 1
        BY <1>0, <1>5, <2>1, <2>5 DEF Handshake, Consoles
      <3>2. Answered("host")' => pc'["guest"] \in {"start", "game"}
        BY <1>0, <1>1, <2>1, <2>5 DEF Handshake, Consoles
      <3>3. /\ connection' = "broken" => Len(stream'[c]) = 0
            /\ pc'[c] # "game" => Len(stream'[c]) <= IntSize
            /\ pc'[c] # "game" /\ Answered(o)' => Len(stream'[c]) = 0
            /\ ~Answered(o)' /\ pc'[o] # "error" =>
                \A j \in 1 .. Len(stream'[c]) : j <= IntSize => stream'[c][j] = <<0, j>>
        BY <1>0, <1>1, <1>5, <2>1, <2>5 DEF Handshake
      <3>4. /\ connection' = "broken" => Len(stream'[o]) = 0
            /\ ~Greeted(o)' /\ pc'[o] # "error" => Len(stream'[o]) = 0
            /\ pc'[o] # "game" => Len(stream'[o]) <= IntSize
        BY <1>0, <1>1, <1>5, <2>1, <2>5 DEF Handshake
      <3>5. ~Answered("host")' /\ pc'["host"] # "error" /\ pc'["guest"] = "error" => Len(stream'["guest"]) < IntSize
        <4>1. CASE c = "guest"
          <5>1. ~Greeted("guest") /\ pc["guest"] # "error"
            BY <1>1, <4>1 DEF Greeted
          <5> QED BY <1>4, <1>5, <5>1 DEF Handshake, Consoles
        <4>2. CASE c = "host"
          BY <2>1, <4>2
        <4> QED BY <4>1, <4>2 DEF Consoles
      <3>6. \A d \in Consoles :
            /\ connection' = "broken" => Len(stream'[d]) = 0
            /\ ~Greeted(d)' /\ pc'[d] # "error" => Len(stream'[d]) = 0
            /\ pc'[d] # "game" => Len(stream'[d]) <= IntSize
            /\ pc'[d] # "game" /\ Answered(Other(d))' => Len(stream'[d]) = 0
            /\ ~Answered(Other(d))' /\ pc'[Other(d)] # "error" =>
                /\ \A j \in 1 .. Len(stream'[d]) : j <= IntSize => stream'[d][j] = <<0, j>>
                /\ Greeted(d)' /\ connection' # "broken" => Len(stream'[d]) >= IntSize
        BY <1>0, <2>1, <2>5, <3>3, <3>4
      <3> QED BY <3>1, <3>2, <3>5, <3>6 DEF Handshake
    <2> QED BY <1>3, <2>2, <2>3, <2>4, <2>6, <2>7
  <1>6. ASSUME NEW n \in 1 .. IntSize, n <= Len(stream[o]),
               stream' = [stream EXCEPT ![o] = SubSeq(@, n + 1, Len(@))],
               whatigot' = [whatigot EXCEPT ![c] = IF SubSeq(stream[o], 1, n) = IntBytes THEN 1 ELSE 0],
               Goto(c, IF n # IntSize THEN "error" ELSE IF c = "host" THEN "start" ELSE "send")
        PROVE  ConnectInv'
    <2>1. /\ Streams' /\ stream'[c] = stream[c]
          /\ Len(stream[o]) \in Nat /\ Len(stream'[o]) = Len(stream[o]) - n
          /\ \A j \in 1 .. Len(stream[o]) - n : stream'[o][j] = stream[o][n + j]
      <3>1. n \in Nat
        BY <1>4
      <3> QED BY <1>0, <1>6, <3>1, Pull
    <2>2. n \in Nat /\ n >= 1 /\ Len(stream[o]) # 0
      BY <1>4, <1>6, <2>1
    <2>3. /\ connection # "broken" /\ pc[o] \in {"recv", "start", "game", "error"}
          /\ pc[o] = "game" => c = "host"
          /\ IntSize <= Len(stream[o]) => c = "guest" \/ pc[o] \in {"start", "game"}
          /\ IntSize <= Len(stream[o]) => SubSeq(stream[o], 1, IntSize) = IntBytes
      BY <1>0, <1>1, <2>2, Awaiting
    <2>4. pc'[o] = pc[o] /\ pc'[c] = IF n # IntSize THEN "error" ELSE IF c = "host" THEN "start" ELSE "send"
      BY <1>0, <1>6 DEF Goto, Domains
    <2>5. Domains' /\ Labels'
      BY <1>0, <1>1, <1>6, <2>4 DEF Goto, Domains, Labels, Consoles
    <2>6. Sockets'
      BY <1>0, <1>1, <2>4 DEF Sockets, Greeted, Consoles
    <2>7. Resting'
      BY <1>0, <1>1, <2>4 DEF Resting
    <2>8. /\ Greeted(o)' <=> Greeted(o)
          /\ Answered(o)' <=> Answered(o)
          /\ Greeted(c)' => Greeted(c)
          /\ Answered(c)' <=> n = IntSize
          /\ ~Greeted(c)' /\ pc'[c] # "error" => ~Greeted(c)
      BY <1>0, <1>1, <2>4 DEF Greeted, Answered, Consoles
    <2>9. Handshake'
      <3>1. Answered("guest")' => pc'["host"] \in {"recv", "start", "game", "error"} /\ whatigot'["guest"] = 1
        <4>1. CASE c = "guest"
          <5>1. o = "host"
            BY <1>0, <4>1 DEF Other
          <5>2. ASSUME n = IntSize PROVE whatigot'["guest"] = 1
            BY <1>6, <2>3, <4>1, <5>2 DEF Domains
          <5> QED BY <2>3, <2>4, <2>8, <4>1, <5>1, <5>2
        <4>2. CASE c = "host"
          <5>1. o = "guest" /\ whatigot'["guest"] = whatigot["guest"]
            BY <1>0, <1>6, <4>2 DEF Other, Domains
          <5> QED BY <2>4, <2>8, <4>2, <5>1 DEF Handshake
        <4> QED BY <4>1, <4>2 DEF Consoles
      <3>2. Answered("host")' => pc'["guest"] \in {"start", "game"}
        <4>1. CASE c = "guest"
          <5>1. o = "host" /\ ~Answered("host")
            BY <1>0, <1>1, <4>1 DEF Other, Handshake
          <5> QED BY <2>8, <5>1
        <4>2. CASE c = "host"
          <5>1. o = "guest"
            BY <1>0, <4>2 DEF Other
          <5> QED BY <1>6, <2>3, <2>4, <2>8, <4>2, <5>1
        <4> QED BY <4>1, <4>2 DEF Consoles
      <3>3. /\ connection' = "broken" => Len(stream'[c]) = 0
            /\ ~Greeted(c)' /\ pc'[c] # "error" => Len(stream'[c]) = 0
            /\ pc'[c] # "game" => Len(stream'[c]) <= IntSize
            /\ pc'[c] # "game" /\ Answered(o)' => Len(stream'[c]) = 0
            /\ ~Answered(o)' /\ pc'[o] # "error" =>
                /\ \A j \in 1 .. Len(stream'[c]) : j <= IntSize => stream'[c][j] = <<0, j>>
                /\ Greeted(c)' /\ connection' # "broken" => Len(stream'[c]) >= IntSize
        BY <1>0, <1>1, <2>1, <2>4, <2>8 DEF Handshake
      <3>4. /\ connection' = "broken" => Len(stream'[o]) = 0
            /\ ~Greeted(o)' /\ pc'[o] # "error" => Len(stream'[o]) = 0
            /\ pc'[o] # "game" => Len(stream'[o]) <= IntSize
            /\ pc'[o] # "game" /\ Answered(c)' => Len(stream'[o]) = 0
            /\ ~Answered(c)' => pc'[c] = "error"
        <4>1. pc[o] # "game" => Len(stream[o]) <= IntSize
          BY <1>0 DEF Handshake
        <4>2. ~Greeted(o) => pc[o] = "error"
          BY <1>0, <2>2 DEF Handshake
        <4> QED BY <1>1, <1>4, <2>1, <2>2, <2>3, <2>4, <2>8, <4>1, <4>2
      <3>5. ~Answered("host")' /\ pc'["host"] # "error" /\ pc'["guest"] = "error" => Len(stream'["guest"]) < IntSize
        <4>1. CASE c = "guest"
          <5>1. ~Greeted("guest") /\ pc["guest"] # "error"
            BY <1>1, <4>1 DEF Greeted
          <5>2. Len(stream["guest"]) = 0
            BY <5>1 DEF Handshake, Consoles
          <5> QED BY <1>4, <2>1, <4>1, <5>2
        <4>2. CASE c = "host"
          BY <2>4, <2>8, <4>2
        <4> QED BY <4>1, <4>2 DEF Consoles
      <3>6. \A d \in Consoles :
            /\ connection' = "broken" => Len(stream'[d]) = 0
            /\ ~Greeted(d)' /\ pc'[d] # "error" => Len(stream'[d]) = 0
            /\ pc'[d] # "game" => Len(stream'[d]) <= IntSize
            /\ pc'[d] # "game" /\ Answered(Other(d))' => Len(stream'[d]) = 0
            /\ ~Answered(Other(d))' /\ pc'[Other(d)] # "error" =>
                /\ \A j \in 1 .. Len(stream'[d]) : j <= IntSize => stream'[d][j] = <<0, j>>
                /\ Greeted(d)' /\ connection' # "broken" => Len(stream'[d]) >= IntSize
        BY <1>0, <3>3, <3>4
      <3> QED BY <3>1, <3>2, <3>5, <3>6 DEF Handshake
    <2>10. Conveyed'
      <3>1. ASSUME ~torn, pc[o] = "game", n = IntSize PROVE Carried(o)'
        <4>1. Carried(o)
          BY <1>0, <1>1, <2>3, <3>1 DEF Conveyed
        <4>2. Off(c) = IntSize /\ Off(c)' = 0 /\ Taken(c)' = Taken(c)
          BY <1>1, <1>2, <2>8, <3>1 DEF Off, Taken
        <4>3. Taken(c) = 0
          <5>1. Len(received[c]) = 0 /\ Len(receiving[c]) = 0
            BY <1>0, <1>1 DEF Resting
          <5> QED BY <5>1, ConnectAssumption DEF Taken
        <4>4. (sending[o].packet - 1) * PacketSize + sending[o].i + IntSize = Len(stream[o])
          BY <1>0, <2>1, <4>1, <4>2, <4>3 DEF Carried
        <4>5. \A j \in 1 .. Len(stream[o]) : j > IntSize =>
                /\ stream[o][j][1] > 0 /\ stream[o][j][2] \in 1 .. PacketSize
                /\ (stream[o][j][1] - 1) * PacketSize + stream[o][j][2] = 0 + j - IntSize
          BY <1>0, <4>1, <4>2, <4>3 DEF Carried
        <4>6. (sending[o].packet - 1) * PacketSize \in Int /\ sending[o].i \in Int
          BY <1>0, ConnectAssumption DEF Packets
        <4>7. (sending'[o].packet - 1) * PacketSize + sending'[o].i + Off(c)' = Taken(c)' + Len(stream'[o])
          <5> DEFINE a == (sending[o].packet - 1) * PacketSize  b == sending[o].i
          <5>1. a \in Int /\ b \in Int /\ a + b + IntSize = Len(stream[o])
            BY <4>4, <4>6
          <5>2. (sending'[o].packet - 1) * PacketSize = a /\ sending'[o].i = b
            BY <1>1
          <5> HIDE DEF a, b
          <5>3. a + b + 0 = 0 + (Len(stream[o]) - IntSize)
            BY <1>4, <5>1
          <5> QED BY <2>1, <3>1, <4>2, <4>3, <5>2, <5>3
        <4>8. ASSUME NEW j \in 1 .. Len(stream'[o])
              PROVE  /\ stream'[o][j][1] > 0 /\ stream'[o][j][2] \in 1 .. PacketSize
                     /\ (stream'[o][j][1] - 1) * PacketSize + stream'[o][j][2] = Taken(c)' + j - Off(c)'
          <5>1. /\ IntSize + j \in 1 .. Len(stream[o]) /\ IntSize + j > IntSize
                /\ j \in 1 .. Len(stream[o]) - IntSize /\ 0 + (IntSize + j) - IntSize = 0 + j - 0
            BY <1>4, <2>1, <3>1
          <5>2. stream'[o][j] = stream[o][IntSize + j]
            BY <2>1, <3>1, <5>1
          <5> QED BY <4>2, <4>3, <4>5, <5>1, <5>2
        <4> QED BY <1>0, <4>7, <4>8 DEF Carried
      <3> QED BY <1>0, <1>1, <2>4, <3>1 DEF Conveyed
    <2> QED BY <1>3, <2>1, <2>5, <2>6, <2>7, <2>9, <2>10
  <1> QED BY <1>0, <1>5, <1>6 DEF RecvWhatigot

-----------------------------------------------------------------------------
(* The game. *)

\* What the steps of the game leave alone.
LEMMA GameCalm ==
    ASSUME ConnectInv, UNCHANGED <<pc, net_ip_top_fd, open, sock, whatigot, given, connection>>
    PROVE  /\ Domains' /\ Labels' /\ Sockets'
           /\ \A d \in Consoles : (Greeted(d)' <=> Greeted(d)) /\ (Answered(d)' <=> Answered(d))
           /\ \A d \in Consoles : Off(d)' = Off(d) /\ Off(d) \in Nat
           /\ Answered("guest")' => pc'["host"] \in {"recv", "start", "game", "error"} /\ whatigot'["guest"] = 1
           /\ Answered("host")' => pc'["guest"] \in {"start", "game"}
  <1> USE DEF ConnectInv
  <1>1. Domains' /\ Labels'
    BY DEF Domains, Labels
  <1>2. \A d \in Consoles : (Greeted(d)' <=> Greeted(d)) /\ (Answered(d)' <=> Answered(d))
    BY DEF Greeted, Answered
  <1>3. Sockets'
    BY <1>2 DEF Sockets, Consoles
  <1>4. \A d \in Consoles : Off(d)' = Off(d) /\ Off(d) \in Nat
    BY <1>2, ConnectAssumption DEF Off
  <1>5. /\ Answered("guest")' => pc'["host"] \in {"recv", "start", "game", "error"} /\ whatigot'["guest"] = 1
        /\ Answered("host")' => pc'["guest"] \in {"start", "game"}
    BY <1>2 DEF Handshake, Consoles
  <1> QED BY <1>1, <1>2, <1>3, <1>4, <1>5

\* A product of natural numbers is one.
LEMMA NatTimes ==
    ASSUME NEW a \in Nat, NEW b \in Nat
    PROVE  a * b \in Nat
  OBVIOUS

\* The types of what is counted for a console.
LEMMA Counts ==
    ASSUME Packets, NEW c \in Consoles
    PROVE  /\ Len(received[c]) \in Nat /\ Len(receiving[c]) \in Nat /\ Len(receiving[c]) < PacketSize
           /\ sending[c].packet \in Nat \ {0} /\ sending[c].i \in 0 .. PacketSize - 1
           /\ Taken(c) \in Nat /\ (sending[c].packet - 1) * PacketSize \in Nat
  <1>1. Len(received[c]) \in Nat /\ Len(receiving[c]) \in Nat /\ Len(receiving[c]) < PacketSize
    BY LenProperties DEF Packets
  <1>2. sending[c].packet \in Nat \ {0} /\ sending[c].i \in 0 .. PacketSize - 1
    BY DEF Packets
  <1>3. Taken(c) \in Nat
    <2>1. Len(received[c]) * PacketSize \in Nat
      BY <1>1, NatTimes, ConnectAssumption
    <2> QED BY <1>1, <2>1 DEF Taken
  <1>4. sending[c].packet - 1 \in Nat
    BY <1>2
  <1>5. (sending[c].packet - 1) * PacketSize \in Nat
    BY <1>4, ConnectAssumption
  <1> QED BY <1>1, <1>2, <1>3, <1>5

\* t are the n bytes of packet p behind the first i.
Piece(t, p, i, n) == t \in Seq(Byte) /\ Len(t) = n /\ \A m \in 1 .. n : t[m] = <<p, i + m>>

\* The part of a packet that a call of Mynet_send takes.
LEMMA RestBytes ==
    ASSUME NEW p \in Nat, NEW i \in 0 .. PacketSize - 1, NEW amt \in 1 .. PacketSize - i,
           NEW s, s.packet = p, s.i = i, NEW t, t = SubSeq(Rest(s), 1, amt)
    PROVE  Piece(t, p, i, amt)
  <1>1. /\ PacketBytes(p) \in Seq(Byte) /\ Len(PacketBytes(p)) = PacketSize
        /\ \A j \in 1 .. PacketSize : PacketBytes(p)[j] = <<p, j>>
    BY PacketBytesSeq
  <1> DEFINE q == PacketBytes(p)
  <1> HIDE DEF q
  <1>2. q \in Seq(Byte) /\ Len(q) = PacketSize /\ \A j \in 1 .. PacketSize : q[j] = <<p, j>>
    BY <1>1 DEF q
  <1>3. PacketSize \in Nat /\ i \in Nat /\ amt \in Nat /\ amt >= 1 /\ i + amt <= PacketSize /\ i < PacketSize
    BY ConnectAssumption
  <1>4. \A j \in i + 1 .. PacketSize : q[j] \in Byte
    BY <1>2, <1>3 DEF Byte
  <1> DEFINE u == SubSeq(q, i + 1, PacketSize)
  <1>5. /\ u \in Seq(Byte)
        /\ Len(u) = IF i + 1 <= PacketSize THEN PacketSize - (i + 1) + 1 ELSE 0
        /\ \A m \in 1 .. PacketSize - (i + 1) + 1 : u[m] = q[i + 1 + m - 1]
    <2>1. i + 1 \in Int /\ PacketSize \in Int
      BY <1>3
    <2> QED BY <1>4, <2>1, SubSeqProperties
  <1>6. Rest(s) = u
    BY DEF Rest, u, q
  <1> HIDE DEF u
  <1>7. amt <= Len(u) /\ \A m \in 1 .. amt : u[m] = <<p, i + m>>
    <2>1. amt <= Len(u)
      BY <1>3, <1>5
    <2>2. ASSUME NEW m \in 1 .. amt PROVE u[m] = <<p, i + m>>
      <3>1. m \in 1 .. PacketSize - (i + 1) + 1 /\ i + 1 + m - 1 = i + m /\ i + m \in 1 .. PacketSize
        BY <1>3
      <3> QED BY <1>2, <1>5, <3>1
    <2> QED BY <2>1, <2>2
  <1>8. t \in Seq(Byte) /\ Len(t) = amt /\ \A m \in 1 .. amt : t[m] = u[m]
    BY <1>3, <1>5, <1>6, <1>7, StartOfSeq
  <1> QED BY <1>7, <1>8 DEF Piece

\* How far the sending gets with a call.
LEMMA SendingMoves ==
    ASSUME Packets, UNCHANGED <<receiving, received>>, NEW c \in Consoles,
           NEW amt \in Nat, amt > 0, sending[c].i + amt <= PacketSize,
           sending' = [sending EXCEPT ![c] =
               IF @.i + amt < PacketSize THEN [packet |-> @.packet, i |-> @.i + amt]
               ELSE [packet |-> @.packet + 1, i |-> 0]]
    PROVE  /\ Packets' /\ \A d \in Consoles \ {c} : sending'[d] = sending[d]
           /\ sending[c].i + amt < PacketSize =>
                  sending'[c].packet = sending[c].packet /\ sending'[c].i = sending[c].i + amt
           /\ ~(sending[c].i + amt < PacketSize) =>
                  sending'[c].packet = sending[c].packet + 1 /\ sending'[c].i = 0
  <1> DEFINE S == [packet : Nat \ {0}, i : 0 .. PacketSize - 1]
  <1>1. /\ DOMAIN sending = Consoles /\ \A d \in Consoles : sending[d] \in S
        /\ sending = [d \in Consoles |-> sending[d]]
    BY DEF Packets
  <1>2. PICK x : x = sending[c]
    OBVIOUS
  <1>3. x \in S /\ x.packet \in Nat \ {0} /\ x.i \in Nat /\ PacketSize \in Nat /\ PacketSize > 0
    BY <1>1, <1>2, ConnectAssumption
  <1>4. PICK y : y = IF x.i + amt < PacketSize THEN [packet |-> x.packet, i |-> x.i + amt] ELSE [packet |-> x.packet + 1, i |-> 0]
    OBVIOUS
  <1>5. y \in S /\ (x.i + amt < PacketSize => y.packet = x.packet /\ y.i = x.i + amt)
        /\ (~(x.i + amt < PacketSize) => y.packet = x.packet + 1 /\ y.i = 0)
    <2>1. CASE x.i + amt < PacketSize
      <3>1. y = [packet |-> x.packet, i |-> x.i + amt] /\ x.i + amt \in 0 .. PacketSize - 1
        BY <1>3, <1>4, <2>1
      <3> QED BY <1>3, <2>1, <3>1
    <2>2. CASE ~(x.i + amt < PacketSize)
      <3>1. y = [packet |-> x.packet + 1, i |-> 0] /\ x.packet + 1 \in Nat \ {0} /\ 0 \in 0 .. PacketSize - 1
        BY <1>3, <1>4, <2>2
      <3> QED BY <2>2, <3>1
    <2> QED BY <2>1, <2>2
  <1> HIDE DEF S
  <1>6. /\ sending' = [d \in Consoles |-> sending'[d]]
        /\ \A d \in Consoles \ {c} : sending'[d] = sending[d]
    BY <1>1
  <1>7. sending'[c] = y
    BY <1>1, <1>2, <1>4
  <1>8. sending' \in [Consoles -> S]
    BY <1>1, <1>5, <1>6, <1>7
  <1>9. Packets'
    BY <1>8 DEF Packets, S
  <1> QED BY <1>2, <1>5, <1>6, <1>7, <1>9

\* A part of a packet is sent.
LEMMA SendPartKeeps ==
    ASSUME ConnectInv, NEW c \in Consoles, SendPart(c)
    PROVE  ConnectInv'
  <1> USE DEF ConnectInv
  <1>0. PICK o : o = Other(c) /\ Other(o) = c /\ o \in Consoles /\ Consoles = {c, o} /\ o # c
    BY DEF Other, Consoles
  <1>1. /\ pc[c] = "game" /\ connection = "up"
        /\ UNCHANGED <<pc, net_ip_top_fd, open, sock, whatigot, given, connection>>
        /\ UNCHANGED <<receiving, received, failures, torn>>
    BY DEF SendPart
  <1>2. PICK amt : amt \in 1 .. PacketSize - sending[c].i
          /\ stream' = [stream EXCEPT ![c] = @ \o SubSeq(Rest(sending[c]), 1, amt)]
          /\ sending' = [sending EXCEPT ![c] =
                 IF @.i + amt < PacketSize THEN [packet |-> @.packet, i |-> @.i + amt]
                 ELSE [packet |-> @.packet + 1, i |-> 0]]
    BY DEF SendPart
  <1>3. /\ Domains' /\ Labels' /\ Sockets'
        /\ \A d \in Consoles : (Greeted(d)' <=> Greeted(d)) /\ (Answered(d)' <=> Answered(d))
        /\ \A d \in Consoles : Off(d)' = Off(d) /\ Off(d) \in Nat
        /\ Answered("guest")' => pc'["host"] \in {"recv", "start", "game", "error"} /\ whatigot'["guest"] = 1
        /\ Answered("host")' => pc'["guest"] \in {"start", "game"}
    BY <1>1, GameCalm
  <1>30. PICK p, i, L : p = sending[c].packet /\ i = sending[c].i /\ L = Len(stream[c])
    OBVIOUS
  <1>4. /\ p \in Nat \ {0} /\ i \in 0 .. PacketSize - 1 /\ PacketSize \in Nat \ {0} /\ IntSize \in Nat \ {0}
        /\ Taken(o) \in Nat /\ (p - 1) * PacketSize \in Nat
    BY <1>0, <1>30, Counts, ConnectAssumption
  <1>40. PICK t : t = SubSeq(Rest(sending[c]), 1, amt)
    OBVIOUS
  <1>5. t \in Seq(Byte) /\ Len(t) = amt /\ \A m \in 1 .. amt : t[m] = <<p, i + m>>
    <2>1. /\ p \in Nat /\ i \in 0 .. PacketSize - 1 /\ amt \in 1 .. PacketSize - i
          /\ sending[c].packet = p /\ sending[c].i = i
      BY <1>2, <1>4, <1>30
    <2>2. PICK s : s = sending[c] /\ s.packet = p /\ s.i = i /\ t = SubSeq(Rest(s), 1, amt)
      BY <1>40, <2>1
    <2>3. Piece(t, p, i, amt)
      BY <2>1, <2>2, RestBytes
    <2> QED BY <2>3 DEF Piece
  <1>6. /\ Streams' /\ stream'[o] = stream[o] /\ Len(stream'[c]) = L + amt
        /\ \A j \in 1 .. L : stream'[c][j] = stream[c][j]
        /\ \A j \in L + 1 .. L + amt : stream'[c][j] = t[j - L]
        /\ L \in Nat
    <2>1. stream' = [stream EXCEPT ![c] = @ \o t] /\ t \in Seq(Byte)
      BY <1>2, <1>5, <1>40
    <2>2. /\ Streams' /\ \A d \in Consoles \ {c} : stream'[d] = stream[d]
          /\ Len(stream'[c]) = L + Len(t)
          /\ \A j \in 1 .. L : stream'[c][j] = stream[c][j]
          /\ \A j \in L + 1 .. L + Len(t) : stream'[c][j] = t[j - L]
          /\ L \in Nat
      <3>1. /\ Streams' /\ \A d \in Consoles \ {c} : stream'[d] = stream[d]
            /\ Len(stream'[c]) = Len(stream[c]) + Len(t)
            /\ \A j \in 1 .. Len(stream[c]) : stream'[c][j] = stream[c][j]
            /\ \A j \in Len(stream[c]) + 1 .. Len(stream[c]) + Len(t) : stream'[c][j] = t[j - Len(stream[c])]
            /\ Len(stream[c]) \in Nat
        BY <2>1, Push
      <3> QED BY <1>30, <3>1
    <2> QED BY <1>0, <1>5, <2>2
  <1>7. amt \in Nat /\ amt >= 1 /\ i + amt <= PacketSize /\ i \in Nat
    <2>1. amt \in 1 .. PacketSize - i /\ i \in 0 .. PacketSize - 1 /\ PacketSize \in Nat
      BY <1>2, <1>4, <1>30
    <2> QED BY ONLY <2>1
  <1>8. /\ sending'[o] = sending[o]
        /\ i + amt < PacketSize => sending'[c].packet = p /\ sending'[c].i = i + amt
        /\ ~(i + amt < PacketSize) => sending'[c].packet = p + 1 /\ sending'[c].i = 0
        /\ Packets'
    <2>1. amt > 0 /\ sending[c].i + amt <= PacketSize
      BY <1>7, <1>30
    <2> QED BY <1>0, <1>1, <1>2, <1>7, <1>30, <2>1, SendingMoves
  <1>10. Assembled'
    BY <1>1 DEF Assembled
  <1>11. Resting'
    BY <1>0, <1>1, <1>8 DEF Resting
  <1>12. Handshake'
    <2>1. Greeted(c)
      BY <1>1 DEF Greeted
    <2>2. /\ connection' = "broken" => Len(stream'[c]) = 0
          /\ ~Greeted(c)' /\ pc'[c] # "error" => Len(stream'[c]) = 0
          /\ pc'[c] # "game" => Len(stream'[c]) <= IntSize
          /\ pc'[c] # "game" /\ Answered(o)' => Len(stream'[c]) = 0
      BY <1>1, <1>3, <2>1
    <2>3. ASSUME ~Answered(o), pc[o] # "error"
          PROVE  /\ \A j \in 1 .. Len(stream'[c]) : j <= IntSize => stream'[c][j] = <<0, j>>
                 /\ Len(stream'[c]) >= IntSize
      <3>1. L >= IntSize /\ \A j \in 1 .. L : j <= IntSize => stream[c][j] = <<0, j>>
        BY <1>0, <1>1, <1>30, <2>1, <2>3 DEF Handshake
      <3> QED BY <1>4, <1>6, <1>7, <3>1
    <2>4. /\ connection' = "broken" => Len(stream'[o]) = 0
          /\ ~Greeted(o)' /\ pc'[o] # "error" => Len(stream'[o]) = 0
          /\ pc'[o] # "game" => Len(stream'[o]) <= IntSize
          /\ pc'[o] # "game" /\ Answered(c)' => Len(stream'[o]) = 0
          /\ ~Answered(c)' /\ pc'[c] # "error" =>
              /\ \A j \in 1 .. Len(stream'[o]) : j <= IntSize => stream'[o][j] = <<0, j>>
              /\ Greeted(o)' /\ connection' # "broken" => Len(stream'[o]) >= IntSize
      BY <1>0, <1>1, <1>3, <1>6 DEF Handshake
    <2>5. ~Answered("host")' /\ pc'["host"] # "error" /\ pc'["guest"] = "error" => Len(stream'["guest"]) < IntSize
      <3>1. CASE c = "guest"
        BY <1>1, <3>1
      <3>2. CASE c = "host"
        <4>1. o = "guest"
          BY <1>0, <3>2 DEF Other
        <4> QED BY <1>1, <1>3, <1>6, <4>1 DEF Handshake, Consoles
      <3> QED BY <3>1, <3>2 DEF Consoles
    <2>6. \A d \in Consoles :
          /\ connection' = "broken" => Len(stream'[d]) = 0
          /\ ~Greeted(d)' /\ pc'[d] # "error" => Len(stream'[d]) = 0
          /\ pc'[d] # "game" => Len(stream'[d]) <= IntSize
          /\ pc'[d] # "game" /\ Answered(Other(d))' => Len(stream'[d]) = 0
          /\ ~Answered(Other(d))' /\ pc'[Other(d)] # "error" =>
              /\ \A j \in 1 .. Len(stream'[d]) : j <= IntSize => stream'[d][j] = <<0, j>>
              /\ Greeted(d)' /\ connection' # "broken" => Len(stream'[d]) >= IntSize
      BY <1>0, <1>1, <1>3, <2>2, <2>3, <2>4
    <2> QED BY <1>3, <2>5, <2>6 DEF Handshake
  <1>13. Conveyed'
    <2>1. Carried(o)' <=> Carried(o)
      BY <1>0, <1>1, <1>3, <1>6, <1>8 DEF Carried, Taken
    <2>2. Taken(o)' = Taken(o)
      BY <1>1 DEF Taken
    <2>3. ASSUME Carried(c) PROVE Carried(c)'
      <3> DEFINE T == Taken(o)  F == Off(o)  A == (p - 1) * PacketSize
      <3>0. A + i + F = T + L /\ A \in Nat /\ F \in Nat /\ T \in Nat /\ L \in Nat
        BY <1>0, <1>3, <1>4, <1>6, <1>30, <2>3 DEF Carried
      <3>1. \A j \in 1 .. L : j > F =>
                 /\ stream[c][j][1] > 0 /\ stream[c][j][2] \in 1 .. PacketSize
                 /\ (stream[c][j][1] - 1) * PacketSize + stream[c][j][2] = T + j - F
        BY <1>0, <1>3, <1>4, <1>30, <2>3 DEF Carried
      <3>2. p * PacketSize = A + PacketSize
        BY <1>4 DEF A
      <3> HIDE DEF T, F, A
      <3>3. (sending'[c].packet - 1) * PacketSize + sending'[c].i + F = T + Len(stream'[c])
        <4>1. CASE i + amt < PacketSize
          <5>1. (sending'[c].packet - 1) * PacketSize = A /\ sending'[c].i = i + amt
            BY <1>8, <4>1 DEF A
          <5>2. A + (i + amt) + F = T + (L + amt)
            BY <1>7, <3>0
          <5> QED BY <1>6, <5>1, <5>2
        <4>2. CASE ~(i + amt < PacketSize)
          <5>1. (sending'[c].packet - 1) * PacketSize = A + PacketSize /\ sending'[c].i = 0
            <6>1. sending'[c].packet - 1 = p /\ sending'[c].i = 0
              BY <1>4, <1>8, <4>2
            <6> QED BY <3>2, <6>1
          <5>2. A + PacketSize + 0 + F = T + (L + amt)
            <6>1. i + amt = PacketSize
              BY <1>4, <1>7, <4>2
            <6> QED BY <1>7, <3>0, <6>1
          <5> QED BY <1>6, <5>1, <5>2
        <4> QED BY <4>1, <4>2
      <3>4. ASSUME NEW j \in 1 .. Len(stream'[c]), j > F
            PROVE  /\ stream'[c][j][1] > 0 /\ stream'[c][j][2] \in 1 .. PacketSize
                   /\ (stream'[c][j][1] - 1) * PacketSize + stream'[c][j][2] = T + j - F
        <4>1. CASE j <= L
          <5>1. j \in 1 .. L
            BY <1>6, <4>1
          <5> QED BY <1>6, <3>1, <3>4, <5>1
        <4>2. CASE ~(j <= L)
          <5>1. j \in L + 1 .. L + amt /\ j - L \in 1 .. amt
            BY <1>6, <1>7, <4>2
          <5>2. stream'[c][j] = <<p, i + (j - L)>>
            BY <1>5, <1>6, <5>1
          <5>3. p > 0 /\ i + (j - L) \in 1 .. PacketSize
            BY <1>4, <1>6, <1>7, <5>1
          <5>4. A + (i + (j - L)) = T + j - F
            BY <1>7, <3>0, <5>1
          <5> QED BY <5>2, <5>3, <5>4 DEF A
        <4> QED BY <4>1, <4>2
      <3> QED BY <1>0, <1>3, <2>2, <3>3, <3>4 DEF Carried, T, F
    <2> QED BY <1>0, <1>1, <2>1, <2>3 DEF Conveyed
  <1> QED BY <1>3, <1>6, <1>8, <1>10, <1>11, <1>12, <1>13

\* A step of the game that leaves the streams alone.
LEMMA GameHandshake ==
    ASSUME ConnectInv, UNCHANGED <<pc, net_ip_top_fd, open, sock, whatigot, given, connection, stream>>
    PROVE  Handshake'
  <1> USE DEF ConnectInv
  <1>1. \A d \in Consoles : (Greeted(d)' <=> Greeted(d)) /\ (Answered(d)' <=> Answered(d)) /\ Other(d) \in Consoles
    BY DEF Greeted, Answered, Other, Consoles
  <1>2. /\ Answered("guest")' => pc'["host"] \in {"recv", "start", "game", "error"} /\ whatigot'["guest"] = 1
        /\ Answered("host")' => pc'["guest"] \in {"start", "game"}
        /\ ~Answered("host")' /\ pc'["host"] # "error" /\ pc'["guest"] = "error" => Len(stream["guest"]) < IntSize
    BY <1>1 DEF Handshake, Consoles
  <1> QED BY <1>1, <1>2 DEF Handshake

\* A send fails and the packet is repeated: nothing is lost unless a part of it was sent.
LEMMA SendFailsKeeps ==
    ASSUME ConnectInv, NEW c \in Consoles, SendFails(c)
    PROVE  ConnectInv'
  <1> USE DEF ConnectInv
  <1>1. /\ pc[c] = "game" /\ UNCHANGED <<receiving, received, stream>>
        /\ UNCHANGED <<pc, net_ip_top_fd, open, sock, whatigot, given, connection>>
        /\ sending' = [sending EXCEPT ![c].i = 0] /\ torn' = (torn \/ sending[c].i > 0)
    BY DEF SendFails, netVars
  <1>2. Domains' /\ Labels' /\ Sockets' /\ Handshake'
    BY <1>1, GameCalm, GameHandshake
  <1>3. Streams'
    BY <1>1 DEF Streams
  <1>4. sending[c].packet \in Nat \ {0} /\ sending[c].i \in 0 .. PacketSize - 1
    BY Counts
  <1>5. /\ Packets' /\ sending'[c].packet = sending[c].packet /\ sending'[c].i = 0
        /\ \A d \in Consoles \ {c} : sending'[d] = sending[d]
    <2>1. 0 \in 0 .. PacketSize - 1
      BY ConnectAssumption
    <2> QED BY <1>1, <2>1 DEF Packets
  <1>6. ~torn' => ~torn /\ ~(sending[c].i > 0)
    BY <1>1, Zenon
  <1>7. ~torn' => ~torn /\ sending[c].i = 0
    BY <1>4, <1>6, ConnectAssumption
  <1>8. Assembled'
    BY <1>1, <1>7 DEF Assembled
  <1>9. Resting'
    BY <1>1, <1>5 DEF Resting
  <1>10. Conveyed'
    <2>1. \A d \in Consoles : Other(d) \in Consoles /\ Off(d)' = Off(d) /\ Taken(d)' = Taken(d)
      BY <1>1, GameCalm DEF Taken, Other, Consoles
    <2>2. ~torn' => \A d \in Consoles : sending'[d].packet = sending[d].packet /\ sending'[d].i = sending[d].i
      BY <1>5, <1>7
    <2>3. ~torn' => \A d \in Consoles : Carried(d) => Carried(d)'
      BY <1>1, <2>1, <2>2 DEF Carried
    <2> QED BY <1>1, <1>7, <2>3 DEF Conveyed
  <1> QED BY <1>2, <1>3, <1>5, <1>8, <1>9, <1>10

\* A receive fails and the packet is received anew: nothing is lost unless a part of it had come.
LEMMA RecvFailsKeeps ==
    ASSUME ConnectInv, NEW c \in Consoles, RecvFails(c)
    PROVE  ConnectInv'
  <1> USE DEF ConnectInv
  <1>1. /\ pc[c] = "game" /\ UNCHANGED <<sending, received, stream>>
        /\ UNCHANGED <<pc, net_ip_top_fd, open, sock, whatigot, given, connection>>
        /\ receiving' = [receiving EXCEPT ![c] = << >>] /\ torn' = (torn \/ receiving[c] # << >>)
    BY DEF RecvFails, netVars
  <1>2. Domains' /\ Labels' /\ Sockets' /\ Handshake'
    BY <1>1, GameCalm, GameHandshake
  <1>3. Streams'
    BY <1>1 DEF Streams
  <1>4. /\ receiving' \in [Consoles -> Seq(Byte)] /\ receiving'[c] = << >>
        /\ \A d \in Consoles \ {c} : receiving'[d] = receiving[d]
    BY <1>1 DEF Packets
  <1>5. Packets' /\ Len(receiving'[c]) = 0
    <2>1. Len(receiving'[c]) = 0 /\ 0 < PacketSize
      BY <1>4, ConnectAssumption
    <2>2. \A d \in Consoles : Len(receiving'[d]) < PacketSize
      BY <1>4, <2>1 DEF Packets
    <2> QED BY <1>1, <1>4, <2>1, <2>2 DEF Packets
  <1>6. ~torn' => ~torn /\ receiving[c] = << >>
    BY <1>1, Zenon
  <1>7. ~torn' => receiving' = receiving
    BY <1>1, <1>6 DEF Packets
  <1>8. Assembled'
    BY <1>1, <1>6, <1>7 DEF Assembled
  <1>9. Resting'
    BY <1>1, <1>4, <1>5 DEF Resting
  <1>10. Conveyed'
    <2>1. \A d \in Consoles : Other(d) \in Consoles /\ Off(d)' = Off(d)
      BY <1>1, GameCalm DEF Other, Consoles
    <2>2. ~torn' => \A d \in Consoles : Carried(d) => Carried(d)'
      BY <1>1, <1>7, <2>1 DEF Carried, Taken
    <2> QED BY <1>1, <1>6, <2>2 DEF Conveyed
  <1> QED BY <1>2, <1>3, <1>5, <1>8, <1>9, <1>10

\* What a call of Mynet_recv does to the packet that is being received.
Takes(c, o, amt, so) ==
    /\ amt <= Len(stream[o]) /\ Len(receiving[c]) + amt <= PacketSize
    /\ so = receiving[c] \o SubSeq(stream[o], 1, amt)
    /\ receiving' = [receiving EXCEPT ![c] = IF Len(so) < PacketSize THEN so ELSE << >>]
    /\ received' = [received EXCEPT ![c] = IF Len(so) < PacketSize THEN @ ELSE Append(@, so)]
    /\ UNCHANGED sending

\* The packet that is being received is longer, or is handed on.
LEMMA TakePart ==
    ASSUME Streams, Packets, NEW c \in Consoles, NEW o \in Consoles,
           NEW amt \in Nat, amt > 0, NEW so, Takes(c, o, amt, so)
    PROVE  /\ Packets' /\ so \in Seq(Byte) /\ Len(so) = Len(receiving[c]) + amt
           /\ \A k \in 1 .. Len(receiving[c]) : so[k] = receiving[c][k]
           /\ \A k \in 1 .. amt : so[Len(receiving[c]) + k] = stream[o][k]
           /\ \A d \in Consoles \ {c} : receiving'[d] = receiving[d] /\ received'[d] = received[d]
           /\ Len(so) < PacketSize => receiving'[c] = so /\ received'[c] = received[c]
           /\ ~(Len(so) < PacketSize) =>
                 /\ Len(receiving'[c]) = 0 /\ Len(received'[c]) = Len(received[c]) + 1
                 /\ \A k \in 1 .. Len(received[c]) : received'[c][k] = received[c][k]
                 /\ received'[c][Len(received[c]) + 1] = so
  <1> USE DEF Takes
  <1> DEFINE t == SubSeq(stream[o], 1, amt)
  <1>1. stream[o] \in Seq(Byte) /\ receiving[c] \in Seq(Byte) /\ received[c] \in Seq(Seq(Byte))
    BY DEF Streams, Packets
  <1>2. t \in Seq(Byte) /\ Len(t) = amt /\ \A k \in 1 .. amt : t[k] = stream[o][k]
    BY <1>1, StartOfSeq
  <1> HIDE DEF t
  <1>3. /\ so \in Seq(Byte) /\ Len(so) = Len(receiving[c]) + Len(t)
        /\ \A k \in 1 .. Len(receiving[c]) + Len(t) : so[k] =
               IF k <= Len(receiving[c]) THEN receiving[c][k] ELSE t[k - Len(receiving[c])]
    <2>1. PICK v : v = receiving[c]
      OBVIOUS
    <2>2. so = v \o t /\ v \in Seq(Byte)
      BY <1>1, <2>1 DEF t
    <2>3. /\ v \o t \in Seq(Byte) /\ Len(v \o t) = Len(v) + Len(t)
          /\ \A k \in 1 .. Len(v) + Len(t) : (v \o t)[k] = IF k <= Len(v) THEN v[k] ELSE t[k - Len(v)]
      BY ONLY <1>2, <2>2, ConcatProperties
    <2> QED BY <2>1, <2>2, <2>3
  <1>4. PICK l \in Nat : l = Len(receiving[c])
    BY <1>1, LenProperties
  <1>5. /\ Len(so) = l + amt /\ \A k \in 1 .. l : so[k] = receiving[c][k]
        /\ \A k \in 1 .. amt : so[l + k] = stream[o][k]
    <2>1. \A k \in 1 .. l : so[k] = receiving[c][k]
      BY <1>2, <1>3, <1>4
    <2>2. ASSUME NEW k \in 1 .. amt PROVE so[l + k] = stream[o][k]
      <3>1. l + k \in 1 .. l + amt /\ ~(l + k <= l) /\ (l + k) - l = k
        BY <1>4
      <3>2. \A j \in 1 .. l + amt : so[j] = IF j <= l THEN receiving[c][j] ELSE t[j - l]
        BY <1>2, <1>3, <1>4
      <3>3. so[l + k] = t[(l + k) - l]
        BY <3>1, <3>2
      <3> QED BY <1>2, <3>1, <3>3
    <2> QED BY <1>2, <1>3, <1>4, <2>1, <2>2
  <1>6. \A d \in Consoles \ {c} : receiving'[d] = receiving[d] /\ received'[d] = received[d]
    BY DEF Packets
  <1>7. receiving'[c] = IF Len(so) < PacketSize THEN so ELSE << >>
    BY DEF Packets
  <1>8. received'[c] = IF Len(so) < PacketSize THEN received[c] ELSE Append(received[c], so)
    BY DEF Packets
  <1>9. /\ Append(received[c], so) \in Seq(Seq(Byte)) /\ Len(Append(received[c], so)) = Len(received[c]) + 1
        /\ \A k \in 1 .. Len(received[c]) : Append(received[c], so)[k] = received[c][k]
        /\ Append(received[c], so)[Len(received[c]) + 1] = so
    <2>1. PICK v : v = received[c]
      OBVIOUS
    <2>2. PICK S, w : S = Seq(Byte) /\ w = so
      OBVIOUS
    <2>3. v \in Seq(S) /\ w \in S
      BY <1>1, <1>3, <2>1, <2>2
    <2>4. /\ Append(v, w) \in Seq(S) /\ Len(Append(v, w)) = Len(v) + 1
          /\ \A k \in 1 .. Len(v) : Append(v, w)[k] = v[k]
          /\ Append(v, w)[Len(v) + 1] = w
      BY ONLY <2>3, AppendProperties
    <2> QED BY ONLY <2>1, <2>2, <2>4
  <1>10. << >> \in Seq(Byte) /\ Len(<< >>) = 0
    BY EmptySeq
  <1>11. Packets'
    <2>1. receiving' \in [Consoles -> Seq(Byte)]
      BY <1>3, <1>10 DEF Packets
    <2>2. received' \in [Consoles -> Seq(Seq(Byte))]
      BY <1>9 DEF Packets
    <2>3. Len(receiving'[c]) < PacketSize
      BY <1>7, <1>10, ConnectAssumption
    <2>4. \A d \in Consoles : Len(receiving'[d]) < PacketSize
      BY <1>6, <2>3 DEF Packets
    <2>5. sending' \in [Consoles -> [packet : Nat \ {0}, i : 0 .. PacketSize - 1]]
      BY DEF Packets
    <2> QED BY <2>1, <2>2, <2>4, <2>5 DEF Packets
  <1>12. Len(so) < PacketSize => receiving'[c] = so /\ received'[c] = received[c]
    BY <1>7, <1>8
  <1>13. ~(Len(so) < PacketSize) => Len(receiving'[c]) = 0 /\ received'[c] = Append(received[c], so)
    BY <1>7, <1>8, <1>10
  <1> QED BY <1>3, <1>4, <1>5, <1>6, <1>9, <1>11, <1>12, <1>13

\* A byte is a packet's number and an index.
LEMMA ByteParts ==
    ASSUME NEW b \in Byte
    PROVE  b = <<b[1], b[2]>> /\ b[1] \in Nat /\ b[2] \in Nat
  BY DEF Byte

\* The first byte on its way is the next one of the packet that is being received, and so on.
LEMMA NextBytes ==
    ASSUME ConnectInv, NEW c \in Consoles, NEW o \in Consoles, Other(o) = c, Answered(c), Carried(o),
           NEW k \in 1 .. Len(stream[o]), Len(receiving[c]) + k <= PacketSize
    PROVE  stream[o][k] = <<Len(received[c]) + 1, Len(receiving[c]) + k>>
  <1> USE DEF ConnectInv
  <1>1. stream[o][k] \in Byte
    BY ElementOfSeq DEF Streams
  <1>2. PICK x, y, R, l : x = stream[o][k][1] /\ y = stream[o][k][2] /\ R = Len(received[c]) /\ l = Len(receiving[c])
    OBVIOUS
  <1>3. stream[o][k] = <<x, y>> /\ x \in Nat /\ y \in Nat
    BY <1>1, <1>2, ByteParts
  <1>4. R \in Nat /\ l \in Nat /\ l + k <= PacketSize /\ PacketSize \in Nat \ {0}
    BY <1>2, Counts, ConnectAssumption
  <1>5. Len(stream[o]) \in Nat
    BY LenProperties DEF Streams
  <1>6. k \in Nat /\ k > 0
    BY <1>5
  <1>7. Off(c) = 0 /\ k > Off(c)
    BY <1>6 DEF Off
  <1>8. x > 0 /\ y \in 1 .. PacketSize /\ (x - 1) * PacketSize + y = Taken(c) + k - Off(c)
    BY <1>2, <1>7 DEF Carried
  <1>9. Taken(c) = R * PacketSize + l
    BY <1>2 DEF Taken
  <1>10. (x - 1) * PacketSize + y = R * PacketSize + (l + k)
    <2>1. PICK a : a = R * PacketSize
      OBVIOUS
    <2>2. a \in Nat
      BY <1>4, <2>1, NatTimes
    <2>3. a + l + k - 0 = a + (l + k)
      BY <1>4, <1>6, <2>2
    <2> QED BY <1>7, <1>8, <1>9, <2>1, <2>3
  <1>11. x - 1 \in Int /\ R \in Int /\ l + k \in 1 .. PacketSize
    BY <1>3, <1>4, <1>6
  <1>12. x - 1 = R /\ y = l + k
    <2>1. PICK a, z : a = x - 1 /\ z = l + k
      OBVIOUS
    <2>2. a \in Int /\ R \in Int /\ y \in 1 .. PacketSize /\ z \in 1 .. PacketSize /\ PacketSize \in Nat \ {0}
      BY <1>4, <1>8, <1>11, <2>1
    <2>3. a * PacketSize + y = R * PacketSize + z
      BY <1>10, <2>1
    <2>4. a = R /\ y = z
      BY <2>2, <2>3, PlaceUnique
    <2> QED BY <2>1, <2>4
  <1>13. x = R + 1
    BY <1>3, <1>4, <1>12
  <1> QED BY <1>2, <1>3, <1>12, <1>13

\* A part of a packet is received, and a whole packet is handed on.
LEMMA RecvPartKeeps ==
    ASSUME ConnectInv, NEW c \in Consoles, RecvPart(c)
    PROVE  ConnectInv'
  <1> USE DEF ConnectInv
  <1>0. PICK o : o = Other(c) /\ Other(o) = c /\ o \in Consoles /\ Consoles = {c, o} /\ o # c
    BY DEF Other, Consoles
  <1>1. /\ pc[c] = "game" /\ stream[o] # << >>
        /\ UNCHANGED <<pc, net_ip_top_fd, open, sock, whatigot, given, connection>>
        /\ UNCHANGED <<sending, failures, torn>>
    BY <1>0 DEF RecvPart
  <1>2. PICK amt, so : /\ amt \in 1 .. PacketSize - Len(receiving[c]) /\ amt <= Len(stream[o])
                       /\ so = receiving[c] \o SubSeq(stream[o], 1, amt)
                       /\ stream' = [stream EXCEPT ![o] = SubSeq(@, amt + 1, Len(@))]
                       /\ receiving' = [receiving EXCEPT ![c] = IF Len(so) < PacketSize THEN so ELSE << >>]
                       /\ received' = [received EXCEPT ![c] = IF Len(so) < PacketSize THEN @ ELSE Append(@, so)]
    BY <1>0 DEF RecvPart
  <1>3. /\ Domains' /\ Labels' /\ Sockets'
        /\ \A d \in Consoles : (Greeted(d)' <=> Greeted(d)) /\ (Answered(d)' <=> Answered(d))
        /\ \A d \in Consoles : Off(d)' = Off(d) /\ Off(d) \in Nat
        /\ Answered("guest")' => pc'["host"] \in {"recv", "start", "game", "error"} /\ whatigot'["guest"] = 1
        /\ Answered("host")' => pc'["guest"] \in {"start", "game"}
    BY <1>1, GameCalm
  <1>4. PICK R, l, L : R = Len(received[c]) /\ l = Len(receiving[c]) /\ L = Len(stream[o])
    OBVIOUS
  <1>5. R \in Nat /\ l \in Nat /\ L \in Nat /\ l < PacketSize /\ PacketSize \in Nat \ {0} /\ IntSize \in Nat \ {0}
    <2>1. L \in Nat
      BY <1>0, <1>4, LenProperties DEF Streams
    <2> QED BY <1>4, <2>1, Counts, ConnectAssumption
  <1>6. amt \in Nat /\ amt > 0 /\ l + amt <= PacketSize /\ amt <= L
    BY <1>2, <1>4, <1>5
  <1>7. /\ Streams' /\ stream'[c] = stream[c] /\ Len(stream'[o]) = L - amt
        /\ \A j \in 1 .. L - amt : stream'[o][j] = stream[o][amt + j]
    <2>1. /\ Streams' /\ \A d \in Consoles \ {o} : stream'[d] = stream[d]
          /\ Len(stream'[o]) = Len(stream[o]) - amt
          /\ \A j \in 1 .. Len(stream[o]) - amt : stream'[o][j] = stream[o][amt + j]
      BY <1>0, <1>2, <1>6, Pull
    <2> QED BY <1>0, <1>4, <2>1
  <1>8. /\ Packets' /\ so \in Seq(Byte) /\ Len(so) = l + amt
        /\ \A k \in 1 .. l : so[k] = receiving[c][k]
        /\ \A k \in 1 .. amt : so[l + k] = stream[o][k]
        /\ receiving'[o] = receiving[o] /\ received'[o] = received[o]
        /\ Len(so) < PacketSize => receiving'[c] = so /\ received'[c] = received[c]
        /\ ~(Len(so) < PacketSize) =>
              /\ Len(receiving'[c]) = 0 /\ Len(received'[c]) = R + 1
              /\ \A k \in 1 .. R : received'[c][k] = received[c][k]
              /\ received'[c][R + 1] = so
    <2>1. Len(receiving[c]) + amt <= PacketSize /\ UNCHANGED sending /\ amt <= Len(stream[o])
      BY <1>1, <1>4, <1>6
    <2>2. /\ Packets' /\ so \in Seq(Byte) /\ Len(so) = Len(receiving[c]) + amt
          /\ \A k \in 1 .. Len(receiving[c]) : so[k] = receiving[c][k]
          /\ \A k \in 1 .. amt : so[Len(receiving[c]) + k] = stream[o][k]
          /\ \A d \in Consoles \ {c} : receiving'[d] = receiving[d] /\ received'[d] = received[d]
          /\ Len(so) < PacketSize => receiving'[c] = so /\ received'[c] = received[c]
          /\ ~(Len(so) < PacketSize) =>
                /\ Len(receiving'[c]) = 0 /\ Len(received'[c]) = Len(received[c]) + 1
                /\ \A k \in 1 .. Len(received[c]) : received'[c][k] = received[c][k]
                /\ received'[c][Len(received[c]) + 1] = so
      <3>1. Takes(c, o, amt, so)
        BY <1>2, <2>1 DEF Takes
      <3>2. Streams /\ Packets /\ amt > 0
        BY <1>6
      <3> HIDE DEF ConnectInv
      <3> QED BY <1>0, <1>6, <3>1, <3>2, TakePart
    <2> QED BY <1>0, <1>4, <2>2
  \* Only a console that is in the game has sent what is there for one that is.
  <1>9. Answered(c) /\ pc[o] = "game" /\ connection # "broken"
    <2>1. Answered(c)
      BY <1>1 DEF Answered
    <2>2. Len(stream[o]) # 0
      BY <1>4, <1>5, <1>6
    <2> QED BY <1>0, <2>1, <2>2 DEF Handshake
  <1>10. Greeted(c) /\ Greeted(o) /\ Answered(o)
    BY <1>1, <1>9 DEF Greeted, Answered
  <1>11. Resting'
    BY <1>0, <1>1, <1>9 DEF Resting
  <1>12. Handshake'
    <2>1. \A d \in Consoles : Greeted(d)' /\ Answered(d)' /\ pc'[d] = "game" /\ Other(d) \in Consoles
      BY <1>0, <1>1, <1>3, <1>9, <1>10
    <2>2. Answered("host")' /\ connection' # "broken"
      BY <1>1, <1>9, <2>1 DEF Consoles
    <2> QED BY <1>3, <2>1, <2>2 DEF Handshake
  <1>14. ASSUME ~torn PROVE Carried(o) /\ Carried(c)
    BY <1>0, <1>1, <1>9, <1>14 DEF Conveyed
  <1>15. Taken(c)' = Taken(c) + amt /\ Taken(c) \in Nat
    <2>1. PICK a, b : a = R * PacketSize /\ b = (R + 1) * PacketSize
      OBVIOUS
    <2>2. a \in Nat /\ b = a + PacketSize
      BY <1>5, <2>1, NatTimes
    <2>3. Taken(c) = a + l
      BY <1>4, <2>1 DEF Taken
    <2>4. CASE Len(so) < PacketSize
      <3>1. Taken(c)' = a + (l + amt)
        BY <1>4, <1>8, <2>1, <2>4 DEF Taken
      <3> QED BY <1>5, <1>6, <2>2, <2>3, <3>1
    <2>5. CASE ~(Len(so) < PacketSize)
      <3>1. l + amt = PacketSize
        BY <1>5, <1>6, <1>8, <2>5
      <3>2. Taken(c)' = b + 0
        BY <1>8, <2>1, <2>5 DEF Taken
      <3> QED BY <1>5, <1>6, <2>2, <2>3, <3>1, <3>2
    <2> QED BY <2>4, <2>5
  <1>16. Conveyed'
    <2>1. Carried(c)' <=> Carried(c)
      BY <1>0, <1>1, <1>3, <1>7, <1>8 DEF Carried, Taken
    <2>2. ASSUME ~torn PROVE Carried(o)'
      <3> DEFINE A == (sending[o].packet - 1) * PacketSize  i == sending[o].i  T == Taken(c)
      <3>1. Off(c) = 0 /\ Off(c)' = 0
        BY <1>3, <1>9 DEF Off
      <3>2. A + i + 0 = T + L /\ A \in Nat /\ i \in Nat /\ T \in Nat
        <4>1. A + i + Off(c) = T + L
          BY <1>0, <1>4, <1>14, <2>2 DEF Carried
        <4>2. A \in Nat /\ i \in Nat /\ T \in Nat
          BY <1>0, <1>5, Counts
        <4> QED BY <3>1, <4>1, <4>2
      <3>3. \A j \in 1 .. L : j > 0 =>
              /\ stream[o][j][1] > 0 /\ stream[o][j][2] \in 1 .. PacketSize
              /\ (stream[o][j][1] - 1) * PacketSize + stream[o][j][2] = T + j - 0
        BY <1>0, <1>4, <1>14, <2>2, <3>1 DEF Carried
      <3>4. sending'[o] = sending[o] /\ Taken(c)' = T + amt
        BY <1>1, <1>15
      <3> HIDE DEF A, i, T
      <3>5. A + i + 0 = T + amt + (L - amt)
        BY <1>5, <1>6, <3>2
      <3>6. (sending'[o].packet - 1) * PacketSize + sending'[o].i + Off(c)' = Taken(c)' + Len(stream'[o])
        BY <1>7, <3>1, <3>4, <3>5 DEF A, i
      <3>7. ASSUME NEW j \in 1 .. Len(stream'[o])
            PROVE  /\ stream'[o][j][1] > 0 /\ stream'[o][j][2] \in 1 .. PacketSize
                   /\ (stream'[o][j][1] - 1) * PacketSize + stream'[o][j][2] = Taken(c)' + j - Off(c)'
        <4>1. amt + j \in 1 .. L /\ amt + j > 0 /\ T + (amt + j) - 0 = T + amt + j - 0 /\ j \in 1 .. L - amt
          BY <1>5, <1>6, <1>7, <3>2
        <4>2. stream'[o][j] = stream[o][amt + j]
          BY <1>7, <4>1
        <4> QED BY <3>1, <3>3, <3>4, <4>1, <4>2
      <3> QED BY <1>0, <3>6, <3>7 DEF Carried
    <2> QED BY <1>0, <1>1, <1>14, <2>1, <2>2 DEF Conveyed
  <1>17. Assembled'
    <2> SUFFICES ASSUME ~torn
                 PROVE  \A d \in Consoles :
                          /\ \A k \in 1 .. Len(received'[d]) : received'[d][k] = PacketBytes(k)
                          /\ \A k \in 1 .. Len(receiving'[d]) : receiving'[d][k] = <<Len(received'[d]) + 1, k>>
      BY <1>1 DEF Assembled
    <2>1. /\ \A k \in 1 .. Len(received[o]) : received[o][k] = PacketBytes(k)
          /\ \A k \in 1 .. Len(receiving[o]) : receiving[o][k] = <<Len(received[o]) + 1, k>>
          /\ \A k \in 1 .. R : received[c][k] = PacketBytes(k)
          /\ \A k \in 1 .. l : receiving[c][k] = <<R + 1, k>>
      BY <1>0, <1>4 DEF Assembled
    <2>2. ASSUME NEW k \in 1 .. l + amt PROVE so[k] = <<R + 1, k>>
      <3>1. CASE k <= l
        <4>1. k \in 1 .. l
          BY <1>5, <3>1
        <4> QED BY <1>8, <2>1, <4>1
      <3>2. CASE ~(k <= l)
        <4>1. PICK m : m = k - l
          OBVIOUS
        <4>2. m \in 1 .. amt /\ m \in 1 .. L /\ l + m = k /\ l + m <= PacketSize
          BY <1>5, <1>6, <3>2, <4>1
        <4>3. so[k] = stream[o][m]
          BY <1>8, <4>2
        <4>4. stream[o][m] = <<R + 1, l + m>>
          <5>1. m \in 1 .. Len(stream[o]) /\ Len(receiving[c]) + m <= PacketSize
            BY <1>4, <4>2
          <5>2. stream[o][m] = <<Len(received[c]) + 1, Len(receiving[c]) + m>>
            BY <1>0, <1>9, <1>14, <5>1, NextBytes
          <5> QED BY <1>4, <5>2
        <4> QED BY <4>2, <4>3, <4>4
      <3> QED BY <3>1, <3>2
    <2>3. CASE Len(so) < PacketSize
      <3>1. receiving'[c] = so /\ received'[c] = received[c] /\ Len(so) = l + amt
        BY <1>8, <2>3
      <3>2. \A k \in 1 .. Len(receiving'[c]) : receiving'[c][k] = <<Len(received'[c]) + 1, k>>
        BY <1>4, <2>2, <3>1
      <3>3. \A k \in 1 .. Len(received'[c]) : received'[c][k] = PacketBytes(k)
        BY <1>4, <2>1, <3>1
      <3>4. receiving'[o] = receiving[o] /\ received'[o] = received[o]
        BY <1>8
      <3> QED BY <1>0, <2>1, <3>2, <3>3, <3>4
    <2>4. CASE ~(Len(so) < PacketSize)
      <3>1. Len(so) = PacketSize
        BY <1>5, <1>6, <1>8, <2>4
      <3>2. so = PacketBytes(R + 1)
        <4>1. PICK q : q = PacketBytes(R + 1)
          OBVIOUS
        <4>2. R + 1 \in Nat
          BY <1>5
        <4>3. q \in Seq(Byte) /\ Len(q) = PacketSize /\ \A k \in 1 .. PacketSize : q[k] = <<R + 1, k>>
          BY <4>1, <4>2, PacketBytesSeq
        <4>4. so \in Seq(Byte) /\ Len(so) = Len(q) /\ \A k \in 1 .. Len(so) : so[k] = q[k]
          BY <1>8, <2>2, <3>1, <4>3
        <4>5. so = q
          BY <4>3, <4>4, SeqEqual
        <4> QED BY <4>1, <4>5
      <3>3. \A k \in 1 .. R + 1 : received'[c][k] = PacketBytes(k)
        <4> TAKE k \in 1 .. R + 1
        <4>1. k \in 1 .. R \/ k = R + 1
          BY <1>5
        <4> QED BY <1>8, <2>1, <2>4, <3>2, <4>1
      <3>4. \A k \in 1 .. Len(receiving'[c]) : FALSE
        BY <1>8, <2>4
      <3> QED BY <1>0, <1>8, <2>1, <2>4, <3>3, <3>4
    <2> QED BY <2>3, <2>4
  <1> QED BY <1>3, <1>7, <1>8, <1>11, <1>12, <1>16, <1>17

-----------------------------------------------------------------------------
(* The theorems. *)

\* The invariant holds at the start.
LEMMA ConnectInvInit ==
    ConnectInit => ConnectInv
  <1> SUFFICES ASSUME ConnectInit PROVE ConnectInv
    OBVIOUS
  <1> USE DEF ConnectInit
  <1>1. Domains /\ Labels
    BY DEF Domains, Labels, Consoles
  <1>2. \A c \in Consoles : pc[c] = "init" /\ ~Greeted(c) /\ ~Answered(c) /\ Other(c) \in Consoles
    BY DEF Greeted, Answered, Other, Consoles
  <1>3. \A c \in Consoles : Len(stream[c]) = 0 /\ Len(receiving[c]) = 0 /\ Len(received[c]) = 0
    OBVIOUS
  <1>4. Streams
    BY DEF Streams
  <1>5. Packets
    <2>1. [packet |-> 1, i |-> 0] \in [packet : Nat \ {0}, i : 0 .. PacketSize - 1] /\ 0 < PacketSize
      BY ConnectAssumption
    <2>2. receiving \in [Consoles -> Seq(Byte)] /\ received \in [Consoles -> Seq(Seq(Byte))]
      OBVIOUS
    <2>3. sending \in [Consoles -> [packet : Nat \ {0}, i : 0 .. PacketSize - 1]]
      BY <2>1
    <2> QED BY <1>3, <2>1, <2>2, <2>3 DEF Packets
  <1>6. Sockets
    BY <1>2 DEF Sockets, Consoles, NoSocket
  <1>7. Handshake
    <2>1. \A c \in Consoles : 0 <= IntSize /\ 0 < IntSize /\ \A j \in 1 .. Len(stream[c]) : FALSE
      BY <1>3, ConnectAssumption
    <2> QED BY <1>2, <1>3, <2>1 DEF Handshake, Consoles
  <1>8. Resting
    BY <1>3 DEF Resting
  <1>9. Conveyed
    BY <1>2 DEF Conveyed
  <1>10. Assembled
    <2>1. \A c \in Consoles : (\A k \in 1 .. Len(received[c]) : FALSE) /\ (\A k \in 1 .. Len(receiving[c]) : FALSE)
      BY <1>3
    <2> QED BY <2>1 DEF Assembled
  <1> QED BY <1>1, <1>4, <1>5, <1>6, <1>7, <1>8, <1>9, <1>10 DEF ConnectInv

\* The invariant holds whatever the consoles and the network do.
THEOREM ConnectInvariant == ConnectSpec => []ConnectInv
  <1>1. ConnectInit => ConnectInv
    BY ConnectInvInit
  <1>2. ConnectInv /\ [ConnectNext]_connectVars => ConnectInv'
    <2> SUFFICES ASSUME ConnectInv, [ConnectNext]_connectVars PROVE ConnectInv'
      OBVIOUS
    <2>1. CASE UNCHANGED connectVars
      <3>1. UNCHANGED <<pc, net_ip_top_fd, open, sock, whatigot, given, connection, stream, sending,
                        receiving, received, failures, torn>>
        BY <2>1 DEF connectVars
      <3>2. \A c \in Consoles : (Greeted(c)' <=> Greeted(c)) /\ (Answered(c)' <=> Answered(c)) /\ Other(c) \in Consoles
        BY <3>1 DEF Greeted, Answered, Other, Consoles
      <3>3. Domains' /\ Labels' /\ Sockets' /\ Handshake'
        BY <3>1, GameCalm, GameHandshake
      <3>4. Streams' /\ Packets' /\ Resting' /\ Assembled'
        BY <3>1 DEF ConnectInv, Streams, Packets, Resting, Assembled
      <3>5. \A c \in Consoles : Carried(c)' <=> Carried(c)
        BY <3>1, <3>2 DEF Carried, Taken, Off
      <3>6. Conveyed'
        BY <3>1, <3>5 DEF ConnectInv, Conveyed
      <3> QED BY <3>3, <3>4, <3>6 DEF ConnectInv
    <2>2. CASE \E c \in Consoles :
                 \/ Mynet_init(c) \/ Mynet_socket(c) \/ SendLetsgo(c) \/ RecvWhatigot(c) \/ StartGame(c)
                 \/ SendPart(c) \/ SendFails(c) \/ RecvPart(c) \/ RecvFails(c)
      BY <2>2, InitKeeps, SocketKeeps, SendLetsgoKeeps, RecvWhatigotKeeps, StartGameKeeps,
         SendPartKeeps, SendFailsKeeps, RecvPartKeeps, RecvFailsKeeps
    <2>3. CASE Mynet_bind \/ Mynet_listen \/ Mynet_accept \/ Mynet_connect \/ Break
      BY <2>3, BindKeeps, ListenKeeps, AcceptKeeps, ConnectKeeps, BreakKeeps
    <2> QED BY <2>1, <2>2, <2>3 DEF ConnectNext
  <1> QED BY <1>1, <1>2, PTL DEF ConnectSpec

(***************************************************************************)
(* A console starts the game only with its own end of the connection and   *)
(* an open device, after the greeting of both, although ConnectHOST and    *)
(* ConnectGUEST do not look at every error; no device stays open when the  *)
(* network could not be started.                                           *)
(***************************************************************************)
THEOREM ConnectStartedConnected == ConnectSpec => []StartedConnected
  <1>1. ConnectInv => StartedConnected
    <2> SUFFICES ASSUME ConnectInv PROVE StartedConnected
      OBVIOUS
    <2>1. \A c \in Consoles : net_ip_top_fd[c] < 0 => open[c] = {}
      BY DEF ConnectInv, Sockets
    <2>2. ASSUME NEW c \in Consoles, pc[c] = "game"
          PROVE  /\ given[c].communicationSock = (IF c = "host" THEN "accepted" ELSE "connected")
                 /\ given[c].net_ip_top_fd >= 0 /\ open[c] = {"top"}
                 /\ given[c].host = c
      <3>1. sock[c] = IF c = "host" THEN "accepted" ELSE "connected"
        BY <2>2 DEF ConnectInv, Sockets, Greeted, Consoles
      <3>2. given[c] = [communicationSock |-> sock[c], net_ip_top_fd |-> 0, host |-> c] /\ open[c] = {"top"}
        BY <2>2 DEF ConnectInv, Sockets
      <3> QED BY <3>1, <3>2
    <2>3. /\ pc["host"] = "game" => pc["guest"] \in {"start", "game"}
          /\ pc["guest"] \in {"start", "game"} => pc["host"] \in {"recv", "start", "game", "error"}
      BY DEF ConnectInv, Handshake, Answered
    <2> QED BY <2>1, <2>2, <2>3 DEF StartedConnected
  <1> QED BY <1>1, ConnectInvariant, PTL

(***************************************************************************)
(* Packets arrive whole, in order and each once, however reliable_send and *)
(* reliable_recv have to cut them up, unless a call failed in the middle   *)
(* of a packet.                                                            *)
(***************************************************************************)
THEOREM ConnectFramed == ConnectSpec => []Framed
  <1>1. ConnectInv => Framed
    <2> SUFFICES ASSUME ConnectInv, ~torn, NEW c \in Consoles PROVE \A k \in DOMAIN received[c] : received[c][k] = PacketBytes(k)
      BY DEF Framed
    <2>1. DOMAIN received[c] = 1 .. Len(received[c])
      BY LenProperties DEF ConnectInv, Packets
    <2> QED BY <2>1 DEF ConnectInv, Assembled
  <1> QED BY <1>1, ConnectInvariant, PTL

-----------------------------------------------------------------------------
(* Induction. *)

\* A set of natural numbers that is not empty has a least member.
LEMMA LeastOf ==
    ASSUME NEW T, T \subseteq Nat, T # {}
    PROVE  \E x \in T : \A y \in T : x <= y
  <1> DEFINE Less == OpToRel(<, Nat)
  <1>1. IsWellFoundedOn(Less, Nat)
    BY NatLessThanWellFounded
  <1>2. \A x, y \in Nat : y < x => <<y, x>> \in Less
    BY DEF OpToRel
  <1> HIDE DEF Less
  <1>3. PICK x \in T : \A y \in T : ~(<<y, x>> \in Less)
    BY <1>1, WFMin
  <1>4. ASSUME NEW y \in T PROVE x <= y
    <2>1. x \in Nat /\ y \in Nat
      BY <1>3
    <2>2. ~(y < x)
      BY <1>2, <1>3, <2>1
    <2> QED BY <2>1, <2>2
  <1> QED BY <1>3, <1>4

\* A set with 0 and with the successor of each of its numbers has all numbers.
LEMMA Induction ==
    ASSUME NEW T, 0 \in T, \A n \in Nat : n \in T => n + 1 \in T
    PROVE  Nat \subseteq T
  <1> DEFINE U == {n \in Nat : n \notin T}
  <1> SUFFICES ASSUME U # {} PROVE FALSE
    OBVIOUS
  <1> HIDE DEF U
  <1>1. U \subseteq Nat
    BY DEF U
  <1>2. PICK x \in U : \A y \in U : x <= y
    BY <1>1, LeastOf
  <1>3. x \in Nat /\ x \notin T /\ x # 0
    BY <1>2 DEF U
  <1>4. x - 1 \in Nat /\ (x - 1) + 1 = x /\ ~(x <= x - 1)
    BY <1>3
  <1>5. x - 1 \in T
    BY <1>2, <1>4 DEF U
  <1> QED BY <1>3, <1>4, <1>5

-----------------------------------------------------------------------------
(* What a text converts to. *)

\* The blank is another character than those with a meaning.
LEMMA BlankFacts == Blank \notin {"#", "[", "]", "=", ".", "+", "-", "0", "b", "x", "h", "p", "end"}
  BY Zenon DEF Blank

\* The digits are characters other than the blank, and each has its value.
LEMMA DigitFacts ==
    /\ \A r \in {2, 8, 10, 16} : ~IsDigit(Blank, r)
    /\ \A c, r : r \in {2, 8, 10, 16} /\ IsDigit(c, r) => DigitOf(c) \in 0 .. 15
  <1>1. \A i \in 0 .. 15 : Digits[i + 1] # Blank
    <2> TAKE i \in 0 .. 15
    <2>0. /\ Digits[1] # Blank /\ Digits[2] # Blank /\ Digits[3] # Blank /\ Digits[4] # Blank
          /\ Digits[5] # Blank /\ Digits[6] # Blank /\ Digits[7] # Blank /\ Digits[8] # Blank
          /\ Digits[9] # Blank /\ Digits[10] # Blank /\ Digits[11] # Blank /\ Digits[12] # Blank
          /\ Digits[13] # Blank /\ Digits[14] # Blank /\ Digits[15] # Blank /\ Digits[16] # Blank
      BY Zenon DEF Digits, Blank
    <2>1. PICK j : j = i + 1
      OBVIOUS
    <2>2. \/ j = 1 \/ j = 2 \/ j = 3 \/ j = 4 \/ j = 5 \/ j = 6 \/ j = 7 \/ j = 8
          \/ j = 9 \/ j = 10 \/ j = 11 \/ j = 12 \/ j = 13 \/ j = 14 \/ j = 15 \/ j = 16
      BY <2>1
    <2>3. Digits[j] # Blank
      BY <2>0, <2>2, Zenon
    <2> QED BY <2>1, <2>3
  <1>2. \A r \in {2, 8, 10, 16} : \A i \in 0 .. r - 1 : i \in 0 .. 15
    OBVIOUS
  <1>3. \A c, r : r \in {2, 8, 10, 16} /\ IsDigit(c, r) => \E i \in 0 .. 15 : Digits[i + 1] = c
    BY <1>2 DEF IsDigit
  <1>4. \A c : (\E i \in 0 .. 15 : Digits[i + 1] = c) => DigitOf(c) \in 0 .. 15
    BY DEF DigitOf
  <1> QED BY <1>1, <1>3, <1>4

\* An int is one of the numbers that Wrap gives.
LEMMA WrapIsInt == \A v \in Int : Wrap(v) \in Int
  <1> TAKE v \in Int
  <1>1. 2 * IntHalf \in Nat \ {0} /\ v + IntHalf \in Int /\ IntHalf \in Int
    BY SettingsAssumption
  <1>2. \A a \in Int, b \in Nat \ {0} : a % b \in Int
    OBVIOUS
  <1>3. (v + IntHalf) % (2 * IntHalf) \in Int
    BY <1>1, <1>2
  <1> QED BY <1>1, <1>3 DEF Wrap

\* f is the values of the first digits of s, up to n of them.
IsNumbers(f, s, radix, n) ==
    f = [i \in 0 .. n |-> IF i = 0 THEN 0 ELSE Wrap(f[i - 1] * radix + DigitOf(s[i]))]

\* The function of the numbers that strtoul has read after each digit exists, and has integers.
LEMMA NumbersExist ==
    ASSUME NEW s, NEW radix \in {2, 8, 10, 16}, NEW k \in Nat,
           \A i \in 1 .. k : DigitOf(s[i]) \in 0 .. 15
    PROVE  \A n \in Nat : n <= k => \E f : IsNumbers(f, s, radix, n) /\ f[n] \in Int
  <1> DEFINE T == {n \in Nat : n <= k => \E f : IsNumbers(f, s, radix, n) /\ f[n] \in Int}
  <1>1. 0 \in T
    <2>1. PICK f : f = [i \in 0 .. 0 |-> 0]
      OBVIOUS
    <2>2. IsNumbers(f, s, radix, 0) /\ f[0] \in Int
      BY <2>1 DEF IsNumbers
    <2> QED BY <2>2
  <1>2. ASSUME NEW n \in Nat, n \in T PROVE n + 1 \in T
    <2> SUFFICES ASSUME n + 1 <= k PROVE \E t : IsNumbers(t, s, radix, n + 1) /\ t[n + 1] \in Int
      OBVIOUS
    <2>1. PICK f : f = [i \in 0 .. n |-> IF i = 0 THEN 0 ELSE Wrap(f[i - 1] * radix + DigitOf(s[i]))] /\ f[n] \in Int
      BY <1>2 DEF IsNumbers
    <2>2. PICK v : v = Wrap(f[n] * radix + DigitOf(s[n + 1]))
      OBVIOUS
    <2>3. v \in Int
      <3>1. DigitOf(s[n + 1]) \in 0 .. 15
        OBVIOUS
      <3>2. f[n] * radix \in Int
        BY <2>1
      <3>3. f[n] * radix + DigitOf(s[n + 1]) \in Int
        BY <3>1, <3>2
      <3> QED BY <2>2, <3>3, WrapIsInt
    <2>4. PICK t : t = [i \in 0 .. n + 1 |-> IF i = n + 1 THEN v ELSE f[i]]
      OBVIOUS
    <2>5. \A i \in 0 .. n + 1 : t[i] = IF i = 0 THEN 0 ELSE Wrap(t[i - 1] * radix + DigitOf(s[i]))
      <3> TAKE i \in 0 .. n + 1
      <3>1. CASE i = n + 1
        <4>1. t[i] = v /\ i # 0 /\ i - 1 = n /\ n \in 0 .. n + 1 /\ n # n + 1
          BY <2>4, <3>1
        <4>2. t[i - 1] = f[n]
          BY <2>4, <4>1
        <4> QED BY <2>2, <3>1, <4>1, <4>2
      <3>2. CASE i # n + 1
        <4>1. i \in 0 .. n /\ (i # 0 => i - 1 \in 0 .. n /\ i - 1 \in 0 .. n + 1 /\ i - 1 # n + 1)
          BY <3>2
        <4>2. t[i] = f[i] /\ f[i] = IF i = 0 THEN 0 ELSE Wrap(f[i - 1] * radix + DigitOf(s[i]))
          BY <2>1, <2>4, <3>2, <4>1
        <4> QED BY <2>4, <4>1, <4>2
      <3> QED BY <3>1, <3>2
    <2>6. t = [i \in 0 .. n + 1 |-> t[i]]
      BY <2>4
    <2>7. IsNumbers(t, s, radix, n + 1)
      BY <2>5, <2>6 DEF IsNumbers
    <2> QED BY <2>3, <2>4, <2>7
  <1> HIDE DEF T
  <1>3. Nat \subseteq T
    BY <1>1, <1>2, Induction
  <1> QED BY <1>3 DEF T

\* Two runs over the same digits are the same, so a number is an integer.
LEMMA NumberIsInt ==
    ASSUME NEW radix \in {2, 8, 10, 16}, NEW s, Len(s) \in Nat,
           \A i \in 1 .. Len(s) : IsDigit(s[i], radix)
    PROVE  Number(s, radix) \in Int
  <1>0. \A i \in 1 .. Len(s) : DigitOf(s[i]) \in 0 .. 15
    BY DigitFacts
  <1>1. PICK f : IsNumbers(f, s, radix, Len(s)) /\ f[Len(s)] \in Int
    <2>1. PICK k \in Nat : k = Len(s)
      OBVIOUS
    <2>2. \A i \in 1 .. k : DigitOf(s[i]) \in 0 .. 15
      BY <1>0, <2>1
    <2>3. \A n \in Nat : n <= k => \E f : IsNumbers(f, s, radix, n) /\ f[n] \in Int
      BY <2>2, NumbersExist
    <2>4. \E f : IsNumbers(f, s, radix, k) /\ f[k] \in Int
      BY <2>3
    <2> QED BY <2>1, <2>4
  <1> DEFINE c == CHOOSE g : IsNumbers(g, s, radix, Len(s))
  <1>2. IsNumbers(c, s, radix, Len(s))
    BY <1>1
  <1>3. Number(s, radix) = c[Len(s)]
    BY DEF Number, IsNumbers
  <1> HIDE DEF c
  <1> DEFINE T == {n \in Nat : n <= Len(s) => c[n] = f[n]}
  <1>4. /\ \A i \in 0 .. Len(s) : c[i] = IF i = 0 THEN 0 ELSE Wrap(c[i - 1] * radix + DigitOf(s[i]))
        /\ \A i \in 0 .. Len(s) : f[i] = IF i = 0 THEN 0 ELSE Wrap(f[i - 1] * radix + DigitOf(s[i]))
    BY <1>1, <1>2 DEF IsNumbers
  <1>5. 0 \in T
    BY <1>4
  <1>6. ASSUME NEW n \in Nat, n \in T PROVE n + 1 \in T
    <2> SUFFICES ASSUME n + 1 <= Len(s) PROVE c[n + 1] = f[n + 1]
      OBVIOUS
    <2>1. c[n] = f[n]
      BY <1>6
    <2>2. n + 1 \in 0 .. Len(s) /\ n + 1 # 0 /\ (n + 1) - 1 = n
      OBVIOUS
    <2>3. c[n + 1] = Wrap(c[n] * radix + DigitOf(s[n + 1]))
      BY <1>4, <2>2
    <2>4. f[n + 1] = Wrap(f[n] * radix + DigitOf(s[n + 1]))
      BY <1>4, <2>2
    <2> QED BY <2>1, <2>3, <2>4
  <1> HIDE DEF T
  <1>7. Nat \subseteq T
    BY <1>5, <1>6, Induction
  <1>8. c[Len(s)] = f[Len(s)]
    BY <1>7 DEF T
  <1> QED BY <1>1, <1>3, <1>8

\* f is what is known of an address after the first characters of s, up to n of them.
IsRead(f, s, n) == f = [i \in 0 .. n |-> IF i = 0 THEN NoAddress ELSE OctetStep(f[i - 1], s[i])]

\* The states of reading an address exist for every length of a text.
LEMMA ReadsExist ==
    ASSUME NEW s
    PROVE  \A n \in Nat : \E f : IsRead(f, s, n)
  <1> DEFINE T == {n \in Nat : \E f : IsRead(f, s, n)}
  <1>1. 0 \in T
    <2>1. IsRead([i \in 0 .. 0 |-> NoAddress], s, 0)
      BY DEF IsRead
    <2> QED BY <2>1
  <1>2. ASSUME NEW n \in Nat, n \in T PROVE n + 1 \in T
    <2>1. PICK f : f = [i \in 0 .. n |-> IF i = 0 THEN NoAddress ELSE OctetStep(f[i - 1], s[i])]
      BY <1>2 DEF IsRead
    <2>2. PICK t : t = [i \in 0 .. n + 1 |-> IF i = n + 1 THEN OctetStep(f[n], s[n + 1]) ELSE f[i]]
      OBVIOUS
    <2>3. \A i \in 0 .. n + 1 : t[i] = IF i = 0 THEN NoAddress ELSE OctetStep(t[i - 1], s[i])
      <3> TAKE i \in 0 .. n + 1
      <3>1. CASE i = n + 1
        <4>1. i # 0 /\ i - 1 = n /\ n \in 0 .. n + 1 /\ n # n + 1
          BY <3>1
        <4>2. t[i - 1] = f[n]
          BY <2>2, <4>1
        <4> QED BY <2>2, <3>1, <4>1, <4>2
      <3>2. CASE i # n + 1
        <4>1. i \in 0 .. n /\ (i # 0 => i - 1 \in 0 .. n /\ i - 1 \in 0 .. n + 1 /\ i - 1 # n + 1)
          BY <3>2
        <4>2. t[i] = f[i] /\ f[i] = IF i = 0 THEN NoAddress ELSE OctetStep(f[i - 1], s[i])
          BY <2>1, <2>2, <3>2, <4>1
        <4> QED BY <2>2, <4>1, <4>2
      <3> QED BY <3>1, <3>2
    <2>4. t = [i \in 0 .. n + 1 |-> t[i]]
      BY <2>2
    <2>5. IsRead(t, s, n + 1)
      BY <2>3, <2>4 DEF IsRead
    <2> QED BY <2>5
  <1> HIDE DEF T
  <1>3. Nat \subseteq T
    BY <1>1, <1>2, Induction
  <1> QED BY <1>3 DEF T

\* What is known after n characters depends on these only.
LEMMA ReadsAgree ==
    ASSUME NEW s, NEW r, NEW n \in Nat, NEW m \in Nat, n <= m, \A i \in 1 .. n : s[i] = r[i],
           NEW f, IsRead(f, s, n), NEW t, IsRead(t, r, m)
    PROVE  \A i \in 0 .. n : f[i] = t[i]
  <1> DEFINE T == {i \in Nat : i <= n => f[i] = t[i]}
  <1>0. /\ \A i \in 0 .. n : f[i] = IF i = 0 THEN NoAddress ELSE OctetStep(f[i - 1], s[i])
        /\ \A i \in 0 .. m : t[i] = IF i = 0 THEN NoAddress ELSE OctetStep(t[i - 1], r[i])
    BY DEF IsRead
  <1>1. 0 \in T
    BY <1>0
  <1>2. ASSUME NEW i \in Nat, i \in T PROVE i + 1 \in T
    <2> SUFFICES ASSUME i + 1 <= n PROVE f[i + 1] = t[i + 1]
      OBVIOUS
    <2>1. i + 1 \in 0 .. n /\ i + 1 \in 0 .. m /\ i + 1 \in 1 .. n /\ (i + 1) - 1 = i /\ i + 1 # 0
      OBVIOUS
    <2>2. f[i] = t[i]
      BY <1>2
    <2>3. f[i + 1] = OctetStep(f[i], s[i + 1]) /\ t[i + 1] = OctetStep(t[i], r[i + 1])
      BY <1>0, <2>1
    <2> QED BY <2>1, <2>2, <2>3
  <1> HIDE DEF T
  <1>3. Nat \subseteq T
    BY <1>1, <1>2, Induction
  <1> QED BY <1>3 DEF T

\* The characters of an address are read one by one.
LEMMA OctetsStep ==
    ASSUME NEW s
    PROVE  /\ Octets(s, 0) = NoAddress
           /\ \A n \in Nat : Octets(s, n + 1) = OctetStep(Octets(s, n), s[n + 1])
           /\ \A r : \A n \in Nat : (\A i \in 1 .. n : s[i] = r[i]) => Octets(s, n) = Octets(r, n)
  <1>1. ASSUME NEW r, NEW n \in Nat PROVE \E f : IsRead(f, r, n) /\ Octets(r, n) = f[n]
    <2> DEFINE c == CHOOSE f : IsRead(f, r, n)
    <2>1. IsRead(c, r, n)
      BY ReadsExist
    <2>2. Octets(r, n) = c[n]
      BY DEF Octets, IsRead
    <2> QED BY <2>1, <2>2
  <1>2. Octets(s, 0) = NoAddress
    BY <1>1 DEF IsRead
  <1>3. ASSUME NEW n \in Nat PROVE Octets(s, n + 1) = OctetStep(Octets(s, n), s[n + 1])
    <2>1. PICK f : IsRead(f, s, n) /\ Octets(s, n) = f[n]
      BY <1>1
    <2>2. PICK t : IsRead(t, s, n + 1) /\ Octets(s, n + 1) = t[n + 1]
      <3>1. n + 1 \in Nat
        OBVIOUS
      <3> QED BY <1>1, <3>1
    <2>3. n + 1 \in Nat /\ n <= n + 1 /\ n \in 0 .. n /\ n + 1 \in 0 .. n + 1 /\ n + 1 # 0 /\ (n + 1) - 1 = n
      OBVIOUS
    <2>4. f[n] = t[n]
      <3>1. PICK r, m : r = s /\ m = n + 1
        OBVIOUS
      <3>2. /\ n \in Nat /\ m \in Nat /\ n <= m /\ (\A i \in 1 .. n : s[i] = r[i])
            /\ IsRead(f, s, n) /\ IsRead(t, r, m)
        BY <2>1, <2>2, <2>3, <3>1
      <3>3. \A i \in 0 .. n : f[i] = t[i]
        BY ONLY <3>2, ReadsAgree
      <3> QED BY <2>3, <3>3
    <2>5. t[n + 1] = OctetStep(t[n], s[n + 1])
      BY <2>2, <2>3 DEF IsRead
    <2> QED BY <2>1, <2>2, <2>4, <2>5
  <1>4. ASSUME NEW r, NEW n \in Nat, \A i \in 1 .. n : s[i] = r[i] PROVE Octets(s, n) = Octets(r, n)
    <2>1. PICK f : IsRead(f, s, n) /\ Octets(s, n) = f[n]
      BY <1>1
    <2>2. PICK t : IsRead(t, r, n) /\ Octets(r, n) = t[n]
      BY <1>1
    <2>3. n <= n /\ n \in 0 .. n
      OBVIOUS
    <2>4. f[n] = t[n]
      <3>1. \A i \in 0 .. n : f[i] = t[i]
        BY <1>4, <2>1, <2>2, <2>3, ReadsAgree
      <3> QED BY <2>3, <3>1
    <2> QED BY <2>1, <2>2, <2>4
  <1> QED BY <1>2, <1>3, <1>4

\* What is known of an address is of this type.
Known == [ok : BOOLEAN, octet : Nat, digits : Nat, address : Int]

\* One character of an address leaves a state of reading.
LEMMA StepKnown ==
    ASSUME NEW r \in Known, NEW c
    PROVE  OctetStep(r, c) \in Known
  <1>1. r.octet + 1 \in Nat /\ r.digits + 1 \in Nat /\ 0 \in Nat
    BY DEF Known
  <1>2. (r.address * 256) % (2 * IntHalf) \in Int
    <2>1. \A a \in Int, b \in Nat \ {0} : a % b \in Int
      OBVIOUS
    <2>2. 2 * IntHalf \in Nat \ {0} /\ r.address * 256 \in Int
      BY SettingsAssumption DEF Known
    <2> QED BY <2>1, <2>2
  <1>3. ASSUME IsDigit(c, 10)
        PROVE  ((r.address \div 256) * 256) + (((r.address % 256) * 10 + DigitOf(c)) % 256) \in Int
    <2>1. DigitOf(c) \in 0 .. 15
      BY <1>3, DigitFacts
    <2>2. r.address \in Int
      BY DEF Known
    <2>3. \A a \in Int, d \in 0 .. 15 : ((a \div 256) * 256) + (((a % 256) * 10 + d) % 256) \in Int
      OBVIOUS
    <2> QED BY <2>1, <2>2, <2>3
  <1>4. PICK x : IsDigit(c, 10) => x = ((r.address \div 256) * 256) + (((r.address % 256) * 10 + DigitOf(c)) % 256)
    OBVIOUS
  <1>5. PICK y : y = (r.address * 256) % (2 * IntHalf)
    OBVIOUS
  <1>6. /\ IsDigit(c, 10) => [r EXCEPT !.digits = @ + 1, !.address = x] \in Known
        /\ [r EXCEPT !.octet = @ + 1, !.digits = 0, !.address = y] \in Known
        /\ [r EXCEPT !.ok = FALSE] \in Known
    BY <1>1, <1>2, <1>3, <1>4, <1>5 DEF Known
  <1>7. \/ OctetStep(r, c) = r
        \/ IsDigit(c, 10) /\ OctetStep(r, c) = [r EXCEPT !.digits = @ + 1, !.address = x]
        \/ OctetStep(r, c) = [r EXCEPT !.octet = @ + 1, !.digits = 0, !.address = y]
        \/ OctetStep(r, c) = [r EXCEPT !.ok = FALSE]
    BY <1>4, <1>5, Zenon DEF OctetStep
  <1> QED BY <1>6, <1>7

\* So do all characters, by looking at the first one that would not.
LEMMA OctetsKnown ==
    ASSUME NEW s
    PROVE  \A n \in Nat : Octets(s, n) \in Known
  <1> DEFINE T == {n \in Nat : Octets(s, n) \in Known}
  <1>1. 0 \in T
    <2>1. NoAddress \in Known
      BY DEF NoAddress, Known
    <2> QED BY <2>1, OctetsStep
  <1>2. ASSUME NEW n \in Nat, n \in T PROVE n + 1 \in T
    <2>1. Octets(s, n + 1) = OctetStep(Octets(s, n), s[n + 1])
      BY OctetsStep
    <2>2. Octets(s, n) \in Known
      BY <1>2
    <2>3. OctetStep(Octets(s, n), s[n + 1]) \in Known
      BY <2>2, StepKnown
    <2> QED BY <2>1, <2>3
  <1> HIDE DEF T
  <1>3. Nat \subseteq T
    BY <1>1, <1>2, Induction
  <1> QED BY <1>3 DEF T

\* What follows a blank does not count: the text is refused before, or its octets are complete.
LEMMA BlankEndsIp ==
    ASSUME NEW s, NEW p \in Nat, s[p + 1] = Blank
    PROVE  \A n \in Nat : Octets(s, p + 1 + n) = Octets(s, p + 1)
  <1>1. PICK r : r = Octets(s, p + 1)
    OBVIOUS
  <1>2. ~r.ok \/ r.octet > OCTETS
    <2>0. Blank # "."
      BY BlankFacts
    <2>1. Octets(s, p) \in Known /\ r = OctetStep(Octets(s, p), Blank)
      BY <1>1, OctetsKnown, OctetsStep
    <2>2. PICK q \in Known : q = Octets(s, p)
      BY <2>1
    <2>3. ~IsDigit(Blank, 10)
      BY DigitFacts
    <2>4. (r = q /\ (~q.ok \/ q.octet > OCTETS)) \/ r = [q EXCEPT !.ok = FALSE]
      BY <2>0, <2>1, <2>2, <2>3, Zenon DEF OctetStep
    <2> QED BY <2>4 DEF Known
  <1>3. \A c : OctetStep(r, c) = r
    BY <1>2 DEF OctetStep
  <1> DEFINE T == {n \in Nat : Octets(s, p + 1 + n) = r}
  <1>4. 0 \in T
    <2>1. p + 1 + 0 = p + 1
      OBVIOUS
    <2> QED BY <1>1, <2>1
  <1>5. ASSUME NEW n \in Nat, n \in T PROVE n + 1 \in T
    <2>1. PICK m \in Nat : m = p + 1 + n
      OBVIOUS
    <2>2. Octets(s, m) = r
      BY <1>5, <2>1
    <2>3. Octets(s, m + 1) = OctetStep(r, s[m + 1])
      BY <2>2, OctetsStep
    <2>4. Octets(s, m + 1) = r
      BY <1>3, <2>3
    <2>5. m + 1 = p + 1 + (n + 1)
      BY <2>1
    <2> QED BY <2>4, <2>5
  <1> HIDE DEF T
  <1>6. Nat \subseteq T
    BY <1>4, <1>5, Induction
  <1> QED BY <1>1, <1>6 DEF T

\* Two texts with the same characters up to a blank are the same address, or none.
LEMMA SameIp ==
    ASSUME NEW s, NEW t, Len(s) \in Nat, Len(t) \in Nat,
           NEW p \in Nat, p < Len(s), p < Len(t), s[p + 1] = Blank,
           \A i \in 1 .. p + 1 : s[i] = t[i]
    PROVE  ParseIp(s) = ParseIp(t)
  <1>1. t[p + 1] = Blank /\ p + 1 \in Nat
    OBVIOUS
  <1>2. Octets(s, p + 1) = Octets(t, p + 1)
    BY <1>1, OctetsStep
  <1>3. PICK a \in Nat, b \in Nat : Len(s) = p + 1 + a /\ Len(t) = p + 1 + b
    <2>1. Len(s) - (p + 1) \in Nat /\ Len(s) = p + 1 + (Len(s) - (p + 1))
      OBVIOUS
    <2>2. Len(t) - (p + 1) \in Nat /\ Len(t) = p + 1 + (Len(t) - (p + 1))
      OBVIOUS
    <2> QED BY <2>1, <2>2
  <1>4. Octets(s, Len(s)) = Octets(s, p + 1) /\ Octets(t, Len(t)) = Octets(t, p + 1)
    BY <1>1, <1>3, BlankEndsIp
  <1> QED BY <1>2, <1>4 DEF ParseIp

\* An address is an integer, and the empty text is none.
LEMMA IpFacts ==
    /\ \A s : Len(s) \in Nat => ParseIp(s) \in Int
    /\ \A s : Len(s) = 0 => ParseIp(s) = Bad
  <1>1. ASSUME NEW s, Len(s) \in Nat PROVE ParseIp(s) \in Int
    <2>1. Octets(s, Len(s)) \in Known
      BY <1>1, OctetsKnown
    <2>2. Bad \in Int
      BY SettingsAssumption DEF Bad
    <2> QED BY <2>1, <2>2 DEF ParseIp, Known
  <1>2. ASSUME NEW s, Len(s) = 0 PROVE ParseIp(s) = Bad
    <2>1. Octets(s, Len(s)) = NoAddress
      BY <1>2, OctetsStep
    <2> QED BY <2>1, SettingsAssumption DEF ParseIp, NoAddress
  <1> QED BY <1>1, <1>2

\* What is in a text after its sign and the mark of its radix: a blank there makes it no number.
LEMMA SameInt ==
    ASSUME NEW s, NEW t, Len(s) \in Nat, Len(t) \in Nat,
           NEW p \in Nat, p < Len(s), p < Len(t), s[p + 1] = Blank,
           \A i \in 1 .. p + 1 : s[i] = t[i]
    PROVE  ParseInt(s) = Bad /\ ParseInt(t) = Bad
  <1>1. ASSUME NEW r, Len(r) \in Nat, p < Len(r), r[p + 1] = Blank PROVE ParseInt(r) = Bad
    <2> DEFINE first == IF At(r, 1) \in {"+", "-"} THEN 2 ELSE 1
               radix == IF At(r, first) = "0" /\ At(r, first + 1) = "x" THEN 16
                        ELSE IF At(r, first) = "b" THEN 2
                        ELSE IF At(r, first) = "0" THEN 8 ELSE 10
               start == first + (CASE radix = 16 -> 2 [] radix \in {2, 8} -> 1 [] OTHER -> 0)
    <2>1. \A i \in 1 .. Len(r) : At(r, i) = r[i]
      BY <1>1 DEF At
    <2>2. first \in {1, 2} /\ (first = 2 => At(r, 1) \in {"+", "-"})
      OBVIOUS
    <2>3. /\ radix \in {2, 8, 10, 16}
          /\ radix = 16 => At(r, first) = "0" /\ At(r, first + 1) = "x"
          /\ radix = 2 => At(r, first) = "b"
          /\ radix = 8 => At(r, first) = "0"
      OBVIOUS
    <2>4. PICK k, x, a : k = first /\ x = radix /\ a = start
      OBVIOUS
    <2>5. a = k + (IF x = 16 THEN 2 ELSE IF x \in {2, 8} THEN 1 ELSE 0)
      <3>1. x \in {2, 8, 10, 16}
        BY <2>3, <2>4
      <3> HIDE DEF first, radix
      <3> QED BY <2>4, <3>1
    <2> HIDE DEF first, radix, start
    <2>6. a <= p + 1 /\ a \in Nat
      <3>1. At(r, p + 1) = Blank
        BY <1>1, <2>1
      <3>2. At(r, p + 1) \notin {"+", "-", "0", "b", "x"}
        BY <3>1, BlankFacts
      <3>3. k \in {1, 2} /\ (k = 2 => At(r, 1) \in {"+", "-"})
        BY <2>2, <2>4
      <3>4. /\ x \in {2, 8, 10, 16}
            /\ x = 16 => At(r, k) = "0" /\ At(r, k + 1) = "x"
            /\ x = 2 => At(r, k) = "b"
            /\ x = 8 => At(r, k) = "0"
        BY <2>3, <2>4
      <3>5. PICK q : q = p + 1
        OBVIOUS
      <3>6. q # 1 \/ k = 1
        BY <3>2, <3>3, <3>5
      <3>7. q >= k
        BY <3>3, <3>5, <3>6
      <3>8. x # 10 => q # k
        BY <3>2, <3>4, <3>5
      <3>9. x = 16 => q # k + 1
        BY <3>2, <3>4, <3>5
      <3> QED BY <2>5, <3>3, <3>4, <3>5, <3>7, <3>8, <3>9
    <2>7. ~IsDigit(r[p + 1], radix)
      BY <1>1, <2>3, DigitFacts
    <2>8. \E i \in start .. Len(r) : ~IsDigit(r[i], radix)
      <3>1. p + 1 \in start .. Len(r)
        BY <1>1, <2>4, <2>6
      <3> QED BY <2>7, <3>1
    <2>9. ParseInt(r) = IF start > Len(r) \/ \E i \in start .. Len(r) : ~IsDigit(r[i], radix)
                        THEN Bad
                        ELSE Wrap(Sign(r) * Number(SubSeq(r, start, Len(r)), radix))
      BY DEF ParseInt, first, radix, start
    <2> QED BY <2>8, <2>9
  <1>2. t[p + 1] = Blank
    OBVIOUS
  <1> QED BY <1>1, <1>2

\* Two texts with the same characters up to a blank convert to the same value, or to none.
LEMMA SameValue ==
    ASSUME NEW s, NEW t, Len(s) \in Nat, Len(t) \in Nat,
           NEW p \in Nat, p < Len(s), p < Len(t), s[p + 1] = Blank,
           \A i \in 1 .. p + 1 : s[i] = t[i], NEW v \in Settings_
    PROVE  Convert(v, s) = Convert(v, t)
  <1>1. ParseIp(s) = ParseIp(t)
    BY SameIp
  <1>2. ParseInt(s) = ParseInt(t)
    BY SameInt
  <1> QED BY <1>1, <1>2 DEF Convert

\* What a text converts to is an integer.
LEMMA ConvertIsInt ==
    ASSUME NEW s \in Seq(Chars), NEW v \in Settings_
    PROVE  Convert(v, s) \in Int
  <1>0. Len(s) \in Nat
    OBVIOUS
  <1>1. ParseIp(s) \in Int
    BY <1>0, IpFacts
  <1>2. Bad \in Int
    BY SettingsAssumption DEF Bad
  <1>3. ParseInt(s) \in Int
    <2> DEFINE first == IF At(s, 1) \in {"+", "-"} THEN 2 ELSE 1
               radix == IF At(s, first) = "0" /\ At(s, first + 1) = "x" THEN 16
                        ELSE IF At(s, first) = "b" THEN 2
                        ELSE IF At(s, first) = "0" THEN 8 ELSE 10
               start == first + (CASE radix = 16 -> 2 [] radix \in {2, 8} -> 1 [] OTHER -> 0)
    <2>1. first \in {1, 2} /\ radix \in {2, 8, 10, 16}
      OBVIOUS
    <2>2. start \in Nat \ {0}
      <3> HIDE DEF first, radix
      <3> QED BY <2>1
    <2> HIDE DEF first, radix, start
    <2>3. ParseInt(s) = IF start > Len(s) \/ \E i \in start .. Len(s) : ~IsDigit(s[i], radix)
                        THEN Bad
                        ELSE Wrap(Sign(s) * Number(SubSeq(s, start, Len(s)), radix))
      BY DEF ParseInt, first, radix, start
    <2>4. CASE start > Len(s) \/ \E i \in start .. Len(s) : ~IsDigit(s[i], radix)
      BY <1>2, <2>3, <2>4
    <2>5. CASE start <= Len(s) /\ \A i \in start .. Len(s) : IsDigit(s[i], radix)
      <3>1. PICK n : n = SubSeq(s, start, Len(s))
        OBVIOUS
      <3>2. Len(n) = Len(s) - start + 1 /\ \A i \in 1 .. Len(n) : n[i] = s[start + i - 1]
        BY <1>0, <2>2, <2>5, <3>1
      <3>3. Len(n) \in Nat /\ \A i \in 1 .. Len(n) : IsDigit(n[i], radix)
        BY <1>0, <2>2, <2>5, <3>2
      <3>4. Number(n, radix) \in Int
        BY <2>1, <3>3, NumberIsInt
      <3>5. Sign(s) \in {-1, 1}
        BY DEF Sign
      <3>6. Sign(s) * Number(n, radix) \in Int
        BY <3>4, <3>5
      <3>7. Wrap(Sign(s) * Number(n, radix)) \in Int
        BY <3>6, WrapIsInt
      <3> QED BY <2>3, <2>5, <2>2, <1>0, <3>1, <3>7
    <2> QED BY <1>0, <2>2, <2>4, <2>5
  <1> QED BY <1>1, <1>2, <1>3 DEF Convert

-----------------------------------------------------------------------------
(* The invariant. *)

Blanks(l, a, b) == \A i \in a .. b : l[i] = Blank

\* Only where a blank has been read is one written to the buffer.
Typed == SettingsTypeOK /\ (space => Blank \in Chars)

\* 1 when a blank has been read that is not in the buffer, or one is there already.
Noted == IF space THEN 1 ELSE 0

(***************************************************************************)
(* The buffer b holds the text of l after j without the blanks around it   *)
(* or, when the text has a blank within, is the same up to this one.       *)
(***************************************************************************)
Collected(l, j, b, sp) ==
    \/ b = << >> /\ sp = 0 /\ Blanks(l, j + 1, Len(l))
    \/ \E k \in j .. Len(l), n \in 1 .. Len(b) :
        /\ k + n <= Len(l) /\ Blanks(l, j + 1, k)
        /\ \A i \in 1 .. n : b[i] = l[k + i]
        /\ b[1] # Blank
        /\ \/ n = Len(b) /\ b[n] # Blank /\ Blanks(l, k + n + 1, Len(l)) /\ (sp = 1 <=> k + n < Len(l))
           \/ b[n] = Blank /\ \E z \in k + n + 1 .. Len(l) : l[z] # Blank

\* The setting v was selected by its name and the "=" at j.
Selected(l, j, v) ==
    v # NoValue =>
        /\ j >= 1 /\ l[j] = "="
        /\ \E i \in 1 .. j - 1 : <<l[i]>> = Name[v] /\ Blanks(l, i + 1, j - 1)

\* Where the text that is being read begins.
Begins(l, j, b, sp, v) ==
    /\ Collected(l, j, b, sp) /\ Selected(l, j, v)
    /\ \A i \in j + 1 .. Len(l) : l[i] # "="

Written ==
    /\ mode \in {"text", "category"} => \A i \in 1 .. Len(line) : line[i] # "#"
    /\ mode = "category" => value = NoValue
    /\ mode = "text" => \E j \in 0 .. Len(line) : Begins(line, j, buffer, Noted, value)

WrittenInv == Typed /\ Written

\* Up to e the line is "h", at h, and blanks; from a to z it is text, and blanks around.
HostName(l, h, e) == l[h] = "h" /\ Blanks(l, 1, h - 1) /\ Blanks(l, h + 1, e)
Plain(l, e, a, z) ==
    Blanks(l, e + 1, a - 1) /\ Blanks(l, z + 1, Len(l)) /\ \A i \in a .. z : l[i] \notin Special

\* The automaton waits for more of the text b, which is for the setting v.
Ready(v, b, sp) == mode = "text" /\ value = v /\ buffer = b /\ Noted = sp

NoText == Blanks(line, 1, Len(line)) => Ready(NoValue, << >>, 0)
NameRead ==
    \A h \in 1 .. Len(line) : HostName(line, h, Len(line)) => Ready(NoValue, <<"h">>, IF h < Len(line) THEN 1 ELSE 0)
AddressRead ==
    category # NoCategory =>
        \A e \in 1 .. Len(line), h \in 1 .. Len(line) : h < e /\ HostName(line, h, e - 1) /\ line[e] = "=" =>
            /\ Blanks(line, e + 1, Len(line)) => Ready("host_ip", << >>, 0)
            /\ \A a, z \in e + 1 .. Len(line) : a <= z /\ z - a + 1 < BUFFER /\ Plain(line, e, a, z) =>
                  Ready("host_ip", SubSeq(line, a, z), IF z < Len(line) THEN 1 ELSE 0)

AddressInv == NoText /\ (BUFFER >= 2 => NameRead /\ AddressRead)

-----------------------------------------------------------------------------
(* Lines and their texts. *)

\* The line m is l and one more character, c.
Grown(l, c, m) ==
    /\ l \in Seq(Chars) /\ m \in Seq(Chars) /\ Len(l) \in Nat /\ Len(m) = Len(l) + 1
    /\ \A i \in 1 .. Len(l) : m[i] = l[i]
    /\ m[Len(l) + 1] = c

\* A line with one character more.
LEMMA AppendGrows ==
    ASSUME NEW l \in Seq(Chars), NEW c \in Chars, NEW m, m = Append(l, c)
    PROVE  Grown(l, c, m)
  BY AppendProperties, LenProperties DEF Grown

\* Blanks stay where they are.
LEMMA BlanksGrow ==
    ASSUME NEW l, NEW c, NEW m, Grown(l, c, m), NEW a \in Nat \ {0}, NEW b \in Nat
    PROVE  /\ b <= Len(l) => (Blanks(m, a, b) <=> Blanks(l, a, b))
           /\ b = Len(m) /\ c = Blank => (Blanks(m, a, b) <=> Blanks(l, a, Len(l)))
           /\ b = Len(m) /\ c # Blank /\ a <= b => ~Blanks(m, a, b)
  <1>1. /\ Len(l) \in Nat /\ Len(m) = Len(l) + 1
        /\ \A i \in 1 .. Len(l) : m[i] = l[i]
        /\ m[Len(l) + 1] = c
    BY DEF Grown
  <1>2. ASSUME b <= Len(l) PROVE Blanks(m, a, b) <=> Blanks(l, a, b)
    BY <1>1, <1>2 DEF Blanks
  <1>3. ASSUME b = Len(m), c = Blank PROVE Blanks(m, a, b) <=> Blanks(l, a, Len(l))
    <2>1. \A i \in a .. b : i \in a .. Len(l) \/ i = Len(l) + 1
      BY <1>1, <1>3
    <2>2. \A i \in a .. Len(l) : i \in a .. b /\ i \in 1 .. Len(l)
      BY <1>1, <1>3
    <2> QED BY <1>1, <1>3, <2>1, <2>2 DEF Blanks
  <1>4. ASSUME b = Len(m), c # Blank, a <= b PROVE ~Blanks(m, a, b)
    BY <1>1, <1>4 DEF Blanks
  <1> QED BY <1>2, <1>3, <1>4

\* A text begins behind the last character.
LEMMA CollectNothing ==
    ASSUME NEW m, Len(m) \in Nat
    PROVE  Collected(m, Len(m), << >>, 0)
  BY DEF Collected, Blanks

\* A blank is noted, unless the text has not begun.
LEMMA CollectBlank ==
    ASSUME NEW l, NEW m, Grown(l, Blank, m), NEW j \in 0 .. Len(l),
           NEW b \in Seq(Chars), NEW sp \in {0, 1}, Collected(l, j, b, sp)
    PROVE  IF b = << >> THEN Collected(m, j, b, sp) ELSE Collected(m, j, b, 1)
  <1>1. /\ Len(l) \in Nat /\ Len(m) = Len(l) + 1 /\ Len(m) \in Nat
        /\ \A i \in 1 .. Len(l) : m[i] = l[i]
        /\ m[Len(l) + 1] = Blank
    BY DEF Grown
  <1>2. CASE b = << >> /\ sp = 0 /\ Blanks(l, j + 1, Len(l))
    <2>1. Blanks(m, j + 1, Len(m))
      BY <1>1, <1>2 DEF Blanks
    <2> QED BY <1>2, <2>1 DEF Collected
  <1>3. ASSUME NEW k \in j .. Len(l), NEW n \in 1 .. Len(b),
               k + n <= Len(l), Blanks(l, j + 1, k),
               \A i \in 1 .. n : b[i] = l[k + i], b[1] # Blank,
               \/ n = Len(b) /\ b[n] # Blank /\ Blanks(l, k + n + 1, Len(l)) /\ (sp = 1 <=> k + n < Len(l))
               \/ b[n] = Blank /\ \E z \in k + n + 1 .. Len(l) : l[z] # Blank
        PROVE  b # << >> /\ Collected(m, j, b, 1)
    <2>a. j \in Nat /\ k \in Nat /\ n \in Nat /\ k <= Len(l) /\ k + n <= Len(l)
      BY <1>1, <1>3
    <2>b. Blanks(l, j + 1, k)
      BY <1>3
    <2>c. \A i \in 1 .. n : b[i] = l[k + i]
      BY <1>3
    <2>d. \A i \in j + 1 .. k : i \in 1 .. Len(l)
      BY <2>a, <1>1
    <2>e. \A i \in 1 .. n : k + i \in 1 .. Len(l)
      BY <2>a, <1>1
    <2>1. b # << >> /\ k \in j .. Len(m) /\ k + n <= Len(m) /\ k \in Nat /\ n \in Nat /\ k + n < Len(m)
      BY <1>1, <1>3
    <2>2. Blanks(m, j + 1, k)
      BY <1>1, <2>b, <2>d DEF Blanks
    <2>3. \A i \in 1 .. n : b[i] = m[k + i]
      BY <1>1, <2>c, <2>e
    <2>4. \/ n = Len(b) /\ b[n] # Blank /\ Blanks(m, k + n + 1, Len(m)) /\ k + n < Len(m)
          \/ b[n] = Blank /\ \E z \in k + n + 1 .. Len(m) : m[z] # Blank
      <3>1. CASE n = Len(b) /\ b[n] # Blank /\ Blanks(l, k + n + 1, Len(l))
        <4>1. Blanks(m, k + n + 1, Len(m))
          BY <1>1, <2>1, <3>1 DEF Blanks
        <4> QED BY <2>1, <3>1, <4>1
      <3>2. ASSUME NEW z \in k + n + 1 .. Len(l), l[z] # Blank
            PROVE  z \in k + n + 1 .. Len(m) /\ m[z] # Blank
        BY <1>1, <2>1, <3>2
      <3> QED BY <1>3, <3>1, <3>2
    <2> QED BY <1>3, <2>1, <2>2, <2>3, <2>4 DEF Collected
  <1> QED BY <1>2, <1>3 DEF Collected

\* The text that is added to the buffer for c.
Added(c) == IF space THEN <<Blank, c>> ELSE <<c>>

\* A sequence with one or two members more.
LEMMA Joined ==
    ASSUME NEW b \in Seq(Chars), NEW c \in Chars, NEW t
    PROVE  /\ t = b \o <<c>> =>
                Len(t) = Len(b) + 1 /\ t[Len(b) + 1] = c /\ \A i \in 1 .. Len(b) : t[i] = b[i]
           /\ t = b \o <<Blank, c>> /\ Blank \in Chars =>
                /\ Len(t) = Len(b) + 2 /\ t[Len(b) + 1] = Blank /\ t[Len(b) + 2] = c
                /\ \A i \in 1 .. Len(b) : t[i] = b[i]
  <1>0. Len(b) \in Nat
    BY LenProperties
  <1>1. ASSUME t = b \o <<c>>
        PROVE  Len(t) = Len(b) + 1 /\ t[Len(b) + 1] = c /\ \A i \in 1 .. Len(b) : t[i] = b[i]
    <2>1. <<c>> \in Seq(Chars) /\ Len(<<c>>) = 1 /\ <<c>>[1] = c
      OBVIOUS
    <2>2. PICK u \in Seq(Chars) : u = <<c>>
      BY <2>1
    <2>3. t = b \o u /\ Len(u) = 1 /\ u[1] = c
      BY <1>1, <2>1, <2>2
    <2>4. Len(t) = Len(b) + 1 /\ \A i \in 1 .. Len(b) + 1 : t[i] = IF i <= Len(b) THEN b[i] ELSE u[i - Len(b)]
      <3>1. /\ Len(b \o u) = Len(b) + Len(u)
            /\ \A i \in 1 .. Len(b) + Len(u) : (b \o u)[i] = IF i <= Len(b) THEN b[i] ELSE u[i - Len(b)]
        BY ConcatProperties
      <3> QED BY <2>3, <3>1
    <2> QED BY <1>0, <2>3, <2>4
  <1>2. ASSUME t = b \o <<Blank, c>>, Blank \in Chars
        PROVE  /\ Len(t) = Len(b) + 2 /\ t[Len(b) + 1] = Blank /\ t[Len(b) + 2] = c
               /\ \A i \in 1 .. Len(b) : t[i] = b[i]
    <2>1. <<Blank, c>> \in Seq(Chars) /\ Len(<<Blank, c>>) = 2 /\ <<Blank, c>>[1] = Blank /\ <<Blank, c>>[2] = c
      BY <1>2
    <2>2. PICK u \in Seq(Chars) : u = <<Blank, c>>
      BY <2>1
    <2>3. t = b \o u /\ Len(u) = 2 /\ u[1] = Blank /\ u[2] = c
      BY <1>2, <2>1, <2>2
    <2>4. Len(t) = Len(b) + 2 /\ \A i \in 1 .. Len(b) + 2 : t[i] = IF i <= Len(b) THEN b[i] ELSE u[i - Len(b)]
      BY <2>3, ConcatProperties
    <2> QED BY <1>0, <2>3, <2>4
  <1> QED BY <1>1, <1>2

\* The text t is b and the character c, with the blank that is noted before it.
Extended(b, sp, c, t) ==
    /\ Len(b) \in Nat /\ Len(t) \in Nat /\ Len(t) = Len(b) + 1 + sp
    /\ \A i \in 1 .. Len(b) : t[i] = b[i]
    /\ sp = 1 => t[Len(b) + 1] = Blank
    /\ t[Len(t)] = c

\* What the code adds to the buffer for a character, with a space in front of it once a blank was noted.
LEMMA AddedExtends ==
    ASSUME Typed, NEW c \in Chars, NEW t, t = buffer \o Added(c)
    PROVE  Extended(buffer, Noted, c, t)
  <1>0. buffer \in Seq(Chars) /\ Len(buffer) \in Nat /\ (space => Blank \in Chars) /\ space \in BOOLEAN
    BY DEF Typed, SettingsTypeOK, Texts
  <1>1. CASE space
    <2>1. Noted = 1 /\ Added(c) = <<Blank, c>>
      BY <1>1, Zenon DEF Noted, Added
    <2>2. t = buffer \o <<Blank, c>> /\ Blank \in Chars
      BY <1>0, <1>1, <2>1
    <2>3. PICK b \in Seq(Chars) : b = buffer
      BY <1>0
    <2>4. /\ Len(t) = Len(b) + 2 /\ t[Len(b) + 1] = Blank /\ t[Len(b) + 2] = c
          /\ \A i \in 1 .. Len(b) : t[i] = b[i]
      BY <2>2, <2>3, Joined
    <2>5. Len(b) + 2 = Len(b) + 1 + 1 /\ Len(b) \in Nat /\ Len(b) + 2 \in Nat
      BY <1>0, <2>3
    <2> QED BY <2>1, <2>3, <2>4, <2>5 DEF Extended
  <1>2. CASE ~space
    <2>1. Noted = 0 /\ Added(c) = <<c>>
      BY <1>2, Zenon DEF Noted, Added
    <2>2. PICK b \in Seq(Chars) : b = buffer
      BY <1>0
    <2>3. Len(t) = Len(b) + 1 /\ t[Len(b) + 1] = c /\ \A i \in 1 .. Len(b) : t[i] = b[i]
      BY <2>1, <2>2, Joined
    <2>4. Len(b) + 1 = Len(b) + 1 + 0 /\ Len(b) \in Nat /\ Len(b) + 1 \in Nat /\ 0 # 1
      BY <1>0, <2>2
    <2> QED BY <2>1, <2>2, <2>3, <2>4 DEF Extended
  <1> QED BY <1>1, <1>2

\* The other characters are added, with the blank that is noted.
LEMMA CollectText ==
    ASSUME NEW l, NEW m, NEW c \in Chars, c # Blank, Grown(l, c, m), NEW j \in 0 .. Len(l),
           NEW b \in Seq(Chars), NEW sp \in {0, 1}, Collected(l, j, b, sp),
           NEW t, Extended(b, sp, c, t)
    PROVE  Collected(m, j, t, sp)
  <1>1. /\ Len(l) \in Nat /\ Len(m) = Len(l) + 1 /\ Len(m) \in Nat
        /\ \A i \in 1 .. Len(l) : m[i] = l[i]
        /\ m[Len(l) + 1] = c
    BY DEF Grown
  <1>2. /\ Len(b) \in Nat /\ Len(t) \in Nat /\ Len(t) = Len(b) + (IF sp = 1 THEN 2 ELSE 1)
        /\ \A i \in 1 .. Len(b) : t[i] = b[i]
        /\ t[Len(b) + 1] = IF sp = 1 THEN Blank ELSE c
        /\ t[Len(t)] = c
    BY DEF Extended
  <1>3. CASE b = << >> /\ sp = 0 /\ Blanks(l, j + 1, Len(l))
    <2>1. Len(b) = 0 /\ Len(t) = 1 /\ t[1] = c
      BY <1>2, <1>3
    <2>2. PICK k : k = Len(l)
      OBVIOUS
    <2>3. k \in j .. Len(m) /\ k + 1 <= Len(m) /\ 1 \in 1 .. Len(t) /\ (sp = 1 <=> k + 1 < Len(m))
      BY <1>1, <1>3, <2>1, <2>2
    <2>4. Blanks(m, j + 1, k)
      BY <1>1, <1>3, <2>2 DEF Blanks
    <2>5. \A i \in 1 .. 1 : t[i] = m[k + i]
      BY <1>1, <2>1, <2>2
    <2>6. Blanks(m, k + 1 + 1, Len(m))
      BY <1>1, <2>2 DEF Blanks
    <2> QED BY <2>1, <2>3, <2>4, <2>5, <2>6 DEF Collected
  <1>4. ASSUME NEW k \in j .. Len(l), NEW n \in 1 .. Len(b),
               k + n <= Len(l), Blanks(l, j + 1, k),
               \A i \in 1 .. n : b[i] = l[k + i], b[1] # Blank,
               \/ n = Len(b) /\ b[n] # Blank /\ Blanks(l, k + n + 1, Len(l)) /\ (sp = 1 <=> k + n < Len(l))
               \/ b[n] = Blank /\ \E z \in k + n + 1 .. Len(l) : l[z] # Blank
        PROVE  Collected(m, j, t, sp)
    <2>a. j \in Nat /\ k \in Nat /\ n \in Nat /\ k <= Len(l) /\ k + n <= Len(l)
      BY <1>1, <1>4
    <2>b. Blanks(l, j + 1, k)
      BY <1>4
    <2>c. \A i \in 1 .. n : b[i] = l[k + i]
      BY <1>4
    <2>d. \A i \in j + 1 .. k : i \in 1 .. Len(l)
      BY <2>a, <1>1
    <2>e. \A i \in 1 .. n : k + i \in 1 .. Len(l)
      BY <2>a, <1>1
    <2>1. k \in j .. Len(m) /\ k \in Nat /\ n \in Nat /\ n \in 1 .. Len(t) /\ 1 \in 1 .. Len(b)
      BY <1>1, <1>2, <1>4
    <2>2. Blanks(m, j + 1, k)
      BY <1>1, <2>b, <2>d DEF Blanks
    <2>3. \A i \in 1 .. n : t[i] = m[k + i]
      <3>1. \A i \in 1 .. n : i \in 1 .. Len(b)
        BY <1>2, <1>4, <2>a
      <3> QED BY <1>1, <1>2, <2>c, <2>e, <3>1
    <2>4. t[1] # Blank
      BY <1>2, <1>4, <2>1
    <2>5. CASE b[n] = Blank /\ \E z \in k + n + 1 .. Len(l) : l[z] # Blank
      <3>1. t[n] = Blank
        BY <1>2, <1>4, <2>1, <2>5
      <3>2. \E z \in k + n + 1 .. Len(m) : m[z] # Blank
        BY <1>1, <2>1, <2>5
      <3>3. k + n <= Len(m)
        BY <1>1, <1>4, <2>1
      <3> QED BY <2>1, <2>2, <2>3, <2>4, <3>1, <3>2, <3>3 DEF Collected
    <2>6. CASE n = Len(b) /\ b[n] # Blank /\ Blanks(l, k + n + 1, Len(l)) /\ (sp = 1 <=> k + n < Len(l))
      <3>1. PICK o \in Nat : o = n + 1
        BY <2>1
      <3>2. o \in 1 .. Len(t) /\ k + o <= Len(m) /\ o \in 1 .. Len(b) + 1
        BY <1>1, <1>2, <1>4, <2>1, <2>6, <3>1
      <3>3. \A i \in 1 .. o : t[i] = m[k + i]
        <4>1. t[o] = m[k + o]
          <5>1. CASE sp = 1
            <6>1. k + o \in k + n + 1 .. Len(l) /\ k + o \in 1 .. Len(l)
              BY <1>1, <2>1, <2>6, <3>1, <5>1
            <6>2. m[k + o] = Blank
              BY <1>1, <2>6, <6>1 DEF Blanks
            <6> QED BY <1>2, <2>6, <3>1, <5>1, <6>2
          <5>2. CASE sp = 0
            <6>1. k + o = Len(l) + 1
              <7>1. ~(k + n < Len(l))
                BY <2>6, <5>2
              <7>2. k + n = Len(l)
                BY <1>1, <2>a, <7>1
              <7> QED BY ONLY <2>a, <3>1, <7>2
            <6> QED BY <1>1, <1>2, <2>6, <3>1, <5>2, <6>1
          <5> QED BY <5>1, <5>2
        <4>2. \A i \in 1 .. o : i \in 1 .. n \/ i = o
          BY <2>1, <3>1
        <4> QED BY <2>3, <4>1, <4>2
      <3>4. CASE sp = 1
        <4>1. t[o] = Blank
          BY <1>2, <2>6, <3>1, <3>4
        <4>2. Len(m) \in k + o + 1 .. Len(m) /\ m[Len(m)] # Blank
          BY <1>1, <1>4, <2>1, <2>6, <3>1, <3>4
        <4> QED BY <2>1, <2>2, <2>4, <3>2, <3>3, <4>1, <4>2 DEF Collected
      <3>5. CASE sp = 0
        <4>1. o = Len(t) /\ t[o] # Blank /\ k + o = Len(m) /\ (sp = 1 <=> k + o < Len(m))
          <5>1. ~(k + n < Len(l))
            BY <2>6, <3>5
          <5>2. n = Len(b) /\ Len(t) = n + 1
            BY <1>2, <2>6, <3>5
          <5>3. t[o] = c
            BY <1>2, <3>1, <5>2
          <5>4. k + o = Len(m)
            <6>1. k + n = Len(l)
              BY <1>1, <2>a, <5>1
            <6> QED BY <1>1, <2>a, <3>1, <6>1
          <5>5. ~(k + o < Len(m))
            BY <1>1, <5>4
          <5> QED BY <3>1, <3>5, <5>2, <5>3, <5>4, <5>5
        <4>2. Blanks(m, k + o + 1, Len(m))
          BY <1>1, <4>1 DEF Blanks
        <4> QED BY <2>1, <2>2, <2>4, <3>2, <3>3, <4>1, <4>2 DEF Collected
      <3> QED BY <3>4, <3>5
    <2> QED BY <1>4, <2>5, <2>6
  <1> QED BY <1>3, <1>4 DEF Collected

\* A name of one character is the last but blanks.
LEMMA NameFound ==
    ASSUME NEW l, Len(l) \in Nat, NEW j \in 0 .. Len(l), NEW x, NEW sp \in {0, 1}, Collected(l, j, <<x>>, sp)
    PROVE  \E i \in j + 1 .. Len(l) : l[i] = x /\ Blanks(l, i + 1, Len(l))
  <1>1. Len(<<x>>) = 1 /\ <<x>>[1] = x /\ <<x>> # << >>
    OBVIOUS
  <1>2. PICK b : b = <<x>>
    OBVIOUS
  <1>3. Collected(l, j, b, sp) /\ Len(b) = 1 /\ b[1] = x /\ b # << >>
    BY <1>1, <1>2
  <1>4. PICK k \in j .. Len(l), n \in 1 .. Len(b) :
            /\ k + n <= Len(l)
            /\ \A i \in 1 .. n : b[i] = l[k + i]
            /\ b[1] # Blank
            /\ b[n] # Blank => Blanks(l, k + n + 1, Len(l))
    BY <1>3 DEF Collected
  <1>5. n = 1 /\ k \in Nat
    BY <1>3, <1>4
  <1>6. l[k + 1] = x /\ Blanks(l, k + 1 + 1, Len(l)) /\ k + 1 \in j + 1 .. Len(l)
    BY <1>3, <1>4, <1>5
  <1> QED BY <1>6

\* The setting that was selected stays so, whatever follows.
LEMMA SelectedGrows ==
    ASSUME NEW l, NEW c, NEW m, Grown(l, c, m), NEW j \in 0 .. Len(l), NEW v, Selected(l, j, v)
    PROVE  Selected(m, j, v)
  <1> SUFFICES ASSUME v # NoValue PROVE Selected(m, j, v)
    BY DEF Selected
  <1>1. j \in Nat /\ j >= 1 /\ l[j] = "=" /\ j \in 1 .. Len(l)
    BY DEF Selected, Grown
  <1>2. PICK i \in 1 .. j - 1 : <<l[i]>> = Name[v] /\ Blanks(l, i + 1, j - 1)
    BY DEF Selected
  <1>3. i \in 1 .. Len(l) /\ \A a \in i + 1 .. j - 1 : a \in 1 .. Len(l)
    BY <1>1, <1>2 DEF Grown
  <1>4. Blanks(m, i + 1, j - 1)
    BY <1>2, <1>3 DEF Blanks, Grown
  <1>5. m[i] = l[i] /\ m[j] = l[j]
    BY <1>1, <1>3 DEF Grown
  <1> QED BY <1>1, <1>2, <1>4, <1>5 DEF Selected

-----------------------------------------------------------------------------
(* Stripping a text of the blanks around it. *)

\* A set of the numbers up to n that is not empty has a greatest member.
LEMMA GreatestOf ==
    ASSUME NEW n \in Nat, NEW T, T \subseteq 1 .. n, T # {}
    PROVE  \E x \in T : \A y \in T : y <= x
  <1> DEFINE U == {i \in Nat : n - i \in T}
  <1>1. U \subseteq Nat /\ U # {}
    <2>1. PICK y \in T : TRUE
      OBVIOUS
    <2>2. n - y \in Nat /\ n - (n - y) = y
      BY <2>1
    <2> QED BY <2>1, <2>2
  <1>2. PICK x \in U : \A y \in U : x <= y
    BY <1>1, LeastOf
  <1>3. n - x \in T
    BY <1>2
  <1>4. ASSUME NEW y \in T PROVE y <= n - x
    <2>1. n - y \in Nat /\ n - (n - y) = y
      BY <1>4
    <2>2. x <= n - y /\ x \in Nat
      BY <1>2, <2>1
    <2> QED BY <2>1, <2>2
  <1> QED BY <1>3, <1>4

\* A text of blanks is empty then; another one begins and ends with other characters.
LEMMA StripFacts ==
    ASSUME NEW s, Len(s) \in Nat
    PROVE  /\ Blanks(s, 1, Len(s)) => Strip(s) = << >>
           /\ \A a, z \in 1 .. Len(s) :
                 s[a] # Blank /\ s[z] # Blank /\ Blanks(s, 1, a - 1) /\ Blanks(s, z + 1, Len(s))
                 => Strip(s) = SubSeq(s, a, z)
           /\ ~Blanks(s, 1, Len(s)) => \E a, z \in 1 .. Len(s) :
                 a <= z /\ s[a] # Blank /\ s[z] # Blank /\ Blanks(s, 1, a - 1) /\ Blanks(s, z + 1, Len(s))
  <1> DEFINE ink == {i \in 1 .. Len(s) : s[i] # Blank}
  <1>1. Strip(s) = IF ink = {} THEN << >> ELSE SubSeq(s, Min(ink), Max(ink))
    BY DEF Strip
  <1>2. Blanks(s, 1, Len(s)) => Strip(s) = << >>
    BY <1>1 DEF Blanks
  <1>3. ASSUME NEW a \in 1 .. Len(s), NEW z \in 1 .. Len(s),
               s[a] # Blank, s[z] # Blank, Blanks(s, 1, a - 1), Blanks(s, z + 1, Len(s))
        PROVE  Strip(s) = SubSeq(s, a, z)
    <2>1. a \in ink /\ z \in ink /\ ink \subseteq Int
      BY <1>3
    <2>2. \A i \in ink : i \in 1 .. Len(s) /\ ~(i \in 1 .. a - 1) /\ ~(i \in z + 1 .. Len(s))
      BY <1>3 DEF Blanks
    <2>3. \A i \in ink : a <= i /\ i <= z
      BY <1>3, <2>2
    <2> HIDE DEF ink
    <2>4. Min(ink) = a
      <3>0. a \in ink /\ \A y \in ink : a <= y
        BY <2>1, <2>3
      <3>1. Min(ink) \in ink /\ \A y \in ink : Min(ink) <= y
        BY <3>0, Zenon DEF Min
      <3>2. PICK m : m = Min(ink)
        OBVIOUS
      <3>3. m \in Int /\ a <= m /\ m <= a
        BY <2>1, <2>3, <3>1, <3>2
      <3> QED BY <3>2, <3>3
    <2>5. Max(ink) = z
      <3>0. z \in ink /\ \A y \in ink : z >= y
        BY <2>1, <2>3
      <3>1. Max(ink) \in ink /\ \A y \in ink : Max(ink) >= y
        BY <3>0, Zenon DEF Max
      <3>2. PICK m : m = Max(ink)
        OBVIOUS
      <3>3. m \in Int /\ m <= z /\ m >= z
        BY <2>1, <2>3, <3>1, <3>2
      <3> QED BY <3>2, <3>3
    <2> QED BY <1>1, <2>1, <2>4, <2>5
  <1>4. ASSUME ~Blanks(s, 1, Len(s))
        PROVE  \E a, z \in 1 .. Len(s) :
                 a <= z /\ s[a] # Blank /\ s[z] # Blank /\ Blanks(s, 1, a - 1) /\ Blanks(s, z + 1, Len(s))
    <2>1. ink # {} /\ ink \subseteq 1 .. Len(s) /\ ink \subseteq Nat
      BY <1>4 DEF Blanks
    <2>2. \A i \in 1 .. Len(s) : i \in ink <=> s[i] # Blank
      OBVIOUS
    <2> HIDE DEF ink
    <2>3. PICK a \in ink : \A y \in ink : a <= y
      BY <2>1, LeastOf
    <2>4. PICK z \in ink : \A y \in ink : y <= z
      BY <2>1, GreatestOf
    <2>5. a \in 1 .. Len(s) /\ z \in 1 .. Len(s) /\ a <= z
      BY <2>1, <2>3, <2>4
    <2>6. Blanks(s, 1, a - 1)
      <3>1. ASSUME NEW i \in 1 .. a - 1 PROVE s[i] = Blank
        <4>1. i \in 1 .. Len(s) /\ ~(a <= i)
          BY <2>5
        <4> QED BY <2>2, <2>3, <4>1
      <3> QED BY <3>1 DEF Blanks
    <2>7. Blanks(s, z + 1, Len(s))
      <3>1. ASSUME NEW i \in z + 1 .. Len(s) PROVE s[i] = Blank
        <4>1. i \in 1 .. Len(s) /\ ~(i <= z)
          BY <2>5
        <4> QED BY <2>2, <2>4, <4>1
      <3> QED BY <3>1 DEF Blanks
    <2> QED BY <2>2, <2>3, <2>4, <2>5, <2>6, <2>7
  <1> QED BY <1>2, <1>3, <1>4

\* The part of a line behind j.
LEMMA Behind ==
    ASSUME NEW l \in Seq(Chars), NEW j \in 0 .. Len(l)
    PROVE  /\ Len(l) \in Nat /\ j \in Nat
           /\ Len(SubSeq(l, j + 1, Len(l))) = Len(l) - j
           /\ \A i \in 1 .. Len(l) - j : SubSeq(l, j + 1, Len(l))[i] = l[j + i]
  <1>1. Len(l) \in Nat /\ j \in Nat
    BY LenProperties
  <1>2. PICK n : n = Len(l)
    OBVIOUS
  <1>3. PICK r : r = SubSeq(l, j + 1, n)
    OBVIOUS
  <1>4. Len(r) = n - j
    BY <1>1, <1>2, <1>3
  <1>5. \A i \in 1 .. n - j : r[i] = l[j + i]
    <2> TAKE i \in 1 .. n - j
    <2>1. r[i] = l[j + 1 + i - 1] /\ j + 1 + i - 1 = j + i
      BY <1>1, <1>2, <1>3
    <2> QED BY <2>1
  <1> QED BY <1>1, <1>2, <1>3, <1>4, <1>5

\* The buffer and the text itself convert to the same value.
LEMMA CollectedValue ==
    ASSUME NEW l \in Seq(Chars), NEW j \in 0 .. Len(l), NEW b \in Seq(Chars), NEW sp \in {0, 1},
           Collected(l, j, b, sp), NEW v \in Settings_
    PROVE  Convert(v, Strip(SubSeq(l, j + 1, Len(l)))) = Convert(v, b)
  <1>1. PICK r : r = SubSeq(l, j + 1, Len(l))
    OBVIOUS
  <1>2. /\ Len(l) \in Nat /\ j \in Nat /\ Len(r) = Len(l) - j /\ Len(r) \in Nat
        /\ \A i \in 1 .. Len(r) : r[i] = l[j + i]
    BY <1>1, Behind
  <1>3. Len(b) \in Nat
    BY LenProperties
  <1>6. r \in Seq(Chars)
    <2>1. \A i \in j + 1 .. Len(l) : l[i] \in Chars
      BY <1>2
    <2> QED BY <1>1, <1>2, <2>1, SubSeqProperties
  <1>4. CASE b = << >> /\ sp = 0 /\ Blanks(l, j + 1, Len(l))
    <2>1. Blanks(r, 1, Len(r))
      BY <1>2, <1>4 DEF Blanks
    <2>2. Strip(r) = << >>
      BY <1>2, <2>1, StripFacts
    <2> QED BY <1>1, <1>4, <2>2
  <1>5. ASSUME NEW k \in j .. Len(l), NEW n \in 1 .. Len(b),
               k + n <= Len(l), Blanks(l, j + 1, k),
               \A i \in 1 .. n : b[i] = l[k + i], b[1] # Blank,
               \/ n = Len(b) /\ b[n] # Blank /\ Blanks(l, k + n + 1, Len(l))
               \/ b[n] = Blank /\ \E z \in k + n + 1 .. Len(l) : l[z] # Blank
        PROVE  Convert(v, Strip(r)) = Convert(v, b)
    <2>0. k \in Nat /\ n \in Nat /\ n >= 1 /\ n <= Len(b) /\ k >= j /\ k + n <= Len(l)
      BY <1>2, <1>3, <1>5
    <2>1. PICK a : a = k + 1 - j
      OBVIOUS
    <2>2. a \in 1 .. Len(r) /\ j + a = k + 1 /\ \A i \in 1 .. n : a + i - 1 \in 1 .. Len(r) /\ j + (a + i - 1) = k + i
      BY <1>2, <2>0, <2>1
    <2>3. \A i \in 1 .. n : r[a + i - 1] = b[i]
      <3> TAKE i \in 1 .. n
      <3>1. r[a + i - 1] = l[j + (a + i - 1)]
        BY <1>2, <2>2
      <3>2. b[i] = l[k + i]
        BY <1>5
      <3> QED BY <2>2, <3>1, <3>2
    <2>4. r[a] # Blank
      <3>1. 1 \in 1 .. n /\ a + 1 - 1 = a
        BY <2>0, <2>2
      <3> QED BY <1>5, <2>3, <3>1
    <2>5. Blanks(r, 1, a - 1)
      <3>1. ASSUME NEW i \in 1 .. a - 1 PROVE r[i] = Blank
        <4>1. i \in 1 .. Len(r) /\ j + i \in j + 1 .. k
          BY <1>2, <2>0, <2>1, <2>2
        <4> QED BY <1>2, <1>5, <4>1 DEF Blanks
      <3> QED BY <3>1 DEF Blanks
    <2>6. CASE n = Len(b) /\ b[n] # Blank /\ Blanks(l, k + n + 1, Len(l))
      <3>1. PICK z : z = a + n - 1
        OBVIOUS
      <3>2. z \in 1 .. Len(r) /\ r[z] # Blank
        BY <2>0, <2>2, <2>3, <2>6, <3>1
      <3>3. Blanks(r, z + 1, Len(r))
        <4>1. ASSUME NEW i \in z + 1 .. Len(r) PROVE r[i] = Blank
          <5>1. i \in 1 .. Len(r) /\ j + i \in k + n + 1 .. Len(l)
            BY <1>2, <2>0, <2>1, <3>1, <3>2
          <5> QED BY <1>2, <2>6, <5>1 DEF Blanks
        <4> QED BY <4>1 DEF Blanks
      <3>4. Strip(r) = SubSeq(r, a, z)
        BY <1>2, <2>2, <2>4, <2>5, <3>2, <3>3, StripFacts
      <3>6. SubSeq(r, a, z) = b
        <4>1. PICK t : t = SubSeq(r, a, z)
          OBVIOUS
        <4>2. t \in Seq(Chars) /\ Len(t) = n /\ \A i \in 1 .. n : t[i] = r[a + i - 1]
          BY <1>6, <2>0, <2>2, <3>1, <3>2, <4>1
        <4>3. \A i \in 1 .. n : t[i] = b[i]
          BY <2>3, <4>2
        <4> QED BY <2>6, <4>1, <4>2, <4>3, SeqEqual
      <3> QED BY <3>4, <3>6
    <2>7. CASE b[n] = Blank /\ \E z \in k + n + 1 .. Len(l) : l[z] # Blank
      <3>1. PICK y \in k + n + 1 .. Len(l) : l[y] # Blank
        BY <2>7
      <3>2. y - j \in 1 .. Len(r) /\ y - j > a + n - 1 /\ j + (y - j) = y /\ y \in Nat
        BY <1>2, <2>0, <2>1
      <3>3. r[y - j] # Blank
        BY <1>2, <3>1, <3>2
      <3>4. ~Blanks(r, 1, Len(r))
        BY <3>2, <3>3 DEF Blanks
      <3>5. PICK c \in 1 .. Len(r), z \in 1 .. Len(r) :
                c <= z /\ r[c] # Blank /\ r[z] # Blank /\ Blanks(r, 1, c - 1) /\ Blanks(r, z + 1, Len(r))
        BY <1>2, <3>4, StripFacts
      <3>6. z >= y - j
        <4>1. ~(y - j \in z + 1 .. Len(r))
          BY <3>3, <3>5 DEF Blanks
        <4> QED BY <1>2, <3>2, <3>5, <4>1
      <3>7. Strip(r) = SubSeq(r, a, z)
        BY <1>2, <2>2, <2>4, <2>5, <3>5, StripFacts
      <3>8. PICK t : t = SubSeq(r, a, z)
        OBVIOUS
      <3>9. z \in Nat /\ z > a + n - 1 /\ a \in Nat /\ z <= Len(r)
        <4>1. z \in Nat /\ z <= Len(r)
          BY <1>2, <3>5
        <4>2. a \in Nat /\ n \in Nat
          BY <2>0, <2>2
        <4>3. PICK w : w = y - j
          OBVIOUS
        <4>4. w \in Nat /\ w > a + n - 1 /\ z >= w
          BY <3>2, <3>6, <4>3
        <4>5. z > a + n - 1
          BY ONLY <4>1, <4>2, <4>4
        <4> QED BY <4>1, <4>2, <4>5
      <3>10. Len(t) = z - a + 1 /\ \A i \in 1 .. z - a + 1 : t[i] = r[a + i - 1]
        BY <1>2, <1>6, <2>2, <3>8, <3>9
      <3>11. Len(t) \in Nat /\ n < Len(t) /\ \A i \in 1 .. n : t[i] = b[i]
        <4>1. Len(t) \in Nat /\ n < Len(t) /\ \A i \in 1 .. n : i \in 1 .. z - a + 1
          BY <2>0, <3>9, <3>10
        <4> QED BY <2>3, <3>10, <4>1
      <3>12. PICK p \in Nat : p = n - 1
        BY <2>0
      <3>13. p < Len(b) /\ p < Len(t) /\ p + 1 = n /\ b[p + 1] = Blank /\ \A i \in 1 .. p + 1 : b[i] = t[i]
        BY <1>3, <2>0, <2>7, <3>11, <3>12
      <3>14. Convert(v, b) = Convert(v, t)
        BY <1>3, <3>11, <3>13, SameValue
      <3> QED BY <3>7, <3>8, <3>14
    <2> QED BY <1>5, <2>6, <2>7
  <1> QED BY <1>1, <1>4, <1>5 DEF Collected

-----------------------------------------------------------------------------
(* What each action does, case by case. *)

\* A "#": a comment begins, and a setting in front of it is stored.
LEMMA HashDoes ==
    ASSUME Hash
    PROVE  /\ Read("#") /\ UNCHANGED <<category, value, buffer>>
           /\ mode = "text" => Commit /\ mode' = "comment" /\ space' = FALSE
           /\ mode = "category" => Abort /\ UNCHANGED settings
           /\ mode \notin {"text", "category"} => UNCHANGED <<mode, space, settings>>
  <1>1. Read("#") /\ UNCHANGED <<category, value, buffer>>
    BY DEF Hash
  <1>2. CASE mode = "text"
    BY <1>1, <1>2 DEF Hash
  <1>3. CASE mode = "category"
    BY <1>1, <1>3 DEF Hash
  <1>4. CASE mode \notin {"text", "category"}
    BY <1>1, <1>4 DEF Hash
  <1> QED BY <1>2, <1>3, <1>4

\* A "]" ends the name of a category.
LEMMA CloseDoes ==
    ASSUME CloseBracket
    PROVE  /\ Read("]") /\ UNCHANGED <<value, settings>>
           /\ mode = "category" => category' = Category(buffer) /\ mode' = "text" /\ space' = FALSE /\ buffer' = << >>
           /\ mode = "text" => Abort /\ UNCHANGED <<category, buffer>>
           /\ mode \notin {"text", "category"} => UNCHANGED <<category, mode, space, buffer>>
  <1>1. Read("]") /\ UNCHANGED <<value, settings>>
    BY DEF CloseBracket
  <1>2. CASE mode = "text"
    BY <1>1, <1>2 DEF CloseBracket
  <1>3. CASE mode = "category"
    BY <1>1, <1>3 DEF CloseBracket
  <1>4. CASE mode \notin {"text", "category"}
    BY <1>1, <1>4 DEF CloseBracket
  <1> QED BY <1>2, <1>3, <1>4

\* A "=" selects the setting that is named in front of it, if there is one.
LEMMA EqualsDoes ==
    ASSUME Equals
    PROVE  /\ Read("=") /\ UNCHANGED <<category, settings>>
           /\ mode = "text" /\ category = NoCategory => Abort /\ UNCHANGED <<value, buffer>>
           /\ mode = "text" /\ category # NoCategory =>
                /\ value' = IF Named(buffer) = {} THEN NoValue ELSE CHOOSE s \in Named(buffer) : TRUE
                /\ mode' = IF Named(buffer) = {} THEN "aborted" ELSE "text"
                /\ space' = FALSE /\ buffer' = << >>
           /\ mode = "category" => Abort /\ UNCHANGED <<value, buffer>>
           /\ mode \notin {"text", "category"} => UNCHANGED <<value, mode, space, buffer>>
  <1>1. Read("=") /\ UNCHANGED <<category, settings>>
    BY DEF Equals
  <1>2. CASE mode = "text" /\ category = NoCategory
    BY <1>1, <1>2 DEF Equals
  <1>3. CASE mode = "text" /\ category # NoCategory
    BY <1>1, <1>3 DEF Equals
  <1>4. CASE mode = "category"
    BY <1>1, <1>4 DEF Equals
  <1>5. CASE mode \notin {"text", "category"}
    BY <1>1, <1>5 DEF Equals
  <1> QED BY <1>2, <1>3, <1>4, <1>5

\* A blank is noted, unless nothing was collected yet.
LEMMA SpaceDoes ==
    ASSUME Space
    PROVE  /\ Read(Blank) /\ UNCHANGED <<category, value, buffer, settings>>
           /\ mode = "text" /\ buffer # << >> => space' = TRUE /\ UNCHANGED mode
           /\ mode = "category" => Abort
           /\ (mode # "text" \/ buffer = << >>) /\ mode # "category" => UNCHANGED <<mode, space>>
  <1>1. Read(Blank) /\ UNCHANGED <<category, value, buffer, settings>>
    BY DEF Space
  <1>2. CASE mode = "text" /\ buffer # << >>
    BY <1>1, <1>2 DEF Space
  <1>3. CASE mode = "category"
    BY <1>1, <1>3 DEF Space
  <1>4. CASE (mode # "text" \/ buffer = << >>) /\ mode # "category"
    BY <1>1, <1>4 DEF Space
  <1> QED BY <1>2, <1>3, <1>4

\* Any other character is added to the buffer, and the line is given up where the buffer is full.
LEMMA TextDoes ==
    ASSUME NEW c, Text(c)
    PROVE  /\ Read(c) /\ c \notin Special /\ UNCHANGED <<category, value, settings>>
           /\ mode \notin {"text", "category"} => UNCHANGED <<mode, space, buffer>>
           /\ mode \in {"text", "category"} /\ Len(buffer) + Len(Added(c)) < BUFFER =>
                buffer' = buffer \o Added(c) /\ UNCHANGED <<mode, space>>
           /\ mode \in {"text", "category"} /\ ~(Len(buffer) + Len(Added(c)) < BUFFER) =>
                buffer' = buffer \o SubSeq(Added(c), 1, BUFFER - 1 - Len(buffer)) /\ Abort
  <1>1. Read(c) /\ c \notin Special /\ UNCHANGED <<category, value, settings>>
    BY DEF Text
  <1>2. CASE mode \notin {"text", "category"}
    BY <1>1, <1>2 DEF Text
  <1>3. CASE mode \in {"text", "category"} /\ Len(buffer) + Len(Added(c)) < BUFFER
    BY <1>1, <1>3, Zenon DEF Text, Added
  <1>4. CASE mode \in {"text", "category"} /\ ~(Len(buffer) + Len(Added(c)) < BUFFER)
    BY <1>1, <1>4, Zenon DEF Text, Added
  <1> QED BY <1>2, <1>3, <1>4

-----------------------------------------------------------------------------
(* The types. *)

\* A character that is read is the line's next one.
LEMMA ReadTyped ==
    ASSUME Typed, NEW c, Read(c)
    PROVE  /\ c \in Chars /\ Grown(line, c, line') /\ ~done /\ done' = done
           /\ line' \in Seq(Chars) /\ Len(line') <= MaxLine /\ line' = Append(line, c)
  <1>1. line \in Seq(Chars) /\ c \in Chars /\ line' = Append(line, c)
    BY DEF Typed, SettingsTypeOK, Texts, Read
  <1>2. Grown(line, c, line')
    BY <1>1, AppendGrows
  <1>3. Len(line') = Len(line) + 1 /\ line' \in Seq(Chars)
    BY <1>2 DEF Grown
  <1>4. Len(line) < MaxLine /\ Len(line) \in Nat /\ MaxLine \in Nat
    BY <1>1, SettingsAssumption DEF Read
  <1>5. Len(line') <= MaxLine
    BY <1>3, <1>4
  <1> QED BY <1>1, <1>2, <1>3, <1>5 DEF Read

\* What settings_commit stores is an int.
LEMMA CommitTyped ==
    ASSUME Typed, Commit
    PROVE  settings' \in [Settings_ -> Int]
  <1>1. buffer \in Seq(Chars) /\ value \in Settings_ \cup {NoValue} /\ settings \in [Settings_ -> Int]
    BY DEF Typed, SettingsTypeOK, Texts
  <1>2. CASE value = NoValue \/ mode # "text" \/ Convert(value, buffer) = Bad
    BY <1>1, <1>2 DEF Commit
  <1>3. CASE ~(value = NoValue \/ mode # "text" \/ Convert(value, buffer) = Bad)
    <2>1. Convert(value, buffer) \in Int
      BY <1>1, <1>3, ConvertIsInt
    <2>2. settings' = [settings EXCEPT ![value] = Convert(value, buffer)]
      BY <1>3 DEF Commit
    <2> QED BY <1>1, <2>1, <2>2
  <1> QED BY <1>2, <1>3

\* What is added to the buffer.
LEMMA AddedFacts ==
    ASSUME Typed, NEW c \in Chars
    PROVE  Added(c) \in Seq(Chars) /\ Len(Added(c)) \in {1, 2}
  BY DEF Typed, SettingsTypeOK, Added

\* The setting with a name is one of the settings.
LEMMA NamedFacts ==
    ASSUME NEW b
    PROVE  Named(b) \subseteq Settings_ /\ (Named(b) # {} => (CHOOSE s \in Named(b) : TRUE) \in Named(b))
  BY DEF Named

\* Every character of the file keeps the types.
LEMMA TypedKeeps ==
    ASSUME Typed, [SettingsNext]_settingsVars
    PROVE  Typed'
  <1>0. /\ category \in {NoCategory, "network"} /\ value \in Settings_ \cup {NoValue}
        /\ mode \in {"text", "comment", "aborted", "category"} /\ space \in BOOLEAN
        /\ buffer \in Seq(Chars) /\ Len(buffer) < BUFFER /\ settings \in [Settings_ -> Int]
        /\ line \in Seq(Chars) /\ Len(line) <= MaxLine /\ done \in BOOLEAN
        /\ space => Blank \in Chars
    BY DEF Typed, SettingsTypeOK, Texts
  <1>1. << >> \in Seq(Chars) /\ Len(<< >>) = 0 /\ BUFFER \in Nat \ {0} /\ MaxLine \in Nat
    BY SettingsAssumption
  <1>2. ASSUME NEW c, Read(c) PROVE /\ line' \in Seq(Chars) /\ Len(line') <= MaxLine /\ done' \in BOOLEAN
                                   /\ c \in Chars
    BY <1>0, <1>2, ReadTyped
  <1>t. ASSUME category' \in {NoCategory, "network"}, value' \in Settings_ \cup {NoValue},
               mode' \in {"text", "comment", "aborted", "category"}, space' \in BOOLEAN, space' => Blank \in Chars,
               buffer' \in Seq(Chars), Len(buffer') < BUFFER, settings' \in [Settings_ -> Int],
               line' \in Seq(Chars), Len(line') <= MaxLine, done' \in BOOLEAN
        PROVE  Typed'
    BY <1>t, Zenon DEF Typed, SettingsTypeOK, Texts
  <1>s. ASSUME space' = FALSE \/ space' = space PROVE space' \in BOOLEAN /\ (space' => Blank \in Chars)
    <2>1. space \in BOOLEAN /\ (space => Blank \in Chars)
      BY <1>0
    <2>2. CASE space' = FALSE
      <3>1. ~space' /\ FALSE \in BOOLEAN
        BY <2>2
      <3> QED BY <2>2, <3>1, Zenon
    <2>3. CASE space' = space
      BY <2>1, <2>3, Zenon
    <2> QED BY <1>s, <2>2, <2>3
  <1>3. CASE Hash
    <2>1. settings' \in [Settings_ -> Int]
      BY <1>0, <1>3, HashDoes, CommitTyped
    <2>2. mode' \in {"text", "comment", "aborted", "category"} /\ (space' = FALSE \/ space' = space)
      BY <1>0, <1>3, HashDoes DEF Abort
    <2>3. UNCHANGED <<category, value, buffer>> /\ Read("#")
      BY <1>3, HashDoes
    <2>4. line' \in Seq(Chars) /\ Len(line') <= MaxLine /\ done' \in BOOLEAN
      BY <1>2, <2>3
    <2>5. space' \in BOOLEAN /\ (space' => Blank \in Chars)
      BY <1>s, <2>2
    <2> QED BY <1>0, <1>t, <2>1, <2>2, <2>3, <2>4, <2>5, Zenon
  <1>4. CASE NewLine
    <2>1. settings' \in [Settings_ -> Int]
      BY <1>0, <1>4, CommitTyped DEF NewLine
    <2>2. /\ value' = NoValue /\ mode' = "text" /\ space' = FALSE /\ buffer' = << >> /\ line' = << >>
          /\ UNCHANGED <<category, done>>
      BY <1>4 DEF NewLine
    <2>3. 0 < BUFFER /\ 0 <= MaxLine
      BY <1>1
    <2>4. Len(buffer') < BUFFER /\ Len(line') <= MaxLine
      BY <1>1, <2>2, <2>3, Zenon
    <2>5. space' \in BOOLEAN /\ (space' => Blank \in Chars)
      BY <1>s, <2>2, Zenon
    <2> QED BY <1>0, <1>1, <1>t, <2>1, <2>2, <2>4, <2>5, Zenon
  <1>5. CASE OpenBracket
    <2>1. /\ mode' \in {"text", "comment", "aborted", "category"} /\ space' = FALSE
          /\ UNCHANGED <<category, value, buffer, settings>> /\ Read("[")
      BY <1>5 DEF OpenBracket, Abort
    <2> QED BY <1>0, <1>2, <2>1 DEF Typed, SettingsTypeOK, Texts
  <1>6. CASE CloseBracket
    <2>1. /\ mode' \in {"text", "comment", "aborted", "category"} /\ (space' = FALSE \/ space' = space)
          /\ buffer' = buffer \/ buffer' = << >>
          /\ category' = category \/ category' = Category(buffer)
          /\ UNCHANGED <<value, settings>> /\ Read("]")
      BY <1>0, <1>6, CloseDoes DEF Abort
    <2>2. category' \in {NoCategory, "network"}
      BY <1>0, <2>1 DEF Category
    <2>3. buffer' \in Seq(Chars) /\ Len(buffer') < BUFFER
      <3>1. 0 < BUFFER
        BY <1>1
      <3>2. CASE buffer' = buffer
        BY <1>0, <3>2
      <3>3. CASE buffer' = << >>
        BY <1>1, <3>1, <3>3, Zenon
      <3> QED BY <2>1, <3>2, <3>3
    <2>4. line' \in Seq(Chars) /\ Len(line') <= MaxLine /\ done' \in BOOLEAN
      BY <1>2, <2>1
    <2>5. space' \in BOOLEAN /\ (space' => Blank \in Chars)
      BY <1>s, <2>1, Zenon
    <2> QED BY <1>0, <1>t, <2>1, <2>2, <2>3, <2>4, <2>5, Zenon
  <1>7. CASE Equals
    <2>1. /\ mode' \in {"text", "comment", "aborted", "category"} /\ (space' = FALSE \/ space' = space)
          /\ buffer' = buffer \/ buffer' = << >>
          /\ value' = value \/ value' = IF Named(buffer) = {} THEN NoValue ELSE CHOOSE s \in Named(buffer) : TRUE
          /\ UNCHANGED <<category, settings>> /\ Read("=")
      BY <1>0, <1>7, EqualsDoes DEF Abort
    <2>2. value' \in Settings_ \cup {NoValue}
      BY <1>0, <2>1, NamedFacts
    <2>3. buffer' \in Seq(Chars) /\ Len(buffer') < BUFFER
      <3>1. 0 < BUFFER
        BY <1>1
      <3>2. CASE buffer' = buffer
        BY <1>0, <3>2
      <3>3. CASE buffer' = << >>
        BY <1>1, <3>1, <3>3, Zenon
      <3> QED BY <2>1, <3>2, <3>3
    <2>4. line' \in Seq(Chars) /\ Len(line') <= MaxLine /\ done' \in BOOLEAN
      BY <1>2, <2>1
    <2>5. space' \in BOOLEAN /\ (space' => Blank \in Chars)
      BY <1>s, <2>1, Zenon
    <2> QED BY <1>0, <1>t, <2>1, <2>2, <2>3, <2>4, <2>5, Zenon
  <1>8. CASE Space
    <2>1. /\ mode' \in {"text", "comment", "aborted", "category"} /\ space' \in BOOLEAN
          /\ UNCHANGED <<category, value, buffer, settings>> /\ Read(Blank)
      BY <1>0, <1>8, SpaceDoes DEF Abort
    <2>2. Blank \in Chars
      BY <1>2, <2>1
    <2> QED BY <1>0, <1>2, <2>1, <2>2 DEF Typed, SettingsTypeOK, Texts
  <1>9. ASSUME NEW c \in Chars, Text(c) PROVE Typed'
    <2>1. /\ mode' \in {"text", "comment", "aborted", "category"} /\ (space' = FALSE \/ space' = space)
          /\ UNCHANGED <<category, value, settings>> /\ Read(c)
      BY <1>0, <1>9, TextDoes DEF Abort
    <2>2. PICK d \in Seq(Chars) : d = Added(c)
      BY AddedFacts
    <2>3. Len(d) \in {1, 2} /\ Len(buffer) \in Nat
      BY <1>0, <2>2, AddedFacts
    <2>4. buffer' \in Seq(Chars) /\ Len(buffer') < BUFFER
      <3>1. CASE mode \notin {"text", "category"}
        BY <1>0, <1>9, <3>1, TextDoes
      <3>2. CASE mode \in {"text", "category"} /\ Len(buffer) + Len(Added(c)) < BUFFER
        <4>1. buffer' = buffer \o d
          BY <1>9, <2>2, <3>2, TextDoes
        <4>2. buffer \o d \in Seq(Chars) /\ Len(buffer \o d) = Len(buffer) + Len(d)
          BY <1>0, ConcatProperties
        <4> QED BY <2>2, <3>2, <4>1, <4>2
      <3>3. CASE mode \in {"text", "category"} /\ ~(Len(buffer) + Len(Added(c)) < BUFFER)
        <4>1. PICK n : n = BUFFER - 1 - Len(buffer)
          OBVIOUS
        <4>2. PICK u : u = SubSeq(d, 1, n)
          OBVIOUS
        <4>3. buffer' = buffer \o u
          BY <1>9, <2>2, <3>3, <4>1, <4>2, TextDoes
        <4>4. n \in Nat /\ n <= Len(d)
          BY <1>0, <1>1, <2>2, <2>3, <3>3, <4>1
        <4>5. u \in Seq(Chars) /\ Len(u) = n
          <5>1. \A i \in 1 .. n : d[i] \in Chars
            BY <2>3, <4>4
          <5> QED BY <2>3, <4>2, <4>4, <5>1, SubSeqProperties
        <4>6. buffer \o u \in Seq(Chars) /\ Len(buffer \o u) = Len(buffer) + Len(u)
          BY <1>0, <4>5, ConcatProperties
        <4> QED BY <1>1, <2>3, <4>1, <4>3, <4>5, <4>6
      <3> QED BY <3>1, <3>2, <3>3
    <2>5. line' \in Seq(Chars) /\ Len(line') <= MaxLine /\ done' \in BOOLEAN
      BY <1>2, <2>1
    <2>6. space' \in BOOLEAN /\ (space' => Blank \in Chars)
      BY <1>s, <2>1, Zenon
    <2> QED BY <1>0, <1>t, <2>1, <2>4, <2>5, <2>6, Zenon
  <1>10. CASE EndOfFile
    <2>1. settings' \in [Settings_ -> Int]
      BY <1>0, <1>10, CommitTyped DEF EndOfFile
    <2> QED BY <1>0, <1>10, <2>1 DEF EndOfFile, Typed, SettingsTypeOK, Texts
  <1>11. CASE UNCHANGED settingsVars
    BY <1>11 DEF settingsVars, Typed, SettingsTypeOK, Texts
  <1> QED BY <1>3, <1>4, <1>5, <1>6, <1>7, <1>8, <1>9, <1>10, <1>11 DEF SettingsNext

\* The types when the file has been opened.
LEMMA TypedInit ==
    ASSUME SettingsInit
    PROVE  Typed
  <1>1. << >> \in Seq(Chars) /\ Len(<< >>) = 0 /\ BUFFER \in Nat \ {0} /\ MaxLine \in Nat
    BY SettingsAssumption
  <1>2. Default \in [Settings_ -> Int]
    BY DEF Default, Settings_
  <1>3. /\ category = NoCategory /\ value = NoValue /\ mode = "text" /\ space = FALSE
        /\ buffer = << >> /\ settings = Default /\ line = << >> /\ done = FALSE
    BY DEF SettingsInit
  <1>4. Len(buffer) < BUFFER /\ Len(line) <= MaxLine
    <2>1. 0 < BUFFER /\ 0 <= MaxLine
      BY <1>1
    <2> QED BY <1>1, <1>3, <2>1, Zenon
  <1> QED BY <1>1, <1>2, <1>3, <1>4, Zenon DEF Typed, SettingsTypeOK, Texts

-----------------------------------------------------------------------------
(* The text in the buffer is one of the line. *)

\* Characters that are not in a line are not in it when another one is read.
LEMMA WithoutGrows ==
    ASSUME NEW l, NEW c, NEW m, Grown(l, c, m), NEW x, c # x, NEW j \in 0 .. Len(l),
           \A i \in j + 1 .. Len(l) : l[i] # x
    PROVE  \A i \in j + 1 .. Len(m) : m[i] # x
  <1> TAKE i \in j + 1 .. Len(m)
  <1>1. Len(l) \in Nat /\ Len(m) = Len(l) + 1 /\ m[Len(l) + 1] = c /\ \A k \in 1 .. Len(l) : m[k] = l[k]
    BY DEF Grown
  <1>2. CASE i = Len(l) + 1
    BY <1>1, <1>2
  <1>3. CASE i # Len(l) + 1
    <2>1. i \in j + 1 .. Len(l) /\ i \in 1 .. Len(l)
      BY <1>1, <1>3
    <2> QED BY <1>1, <2>1
  <1> QED BY <1>2, <1>3

\* After "=" or "]" a text begins.
LEMMA BeginsBehind ==
    ASSUME NEW l, NEW c, NEW m, Grown(l, c, m), NEW v, v = NoValue \/ Selected(m, Len(m), v)
    PROVE  Len(m) \in 0 .. Len(m) /\ Begins(m, Len(m), << >>, 0, v)
  <1>1. Len(m) \in Nat /\ Len(m) \in 0 .. Len(m)
    BY DEF Grown
  <1>2. Collected(m, Len(m), << >>, 0)
    BY <1>1, CollectNothing
  <1>3. \A i \in Len(m) + 1 .. Len(m) : m[i] # "="
    BY <1>1
  <1>4. Selected(m, Len(m), v)
    BY DEF Selected
  <1> QED BY <1>1, <1>2, <1>3, <1>4 DEF Begins

\* The name before "=" selects its setting.
LEMMA NameSelects ==
    ASSUME NEW l, NEW m, Grown(l, "=", m), NEW j \in 0 .. Len(l), NEW b, NEW sp \in {0, 1},
           Collected(l, j, b, sp), NEW v \in Settings_, Name[v] = b
    PROVE  Selected(m, Len(m), v)
  <1>1. /\ Len(l) \in Nat /\ Len(m) = Len(l) + 1 /\ m[Len(l) + 1] = "=" /\ \A k \in 1 .. Len(l) : m[k] = l[k]
        /\ Len(m) \in Nat
    BY DEF Grown
  <1>2. PICK x : b = <<x>>
    BY DEF Settings_, Name
  <1>3. PICK i \in j + 1 .. Len(l) : l[i] = x /\ Blanks(l, i + 1, Len(l))
    BY <1>1, <1>2, NameFound
  <1>4. i \in 1 .. Len(l) /\ \A a \in i + 1 .. Len(l) : a \in 1 .. Len(l)
    BY <1>1, <1>3
  <1>5. Blanks(m, i + 1, Len(l))
    BY <1>1, <1>3, <1>4 DEF Blanks
  <1>6. Len(m) - 1 = Len(l) /\ i \in 1 .. Len(m) - 1 /\ Len(m) >= 1 /\ m[Len(m)] = "=" /\ <<m[i]>> = Name[v]
    BY <1>1, <1>2, <1>3, <1>4
  <1>7. Blanks(m, i + 1, Len(m) - 1)
    BY <1>5, <1>6
  <1> QED BY <1>6, <1>7 DEF Selected

\* Every character of the file keeps what is known of the text in the buffer.
LEMMA WrittenKeeps ==
    ASSUME WrittenInv, [SettingsNext]_settingsVars
    PROVE  WrittenInv'
  <1>0. Typed /\ Written /\ Typed'
    BY TypedKeeps DEF WrittenInv
  <1>a. /\ value \in Settings_ \cup {NoValue} /\ mode \in {"text", "comment", "aborted", "category"}
        /\ space \in BOOLEAN /\ buffer \in Seq(Chars) /\ line \in Seq(Chars) /\ (space => Blank \in Chars)
    BY <1>0 DEF Typed, SettingsTypeOK, Texts
  <1>d. /\ Noted \in {0, 1} /\ (Noted = 1 => Blank \in Chars)
        /\ (space' = FALSE => Noted' = 0) /\ (space' = TRUE => Noted' = 1) /\ (space' = space => Noted' = Noted)
    <2>1. (space => Noted = 1) /\ (~space => Noted = 0) /\ (space' => Noted' = 1) /\ (~space' => Noted' = 0)
      BY Zenon DEF Noted
    <2>2. (space \/ ~space) /\ (space => Blank \in Chars)
      BY <1>a
    <2>3. 0 # 1
      OBVIOUS
    <2> QED BY <2>1, <2>2, <2>3, Zenon
  <1>b. ASSUME NEW c, Read(c), c # "#", mode \in {"text", "category"}
        PROVE  \A i \in 1 .. Len(line') : line'[i] # "#"
    <2>1. Grown(line, c, line')
      BY <1>0, <1>b, ReadTyped
    <2>2. PICK j : j = 0
      OBVIOUS
    <2>3. j \in 0 .. Len(line) /\ j + 1 = 1
      BY <2>1, <2>2 DEF Grown
    <2>4. \A i \in j + 1 .. Len(line) : line[i] # "#"
      BY <1>0, <1>b, <2>3 DEF Written
    <2>5. \A i \in j + 1 .. Len(line') : line'[i] # "#"
      <3>1. PICK m : m = line'
        OBVIOUS
      <3>2. \A i \in j + 1 .. Len(m) : m[i] # "#"
        BY <1>b, <2>1, <2>3, <2>4, <3>1, WithoutGrows
      <3> QED BY <3>1, <3>2
    <2> QED BY <2>3, <2>5
  <1>c. ASSUME mode' \notin {"text", "category"} PROVE Written'
    BY <1>c DEF Written
  <1>1. CASE Hash
    <2>1. mode' \notin {"text", "category"}
      BY <1>1, <1>a, HashDoes DEF Abort
    <2> QED BY <1>0, <1>c, <2>1 DEF WrittenInv
  <1>2. CASE NewLine
    <2>1. mode' = "text" /\ value' = NoValue /\ space' = FALSE /\ buffer' = << >> /\ line' = << >>
      BY <1>2 DEF NewLine
    <2>2. PICK m : m = line'
      OBVIOUS
    <2>3. Len(m) = 0 /\ Len(m) \in Nat
      BY <2>1, <2>2
    <2>4. Collected(m, 0, << >>, 0)
      BY <2>3, CollectNothing
    <2>5. Begins(m, 0, << >>, 0, NoValue)
      <3>1. \A i \in 0 + 1 .. Len(m) : m[i] # "="
        BY <2>3
      <3> QED BY <2>4, <3>1 DEF Begins, Selected
    <2>6. 0 \in 0 .. Len(m) /\ \A i \in 1 .. Len(m) : m[i] # "#"
      BY <2>3
    <2>7. Written'
      BY <1>d, <2>1, <2>2, <2>5, <2>6 DEF Written
    <2> QED BY <1>0, <2>7 DEF WrittenInv
  <1>3. CASE OpenBracket
    <2>1. Read("[") /\ UNCHANGED <<value, buffer>>
      BY <1>3 DEF OpenBracket
    <2>2. mode' = "aborted" \/ (mode = "text" /\ value = NoValue /\ mode' = "category")
      BY <1>3 DEF OpenBracket, Abort
    <2>3. CASE mode' = "aborted"
      BY <1>0, <1>c, <2>3 DEF WrittenInv
    <2>4. CASE mode = "text" /\ value = NoValue /\ mode' = "category"
      <3>1. \A i \in 1 .. Len(line') : line'[i] # "#"
        BY <1>b, <2>1, <2>4
      <3>2. Written'
        BY <2>1, <2>4, <3>1 DEF Written
      <3> QED BY <1>0, <3>2 DEF WrittenInv
    <2> QED BY <2>2, <2>3, <2>4
  <1>4. CASE CloseBracket
    <2>1. Read("]") /\ value' = value /\ Grown(line, "]", line')
      BY <1>0, <1>4, CloseDoes, ReadTyped
    <2>2. CASE mode # "category"
      <3>1. mode' \notin {"text", "category"}
        BY <1>4, <1>a, <2>2, CloseDoes DEF Abort
      <3> QED BY <1>0, <1>c, <3>1 DEF WrittenInv
    <2>3. CASE mode = "category"
      <3>1. mode' = "text" /\ space' = FALSE /\ buffer' = << >> /\ value = NoValue
        BY <1>0, <1>4, <2>3, CloseDoes DEF Written
      <3>2. \A i \in 1 .. Len(line') : line'[i] # "#"
        BY <1>b, <2>1, <2>3
      <3>3. PICK m : m = line'
        OBVIOUS
      <3>4. Len(m) \in 0 .. Len(m) /\ Begins(m, Len(m), << >>, 0, NoValue)
        BY <2>1, <3>3, BeginsBehind
      <3>5. Written'
        BY <1>d, <2>1, <3>1, <3>2, <3>3, <3>4 DEF Written
      <3> QED BY <1>0, <3>5 DEF WrittenInv
    <2> QED BY <2>2, <2>3
  <1>5. CASE Equals
    <2>1. Read("=") /\ Grown(line, "=", line')
      BY <1>0, <1>5, EqualsDoes, ReadTyped
    <2>2. CASE mode = "text" /\ category # NoCategory /\ Named(buffer) # {}
      <3>1. PICK v : v = CHOOSE s \in Named(buffer) : TRUE
        OBVIOUS
      <3>2. v \in Settings_ /\ Name[v] = buffer
        BY <2>2, <3>1, NamedFacts DEF Named
      <3>3. value' = v /\ mode' = "text" /\ space' = FALSE /\ buffer' = << >>
        BY <1>5, <2>2, <3>1, EqualsDoes
      <3>4. PICK j \in 0 .. Len(line) : Begins(line, j, buffer, Noted, value)
        BY <1>0, <2>2 DEF Written
      <3>5. PICK m : m = line'
        OBVIOUS
      <3>6. Selected(m, Len(m), v)
        <4>1. PICK n \in {0, 1} : n = Noted
          BY <1>d
        <4>2. Collected(line, j, buffer, n) /\ Grown(line, "=", m)
          BY <2>1, <3>4, <3>5, <4>1 DEF Begins
        <4> QED BY <3>2, <4>2, NameSelects
      <3>7. Len(m) \in 0 .. Len(m) /\ Begins(m, Len(m), << >>, 0, v)
        BY <2>1, <3>5, <3>6, BeginsBehind
      <3>8. \A i \in 1 .. Len(line') : line'[i] # "#"
        BY <1>b, <2>1, <2>2
      <3>9. Written'
        BY <1>d, <3>3, <3>5, <3>7, <3>8 DEF Written
      <3> QED BY <1>0, <3>9 DEF WrittenInv
    <2>3. CASE ~(mode = "text" /\ category # NoCategory /\ Named(buffer) # {})
      <3>1. mode' \notin {"text", "category"}
        BY <1>5, <1>a, <2>3, EqualsDoes DEF Abort
      <3> QED BY <1>0, <1>c, <3>1 DEF WrittenInv
    <2> QED BY <2>2, <2>3
  <1>6. CASE Space
    <2>1. /\ Read(Blank) /\ Grown(line, Blank, line') /\ buffer' = buffer /\ value' = value
          /\ Blank # "#" /\ Blank # "="
      BY <1>0, <1>6, SpaceDoes, ReadTyped, BlankFacts
    <2>2. CASE mode = "text"
      <3>1. mode' = "text" /\ (IF buffer = << >> THEN space' = space ELSE space' = TRUE)
        BY <1>6, <2>2, SpaceDoes
      <3>11. mode' = "text" /\ Noted' = IF buffer = << >> THEN Noted ELSE 1
        BY <1>d, <3>1, Zenon
      <3>2. PICK j \in 0 .. Len(line) : Begins(line, j, buffer, Noted, value)
        BY <1>0, <2>2 DEF Written
      <3>3. PICK m, sp : m = line' /\ sp = IF buffer = << >> THEN Noted ELSE 1
        OBVIOUS
      <3>4. Grown(line, Blank, m)
        BY <2>1, <3>3
      <3>5. Collected(m, j, buffer, sp)
        <4>1. Collected(line, j, buffer, Noted)
          BY <3>2 DEF Begins
        <4>2. IF buffer = << >> THEN Collected(m, j, buffer, Noted) ELSE Collected(m, j, buffer, 1)
          <5>1. PICK b \in Seq(Chars), s0 \in {0, 1} : b = buffer /\ s0 = Noted
            BY <1>a, <1>d, Zenon
          <5>2. Collected(line, j, b, s0)
            BY <4>1, <5>1, Zenon
          <5>3. IF b = << >> THEN Collected(m, j, b, s0) ELSE Collected(m, j, b, 1)
            <6>1. PICK l : l = line
              OBVIOUS
            <6>2. Grown(l, Blank, m) /\ j \in 0 .. Len(l) /\ b \in Seq(Chars) /\ s0 \in {0, 1} /\ Collected(l, j, b, s0)
              BY <3>4, <5>2, <6>1, Zenon
            <6> QED BY ONLY <6>2, CollectBlank
          <5> QED BY <5>1, <5>3, Zenon
        <4> QED BY <3>3, <4>2, Zenon
      <3>6. Selected(m, j, value)
        BY <3>2, <3>4, SelectedGrows DEF Begins
      <3>7. \A i \in j + 1 .. Len(m) : m[i] # "="
        BY <2>1, <3>2, <3>4, WithoutGrows DEF Begins
      <3>8. j \in 0 .. Len(m) /\ Begins(m, j, buffer, sp, value)
        BY <3>4, <3>5, <3>6, <3>7 DEF Begins, Grown
      <3>9. \A i \in 1 .. Len(line') : line'[i] # "#"
        BY <1>b, <2>1, <2>2
      <3>10. Written'
        BY <2>1, <3>11, <3>3, <3>8, <3>9 DEF Written
      <3> QED BY <1>0, <3>10 DEF WrittenInv
    <2>3. CASE mode # "text"
      <3>1. mode' \notin {"text", "category"}
        BY <1>6, <1>a, <2>3, SpaceDoes DEF Abort
      <3> QED BY <1>0, <1>c, <3>1 DEF WrittenInv
    <2> QED BY <2>2, <2>3
  <1>7. ASSUME NEW c \in Chars, Text(c) PROVE WrittenInv'
    <2>1. /\ Read(c) /\ Grown(line, c, line') /\ value' = value
          /\ c # "#" /\ c # "=" /\ c # Blank
      BY <1>0, <1>7, TextDoes, ReadTyped DEF Special
    <2>2. CASE mode \in {"text", "category"} /\ Len(buffer) + Len(Added(c)) < BUFFER
      <3>0. buffer' = buffer \o Added(c) /\ mode' = mode /\ space' = space
        BY <1>7, <2>2, TextDoes
      <3>1. \A i \in 1 .. Len(line') : line'[i] # "#"
        BY <1>b, <2>1, <2>2
      <3>2. CASE mode = "category"
        <4>1. Written'
          BY <1>0, <2>1, <3>0, <3>1, <3>2 DEF Written
        <4> QED BY <1>0, <4>1 DEF WrittenInv
      <3>3. CASE mode = "text"
        <4>1. PICK j \in 0 .. Len(line) : Begins(line, j, buffer, Noted, value)
          BY <1>0, <3>3 DEF Written
        <4>2. PICK m, t : m = line' /\ t = buffer \o Added(c)
          OBVIOUS
        <4>3. Grown(line, c, m) /\ Extended(buffer, Noted, c, t)
          BY <1>0, <2>1, <4>2, AddedExtends
        <4>4. Collected(m, j, t, Noted)
          <5>1. Collected(line, j, buffer, Noted) /\ c \in Chars /\ c # Blank
            BY <2>1, <4>1 DEF Begins
          <5>2. PICK b, s0, l : b = buffer /\ s0 = Noted /\ l = line
            OBVIOUS
          <5>3. /\ Grown(l, c, m) /\ j \in 0 .. Len(l) /\ b \in Seq(Chars) /\ s0 \in {0, 1}
                /\ Collected(l, j, b, s0) /\ c \in Chars /\ c # Blank /\ Extended(b, s0, c, t)
            BY <1>a, <1>d, <4>3, <5>1, <5>2, Zenon
          <5>4. Collected(m, j, t, s0)
            BY ONLY <5>3, CollectText
          <5> QED BY <5>2, <5>4, Zenon
        <4>5. Selected(m, j, value)
          BY <4>1, <4>3, SelectedGrows DEF Begins
        <4>6. \A i \in j + 1 .. Len(m) : m[i] # "="
          BY <2>1, <4>1, <4>3, WithoutGrows DEF Begins
        <4>7. j \in 0 .. Len(m) /\ Begins(m, j, t, Noted, value)
          BY <4>3, <4>4, <4>5, <4>6 DEF Begins, Grown
        <4>8. Written'
          BY <1>d, <2>1, <3>0, <3>1, <3>3, <4>2, <4>7 DEF Written
        <4> QED BY <1>0, <4>8 DEF WrittenInv
      <3> QED BY <2>2, <3>2, <3>3
    <2>3. CASE ~(mode \in {"text", "category"} /\ Len(buffer) + Len(Added(c)) < BUFFER)
      <3>1. mode' \notin {"text", "category"}
        BY <1>7, <1>a, <2>3, TextDoes DEF Abort
      <3> QED BY <1>0, <1>c, <3>1 DEF WrittenInv
    <2> QED BY <2>2, <2>3
  <1>8. CASE EndOfFile
    <2>1. UNCHANGED <<value, mode, space, buffer, line>>
      BY <1>8 DEF EndOfFile
    <2>2. Written'
      BY <1>0, <1>d, <2>1 DEF Written
    <2> QED BY <1>0, <2>2 DEF WrittenInv
  <1>9. CASE UNCHANGED settingsVars
    <2>1. Written'
      BY <1>0, <1>9, <1>d DEF Written, settingsVars
    <2> QED BY <1>0, <2>1 DEF WrittenInv
  <1> QED BY <1>1, <1>2, <1>3, <1>4, <1>5, <1>6, <1>7, <1>8, <1>9 DEF SettingsNext

-----------------------------------------------------------------------------
(* A line that sets the address, character by character. *)

\* A line of blanks has grown from a line of blanks.
LEMMA NoTextGrows ==
    ASSUME NEW l, NEW c, NEW m, Grown(l, c, m), Blanks(m, 1, Len(m))
    PROVE  c = Blank /\ Blanks(l, 1, Len(l))
  <1>1. Len(l) \in Nat /\ Len(m) = Len(l) + 1 /\ m[Len(l) + 1] = c /\ \A i \in 1 .. Len(l) : m[i] = l[i]
    BY DEF Grown
  <1>2. Len(l) + 1 \in 1 .. Len(m) /\ \A i \in 1 .. Len(l) : i \in 1 .. Len(m)
    BY <1>1
  <1> QED BY <1>1, <1>2 DEF Blanks

\* A line that has grown to a name was one with the name and a blank came, or blanks and the name's character
\* came.
LEMMA NameGrows ==
    ASSUME NEW l, NEW c, NEW m, Grown(l, c, m), NEW h \in 1 .. Len(m), HostName(m, h, Len(m))
    PROVE  \/ h \in 1 .. Len(l) /\ c = Blank /\ HostName(l, h, Len(l))
           \/ h = Len(m) /\ c = "h" /\ Blanks(l, 1, Len(l))
  <1>1. Len(l) \in Nat /\ Len(m) = Len(l) + 1 /\ m[Len(l) + 1] = c /\ \A i \in 1 .. Len(l) : m[i] = l[i]
    BY DEF Grown
  <1>2. m[h] = "h" /\ Blanks(m, 1, h - 1) /\ Blanks(m, h + 1, Len(m))
    BY DEF HostName
  <1>3. CASE h = Len(m)
    <2>1. \A i \in 1 .. Len(l) : i \in 1 .. h - 1
      BY <1>1, <1>3
    <2>2. Blanks(l, 1, Len(l))
      BY <1>1, <1>2, <2>1 DEF Blanks
    <2> QED BY <1>1, <1>2, <1>3, <2>2
  <1>4. CASE h # Len(m)
    <2>1. /\ h \in 1 .. Len(l) /\ Len(m) \in h + 1 .. Len(m)
          /\ \A i \in 1 .. h - 1 : i \in 1 .. Len(l)
          /\ \A i \in h + 1 .. Len(l) : i \in 1 .. Len(l) /\ i \in h + 1 .. Len(m)
      BY <1>1, <1>4
    <2>2. c = Blank
      BY <1>1, <1>2, <2>1 DEF Blanks
    <2>3. Blanks(l, 1, h - 1) /\ Blanks(l, h + 1, Len(l))
      BY <1>1, <1>2, <2>1 DEF Blanks
    <2>4. l[h] = "h"
      BY <1>1, <1>2, <2>1
    <2> QED BY <2>1, <2>2, <2>3, <2>4 DEF HostName
  <1> QED BY <1>3, <1>4

\* A line that has grown to a name and a "=" was that before, or just the name and the "=" came.
LEMMA AddressGrows ==
    ASSUME NEW l, NEW c, NEW m, Grown(l, c, m), NEW e \in 1 .. Len(m), NEW h \in 1 .. Len(m),
           h < e, HostName(m, h, e - 1), m[e] = "="
    PROVE  /\ h \in 1 .. Len(l)
           /\ \/ e = Len(m) /\ c = "=" /\ HostName(l, h, Len(l))
              \/ e \in 1 .. Len(l) /\ HostName(l, h, e - 1) /\ l[e] = "="
  <1>1. Len(l) \in Nat /\ Len(m) = Len(l) + 1 /\ m[Len(l) + 1] = c /\ \A i \in 1 .. Len(l) : m[i] = l[i]
    BY DEF Grown
  <1>2. m[h] = "h" /\ Blanks(m, 1, h - 1) /\ Blanks(m, h + 1, e - 1)
    BY DEF HostName
  <1>3. /\ h \in 1 .. Len(l) /\ e - 1 <= Len(l) /\ e - 1 \in Nat
        /\ \A i \in 1 .. h - 1 : i \in 1 .. Len(l)
        /\ \A i \in h + 1 .. e - 1 : i \in 1 .. Len(l)
    BY <1>1
  <1>4. Blanks(l, 1, h - 1) /\ Blanks(l, h + 1, e - 1) /\ l[h] = "h"
    BY <1>1, <1>2, <1>3 DEF Blanks
  <1>5. CASE e = Len(m)
    <2>1. e - 1 = Len(l)
      BY <1>1, <1>5
    <2> QED BY <1>1, <1>3, <1>4, <1>5, <2>1 DEF HostName
  <1>6. CASE e # Len(m)
    <2>1. e \in 1 .. Len(l)
      BY <1>1, <1>6
    <2> QED BY <1>1, <1>3, <1>4, <2>1 DEF HostName
  <1> QED BY <1>5, <1>6

\* A line that has grown to an address behind the "=" had the address or a beginning of it, or only blanks
\* there.
LEMMA PlainGrows ==
    ASSUME NEW l, NEW c, NEW m, Grown(l, c, m), NEW e \in 1 .. Len(l),
           NEW a \in e + 1 .. Len(m), NEW z \in e + 1 .. Len(m), a <= z, Plain(m, e, a, z)
    PROVE  \/ z \in e + 1 .. Len(l) /\ a \in e + 1 .. Len(l) /\ c = Blank /\ Plain(l, e, a, z)
           \/ z = Len(m) /\ c \notin Special /\ a \in e + 1 .. Len(l) /\ Plain(l, e, a, Len(l))
           \/ z = Len(m) /\ c \notin Special /\ a = Len(m) /\ Blanks(l, e + 1, Len(l))
  <1>1. Len(l) \in Nat /\ Len(m) = Len(l) + 1 /\ m[Len(l) + 1] = c /\ \A i \in 1 .. Len(l) : m[i] = l[i]
    BY DEF Grown
  <1>2. Blanks(m, e + 1, a - 1) /\ Blanks(m, z + 1, Len(m)) /\ \A i \in a .. z : m[i] \notin Special
    BY DEF Plain
  <1>0. e \in Nat /\ a \in Nat /\ z \in Nat /\ e < a /\ z <= Len(m)
    BY <1>1
  <1>3. Blanks(l, e + 1, a - 1)
    <2>1. \A i \in e + 1 .. a - 1 : i \in 1 .. Len(l)
      BY <1>0, <1>1
    <2> QED BY <1>1, <1>2, <2>1 DEF Blanks
  <1>4. CASE z # Len(m)
    <2>1. /\ z \in e + 1 .. Len(l) /\ a \in e + 1 .. Len(l) /\ Len(m) \in z + 1 .. Len(m)
          /\ \A i \in z + 1 .. Len(l) : i \in 1 .. Len(l) /\ i \in z + 1 .. Len(m)
          /\ \A i \in a .. z : i \in 1 .. Len(l)
      BY <1>0, <1>1, <1>4
    <2>2. c = Blank /\ Blanks(l, z + 1, Len(l))
      BY <1>1, <1>2, <2>1 DEF Blanks
    <2>3. \A i \in a .. z : l[i] \notin Special
      BY <1>1, <1>2, <2>1
    <2> QED BY <1>3, <2>1, <2>2, <2>3 DEF Plain
  <1>5. CASE z = Len(m)
    <2>1. c \notin Special
      <3>1. z \in a .. z /\ z = Len(l) + 1
        BY <1>0, <1>1, <1>5
      <3> QED BY <1>1, <1>2, <3>1
    <2>2. CASE a = Len(m)
      <3>1. a - 1 = Len(l)
        BY <1>1, <2>2
      <3> QED BY <1>3, <1>5, <2>1, <2>2, <3>1
    <2>3. CASE a # Len(m)
      <3>1. /\ a \in e + 1 .. Len(l)
            /\ \A i \in a .. Len(l) : i \in 1 .. Len(l) /\ i \in a .. z
        BY <1>0, <1>1, <1>5, <2>3
      <3>2. \A i \in a .. Len(l) : l[i] \notin Special
        BY <1>1, <1>2, <3>1
      <3>3. Blanks(l, Len(l) + 1, Len(l))
        BY <1>1 DEF Blanks
      <3> QED BY <1>3, <1>5, <2>1, <3>1, <3>2, <3>3 DEF Plain
    <2> QED BY <2>2, <2>3
  <1> QED BY <1>4, <1>5

\* The part of a line that has grown.
LEMMA PartGrows ==
    ASSUME NEW l, NEW c \in Chars, NEW m, Grown(l, c, m), NEW a \in 1 .. Len(m)
    PROVE  /\ \A z \in a .. Len(l) : /\ SubSeq(m, a, z) = SubSeq(l, a, z)
                                     /\ Len(SubSeq(l, a, z)) = z - a + 1 /\ SubSeq(l, a, z) \in Seq(Chars)
           /\ a <= Len(l) => SubSeq(m, a, Len(m)) = SubSeq(l, a, Len(l)) \o <<c>>
           /\ a = Len(m) => SubSeq(m, a, Len(m)) = << >> \o <<c>>
  <1>1. /\ l \in Seq(Chars) /\ m \in Seq(Chars) /\ Len(l) \in Nat /\ Len(m) = Len(l) + 1
        /\ m[Len(l) + 1] = c /\ \A i \in 1 .. Len(l) : m[i] = l[i]
    BY DEF Grown
  <1>2. ASSUME NEW z \in a .. Len(l)
        PROVE  /\ SubSeq(m, a, z) = SubSeq(l, a, z)
               /\ Len(SubSeq(l, a, z)) = z - a + 1 /\ SubSeq(l, a, z) \in Seq(Chars)
               /\ \A i \in 1 .. z - a + 1 : SubSeq(l, a, z)[i] = l[a + i - 1]
    <2>1. PICK u, v : u = SubSeq(m, a, z) /\ v = SubSeq(l, a, z)
      OBVIOUS
    <2>2. \A i \in a .. z : i \in 1 .. Len(l) /\ i \in 1 .. Len(m)
      BY <1>1
    <2>3. u \in Seq(Chars) /\ Len(u) = z - a + 1 /\ \A i \in 1 .. z - a + 1 : u[i] = m[a + i - 1]
      BY <1>1, <2>1, <2>2
    <2>4. v \in Seq(Chars) /\ Len(v) = z - a + 1 /\ \A i \in 1 .. z - a + 1 : v[i] = l[a + i - 1]
      BY <1>1, <2>1, <2>2
    <2>5. \A i \in 1 .. z - a + 1 : a + i - 1 \in 1 .. Len(l)
      BY <1>1
    <2>6. \A i \in 1 .. Len(u) : u[i] = v[i]
      BY <1>1, <2>3, <2>4, <2>5
    <2>7. u = v
      BY <2>3, <2>4, <2>6, SeqEqual
    <2> QED BY <2>1, <2>4, <2>7
  <1>3. PICK w : w = SubSeq(m, a, Len(m))
    OBVIOUS
  <1>4. w \in Seq(Chars) /\ Len(w) = Len(m) - a + 1 /\ \A i \in 1 .. Len(m) - a + 1 : w[i] = m[a + i - 1]
    <2>1. \A i \in a .. Len(m) : i \in 1 .. Len(m)
      BY <1>1
    <2> QED BY <1>1, <1>3, <2>1
  <1>5. ASSUME a <= Len(l) PROVE w = SubSeq(l, a, Len(l)) \o <<c>>
    <2>1. PICK v : v = SubSeq(l, a, Len(l))
      OBVIOUS
    <2>2. v \in Seq(Chars) /\ Len(v) = Len(l) - a + 1 /\ \A i \in 1 .. Len(l) - a + 1 : v[i] = l[a + i - 1]
      BY <1>1, <1>2, <1>5, <2>1
    <2>3. PICK t : t = v \o <<c>>
      OBVIOUS
    <2>4. Len(t) = Len(v) + 1 /\ t[Len(v) + 1] = c /\ \A i \in 1 .. Len(v) : t[i] = v[i]
      BY <2>2, <2>3, Joined
    <2>5. t \in Seq(Chars)
      BY <2>2, <2>3
    <2>6. Len(t) = Len(w)
      BY <1>1, <1>4, <2>2, <2>4
    <2>7. \A i \in 1 .. Len(t) : t[i] = w[i]
      <3> TAKE i \in 1 .. Len(t)
      <3>1. i \in Nat /\ i >= 1 /\ i <= Len(l) - a + 2 /\ Len(v) = Len(l) - a + 1
        BY <1>1, <1>5, <2>2, <2>4
      <3>2. w[i] = m[a + i - 1]
        BY <1>1, <1>4, <3>1
      <3>3. CASE i = Len(v) + 1
        <4>1. a + i - 1 = Len(l) + 1
          BY <1>1, <3>1, <3>3
        <4> QED BY <1>1, <2>4, <3>2, <3>3, <4>1
      <3>4. CASE i # Len(v) + 1
        <4>1. i \in 1 .. Len(v) /\ i \in 1 .. Len(l) - a + 1 /\ a + i - 1 \in 1 .. Len(l)
          BY <1>1, <3>1, <3>4
        <4> QED BY <1>1, <2>2, <2>4, <3>2, <4>1
      <3> QED BY <3>3, <3>4
    <2>8. t = w
      BY <1>4, <2>5, <2>6, <2>7, SeqEqual
    <2> QED BY <2>1, <2>3, <2>8
  <1>6. ASSUME a = Len(m) PROVE w = << >> \o <<c>>
    <2>1. Len(w) = 1 /\ w[1] = c
      <3>1. Len(m) - a + 1 = 1 /\ 1 \in 1 .. 1 /\ a + 1 - 1 = Len(l) + 1
        BY <1>1, <1>6
      <3> QED BY <1>1, <1>4, <3>1
    <2>2. PICK t : t = << >> \o <<c>>
      OBVIOUS
    <2>3. << >> \in Seq(Chars) /\ Len(<< >>) = 0
      OBVIOUS
    <2>4. Len(t) = 1 /\ t[1] = c /\ t \in Seq(Chars)
      <3>1. PICK b \in Seq(Chars) : b = << >>
        BY <2>3
      <3>2. t = b \o <<c>> /\ Len(b) = 0
        BY <2>2, <2>3, <3>1
      <3>3. Len(t) = Len(b) + 1 /\ t[Len(b) + 1] = c
        BY <3>2, Joined
      <3>4. t \in Seq(Chars)
        BY <3>2
      <3> QED BY <3>2, <3>3, <3>4
    <2>5. t = w
      BY <1>4, <2>1, <2>4, SeqEqual
    <2> QED BY <2>2, <2>5
  <1> QED BY <1>2, <1>3, <1>5, <1>6

\* The automaton waits for more in the next state.
ReadyNext(v, b, n) == mode' = "text" /\ value' = v /\ buffer' = b /\ Noted' = n

\* What the reader has to know after a character, for each form that the line may have, is what AddressInv
\* says.
LEMMA AddressNext ==
    ASSUME NEW m, m = line', NEW cat, cat = category',
           Blanks(m, 1, Len(m)) => ReadyNext(NoValue, << >>, 0),
           BUFFER >= 2 => \A h \in 1 .. Len(m) : HostName(m, h, Len(m)) =>
               ReadyNext(NoValue, <<"h">>, IF h < Len(m) THEN 1 ELSE 0),
           BUFFER >= 2 /\ cat # NoCategory => \A e \in 1 .. Len(m), h \in 1 .. Len(m) :
               h < e /\ HostName(m, h, e - 1) /\ m[e] = "=" =>
                 /\ Blanks(m, e + 1, Len(m)) => ReadyNext("host_ip", << >>, 0)
                 /\ \A a, z \in e + 1 .. Len(m) : a <= z /\ z - a + 1 < BUFFER /\ Plain(m, e, a, z) =>
                       ReadyNext("host_ip", SubSeq(m, a, z), IF z < Len(m) THEN 1 ELSE 0)
    PROVE  AddressInv'
  BY Zenon DEF AddressInv, NoText, NameRead, AddressRead, Ready, ReadyNext

\* What is read of a line with the address, when the automaton takes the character as it should.
LEMMA AddressReads ==
    ASSUME Typed, AddressInv, NEW c, Read(c),
           c = Blank => \A v, b : \A n \in {0, 1} : Ready(v, b, n) => ReadyNext(v, b, IF b = << >> THEN n ELSE 1),
           c \notin Special => \A v, b : Ready(v, b, 0) /\ Len(b) + 1 < BUFFER => ReadyNext(v, b \o <<c>>, 0),
           c = "=" => \A n \in {0, 1} : Ready(NoValue, <<"h">>, n) /\ category # NoCategory =>
                           ReadyNext("host_ip", << >>, 0),
           category' = category \/ c = "]"
    PROVE  AddressInv'
  <1>1. PICK l, m, cat : l = line /\ m = line' /\ cat = category'
    OBVIOUS
  <1>2. Grown(l, c, m) /\ c \in Chars
    BY <1>1, ReadTyped
  <1>3. Len(l) \in Nat /\ Len(m) = Len(l) + 1 /\ Len(m) \in Nat
    BY <1>2 DEF Grown
  <1>4. Blank # "=" /\ Blank # "]" /\ Blank # "h" /\ "h" \notin Special /\ "=" \in Special /\ "]" \in Special
    BY BlankFacts DEF Special
  <1>5. BUFFER \in Nat
    BY SettingsAssumption
  <1>6. Blanks(l, 1, Len(l)) => Ready(NoValue, << >>, 0)
    BY <1>1 DEF AddressInv, NoText
  <1>7. ASSUME Blanks(m, 1, Len(m)) PROVE ReadyNext(NoValue, << >>, 0)
    <2>1. c = Blank /\ Blanks(l, 1, Len(l))
      BY <1>2, <1>7, NoTextGrows
    <2> QED BY <1>6, <2>1
  <1>8. ASSUME BUFFER >= 2, NEW h \in 1 .. Len(m), HostName(m, h, Len(m))
        PROVE  ReadyNext(NoValue, <<"h">>, IF h < Len(m) THEN 1 ELSE 0)
    <2>1. \/ h \in 1 .. Len(l) /\ c = Blank /\ HostName(l, h, Len(l))
          \/ h = Len(m) /\ c = "h" /\ Blanks(l, 1, Len(l))
      BY <1>2, <1>8, NameGrows
    <2>2. CASE h \in 1 .. Len(l) /\ c = Blank /\ HostName(l, h, Len(l))
      <3>1. PICK n \in {0, 1} : n = IF h < Len(l) THEN 1 ELSE 0
        OBVIOUS
      <3>2. Ready(NoValue, <<"h">>, n)
        BY <1>1, <1>8, <2>2, <3>1 DEF AddressInv, NameRead
      <3>3. ReadyNext(NoValue, <<"h">>, IF <<"h">> = << >> THEN n ELSE 1)
        BY <2>2, <3>2
      <3>4. <<"h">> # << >> /\ h < Len(m)
        BY <1>3, <2>2
      <3> QED BY <3>3, <3>4
    <2>3. CASE h = Len(m) /\ c = "h" /\ Blanks(l, 1, Len(l))
      <3>1. Len(<< >>) + 1 < BUFFER /\ ~(h < Len(m))
        BY <1>3, <1>5, <1>8, <2>3
      <3>2. ReadyNext(NoValue, << >> \o <<"h">>, 0)
        BY <1>4, <1>6, <2>3, <3>1
      <3>3. << >> \o <<"h">> = <<"h">>
        OBVIOUS
      <3> QED BY <3>1, <3>2, <3>3
    <2> QED BY <2>1, <2>2, <2>3
  <1>9. ASSUME BUFFER >= 2, cat # NoCategory, NEW e \in 1 .. Len(m), NEW h \in 1 .. Len(m),
               h < e, HostName(m, h, e - 1), m[e] = "="
        PROVE  /\ Blanks(m, e + 1, Len(m)) => ReadyNext("host_ip", << >>, 0)
               /\ \A a, z \in e + 1 .. Len(m) : a <= z /\ z - a + 1 < BUFFER /\ Plain(m, e, a, z) =>
                     ReadyNext("host_ip", SubSeq(m, a, z), IF z < Len(m) THEN 1 ELSE 0)
    <2>1. /\ h \in 1 .. Len(l)
          /\ \/ e = Len(m) /\ c = "=" /\ HostName(l, h, Len(l))
             \/ e \in 1 .. Len(l) /\ HostName(l, h, e - 1) /\ l[e] = "="
      BY <1>2, <1>9, AddressGrows
    <2>2. c # "]" => category # NoCategory
      BY <1>1, <1>9
    <2>3. CASE e = Len(m) /\ c = "=" /\ HostName(l, h, Len(l))
      <3>1. PICK n \in {0, 1} : n = IF h < Len(l) THEN 1 ELSE 0
        OBVIOUS
      <3>2. Ready(NoValue, <<"h">>, n)
        BY <1>1, <1>9, <2>1, <2>3, <3>1 DEF AddressInv, NameRead
      <3>3. ReadyNext("host_ip", << >>, 0)
        BY <2>2, <2>3, <3>2
      <3>4. \A a \in e + 1 .. Len(m) : FALSE
        BY <1>3, <2>3
      <3> QED BY <3>3, <3>4
    <2>4. CASE e \in 1 .. Len(l) /\ HostName(l, h, e - 1) /\ l[e] = "="
      <3>1. ASSUME category # NoCategory
            PROVE  /\ Blanks(l, e + 1, Len(l)) => Ready("host_ip", << >>, 0)
                   /\ \A a, z \in e + 1 .. Len(l) : a <= z /\ z - a + 1 < BUFFER /\ Plain(l, e, a, z) =>
                         Ready("host_ip", SubSeq(l, a, z), IF z < Len(l) THEN 1 ELSE 0)
        BY <1>1, <1>9, <2>1, <2>4, <3>1, Zenon DEF AddressInv, AddressRead
      <3>2. ASSUME Blanks(m, e + 1, Len(m)) PROVE ReadyNext("host_ip", << >>, 0)
        <4>0. e + 1 \in Nat \ {0} /\ e + 1 <= Len(m)
          BY <1>3, <2>4
        <4>1. c = Blank /\ Blanks(l, e + 1, Len(l))
          BY <1>2, <1>3, <3>2, <4>0, BlanksGrow
        <4>2. Ready("host_ip", << >>, 0)
          BY <1>4, <2>2, <3>1, <4>1
        <4> QED BY <4>1, <4>2
      <3>3. ASSUME NEW a \in e + 1 .. Len(m), NEW z \in e + 1 .. Len(m),
                   a <= z, z - a + 1 < BUFFER, Plain(m, e, a, z)
            PROVE  ReadyNext("host_ip", SubSeq(m, a, z), IF z < Len(m) THEN 1 ELSE 0)
        <4>0. e \in 1 .. Len(l) /\ a \in Nat /\ z \in Nat /\ a \in 1 .. Len(m)
          BY <1>3, <2>4
        <4>1. \/ z \in e + 1 .. Len(l) /\ a \in e + 1 .. Len(l) /\ c = Blank /\ Plain(l, e, a, z)
              \/ z = Len(m) /\ c \notin Special /\ a \in e + 1 .. Len(l) /\ Plain(l, e, a, Len(l))
              \/ z = Len(m) /\ c \notin Special /\ a = Len(m) /\ Blanks(l, e + 1, Len(l))
          BY <1>2, <3>3, <4>0, PlainGrows
        <4>2. category # NoCategory
          BY <1>4, <2>2, <4>1
        <4>3. CASE z \in e + 1 .. Len(l) /\ a \in e + 1 .. Len(l) /\ c = Blank /\ Plain(l, e, a, z)
          <5>1. PICK b, n : b = SubSeq(l, a, z) /\ n = IF z < Len(l) THEN 1 ELSE 0
            OBVIOUS
          <5>2. n \in {0, 1} /\ z \in a .. Len(l) /\ z < Len(m)
            BY <1>3, <3>3, <4>0, <4>3, <5>1
          <5>3. SubSeq(m, a, z) = b /\ Len(b) = z - a + 1
            BY <1>2, <4>0, <5>1, <5>2, PartGrows
          <5>4. Ready("host_ip", b, n)
            BY <3>1, <3>3, <4>2, <4>3, <5>1
          <5>5. Len(b) # 0 /\ b # << >>
            BY <3>3, <4>0, <5>3
          <5>6. ReadyNext("host_ip", b, 1)
            BY <4>3, <5>2, <5>4, <5>5
          <5> QED BY <5>2, <5>3, <5>6
        <4>4. CASE z = Len(m) /\ c \notin Special /\ a \in e + 1 .. Len(l) /\ Plain(l, e, a, Len(l))
          <5>1. PICK b : b = SubSeq(l, a, Len(l))
            OBVIOUS
          <5>2. /\ Len(l) \in a .. Len(l) /\ Len(l) \in e + 1 .. Len(l) /\ a <= Len(l) /\ ~(z < Len(m))
                /\ Len(l) - a + 1 < BUFFER /\ ~(Len(l) < Len(l)) /\ Len(l) - a + 1 + 1 < BUFFER
            <6>1. a <= Len(l) /\ e + 1 <= Len(l) /\ z = Len(l) + 1
              BY <1>3, <4>0, <4>4
            <6>2. z - a + 1 < BUFFER
              BY <3>3
            <6>3. PICK n : n = Len(l)
              OBVIOUS
            <6>4. n \in Nat /\ Len(m) = n + 1 /\ z = n + 1 /\ a <= n /\ e + 1 <= n /\ e \in Nat /\ a \in Nat
              BY <1>3, <4>0, <6>1, <6>3
            <6>5. /\ n \in a .. n /\ n \in e + 1 .. n /\ a <= n /\ ~(z < Len(m))
                  /\ n - a + 1 < BUFFER /\ ~(n < n) /\ n - a + 1 + 1 < BUFFER
              BY ONLY <1>5, <6>2, <6>4
            <6> QED BY <6>3, <6>5
          <5>3. SubSeq(m, a, Len(m)) = b \o <<c>> /\ Len(b) = Len(l) - a + 1
            <6>1. /\ \A k \in a .. Len(l) : Len(SubSeq(l, a, k)) = k - a + 1
                  /\ a <= Len(l) => SubSeq(m, a, Len(m)) = SubSeq(l, a, Len(l)) \o <<c>>
              BY <1>2, <4>0, PartGrows
            <6>2. PICK k \in a .. Len(l) : k = Len(l)
              BY <5>2
            <6>3. Len(SubSeq(l, a, k)) = k - a + 1
              BY <6>1
            <6>4. Len(b) = k - a + 1
              BY <5>1, <6>2, <6>3, Zenon
            <6> QED BY <5>1, <5>2, <6>1, <6>2, <6>4, Zenon
          <5>4. Ready("host_ip", b, 0)
            BY <3>1, <4>2, <4>4, <5>1, <5>2
          <5>5. ReadyNext("host_ip", b \o <<c>>, 0)
            BY <4>4, <5>2, <5>3, <5>4
          <5> QED BY <4>4, <5>2, <5>3, <5>5
        <4>5. CASE z = Len(m) /\ c \notin Special /\ a = Len(m) /\ Blanks(l, e + 1, Len(l))
          <5>1. Len(<< >>) + 1 < BUFFER /\ ~(z < Len(m))
            BY <1>3, <1>5, <1>9, <4>5
          <5>2. Ready("host_ip", << >>, 0)
            BY <3>1, <4>2, <4>5
          <5>3. ReadyNext("host_ip", << >> \o <<c>>, 0)
            BY <4>5, <5>1, <5>2
          <5>4. SubSeq(m, a, Len(m)) = << >> \o <<c>>
            BY <1>2, <4>0, <4>5, PartGrows
          <5> QED BY <4>5, <5>1, <5>3, <5>4
        <4> QED BY <4>1, <4>3, <4>4, <4>5
      <3> QED BY <3>2, <3>3
    <2> QED BY <2>1, <2>3, <2>4
  <1> QED BY <1>1, <1>7, <1>8, <1>9, AddressNext

\* The blank of a line.
LEMMA SpaceReads ==
    ASSUME Typed, Space
    PROVE  \A v, b : \A n \in {0, 1} : Ready(v, b, n) => ReadyNext(v, b, IF b = << >> THEN n ELSE 1)
  <1> SUFFICES ASSUME NEW v, NEW b, NEW n \in {0, 1}, Ready(v, b, n)
               PROVE  ReadyNext(v, b, IF b = << >> THEN n ELSE 1)
    OBVIOUS
  <1>1. mode = "text" /\ value = v /\ buffer = b /\ Noted = n
    BY DEF Ready
  <1>2. value' = value /\ buffer' = buffer
    BY SpaceDoes
  <1>3. CASE b = << >>
    <2>1. mode' = mode /\ space' = space
      BY <1>1, <1>3, SpaceDoes
    <2>2. Noted' = Noted
      BY <2>1 DEF Noted
    <2> QED BY <1>1, <1>2, <1>3, <2>1, <2>2 DEF ReadyNext
  <1>4. CASE b # << >>
    <2>1. mode' = mode /\ space' = TRUE
      BY <1>1, <1>4, SpaceDoes
    <2>2. Noted' = 1
      BY <2>1 DEF Noted
    <2> QED BY <1>1, <1>2, <1>4, <2>1, <2>2 DEF ReadyNext
  <1> QED BY <1>3, <1>4

\* A character of the text, with no blank before it.
LEMMA TextReads ==
    ASSUME Typed, NEW c, Text(c)
    PROVE  \A v, b : Ready(v, b, 0) /\ Len(b) + 1 < BUFFER => ReadyNext(v, b \o <<c>>, 0)
  <1> SUFFICES ASSUME NEW v, NEW b, Ready(v, b, 0), Len(b) + 1 < BUFFER
               PROVE  ReadyNext(v, b \o <<c>>, 0)
    OBVIOUS
  <1>1. mode = "text" /\ value = v /\ buffer = b /\ Noted = 0
    BY DEF Ready
  <1>2. ~space
    <2>1. 0 # 1
      OBVIOUS
    <2> QED BY <1>1, <2>1, Zenon DEF Noted
  <1>3. Added(c) = <<c>> /\ Len(Added(c)) = 1
    BY <1>2 DEF Added
  <1>4. buffer' = buffer \o Added(c) /\ mode' = mode /\ space' = space /\ value' = value
    BY <1>1, <1>3, TextDoes
  <1>5. Noted' = Noted
    BY <1>4 DEF Noted
  <1> QED BY <1>1, <1>3, <1>4, <1>5 DEF ReadyNext

\* The name of the address, in a category.
LEMMA EqualsReads ==
    ASSUME Typed, Equals
    PROVE  \A n \in {0, 1} : Ready(NoValue, <<"h">>, n) /\ category # NoCategory => ReadyNext("host_ip", << >>, 0)
  <1> SUFFICES ASSUME NEW n \in {0, 1}, Ready(NoValue, <<"h">>, n), category # NoCategory
               PROVE  ReadyNext("host_ip", << >>, 0)
    OBVIOUS
  <1>1. mode = "text" /\ buffer = <<"h">>
    BY DEF Ready
  <1>2. Named(buffer) = {"host_ip"}
    <2>1. Name["host_ip"] = <<"h">> /\ Name["port"] = <<"p">> /\ <<"p">> # <<"h">>
      BY DEF Name
    <2> QED BY <1>1, <2>1 DEF Named, Settings_
  <1>3. Named(buffer) # {} /\ (CHOOSE s \in Named(buffer) : TRUE) = "host_ip"
    BY <1>2
  <1>4. value' = "host_ip" /\ mode' = "text" /\ space' = FALSE /\ buffer' = << >>
    BY <1>1, <1>3, EqualsDoes
  <1>5. Noted' = 0
    BY <1>4 DEF Noted
  <1> QED BY <1>4, <1>5 DEF ReadyNext

\* Every character of the file keeps it.
LEMMA AddressKeeps ==
    ASSUME Typed, AddressInv, [SettingsNext]_settingsVars
    PROVE  AddressInv'
  <1>0. Blank # "]" /\ Blank \in Special /\ {"#", "[", "]", "="} \subseteq Special /\ Blank \notin {"#", "[", "]", "="}
    BY BlankFacts DEF Special
  <1>1. CASE Hash
    <2>1. Read("#") /\ category' = category
      BY <1>1, HashDoes
    <2> QED BY <1>0, <2>1, AddressReads
  <1>2. CASE NewLine
    <2>1. mode' = "text" /\ value' = NoValue /\ space' = FALSE /\ buffer' = << >> /\ line' = << >>
      BY <1>2 DEF NewLine
    <2>2. ReadyNext(NoValue, << >>, 0)
      BY <2>1 DEF ReadyNext, Noted
    <2>3. PICK m, cat : m = line' /\ cat = category'
      OBVIOUS
    <2>4. Len(m) = 0 /\ \A h \in 1 .. Len(m) : FALSE
      BY <2>1, <2>3
    <2> QED BY <2>2, <2>3, <2>4, AddressNext
  <1>3. CASE OpenBracket
    <2>1. Read("[") /\ category' = category
      BY <1>3 DEF OpenBracket
    <2> QED BY <1>0, <2>1, AddressReads
  <1>4. CASE CloseBracket
    <2>1. Read("]")
      BY <1>4, CloseDoes
    <2> QED BY <1>0, <2>1, AddressReads
  <1>5. CASE Equals
    <2>1. Read("=") /\ category' = category
      BY <1>5, EqualsDoes
    <2> QED BY <1>0, <1>5, <2>1, AddressReads, EqualsReads
  <1>6. CASE Space
    <2>1. Read(Blank) /\ category' = category
      BY <1>6, SpaceDoes
    <2> QED BY <1>0, <1>6, <2>1, AddressReads, SpaceReads
  <1>7. ASSUME NEW c \in Chars, Text(c) PROVE AddressInv'
    <2>1. Read(c) /\ category' = category /\ c \notin Special
      BY <1>7, TextDoes
    <2> QED BY <1>0, <1>7, <2>1, AddressReads, TextReads
  <1>8. CASE EndOfFile
    <2>1. UNCHANGED <<category, value, mode, space, buffer, line>>
      BY <1>8 DEF EndOfFile
    <2> QED BY <2>1 DEF AddressInv, NoText, NameRead, AddressRead, Ready, Noted
  <1>9. CASE UNCHANGED settingsVars
    BY <1>9 DEF settingsVars, AddressInv, NoText, NameRead, AddressRead, Ready, Noted
  <1> QED BY <1>1, <1>2, <1>3, <1>4, <1>5, <1>6, <1>7, <1>8, <1>9 DEF SettingsNext

\* Both invariants hold when the file has been opened.
LEMMA InvsInit ==
    ASSUME SettingsInit
    PROVE  WrittenInv /\ AddressInv
  <1>1. /\ value = NoValue /\ mode = "text" /\ space = FALSE /\ buffer = << >> /\ line = << >>
    BY DEF SettingsInit
  <1>2. Noted = 0
    BY <1>1 DEF Noted
  <1>3. Len(line) = 0 /\ \A i \in 1 .. Len(line) : FALSE
    BY <1>1
  <1>4. AddressInv
    BY <1>1, <1>2, <1>3 DEF AddressInv, NoText, NameRead, AddressRead, Ready
  <1>5. Begins(line, 0, << >>, 0, NoValue)
    <2>1. Len(line) \in Nat /\ \A i \in 0 + 1 .. Len(line) : FALSE
      BY <1>3
    <2>2. Collected(line, 0, << >>, 0)
      BY <1>3, <2>1, CollectNothing
    <2> QED BY <2>1, <2>2 DEF Begins, Selected
  <1>6. Written
    <2>1. 0 \in 0 .. Len(line)
      BY <1>3
    <2> QED BY <1>1, <1>2, <1>3, <1>5, <2>1 DEF Written
  <1> QED BY <1>4, <1>6, TypedInit DEF WrittenInv

-----------------------------------------------------------------------------
(* The parts of a line. *)

\* A part of a line, its length and its characters.
LEMMA Part ==
    ASSUME NEW l \in Seq(Chars), NEW a \in Nat \ {0}, NEW b \in Nat, a <= b + 1, b <= Len(l)
    PROVE  /\ SubSeq(l, a, b) \in Seq(Chars) /\ Len(SubSeq(l, a, b)) = b - a + 1
           /\ \A i \in 1 .. b - a + 1 : SubSeq(l, a, b)[i] = l[a + i - 1]
           /\ \A x : x \in Range(SubSeq(l, a, b)) <=> \E i \in a .. b : l[i] = x
  <1>1. PICK n, u : n = Len(l) /\ u = SubSeq(l, a, b)
    OBVIOUS
  <1>2. n \in Nat /\ \A i \in a .. b : i \in 1 .. n
    BY <1>1
  <1>3. u \in Seq(Chars) /\ Len(u) = b - a + 1 /\ \A i \in 1 .. b - a + 1 : u[i] = l[a + i - 1]
    BY <1>1, <1>2
  <1>4. DOMAIN u = 1 .. b - a + 1
    BY <1>3
  <1>5. ASSUME NEW x PROVE x \in Range(u) <=> \E i \in a .. b : l[i] = x
    <2>1. ASSUME x \in Range(u) PROVE \E i \in a .. b : l[i] = x
      <3>1. PICK i \in 1 .. b - a + 1 : u[i] = x
        BY <1>4, <2>1 DEF Range
      <3>2. a + i - 1 \in a .. b /\ l[a + i - 1] = x
        BY <1>3, <3>1
      <3> QED BY <3>2
    <2>2. ASSUME NEW i \in a .. b, l[i] = x PROVE x \in Range(u)
      <3>1. PICK k : k = i - a + 1
        OBVIOUS
      <3>2. k \in 1 .. b - a + 1 /\ a + k - 1 = i
        BY <2>2, <3>1
      <3>3. u[k] = x
        BY <1>3, <2>2, <3>2
      <3> QED BY <1>4, <3>2, <3>3 DEF Range
    <2> QED BY <2>1, <2>2
  <1> QED BY <1>1, <1>3, <1>5

\* Where the text of a part is that is left when its blanks are taken off.
LEMMA StripPart ==
    ASSUME NEW l \in Seq(Chars), NEW p \in Nat \ {0}, NEW q \in Nat, p <= q + 1, q <= Len(l),
           Strip(SubSeq(l, p, q)) # << >>
    PROVE  \E a, z \in p .. q :
               a <= z /\ Blanks(l, p, a - 1) /\ Blanks(l, z + 1, q) /\ SubSeq(l, a, z) = Strip(SubSeq(l, p, q))
  <1>0. PICK n, r, t : n = Len(l) /\ r = SubSeq(l, p, q) /\ t = Strip(SubSeq(l, p, q))
    OBVIOUS
  <1>1. n = Len(l) /\ r = SubSeq(l, p, q) /\ t = Strip(r) /\ t # << >> /\ t = Strip(SubSeq(l, p, q))
    BY <1>0
  <1>2. n \in Nat
    BY <1>1
  <1>3. r \in Seq(Chars) /\ Len(r) = q - p + 1 /\ (\A i \in 1 .. q - p + 1 : r[i] = l[p + i - 1]) /\ Len(r) \in Nat
    BY <1>1, Part
  <1>4. ~Blanks(r, 1, Len(r))
    BY <1>1, <1>3, StripFacts
  <1>5. PICK a, z \in 1 .. Len(r) :
            a <= z /\ r[a] # Blank /\ r[z] # Blank /\ Blanks(r, 1, a - 1) /\ Blanks(r, z + 1, Len(r))
    BY <1>3, <1>4, StripFacts
  <1>6. t = SubSeq(r, a, z)
    BY <1>1, <1>3, <1>5, StripFacts
  <1>7. a \in Nat \ {0} /\ z \in Nat /\ a <= z /\ z <= q - p + 1 /\ z <= Len(r) /\ a <= z + 1
    BY <1>3, <1>5
  <1>8. PICK x, y : x = p + a - 1 /\ y = p + z - 1
    OBVIOUS
  <1>9. /\ x \in p .. q /\ y \in p .. q /\ x <= y /\ x <= y + 1 /\ x \in Nat \ {0} /\ y \in Nat /\ y <= n
        /\ y - x + 1 = z - a + 1
    BY <1>1, <1>2, <1>7, <1>8
  <1>10. Blanks(l, p, x - 1)
    <2>1. ASSUME NEW i \in p .. x - 1 PROVE l[i] = Blank
      <3>1. PICK k : k = i - p + 1
        OBVIOUS
      <3>2. k \in 1 .. a - 1 /\ k \in 1 .. q - p + 1 /\ p + k - 1 = i
        BY <1>7, <1>8, <2>1, <3>1
      <3>3. r[k] = Blank
        BY <1>5, <3>2 DEF Blanks
      <3> QED BY <1>3, <3>2, <3>3
    <2> QED BY <2>1 DEF Blanks
  <1>11. Blanks(l, y + 1, q)
    <2>1. ASSUME NEW i \in y + 1 .. q PROVE l[i] = Blank
      <3>1. PICK k : k = i - p + 1
        OBVIOUS
      <3>2. k \in z + 1 .. q - p + 1 /\ k \in 1 .. q - p + 1 /\ p + k - 1 = i
        BY <1>7, <1>8, <2>1, <3>1
      <3>3. r[k] = Blank
        BY <1>3, <1>5, <3>2 DEF Blanks
      <3> QED BY <1>3, <3>2, <3>3
    <2> QED BY <2>1 DEF Blanks
  <1>12. SubSeq(l, x, y) = t
    <2>1. PICK u : u = SubSeq(l, x, y)
      OBVIOUS
    <2>2. u \in Seq(Chars) /\ Len(u) = z - a + 1 /\ \A i \in 1 .. z - a + 1 : u[i] = l[x + i - 1]
      BY <1>1, <1>9, <2>1, Part
    <2>3. t \in Seq(Chars) /\ Len(t) = z - a + 1 /\ \A i \in 1 .. z - a + 1 : t[i] = r[a + i - 1]
      BY <1>3, <1>6, <1>7, Part
    <2>4. ASSUME NEW i \in 1 .. Len(u) PROVE u[i] = t[i]
      <3>1. i \in 1 .. z - a + 1 /\ a + i - 1 \in 1 .. q - p + 1 /\ p + (a + i - 1) - 1 = x + i - 1
        <4>1. i \in 1 .. z - a + 1
          BY <2>2, <2>4
        <4>2. i \in Nat /\ 1 <= i /\ i <= z - a + 1
          BY <1>7, <4>1
        <4>3. a + i - 1 \in 1 .. q - p + 1
          BY ONLY <1>7, <4>2, p \in Nat, q \in Nat
        <4>4. p + (a + i - 1) - 1 = x + i - 1
          BY <1>7, <1>8, <4>2
        <4> QED BY <4>1, <4>3, <4>4
      <3> QED BY <1>3, <2>2, <2>3, <3>1
    <2>5. u = t
      BY <2>2, <2>3, <2>4, SeqEqual
    <2> QED BY <2>1, <2>5
  <1> QED BY <1>1, <1>9, <1>10, <1>11, <1>12

-----------------------------------------------------------------------------
(* The steps that store a setting. *)

\* settings_commit stores what the buffer converts to, in the selected setting only.
LEMMA CommitDoes ==
    ASSUME Typed, Commit, mode = "text", NEW s \in Settings_
    PROVE  /\ settings'[s] # settings[s] => value = s /\ settings'[s] = Convert(s, buffer)
           /\ value = s /\ Convert(s, buffer) # Bad => settings'[s] = Convert(s, buffer)
  <1>1. settings \in [Settings_ -> Int] /\ value \in Settings_ \cup {NoValue}
    BY DEF Typed, SettingsTypeOK
  <1>2. CASE value = NoValue \/ Convert(value, buffer) = Bad
    <2>1. settings' = settings
      BY <1>2 DEF Commit
    <2>2. NoValue \notin Settings_
      BY DEF NoValue, Settings_
    <2> QED BY <1>2, <2>1, <2>2
  <1>3. CASE ~(value = NoValue \/ Convert(value, buffer) = Bad)
    <2>1. settings' = [settings EXCEPT ![value] = Convert(value, buffer)]
      BY <1>3 DEF Commit
    <2>2. PICK v : v = Convert(value, buffer)
      OBVIOUS
    <2>3. settings'[s] = IF s = value THEN v ELSE settings[s]
      BY <1>1, <2>1, <2>2
    <2> QED BY <2>2, <2>3, Zenon
  <1> QED BY <1>2, <1>3

\* Which steps store settings.
LEMMA StoreSteps ==
    ASSUME Typed, SettingsNext, settings' # settings
    PROVE  mode = "text" /\ Commit /\ LineEnds
  <1>1. CASE Hash
    <2>1. mode = "text" /\ Commit /\ Read("#")
      BY <1>1, HashDoes
    <2> QED BY <2>1 DEF Read, LineEnds
  <1>2. CASE NewLine
    BY <1>2 DEF NewLine, LineEnds
  <1>3. CASE EndOfFile
    BY <1>3 DEF EndOfFile, LineEnds
  <1>4. CASE OpenBracket
    BY <1>4 DEF OpenBracket
  <1>5. CASE CloseBracket
    BY <1>5, CloseDoes
  <1>6. CASE Equals
    BY <1>6, EqualsDoes
  <1>7. CASE Space
    BY <1>7, SpaceDoes
  <1>8. ASSUME NEW c \in Chars, Text(c) PROVE settings' = settings
    BY <1>8, TextDoes
  <1> QED BY <1>1, <1>2, <1>3, <1>4, <1>5, <1>6, <1>7, <1>8 DEF SettingsNext

\* A line's end stores what is in the buffer.
LEMMA EndsStore ==
    ASSUME Typed, SettingsNext, LineEnds, ~done, mode = "text"
    PROVE  Commit
  <1>0. /\ "#" # Blank /\ "#" \in Special /\ line \in Seq(Chars)
    BY BlankFacts DEF Special, Typed, SettingsTypeOK, Texts
  <1>1. ASSUME NEW c, Read(c), c # "#" PROVE FALSE
    <2>1. PICK l, m : l = line /\ m = line'
      OBVIOUS
    <2>2. Grown(l, c, m) /\ m = Append(l, c) /\ done' = done /\ ~done
      BY <1>1, <2>1, ReadTyped
    <2>3. Len(m) = Len(l) + 1 /\ Len(l) \in Nat /\ m[Len(l) + 1] = c
      BY <2>2 DEF Grown
    <2>4. m # << >>
      BY <2>3
    <2>5. m = Append(l, "#")
      BY <2>1, <2>2, <2>4 DEF LineEnds
    <2>6. l \in Seq(Chars) /\ Append(l, "#")[Len(l) + 1] = "#"
      BY <1>0, <2>1
    <2> QED BY <1>1, <2>3, <2>5, <2>6
  <1>2. CASE Hash
    BY <1>2, HashDoes
  <1>3. CASE NewLine
    BY <1>3 DEF NewLine
  <1>4. CASE EndOfFile
    BY <1>4 DEF EndOfFile
  <1>5. CASE OpenBracket
    <2>1. Read("[") /\ "[" # "#"
      BY <1>5 DEF OpenBracket
    <2> QED BY <1>1, <2>1
  <1>6. CASE CloseBracket
    <2>1. Read("]") /\ "]" # "#"
      BY <1>6, CloseDoes
    <2> QED BY <1>1, <2>1
  <1>7. CASE Equals
    <2>1. Read("=") /\ "=" # "#"
      BY <1>7, EqualsDoes
    <2> QED BY <1>1, <2>1
  <1>8. CASE Space
    BY <1>0, <1>1, <1>8, SpaceDoes
  <1>9. ASSUME NEW c \in Chars, Text(c) PROVE FALSE
    BY <1>0, <1>1, <1>9, TextDoes
  <1> QED BY <1>2, <1>3, <1>4, <1>5, <1>6, <1>7, <1>8, <1>9 DEF SettingsNext

\* A step that changes a setting ends a line that assigns it.
LEMMA OnlyAssignmentsStep ==
    ASSUME WrittenInv, [SettingsNext]_settingsVars, NEW s \in Settings_, settings'[s] # settings[s]
    PROVE  /\ LineEnds
           /\ "#" \notin Range(line)
           /\ \E i, j \in 1 .. Len(line) :
                 /\ i < j /\ line[j] = "="
                 /\ "=" \notin Range(SubSeq(line, j + 1, Len(line)))
                 /\ SubSeq(line, i, i) = Name[s]
                 /\ Range(SubSeq(line, i + 1, j - 1)) \subseteq {Blank}
                 /\ Convert(s, Strip(SubSeq(line, j + 1, Len(line)))) = settings'[s]
  <1>1. Typed /\ Written
    BY DEF WrittenInv
  <1>2. SettingsNext /\ settings' # settings
    BY DEF settingsVars
  <1>3. mode = "text" /\ Commit /\ LineEnds
    BY <1>1, <1>2, StoreSteps
  <1>4. value = s /\ settings'[s] = Convert(s, buffer) /\ s # NoValue
    BY <1>1, <1>3, CommitDoes DEF Settings_, NoValue
  <1>5. PICK l, b, v, x, sp : l = line /\ b = buffer /\ v = value /\ x = settings'[s] /\ sp = Noted
    OBVIOUS
  <1>6. l \in Seq(Chars) /\ b \in Seq(Chars) /\ Len(l) \in Nat /\ sp \in {0, 1} /\ x = Convert(s, b)
    <2>1. l \in Seq(Chars) /\ b \in Seq(Chars) /\ sp \in {0, 1}
      BY <1>1, <1>5 DEF Typed, SettingsTypeOK, Texts, Noted
    <2> QED BY <1>4, <1>5, <2>1
  <1>7. "#" \notin Range(l)
    <2>1. DOMAIN l = 1 .. Len(l) /\ \A i \in 1 .. Len(l) : l[i] # "#"
      BY <1>1, <1>3, <1>5, <1>6 DEF Written
    <2> QED BY <2>1 DEF Range
  <1>8. PICK j \in 0 .. Len(l) : Begins(l, j, b, sp, s)
    BY <1>1, <1>3, <1>4, <1>5 DEF Written
  <1>9. /\ Collected(l, j, b, sp) /\ j \in Nat /\ j >= 1 /\ l[j] = "=" /\ j \in 1 .. Len(l) /\ j <= Len(l)
        /\ \A i \in j + 1 .. Len(l) : l[i] # "="
    BY <1>4, <1>6, <1>8 DEF Begins, Selected
  <1>10. PICK i \in 1 .. j - 1 : <<l[i]>> = Name[s] /\ Blanks(l, i + 1, j - 1)
    BY <1>4, <1>8 DEF Begins, Selected
  <1>11. i \in Nat \ {0} /\ i < j /\ i \in 1 .. Len(l) /\ i <= Len(l) /\ j - 1 \in Nat /\ j - 1 <= Len(l)
    BY <1>6, <1>9, <1>10
  <1>12. "=" \notin Range(SubSeq(l, j + 1, Len(l)))
    <2>1. j + 1 \in Nat \ {0} /\ j + 1 <= Len(l) + 1 /\ Len(l) <= Len(l)
      BY <1>6, <1>9
    <2>2. \A y : y \in Range(SubSeq(l, j + 1, Len(l))) <=> \E k \in j + 1 .. Len(l) : l[k] = y
      BY <1>6, <2>1, Part
    <2> QED BY <1>9, <2>2
  <1>13. SubSeq(l, i, i) = Name[s]
    <2>1. PICK u : u = SubSeq(l, i, i)
      OBVIOUS
    <2>2. i <= i + 1 /\ i - i + 1 = 1 /\ i + 1 - 1 = i /\ i \in Nat
      BY <1>11
    <2>3. u \in Seq(Chars) /\ Len(u) = i - i + 1 /\ \A k \in 1 .. i - i + 1 : u[k] = l[i + k - 1]
      BY <1>6, <1>11, <2>1, <2>2, Part
    <2>4. Len(u) = 1 /\ u[1] = l[i]
      BY <2>2, <2>3
    <2>5. u = <<l[i]>>
      <3>1. l[i] \in Chars
        BY <1>6, <1>11
      <3>2. PICK w : w = <<l[i]>>
        OBVIOUS
      <3>3. w \in Seq(Chars) /\ Len(w) = 1 /\ w[1] = l[i]
        BY <3>1, <3>2
      <3>4. u = w
        BY <2>3, <2>4, <3>3, SeqEqual
      <3> QED BY <3>2, <3>4
    <2> QED BY <1>10, <2>1, <2>5
  <1>14. Range(SubSeq(l, i + 1, j - 1)) \subseteq {Blank}
    <2>1. i + 1 \in Nat \ {0} /\ i + 1 <= (j - 1) + 1
      BY <1>11
    <2>2. \A y : y \in Range(SubSeq(l, i + 1, j - 1)) <=> \E k \in i + 1 .. j - 1 : l[k] = y
      BY <1>6, <1>11, <2>1, Part
    <2>3. \A k \in i + 1 .. j - 1 : l[k] = Blank
      BY <1>10 DEF Blanks
    <2> QED BY <2>2, <2>3
  <1>15. Convert(s, Strip(SubSeq(l, j + 1, Len(l)))) = x
    BY <1>6, <1>8, <1>9, CollectedValue
  <1> QED BY <1>3, <1>5, <1>7, <1>9, <1>11, <1>12, <1>13, <1>14, <1>15

\* SettingsTypeOK: the types, in which the text of a name or a value fits in the buffer.
THEOREM SettingsTypeTheorem == SettingsSpec => []SettingsTypeOK
  <1>1. SettingsInit => Typed
    BY TypedInit
  <1>2. Typed /\ [SettingsNext]_settingsVars => Typed'
    BY TypedKeeps
  <1>3. Typed => SettingsTypeOK
    BY DEF Typed
  <1> QED BY <1>1, <1>2, <1>3, PTL DEF SettingsSpec

\* OnlyAssignments: what a setting is set to is what its line says.
THEOREM OnlyAssignmentsTheorem == SettingsSpec => OnlyAssignments
  <1>1. SettingsInit => WrittenInv
    BY InvsInit
  <1>2. WrittenInv /\ [SettingsNext]_settingsVars => WrittenInv'
    BY WrittenKeeps
  <1>3. WrittenInv /\ [SettingsNext]_settingsVars =>
          [\A s \in Settings_ : settings'[s] # settings[s] =>
              /\ LineEnds
              /\ "#" \notin Range(line)
              /\ \E i, j \in 1 .. Len(line) :
                    /\ i < j /\ line[j] = "="
                    /\ "=" \notin Range(SubSeq(line, j + 1, Len(line)))
                    /\ SubSeq(line, i, i) = Name[s]
                    /\ Range(SubSeq(line, i + 1, j - 1)) \subseteq {Blank}
                    /\ Convert(s, Strip(SubSeq(line, j + 1, Len(line)))) = settings'[s]]_settingsVars
    BY OnlyAssignmentsStep
  <1> QED BY <1>1, <1>2, <1>3, PTL DEF SettingsSpec, OnlyAssignments

\* The empty text is no address.
LEMMA NothingIsBad == ParseIp(<< >>) = Bad
  <1>1. Len(<< >>) = 0
    OBVIOUS
  <1>2. Octets(<< >>, 0) = NoAddress
    BY OctetsStep DEF Octets
  <1>3. NoAddress.octet = 1 /\ NoAddress.digits = 0 /\ OCTETS \in Nat \ {0} /\ ~(1 > OCTETS) /\ ~(0 > 0)
    BY SettingsAssumption DEF NoAddress
  <1> QED BY <1>1, <1>2, <1>3 DEF ParseIp

\* At its end the text of such a line is in the buffer.
LEMMA AddressInBuffer ==
    ASSUME Typed, AddressInv, category # NoCategory,
           NEW text, Assigns("host_ip", text), ParseIp(text) # Bad
    PROVE  mode = "text" /\ value = "host_ip" /\ buffer = text
  <1>1. PICK l : l = line
    OBVIOUS
  <1>2. l \in Seq(Chars) /\ Len(l) \in Nat
    <2>1. l \in Seq(Chars)
      BY <1>1 DEF Typed, SettingsTypeOK, Texts
    <2> QED BY <2>1
  <1>3. PICK e \in 1 .. Len(l) :
            /\ l[e] = "="
            /\ Strip(SubSeq(l, 1, e - 1)) = Name["host_ip"]
            /\ Strip(SubSeq(l, e + 1, Len(l))) = text
            /\ Range(text) \cap Special = {}
            /\ Len(text) < BUFFER
    BY <1>1 DEF Assigns
  <1>4. /\ 1 \in Nat \ {0} /\ e - 1 \in Nat /\ 1 <= (e - 1) + 1 /\ e - 1 <= Len(l)
        /\ e + 1 \in Nat \ {0} /\ e + 1 <= Len(l) + 1 /\ Len(l) <= Len(l) /\ e \in Nat
    BY <1>2, <1>3
  <1>5. text # << >>
    BY NothingIsBad
  <1>6. PICK a, z \in e + 1 .. Len(l) :
            a <= z /\ Blanks(l, e + 1, a - 1) /\ Blanks(l, z + 1, Len(l)) /\ SubSeq(l, a, z) = text
    <2>1. PICK p, q : p = e + 1 /\ q = Len(l)
      OBVIOUS
    <2>2. /\ l \in Seq(Chars) /\ p \in Nat \ {0} /\ q \in Nat /\ p <= q + 1 /\ q <= Len(l)
          /\ Strip(SubSeq(l, p, q)) # << >> /\ text = Strip(SubSeq(l, p, q))
      BY <1>2, <1>3, <1>4, <1>5, <2>1, Zenon
    <2>3. \E a, z \in p .. q :
              a <= z /\ Blanks(l, p, a - 1) /\ Blanks(l, z + 1, q) /\ SubSeq(l, a, z) = Strip(SubSeq(l, p, q))
      BY ONLY <2>2, StripPart
    <2> QED BY <2>1, <2>2, <2>3, Zenon
  <1>7. a \in Nat \ {0} /\ z \in Nat /\ a <= z + 1 /\ z <= Len(l) /\ BUFFER \in Nat
    BY <1>2, <1>4, <1>6, SettingsAssumption
  <1>8. Len(text) = z - a + 1 /\ \A x : x \in Range(text) <=> \E i \in a .. z : l[i] = x
    <2>1. PICK u : u = SubSeq(l, a, z)
      OBVIOUS
    <2>2. l \in Seq(Chars) /\ a \in Nat \ {0} /\ z \in Nat /\ a <= z + 1 /\ z <= Len(l)
      BY <1>2, <1>7
    <2>3. Len(SubSeq(l, a, z)) = z - a + 1 /\ \A x : x \in Range(SubSeq(l, a, z)) <=> \E i \in a .. z : l[i] = x
      BY ONLY <2>2, Part
    <2> QED BY <1>6, <2>3, Zenon
  <1>9. Plain(l, e, a, z)
    <2>1. \A i \in a .. z : l[i] \notin Special
      BY <1>3, <1>8
    <2> QED BY <1>6, <2>1 DEF Plain
  <1>10. z - a + 1 < BUFFER /\ BUFFER >= 2
    <2>1. z - a + 1 < BUFFER
      BY <1>3, <1>8
    <2> QED BY <1>6, <1>7, <2>1
  <1>11. PICK h \in 1 .. Len(l) : h < e /\ HostName(l, h, e - 1)
    <2>1. PICK t : t = <<"h">>
      OBVIOUS
    <2>2. t # << >> /\ t = Strip(SubSeq(l, 1, e - 1)) /\ Len(t) = 1 /\ t[1] = "h"
      BY <1>3, <2>1 DEF Name
    <2>3. PICK b, y \in 1 .. e - 1 :
              b <= y /\ Blanks(l, 1, b - 1) /\ Blanks(l, y + 1, e - 1) /\ SubSeq(l, b, y) = t
      <3>1. PICK p, q : p = 1 /\ q = e - 1
        OBVIOUS
      <3>2. /\ l \in Seq(Chars) /\ p \in Nat \ {0} /\ q \in Nat /\ p <= q + 1 /\ q <= Len(l)
            /\ Strip(SubSeq(l, p, q)) # << >> /\ t = Strip(SubSeq(l, p, q))
        BY <1>2, <1>4, <2>2, <3>1, Zenon
      <3>3. \E b, y \in p .. q :
                b <= y /\ Blanks(l, p, b - 1) /\ Blanks(l, y + 1, q) /\ SubSeq(l, b, y) = Strip(SubSeq(l, p, q))
        BY ONLY <3>2, StripPart
      <3> QED BY <3>1, <3>2, <3>3, Zenon
    <2>4. b \in Nat \ {0} /\ y \in Nat /\ b <= y + 1 /\ y <= Len(l) /\ b \in 1 .. Len(l) /\ b < e
      BY <1>2, <1>4, <2>3
    <2>5. Len(t) = y - b + 1 /\ \A i \in 1 .. y - b + 1 : t[i] = l[b + i - 1]
      BY <1>2, <2>3, <2>4, Part
    <2>6. b = y /\ l[b] = "h"
      <3>0. y - b + 1 = 1
        BY <2>2, <2>5
      <3>1. b = y /\ b + 1 - 1 = b /\ 1 \in 1 .. y - b + 1
        BY <2>4, <3>0
      <3> QED BY <2>2, <2>5, <3>1
    <2>7. HostName(l, b, e - 1)
      BY <2>3, <2>6 DEF HostName
    <2> QED BY <2>4, <2>7
  <1>12. Ready("host_ip", SubSeq(l, a, z), IF z < Len(l) THEN 1 ELSE 0)
    BY <1>1, <1>3, <1>6, <1>9, <1>10, <1>11, Zenon DEF AddressInv, AddressRead
  <1> QED BY <1>6, <1>12 DEF Ready

\* A step that ends a line with an address stores this address.
LEMMA AddressHonouredStep ==
    ASSUME Typed, AddressInv, SettingsNext,
           NEW text, LineEnds, ~done, category # NoCategory, Assigns("host_ip", text), ParseIp(text) # Bad
    PROVE  settings'["host_ip"] = ParseIp(text)
  <1>1. mode = "text" /\ value = "host_ip" /\ buffer = text
    BY AddressInBuffer
  <1>2. Commit
    BY <1>1, EndsStore
  <1>3. "host_ip" \in Settings_ /\ Convert("host_ip", buffer) = ParseIp(text)
    BY <1>1 DEF Settings_, Convert, Type
  <1> QED BY <1>1, <1>2, <1>3, CommitDoes

\* AddressHonoured: the address of a line that gives one is set when the line ends.
THEOREM AddressHonouredTheorem == SettingsSpec => AddressHonoured
  <1>1. SettingsInit => Typed /\ AddressInv
    BY InvsInit, TypedInit
  <1>2. Typed /\ AddressInv /\ [SettingsNext]_settingsVars => (Typed /\ AddressInv)'
    BY TypedKeeps, AddressKeeps
  <1>3. Typed /\ AddressInv /\ [SettingsNext]_settingsVars =>
          [\A k \in 1 .. MaxLine :
              LET text == Strip(SubSeq(line, k, Len(line)))
              IN  LineEnds /\ ~done /\ category # NoCategory /\ Assigns("host_ip", text)
                      /\ ParseIp(text) # Bad
                  => settings'["host_ip"] = ParseIp(text)]_settingsVars
    BY AddressHonouredStep
  <1> QED BY <1>1, <1>2, <1>3, PTL DEF SettingsSpec, AddressHonoured

-----------------------------------------------------------------------------
(* Both together. *)

\* In the channel each part behaves as it does by itself.
THEOREM ChannelParts == ChannelSpec => SettingsSpec /\ ConnectSpec
  <1>1. ChannelInit => SettingsInit /\ ConnectInit
    BY DEF ChannelInit
  <1>2. [ChannelNext]_channelVars => [SettingsNext]_settingsVars /\ [ConnectNext]_connectVars
    BY DEF ChannelNext, channelVars
  <1> QED BY <1>1, <1>2, PTL DEF ChannelSpec, SettingsSpec, ConnectSpec

=============================================================================
