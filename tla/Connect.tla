------------------------------ MODULE Connect ------------------------------
(***************************************************************************)
(* How the two consoles get connected and how packets get through: the     *)
(* start of the network (src/network_wii.c), ConnectHOST and ConnectGUEST  *)
(* (src/main.c), then reliable_send and reliable_recv of the module        *)
(* (modules/netslug_main/main.c) in the game.                              *)
(*                                                                         *)
(* The consoles' IOS and the network between them are external: a call may *)
(* fail, a send or a receive may transfer a part, the connection may break *)
(* once.  The bytes of a connection arrive in order.  An int is IntSize    *)
(* bytes and a packet PacketSize.  A byte is its packet's number, 0 for    *)
(* the int of the handshake, and its index.                                *)
(***************************************************************************)
EXTENDS Integers, Sequences, FiniteSets, SequencesExt, TLC

CONSTANTS
    IntSize,            \* bytes of an int
    PacketSize,         \* bytes of a packet
    MaxPackets,         \* bound: packets that a console sends
    MaxFailures,        \* bound: calls in the game that fail with nothing transferred
    IosErrors           \* the errors of IOS

ASSUME ConnectAssumption ==
    /\ IntSize \in Nat \ {0} /\ PacketSize \in Nat \ {0}
    /\ MaxPackets \in Nat /\ MaxFailures \in Nat
    /\ \A e \in IosErrors : e \in Int /\ e < 0

Consoles == {"host", "guest"}
Other(c) == IF c = "host" THEN "guest" ELSE "host"

\* Sockets: what Mynet_socket returned, the accepted end, the connected end, or an error.
NoSocket == "no socket"
NotGiven == [communicationSock |-> NoSocket, net_ip_top_fd |-> -1, host |-> "unset"]

VARIABLES
    pc,                 \* by console: the next step
    net_ip_top_fd,      \* by console: of the channel
    open,               \* by console: the devices that are open
    sock,               \* by console: the socket that ConnectHOST or ConnectGUEST uses next
    whatigot,           \* by console
    given,              \* by console: what the module is given
    connection,         \* "none", "listening", "requested", "up" or "broken"
    stream,             \* by console: the bytes on their way from it
    sending,            \* by console: the packet and how much of it is sent
    receiving,          \* by console: the bytes of the packet so far
    received,           \* by console: the packets
    failures,
    torn                \* a packet was given up after a part of it was transferred

connectVars == <<pc, net_ip_top_fd, open, sock, whatigot, given, connection, stream,
                 sending, receiving, received, failures, torn>>
netVars == <<connection, stream>>
gameVars == <<sending, receiving, received, failures, torn>>

ConnectInit ==
    /\ pc = [c \in Consoles |-> "init"]
    /\ net_ip_top_fd = [c \in Consoles |-> -1]
    /\ open = [c \in Consoles |-> {}]
    /\ sock = [c \in Consoles |-> NoSocket]
    /\ whatigot = [c \in Consoles |-> 0]
    /\ given = [c \in Consoles |-> NotGiven]
    /\ connection = "none"
    /\ stream = [c \in Consoles |-> << >>]
    /\ sending = [c \in Consoles |-> [packet |-> 1, i |-> 0]]
    /\ receiving = [c \in Consoles |-> << >>]
    /\ received = [c \in Consoles |-> << >>]
    /\ failures = 0
    /\ torn = FALSE

-----------------------------------------------------------------------------
(* The start of the network *)

\* IOS's errors that have one of errno: EAGAIN, EALREADY, EINVAL, EINPROGRESS, EISCONN, ENETDOWN.
_net_error_code_map == 6 :> 11 @@ 7 :> 120 @@ 8 :> 22 @@ 26 :> 119 @@ 30 :> 127 @@ 39 :> 115
MapSize == 61

\* The value for an error; error MapSize reads the byte behind the map, which may be anything.
_net_convert_error(e) ==
    IF -e = MapSize THEN {-10000 + e} \cup {-b : b \in 1 .. 255}
    ELSE IF -e \in DOMAIN _net_error_code_map THEN {-_net_error_code_map[-e]}
    ELSE {-10000 + e}

(***************************************************************************)
(* The IOS calls of Mynet_init, each of which may fail: the link status    *)
(* (_open_manage_fd and MyNCDGetLinkStatus), /dev/net/ip/top,              *)
(* MyNWC24iStartupSocket, IOCTL_SO_STARTUP, and Mynet_gethostip after      *)
(* MAX_IP_RETRIES calls.  _open_manage_fd repeats its call as long as the  *)
(* converted error is IPC_ENOENT.                                          *)
(***************************************************************************)
InitCalls == {"open ncd", "link status", "open top", "open kd", "startup kd", "startup so", "host ip"}
IPC_ENOENT == -6

\* What is left when a call failed: the ncd and kd devices are closed in any case.
AfterFailure(call, ret) ==
    [fd |-> IF call = "open top" THEN ret ELSE -1, open |-> {}]

Mynet_init(c) ==
    /\ pc[c] = "init"
    /\ \/ /\ net_ip_top_fd' = [net_ip_top_fd EXCEPT ![c] = 0]
          /\ open' = [open EXCEPT ![c] = {"top"}]
          /\ pc' = [pc EXCEPT ![c] = "socket"]
       \/ \E call \in InitCalls, e \in IosErrors : \E ret \in _net_convert_error(e) :
             /\ ~(call = "open ncd" /\ ret = IPC_ENOENT)
             /\ net_ip_top_fd' = [net_ip_top_fd EXCEPT ![c] = AfterFailure(call, ret).fd]
             /\ open' = [open EXCEPT ![c] = AfterFailure(call, ret).open]
             /\ pc' = [pc EXCEPT ![c] = "error"]
    /\ UNCHANGED <<sock, whatigot, given, netVars, gameVars>>

-----------------------------------------------------------------------------
(* ConnectHOST and ConnectGUEST.  IOS refuses a socket it did not give. *)

Goto(c, label) == pc' = [pc EXCEPT ![c] = label]

\* A failed call returns an error that is not -1, which is what the code looks for.
Mynet_socket(c) ==
    /\ pc[c] = "socket"
    /\ \E s \in {"socket", "error"} : sock' = [sock EXCEPT ![c] = s]
    /\ Goto(c, IF c = "host" THEN "bind" ELSE "connect")
    /\ UNCHANGED <<net_ip_top_fd, open, whatigot, given, netVars, gameVars>>

\* Mynet_gethostip takes an error for an address, which bind then refuses.
Mynet_bind ==
    /\ pc["host"] = "bind"
    /\ \/ sock["host"] = "socket" /\ Goto("host", "listen")
       \/ Goto("host", "error")
    /\ UNCHANGED <<net_ip_top_fd, open, sock, whatigot, given, netVars, gameVars>>

Mynet_listen ==
    /\ pc["host"] = "listen"
    /\ \/ connection' = "listening" /\ Goto("host", "accept")
       \/ UNCHANGED connection /\ Goto("host", "error")
    /\ UNCHANGED <<net_ip_top_fd, open, sock, whatigot, given, stream, gameVars>>

\* The guest cannot get connected before the host listens.
Mynet_connect ==
    /\ pc["guest"] = "connect"
    /\ \/ /\ sock["guest"] = "socket" /\ connection = "listening"
          /\ connection' = "requested"
          /\ sock' = [sock EXCEPT !["guest"] = "connected"]
          /\ Goto("guest", "recv")
       \/ UNCHANGED <<connection, sock>> /\ Goto("guest", "error")
    /\ UNCHANGED <<net_ip_top_fd, open, whatigot, given, stream, gameVars>>

\* The host waits for a guest; an error is not noticed until the socket is used.
Mynet_accept ==
    /\ pc["host"] = "accept"
    /\ \/ /\ connection = "requested"
          /\ connection' = "up"
          /\ sock' = [sock EXCEPT !["host"] = "accepted"]
       \/ UNCHANGED connection /\ sock' = [sock EXCEPT !["host"] = "error"]
    /\ Goto("host", "send")
    /\ UNCHANGED <<net_ip_top_fd, open, whatigot, given, stream, gameVars>>

\* The socket is an end of the connection.
Usable(c) == sock[c] \in {"accepted", "connected"}

IntBytes == [k \in 1 .. IntSize |-> <<0, k>>]

\* Mynet_send of letsgo: the code goes on only when all of it was taken.
SendLetsgo(c) ==
    /\ pc[c] = "send"
    /\ \/ /\ Usable(c) /\ connection # "broken"
          /\ \E n \in 1 .. IntSize :
                /\ stream' = [stream EXCEPT ![c] = @ \o SubSeq(IntBytes, 1, n)]
                /\ Goto(c, IF n # IntSize THEN "error" ELSE IF c = "host" THEN "recv" ELSE "start")
       \/ UNCHANGED stream /\ Goto(c, "error")
    /\ UNCHANGED <<net_ip_top_fd, open, sock, whatigot, given, connection, gameVars>>

\* Mynet_recv of whatigot: it waits for bytes, may return a part of them, and may fail at any time.
RecvWhatigot(c) ==
    /\ pc[c] = "recv"
    /\ \/ /\ stream[Other(c)] # << >>
          /\ \E n \in 1 .. IntSize :
                /\ n <= Len(stream[Other(c)])
                /\ stream' = [stream EXCEPT ![Other(c)] = SubSeq(@, n + 1, Len(@))]
                /\ whatigot' = [whatigot EXCEPT ![c] =
                       IF SubSeq(stream[Other(c)], 1, n) = IntBytes THEN 1 ELSE 0]
                /\ Goto(c, IF n # IntSize THEN "error" ELSE IF c = "host" THEN "start" ELSE "send")
       \/ UNCHANGED <<stream, whatigot>> /\ Goto(c, "error")
    /\ UNCHANGED <<net_ip_top_fd, open, sock, given, connection, gameVars>>

\* Mutant: the module of the host gets the socket that listens.
GivenSocket_Listening(c) == IF c = "host" THEN "socket" ELSE sock[c]

\* communicationSock of the host, sock of the guest.
GivenSocket(c) == sock[c]

\* The module gets the socket, the device and its part, and the game starts.
StartGame(c) ==
    /\ pc[c] = "start"
    /\ \/ /\ whatigot[c] = 1
          /\ given' = [given EXCEPT ![c] = [communicationSock |-> GivenSocket(c),
                           net_ip_top_fd |-> net_ip_top_fd[c], host |-> c]]
          /\ Goto(c, "game")
       \/ whatigot[c] # 1 /\ UNCHANGED given /\ Goto(c, "error")
    /\ UNCHANGED <<net_ip_top_fd, open, sock, whatigot, netVars, gameVars>>

\* The connection is lost with what was on its way.
Break ==
    /\ connection \in {"requested", "up"}
    /\ connection' = "broken"
    /\ stream' = [c \in Consoles |-> << >>]
    /\ UNCHANGED <<pc, net_ip_top_fd, open, sock, whatigot, given, gameVars>>

-----------------------------------------------------------------------------
(* The game *)

PacketBytes(p) == [k \in 1 .. PacketSize |-> <<p, k>>]

\* Mutant: the rest is sent from the start of the packet.
Rest_Start(s) == SubSeq(PacketBytes(s.packet), 1, PacketSize - s.i)

\* The bytes that the next Mynet_send of reliable_send is given.
Rest(s) == SubSeq(PacketBytes(s.packet), s.i + 1, PacketSize)

\* One turn of the loop of reliable_send; after the last one the next packet is sent.
SendPart(c) ==
    /\ pc[c] = "game" /\ connection = "up"
    /\ sending[c].packet <= MaxPackets
    /\ \E amt \in 1 .. PacketSize - sending[c].i :
          /\ stream' = [stream EXCEPT ![c] = @ \o SubSeq(Rest(sending[c]), 1, amt)]
          /\ sending' = [sending EXCEPT ![c] =
                 IF @.i + amt < PacketSize THEN [packet |-> @.packet, i |-> @.i + amt]
                 ELSE [packet |-> @.packet + 1, i |-> 0]]
    /\ UNCHANGED <<pc, net_ip_top_fd, open, sock, whatigot, given, connection,
                   receiving, received, failures, torn>>

\* reliable_send returns an error and sendThread_main repeats the whole packet.
SendFails(c) ==
    /\ pc[c] = "game" /\ connection \in {"up", "broken"}
    /\ sending[c].packet <= MaxPackets
    /\ failures < MaxFailures /\ failures' = failures + 1
    /\ sending' = [sending EXCEPT ![c].i = 0]
    /\ torn' = (torn \/ sending[c].i > 0)
    /\ UNCHANGED <<pc, net_ip_top_fd, open, sock, whatigot, given, netVars,
                   receiving, received>>

\* One turn of the loop of reliable_recv; a whole packet is handed on.
RecvPart(c) ==
    /\ pc[c] = "game" /\ stream[Other(c)] # << >>
    /\ \E amt \in 1 .. PacketSize - Len(receiving[c]) :
          LET so == receiving[c] \o SubSeq(stream[Other(c)], 1, amt)
          IN  /\ amt <= Len(stream[Other(c)])
              /\ stream' = [stream EXCEPT ![Other(c)] = SubSeq(@, amt + 1, Len(@))]
              /\ receiving' = [receiving EXCEPT ![c] = IF Len(so) < PacketSize THEN so ELSE << >>]
              /\ received' = [received EXCEPT ![c] =
                     IF Len(so) < PacketSize THEN @ ELSE Append(@, so)]
    /\ UNCHANGED <<pc, net_ip_top_fd, open, sock, whatigot, given, connection, sending,
                   failures, torn>>

\* reliable_recv returns an error; recvThread_main receives a whole packet again.
RecvFails(c) ==
    /\ pc[c] = "game" /\ connection \in {"up", "broken"}
    /\ failures < MaxFailures /\ failures' = failures + 1
    /\ receiving' = [receiving EXCEPT ![c] = << >>]
    /\ torn' = (torn \/ receiving[c] # << >>)
    /\ UNCHANGED <<pc, net_ip_top_fd, open, sock, whatigot, given, netVars, sending,
                   received>>

-----------------------------------------------------------------------------
ConnectNext ==
    \/ \E c \in Consoles :
          \/ Mynet_init(c)
          \/ Mynet_socket(c)
          \/ SendLetsgo(c)
          \/ RecvWhatigot(c)
          \/ StartGame(c)
          \/ SendPart(c)
          \/ SendFails(c)
          \/ RecvPart(c)
          \/ RecvFails(c)
    \/ Mynet_bind
    \/ Mynet_listen
    \/ Mynet_accept
    \/ Mynet_connect
    \/ Break

ConnectSpec == ConnectInit /\ [][ConnectNext]_connectVars

-----------------------------------------------------------------------------
(* Properties *)

(***************************************************************************)
(* A console starts the game only with its own end of the connection and   *)
(* an open device, although the calls that give them return errors that    *)
(* the code does not look for; the host only after the guest has answered, *)
(* and the guest only after the host has asked.  No device stays open when *)
(* the network could not be started.                                       *)
(***************************************************************************)
StartedConnected ==
    /\ \A c \in Consoles : net_ip_top_fd[c] < 0 => open[c] = {}
    /\ \A c \in Consoles : pc[c] = "game" =>
          /\ given[c].communicationSock = (IF c = "host" THEN "accepted" ELSE "connected")
          /\ given[c].net_ip_top_fd >= 0 /\ open[c] = {"top"}
          /\ given[c].host = c
    /\ pc["host"] = "game" => pc["guest"] \in {"start", "game"}
    /\ pc["guest"] \in {"start", "game"} => pc["host"] \in {"recv", "start", "game", "error"}

(***************************************************************************)
(* Unless a call failed in the middle of a packet, the packets that a      *)
(* console receives are those that the other one sent, whole, in order and *)
(* each once, however they were cut up: what NetPlay takes for granted.    *)
(***************************************************************************)
Framed ==
    ~torn => \A c \in Consoles : \A k \in DOMAIN received[c] : received[c][k] = PacketBytes(k)

=============================================================================
