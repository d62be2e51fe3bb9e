------------------------------ MODULE HelloDemo ------------------------------
(***************************************************************************)
(* The demo of scratch/quic-main.cc, on its point-to-point link (three     *)
(* QuicClientApps and a QuicServerApp) or on its dumbbell (two servers     *)
(* with two clients each).  A client connects, says hello, gets an echo    *)
(* and is stopped; ten seconds later the servers are stopped too.  The     *)
(* datagrams of the clients carry the tags of PacketTrace, and one         *)
(* dispatcher of traces, shared by the servers, has a trace per client.    *)
(*                                                                         *)
(* Quiche is outside: it brings every piece of a connection across by      *)
(* sending it as often as needed, completes the handshake, delivers a      *)
(* stream once, and closes a connection that is idle.  A datagram of a     *)
(* client carries one piece: the handshake, the hello of a stream, or the  *)
(* close.  The way back is abstracted to the moment a piece arrives.       *)
(***************************************************************************)
EXTENDS Sessions, PacketTrace

CONSTANTS
  Servers,     (* the server applications                                  *)
  Clients,     (* the client applications                                  *)
  ServerOf,    (* ServerOf[c]: the peer of client c                        *)
  Types,       (* Types[c]: backends client c may be built with            *)
  Start, Stop, (* Start[c], Stop[c]: when c is started and stopped         *)
  ServerStop,  (* when the servers are stopped                             *)
  MaxPackets,  (* bound: MaxPackets[c], datagrams c sends before its last  *)
  MaxDrops     (* bound: datagrams the links lose                          *)

Handshake == 0
Close == MaxStreams + 1
Piece == Handshake..Close

ASSUME DemoAssumption ==
  /\ \A c \in Clients : /\ ServerOf[c] \in Servers
                        /\ Types[c] \in SUBSET Backends
                        /\ Start[c] \in Nat \ {0}
                        /\ Stop[c] \in Nat /\ Start[c] < Stop[c]
                        /\ Stop[c] < ServerStop
                        /\ MaxPackets[c] \in Nat
  /\ ServerStop \in Nat /\ ServerStop > 1
  /\ MaxDrops \in Nat

VARIABLES
  now,        (* the time                                                  *)
  backend,    (* backend[c]: the backend_type c was built with             *)
  phase,      (* phase[c]: "off", "on", "stopped" (m_running, m_impl)      *)
  hello,      (* hello[c]: SendHello is in the scheduler                   *)
  ready,      (* ready[c]: calls of OnSessionReady to come                 *)
  idle,       (* idle[c]: the connection is closed, at the client          *)
  client,     (* client[c]: the session of c                               *)
  serverOn,   (* the servers with m_running                                *)
  server,     (* server[c]: its server's session with c                    *)
  accepted,   (* accepted[c]: the dispatcher has made that session         *)
  closing,    (* closing[c]: it is closed, and to be deleted               *)
  pending,    (* pending[c]: pieces not yet across                         *)
  echo,       (* echo[c]: streams whose echo is on its way to c            *)
  done,       (* done[c]: streams whose echo has arrived                   *)
  m_seq,      (* m_seq[c]: number of the next datagram of c                *)
  link,       (* link[c]: the datagrams on their way from c to the server  *)
  received,   (* received[c]: datagrams of c that its server has measured  *)
  trace,      (* trace[c]: the trace of c                                  *)
  drops       (* datagrams lost so far                                     *)

app   == <<backend, phase, hello>>
conn  == <<ready, idle, client, serverOn, server, accepted, closing, pending, echo, done>>
flow  == <<m_seq, link, received, trace, drops>>
vars  == <<now, app, conn, flow>>

(* What the set-up of the demo leaves behind: the applications of the      *)
(* clients and of the servers, the links, and the dispatcher of traces.    *)
InstallClients ==
  /\ backend \in {b \in [Clients -> Backends] : \A c \in Clients : b[c] \in Types[c]}
  /\ phase = [c \in Clients |-> "off"]
  /\ hello = [c \in Clients |-> FALSE]
  /\ ready = [c \in Clients |-> 0]
  /\ idle = [c \in Clients |-> FALSE]
  /\ client = [c \in Clients |-> NoSession]
  /\ m_seq = [c \in Clients |-> 1]

InstallServers ==
  /\ serverOn = {}
  /\ server = [c \in Clients |-> NoSession]
  /\ accepted = [c \in Clients |-> FALSE]
  /\ closing = [c \in Clients |-> FALSE]

BuildTopo ==
  /\ link = [c \in Clients |-> <<>>]
  /\ drops = 0

AddMonitorAddressPair ==
  /\ trace = [c \in Clients |-> NewTrace]
  /\ received = [c \in Clients |-> {}]

Init ==
  /\ now = 1
  /\ BuildTopo /\ InstallServers /\ InstallClients /\ AddMonitorAddressPair
  /\ pending = [c \in Clients |-> {}]
  /\ echo = [c \in Clients |-> {}]
  /\ done = [c \in Clients |-> {}]

-----------------------------------------------------------------------------
(* The applications. *)

(* Ns3QuicServer::ConfigureDispatcher; a server is on while it has one. *)
ConfigureDispatcher(s) == s \notin serverOn /\ serverOn' = serverOn \cup {s}

(* QuicServerApp::StartApplication: at the same time as the first client,  *)
(* in whatever order.                                                      *)
StartServer(s) ==
  /\ now = 1
  /\ ConfigureDispatcher(s)
  /\ UNCHANGED <<now, app, flow>>
  /\ UNCHANGED <<ready, idle, client, server, accepted, closing, pending, echo, done>>

CreateQuicClientSession(c) == client' = [client EXCEPT ![c] = NewClientSession]

(* The handshake begins, which will report readiness once or twice. *)
AsynConnect(c) ==
  /\ \E calls \in 1..MaxStreams : ready' = [ready EXCEPT ![c] = calls]
  /\ pending' = [pending EXCEPT ![c] = {Handshake}]

InitialAndConnect(c) == CreateQuicClientSession(c) /\ AsynConnect(c)

(* QuicClientApp::StartApplication: InitialAndConnect, and SendHello in    *)
(* ten milliseconds.                                                       *)
StartClient(c) ==
  /\ phase[c] = "off" /\ now = Start[c]
  /\ phase' = [phase EXCEPT ![c] = "on"]
  /\ hello' = [hello EXCEPT ![c] = TRUE]
  /\ InitialAndConnect(c)
  /\ UNCHANGED <<now, backend, flow>>
  /\ UNCHANGED <<idle, serverOn, server, accepted, closing, echo, done>>

(* QuicClientApp::SendHello: only a MyClientBackend has something to say,  *)
(* and only if its endpoint has a channel by then.  It relies on m_impl    *)
(* being there, which the times of the demo grant: no client is stopped in *)
(* the ten milliseconds after its start.                                   *)
SendHello(c) ==
  /\ hello[c] /\ phase[c] = "on"
  /\ hello' = [hello EXCEPT ![c] = FALSE]
  /\ pending' = [pending EXCEPT ![c] =
       IF backend[c] = "my" /\ HasChannel(client[c])
       THEN @ \cup {client[c].channel} ELSE @]
  /\ UNCHANGED <<now, backend, phase, flow>>
  /\ UNCHANGED <<ready, idle, client, serverOn, server, accepted, closing, echo, done>>

Datagram(c, piece) ==
  [number |-> m_seq[c], piece |-> piece, tag |-> Serialize(m_seq[c], now)]

(* QuicClientApp::SendToNetwork *)
SendToNetwork(c, piece) ==
  /\ link' = [link EXCEPT ![c] = Append(@, Datagram(c, piece))]
  /\ m_seq' = [m_seq EXCEPT ![c] = @ + 1]

(* A client says goodbye, once, if there still is a connection. *)
CloseConnection(c) ==
  IF idle[c] THEN UNCHANGED <<link, m_seq>> ELSE SendToNetwork(c, Close)

(* The destructor of m_impl: the connection, then the session. *)
Disconnect(c) ==
  /\ CloseConnection(c)
  /\ idle' = [idle EXCEPT ![c] = TRUE]
  /\ client' = [client EXCEPT ![c] = SessionDtor(@)]
  /\ ready' = [ready EXCEPT ![c] = 0]
  /\ pending' = [pending EXCEPT ![c] = {}]
  /\ echo' = [echo EXCEPT ![c] = {}]

(* QuicClientApp::StopApplication *)
StopClient(c) ==
  /\ phase[c] = "on" /\ now = Stop[c]
  /\ phase' = [phase EXCEPT ![c] = "stopped"]
  /\ Disconnect(c)
  /\ UNCHANGED <<now, backend, hello, received, trace, drops>>
  /\ UNCHANGED <<serverOn, server, accepted, closing, done>>

(* Ns3QuicServerTraceDispatcher::Shutdown, of all traces. *)
CloseTraces == trace' = [c \in Clients |-> CloseTrace(trace[c])]

(* Ns3QuicServer::Shutdown: the dispatcher of s deletes all its sessions. *)
Shutdown(s) ==
  /\ server' = [c \in Clients |-> IF ServerOf[c] = s THEN SessionDtor(server[c]) ELSE server[c]]
  /\ accepted' = [c \in Clients |-> ServerOf[c] # s /\ accepted[c]]
  /\ closing' = [c \in Clients |-> ServerOf[c] # s /\ closing[c]]

(* Mutant: the server is dropped without Shutdown. *)
StopServerSilently(s) ==
  /\ s \in serverOn /\ now = ServerStop
  /\ serverOn' = serverOn \ {s}
  /\ CloseTraces
  /\ UNCHANGED <<now, app, m_seq, link, received, drops>>
  /\ UNCHANGED <<ready, idle, client, server, closing, accepted, pending, echo, done>>

(* QuicServerAppImpl::Stop; nothing is read any more. *)
StopImpl(s) == Shutdown(s) /\ serverOn' = serverOn \ {s}

(* QuicServerApp::StopApplication *)
StopServer(s) ==
  /\ s \in serverOn /\ now = ServerStop
  /\ CloseTraces
  /\ StopImpl(s)
  /\ UNCHANGED <<now, app, m_seq, link, received, drops>>
  /\ UNCHANGED <<ready, idle, client, pending, echo, done>>

-----------------------------------------------------------------------------
(* The way to the server. *)

(* Quiche has the client send a piece that is not across, again if need be. *)
Send(c) ==
  /\ phase[c] = "on" /\ ~idle[c] /\ m_seq[c] <= MaxPackets[c]
  /\ \E piece \in pending[c] : SendToNetwork(c, piece)
  /\ UNCHANGED <<now, app, conn, received, trace, drops>>

Drop(c) ==
  /\ link[c] # <<>> /\ drops < MaxDrops
  /\ link' = [link EXCEPT ![c] = Tail(@)]
  /\ drops' = drops + 1
  /\ UNCHANGED <<now, app, conn, m_seq, received, trace>>

(* Ns3QuicDispatcher::CreateQuicSession, for the first datagram of a       *)
(* connection.                                                             *)
CreateQuicSession(c) ==
  /\ accepted' = [accepted EXCEPT ![c] = TRUE]
  /\ pending' = [pending EXCEPT ![c] = @ \ {Handshake}]
  /\ UNCHANGED <<closing, server, echo>>

(* The first data of a stream: CreateIncomingStream, and EchoBidiChannel   *)
(* answers at once.                                                        *)
OnHello(c, id) ==
  /\ server' = [server EXCEPT ![c] = CreateIncomingStream(@, id)]
  /\ echo' = [echo EXCEPT ![c] = IF backend[c] = "hello" THEN @ \cup {id} ELSE @]
  /\ pending' = [pending EXCEPT ![c] = @ \ {id}]
  /\ UNCHANGED <<accepted, closing>>

(* The pieces that mean something to the server's session, whatever has    *)
(* become of the client meanwhile.  A deleted session is not made anew by  *)
(* a late datagram, nor is a stream that exists, or that was finished.     *)
Process(c, piece) ==
  CASE piece = Handshake /\ ~accepted[c] /\ ~Deleted(server[c]) ->
         CreateQuicSession(c)
    [] /\ piece \in Stream /\ piece \notin server[c].streams \cup done[c]
       /\ accepted[c] /\ ~closing[c] ->
         OnHello(c, piece)
    [] piece = Close /\ accepted[c] ->
         /\ closing' = [closing EXCEPT ![c] = TRUE]
         /\ UNCHANGED <<accepted, pending, server, echo>>
    [] OTHER -> UNCHANGED <<accepted, pending, closing, server, echo>>

(* The dispatcher of traces, which may have been shut down by the other    *)
(* server.                                                                 *)
Measure(c, packet) ==
  IF trace[c].open
  THEN /\ trace' = [trace EXCEPT ![c] = OnOwd(@, now, Deserialize(packet.tag).seq)]
       /\ received' = [received EXCEPT ![c] = @ \cup {packet.number}]
  ELSE UNCHANGED <<trace, received>>

(* QuicServerApp::RecvPacket, of the oldest datagram of c: quiche first,   *)
(* then the trace.                                                         *)
RecvPacket(c) ==
  /\ ServerOf[c] \in serverOn /\ link[c] # <<>>
  /\ Process(c, Head(link[c]).piece)
  /\ Measure(c, Head(link[c]))
  /\ link' = [link EXCEPT ![c] = Tail(@)]
  /\ UNCHANGED <<now, app, m_seq, drops, ready, idle, client, serverOn, done>>

-----------------------------------------------------------------------------
(* The way back, and the ends of things. *)

(* Ns3QuicClientSession reports its readiness from SetDefaultEncryptionLevel *)
(* or OnTlsHandshakeComplete, or from both; HelloClientEndpoint says hello *)
(* on the stream it opens.                                                 *)
Ready(c) ==
  /\ phase[c] = "on" /\ ready[c] > 0 /\ accepted[c]
  /\ ready' = [ready EXCEPT ![c] = @ - 1]
  /\ client' = [client EXCEPT ![c] = OnSessionReady(backend[c], @)]
  /\ pending' = [pending EXCEPT ![c] =
       IF backend[c] = "hello" THEN @ \cup {client'[c].channel} ELSE @]
  /\ UNCHANGED <<now, app, flow>>
  /\ UNCHANGED <<idle, serverOn, server, accepted, closing, echo, done>>

(* HelloBidiChannel reads the echo, with the end of its stream. *)
OnCanRead(c, id) ==
  /\ echo' = [echo EXCEPT ![c] = @ \ {id}]
  /\ done' = [done EXCEPT ![c] = @ \cup {id}]

(* QuicClientApp::RecvPacket: whatever arrives after StopApplication is    *)
(* not read.                                                               *)
EchoArrives(c, id) ==
  /\ phase[c] = "on" /\ ~idle[c] /\ id \in echo[c]
  /\ OnCanRead(c, id)
  /\ UNCHANGED <<now, app, flow>>
  /\ UNCHANGED <<ready, idle, client, serverOn, server, accepted, closing, pending>>

(* Quiche destroys a stream that is finished both ways, or whose connection *)
(* is closed, some time later.                                             *)
ClientStreamDone(c, id) ==
  /\ phase[c] = "on" /\ id \in client[c].streams
  /\ id \in done[c] \/ idle[c]
  /\ client' = [client EXCEPT ![c] = StreamDestroyed(@, id)]
  /\ UNCHANGED <<now, app, flow>>
  /\ UNCHANGED <<ready, idle, serverOn, server, accepted, closing, pending, echo, done>>

ServerStreamDone(c, id) ==
  /\ id \in server[c].streams
  /\ id \in done[c] \/ closing[c]
  /\ server' = [server EXCEPT ![c] = StreamDestroyed(@, id)]
  /\ UNCHANGED <<now, app, flow>>
  /\ UNCHANGED <<ready, idle, client, serverOn, accepted, closing, pending, echo, done>>

(* Nothing is left to be brought across; a client that is gone does not    *)
(* wait for its echo.                                                      *)
Quiet(c) == /\ accepted[c] /\ ready[c] = 0 /\ ~hello[c]
            /\ pending[c] = {} /\ link[c] = <<>>
            /\ idle[c] \/ echo[c] = {}

(* Each end closes the connection by itself when it was idle for long; at  *)
(* the client this is OnConnectionClosed.                                  *)
OnConnectionClosed(c) ==
  /\ phase[c] = "on" /\ ~idle[c] /\ Quiet(c)
  /\ idle' = [idle EXCEPT ![c] = TRUE]
  /\ UNCHANGED <<now, app, flow>>
  /\ UNCHANGED <<ready, client, serverOn, server, accepted, closing, pending, echo, done>>

ServerIdle(c) ==
  /\ ServerOf[c] \in serverOn /\ ~closing[c] /\ Quiet(c)
  /\ closing' = [closing EXCEPT ![c] = TRUE]
  /\ UNCHANGED <<now, app, flow>>
  /\ UNCHANGED <<ready, idle, client, serverOn, server, accepted, pending, echo, done>>

(* The dispatcher deletes a closed session some time later. *)
DeleteSession(c) ==
  /\ closing[c]
  /\ closing' = [closing EXCEPT ![c] = FALSE]
  /\ accepted' = [accepted EXCEPT ![c] = FALSE]
  /\ server' = [server EXCEPT ![c] = SessionDtor(@)]
  /\ UNCHANGED <<now, app, flow>>
  /\ UNCHANGED <<ready, idle, client, serverOn, pending, echo, done>>

(* Time does not pass an event that is in the scheduler; a unit of time is *)
(* longer than the ten milliseconds of SendHello.                          *)
Due == \/ serverOn # Servers
       \/ \E c \in Clients : \/ phase[c] = "off" /\ now = Start[c]
                             \/ phase[c] = "on" /\ now = Stop[c]
                             \/ hello[c]

Tick ==
  /\ now < ServerStop /\ ~Due
  /\ now' = now + 1
  /\ UNCHANGED <<app, conn, flow>>

Scheduled ==
  \/ Tick \/ \E s \in Servers : StartServer(s) \/ StopServer(s)
  \/ \E c \in Clients : StartClient(c) \/ SendHello(c) \/ StopClient(c)

Next ==
  \/ Tick \/ \E s \in Servers : StartServer(s) \/ StopServer(s)
  \/ \E c \in Clients :
       \/ StartClient(c) \/ SendHello(c) \/ StopClient(c)
       \/ Send(c) \/ Drop(c) \/ RecvPacket(c) \/ Ready(c)
       \/ OnConnectionClosed(c) \/ ServerIdle(c) \/ DeleteSession(c)
       \/ \E id \in Stream : EchoArrives(c, id) \/ ClientStreamDone(c, id)
                                 \/ ServerStreamDone(c, id)

(* The simulator runs what is scheduled; whether and when the network      *)
(* delivers is left open.                                                  *)
Spec == Init /\ [][Next]_vars /\ WF_vars(Scheduled)

-----------------------------------------------------------------------------
TypeOK ==
  /\ now \in 1..ServerStop
  /\ backend \in [Clients -> Backends]
  /\ phase \in [Clients -> {"off", "on", "stopped"}]
  /\ hello \in [Clients -> BOOLEAN]
  /\ ready \in [Clients -> 0..MaxStreams] /\ idle \in [Clients -> BOOLEAN]
  /\ client \in [Clients -> Session] /\ server \in [Clients -> Session]
  /\ serverOn \in SUBSET Servers
  /\ accepted \in [Clients -> BOOLEAN] /\ closing \in [Clients -> BOOLEAN]
  /\ pending \in [Clients -> SUBSET Piece]
  /\ echo \in [Clients -> SUBSET Stream] /\ done \in [Clients -> SUBSET Stream]
  /\ m_seq \in [Clients -> Nat] /\ drops \in Nat
  /\ received \in [Clients -> SUBSET Nat]

(* A channel that outlives its endpoint calls it back after it was deleted *)
(* only where an endpoint had two channels, and that takes the unguarded   *)
(* OnSessionReady of HelloClientEndpoint: the My endpoints never leave a   *)
(* channel behind, whatever is stopped, closed or lost when.  (The order   *)
(* of destruction in both sessions, ~MyClientEndpoint and                  *)
(* ~MyServerEndpoint, OnChannelDestroy.)                                   *)
OnlyTwinStreamsDangle ==
  \A c \in Clients :
    /\ client[c].wild => backend[c] = "hello" /\ client[c].opened = 2
    /\ server[c].wild => backend[c] = "hello" /\ client[c].opened = 2

(* The trace of a client counts exactly the datagrams that are missing     *)
(* below the last one the server has read, whatever was lost and sent      *)
(* again (Ns3QuicTag, Ns3QuicServerTrace::OnOwd).                          *)
LossCountRight ==
  \A c \in Clients :
    /\ trace[c].lostPackets = trace[c].lastSeq - Cardinality(received[c])
    /\ \A n \in received[c] : n <= trace[c].lastSeq

(* When the traces are closed, the lines of a goodput file account for     *)
(* every datagram measured, in whatever interval it came, unless the last  *)
(* came at the very instant of the last line (Ns3QuicServerTrace::OnOwd,   *)
(* LogGoodput and the destructor).                                         *)
GoodputComplete ==
  \A c \in Clients :
    ~trace[c].open /\ trace[c].receiptTime # trace[c].lastRateTime
      => trace[c].logged = Cardinality(received[c])

(* In the end no session and no endpoint is left on either side, although  *)
(* a client says goodbye only once and the datagram may be lost.           *)
Released ==
  \A c \in Clients : /\ phase[c] = "stopped" /\ Deleted(client[c])
                     /\ server[c].endpoint # "alive" /\ ~accepted[c]
EverythingReleased == <>[]Released
-----------------------------------------------------------------------------
(* The inductive invariant of the connections. *)

(* A session with one stream at most has nothing that could dangle.  *)
SessionOk(s) ==
  /\ s \in Session
  /\ s.channel <= s.opened
  /\ s.opened < 2 => /\ ~s.wild
                     /\ s.notified \subseteq {1}
                     /\ s.notified # {} => s.channel = 1 /\ s.endpoint = "alive"

ConnType ==
  /\ backend \in [Clients -> Backends]
  /\ phase \in [Clients -> {"off", "on", "stopped"}]
  /\ ready \in [Clients -> 0..MaxStreams] /\ idle \in [Clients -> BOOLEAN]
  /\ client \in [Clients -> Session] /\ server \in [Clients -> Session]
  /\ accepted \in [Clients -> BOOLEAN]
  /\ pending \in [Clients -> SUBSET Piece]
  /\ echo \in [Clients -> SUBSET Stream] /\ done \in [Clients -> SUBSET Stream]

ClientInv(c) ==
  /\ SessionOk(client[c])
  /\ phase[c] = "off" => client[c].opened = 0 /\ ~idle[c]
  /\ phase[c] = "on" => client[c].endpoint = "alive"
  /\ backend[c] = "my" =>
       /\ client[c].opened <= 1
       /\ echo[c] = {} /\ done[c] = {}
       /\ idle[c] => ready[c] = 0
       /\ phase[c] = "on" /\ client[c].opened = 1 /\ ready[c] > 0 => client[c].channel # NoStream

ServerInv(c) ==
  /\ SessionOk(server[c])
  /\ server[c].opened <= client[c].opened
  /\ \A id \in pending[c] : id <= client[c].opened
  /\ accepted[c] => server[c].endpoint # "deleted"

(* A stream whose hello is in flight was opened, also if its client has    *)
(* been stopped since.                                                     *)
InFlightInv ==
  \A c \in Clients : \A i \in 1..Len(link[c]) :
    link[c][i].piece \in Stream => link[c][i].piece <= client[c].opened

ConnInv == ConnType /\ \A c \in Clients : ClientInv(c) /\ ServerInv(c)
-----------------------------------------------------------------------------
(* The inductive invariant of the flows. *)

Packet == [number : Nat, piece : Piece, tag : Seq(Nat)]

FlowType ==
  /\ now \in Nat \ {0}
  /\ m_seq \in [Clients -> Nat \ {0}]
  /\ link \in [Clients -> Seq(Packet)]
  /\ received \in [Clients -> SUBSET Nat]
  /\ trace \in [Clients -> Trace]

(* What is on a link was sent in the order of its numbers, is newer than   *)
(* all that was measured, and its tags say so.                             *)
LinkInv(c) ==
  /\ \A i \in 1..Len(link[c]) :
       /\ link[c][i].number \in (trace[c].lastSeq + 1)..(m_seq[c] - 1)
       /\ Deserialize(link[c][i].tag).seq = link[c][i].number
  /\ \A i, j \in 1..Len(link[c]) : i < j => link[c][i].number < link[c][j].number
  /\ trace[c].lastSeq < m_seq[c]

FlowInv ==
  /\ FlowType
  /\ \A c \in Clients :
       /\ LinkInv(c)
       /\ CountInv(trace[c], received[c])
       /\ LogInv(trace[c])
       /\ trace[c].receiptTime <= now
=============================================================================
