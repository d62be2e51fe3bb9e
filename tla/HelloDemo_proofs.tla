-------------------------- MODULE HelloDemo_proofs --------------------------
(***************************************************************************)
(* That a deleted endpoint is never called back, except where a hello      *)
(* endpoint opened two streams, and that the traces count what was lost    *)
(* and log what was read: for any number of clients, any times, and any    *)
(* number of datagrams, lost or not.                                       *)
(***************************************************************************)
EXTENDS HelloDemo, PacketTrace_proofs

LEMMA NewSessions ==
  /\ SessionOk(NoSession) /\ NoSession.opened = 0 /\ NoSession.endpoint = "none"
  /\ SessionOk(NewClientSession) /\ NewClientSession.opened = 0
  /\ NewClientSession.endpoint = "alive"
  <1> USE DEF Session, Stream, MaxStreams, NoStream
  <1>1. NoSession \in Session
    BY DEF NoSession
  <1>2. NewClientSession \in Session
    BY <1>1 DEF NewClientSession, CreateEndpoint
  <1> QED BY <1>1, <1>2 DEF SessionOk, NewClientSession, CreateEndpoint, NoSession

LEMMA AttachOk ==
  ASSUME NEW s, SessionOk(s), NEW id \in Stream, s.endpoint = "alive"
  PROVE  LET t == Attach(CreateStream(s, id), id)
         IN  /\ SessionOk(t) /\ t.endpoint = "alive"
             /\ t.opened = (IF id > s.opened THEN id ELSE s.opened)
             /\ t.channel = id
  <1> USE DEF Session, Stream, MaxStreams, NoStream
  <1> DEFINE m == IF id > s.opened THEN id ELSE s.opened
             r == CreateStream(s, id)
             t == Attach(r, id)
  <1>1. s \in Session /\ s.opened \in 0..2
    BY DEF SessionOk
  <1>2. m \in 0..2 /\ id <= m /\ s.opened <= m
    BY <1>1
  <1>3. s.streams \cup {id} \in SUBSET (1..2) /\ s.notified \cup {id} \in SUBSET (1..2)
    BY <1>1
  <1>4. r \in Session /\ r.endpoint = "alive" /\ r.opened = m
        /\ r.notified = s.notified /\ r.wild = s.wild
    BY <1>1, <1>2, <1>3 DEF CreateStream
  <1> HIDE DEF r
  <1>5. t \in Session /\ t.endpoint = "alive" /\ t.opened = m /\ t.channel = id
        /\ t.notified = s.notified \cup {id} /\ t.wild = s.wild
    BY <1>1, <1>3, <1>4 DEF Attach
  <1>6. ASSUME m < 2
        PROVE ~t.wild /\ t.notified \subseteq {1} /\ t.channel = 1
    BY <1>1, <1>2, <1>5, <1>6 DEF SessionOk
  <1> HIDE DEF m, t
  <1>7. SessionOk(t)
    BY <1>2, <1>5, <1>6 DEF SessionOk
  <1> QED BY <1>5, <1>7 DEF m, t, r

LEMMA OnSessionReadyOk ==
  ASSUME NEW b \in Backends, NEW s, SessionOk(s), s.endpoint = "alive"
  PROVE  /\ SessionOk(OnSessionReady(b, s)) /\ OnSessionReady(b, s).endpoint = "alive"
         /\ OnSessionReady(b, s).opened >= s.opened
         /\ OnSessionReady(b, s).channel <= OnSessionReady(b, s).opened
         /\ b = "my" /\ s.channel # NoStream => OnSessionReady(b, s) = s
         /\ s.opened = 0 => /\ OnSessionReady(b, s).opened <= 1
                            /\ OnSessionReady(b, s).channel # NoStream
  <1>1. s \in Session /\ s.opened \in 0..2 /\ s.channel <= s.opened
    BY DEF SessionOk, Session, MaxStreams
  <1> DEFINE opens == (b = "my" => s.channel = NoStream) /\ s.opened < MaxStreams
  <1>2. CASE opens
    <2>1. s.opened + 1 \in Stream /\ s.opened + 1 > s.opened
      BY <1>1, <1>2 DEF Stream, MaxStreams
    <2> DEFINE t == Attach(OpenStream(s), s.opened + 1)
    <2>2. /\ SessionOk(t) /\ t.endpoint = "alive"
          /\ t.opened = s.opened + 1 /\ t.channel = s.opened + 1
      BY <2>1, AttachOk DEF OpenStream
    <2> HIDE DEF t
    <2>3. OnSessionReady(b, s) = t
      BY <1>2 DEF OnSessionReady, MyOnSessionReady, HelloOnSessionReady, t
    <2> QED BY <1>1, <1>2, <2>2, <2>3 DEF NoStream
  <1>3. CASE ~opens
    <2>1. OnSessionReady(b, s) = s
      BY <1>3 DEF OnSessionReady, MyOnSessionReady, HelloOnSessionReady
    <2>2. s.opened = 0 => FALSE
      BY <1>1, <1>3 DEF MaxStreams, SessionOk, NoStream, Session, Stream
    <2> QED BY <1>1, <2>1, <2>2
  <1> QED BY <1>2, <1>3

LEMMA CreateIncomingStreamOk ==
  ASSUME NEW s, SessionOk(s), NEW id \in Stream, s.endpoint # "deleted"
  PROVE  /\ SessionOk(CreateIncomingStream(s, id))
         /\ CreateIncomingStream(s, id).endpoint = "alive"
         /\ CreateIncomingStream(s, id).opened = (IF id > s.opened THEN id ELSE s.opened)
  <1> DEFINE e == CreateEndpoint(s)
  <1>1. s \in Session
    BY DEF SessionOk
  <1>2. e \in Session /\ e.endpoint = "alive" /\ e.opened = s.opened /\ e.channel = s.channel
        /\ e.notified = s.notified /\ e.wild = s.wild
    BY <1>1 DEF CreateEndpoint, Session
  <1> HIDE DEF e
  <1>3. SessionOk(e)
    BY <1>2 DEF SessionOk
  <1>4. CreateIncomingStream(s, id) = Attach(CreateStream(e, id), id)
    BY DEF CreateIncomingStream, e
  <1> QED BY <1>2, <1>3, <1>4, AttachOk

LEMMA StreamDestroyedOk ==
  ASSUME NEW s, SessionOk(s), NEW id \in Stream
  PROVE  /\ SessionOk(StreamDestroyed(s, id))
         /\ StreamDestroyed(s, id).endpoint = s.endpoint
         /\ StreamDestroyed(s, id).opened = s.opened
  <1> USE DEF Session, Stream, MaxStreams, NoStream
  <1> DEFINE t == StreamDestroyed(s, id)
             told == id \in s.notified
  <1>1. s \in Session /\ s.channel \in 0..2 /\ s.opened \in 0..2 /\ s.channel <= s.opened
    BY DEF SessionOk
  <1>2. /\ t.endpoint = s.endpoint /\ t.opened = s.opened
        /\ t.streams = s.streams \ {id} /\ t.notified = s.notified \ {id}
        /\ t.channel = IF told /\ s.endpoint = "alive" THEN NoStream ELSE s.channel
        /\ t.wild = (s.wild \/ (told /\ s.endpoint = "deleted"))
    BY <1>1 DEF StreamDestroyed, OnDestroy, OnChannelDestroy
  <1>3. t \in Session
    <2>1. OnDestroy(s, id) \in Session
      BY <1>1 DEF OnDestroy, OnChannelDestroy
    <2> QED BY <2>1 DEF StreamDestroyed
  <1>4. ASSUME s.opened < 2
        PROVE  /\ ~t.wild /\ t.notified \subseteq {1}
               /\ t.notified # {} => t.channel = 1 /\ t.endpoint = "alive"
    BY <1>1, <1>2, <1>4 DEF SessionOk
  <1>5. t.channel <= t.opened
    BY <1>1, <1>2
  <1> HIDE DEF t
  <1>6. SessionOk(t)
    BY <1>2, <1>3, <1>4, <1>5 DEF SessionOk
  <1> QED BY <1>2, <1>6 DEF t

LEMMA SessionDtorOk ==
  ASSUME NEW s, SessionOk(s)
  PROVE  SessionOk(SessionDtor(s)) /\ SessionDtor(s).opened = s.opened
  <1> USE DEF Session, Stream, MaxStreams, NoStream
  <1> DEFINE e == EndpointDtor(s)
             t == SessionDtor(s)
  <1>1. s \in Session /\ s.opened \in 0..2
    BY DEF SessionOk
  <1>2. /\ e \in Session /\ e.opened = s.opened /\ e.channel = NoStream /\ e.wild = s.wild
        /\ e.notified = s.notified \ {s.channel}
    BY <1>1 DEF EndpointDtor
  <1>3. s.opened < 2 => e.notified = {}
    BY <1>2 DEF SessionOk
  <1> HIDE DEF e
  <1>4. t = [e EXCEPT !.streams = {}, !.notified = {},
                      !.wild = @ \/ (e.endpoint = "deleted" /\ e.notified # {})]
    BY DEF SessionDtor, e
  <1>5. /\ t \in Session /\ t.opened = e.opened /\ t.channel = e.channel /\ t.notified = {}
        /\ t.wild = (e.wild \/ (e.endpoint = "deleted" /\ e.notified # {}))
    BY <1>2, <1>4
  <1> HIDE DEF t
  <1>6. s.opened < 2 => ~t.wild
    BY <1>2, <1>3, <1>5 DEF SessionOk
  <1>7. t.opened = s.opened /\ t.channel <= t.opened
    BY <1>1, <1>2, <1>5
  <1>8. SessionOk(t)
    BY <1>5, <1>6, <1>7 DEF SessionOk
  <1> QED BY <1>7, <1>8 DEF t

-----------------------------------------------------------------------------
LEMMA InitConn == Init => ConnInv
  <1> SUFFICES ASSUME Init PROVE ConnInv
    OBVIOUS
  <1>1. NoSession \in Session
    BY NewSessions DEF SessionOk
  <1>2. ConnType
    BY <1>1 DEF Init, InstallClients, InstallServers, ConnType, MaxStreams
  <1>3. ASSUME NEW c \in Clients PROVE ClientInv(c) /\ ServerInv(c)
    BY NewSessions DEF Init, InstallClients, InstallServers, ClientInv, ServerInv
  <1> QED BY <1>2, <1>3 DEF ConnInv

(* Only what belongs to one client can change in a step of that client. *)
LEMMA Frame ==
  ASSUME ConnInv, NEW c \in Clients, ConnType', backend' = backend,
         \A d \in Clients \ {c} :
           /\ phase'[d] = phase[d] /\ ready'[d] = ready[d] /\ idle'[d] = idle[d]
           /\ client'[d] = client[d] /\ server'[d] = server[d] /\ accepted'[d] = accepted[d]
           /\ pending'[d] = pending[d] /\ echo'[d] = echo[d] /\ done'[d] = done[d],
         ClientInv(c)', ServerInv(c)'
  PROVE  ConnInv'
  <1>1. ASSUME NEW d \in Clients, d # c PROVE ClientInv(d)' /\ ServerInv(d)'
    <2>1. ClientInv(d) /\ ServerInv(d)
      BY DEF ConnInv
    <2> QED BY <1>1, <2>1 DEF ClientInv, ServerInv
  <1> QED BY <1>1 DEF ConnInv

LEMMA StartClientConn ==
  ASSUME ConnInv, NEW c \in Clients, StartClient(c)
  PROVE  ConnInv'
  <1>1. ConnType /\ ClientInv(c) /\ ServerInv(c)
    BY DEF ConnInv
  <1>2. PICK calls \in 1..MaxStreams : ready' = [ready EXCEPT ![c] = calls]
    BY DEF StartClient, InitialAndConnect, AsynConnect
  <1>3. /\ phase[c] = "off" /\ phase' = [phase EXCEPT ![c] = "on"]
        /\ client' = [client EXCEPT ![c] = NewClientSession]
        /\ pending' = [pending EXCEPT ![c] = {Handshake}]
        /\ backend' = backend /\ idle' = idle /\ server' = server
        /\ accepted' = accepted /\ echo' = echo /\ done' = done
    BY DEF StartClient, InitialAndConnect, CreateQuicClientSession, AsynConnect
  <1>4. NewClientSession \in Session /\ Handshake \in Piece
    BY NewSessions DEF SessionOk, Handshake, Piece, Close, MaxStreams
  <1>5. ConnType'
    BY <1>1, <1>2, <1>3, <1>4 DEF ConnType, MaxStreams
  <1>6. /\ phase'[c] = "on" /\ client'[c] = NewClientSession /\ pending'[c] = {Handshake}
        /\ server'[c] = server[c] /\ idle'[c] = idle[c] /\ ready'[c] = calls
    BY <1>1, <1>2, <1>3 DEF ConnType
  <1>7. server[c].opened = 0 /\ client[c].opened = 0 /\ server[c].opened \in 0..2
    BY <1>1, <1>3 DEF ServerInv, ClientInv, SessionOk, Session, MaxStreams
  <1>8. ServerInv(c)'
    BY <1>1, <1>3, <1>6, <1>7, NewSessions DEF ServerInv, Handshake
  <1>9. ClientInv(c)'
    BY <1>1, <1>3, <1>6, <1>7, NewSessions DEF ClientInv
  <1> QED BY <1>2, <1>3, <1>5, <1>8, <1>9, Frame DEF ConnType

LEMMA SendHelloConn ==
  ASSUME ConnInv, NEW c \in Clients, SendHello(c)
  PROVE  ConnInv'
  <1>1. ConnType /\ ClientInv(c) /\ ServerInv(c)
    BY DEF ConnInv
  <1> DEFINE says == backend[c] = "my" /\ client[c].channel # NoStream
  <1>2. /\ pending' = [pending EXCEPT ![c] =
                         IF says THEN @ \cup {client[c].channel} ELSE @]
        /\ phase' = phase /\ client' = client /\ ready' = ready
        /\ backend' = backend /\ idle' = idle /\ server' = server
        /\ accepted' = accepted /\ echo' = echo /\ done' = done
    BY DEF SendHello, HasChannel
  <1>3. /\ client[c].channel \in 0..2 /\ client[c].opened \in 0..2
        /\ client[c].channel <= client[c].opened /\ client[c].channel \in Piece
    BY <1>1 DEF ClientInv, SessionOk, Session, NoStream, Stream, MaxStreams,
                Piece, Close, Handshake
  <1> HIDE DEF says
  <1>4. ConnType'
    BY <1>1, <1>2, <1>3 DEF ConnType
  <1>5. \A id \in pending'[c] : id <= client[c].opened
    BY <1>1, <1>2, <1>3 DEF ConnType, ServerInv
  <1>6. ServerInv(c)'
    BY <1>1, <1>2, <1>5 DEF ServerInv
  <1>7. ClientInv(c)'
    BY <1>1, <1>2 DEF ClientInv
  <1> QED BY <1>2, <1>4, <1>6, <1>7, Frame DEF ConnType

LEMMA StopClientConn ==
  ASSUME ConnInv, NEW c \in Clients, StopClient(c)
  PROVE  ConnInv'
  <1>1. ConnType /\ ClientInv(c) /\ ServerInv(c)
    BY DEF ConnInv
  <1>2. /\ phase' = [phase EXCEPT ![c] = "stopped"]
        /\ client' = [client EXCEPT ![c] = SessionDtor(@)]
        /\ pending' = [pending EXCEPT ![c] = {}]
        /\ ready' = [ready EXCEPT ![c] = 0] /\ idle' = [idle EXCEPT ![c] = TRUE]
        /\ echo' = [echo EXCEPT ![c] = {}]
        /\ backend' = backend /\ server' = server
        /\ accepted' = accepted /\ done' = done
    BY DEF StopClient, Disconnect
  <1>3. /\ SessionOk(SessionDtor(client[c])) /\ SessionDtor(client[c]) \in Session
        /\ SessionDtor(client[c]).opened = client[c].opened
    BY <1>1, SessionDtorOk DEF ClientInv, SessionOk
  <1>4. ConnType'
    BY <1>1, <1>2, <1>3 DEF ConnType, MaxStreams
  <1>5. /\ phase'[c] = "stopped" /\ client'[c] = SessionDtor(client[c]) /\ pending'[c] = {}
        /\ ready'[c] = 0 /\ echo'[c] = {}
    BY <1>1, <1>2 DEF ConnType
  <1>6. ServerInv(c)'
    BY <1>1, <1>2, <1>3, <1>5 DEF ServerInv
  <1>7. ClientInv(c)'
    BY <1>1, <1>2, <1>3, <1>5 DEF ClientInv
  <1> QED BY <1>2, <1>4, <1>6, <1>7, Frame DEF ConnType

LEMMA StopServerConn ==
  ASSUME ConnInv, NEW s \in Servers, StopServer(s)
  PROVE  ConnInv'
  <1>1. ConnType /\ \A c \in Clients : ClientInv(c) /\ ServerInv(c)
    BY DEF ConnInv
  <1>2. /\ server' = [c \in Clients |-> IF ServerOf[c] = s THEN SessionDtor(server[c])
                                        ELSE server[c]]
        /\ accepted' = [c \in Clients |-> ServerOf[c] # s /\ accepted[c]]
        /\ phase' = phase /\ client' = client /\ pending' = pending
        /\ ready' = ready /\ backend' = backend /\ idle' = idle
        /\ echo' = echo /\ done' = done
    BY DEF StopServer, StopImpl, Shutdown, app
  <1>3. ASSUME NEW c \in Clients
        PROVE  /\ SessionOk(SessionDtor(server[c])) /\ SessionDtor(server[c]) \in Session
               /\ SessionDtor(server[c]).opened = server[c].opened
    BY <1>1, SessionDtorOk DEF ServerInv, SessionOk
  <1>4. ConnType'
    <2>1. ASSUME NEW c \in Clients PROVE server'[c] \in Session /\ accepted'[c] \in BOOLEAN
      BY <1>1, <1>2, <1>3 DEF ConnType
    <2>2. server' \in [Clients -> Session] /\ accepted' \in [Clients -> BOOLEAN]
      BY <1>2, <2>1
    <2> QED BY <1>1, <1>2, <2>2 DEF ConnType
  <1>5. ASSUME NEW c \in Clients PROVE ClientInv(c)' /\ ServerInv(c)'
    <2>1. CASE ServerOf[c] = s
      <3>1. server'[c] = SessionDtor(server[c]) /\ ~accepted'[c]
        BY <1>2, <2>1
      <3> QED BY <1>1, <1>2, <1>3, <3>1 DEF ClientInv, ServerInv
    <2>2. CASE ServerOf[c] # s
      <3>1. server'[c] = server[c] /\ accepted'[c] = accepted[c]
        BY <1>1, <1>2, <2>2 DEF ConnType
      <3> QED BY <1>1, <1>2, <3>1 DEF ClientInv, ServerInv
    <2> QED BY <2>1, <2>2
  <1> QED BY <1>4, <1>5 DEF ConnInv

LEMMA ReadyConn ==
  ASSUME ConnInv, NEW c \in Clients, Ready(c)
  PROVE  ConnInv'
  <1>1. ConnType /\ ClientInv(c) /\ ServerInv(c)
    BY DEF ConnInv
  <1> DEFINE t == OnSessionReady(backend[c], client[c])
  <1>2. /\ phase[c] = "on" /\ ready[c] > 0 /\ ready' = [ready EXCEPT ![c] = @ - 1]
        /\ client' = [client EXCEPT ![c] = OnSessionReady(backend[c], @)]
        /\ pending' = [pending EXCEPT ![c] =
             IF backend[c] = "hello" THEN @ \cup {client'[c].channel} ELSE @]
        /\ phase' = phase /\ backend' = backend /\ idle' = idle /\ server' = server
        /\ accepted' = accepted /\ echo' = echo /\ done' = done
    BY DEF Ready, app
  <1>3. SessionOk(client[c]) /\ client[c].endpoint = "alive" /\ backend[c] \in Backends
    BY <1>1, <1>2 DEF ClientInv, ConnType
  <1>4. /\ SessionOk(t) /\ t.endpoint = "alive" /\ t.opened >= client[c].opened
        /\ t.channel <= t.opened
        /\ backend[c] = "my" /\ client[c].channel # NoStream => t = client[c]
        /\ client[c].opened = 0 => t.opened <= 1 /\ t.channel # NoStream
    BY <1>3, OnSessionReadyOk
  <1>5. client'[c] = t /\ ready'[c] = ready[c] - 1
    BY <1>1, <1>2 DEF ConnType
  <1> HIDE DEF t
  <1>6. t \in Session /\ t.channel \in Piece /\ t.opened \in 0..2 /\ t.channel \in 0..2
    BY <1>4 DEF SessionOk, Session, NoStream, Stream, MaxStreams, Piece, Close, Handshake
  <1>7. ConnType'
    <2>1. client' \in [Clients -> Session]
      BY <1>1, <1>2, <1>5, <1>6 DEF ConnType, t
    <2>2. pending' \in [Clients -> SUBSET Piece]
      BY <1>1, <1>2, <1>5, <1>6 DEF ConnType
    <2>3. ready' \in [Clients -> 0..MaxStreams]
      BY <1>1, <1>2 DEF ConnType, MaxStreams
    <2> QED BY <1>1, <1>2, <2>1, <2>2, <2>3 DEF ConnType
  <1>8. client[c].opened \in 0..2 /\ server[c].opened \in 0..2 /\ ready[c] \in 0..2
    BY <1>1 DEF ConnType, Session, MaxStreams
  <1>9. ServerInv(c)'
    <2>1. \A id \in pending[c] : id \in 0..3 /\ id <= client[c].opened
      BY <1>1 DEF ConnType, ServerInv, Piece, Handshake, Close, MaxStreams
    <2>2. pending'[c] \subseteq pending[c] \cup {t.channel}
      BY <1>1, <1>2, <1>5 DEF ConnType
    <2>3. \A id \in pending'[c] : id <= t.opened
      BY <1>4, <1>6, <1>8, <2>1, <2>2
    <2>4. server[c].opened <= t.opened
      BY <1>1, <1>4, <1>6, <1>8 DEF ServerInv
    <2> QED BY <1>1, <1>2, <1>5, <2>3, <2>4 DEF ServerInv
  <1>10. ClientInv(c)'
    <2>1. ASSUME backend[c] = "my"
          PROVE  /\ t.opened <= 1 /\ (t.opened = 1 => t.channel # NoStream)
                 /\ idle[c] => ready'[c] = 0
      <3>1. CASE client[c].opened = 0
        BY <1>1, <1>2, <1>4, <1>8, <2>1, <3>1 DEF ClientInv
      <3>2. CASE client[c].opened = 1
        BY <1>1, <1>2, <1>4, <1>8, <2>1, <3>2 DEF ClientInv
      <3> QED BY <1>1, <1>8, <2>1, <3>1, <3>2 DEF ClientInv
    <2> QED BY <1>1, <1>2, <1>4, <1>5, <2>1 DEF ClientInv
  <1> QED BY <1>2, <1>7, <1>9, <1>10, Frame DEF ConnType

LEMMA RecvPacketConn ==
  ASSUME ConnInv, FlowType, InFlightInv, NEW c \in Clients, RecvPacket(c)
  PROVE  ConnInv'
  <1>1. ConnType /\ ClientInv(c) /\ ServerInv(c)
    BY DEF ConnInv
  <1>2. PICK piece : Process(c, piece) /\ (piece \in Stream => piece <= client[c].opened)
    <2>1. link[c] \in Seq(Packet) /\ link[c] # <<>>
      BY DEF RecvPacket, FlowType
    <2>2. Head(link[c]) = link[c][1] /\ 1 \in 1..Len(link[c])
      BY <2>1
    <2> QED BY <2>2 DEF RecvPacket, InFlightInv
  <1>3. /\ phase' = phase /\ backend' = backend /\ idle' = idle /\ ready' = ready
        /\ client' = client /\ done' = done
    BY DEF RecvPacket, app
  <1>4. CASE CreateQuicSession(c) /\ ~Deleted(server[c])
    <2>1. /\ accepted' = [accepted EXCEPT ![c] = TRUE] /\ server' = server /\ echo' = echo
          /\ pending' = [pending EXCEPT ![c] = @ \ {Handshake}]
      BY <1>4 DEF CreateQuicSession
    <2>2. ConnType'
      BY <1>1, <1>3, <2>1 DEF ConnType
    <2>3. ServerInv(c)'
      BY <1>1, <1>3, <1>4, <2>1 DEF ServerInv, Deleted, ConnType
    <2>4. ClientInv(c)'
      BY <1>1, <1>3, <2>1 DEF ClientInv
    <2> QED BY <1>3, <2>1, <2>2, <2>3, <2>4, Frame DEF ConnType
  <1>5. CASE OnHello(c, piece) /\ piece \in Stream /\ accepted[c]
    <2> DEFINE t == CreateIncomingStream(server[c], piece)
    <2>1. /\ server' = [server EXCEPT ![c] = CreateIncomingStream(@, piece)]
          /\ echo' = [echo EXCEPT ![c] = IF backend[c] = "hello" THEN @ \cup {piece} ELSE @]
          /\ pending' = [pending EXCEPT ![c] = @ \ {piece}] /\ accepted' = accepted
      BY <1>5 DEF OnHello
    <2>2. /\ SessionOk(t) /\ t.endpoint = "alive"
          /\ t.opened = IF piece > server[c].opened THEN piece ELSE server[c].opened
      BY <1>1, <1>5, CreateIncomingStreamOk DEF ServerInv
    <2>3. server'[c] = t /\ t \in Session
      BY <1>1, <2>1, <2>2 DEF ConnType, SessionOk
    <2> HIDE DEF t
    <2>4. ConnType'
      <3>1. server' \in [Clients -> Session]
        BY <1>1, <2>1, <2>3 DEF ConnType, t
      <3>2. echo' \in [Clients -> SUBSET Stream]
        BY <1>1, <1>5, <2>1 DEF ConnType
      <3> QED BY <1>1, <1>3, <2>1, <3>1, <3>2 DEF ConnType
    <2>5. ServerInv(c)'
      <3>1. t.opened <= client[c].opened
        BY <1>1, <1>2, <1>5, <2>2 DEF ServerInv
      <3>2. \A id \in pending'[c] : id <= client[c].opened
        BY <1>1, <2>1 DEF ServerInv, ConnType
      <3> QED BY <1>3, <2>1, <2>2, <2>3, <3>1, <3>2 DEF ServerInv
    <2>6. ClientInv(c)'
      <3>1. backend[c] = "my" => echo'[c] = echo[c]
        BY <1>1, <2>1 DEF ConnType
      <3> QED BY <1>1, <1>3, <3>1 DEF ClientInv
    <2> QED BY <1>3, <2>1, <2>4, <2>5, <2>6, Frame DEF ConnType
  <1>6. CASE UNCHANGED <<accepted, pending, server, echo>>
    <2>1. ConnType'
      BY <1>1, <1>3, <1>6 DEF ConnType
    <2>2. ClientInv(c)' /\ ServerInv(c)'
      BY <1>1, <1>3, <1>6 DEF ClientInv, ServerInv
    <2> QED BY <1>3, <1>6, <2>1, <2>2, Frame
  <1> QED BY <1>2, <1>4, <1>5, <1>6 DEF Process

LEMMA EchoConn ==
  ASSUME ConnInv, NEW c \in Clients, NEW id \in Stream, EchoArrives(c, id)
  PROVE  ConnInv'
  <1>1. ConnType /\ ClientInv(c) /\ ServerInv(c)
    BY DEF ConnInv
  <1>2. /\ id \in echo[c] /\ echo' = [echo EXCEPT ![c] = @ \ {id}]
        /\ done' = [done EXCEPT ![c] = @ \cup {id}]
        /\ phase' = phase /\ backend' = backend /\ idle' = idle /\ ready' = ready
        /\ client' = client /\ server' = server /\ accepted' = accepted /\ pending' = pending
    BY DEF EchoArrives, OnCanRead, app
  <1>3. ConnType'
    BY <1>1, <1>2 DEF ConnType
  <1>4. ClientInv(c)' /\ ServerInv(c)'
    BY <1>1, <1>2 DEF ClientInv, ServerInv
  <1> QED BY <1>2, <1>3, <1>4, Frame DEF ConnType

LEMMA ClientStreamConn ==
  ASSUME ConnInv, NEW c \in Clients, NEW id \in Stream, ClientStreamDone(c, id)
  PROVE  ConnInv'
  <1>1. ConnType /\ ClientInv(c) /\ ServerInv(c)
    BY DEF ConnInv
  <1>2. /\ phase[c] = "on" /\ (id \in done[c] \/ idle[c])
        /\ client' = [client EXCEPT ![c] = StreamDestroyed(@, id)]
        /\ phase' = phase /\ backend' = backend /\ idle' = idle /\ ready' = ready
        /\ server' = server /\ accepted' = accepted /\ pending' = pending
        /\ echo' = echo /\ done' = done
    BY DEF ClientStreamDone, app
  <1> DEFINE t == StreamDestroyed(client[c], id)
  <1>3. SessionOk(t) /\ t.endpoint = client[c].endpoint /\ t.opened = client[c].opened
    BY <1>1, StreamDestroyedOk DEF ClientInv
  <1>4. client'[c] = t /\ t \in Session
    BY <1>1, <1>2, <1>3 DEF ConnType, SessionOk
  <1> HIDE DEF t
  <1>5. ConnType'
    BY <1>1, <1>2, <1>4 DEF ConnType, t
  <1>6. ServerInv(c)'
    BY <1>1, <1>2, <1>3, <1>4 DEF ServerInv
  <1>7. ClientInv(c)'
    <2>1. backend[c] = "my" => ready[c] = 0
      BY <1>1, <1>2 DEF ClientInv
    <2> QED BY <1>1, <1>2, <1>3, <1>4, <2>1 DEF ClientInv
  <1> QED BY <1>2, <1>5, <1>6, <1>7, Frame DEF ConnType

LEMMA ServerStreamConn ==
  ASSUME ConnInv, NEW c \in Clients, NEW id \in Stream, ServerStreamDone(c, id)
  PROVE  ConnInv'
  <1>1. ConnType /\ ClientInv(c) /\ ServerInv(c)
    BY DEF ConnInv
  <1>2. /\ server' = [server EXCEPT ![c] = StreamDestroyed(@, id)]
        /\ phase' = phase /\ backend' = backend /\ idle' = idle /\ ready' = ready
        /\ client' = client /\ accepted' = accepted /\ pending' = pending
        /\ echo' = echo /\ done' = done
    BY DEF ServerStreamDone, app
  <1> DEFINE t == StreamDestroyed(server[c], id)
  <1>3. SessionOk(t) /\ t.endpoint = server[c].endpoint /\ t.opened = server[c].opened
    BY <1>1, StreamDestroyedOk DEF ServerInv
  <1>4. server'[c] = t /\ t \in Session
    BY <1>1, <1>2, <1>3 DEF ConnType, SessionOk
  <1> HIDE DEF t
  <1>5. ConnType'
    BY <1>1, <1>2, <1>4 DEF ConnType, t
  <1>6. ServerInv(c)'
    BY <1>1, <1>2, <1>3, <1>4 DEF ServerInv
  <1>7. ClientInv(c)'
    BY <1>1, <1>2 DEF ClientInv
  <1> QED BY <1>2, <1>5, <1>6, <1>7, Frame DEF ConnType

LEMMA ClosedConn ==
  ASSUME ConnInv, NEW c \in Clients, OnConnectionClosed(c)
  PROVE  ConnInv'
  <1>1. ConnType /\ ClientInv(c) /\ ServerInv(c)
    BY DEF ConnInv
  <1>2. /\ phase[c] = "on" /\ ready[c] = 0 /\ idle' = [idle EXCEPT ![c] = TRUE]
        /\ phase' = phase /\ backend' = backend /\ ready' = ready
        /\ client' = client /\ server' = server /\ accepted' = accepted /\ pending' = pending
        /\ echo' = echo /\ done' = done
    BY DEF OnConnectionClosed, Quiet, app
  <1>3. ConnType'
    BY <1>1, <1>2 DEF ConnType
  <1>4. ClientInv(c)' /\ ServerInv(c)'
    BY <1>1, <1>2 DEF ClientInv, ServerInv
  <1> QED BY <1>2, <1>3, <1>4, Frame DEF ConnType

LEMMA DeleteSessionConn ==
  ASSUME ConnInv, NEW c \in Clients, DeleteSession(c)
  PROVE  ConnInv'
  <1>1. ConnType /\ ClientInv(c) /\ ServerInv(c)
    BY DEF ConnInv
  <1>2. /\ accepted' = [accepted EXCEPT ![c] = FALSE]
        /\ server' = [server EXCEPT ![c] = SessionDtor(@)]
        /\ phase' = phase /\ backend' = backend /\ ready' = ready /\ idle' = idle
        /\ client' = client /\ pending' = pending /\ echo' = echo /\ done' = done
    BY DEF DeleteSession, app
  <1>3. /\ SessionOk(SessionDtor(server[c])) /\ SessionDtor(server[c]) \in Session
        /\ SessionDtor(server[c]).opened = server[c].opened
    BY <1>1, SessionDtorOk DEF ServerInv, SessionOk
  <1>4. ConnType'
    BY <1>1, <1>2, <1>3 DEF ConnType
  <1>5. server'[c] = SessionDtor(server[c]) /\ ~accepted'[c]
    BY <1>1, <1>2 DEF ConnType
  <1>6. ClientInv(c)' /\ ServerInv(c)'
    BY <1>1, <1>2, <1>3, <1>5 DEF ClientInv, ServerInv
  <1> QED BY <1>2, <1>4, <1>6, Frame DEF ConnType

(* The steps that leave all of it alone. *)
LEMMA ConnUntouched ==
  ASSUME ConnInv,
         UNCHANGED <<backend, phase, ready, idle, client, server, accepted, pending, echo, done>>
  PROVE  ConnInv'
  <1>1. ConnType'
    BY DEF ConnInv, ConnType
  <1>2. \A c \in Clients : ClientInv(c)' /\ ServerInv(c)'
    BY DEF ConnInv, ClientInv, ServerInv
  <1> QED BY <1>1, <1>2 DEF ConnInv

LEMMA NextConn == ConnInv /\ FlowType /\ InFlightInv /\ [Next]_vars => ConnInv'
  <1> SUFFICES ASSUME ConnInv, FlowType, InFlightInv, [Next]_vars PROVE ConnInv'
    OBVIOUS
  <1>1. CASE \/ Tick \/ UNCHANGED vars \/ \E s \in Servers : StartServer(s)
           \/ \E c \in Clients : Send(c) \/ Drop(c) \/ ServerIdle(c)
    <2>1. UNCHANGED <<backend, phase, ready, idle, client, server, accepted, pending, echo, done>>
      BY <1>1 DEF StartServer, Tick, vars, Send, Drop, ServerIdle, app, conn
    <2> QED BY <2>1, ConnUntouched
  <1>2. CASE \E s \in Servers : StopServer(s)
    BY <1>2, StopServerConn
  <1>3. CASE \E c \in Clients : StartClient(c) \/ SendHello(c) \/ StopClient(c)
    BY <1>3, StartClientConn, SendHelloConn, StopClientConn
  <1>4. CASE \E c \in Clients : RecvPacket(c) \/ Ready(c) \/ OnConnectionClosed(c)
                                \/ DeleteSession(c)
    BY <1>4, RecvPacketConn, ReadyConn, ClosedConn, DeleteSessionConn
  <1>5. CASE \E c \in Clients : \E id \in Stream :
               EchoArrives(c, id) \/ ClientStreamDone(c, id) \/ ServerStreamDone(c, id)
    BY <1>5, EchoConn, ClientStreamConn, ServerStreamConn
  <1> QED BY <1>1, <1>2, <1>3, <1>4, <1>5 DEF Next

-----------------------------------------------------------------------------
(* The flows. *)

LEMMA InitFlow == Init => FlowInv
  <1> SUFFICES ASSUME Init PROVE FlowInv
    OBVIOUS
  <1>1. NewTrace \in Trace
    BY DEF NewTrace, Trace
  <1>2. FlowType
    <2>1. <<>> \in Seq(Packet)
      OBVIOUS
    <2>2. link \in [Clients -> Seq(Packet)]
      BY <2>1 DEF Init, BuildTopo
    <2> QED BY <1>1, <2>2 DEF Init, InstallClients, AddMonitorAddressPair, FlowType
  <1>3. ASSUME NEW c \in Clients
        PROVE  /\ LinkInv(c) /\ CountInv(trace[c], received[c])
               /\ LogInv(trace[c]) /\ trace[c].receiptTime <= now
    <2>1. /\ link[c] = <<>> /\ trace[c] = NewTrace /\ received[c] = {} /\ m_seq[c] = 1 /\ now = 1
      BY <1>3 DEF Init, BuildTopo, InstallClients, AddMonitorAddressPair
    <2>2. LinkInv(c)
      BY <2>1 DEF LinkInv, NewTrace
    <2>3. CountInv(trace[c], received[c])
      BY <2>1, FS_EmptySet DEF CountInv, NewTrace
    <2>4. LogInv(trace[c]) /\ trace[c].receiptTime <= now
      BY <2>1 DEF LogInv, NewTrace
    <2> QED BY <2>2, <2>3, <2>4
  <1> QED BY <1>2, <1>3 DEF FlowInv

(* Only one flow changes in a step that sends, loses or reads a datagram. *)
LEMMA FrameFlow ==
  ASSUME FlowInv, NEW c \in Clients, FlowType', now' = now,
         \A d \in Clients \ {c} :
           /\ link'[d] = link[d] /\ m_seq'[d] = m_seq[d]
           /\ received'[d] = received[d] /\ trace'[d] = trace[d],
         LinkInv(c)', CountInv(trace'[c], received'[c]), LogInv(trace'[c]),
         trace'[c].receiptTime <= now
  PROVE  FlowInv'
  <1>1. ASSUME NEW d \in Clients, d # c
        PROVE  /\ LinkInv(d)' /\ CountInv(trace'[d], received'[d])
               /\ LogInv(trace'[d]) /\ trace'[d].receiptTime <= now
    <2>1. /\ LinkInv(d) /\ CountInv(trace[d], received[d])
          /\ LogInv(trace[d]) /\ trace[d].receiptTime <= now
      BY DEF FlowInv
    <2> QED BY <1>1, <2>1 DEF LinkInv
  <1> QED BY <1>1 DEF FlowInv

(* A new datagram has the highest number, and its tag says so. *)
LEMMA Sent ==
  ASSUME FlowInv, NEW c \in Clients, NEW piece \in Piece, SendToNetwork(c, piece),
         UNCHANGED <<now, trace, received>>
  PROVE  FlowInv'
  <1> DEFINE n == m_seq[c]
             p == Datagram(c, piece)
             l == link[c]
  <1>1. /\ FlowType /\ LinkInv(c) /\ CountInv(trace[c], received[c])
        /\ LogInv(trace[c]) /\ trace[c].receiptTime <= now
    BY DEF FlowInv
  <1>2. n \in Nat \ {0} /\ now \in Nat /\ l \in Seq(Packet) /\ trace[c].lastSeq \in Nat
    BY <1>1 DEF FlowType, Trace
  <1>3. p.number = n /\ p.tag = Serialize(n, now) /\ p = [number |-> n, piece |-> piece, tag |-> Serialize(n, now)]
    BY DEF Datagram
  <1>4. Deserialize(p.tag).seq = n
    <2>1. Deserialize(Serialize(n, now)) = [seq |-> n, time |-> now]
      BY <1>2, TagReadBack
    <2> QED BY <1>3, <2>1
  <1>5. p \in Packet
    <2>1. VarintEncode[n] \in Seq(Nat) /\ VarintEncode[now] \in Seq(Nat)
      <3>1. VarintEncode \in [Nat -> Seq(Nat)]
        BY EncodeEquation
      <3> QED BY <1>2, <3>1
    <2>2. VarintEncode[n] \o VarintEncode[now] \in Seq(Nat)
      BY <2>1
    <2>3. Serialize(n, now) \in Seq(Nat)
      BY <2>2 DEF Serialize
    <2> QED BY <1>2, <1>3, <2>3 DEF Packet
  <1>6. link' = [link EXCEPT ![c] = Append(link[c], p)] /\ m_seq' = [m_seq EXCEPT ![c] = m_seq[c] + 1]
    BY DEF SendToNetwork
  <1> HIDE DEF p
  <1>7. Append(l, p) \in Seq(Packet) /\ n + 1 \in Nat \ {0}
    BY <1>2, <1>5
  <1>8. link'[c] = Append(l, p) /\ m_seq'[c] = n + 1
    BY <1>1, <1>6 DEF FlowType
  <1>9. FlowType'
    BY <1>1, <1>6, <1>7 DEF FlowType
  <1>10. LinkInv(c)'
    <2>1. /\ Len(link'[c]) = Len(l) + 1 /\ Len(l) \in Nat
          /\ \A i \in 1..Len(l) : link'[c][i] = l[i]
          /\ link'[c][Len(l) + 1] = p
      BY <1>2, <1>5, <1>8
    <2>2. \A i \in 1..Len(l) : /\ l[i].number \in (trace[c].lastSeq + 1)..(n - 1)
                               /\ Deserialize(l[i].tag).seq = l[i].number
      BY <1>1 DEF LinkInv
    <2>3. trace[c].lastSeq < n
      BY <1>1 DEF LinkInv
    <2>4. ASSUME NEW i \in 1..(Len(l) + 1)
          PROVE  /\ link'[c][i].number \in (trace[c].lastSeq + 1)..n
                 /\ Deserialize(link'[c][i].tag).seq = link'[c][i].number
      <3>1. CASE i = Len(l) + 1
        <4>1. link'[c][i] = p
          BY <2>1, <3>1
        <4>2. n \in (trace[c].lastSeq + 1)..n
          BY <1>2, <2>3
        <4>3. p.number = n
          BY <1>3
        <4> QED BY <1>4, <4>1, <4>2, <4>3
      <3>2. CASE i \in 1..Len(l)
        <4>1. link'[c][i] = l[i]
          BY <2>1, <3>2
        <4>2. /\ l[i].number \in (trace[c].lastSeq + 1)..(n - 1)
              /\ Deserialize(l[i].tag).seq = l[i].number
          BY <2>2, <3>2
        <4>3. l[i].number \in (trace[c].lastSeq + 1)..n
          <5> HIDE DEF l, n
          <5>1. n \in Nat /\ trace[c].lastSeq \in Nat
            BY <1>2
          <5> QED BY <4>2, <5>1
        <4> QED BY <4>1, <4>2, <4>3
      <3> QED BY <2>1, <3>1, <3>2
    <2>5. ASSUME NEW i \in 1..(Len(l) + 1), NEW j \in 1..(Len(l) + 1), i < j
          PROVE  link'[c][i].number < link'[c][j].number
      <3>1. i \in 1..Len(l) /\ link'[c][i] = l[i]
        BY <2>1, <2>5
      <3>2. CASE j = Len(l) + 1
        <4>1. link'[c][j] = p /\ p.number = n
          BY <1>3, <2>1, <3>2
        <4>2. l[i].number \in (trace[c].lastSeq + 1)..(n - 1)
          BY <2>2, <3>1
        <4>3. l[i].number < n
          <5> HIDE DEF l, n
          <5>1. n \in Nat /\ trace[c].lastSeq \in Nat
            BY <1>2
          <5> QED BY <4>2, <5>1
        <4> QED BY <3>1, <4>1, <4>3
      <3>3. CASE j \in 1..Len(l)
        <4>1. link'[c][j] = l[j]
          BY <2>1, <3>3
        <4>2. l[i].number < l[j].number
          <5>1. \A i1, i2 \in 1..Len(l) : i1 < i2 => l[i1].number < l[i2].number
            BY <1>1 DEF LinkInv
          <5> QED BY <2>5, <3>1, <3>3, <5>1
        <4> QED BY <3>1, <4>1, <4>2
      <3> QED BY <2>1, <3>2, <3>3
    <2>6. trace[c].lastSeq < n + 1
      <3> HIDE DEF n
      <3> QED BY <1>2, <2>3
    <2>7. /\ \A i \in 1..Len(link'[c]) :
               /\ link'[c][i].number \in (trace[c].lastSeq + 1)..(m_seq'[c] - 1)
               /\ Deserialize(link'[c][i].tag).seq = link'[c][i].number
          /\ \A i, j \in 1..Len(link'[c]) : i < j => link'[c][i].number < link'[c][j].number
      <3>1. Len(link'[c]) = Len(l) + 1 /\ m_seq'[c] - 1 = n
        <4>1. Len(link'[c]) = Len(l) + 1
          BY <2>1
        <4>2. m_seq'[c] - 1 = n
          <5> HIDE DEF n
          <5> QED BY <1>2, <1>8
        <4> QED BY <4>1, <4>2
      <3> DEFINE a == link'[c]
                 b == Len(a)
      <3>2. ASSUME NEW i \in 1..b
            PROVE  /\ a[i].number \in (trace[c].lastSeq + 1)..(m_seq'[c] - 1)
                   /\ Deserialize(a[i].tag).seq = a[i].number
        BY <2>4, <3>1
      <3>3. ASSUME NEW i \in 1..b, NEW j \in 1..b, i < j
            PROVE  a[i].number < a[j].number
        BY <2>5, <3>1, <3>3
      <3> QED BY <3>2, <3>3
    <2>8. trace'[c].lastSeq = trace[c].lastSeq /\ trace[c].lastSeq < m_seq'[c]
      BY <1>8, <2>6
    <2> QED BY <2>7, <2>8 DEF LinkInv
  <1> QED BY <1>1, <1>6, <1>9, <1>10, FrameFlow DEF FlowType

(* The oldest datagram leaves the link: its number is new to the trace and *)
(* below those that follow.                                                *)
LEMMA Oldest ==
  ASSUME FlowInv, NEW c \in Clients, link[c] # <<>>
  PROVE  LET p == Head(link[c])
             r == Tail(link[c])
         IN  /\ r \in Seq(Packet) /\ p.number \in Nat
             /\ p.number > trace[c].lastSeq /\ p.number < m_seq[c]
             /\ Deserialize(p.tag).seq = p.number
             /\ \A i \in 1..Len(r) :
                  /\ r[i].number \in (p.number + 1)..(m_seq[c] - 1)
                  /\ Deserialize(r[i].tag).seq = r[i].number
             /\ \A i, j \in 1..Len(r) : i < j => r[i].number < r[j].number
  <1> DEFINE l == link[c]
             p == Head(l)
             r == Tail(l)
  <1>1. FlowType /\ LinkInv(c)
    BY DEF FlowInv
  <1>2. l \in Seq(Packet) /\ m_seq[c] \in Nat /\ trace[c].lastSeq \in Nat
    BY <1>1 DEF FlowType, Trace
  <1>3. /\ p = l[1] /\ 1 \in 1..Len(l) /\ r \in Seq(Packet)
        /\ \A i \in 1..Len(r) : r[i] = l[i + 1] /\ i + 1 \in 1..Len(l) /\ 1 < i + 1
    BY <1>2
  <1>4. /\ \A i \in 1..Len(l) : /\ l[i].number \in (trace[c].lastSeq + 1)..(m_seq[c] - 1)
                                /\ Deserialize(l[i].tag).seq = l[i].number
        /\ \A i, j \in 1..Len(l) : i < j => l[i].number < l[j].number
    BY <1>1 DEF LinkInv
  <1> HIDE DEF l
  <1>5. p.number \in (trace[c].lastSeq + 1)..(m_seq[c] - 1) /\ Deserialize(p.tag).seq = p.number
    BY <1>3, <1>4
  <1>6. ASSUME NEW i \in 1..Len(r)
        PROVE  /\ r[i].number \in (p.number + 1)..(m_seq[c] - 1)
               /\ Deserialize(r[i].tag).seq = r[i].number
    <2>1. l[1].number < l[i + 1].number
      BY <1>3, <1>4
    <2> QED BY <1>2, <1>3, <1>4, <1>5, <2>1
  <1>7. ASSUME NEW i \in 1..Len(r), NEW j \in 1..Len(r), i < j
        PROVE  r[i].number < r[j].number
    <2>1. i + 1 < j + 1
      BY <1>7
    <2> QED BY <1>3, <1>4, <2>1
  <1>8. p.number \in Nat /\ p.number > trace[c].lastSeq /\ p.number < m_seq[c]
    <2> HIDE DEF p
    <2> QED BY <1>2, <1>5
  <1>9. r \in Seq(Packet)
    BY <1>3
  <1> HIDE DEF p, r
  <1>10. /\ r \in Seq(Packet) /\ p.number \in Nat
         /\ p.number > trace[c].lastSeq /\ p.number < m_seq[c]
         /\ Deserialize(p.tag).seq = p.number
         /\ \A i \in 1..Len(r) :
              /\ r[i].number \in (p.number + 1)..(m_seq[c] - 1)
              /\ Deserialize(r[i].tag).seq = r[i].number
         /\ \A i, j \in 1..Len(r) : i < j => r[i].number < r[j].number
    BY <1>5, <1>6, <1>7, <1>8, <1>9
  <1> QED BY <1>10, Zenon DEF l, p, r

LEMMA DropFlow ==
  ASSUME FlowInv, NEW c \in Clients, Drop(c)
  PROVE  FlowInv'
  <1>1. /\ FlowType /\ LinkInv(c) /\ CountInv(trace[c], received[c])
        /\ LogInv(trace[c]) /\ trace[c].receiptTime <= now
    BY DEF FlowInv
  <1>2. /\ link[c] # <<>> /\ link' = [link EXCEPT ![c] = Tail(link[c])]
        /\ now' = now /\ m_seq' = m_seq /\ received' = received /\ trace' = trace
    BY DEF Drop
  <1>3. /\ Tail(link[c]) \in Seq(Packet)
        /\ \A i \in 1..Len(Tail(link[c])) :
             /\ Tail(link[c])[i].number \in (trace[c].lastSeq + 1)..(m_seq[c] - 1)
             /\ Deserialize(Tail(link[c])[i].tag).seq = Tail(link[c])[i].number
        /\ \A i, j \in 1..Len(Tail(link[c])) : i < j => Tail(link[c])[i].number < Tail(link[c])[j].number
    <2> DEFINE r == Tail(link[c])
               n == Head(link[c]).number
    <2>1. trace[c].lastSeq \in Nat /\ m_seq[c] \in Nat
      BY <1>1 DEF FlowType, Trace
    <2>2. /\ r \in Seq(Packet) /\ n \in Nat /\ n > trace[c].lastSeq
          /\ \A i \in 1..Len(r) : /\ r[i].number \in (n + 1)..(m_seq[c] - 1)
                                  /\ Deserialize(r[i].tag).seq = r[i].number
          /\ \A i, j \in 1..Len(r) : i < j => r[i].number < r[j].number
      BY <1>2, Oldest
    <2> HIDE DEF r, n
    <2>3. ASSUME NEW i \in 1..Len(r)
          PROVE  r[i].number \in (trace[c].lastSeq + 1)..(m_seq[c] - 1)
      <3>1. r[i].number \in (n + 1)..(m_seq[c] - 1)
        BY <2>2, <2>3
      <3> QED BY <2>1, <2>2, <3>1
    <2> QED BY <2>2, <2>3 DEF r
  <1>4. link'[c] = Tail(link[c])
    BY <1>1, <1>2 DEF FlowType
  <1>5. FlowType'
    BY <1>1, <1>2, <1>3 DEF FlowType
  <1>6. LinkInv(c)'
    BY <1>1, <1>2, <1>3, <1>4 DEF LinkInv
  <1> QED BY <1>1, <1>2, <1>5, <1>6, FrameFlow

LEMMA RecvPacketFlow ==
  ASSUME FlowInv, NEW c \in Clients, RecvPacket(c)
  PROVE  FlowInv'
  <1> DEFINE p == Head(link[c])
             r == Tail(link[c])
             n == p.number
  <1>1. /\ FlowType /\ LinkInv(c) /\ CountInv(trace[c], received[c])
        /\ LogInv(trace[c]) /\ trace[c].receiptTime <= now
    BY DEF FlowInv
  <1>2. /\ link[c] # <<>> /\ link' = [link EXCEPT ![c] = Tail(link[c])]
        /\ now' = now /\ m_seq' = m_seq /\ Measure(c, p)
    BY DEF RecvPacket
  <1>3. /\ r \in Seq(Packet) /\ n \in Nat
        /\ n > trace[c].lastSeq /\ n < m_seq[c] /\ Deserialize(p.tag).seq = n
        /\ \A i \in 1..Len(r) : /\ r[i].number \in (n + 1)..(m_seq[c] - 1)
                                /\ Deserialize(r[i].tag).seq = r[i].number
        /\ \A i, j \in 1..Len(r) : i < j => r[i].number < r[j].number
    BY <1>2, Oldest
  <1>4. /\ trace[c] \in Trace /\ trace[c].lastSeq \in Nat /\ m_seq[c] \in Nat
        /\ received[c] \in SUBSET Nat /\ now \in Nat
    BY <1>1 DEF FlowType, Trace
  <1>5. link'[c] = r
    BY <1>1, <1>2 DEF FlowType
  <1> HIDE DEF p, r
  <1>6. link' \in [Clients -> Seq(Packet)]
    BY <1>1, <1>2, <1>3 DEF FlowType, r
  <1>7. CASE trace[c].open
    <2> DEFINE u == OnOwd(trace[c], now, n)
    <2>1. /\ trace' = [trace EXCEPT ![c] = u]
          /\ received' = [received EXCEPT ![c] = received[c] \cup {n}]
      <3>1. /\ trace' = [trace EXCEPT ![c] = OnOwd(trace[c], now, Deserialize(p.tag).seq)]
            /\ received' = [received EXCEPT ![c] = received[c] \cup {p.number}]
        BY <1>2, <1>7 DEF Measure
      <3> QED BY <1>3, <3>1
    <2>2. /\ u \in Trace /\ CountInv(u, received[c] \cup {n}) /\ LogInv(u)
          /\ u.receiptTime = now /\ u.lastSeq = n
      <3> DEFINE t == trace[c]
                 numbers == received[c]
      <3>1. /\ t \in Trace /\ t.open /\ CountInv(t, numbers) /\ LogInv(t) /\ t.receiptTime <= now
            /\ numbers \in SUBSET Nat /\ now \in Nat /\ n \in Nat /\ n > t.lastSeq
        BY <1>1, <1>3, <1>4, <1>7
      <3> HIDE DEF t, numbers, n
      <3>2. LET v == OnOwd(t, now, n)
            IN  /\ v \in Trace /\ CountInv(v, numbers \cup {n}) /\ LogInv(v)
                /\ v.receiptTime = now /\ v.lastSeq = n
        BY ONLY <3>1, OnOwdOk
      <3> QED BY <3>2 DEF t, numbers
    <2> HIDE DEF u
    <2>3. trace'[c] = u /\ received'[c] = received[c] \cup {n}
      BY <1>1, <2>1 DEF FlowType
    <2>4. FlowType'
      BY <1>1, <1>2, <1>3, <1>6, <2>1, <2>2 DEF FlowType
    <2>5. LinkInv(c)'
      BY <1>2, <1>3, <1>5, <2>2, <2>3 DEF LinkInv
    <2>6. now <= now
      BY <1>4
    <2>7. \A d \in Clients \ {c} :
            /\ link'[d] = link[d] /\ m_seq'[d] = m_seq[d]
            /\ received'[d] = received[d] /\ trace'[d] = trace[d]
      BY <1>1, <1>2, <2>1 DEF FlowType
    <2>8. CountInv(trace'[c], received'[c]) /\ LogInv(trace'[c]) /\ trace'[c].receiptTime <= now
      BY <2>2, <2>3, <2>6
    <2> QED BY <1>2, <2>4, <2>5, <2>7, <2>8, FrameFlow
  <1>8. CASE ~trace[c].open
    <2>1. trace' = trace /\ received' = received
      BY <1>2, <1>8 DEF Measure
    <2>2. FlowType'
      BY <1>1, <1>2, <1>6, <2>1 DEF FlowType
    <2>3. \A i \in 1..Len(r) : r[i].number \in (trace[c].lastSeq + 1)..(m_seq[c] - 1)
      BY <1>3, <1>4
    <2>4. LinkInv(c)'
      BY <1>1, <1>2, <1>3, <1>5, <2>1, <2>3 DEF LinkInv
    <2> QED BY <1>1, <1>2, <2>1, <2>2, <2>4, FrameFlow
  <1> QED BY <1>7, <1>8

LEMMA StopServerFlow ==
  ASSUME FlowInv, NEW s \in Servers, StopServer(s)
  PROVE  FlowInv'
  <1>1. FlowType
    BY DEF FlowInv
  <1>2. /\ trace' = [c \in Clients |-> CloseTrace(trace[c])]
        /\ now' = now /\ m_seq' = m_seq /\ link' = link /\ received' = received
    BY DEF StopServer, CloseTraces
  <1>3. ASSUME NEW c \in Clients
        PROVE  /\ LinkInv(c) /\ CountInv(trace[c], received[c])
               /\ trace[c].receiptTime <= now
               /\ trace'[c] \in Trace /\ LogInv(trace'[c])
               /\ trace'[c].lastSeq = trace[c].lastSeq
               /\ trace'[c].lostPackets = trace[c].lostPackets
               /\ trace'[c].readBytes = trace[c].readBytes
               /\ trace'[c].receiptTime = trace[c].receiptTime
    <2>1. /\ LinkInv(c) /\ CountInv(trace[c], received[c])
          /\ LogInv(trace[c]) /\ trace[c].receiptTime <= now
      BY DEF FlowInv
    <2>2. trace'[c] = CloseTrace(trace[c]) /\ trace[c] \in Trace
      BY <1>1, <1>2 DEF FlowType
    <2> QED BY <2>1, <2>2, CloseTraceOk
  <1>4. FlowType'
    <2>1. trace' \in [Clients -> Trace]
      BY <1>2, <1>3
    <2> QED BY <1>1, <1>2, <2>1 DEF FlowType
  <1>5. ASSUME NEW c \in Clients
        PROVE  LinkInv(c)' /\ CountInv(trace'[c], received'[c]) /\ trace'[c].receiptTime <= now
    BY <1>2, <1>3 DEF LinkInv, CountInv
  <1> QED BY <1>2, <1>3, <1>4, <1>5 DEF FlowInv

LEMMA FlowUntouched ==
  ASSUME FlowInv, UNCHANGED flow, now' = now \/ now' = now + 1
  PROVE  FlowInv'
  <1>1. FlowType /\ now \in Nat \ {0}
    BY DEF FlowInv, FlowType
  <1>2. m_seq' = m_seq /\ link' = link /\ received' = received /\ trace' = trace
    BY DEF flow
  <1>3. FlowType'
    BY <1>1, <1>2 DEF FlowType
  <1>4. ASSUME NEW c \in Clients
        PROVE  /\ LinkInv(c)' /\ CountInv(trace'[c], received'[c])
               /\ LogInv(trace'[c]) /\ trace'[c].receiptTime <= now'
    <2>1. /\ LinkInv(c) /\ CountInv(trace[c], received[c])
          /\ LogInv(trace[c]) /\ trace[c].receiptTime <= now
      BY DEF FlowInv
    <2>2. trace[c].receiptTime \in Nat
      BY <1>1 DEF FlowType, Trace
    <2>3. trace[c].receiptTime <= now'
      BY <1>1, <2>1, <2>2
    <2> QED BY <1>2, <2>1, <2>3 DEF LinkInv
  <1> QED BY <1>3, <1>4 DEF FlowInv

LEMMA NextFlow == ConnInv /\ FlowInv /\ [Next]_vars => FlowInv'
  <1> SUFFICES ASSUME ConnInv, FlowInv, [Next]_vars PROVE FlowInv'
    OBVIOUS
  <1>1. pending \in [Clients -> SUBSET Piece]
    BY DEF ConnInv, ConnType
  <1>2. CASE Tick \/ UNCHANGED vars
    <2>1. UNCHANGED flow /\ (now' = now \/ now' = now + 1)
      BY <1>2 DEF Tick, vars
    <2> QED BY <2>1, FlowUntouched
  <1>3. CASE \E s \in Servers : StartServer(s)
    <2>1. UNCHANGED flow /\ now' = now
      BY <1>3 DEF StartServer
    <2> QED BY <2>1, FlowUntouched
  <1>4. CASE \E s \in Servers : StopServer(s)
    BY <1>4, StopServerFlow
  <1>5. ASSUME NEW c \in Clients, StopClient(c) PROVE FlowInv'
    <2>1. now' = now /\ received' = received /\ trace' = trace /\ drops' = drops
      BY <1>5 DEF StopClient
    <2>2. CloseConnection(c)
      BY <1>5 DEF StopClient, Disconnect
    <2>3. CASE idle[c]
      <3>1. UNCHANGED flow
        BY <2>1, <2>2, <2>3 DEF CloseConnection, flow
      <3> QED BY <2>1, <3>1, FlowUntouched
    <2>4. CASE ~idle[c]
      <3>1. SendToNetwork(c, Close) /\ Close \in Piece
        BY <2>2, <2>4 DEF CloseConnection, Close, Piece, Handshake, MaxStreams
      <3> QED BY <2>1, <3>1, Sent
    <2> QED BY <2>3, <2>4
  <1>6. ASSUME NEW c \in Clients, Send(c) PROVE FlowInv'
    <2>1. PICK piece \in pending[c] : SendToNetwork(c, piece)
      BY <1>6 DEF Send
    <2>2. piece \in Piece
      BY <1>1
    <2>3. now' = now /\ received' = received /\ trace' = trace
      BY <1>6 DEF Send
    <2> QED BY <2>1, <2>2, <2>3, Sent
  <1>7. ASSUME NEW c \in Clients, Drop(c) \/ RecvPacket(c) PROVE FlowInv'
    BY <1>7, DropFlow, RecvPacketFlow
  <1>8. ASSUME NEW c \in Clients,
               \/ StartClient(c) \/ SendHello(c) \/ Ready(c)
               \/ OnConnectionClosed(c) \/ ServerIdle(c) \/ DeleteSession(c)
               \/ \E id \in Stream : \/ EchoArrives(c, id) \/ ClientStreamDone(c, id)
                                     \/ ServerStreamDone(c, id)
        PROVE  FlowInv'
    <2>1. UNCHANGED flow /\ now' = now
      BY <1>8 DEF StartClient, SendHello, Ready, OnConnectionClosed, ServerIdle, DeleteSession,
                  EchoArrives, ClientStreamDone, ServerStreamDone
    <2> QED BY <2>1, FlowUntouched
  <1> QED BY <1>2, <1>3, <1>4, <1>5, <1>6, <1>7, <1>8 DEF Next

-----------------------------------------------------------------------------
(* What is in flight. *)

LEMMA InitInFlight == Init => InFlightInv
  <1> SUFFICES ASSUME Init, NEW c \in Clients PROVE link[c] = <<>>
    BY DEF InFlightInv
  <1> QED BY DEF Init, BuildTopo

(* No step takes back that a stream was opened. *)
LEMMA OpenedGrows ==
  ASSUME ConnInv, [Next]_vars, NEW c \in Clients
  PROVE  client[c].opened \in Nat /\ client'[c].opened \in Nat
         /\ client[c].opened <= client'[c].opened
  <1>1. /\ client \in [Clients -> Session] /\ backend[c] \in Backends
        /\ client[c].opened \in 0..2 /\ ClientInv(c) /\ SessionOk(client[c])
    BY DEF ConnInv, ConnType, Session, MaxStreams, ClientInv
  <1>2. CASE client'[c] = client[c]
    BY <1>1, <1>2
  <1>3. CASE client'[c] # client[c]
    <2>1. PICK d \in Clients : \/ StartClient(d) \/ StopClient(d) \/ Ready(d)
                               \/ \E id \in Stream : ClientStreamDone(d, id)
      <3>1. ASSUME NEW d \in Clients,
                   \/ SendHello(d) \/ Send(d) \/ Drop(d) \/ RecvPacket(d)
                   \/ OnConnectionClosed(d) \/ ServerIdle(d) \/ DeleteSession(d)
                   \/ \E id \in Stream : EchoArrives(d, id) \/ ServerStreamDone(d, id)
            PROVE  client' = client
        BY <3>1 DEF SendHello, Send, Drop, RecvPacket, OnConnectionClosed, ServerIdle,
                    DeleteSession, EchoArrives, ServerStreamDone, conn
      <3>2. Tick \/ UNCHANGED vars \/ (\E s \in Servers : StartServer(s) \/ StopServer(s))
              => client' = client
        BY DEF Tick, vars, conn, StartServer, StopServer
      <3> QED BY <1>3, <3>1, <3>2 DEF Next
    <2>2. PICK t : client' = [client EXCEPT ![d] = t]
      <3>1. CASE StartClient(d)
        BY <3>1 DEF StartClient, InitialAndConnect, CreateQuicClientSession
      <3>2. CASE StopClient(d)
        BY <3>2 DEF StopClient, Disconnect
      <3>3. CASE Ready(d)
        BY <3>3 DEF Ready
      <3>4. CASE \E id \in Stream : ClientStreamDone(d, id)
        BY <3>4 DEF ClientStreamDone
      <3> QED BY <2>1, <3>1, <3>2, <3>3, <3>4
    <2>3. d = c
      BY <1>1, <1>3, <2>2
    <2>4. CASE StartClient(c)
      <3>1. client[c].opened = 0 /\ client'[c] = NewClientSession
        BY <1>1, <2>4 DEF ClientInv, StartClient, InitialAndConnect, CreateQuicClientSession
      <3> QED BY <3>1, NewSessions
    <2>5. CASE StopClient(c)
      <3>1. client'[c] = SessionDtor(client[c])
        BY <1>1, <2>5 DEF StopClient, Disconnect
      <3> QED BY <1>1, <3>1, SessionDtorOk
    <2>6. CASE Ready(c)
      <3> DEFINE after == OnSessionReady(backend[c], client[c])
      <3>1. client'[c] = after /\ client[c].endpoint = "alive"
        BY <1>1, <2>6 DEF Ready, ClientInv
      <3>2. SessionOk(after) /\ after.opened >= client[c].opened
        BY <1>1, <3>1, OnSessionReadyOk
      <3> HIDE DEF after
      <3>3. after.opened \in 0..2
        BY <3>2 DEF SessionOk, Session, MaxStreams
      <3> QED BY <1>1, <3>1, <3>2, <3>3
    <2>7. ASSUME NEW id \in Stream, ClientStreamDone(c, id)
          PROVE  client'[c].opened = client[c].opened
      <3>1. client'[c] = StreamDestroyed(client[c], id)
        BY <1>1, <2>7 DEF ClientStreamDone
      <3> QED BY <1>1, <3>1, StreamDestroyedOk
    <2> QED BY <1>1, <2>1, <2>3, <2>4, <2>5, <2>6, <2>7
  <1> QED BY <1>2, <1>3

(* A link loses its oldest datagram or gets a new one, which says what is  *)
(* pending, or goodbye.                                                    *)
LEMMA LinkSteps ==
  ASSUME FlowType, [Next]_vars, NEW c \in Clients
  PROVE  \/ link'[c] = link[c]
         \/ link[c] # <<>> /\ link'[c] = Tail(link[c])
         \/ \E piece \in pending[c] \cup {Close} : link'[c] = Append(link[c], Datagram(c, piece))
  <1>1. link \in [Clients -> Seq(Packet)]
    BY DEF FlowType
  <1>2. ASSUME NEW d \in Clients, NEW piece, SendToNetwork(d, piece),
               piece \in pending[d] \cup {Close}
        PROVE  \/ link'[c] = link[c]
               \/ \E q \in pending[c] \cup {Close} : link'[c] = Append(link[c], Datagram(c, q))
    BY <1>1, <1>2 DEF SendToNetwork
  <1>3. ASSUME NEW d \in Clients, Drop(d) \/ RecvPacket(d)
        PROVE  link'[c] = link[c] \/ (link[c] # <<>> /\ link'[c] = Tail(link[c]))
    BY <1>1, <1>3 DEF Drop, RecvPacket
  <1>4. ASSUME NEW d \in Clients, Send(d)
        PROVE  \E piece \in pending[d] \cup {Close} : SendToNetwork(d, piece)
    BY <1>4 DEF Send
  <1>5. ASSUME NEW d \in Clients, StopClient(d)
        PROVE  link' = link \/ SendToNetwork(d, Close)
    BY <1>5 DEF StopClient, Disconnect, CloseConnection
  <1>6. ASSUME NEW d \in Clients,
               \/ StartClient(d) \/ SendHello(d) \/ Ready(d)
               \/ OnConnectionClosed(d) \/ ServerIdle(d) \/ DeleteSession(d)
               \/ \E id \in Stream : \/ EchoArrives(d, id) \/ ClientStreamDone(d, id)
                                     \/ ServerStreamDone(d, id)
        PROVE  link' = link
    BY <1>6 DEF StartClient, SendHello, Ready, OnConnectionClosed, ServerIdle, DeleteSession,
                EchoArrives, ClientStreamDone, ServerStreamDone, flow
  <1>7. Tick \/ UNCHANGED vars \/ (\E s \in Servers : StartServer(s) \/ StopServer(s))
          => link' = link
    BY DEF Tick, vars, flow, StartServer, StopServer
  <1> QED BY <1>2, <1>3, <1>4, <1>5, <1>6, <1>7 DEF Next

LEMMA NextInFlight == ConnInv /\ FlowType /\ InFlightInv /\ [Next]_vars => InFlightInv'
  <1> SUFFICES ASSUME ConnInv, FlowType, InFlightInv, [Next]_vars, NEW c \in Clients
               PROVE  \A i \in 1..Len(link'[c]) :
                        link'[c][i].piece \in Stream => link'[c][i].piece <= client'[c].opened
    BY DEF InFlightInv
  <1> DEFINE Opened(l) == \A i \in 1..Len(l) :
                            l[i].piece \in Stream => l[i].piece <= client'[c].opened
  <1>1. link[c] \in Seq(Packet)
    BY DEF FlowType
  <1>2. client[c].opened \in Nat /\ client'[c].opened \in Nat
        /\ client[c].opened <= client'[c].opened
    BY OpenedGrows
  <1>3. ASSUME NEW piece \in Stream, piece <= client[c].opened
        PROVE  piece <= client'[c].opened
    BY <1>2, <1>3 DEF Stream
  <1>4. Opened(link[c])
    BY <1>3 DEF InFlightInv
  <1>5. CASE link'[c] = link[c]
    BY <1>4, <1>5
  <1>6. CASE link[c] # <<>> /\ link'[c] = Tail(link[c])
    <2>1. \A i \in 1..Len(link'[c]) : link'[c][i] = link[c][i + 1] /\ i + 1 \in 1..Len(link[c])
      BY <1>1, <1>6
    <2> QED BY <1>4, <2>1
  <1>7. ASSUME NEW piece \in pending[c] \cup {Close},
               link'[c] = Append(link[c], Datagram(c, piece))
        PROVE  Opened(link'[c])
    <2>1. /\ \A i \in 1..Len(link'[c]) : i \in 1..Len(link[c]) \/ i = Len(link[c]) + 1
          /\ \A i \in 1..Len(link[c]) : link'[c][i] = link[c][i]
          /\ link'[c][Len(link[c]) + 1] = Datagram(c, piece)
      BY <1>1, <1>7
    <2>2. Datagram(c, piece).piece = piece
      BY DEF Datagram
    <2>3. piece \in Stream => piece <= client[c].opened
      BY DEF ConnInv, ServerInv, Close, Stream, MaxStreams
    <2> QED BY <1>3, <1>4, <2>1, <2>2, <2>3
  <1> QED BY <1>5, <1>6, <1>7, LinkSteps

(* The three go together: which streams a server makes depends on what is  *)
(* in flight, and what is in flight on what a client opened.               *)
THEOREM DemoInvariant == Spec => [](ConnInv /\ FlowInv /\ InFlightInv)
  <1>1. Init => ConnInv /\ FlowInv /\ InFlightInv
    BY InitConn, InitFlow, InitInFlight
  <1>2. ConnInv /\ FlowInv /\ InFlightInv /\ [Next]_vars => (ConnInv /\ FlowInv /\ InFlightInv)'
    <2>1. FlowInv => FlowType
      BY DEF FlowInv
    <2> QED BY <2>1, NextConn, NextFlow, NextInFlight
  <1> QED BY <1>1, <1>2, PTL DEF Spec

(* The connections of the demo are always in order. *)
THEOREM ConnectionInvariant == Spec => []ConnInv
  BY DemoInvariant, PTL

(* A channel calls a deleted endpoint only where a hello endpoint had      *)
(* opened two streams; a My endpoint never does so.                        *)
THEOREM NothingElseDangles == Spec => []OnlyTwinStreamsDangle
  <1>1. ConnInv => OnlyTwinStreamsDangle
    <2> SUFFICES ASSUME ConnInv, NEW c \in Clients
                 PROVE  /\ client[c].wild => backend[c] = "hello" /\ client[c].opened = 2
                        /\ server[c].wild => backend[c] = "hello" /\ client[c].opened = 2
      BY DEF OnlyTwinStreamsDangle
    <2>1. ConnType /\ ClientInv(c) /\ ServerInv(c)
      BY DEF ConnInv
    <2>2. /\ client[c].opened \in 0..2 /\ server[c].opened \in 0..2
          /\ backend[c] \in {"hello", "my"}
      BY <2>1 DEF ConnType, Session, MaxStreams, Backends
    <2>3. client[c].wild => client[c].opened = 2
      BY <2>1, <2>2 DEF ClientInv, SessionOk
    <2>4. server[c].wild => client[c].opened = 2
      BY <2>1, <2>2 DEF ServerInv, SessionOk
    <2>5. client[c].opened = 2 => backend[c] = "hello"
      BY <2>1, <2>2 DEF ClientInv
    <2> QED BY <2>3, <2>4, <2>5
  <1> QED BY <1>1, ConnectionInvariant, PTL

(* The flows are always in order. *)
THEOREM FlowInvariant == Spec => []FlowInv
  BY DemoInvariant, PTL

(* The lost column of a trace is right, whatever is lost or sent again. *)
THEOREM LossesAreCounted == Spec => []LossCountRight
  <1>1. FlowInv => LossCountRight
    BY DEF FlowInv, CountInv, LossCountRight
  <1> QED BY <1>1, FlowInvariant, PTL

(* The lines of a closed trace account for every datagram measured. *)
THEOREM GoodputIsComplete == Spec => []GoodputComplete
  <1>1. FlowInv => GoodputComplete
    BY DEF FlowInv, CountInv, LogInv, GoodputComplete
  <1> QED BY <1>1, FlowInvariant, PTL
=============================================================================
