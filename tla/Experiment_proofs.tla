------------------------- MODULE Experiment_proofs -------------------------
(***************************************************************************)
(* That no poll and no request of the opening ever meets a connection that *)
(* is not there, for all topologies of depth two and all times that        *)
(* satisfy TimingAssumption; that whole blocks stay inside their vector;   *)
(* and that the averages of the first iteration are exact, for all vectors *)
(* of fewer than 256 blocks, in whatever order the blocks are read.        *)
(***************************************************************************)
EXTENDS Experiment, Induction, FiniteSetTheorems, TLAPS

(* A base time below the modulus is not narrowed. *)
LEMMA NotNarrowed == ASSUME NEW x \in Nat, NEW m \in Nat, x < m PROVE x % m = x
  OBVIOUS

(* An aggregator stands right below the consumer, and in no direct set-up. *)
LEMMA Shape ==
  ASSUME topo \in Topologies, NEW c \in NonRoot
  PROVE  /\ topo.parent[c] \in Node
         /\ c \in Node /\ c # Root /\ Root \in Node
         /\ c \in Kids(topo.parent[c])
         /\ Kids(c) # {} => topo.parent[c] = Root /\ ~topo.direct
         /\ topo.parent[c] # Root => ~topo.direct
  <1>1. /\ topo.parent \in [NonRoot -> Node] /\ Root \notin NonRoot
        /\ \A d \in NonRoot : topo.parent[d] # Root => topo.parent[topo.parent[d]] = Root
        /\ topo.direct => \A d \in NonRoot : topo.parent[d] = Root
    BY TopologyAssumption DEF Node, NonRoot
  <1>2. topo.parent[c] \in Node /\ c \in Node /\ c # Root /\ Root \in Node
    BY <1>1 DEF Node, NonRoot, Nodes
  <1>3. c \in Kids(topo.parent[c])
    BY DEF Kids, Children, NonRoot
  <1>4. ASSUME Kids(c) # {} PROVE topo.parent[c] = Root /\ ~topo.direct
    <2>1. PICK d \in NonRoot : topo.parent[d] = c
      BY <1>4 DEF Kids, Children, NonRoot
    <2> QED BY <2>1, <1>1, <1>2
  <1> QED BY <1>1, <1>2, <1>3, <1>4

LEMMA TimesAreNat ==
  ASSUME topo \in Topologies, NEW n \in Node
  PROVE  /\ StartTime(n) \in Nat /\ PollTime(n) \in Nat
         /\ AskTime \in Nat /\ SendTime(n) \in Nat
  <1>1. /\ Second \in Nat /\ Half \in Nat /\ Starttime \in Nat /\ Basetime \in Nat
        /\ Modulus \in Nat /\ 6 * Basetime < Modulus
    BY TimingAssumption
  <1>2. /\ (6 * Basetime) % Modulus = 6 * Basetime
        /\ (2 * Basetime) % Modulus = 2 * Basetime
    <2>1. 6 * Basetime \in Nat /\ 2 * Basetime \in Nat /\ 2 * Basetime < Modulus
      BY <1>1
    <2> QED BY <1>1, <2>1, NotNarrowed
  <1>3. \A m : StartTime(m) \in Nat
    BY <1>1 DEF StartTime
  <1>4. \A m : PollTime(m) \in Nat
    <2>1. ((IF topo.direct THEN 2 ELSE 6) * Basetime) % Modulus \in Nat
      BY <1>1, <1>2
    <2> QED BY <1>1, <1>3, <2>1 DEF PollTime, ConsumerPoll, AggregatorPoll, ProducerPoll, ProducerBase
  <1> QED BY <1>1, <1>3, <1>4 DEF AskTime, SendTime

(* A connection is ready before anything is sent on it or read from it. *)
LEMMA ReadyInTime ==
  ASSUME topo \in Topologies, NEW n \in Node, Kids(n) # {}
  PROVE  /\ StartTime(n) + Handshake < SendTime(n)
         /\ SendTime(n) <= PollTime(n)
         /\ StartTime(n) + Handshake < PollTime(n)
  <1>1. /\ Second \in Nat /\ Half \in Nat /\ Starttime \in Nat /\ Basetime \in Nat
        /\ Handshake \in Nat /\ Handshake < Basetime
    BY TimingAssumption
  <1>2. StartTime(n) \in Nat
    BY TimesAreNat
  <1>3. CASE n = Root
    <2>1. SendTime(n) = StartTime(n) + Basetime /\ PollTime(n) = StartTime(n) + (Basetime + 1)
      BY <1>3 DEF SendTime, AskTime, PollTime, ConsumerPoll
    <2> QED BY <1>1, <1>2, <2>1
  <1>4. CASE n # Root
    <2>1. /\ SendTime(n) = StartTime(n) + (2 * Basetime + Half)
          /\ PollTime(n) = StartTime(n) + (2 * Basetime + Half)
      BY <1>4 DEF SendTime, PollTime, AggregatorPoll
    <2> QED BY <1>1, <1>2, <2>1
  <1> QED BY <1>3, <1>4

(* A request has arrived when its reader looks for the first time. *)
LEMMA ArrivesInTime ==
  ASSUME topo \in Topologies, NEW c \in NonRoot
  PROVE  SendTime(topo.parent[c]) + Latency < PollTime(c)
  <1>1. /\ Second \in Nat /\ Half \in Nat /\ Starttime \in Nat /\ Basetime \in Nat
        /\ Modulus \in Nat /\ 6 * Basetime < Modulus /\ Latency \in Nat
        /\ Second + Latency < Basetime + Half
        /\ 2 * Second + Latency < 5 * Basetime + Half
        /\ Second + Latency < 4 * Basetime
    BY TimingAssumption
  <1>2. /\ (6 * Basetime) % Modulus = 6 * Basetime
        /\ (2 * Basetime) % Modulus = 2 * Basetime
    <2>1. 6 * Basetime \in Nat /\ 2 * Basetime \in Nat /\ 2 * Basetime < Modulus
      BY <1>1
    <2> QED BY <1>1, <2>1, NotNarrowed
  <1> DEFINE p == topo.parent[c]
  <1>3. /\ p \in Node /\ c # Root /\ Kids(p) # {}
        /\ Kids(c) # {} => p = Root /\ ~topo.direct
        /\ p # Root => ~topo.direct
    BY Shape
  <1>4. CASE p = Root
    <2>1. SendTime(p) = Starttime + (IF topo.direct THEN Second ELSE 2 * Second) + Basetime
      BY <1>4 DEF SendTime, AskTime, StartTime
    <2>2. CASE Kids(c) # {}
      <3>1. PollTime(c) = Starttime + Second + (2 * Basetime + Half)
        BY <1>3, <2>2 DEF PollTime, StartTime, AggregatorPoll, ProducerPoll, ProducerBase
      <3> QED BY <1>1, <1>3, <2>1, <2>2, <3>1
    <2>3. CASE Kids(c) = {} /\ topo.direct
      <3>1. PollTime(c) = Starttime + 0 + (2 * Basetime + Half)
        BY <1>2, <1>3, <2>3 DEF PollTime, StartTime, AggregatorPoll, ProducerPoll, ProducerBase
      <3> QED BY <1>1, <2>1, <2>3, <3>1
    <2>4. CASE Kids(c) = {} /\ ~topo.direct
      <3>1. PollTime(c) = Starttime + 0 + (6 * Basetime + Half)
        BY <1>2, <1>3, <2>4 DEF PollTime, StartTime, AggregatorPoll, ProducerPoll, ProducerBase
      <3> QED BY <1>1, <2>1, <2>4, <3>1
    <2> QED BY <2>2, <2>3, <2>4
  <1>5. CASE p # Root
    <2>1. SendTime(p) = Starttime + Second + (2 * Basetime + Half)
      BY <1>3, <1>5 DEF SendTime, PollTime, StartTime, AggregatorPoll
    <2>2. PollTime(c) = Starttime + 0 + (6 * Basetime + Half)
      BY <1>2, <1>3, <1>5 DEF PollTime, StartTime, AggregatorPoll, ProducerPoll, ProducerBase
    <2> QED BY <1>1, <2>1, <2>2
  <1> QED BY <1>4, <1>5

(* The clock of the set-up depends on the topology alone. *)
LEMMA TimesFrozen ==
  ASSUME topo' = topo
  PROVE  /\ Node' = Node /\ NonRoot' = NonRoot
         /\ \A n : /\ StartTime(n)' = StartTime(n) /\ PollTime(n)' = PollTime(n)
                   /\ SendTime(n)' = SendTime(n) /\ Kids(n)' = Kids(n)
         /\ AskTime' = AskTime
  BY DEF Node, NonRoot, StartTime, PollTime, SendTime, AskTime, Kids, ConsumerPoll,
         AggregatorPoll, ProducerPoll, ProducerBase

LEMMA SessionTypes ==
  /\ NoSession \in Session /\ NewClientSession \in Session
  /\ NewClientSession.endpoint = "alive"
  /\ \A s \in Session : /\ OnSessionReady("my", s) \in Session
                        /\ OnSessionReady("my", s).endpoint = s.endpoint
                        /\ CreateIncomingStream(s, 1) \in Session
                        /\ CreateIncomingStream(s, 1).channel # NoStream
  <1> USE DEF Session, Stream, MaxStreams, NoStream
  <1>1. NoSession \in Session /\ NewClientSession \in Session
        /\ NewClientSession.endpoint = "alive"
    <2>1. NoSession \in Session /\ NoSession.endpoint = "none"
      BY DEF NoSession
    <2> QED BY <2>1 DEF NewClientSession, CreateEndpoint
  <1>2. ASSUME NEW s \in Session, NEW id \in Stream
        PROVE  LET t == Attach(CreateStream(s, id), id)
               IN  t \in Session /\ t.endpoint = s.endpoint /\ t.channel = id
    <2>1. (IF id > s.opened THEN id ELSE s.opened) \in 0..2
      OBVIOUS
    <2>2. s.streams \cup {id} \in SUBSET (1..2) /\ s.notified \cup {id} \in SUBSET (1..2)
      OBVIOUS
    <2> DEFINE r == CreateStream(s, id)
    <2>3. r \in Session /\ r.endpoint = s.endpoint /\ r.notified = s.notified
      BY <2>1, <2>2 DEF CreateStream
    <2> HIDE DEF r
    <2>4. Attach(r, id) \in Session
          /\ Attach(r, id).endpoint = s.endpoint /\ Attach(r, id).channel = id
      BY <2>2, <2>3 DEF Attach
    <2> QED BY <2>4 DEF r
  <1>3. ASSUME NEW s \in Session
        PROVE  /\ OnSessionReady("my", s) \in Session
               /\ OnSessionReady("my", s).endpoint = s.endpoint
    <2>1. CASE s.channel = NoStream /\ s.opened < MaxStreams
      <3>1. s.opened + 1 \in Stream
        BY <2>1
      <3> QED BY <1>2, <2>1, <3>1 DEF OnSessionReady, MyOnSessionReady, HelloOnSessionReady,
                                      OpenStream
    <2> QED BY <2>1 DEF OnSessionReady, MyOnSessionReady, HelloOnSessionReady
  <1>4. ASSUME NEW s \in Session
        PROVE  /\ CreateIncomingStream(s, 1) \in Session
               /\ CreateIncomingStream(s, 1).channel # NoStream
    <2> DEFINE e == CreateEndpoint(s)
    <2>1. e \in Session
      BY DEF CreateEndpoint
    <2> HIDE DEF e
    <2>2. Attach(CreateStream(e, 1), 1) \in Session
          /\ Attach(CreateStream(e, 1), 1).channel = 1
      BY <1>2, <2>1
    <2> QED BY <2>2 DEF CreateIncomingStream, e
  <1> QED BY <1>1, <1>3, <1>4

-----------------------------------------------------------------------------
LEMMA InitOpening == Init => OpeningInv
  <1> SUFFICES ASSUME Init PROVE OpeningInv
    OBVIOUS
  <1>1. OpeningTypeOK
    BY SessionTypes DEF Init, OpeningTypeOK
  <1>2. topo \in Topologies /\ now = 0 /\ started = {} /\ polling = {} /\ ~called
    BY DEF Init
  <1>3. ClockInv
    BY <1>2, TimesAreNat, Shape DEF ClockInv, AskTime, Node, Nodes
  <1>4. ASSUME NEW c \in NonRoot PROVE ConnectionInv(c) /\ RequestInv(c)
    BY <1>2, Shape DEF Init, ConnectionInv, RequestInv, Asked
  <1> QED BY <1>1, <1>3, <1>4 DEF Init, OpeningInv

LEMMA ApplicationStarts ==
  ASSUME OpeningInv, NEW n \in Node, StartApplication(n)
  PROVE  OpeningInv'
  <1>1. /\ OpeningTypeOK /\ ~fault /\ ClockInv
        /\ \A c \in NonRoot : ConnectionInv(c) /\ RequestInv(c)
    BY DEF OpeningInv
  <1>2. /\ n \notin started /\ now = StartTime(n) /\ started' = started \cup {n}
        /\ client' = [c \in NonRoot |-> IF c \in Kids(n) THEN NewClientSession ELSE client[c]]
        /\ readyBy' = [c \in NonRoot |-> IF c \in Kids(n) THEN now + Handshake ELSE readyBy[c]]
        /\ now' = now /\ topo' = topo /\ called' = called /\ server' = server
        /\ request' = request /\ arrivesBy' = arrivesBy /\ polling' = polling /\ fault' = fault
    BY DEF StartApplication, CreateSocketPool, StartServer, InitialAndConnect
  <1>3. /\ Node' = Node /\ NonRoot' = NonRoot
        /\ \A m : /\ StartTime(m)' = StartTime(m) /\ PollTime(m)' = PollTime(m)
                  /\ SendTime(m)' = SendTime(m) /\ Kids(m)' = Kids(m)
        /\ AskTime' = AskTime
    BY <1>2, TimesFrozen
  <1>4. OpeningTypeOK'
    BY <1>1, <1>2, <1>3, SessionTypes, TimingAssumption DEF OpeningTypeOK
  <1>5. ClockInv'
    <2>1. \A m \in Node : StartTime(m) \in Nat
      BY <1>1, TimesAreNat DEF OpeningTypeOK
    <2> QED BY <1>1, <1>2, <1>3, <2>1 DEF ClockInv, OpeningTypeOK
  <1>6. ASSUME NEW c \in NonRoot PROVE ConnectionInv(c)' /\ RequestInv(c)'
    <2>1. topo \in Topologies /\ now \in Nat /\ StartTime(n) \in Nat /\ Handshake \in Nat
      BY <1>1, TimesAreNat, TimingAssumption DEF OpeningTypeOK
    <2>2. RequestInv(c)'
      BY <1>1, <1>2, <1>3 DEF RequestInv, Asked
    <2>3. c \in Kids(topo.parent[c]) /\ \A m : c \in Kids(m) => m = topo.parent[c]
      BY DEF Kids, Children, NonRoot
    <2>4. CASE n = topo.parent[c]
      <3>1. client'[c].endpoint = "alive" /\ readyBy'[c] = StartTime(n) + Handshake
        BY <1>2, <2>3, <2>4, SessionTypes
      <3>2. now <= StartTime(n) + Handshake
        BY <1>2, <2>1
      <3> QED BY <1>2, <1>3, <2>2, <2>4, <3>1, <3>2 DEF ConnectionInv
    <2>5. CASE n # topo.parent[c]
      <3>1. client'[c] = client[c] /\ readyBy'[c] = readyBy[c]
        BY <1>2, <2>3, <2>5
      <3> QED BY <1>1, <1>2, <1>3, <2>2, <2>5, <3>1 DEF ConnectionInv
    <2> QED BY <2>4, <2>5
  <1> QED BY <1>1, <1>2, <1>3, <1>4, <1>5, <1>6 DEF OpeningInv

LEMMA SessionGetsReady ==
  ASSUME OpeningInv, NEW d \in NonRoot, SessionReady(d)
  PROVE  OpeningInv'
  <1>1. /\ OpeningTypeOK /\ ~fault /\ ClockInv
        /\ \A c \in NonRoot : ConnectionInv(c) /\ RequestInv(c)
    BY DEF OpeningInv
  <1>2. /\ client' = [client EXCEPT ![d] = OnSessionReady("my", @)]
        /\ client[d].channel = NoStream
        /\ now' = now /\ topo' = topo /\ called' = called /\ server' = server
        /\ started' = started /\ readyBy' = readyBy
        /\ request' = request /\ arrivesBy' = arrivesBy /\ polling' = polling /\ fault' = fault
    BY DEF SessionReady
  <1>3. /\ Node' = Node /\ NonRoot' = NonRoot
        /\ \A m : /\ StartTime(m)' = StartTime(m) /\ PollTime(m)' = PollTime(m)
                  /\ SendTime(m)' = SendTime(m) /\ Kids(m)' = Kids(m)
        /\ AskTime' = AskTime
    BY <1>2, TimesFrozen
  <1>4. OpeningTypeOK'
    BY <1>1, <1>2, <1>3, SessionTypes DEF OpeningTypeOK
  <1>5. ClockInv'
    BY <1>1, <1>2, <1>3 DEF ClockInv
  <1>6. ASSUME NEW c \in NonRoot PROVE ConnectionInv(c)' /\ RequestInv(c)'
    <2>1. RequestInv(c)'
      BY <1>1, <1>2, <1>3 DEF RequestInv, Asked
    <2>2. client[c] \in Session
      BY <1>1 DEF OpeningTypeOK
    <2>3. /\ client'[c].endpoint = client[c].endpoint
          /\ client'[c].channel = NoStream => client[c].channel = NoStream
      <3>1. CASE c = d
        BY <1>1, <1>2, <2>2, <3>1, SessionTypes DEF OpeningTypeOK
      <3>2. CASE c # d
        BY <1>1, <1>2, <3>2 DEF OpeningTypeOK
      <3> QED BY <3>1, <3>2
    <2> QED BY <1>1, <1>2, <1>3, <2>1, <2>3 DEF ConnectionInv
  <1> QED BY <1>1, <1>2, <1>3, <1>4, <1>5, <1>6 DEF OpeningInv

(* The connections to the children are ready when n sends. *)
LEMMA ChildrenReady ==
  ASSUME OpeningInv, NEW n \in Node, n \in started,
         now >= SendTime(n) \/ now >= PollTime(n), NEW c \in Kids(n)
  PROVE  client[c].channel # NoStream
  <1>1. c \in NonRoot /\ topo.parent[c] = n
    BY DEF Kids, Children, NonRoot
  <1>2. topo \in Topologies /\ now \in Nat
    BY DEF OpeningInv, OpeningTypeOK
  <1>3. StartTime(n) \in Nat /\ SendTime(n) \in Nat /\ PollTime(n) \in Nat /\ Handshake \in Nat
    BY <1>2, TimesAreNat, TimingAssumption
  <1>4. StartTime(n) + Handshake < now
    BY <1>1, <1>2, <1>3, ReadyInTime
  <1> QED BY <1>1, <1>2, <1>3, <1>4 DEF OpeningInv, ConnectionInv

LEMMA ConsumerAsks ==
  ASSUME OpeningInv, AVG
  PROVE  OpeningInv'
  <1>1. /\ OpeningTypeOK /\ ~fault /\ ClockInv
        /\ \A c \in NonRoot : ConnectionInv(c) /\ RequestInv(c)
    BY DEF OpeningInv
  <1>2. /\ Root \in started /\ ~called /\ now = AskTime /\ called' = TRUE
        /\ request' = [c \in NonRoot |-> IF c \in Kids(Root) THEN SendRequestVTo(c)
                                         ELSE request[c]]
        /\ arrivesBy' = [c \in NonRoot |-> IF c \in Kids(Root) THEN now + Latency
                                           ELSE arrivesBy[c]]
        /\ now' = now /\ topo' = topo /\ client' = client /\ server' = server
        /\ started' = started /\ readyBy' = readyBy /\ polling' = polling /\ fault' = fault
    BY DEF AVG, SendRequestVToAll
  <1>3. /\ Node' = Node /\ NonRoot' = NonRoot
        /\ \A m : /\ StartTime(m)' = StartTime(m) /\ PollTime(m)' = PollTime(m)
                  /\ SendTime(m)' = SendTime(m) /\ Kids(m)' = Kids(m)
        /\ AskTime' = AskTime
    BY <1>2, TimesFrozen
  <1>4. /\ topo \in Topologies /\ now \in Nat /\ Latency \in Nat
        /\ Root \in Node /\ SendTime(Root) = now
    BY <1>1, <1>2, TimingAssumption DEF OpeningTypeOK, SendTime, Node, Nodes
  <1>5. \A c \in Kids(Root) : SendRequestVTo(c) = "flying"
    BY <1>2, <1>4, ChildrenReady DEF SendRequestVTo, HasChannel
  <1>6. OpeningTypeOK'
    BY <1>1, <1>2, <1>3, <1>4, <1>5 DEF OpeningTypeOK
  <1>7. ClockInv'
    BY <1>1, <1>2, <1>3, <1>4 DEF ClockInv
  <1>8. ASSUME NEW c \in NonRoot PROVE ConnectionInv(c)' /\ RequestInv(c)'
    <2>1. ConnectionInv(c)'
      BY <1>1, <1>2, <1>3 DEF ConnectionInv
    <2>2. c \in Kids(Root) <=> topo.parent[c] = Root
      BY DEF Kids, Children, NonRoot
    <2>3. CASE topo.parent[c] = Root
      <3>1. request[c] = "none" /\ c \notin polling
        BY <1>1, <1>2, <2>3 DEF RequestInv, Asked
      <3>2. request'[c] = "flying" /\ arrivesBy'[c] = SendTime(Root) + Latency
        BY <1>2, <1>4, <1>5, <2>2, <2>3
      <3> QED BY <1>2, <1>3, <1>4, <2>1, <2>3, <3>1, <3>2 DEF RequestInv, Asked
    <2>4. CASE topo.parent[c] # Root
      <3>1. request'[c] = request[c] /\ arrivesBy'[c] = arrivesBy[c]
        BY <1>2, <2>2, <2>4
      <3> QED BY <1>1, <1>2, <1>3, <2>1, <2>4, <3>1 DEF RequestInv, Asked
    <2> QED BY <2>3, <2>4
  <1> QED BY <1>1, <1>2, <1>3, <1>6, <1>7, <1>8 DEF OpeningInv

LEMMA RequestComes ==
  ASSUME OpeningInv, NEW d \in NonRoot, RequestArrives(d)
  PROVE  OpeningInv'
  <1>1. /\ OpeningTypeOK /\ ~fault /\ ClockInv
        /\ \A c \in NonRoot : ConnectionInv(c) /\ RequestInv(c)
    BY DEF OpeningInv
  <1>2. /\ request[d] = "flying" /\ request' = [request EXCEPT ![d] = "arrived"]
        /\ server' = [server EXCEPT ![d] = CreateIncomingStream(@, 1)]
        /\ now' = now /\ topo' = topo /\ called' = called /\ client' = client
        /\ started' = started /\ readyBy' = readyBy /\ arrivesBy' = arrivesBy
        /\ polling' = polling /\ fault' = fault
    BY DEF RequestArrives
  <1>3. /\ Node' = Node /\ NonRoot' = NonRoot
        /\ \A m : /\ StartTime(m)' = StartTime(m) /\ PollTime(m)' = PollTime(m)
                  /\ SendTime(m)' = SendTime(m) /\ Kids(m)' = Kids(m)
        /\ AskTime' = AskTime
    BY <1>2, TimesFrozen
  <1>4. OpeningTypeOK'
    BY <1>1, <1>2, <1>3, SessionTypes DEF OpeningTypeOK
  <1>5. ClockInv'
    BY <1>1, <1>2, <1>3 DEF ClockInv
  <1>6. ASSUME NEW c \in NonRoot PROVE ConnectionInv(c)' /\ RequestInv(c)'
    <2>1. ConnectionInv(c)'
      BY <1>1, <1>2, <1>3 DEF ConnectionInv
    <2>2. CASE c = d
      <3>1. request'[c] = "arrived" /\ server'[c].channel # NoStream
        BY <1>1, <1>2, <2>2, SessionTypes DEF OpeningTypeOK
      <3>2. Asked(topo.parent[c]) /\ c \notin polling
        BY <1>1, <1>2, <2>2 DEF RequestInv
      <3> QED BY <1>2, <1>3, <2>1, <3>1, <3>2 DEF RequestInv, Asked
    <2>3. CASE c # d
      <3>1. request'[c] = request[c] /\ server'[c] = server[c]
        BY <1>1, <1>2, <2>3 DEF OpeningTypeOK
      <3> QED BY <1>1, <1>2, <1>3, <2>1, <3>1 DEF RequestInv, Asked
    <2> QED BY <2>2, <2>3
  <1> QED BY <1>1, <1>2, <1>3, <1>4, <1>5, <1>6 DEF OpeningInv

(* A process that polls for the first time finds its request arrived. *)
LEMMA RequestIsThere ==
  ASSUME OpeningInv, NEW c \in NonRoot, c \notin polling, now >= PollTime(c)
  PROVE  request[c] = "arrived" /\ server[c].channel # NoStream
  <1> DEFINE p == topo.parent[c]
  <1>1. topo \in Topologies /\ now \in Nat /\ p \in Node /\ c \in Node
    BY Shape DEF OpeningInv, OpeningTypeOK
  <1>2. /\ SendTime(p) \in Nat /\ PollTime(c) \in Nat /\ Latency \in Nat
        /\ SendTime(p) + Latency < PollTime(c)
    BY <1>1, TimesAreNat, TimingAssumption, ArrivesInTime
  <1>3. now > SendTime(p) /\ now > SendTime(p) + Latency
    BY <1>1, <1>2
  <1>4. Asked(p)
    BY <1>1, <1>2, <1>3 DEF OpeningInv, ClockInv, Asked, SendTime
  <1>5. RequestInv(c)
    BY DEF OpeningInv
  <1> QED BY <1>1, <1>2, <1>3, <1>4, <1>5 DEF RequestInv

LEMMA ProcessPolls ==
  ASSUME OpeningInv, NEW n \in Node, FirstPoll(n)
  PROVE  OpeningInv'
  <1>1. /\ OpeningTypeOK /\ ~fault /\ ClockInv
        /\ \A c \in NonRoot : ConnectionInv(c) /\ RequestInv(c)
    BY DEF OpeningInv
  <1>2. /\ n \in started /\ n \notin polling /\ now = PollTime(n)
        /\ now' = now /\ topo' = topo /\ called' = called /\ client' = client
        /\ server' = server /\ started' = started /\ readyBy' = readyBy
    BY DEF FirstPoll
  <1>3. /\ Node' = Node /\ NonRoot' = NonRoot
        /\ \A m : /\ StartTime(m)' = StartTime(m) /\ PollTime(m)' = PollTime(m)
                  /\ SendTime(m)' = SendTime(m) /\ Kids(m)' = Kids(m)
        /\ AskTime' = AskTime
    BY <1>2, TimesFrozen
  <1>4. topo \in Topologies /\ now \in Nat /\ Latency \in Nat /\ PollTime(n) \in Nat
    BY <1>1, TimesAreNat, TimingAssumption DEF OpeningTypeOK
  <1>5. n # Root => n \in NonRoot
    BY DEF Node, Nodes, NonRoot
  <1>6. \A c \in Kids(n) : client[c].channel # NoStream
    BY <1>2, <1>4, ChildrenReady
  <1>7. n # Root => request[n] = "arrived" /\ server[n].channel # NoStream
    BY <1>2, <1>4, <1>5, RequestIsThere
  <1>8. ChannelsUp(n)
    BY <1>6, <1>7 DEF ChannelsUp, ClientBuffer, ServerBuffer, HasChannel
  <1>9. polling' = polling \cup {n} /\ fault' = fault
    BY <1>8 DEF FirstPoll
  <1>10. ClockInv'
    BY <1>1, <1>2, <1>3, <1>4, <1>9 DEF ClockInv
  <1>11. \A c \in NonRoot : ConnectionInv(c)'
    BY <1>1, <1>2, <1>3 DEF ConnectionInv
  <1>12. CASE n = Root
    <2>1. request' = request /\ arrivesBy' = arrivesBy
      BY <1>8, <1>12 DEF FirstPoll
    <2>2. OpeningTypeOK'
      BY <1>1, <1>2, <1>3, <1>9, <2>1 DEF OpeningTypeOK
    <2>3. ASSUME NEW c \in NonRoot PROVE RequestInv(c)'
      <3>1. c # Root
        BY <1>4, Shape
      <3> QED BY <1>1, <1>2, <1>3, <1>9, <1>12, <2>1, <3>1 DEF RequestInv, Asked
    <2> QED BY <1>1, <1>3, <1>9, <1>10, <1>11, <2>2, <2>3 DEF OpeningInv
  <1>13. CASE n # Root
    <2>1. /\ request' = [c \in NonRoot |-> IF c \in Kids(n) THEN SendRequestVTo(c)
                                           ELSE IF c \in {n} THEN "read" ELSE request[c]]
          /\ arrivesBy' = [c \in NonRoot |-> IF c \in Kids(n) THEN now + Latency
                                             ELSE arrivesBy[c]]
      BY <1>7, <1>8, <1>13 DEF FirstPoll, HandleRequestV, SendRequestVToAll
    <2>2. \A c \in Kids(n) : SendRequestVTo(c) = "flying"
      BY <1>6 DEF SendRequestVTo, HasChannel
    <2>3. OpeningTypeOK'
      BY <1>1, <1>2, <1>3, <1>4, <1>9, <2>1, <2>2 DEF OpeningTypeOK
    <2>4. ASSUME NEW c \in NonRoot PROVE RequestInv(c)'
      <3>1. c \in Kids(n) <=> topo.parent[c] = n
        BY DEF Kids, Children, NonRoot
      <3>2. topo.parent[n] # n
        BY <1>4, <1>5, <1>13, TopologyAssumption DEF NonRoot
      <3>3. CASE topo.parent[c] = n
        <4>1. request[c] = "none" /\ c \notin polling /\ c # n
          BY <1>1, <1>2, <1>13, <3>2, <3>3 DEF RequestInv, Asked
        <4>2. request'[c] = "flying" /\ arrivesBy'[c] = SendTime(n) + Latency
          BY <1>2, <1>13, <2>1, <2>2, <3>1, <3>3 DEF SendTime
        <4>3. now <= arrivesBy'[c]
          BY <1>2, <1>4, <1>13, <4>2 DEF SendTime
        <4> QED BY <1>2, <1>3, <1>9, <1>13, <3>3, <4>1, <4>2, <4>3 DEF RequestInv, Asked
      <3>4. CASE c = n
        <4>1. request'[c] = "read" /\ Asked(topo.parent[c])
          BY <1>1, <1>5, <1>7, <1>13, <2>1, <3>1, <3>2, <3>4 DEF RequestInv
        <4> QED BY <1>2, <1>3, <1>7, <1>9, <1>13, <3>4, <4>1 DEF RequestInv, Asked
      <3>5. CASE topo.parent[c] # n /\ c # n
        <4>1. request'[c] = request[c] /\ arrivesBy'[c] = arrivesBy[c]
          BY <2>1, <3>1, <3>5
        <4> QED BY <1>1, <1>2, <1>3, <1>9, <3>5, <4>1 DEF RequestInv, Asked
      <3> QED BY <3>3, <3>4, <3>5
    <2> QED BY <1>1, <1>3, <1>9, <1>10, <1>11, <2>3, <2>4 DEF OpeningInv
  <1> QED BY <1>12, <1>13

LEMMA TimePasses ==
  ASSUME OpeningInv, Tick
  PROVE  OpeningInv'
  <1>1. /\ OpeningTypeOK /\ ~fault /\ ClockInv
        /\ \A c \in NonRoot : ConnectionInv(c) /\ RequestInv(c)
    BY DEF OpeningInv
  <1>2. /\ ~Due /\ now' = now + 1
        /\ topo' = topo /\ called' = called /\ client' = client
        /\ server' = server /\ started' = started /\ readyBy' = readyBy
        /\ request' = request /\ arrivesBy' = arrivesBy
        /\ polling' = polling /\ fault' = fault
    BY DEF Tick, opening
  <1>3. /\ Node' = Node /\ NonRoot' = NonRoot
        /\ \A m : /\ StartTime(m)' = StartTime(m) /\ PollTime(m)' = PollTime(m)
                  /\ SendTime(m)' = SendTime(m) /\ Kids(m)' = Kids(m)
        /\ AskTime' = AskTime
    BY <1>2, TimesFrozen
  <1>4. /\ topo \in Topologies /\ now \in Nat /\ AskTime \in Nat /\ Handshake \in Nat
        /\ \A n \in Node : StartTime(n) \in Nat /\ PollTime(n) \in Nat
    BY <1>1, TimesAreNat, TimingAssumption DEF OpeningTypeOK, Node, Nodes
  <1>5. OpeningTypeOK'
    BY <1>1, <1>2, <1>3, <1>4 DEF OpeningTypeOK
  <1>6. ClockInv'
    <2>1. \A n \in Node : /\ n \notin started => now < StartTime(n)
                          /\ n \notin polling => now < PollTime(n)
      BY <1>2, <1>4 DEF Due
    <2>2. ~called => now < AskTime
      BY <1>2, <1>4 DEF Due
    <2> QED BY <1>1, <1>2, <1>3, <1>4, <2>1, <2>2 DEF ClockInv
  <1>7. ASSUME NEW c \in NonRoot PROVE ConnectionInv(c)' /\ RequestInv(c)'
    <2>1. ConnectionInv(c) /\ RequestInv(c) /\ arrivesBy[c] \in Nat /\ readyBy[c] \in Nat
      BY <1>1 DEF OpeningTypeOK
    <2>2. /\ client[c].endpoint = "alive" /\ client[c].channel = NoStream => now < readyBy[c]
          /\ request[c] = "flying" => now < arrivesBy[c]
      BY <1>2, <1>4, <2>1 DEF Due
    <2>3. topo.parent[c] \in Node
      BY <1>4, Shape
    <2>4. ConnectionInv(c)'
      BY <1>2, <1>3, <1>4, <2>1, <2>2, <2>3 DEF ConnectionInv
    <2>5. RequestInv(c)'
      BY <1>2, <1>3, <1>4, <2>1, <2>2 DEF RequestInv, Asked
    <2> QED BY <2>4, <2>5
  <1> QED BY <1>1, <1>2, <1>3, <1>5, <1>6, <1>7 DEF OpeningInv

LEMMA OpeningUntouched ==
  ASSUME OpeningInv, UNCHANGED <<now, opening>>
  PROVE  OpeningInv'
  <1>1. /\ now' = now /\ topo' = topo /\ called' = called /\ client' = client
        /\ server' = server /\ started' = started /\ readyBy' = readyBy
        /\ request' = request /\ arrivesBy' = arrivesBy
        /\ polling' = polling /\ fault' = fault
    BY DEF opening
  <1>2. /\ Node' = Node /\ NonRoot' = NonRoot
        /\ \A m : /\ StartTime(m)' = StartTime(m) /\ PollTime(m)' = PollTime(m)
                  /\ SendTime(m)' = SendTime(m) /\ Kids(m)' = Kids(m)
        /\ AskTime' = AskTime
    BY <1>1, TimesFrozen
  <1>3. OpeningTypeOK' /\ ClockInv' /\ ~fault'
    BY <1>1, <1>2 DEF OpeningInv, OpeningTypeOK, ClockInv
  <1>4. \A c \in NonRoot : ConnectionInv(c)' /\ RequestInv(c)'
    BY <1>1, <1>2 DEF OpeningInv, ConnectionInv, RequestInv, Asked
  <1> QED BY <1>2, <1>3, <1>4 DEF OpeningInv

LEMMA NextOpening == OpeningInv /\ [Next]_vars => OpeningInv'
  <1> SUFFICES ASSUME OpeningInv, [Next]_vars PROVE OpeningInv'
    OBVIOUS
  <1>1. CASE Tick
    BY <1>1, TimePasses
  <1>2. CASE AVG
    BY <1>2, ConsumerAsks
  <1>3. CASE \E n \in Node : StartApplication(n)
    BY <1>3, ApplicationStarts
  <1>4. CASE \E n \in Node : FirstPoll(n)
    BY <1>4, ProcessPolls
  <1>5. CASE \E c \in NonRoot : SessionReady(c)
    BY <1>5, SessionGetsReady
  <1>6. CASE \E c \in NonRoot : RequestArrives(c)
    BY <1>6, RequestComes
  <1>7. CASE \E c \in NonRoot : HandleResponseV(c)
    <2>1. UNCHANGED <<now, opening>>
      BY <1>7 DEF HandleResponseV
    <2> QED BY <2>1, OpeningUntouched
  <1>8. CASE SimulatorStop \/ UNCHANGED vars
    <2>1. UNCHANGED <<now, opening>>
      BY <1>8 DEF SimulatorStop, vars
    <2> QED BY <2>1, OpeningUntouched
  <1> QED BY <1>1, <1>2, <1>3, <1>4, <1>5, <1>6, <1>7, <1>8 DEF Next

(* The opening is always in order. *)
THEOREM OpeningInvariant == Spec => []OpeningInv
  BY InitOpening, NextOpening, PTL DEF Spec

(* No poll of any process ever follows a pointer to a channel that is not  *)
(* there: GetBuffer is safe with the start times of in-quic-topo.cc.       *)
THEOREM PollsAreSafe == Spec => []PollsFindChannels
  <1>1. OpeningInv => PollsFindChannels
    BY DEF OpeningInv, PollsFindChannels
  <1> QED BY <1>1, OpeningInvariant, PTL

(* No request is dropped at its sender, and none comes after the first     *)
(* poll of its reader.                                                     *)
THEOREM RequestsAreInTime == Spec => []NoRequestLost
  <1>1. OpeningInv => NoRequestLost
    <2> SUFFICES ASSUME OpeningInv PROVE NoRequestLost
      OBVIOUS
    <2>1. \A c \in NonRoot : request[c] # "lost"
      BY DEF OpeningInv, RequestInv
    <2>2. \A n \in polling \ {Root} : n \in NonRoot
      BY DEF OpeningInv, OpeningTypeOK, Node, Nodes, NonRoot
    <2>3. \A n \in polling \ {Root} : request[n] = "read"
      BY <2>2 DEF OpeningInv, RequestInv
    <2> QED BY <2>1, <2>3 DEF NoRequestLost
  <1> QED BY <1>1, OpeningInvariant, PTL

-----------------------------------------------------------------------------
(* Whole blocks stay inside their vector.  The facts of arithmetic first. *)
LEMMA Quotient ==
  ASSUME NEW q \in Nat, NEW m \in Nat \ {0}
  PROVE  (q * m) \div m = q /\ (q * m) % m = 0
  OBVIOUS

LEMMA ProductMonotone ==
  ASSUME NEW a \in Nat, NEW b \in Nat, NEW m \in Nat, a <= b
  PROVE  a * m <= b * m
  OBVIOUS

LEMMA QuotientNat ==
  ASSUME NEW x \in Nat, NEW m \in Nat \ {0}
  PROVE  x \div m \in Nat
  OBVIOUS

LEMMA WholeInside ==
  ASSUME NEW size \in Nat, Whole(size)
  PROVE  ~ReadsBeyond(size) /\ ~WritesBeyond(size)
  <1>1. k \in Nat \ {0}
    BY VectorAssumption
  <1>2. PICK q \in Nat : size = q * k
    BY DEF Whole
  <1>3. BlocksOf(size) = q
    BY <1>1, <1>2, Quotient DEF BlocksOf
  <1>4. ~ReadsBeyond(size)
    <2> SUFFICES ASSUME NEW b \in 1..q PROVE LastIndex(size, Offset(b)) < size
      BY <1>3, <1>1, <1>2 DEF ReadsBeyond, LastIndex, Offset
    <2>1. b - 1 \in Nat /\ b \in Nat /\ b <= q /\ (b - 1) * k \in Nat /\ b * k \in Nat
      BY <1>1
    <2>2. b * k = (b - 1) * k + k
      BY <1>1, <2>1
    <2>3. b * k <= q * k
      BY <1>1, <2>1, ProductMonotone
    <2>4. size - Offset(b) >= k /\ Offset(b) + k <= size /\ Offset(b) \in Nat
      BY <1>1, <1>2, <2>1, <2>2, <2>3 DEF Offset
    <2> QED BY <1>1, <2>4 DEF LastIndex
  <1>5. ~WritesBeyond(size)
    <2>1. Range8(size) \in Nat /\ Range8(size) <= q
      BY <1>3 DEF Range8
    <2>2. Range8(size) * k <= size
      BY <1>1, <1>2, <2>1, ProductMonotone
    <2>3. Range8(size) * k \in Nat
      BY <1>1, <2>1
    <2> QED BY <2>2, <2>3 DEF WritesBeyond
  <1> QED BY <1>4, <1>5

LEMMA QuotientBelow ==
  ASSUME NEW x \in Nat, NEW m \in Nat \ {0}
  PROVE  (x \div m) * m \in Nat /\ (x \div m) * m <= x
  <1>1. x \div m \in Nat /\ x = m * (x \div m) + (x % m) /\ x % m \in Nat
    OBVIOUS
  <1> QED BY <1>1

LEMMA WrapsOnce ==
  ASSUME NEW x \in Nat, NEW m \in Nat \ {0}, m <= x, x - m < m
  PROVE  x % m = x - m
  OBVIOUS

LEMMA InitSize == Init => SizeInv
  <1> SUFFICES ASSUME Init PROVE SizeInv
    OBVIOUS
  <1>1. PICK size \in Sizes : vsize = Expand(size)
    BY DEF Init
  <1>2. /\ size \in Nat /\ k \in Nat \ {0} /\ SizeWidth \in Nat \ {0}
        /\ size < SizeWidth /\ k <= SizeWidth
    BY SizeAssumption, VectorAssumption
  <1>3. CASE size \div k = 0
    <2>1. size < k
      BY <1>2, <1>3
    <2> QED BY <1>1, <1>2, <1>3, <2>1 DEF Expand, SizeInv, Init
  <1>4. CASE size \div k # 0
    <2> DEFINE a == size + k - 1
               q == a \div k
    <2>1. a \in Nat /\ q \in Nat
      <3>1. a \in Nat
        BY <1>2
      <3> QED BY <1>2, <3>1, QuotientNat
    <2>2. vsize = (q * k) % SizeWidth
      BY <1>1, <1>4 DEF Expand
    <2>3. q * k \in Nat /\ q * k <= size + k - 1
      BY <1>2, <2>1, QuotientBelow
    <2> HIDE DEF a, q
    <2> DEFINE x == q * k
    <2>4. CASE x < SizeWidth
      <3>1. vsize = x
        BY <1>2, <2>2, <2>3, <2>4, NotNarrowed
      <3> QED BY <2>1, <2>3, <3>1 DEF SizeInv, Whole, Init
    <2>5. CASE ~(x < SizeWidth)
      <3> HIDE DEF x
      <3>1. x \in Nat /\ x - SizeWidth \in Nat /\ x - SizeWidth < k /\ x - SizeWidth < SizeWidth
            /\ SizeWidth <= x
        BY <1>2, <2>3, <2>5 DEF x
      <3>2. x % SizeWidth = x - SizeWidth
        BY <1>2, <3>1, WrapsOnce
      <3>3. vsize \in Nat /\ vsize < k
        BY <2>2, <3>1, <3>2 DEF x
      <3> QED BY <3>3 DEF SizeInv, Init
    <2> QED BY <2>4, <2>5
  <1> QED BY <1>3, <1>4

LEMMA SizeKept == [Next]_vars => vsize' = vsize
  BY DEF Next, vars, opening, Tick, AVG, StartApplication, FirstPoll, SessionReady,
         RequestArrives, HandleResponseV, SimulatorStop

LEMMA NextSize == SizeInv /\ [Next]_vars => SizeInv'
  <1> SUFFICES ASSUME SizeInv, [Next]_vars PROVE SizeInv'
    OBVIOUS
  <1>1. vsize' = vsize
    BY SizeKept
  <1>2. ASSUME ~(vsize < k) PROVE overrun' = overrun
    <2>1. ~ReadsBeyond(vsize) /\ ~WritesBeyond(vsize)
      BY <1>2, WholeInside DEF SizeInv
    <2>2. CASE \E n \in Node : FirstPoll(n)
      BY <2>1, <2>2 DEF FirstPoll, HandleRequestV, data
    <2>3. CASE \E c \in NonRoot : HandleResponseV(c)
      BY <2>1, <2>3 DEF HandleResponseV, ReportAverage
    <2> QED BY <2>2, <2>3 DEF Next, vars, data, Tick, AVG, StartApplication, SessionReady,
                              RequestArrives, SimulatorStop
  <1>3. vsize' \in Nat /\ (vsize' < k \/ Whole(vsize'))
    BY <1>1 DEF SizeInv
  <1>4. overrun' # {} => vsize' < k
    BY <1>1, <1>2 DEF SizeInv
  <1> QED BY <1>3, <1>4 DEF SizeInv, Whole

(* No process touches memory outside its vectors unless they are shorter   *)
(* than one block: rounding up in main is enough for all other sizes.      *)
THEOREM BlocksStayInside == Spec => []WholeBlocksStayInside
  <1>1. SizeInv => WholeBlocksStayInside
    BY DEF SizeInv, WholeBlocksStayInside
  <1> QED BY <1>1, InitSize, NextSize, PTL DEF Spec

-----------------------------------------------------------------------------
(* Sums over sets of vectors: MapThenSumSet takes the elements one by one, *)
(* in an order of its own, and the order does not matter.                  *)

(* f sums the numbers j of the vectors v over the subsets of a set, one    *)
(* element after the other.                                                *)
Adds(f, v, j, set) ==
  /\ f \in [SUBSET set -> Nat]
  /\ \A s \in SUBSET set :
       f[s] = IF s = {} THEN 0
              ELSE v[CHOOSE x \in s : TRUE][j] + f[s \ {CHOOSE x \in s : TRUE}]

LEMMA SumIterates ==
  ASSUME NEW v, NEW set, IsFiniteSet(set), NEW j, \A c \in set : v[c][j] \in Nat
  PROVE  \E f : Adds(f, v, j, set) /\ SumAt(v, set, j) = f[set]
  <1> DEFINE Eq(f) == f = [s \in SUBSET set |->
                 IF s = {} THEN 0
                 ELSE v[CHOOSE x \in s : TRUE][j] + f[s \ {CHOOSE x \in s : TRUE}]]
             S == SUBSET set
             stop == {{}}
             rank == [s \in S |-> Cardinality(s)]
             prev == [s \in S |-> s \ {CHOOSE x \in s : TRUE}]
             base == [s \in S |-> 0]
             step == [s \in S |-> [n \in Nat |-> IF s = {} THEN 0 ELSE v[CHOOSE x \in s : TRUE][j] + n]]
  <1>1. ASSUME NEW s \in S, s # {}
        PROVE  /\ (CHOOSE x \in s : TRUE) \in s
               /\ v[CHOOSE x \in s : TRUE][j] \in Nat
    <2>1. (CHOOSE x \in s : TRUE) \in s
      BY <1>1
    <2> QED BY <2>1
  <1>2. rank \in [S -> Nat]
    <2>1. \A s \in S : Cardinality(s) \in Nat
      BY FS_Subset, FS_CardinalityType
    <2> QED BY <2>1
  <1>3. prev \in [S -> S] /\ base \in [S -> Nat]
    OBVIOUS
  <1>4. step \in [S -> [Nat -> Nat]]
    <2>1. \A s \in S : \A n \in Nat : (IF s = {} THEN 0 ELSE v[CHOOSE x \in s : TRUE][j] + n) \in Nat
      BY <1>1
    <2> QED BY <2>1
  <1>5. Descends(S, stop, rank, prev)
    <2>1. ASSUME NEW s \in S, s # {} PROVE rank[prev[s]] < rank[s]
      <3> DEFINE y == CHOOSE x \in s : TRUE
      <3>1. y \in s /\ IsFiniteSet(s) /\ s \ {y} \in S
        BY <1>1, <2>1, FS_Subset
      <3>2. Cardinality(s) \in Nat /\ Cardinality(s \ {y}) = Cardinality(s) - 1
        BY <3>1, FS_RemoveElement, FS_CardinalityType
      <3> QED BY <3>1, <3>2
    <2> QED BY <1>2, <1>3, <2>1 DEF Descends
  <1>6. PICK f : f \in [S -> Nat] /\ Solves(f, S, Nat, stop, prev, base, step)
    <2> HIDE DEF S, stop, rank, prev, base, step
    <2> QED BY <1>3, <1>4, <1>5, RecursionExists
  <1>7. ASSUME NEW s \in S
        PROVE  f[s] = IF s = {} THEN 0
                      ELSE v[CHOOSE x \in s : TRUE][j] + f[s \ {CHOOSE x \in s : TRUE}]
    <2>1. /\ s \in stop => f[s] = base[s]
          /\ s \notin stop => f[s] = step[s][f[prev[s]]]
      <3> HIDE DEF S, stop, prev, base, step
      <3> QED BY <1>6 DEF Solves
    <2>2. f[prev[s]] \in Nat
      BY <1>3, <1>6
    <2>3. CASE s = {}
      BY <2>1, <2>3
    <2>4. CASE s # {}
      <3> DEFINE n == f[s \ {CHOOSE x \in s : TRUE}]
      <3>1. n \in Nat
        BY <2>2
      <3>2. f[s] = step[s][n]
        BY <2>1, <2>4
      <3> HIDE DEF n
      <3>3. step[s][n] = v[CHOOSE x \in s : TRUE][j] + n
        BY <2>4, <3>1
      <3> QED BY <2>4, <3>2, <3>3 DEF n
    <2> QED BY <2>3, <2>4
  <1>8. Eq(f)
    BY <1>6, <1>7
  <1> DEFINE iter == CHOOSE g : Eq(g)
  <1>9. Eq(iter)
    <2> HIDE DEF Eq
    <2> QED BY <1>8
  <1>10. SumAt(v, set, j) = iter[set]
    BY DEF SumAt, MapThenSumSet, MapThenFoldSet
  <1> HIDE DEF iter
  <1>11. \A s \in S : iter[s] = IF s = {} THEN 0
                                ELSE v[CHOOSE x \in s : TRUE][j] + iter[s \ {CHOOSE x \in s : TRUE}]
    <2> SUFFICES ASSUME NEW s \in S
                 PROVE  iter[s] = IF s = {} THEN 0
                                ELSE v[CHOOSE x \in s : TRUE][j] + iter[s \ {CHOOSE x \in s : TRUE}]
      OBVIOUS
    <2> QED BY <1>9
  <1>12. iter = [s \in S |-> iter[s]]
    BY <1>9
  <1>13. \A s \in S : iter[s] \in Nat
    <2> DEFINE P == {s \in S : iter[s] \in Nat}
    <2>1. ASSUME NEW s \in S, \A t \in S : rank[t] < rank[s] => t \in P
          PROVE  s \in P
      <3>1. CASE s = {}
        BY <1>11, <3>1
      <3>2. CASE s # {}
        <4> DEFINE y == CHOOSE x \in s : TRUE
        <4>1. s \ {y} \in S /\ rank[s \ {y}] < rank[s]
          BY <1>5, <3>2 DEF Descends
        <4>2. iter[s \ {y}] \in Nat
          <5> HIDE DEF rank
          <5> QED BY <2>1, <4>1
        <4>3. v[y][j] \in Nat
          BY <1>1, <3>2
        <4>4. iter[s] = v[y][j] + iter[s \ {y}]
          BY <1>11, <3>2
        <4> HIDE DEF y
        <4> QED BY <4>2, <4>3, <4>4
      <3> QED BY <3>1, <3>2
    <2>2. S \subseteq P
      <3> HIDE DEF S, P, rank
      <3> QED BY <1>2, <2>1, RankInduction
    <2> QED BY <2>2
  <1>14. iter \in [S -> Nat]
    BY <1>12, <1>13
  <1> QED BY <1>10, <1>11, <1>14 DEF Adds

(* Two such functions agree wherever both are defined. *)
LEMMA AddsAgree ==
  ASSUME NEW v, NEW w, NEW j, NEW big, IsFiniteSet(big), NEW set \in SUBSET big,
         \A c \in big : v[c][j] \in Nat, \A c \in set : w[c][j] = v[c][j],
         NEW f, Adds(f, v, j, big), NEW g, Adds(g, w, j, set)
  PROVE  g[set] = f[set]
  <1> DEFINE S == SUBSET set
             rank == [s \in S |-> Cardinality(s)]
             P == {s \in S : g[s] = f[s]}
  <1>1. rank \in [S -> Nat]
    <2>1. \A s \in S : Cardinality(s) \in Nat
      BY FS_Subset, FS_CardinalityType
    <2> QED BY <2>1
  <1>2. ASSUME NEW s \in S, \A t \in S : rank[t] < rank[s] => t \in P
        PROVE  s \in P
    <2>1. CASE s = {}
      BY <2>1 DEF Adds
    <2>2. CASE s # {}
      <3> DEFINE y == CHOOSE x \in s : TRUE
      <3>1. y \in s
        BY <2>2
      <3>2. s \ {y} \in S /\ IsFiniteSet(s)
        BY FS_Subset
      <3>3. Cardinality(s \ {y}) = Cardinality(s) - 1 /\ Cardinality(s) \in Nat
        BY <3>1, <3>2, FS_RemoveElement, FS_CardinalityType
      <3>4. g[s \ {y}] = f[s \ {y}]
        <4>1. rank[s \ {y}] < rank[s]
          BY <3>2, <3>3
        <4>2. s \ {y} \in P
          <5> HIDE DEF P, rank, y
          <5> QED BY <1>2, <3>2, <4>1
        <4> QED BY <4>2
      <3>5. g[s] = w[y][j] + g[s \ {y}] /\ f[s] = v[y][j] + f[s \ {y}]
        BY <2>2 DEF Adds
      <3> QED BY <3>1, <3>4, <3>5
    <2> QED BY <2>1, <2>2
  <1>3. S \subseteq P
    <2> HIDE DEF S, P, rank
    <2> QED BY <1>1, <1>2, RankInduction
  <1> QED BY <1>3

(* The element that is added last does not matter. *)
LEMMA AnyOrder ==
  ASSUME NEW v, NEW j, NEW set, IsFiniteSet(set), \A c \in set : v[c][j] \in Nat,
         NEW f, Adds(f, v, j, set)
  PROVE  \A x \in set : f[set] = v[x][j] + f[set \ {x}]
  <1> DEFINE S == SUBSET set
             rank == [s \in S |-> Cardinality(s)]
             P == {s \in S : \A x \in s : f[s] = v[x][j] + f[s \ {x}]}
  <1>1. rank \in [S -> Nat]
    <2>1. \A s \in S : Cardinality(s) \in Nat
      BY FS_Subset, FS_CardinalityType
    <2> QED BY <2>1
  <1>2. ASSUME NEW s \in S, \A t \in S : rank[t] < rank[s] => t \in P
        PROVE  s \in P
    <2> SUFFICES ASSUME NEW x \in s PROVE f[s] = v[x][j] + f[s \ {x}]
      OBVIOUS
    <2> DEFINE y == CHOOSE z \in s : TRUE
               r == s \ {x}
               t == s \ {y}
               u == s \ {x, y}
    <2>1. y \in s /\ f[s] = v[y][j] + f[t]
      BY DEF Adds
    <2>2. CASE x = y
      BY <2>1, <2>2
    <2>3. CASE x # y
      <3>1. IsFiniteSet(s) /\ Cardinality(s) \in Nat
        BY FS_Subset, FS_CardinalityType
      <3>2. Cardinality(r) = Cardinality(s) - 1 /\ Cardinality(t) = Cardinality(s) - 1
        BY <2>1, <3>1, FS_RemoveElement
      <3>3. r \in S /\ t \in S /\ u \in S /\ y \in r /\ x \in t /\ r \ {y} = u /\ t \ {x} = u
        BY <2>1, <2>3
      <3>4. r \in P /\ t \in P
        <4>1. rank[r] < rank[s] /\ rank[t] < rank[s]
          BY <3>1, <3>2, <3>3
        <4> HIDE DEF P, rank, r, t
        <4> QED BY <1>2, <3>3, <4>1
      <3>5. f[r] = v[y][j] + f[u] /\ f[t] = v[x][j] + f[u]
        BY <3>3, <3>4
      <3>6. f[u] \in Nat /\ v[x][j] \in Nat /\ v[y][j] \in Nat
        BY <2>1, <3>3 DEF Adds
      <3> QED BY <2>1, <3>5, <3>6
    <2> QED BY <2>2, <2>3
  <1>3. S \subseteq P
    <2> HIDE DEF S, P, rank
    <2> QED BY <1>1, <1>2, RankInduction
  <1> QED BY <1>3

(* What the sum over a set comes to. *)
LEMMA SumFacts ==
  ASSUME NEW v, NEW j, NEW set, IsFiniteSet(set), \A c \in set : v[c][j] \in Nat
  PROVE  /\ SumAt(v, set, j) \in Nat
         /\ set = {} => SumAt(v, set, j) = 0
         /\ \A x \in set : SumAt(v, set, j) = v[x][j] + SumAt(v, set \ {x}, j)
         /\ \A w : (\A c \in set : w[c][j] = v[c][j]) => SumAt(w, set, j) = SumAt(v, set, j)
  <1>1. PICK f : Adds(f, v, j, set) /\ SumAt(v, set, j) = f[set]
    BY SumIterates
  <1>2. SumAt(v, set, j) \in Nat /\ (set = {} => SumAt(v, set, j) = 0)
    BY <1>1 DEF Adds
  <1>3. ASSUME NEW x \in set
        PROVE  SumAt(v, set, j) = v[x][j] + SumAt(v, set \ {x}, j)
    <2> DEFINE r == set \ {x}
    <2>1. IsFiniteSet(r) /\ r \in SUBSET set
      BY FS_Subset
    <2>2. PICK g : Adds(g, v, j, r) /\ SumAt(v, r, j) = g[r]
      <3> HIDE DEF r
      <3> QED BY <2>1, SumIterates
    <2>3. g[r] = f[r]
      <3> HIDE DEF r
      <3> QED BY <1>1, <2>1, <2>2, AddsAgree
    <2>4. f[set] = v[x][j] + f[r]
      BY <1>1, AnyOrder
    <2> QED BY <1>1, <2>2, <2>3, <2>4
  <1>4. ASSUME NEW w, \A c \in set : w[c][j] = v[c][j]
        PROVE  SumAt(w, set, j) = SumAt(v, set, j)
    <2>1. \A c \in set : w[c][j] \in Nat
      BY <1>4
    <2>2. PICK g : Adds(g, w, j, set) /\ SumAt(w, set, j) = g[set]
      BY <2>1, SumIterates
    <2>3. set \in SUBSET set
      OBVIOUS
    <2>4. g[set] = f[set]
      BY <1>1, <1>4, <2>2, <2>3, AddsAgree
    <2> QED BY <1>1, <2>2, <2>4
  <1> QED BY <1>2, <1>3, <1>4

-----------------------------------------------------------------------------
(* The averages are exact. *)

(* The facts of arithmetic. *)
LEMMA Division ==
  ASSUME NEW x \in Nat, NEW m \in Nat \ {0}
  PROVE  /\ x \div m \in Nat /\ x % m \in 0..(m - 1)
         /\ x = (x \div m) * m + (x % m)
  <1>1. x \div m \in Nat /\ x % m \in 0..(m - 1) /\ x = (x % m) + m * (x \div m)
    OBVIOUS
  <1> DEFINE q == x \div m
             r == x % m
  <1> HIDE DEF q, r
  <1>2. q \in Nat /\ r \in 0..(m - 1) /\ x = r + m * q
    BY <1>1 DEF q, r
  <1>3. m * q = q * m /\ m * q \in Nat
    BY <1>2
  <1>4. x = q * m + r
    BY <1>2, <1>3
  <1> QED BY <1>2, <1>4 DEF q, r

LEMMA ProductStrict ==
  ASSUME NEW a \in Nat, NEW b \in Nat, NEW m \in Nat \ {0}, a * m < b * m
  PROVE  a < b
  <1>1. CASE b <= a
    <2>1. b * m <= a * m
      BY <1>1, ProductMonotone
    <2>2. a * m \in Nat /\ b * m \in Nat
      OBVIOUS
    <2> QED BY <2>1, <2>2
  <1> QED BY <1>1

(* Quotient and rest are unique. *)
LEMMA DivisionUnique ==
  ASSUME NEW q \in Nat, NEW m \in Nat \ {0}, NEW r \in 0..(m - 1), NEW x \in Nat, x = q * m + r
  PROVE  x % m = r /\ x \div m = q
  <1> DEFINE p == x \div m
             s == x % m
  <1>1. p \in Nat /\ s \in 0..(m - 1) /\ x = p * m + s
    BY Division
  <1> HIDE DEF p, s
  <1>2. (p + 1) * m = p * m + m /\ (q + 1) * m = q * m + m
    BY <1>1
  <1>3. p * m < (q + 1) * m /\ q * m < (p + 1) * m
    <2>1. p * m \in Nat /\ q * m \in Nat
      BY <1>1
    <2> QED BY <1>1, <1>2, <2>1
  <1>4. p < q + 1 /\ q < p + 1
    BY <1>1, <1>3, ProductStrict
  <1>5. p = q
    BY <1>1, <1>4
  <1>6. s = r
    <2>1. p * m \in Nat
      BY <1>1
    <2> QED BY <1>1, <1>5, <2>1
  <1> QED BY <1>5, <1>6 DEF p, s

(* A sum may be narrowed before the next number is added. *)
LEMMA SumNarrowed ==
  ASSUME NEW a \in Nat, NEW x \in Nat, NEW m \in Nat \ {0}
  PROVE  ((a % m) + x) % m = (a + x) % m
  <1> DEFINE q == a \div m
             r == a % m
             p == (r + x) \div m
             s == (r + x) % m
  <1>1. q \in Nat /\ r \in 0..(m - 1) /\ a = q * m + r
    BY Division
  <1>2. p \in Nat /\ s \in 0..(m - 1) /\ r + x = p * m + s
    <2> HIDE DEF r
    <2>1. r + x \in Nat
      BY <1>1
    <2> QED BY <2>1, Division
  <1> HIDE DEF q, p
  <1>3. (q + p) * m = q * m + p * m
    BY <1>1, <1>2
  <1>4. a + x = (q + p) * m + s
    <2> HIDE DEF r, s
    <2>1. q * m \in Nat /\ p * m \in Nat
      BY <1>1, <1>2
    <2> QED BY <1>1, <1>2, <1>3, <2>1
  <1>5. (a + x) % m = s
    <2> HIDE DEF r, s
    <2> DEFINE u == q + p
               y == a + x
    <2>1. u \in Nat /\ y \in Nat /\ y = u * m + s /\ s \in 0..(m - 1)
      BY <1>1, <1>2, <1>4
    <2> HIDE DEF u, y
    <2>2. y % m = s
      BY ONLY <2>1, m \in Nat \ {0}, DivisionUnique
    <2> QED BY <2>2 DEF y
  <1> QED BY <1>5

-----------------------------------------------------------------------------
(* The blocks of a vector. *)

LEMMA BlockStarts ==
  ASSUME NEW size \in Nat
  PROVE  /\ BlocksOf(size) \in Nat
         /\ \A b \in 1..BlocksOf(size) : /\ Offset(b) \in Nat /\ Offset(b) < size
                                         /\ Offset(b) \div k + 1 = b
  <1> DEFINE q == size \div k
             r == size % k
  <1>1. k \in Nat \ {0}
    BY VectorAssumption
  <1>2. q \in Nat /\ r \in 0..(k - 1) /\ size = q * k + r
    BY <1>1, Division
  <1>3. BlocksOf(size) = q + (IF r = 0 THEN 0 ELSE 1)
    BY DEF BlocksOf
  <1> HIDE DEF q, r
  <1>4. ASSUME NEW b \in 1..BlocksOf(size)
        PROVE  /\ Offset(b) \in Nat /\ Offset(b) < size
               /\ Offset(b) \div k + 1 = b
    <2> DEFINE a == b - 1
    <2>1. a \in Nat /\ b = a + 1 /\ a < BlocksOf(size) /\ Offset(b) = a * k
      BY <1>2, <1>3 DEF Offset
    <2> HIDE DEF a
    <2>2. a * k \in Nat /\ q * k \in Nat
      BY <1>1, <1>2, <2>1
    <2>3. a * k < size
      <3>1. CASE r = 0
        <4>1. a + 1 <= q /\ (a + 1) * k = a * k + k
          BY <1>1, <1>2, <1>3, <2>1, <3>1
        <4>2. (a + 1) * k <= q * k
          BY <1>1, <1>2, <2>1, <4>1, ProductMonotone
        <4> QED BY <1>1, <1>2, <2>2, <3>1, <4>1, <4>2
      <3>2. CASE r # 0
        <4>1. a <= q
          BY <1>2, <1>3, <2>1, <3>2
        <4>2. a * k <= q * k
          BY <1>1, <1>2, <2>1, <4>1, ProductMonotone
        <4> QED BY <1>2, <2>2, <3>2, <4>2
      <3> QED BY <3>1, <3>2
    <2>4. (a * k) \div k = a
      BY <1>1, <2>1, Quotient
    <2> QED BY <2>1, <2>2, <2>3, <2>4
  <1> QED BY <1>2, <1>3, <1>4

(* Where number j of a vector is. *)
LEMMA Position ==
  ASSUME NEW size \in Nat, NEW j \in 1..size
  PROVE  LET b == (j - 1) \div k + 1
             i == ((j - 1) % k) + 1
         IN  b \in 1..BlocksOf(size) /\ i \in 1..k /\ Offset(b) + i = j
  <1> DEFINE q == size \div k
             r == size % k
             a == (j - 1) \div k
             h == (j - 1) % k
  <1>1. k \in Nat \ {0}
    BY VectorAssumption
  <1>2. q \in Nat /\ r \in 0..(k - 1) /\ size = q * k + r
    BY <1>1, Division
  <1>3. BlocksOf(size) = q + (IF r = 0 THEN 0 ELSE 1)
    BY DEF BlocksOf
  <1>4. j - 1 \in Nat /\ a \in Nat /\ h \in 0..(k - 1) /\ j - 1 = a * k + h
    <2> DEFINE x == j - 1
    <2>1. x \in Nat /\ j = x + 1
      OBVIOUS
    <2> HIDE DEF x
    <2>2. x \div k \in Nat /\ x % k \in 0..(k - 1) /\ x = (x \div k) * k + (x % k)
      BY <1>1, <2>1, Division
    <2> QED BY <2>1, <2>2 DEF x
  <1> HIDE DEF q, r, a, h
  <1>5. a * k \in Nat /\ q * k \in Nat /\ a * k < size
    BY <1>1, <1>2, <1>4
  <1>6. a < BlocksOf(size)
    <2>1. CASE r = 0
      <3>1. a * k < q * k
        BY <1>2, <1>5, <2>1
      <3>2. a \in Nat /\ q \in Nat
        BY <1>2, <1>4
      <3>3. a < q
        BY <1>1, <3>1, <3>2, ProductStrict
      <3> QED BY <1>3, <2>1, <3>2, <3>3
    <2>2. CASE r # 0
      <3>1. (q + 1) * k = q * k + k
        BY <1>1, <1>2
      <3>2. a * k < (q + 1) * k
        BY <1>1, <1>2, <1>5, <3>1
      <3>3. a < q + 1
        BY <1>1, <1>2, <1>4, <3>2, ProductStrict
      <3> QED BY <1>3, <2>2, <3>3
    <2> QED BY <2>1, <2>2
  <1>7. BlocksOf(size) \in Nat
    BY <1>2, <1>3
  <1>8. /\ a + 1 \in 1..BlocksOf(size) /\ h + 1 \in 1..k
        /\ Offset(a + 1) = a * k
    <2>1. (a + 1) - 1 = a
      BY <1>4
    <2> QED BY <1>1, <1>4, <1>6, <1>7, <2>1 DEF Offset
  <1>9. Offset(a + 1) + (h + 1) = j
    BY <1>4, <1>5, <1>8
  <1> QED BY <1>8, <1>9 DEF a, h

LEMMA NumbersAre == Number \subseteq Nat /\ 0 \in Number /\ Width \in Nat \ {0}
  BY VectorAssumption DEF Number

(* A block of an answer holds its part of the vector. *)
LEMMA BlockHolds ==
  ASSUME NEW vec \in Seq(Number), NEW b \in 1..BlocksOf(Len(vec)), NEW beyond \in Number
  PROVE  LET block == CreatResponseV(vec, Offset(b), beyond)
         IN  block \in Block /\ Holds(block, b, vec)
  <1> DEFINE size == Len(vec)
             o == Offset(b)
             l == LastIndex(size, o) - o + 1
             value == [i \in 1..l |-> IF o + i <= size THEN vec[o + i] ELSE beyond]
  <1>1. size \in Nat /\ o \in Nat /\ o < size /\ k \in Nat \ {0}
    BY BlockStarts, VectorAssumption
  <1>2. CreatResponseV(vec, o, beyond) = [offset |-> o, values |-> value]
    BY DEF CreatResponseV
  <1> HIDE DEF o
  <1>3. l \in Nat /\ \A i \in 1..k : o + i <= size => i <= l
    BY <1>1 DEF LastIndex
  <1>4. \A i \in Nat \ {0} : o + i <= size => o + i \in 1..size /\ vec[o + i] \in Number
    BY <1>1
  <1> HIDE DEF l
  <1>5. value \in [1..l -> Number]
    BY <1>3, <1>4
  <1>6. value \in Seq(Number) /\ Len(value) = l
    <2> HIDE DEF value
    <2> QED BY <1>3, <1>5
  <1>7. ASSUME NEW i \in 1..k, o + i <= size
        PROVE  PraseVector(value)[i] = vec[o + i]
    <2>1. i \in 1..l /\ i <= Len(value)
      BY <1>1, <1>3, <1>6, <1>7
    <2>2. PraseVector(value)[i] = value[i]
      <3> HIDE DEF value
      <3> QED BY <2>1 DEF PraseVector
    <2> QED BY <1>7, <2>1, <2>2
  <1> HIDE DEF value
  <1> QED BY <1>1, <1>2, <1>6, <1>7 DEF Block, Holds, o

LEMMA BlocksHold ==
  ASSUME NEW vec \in Seq(Number), NEW beyond \in Number, NEW n \in 0..BlocksOf(Len(vec))
  PROVE  /\ Blocks(vec, beyond, n) \in Seq(Block)
         /\ Len(Blocks(vec, beyond, n)) = n
         /\ \A b \in 1..n : Holds(Blocks(vec, beyond, n)[b], b, vec)
  <1> DEFINE s == [b \in 1..n |-> CreatResponseV(vec, Offset(b), beyond)]
  <1>1. BlocksOf(Len(vec)) \in Nat /\ n \in Nat /\ 1..n \subseteq 1..BlocksOf(Len(vec))
    BY BlockStarts
  <1>2. \A b \in 1..n : s[b] \in Block /\ Holds(s[b], b, vec)
    BY <1>1, BlockHolds
  <1>3. s \in [1..n -> Block]
    BY <1>2
  <1>4. s \in Seq(Block) /\ Len(s) = n
    <2> HIDE DEF s
    <2> QED BY <1>1, <1>3
  <1>5. Blocks(vec, beyond, n) = s
    BY DEF Blocks
  <1> HIDE DEF s
  <1> QED BY <1>2, <1>4, <1>5

-----------------------------------------------------------------------------
(* No process is its own child. *)
LEMMA NoLoop ==
  ASSUME topo \in Topologies, NEW n \in Node
  PROVE  /\ n \notin Kids(n) /\ IsFiniteSet(Kids(n))
         /\ Kids(n) \subseteq NonRoot
  <1>1. Kids(n) \subseteq NonRoot
    BY DEF Kids, Children, NonRoot
  <1>2. IsFiniteSet(Kids(n))
    <2>1. IsFiniteSet(NonRoot)
      BY TopologyAssumption DEF NonRoot
    <2> QED BY <1>1, <2>1, FS_Subset
  <1>3. n \notin Kids(n)
    <2> SUFFICES ASSUME n \in Kids(n) PROVE FALSE
      OBVIOUS
    <2>1. n \in NonRoot /\ topo.parent[n] = n
      BY DEF Kids, Children, NonRoot
    <2> QED BY <2>1, Shape
  <1> QED BY <1>1, <1>2, <1>3

(* What the invariant says of the vectors of the children. *)
LEMMA VectorFacts ==
  ASSUME DataInv, NEW c \in NonRoot, Sent(c)
  PROVE  /\ vsize \in Nat /\ vector[c] \in Seq(Number) /\ Len(vector[c]) = vsize
         /\ \A j \in 1..vsize : vector[c][j] \in Nat
  <1>1. vector[c] \in Seq(Number) /\ Len(vector[c]) = vsize
    BY DEF DataInv, DataTypeOK, AnswerInv, Node, Nodes, NonRoot
  <1> DEFINE s == vector[c]
  <1> HIDE DEF s
  <1>2. \A j \in 1..Len(s) : s[j] \in Number
    BY <1>1 DEF s
  <1>3. Len(s) \in Nat
    BY <1>1 DEF s
  <1> QED BY <1>1, <1>2, <1>3, NumbersAre DEF s

LEMMA SizesAreNat == DataTypeOK => vsize \in Nat /\ BlocksOf(vsize) \in Nat /\ Range8(vsize) = BlocksOf(vsize)
  <1> SUFFICES ASSUME DataTypeOK
               PROVE  vsize \in Nat /\ BlocksOf(vsize) \in Nat /\ Range8(vsize) = BlocksOf(vsize)
    OBVIOUS
  <1>1. PICK size \in Sizes : vsize = Expand(size)
    BY DEF DataTypeOK
  <1>2. size \in Nat /\ k \in Nat \ {0} /\ SizeWidth \in Nat \ {0}
    BY SizeAssumption, VectorAssumption
  <1>3. vsize \in Nat
    <2>1. CASE size \div k = 0
      BY <1>1, <1>2, <2>1 DEF Expand
    <2>2. CASE size \div k # 0
      <3> DEFINE x == ((size + k - 1) \div k) * k
      <3>1. size + k - 1 \in Nat
        BY <1>2
      <3>2. (size + k - 1) \div k \in Nat
        BY <1>2, <3>1, QuotientNat
      <3>3. x \in Nat
        <4> DEFINE q == (size + k - 1) \div k
        <4> HIDE DEF q
        <4>1. q * k \in Nat
          BY <1>2, <3>2 DEF q
        <4> QED BY <4>1 DEF q
      <3>4. vsize = x % SizeWidth
        BY <1>1, <2>2 DEF Expand
      <3> HIDE DEF x
      <3> QED BY <1>2, <3>3, <3>4
    <2> QED BY <2>1, <2>2
  <1>4. BlocksOf(vsize) \in Nat
    BY <1>3, BlockStarts
  <1>5. Range8(vsize) = BlocksOf(vsize)
    BY <1>4, NotNarrowed DEF Range8, DataTypeOK
  <1> QED BY <1>3, <1>4, <1>5

(* The next block of c goes into the chunk of its parent. *)
LEMMA ChunkSummed ==
  ASSUME DataInv, topo \in Topologies, NEW c \in NonRoot, answers[c] # <<>>
  PROVE  LET n == topo.parent[c]
             next == Taken(c) + 1
             chunks == SumChunk(n, Head(answers[c]))
             got == [b \in 1..BlocksOf(vsize) |->
                       IF b = next THEN Got(n, b) \cup {c} ELSE Got(n, b)]
         IN  /\ n \in Node \ ended /\ c \in Kids(n) /\ Sent(c)
             /\ next \in 1..BlocksOf(vsize) /\ Taken(c) \in Nat
             /\ chunks \in [1..BlocksOf(vsize) -> Chunk]
             /\ \A b \in 1..BlocksOf(vsize) :
                  /\ got[b] \subseteq Kids(n)
                  /\ chunks[b].count = Cardinality(got[b])
                  /\ \A i \in 1..k : Offset(b) + i <= vsize =>
                       chunks[b].data[i] = Summed(vector, Kids(n), got[b], Offset(b) + i)
  <1> DEFINE n == topo.parent[c]
             next == Taken(c) + 1
             m == Head(answers[c])
             chunks == SumChunk(n, m)
             blocks == BlocksOf(vsize)
             set == Got(n, next)
             more == set \cup {c}
             old == chunk[n][next]
             sum == SumVector(old.data, PraseVector(m.values))
             new == [count |-> old.count + 1,
                     data |-> IF old.count + 1 = Cardinality(Kids(n))
                              THEN AvgVector(sum, old.count + 1) ELSE sum]
  <1>1. /\ n \in Node /\ c \in Kids(n) /\ n # c /\ IsFiniteSet(Kids(n)) /\ Kids(n) \subseteq NonRoot
    BY Shape, NoLoop
  <1>2. DataTypeOK /\ AnswerInv(c) /\ vsize \in Nat /\ blocks \in Nat
    BY SizesAreNat DEF DataInv
  <1>3. n \notin ended /\ ChunkInv(n) /\ Sent(c)
    BY <1>1, <1>2 DEF DataInv, EndedInv, AnswerInv
  <1>4. /\ answers[c] \in Seq(Block) /\ Len(answers[c]) \in Nat \ {0}
        /\ m = answers[c][1] /\ m \in Block
    <2>1. answers[c] \in Seq(Block)
      BY <1>2 DEF DataTypeOK
    <2> QED BY <2>1
  <1>5. Taken(c) \in Nat /\ next \in 1..blocks /\ next = Taken(c) + 1
    BY <1>2, <1>3, <1>4 DEF AnswerInv, DataTypeOK, Taken
  <1>6. Holds(m, next, vector[c]) /\ Len(vector[c]) = vsize
    BY <1>2, <1>3, <1>4 DEF AnswerInv
  <1> HIDE DEF m, next, n, blocks
  <1>7. m.offset \div k + 1 = next
    <2>1. m.offset = Offset(next)
      BY <1>6 DEF Holds
    <2>2. Offset(next) \div k + 1 = next
      BY <1>2, <1>5, BlockStarts DEF blocks
    <2> QED BY <2>1, <2>2
  <1>8. chunks = [chunk[n] EXCEPT ![next] = new]
    <2>1. chunks = [chunk[n] EXCEPT ![m.offset \div k + 1] =
                      [count |-> chunk[n][m.offset \div k + 1].count + 1,
                       data |-> IF chunk[n][m.offset \div k + 1].count + 1 = Cardinality(Kids(n))
                                THEN AvgVector(SumVector(chunk[n][m.offset \div k + 1].data, PraseVector(m.values)),
                                               chunk[n][m.offset \div k + 1].count + 1)
                                ELSE SumVector(chunk[n][m.offset \div k + 1].data, PraseVector(m.values))]]
      BY DEF SumChunk
    <2> QED BY <1>7, <2>1
  <1>9. chunk[n] \in [1..blocks -> Chunk] /\ old \in Chunk
    BY <1>1, <1>2, <1>5 DEF DataTypeOK, blocks
  <1>10. /\ set \subseteq Kids(n) /\ c \notin set /\ more \subseteq Kids(n) /\ set # Kids(n)
         /\ IsFiniteSet(set) /\ IsFiniteSet(more) /\ Cardinality(set) \in Nat
         /\ Cardinality(more) = Cardinality(set) + 1
         /\ Cardinality(more) = Cardinality(Kids(n)) <=> more = Kids(n)
    <2>1. set \subseteq Kids(n) /\ c \notin set
      BY <1>5 DEF Got
    <2>2. more \subseteq Kids(n) /\ set # Kids(n)
      BY <1>1, <2>1
    <2>3. IsFiniteSet(set) /\ Cardinality(set) \in Nat
      BY <1>1, <2>1, FS_Subset, FS_CardinalityType
    <2>4. IsFiniteSet(more) /\ Cardinality(more) = Cardinality(set) + 1
      BY <2>1, <2>3, FS_AddElement
    <2>5. Cardinality(more) = Cardinality(Kids(n)) <=> more = Kids(n)
      <3> HIDE DEF more
      <3> QED BY <1>1, <2>2, FS_Subset
    <2> QED BY <2>1, <2>2, <2>3, <2>4, <2>5
  <1>11. old.count = Cardinality(set)
    BY <1>3, <1>5 DEF ChunkInv, blocks
  <1>12. PraseVector(m.values) \in [1..k -> Number] /\ k \in Nat \ {0}
    <2>1. m.values \in Seq(Number) /\ k \in Nat \ {0}
      BY <1>4, VectorAssumption DEF Block
    <2> DEFINE s == m.values
    <2> HIDE DEF s
    <2>2. \A i \in 1..k : i <= Len(s) => s[i] \in Number
      BY <2>1 DEF s
    <2>3. PraseVector(s) \in [1..k -> Number]
      BY <2>2, NumbersAre DEF PraseVector
    <2> QED BY <2>1, <2>3 DEF s
  <1>13. sum \in [1..k -> Number]
    <2> DEFINE x == PraseVector(m.values)
               y == old.data
    <2>1. x \in [1..k -> Number] /\ y \in [1..k -> Number]
      BY <1>9, <1>12 DEF Chunk
    <2> HIDE DEF x, y
    <2>2. \A i \in 1..k : (y[i] + x[i]) % Width \in Number
      BY <2>1, NumbersAre DEF Number
    <2>3. SumVector(y, x) \in [1..k -> Number]
      BY <2>2 DEF SumVector
    <2> QED BY <2>3 DEF x, y
  <1>14. new \in Chunk
    <2>1. old.count + 1 \in Nat \ {0}
      BY <1>10, <1>11
    <2> DEFINE count == old.count + 1
    <2> HIDE DEF count, sum
    <2>2. \A i \in 1..k : sum[i] \div count \in Number
      <3> SUFFICES ASSUME NEW i \in 1..k PROVE sum[i] \div count \in Number
        OBVIOUS
      <3>1. sum[i] \in Nat /\ sum[i] < Width /\ Width \in Nat /\ count \in Nat \ {0}
        BY <1>13, <2>1, NumbersAre DEF Number, count
      <3> DEFINE x == sum[i]
                 q == x \div count
      <3>2. x \in Nat /\ x < Width
        BY <3>1
      <3> HIDE DEF x
      <3>3. q \in Nat /\ q * count \in Nat /\ q * count <= x
        BY <3>1, <3>2, QuotientNat, QuotientBelow
      <3> HIDE DEF q
      <3>4. q <= x
        <4>1. q * 1 <= q * count
          BY <3>1, <3>3
        <4> QED BY <3>1, <3>2, <3>3, <4>1
      <3>5. q \in Number
        BY <3>1, <3>2, <3>3, <3>4 DEF Number
      <3> QED BY <3>5 DEF q, x
    <2>3. AvgVector(sum, count) \in [1..k -> Number]
      BY <2>2 DEF AvgVector
    <2>4. [count |-> count, data |-> IF count = Cardinality(Kids(n)) THEN AvgVector(sum, count) ELSE sum] \in Chunk
      BY <1>13, <2>1, <2>3 DEF Chunk, count
    <2> QED BY <2>4 DEF count, sum
  <1>15. new.count = Cardinality(more)
    BY <1>10, <1>11
  <1>16. ASSUME NEW i \in 1..k, Offset(next) + i <= vsize
         PROVE  new.data[i] = Summed(vector, Kids(n), more, Offset(next) + i)
    <2> DEFINE j == Offset(next) + i
               v == PraseVector(m.values)
               had == SumAt(vector, set, j)
    <2>1. j \in 1..vsize
      BY <1>2, <1>5, <1>16, BlockStarts DEF blocks
    <2>2. v[i] = vector[c][j]
      BY <1>6, <1>16 DEF Holds
    <2> HIDE DEF j, v
    <2>3. \A d \in more : vector[d][j] \in Nat
      BY <1>1, <1>3, <1>10, <2>1, VectorFacts DEF Got
    <2>4. \A d \in set : vector[d][j] \in Nat
      BY <2>3
    <2>5. had \in Nat /\ vector[c][j] \in Nat
      BY <1>10, <2>3, <2>4, SumFacts
    <2>6. SumAt(vector, more, j) = vector[c][j] + had
      <3>1. more \ {c} = set /\ c \in more
        BY <1>10
      <3> HIDE DEF more
      <3>2. SumAt(vector, more, j) = vector[c][j] + SumAt(vector, more \ {c}, j)
        <4>1. IsFiniteSet(more)
          BY <1>10
        <4> HIDE DEF j
        <4> QED BY <2>3, <3>1, <4>1, SumFacts
      <3> QED BY <3>1, <3>2
    <2>7. old.data[i] = had % Width
      BY <1>3, <1>5, <1>10, <1>16 DEF ChunkInv, Summed, blocks, j
    <2>8. sum[i] = (old.data[i] + v[i]) % Width
      BY DEF SumVector, v
    <2> HIDE DEF had, sum, old
    <2>9. sum[i] = SumAt(vector, more, j) % Width
      <3> DEFINE x == vector[c][j]
      <3>1. sum[i] = ((had % Width) + x) % Width
        BY <2>2, <2>7, <2>8
      <3> HIDE DEF x
      <3>2. ((had % Width) + x) % Width = (had + x) % Width
        BY <2>5, NumbersAre, SumNarrowed DEF x
      <3>3. had + x = SumAt(vector, more, j)
        BY <2>5, <2>6 DEF x
      <3> QED BY <3>1, <3>2, <3>3
    <2>10. CASE more = Kids(n)
      <3>1. new.data = AvgVector(sum, Cardinality(Kids(n)))
        BY <1>10, <1>11, <2>10 DEF old
      <3>2. new.data[i] = sum[i] \div Cardinality(Kids(n))
        BY <3>1 DEF AvgVector
      <3>3. Summed(vector, Kids(n), more, j) = (SumAt(vector, more, j) % Width) \div Cardinality(Kids(n))
        BY <2>10 DEF Summed
      <3> QED BY <2>9, <3>2, <3>3 DEF j
    <2>11. CASE more # Kids(n)
      <3>1. new.data = sum
        BY <1>10, <1>11, <2>11 DEF old
      <3>2. Summed(vector, Kids(n), more, j) = SumAt(vector, more, j) % Width
        BY <2>11 DEF Summed
      <3> QED BY <2>9, <3>1, <3>2 DEF j
    <2> QED BY <2>10, <2>11
  <1> HIDE DEF new, chunks, more, set
  <1>17. chunks \in [1..blocks -> Chunk] /\ chunks[next] = new
         /\ \A b \in 1..blocks : b # next => chunks[b] = chunk[n][b]
    BY <1>5, <1>8, <1>9, <1>14
  <1> DEFINE got == [b \in 1..blocks |-> IF b = next THEN Got(n, b) \cup {c} ELSE Got(n, b)]
  <1>18. ASSUME NEW b \in 1..blocks
         PROVE  /\ got[b] \subseteq Kids(n)
                /\ chunks[b].count = Cardinality(got[b])
                /\ \A i \in 1..k : Offset(b) + i <= vsize =>
                     chunks[b].data[i] = Summed(vector, Kids(n), got[b], Offset(b) + i)
    <2>1. CASE b = next
      <3>1. got[b] = more
        BY <2>1 DEF more, set
      <3> HIDE DEF got
      <3> QED BY <1>10, <1>15, <1>16, <1>17, <2>1, <3>1
    <2>2. CASE b # next
      <3>1. got[b] = Got(n, b) /\ chunks[b] = chunk[n][b]
        BY <1>17, <2>2
      <3>2. Got(n, b) \subseteq Kids(n)
        BY DEF Got
      <3> HIDE DEF got
      <3> QED BY <1>3, <3>1, <3>2 DEF ChunkInv, blocks
    <2> QED BY <2>1, <2>2
  <1> QED BY <1>1, <1>3, <1>5, <1>17, <1>18 DEF n, next, chunks, blocks, m

-----------------------------------------------------------------------------
(* A sum of vectors that do not change. *)
LEMMA SummedKept ==
  ASSUME DataInv, topo \in Topologies, NEW n \in Node, NEW got \in SUBSET Kids(n),
         \A d \in got : Sent(d) /\ vector'[d] = vector[d], NEW j \in 1..vsize
  PROVE  Summed(vector', Kids(n), got, j) = Summed(vector, Kids(n), got, j)
  <1>1. IsFiniteSet(got) /\ got \subseteq NonRoot
    BY NoLoop, FS_Subset
  <1>2. \A d \in got : vector[d][j] \in Nat
    BY <1>1, VectorFacts
  <1>3. \A d \in got : vector'[d][j] = vector[d][j]
    OBVIOUS
  <1>4. SumAt(vector', got, j) = SumAt(vector, got, j)
    BY <1>1, <1>2, <1>3, SumFacts
  <1> QED BY <1>4 DEF Summed

LEMMA ChunkKept ==
  ASSUME DataInv, topo \in Topologies, topo' = topo, vsize' = vsize,
         NEW n \in Node \ ended, Kids(n) # {}, chunk'[n] = chunk[n],
         \A d \in Kids(n) : Sent(d) => vector'[d] = vector[d],
         \A b \in 1..BlocksOf(vsize) : Got(n, b)' = Got(n, b)
  PROVE  ChunkInv(n)'
  <1>1. ChunkInv(n) /\ vsize \in Nat
    BY SizesAreNat DEF DataInv
  <1>2. Kids(n)' = Kids(n)
    BY TimesFrozen
  <1>3. ASSUME NEW b \in 1..BlocksOf(vsize), NEW i \in 1..k, Offset(b) + i <= vsize
        PROVE  Summed(vector', Kids(n), Got(n, b), Offset(b) + i) =
               Summed(vector, Kids(n), Got(n, b), Offset(b) + i)
    <2>1. Offset(b) + i \in 1..vsize
      BY <1>1, <1>3, BlockStarts
    <2>2. /\ Got(n, b) \in SUBSET Kids(n)
          /\ \A d \in Got(n, b) : Sent(d) /\ vector'[d] = vector[d]
      BY DEF Got
    <2> QED BY <2>1, <2>2, SummedKept
  <1> QED BY <1>1, <1>2, <1>3 DEF ChunkInv

LEMMA EndedKept ==
  ASSUME DataInv, topo \in Topologies, topo' = topo, vsize' = vsize,
         NEW n \in ended, vector'[n] = vector[n],
         \A d \in Kids(n) : /\ Sent(d)' /\ answers'[d] = answers[d]
                            /\ vector'[d] = vector[d]
  PROVE  EndedInv(n)'
  <1>1. EndedInv(n) /\ n \in Node
    BY DEF DataInv, DataTypeOK
  <1>2. Kids(n)' = Kids(n)
    BY TimesFrozen
  <1>3. \A d \in Kids(n) : Sent(d)
    BY <1>1 DEF EndedInv
  <1>4. ASSUME NEW j \in 1..vsize
        PROVE  Summed(vector', Kids(n), Kids(n), j) = Summed(vector, Kids(n), Kids(n), j)
    BY <1>1, <1>3, SummedKept
  <1> QED BY <1>1, <1>2, <1>4 DEF EndedInv

LEMMA AnswerKept ==
  ASSUME DataInv, topo' = topo, vsize' = vsize, NEW c \in NonRoot,
         Sent(c)' <=> Sent(c), answers'[c] = answers[c], accepted'[c] = accepted[c],
         Sent(c) => vector'[c] = vector[c]
  PROVE  AnswerInv(c)' /\ Taken(c)' = Taken(c)
  <1>1. AnswerInv(c)
    BY DEF DataInv
  <1>2. Taken(c)' = Taken(c)
    BY DEF Taken
  <1> QED BY <1>1, <1>2 DEF AnswerInv

(* An answer that has just been sent. *)
LEMMA AnswerStarts ==
  ASSUME DataInv, topo' = topo, vsize' = vsize, NEW c \in NonRoot, Sent(c)',
         NEW vec \in Seq(Number), Len(vec) = vsize, NEW beyond \in Garbage,
         NEW blocks \in MayAccept(c), vector'[c] = vec,
         answers'[c] = Blocks(vec, beyond, blocks), accepted'[c] = blocks
  PROVE  AnswerInv(c)' /\ Taken(c)' = 0 /\ answers'[c] \in Seq(Block)
  <1>1. vsize \in Nat /\ BlocksOf(vsize) \in Nat /\ beyond \in Number
    BY SizesAreNat, NumberAssumption DEF DataInv
  <1>2. blocks \in 0..BlocksOf(vsize)
    BY <1>1 DEF MayAccept
  <1>3. /\ answers'[c] \in Seq(Block) /\ Len(answers'[c]) = blocks
        /\ \A b \in 1..blocks : Holds(answers'[c][b], b, vec)
    BY <1>1, <1>2, BlocksHold
  <1>4. Taken(c)' = 0
    BY <1>3, <1>2 DEF Taken
  <1>5. ASSUME NEW i \in 1..Len(answers'[c])
        PROVE  Holds(answers'[c][i], 0 + i, vec)
    <2>1. 0 + i = i /\ i \in 1..blocks
      BY <1>3, <1>2
    <2> QED BY <1>3, <2>1
  <1>6. accepted'[c] <= BlocksOf(vsize)
    BY <1>1, <1>2
  <1>7. \A i \in 1..Len(answers'[c]) : Holds(answers'[c][i], Taken(c)' + i, vector'[c])
    BY <1>4, <1>5
  <1>8. /\ Len(vector'[c]) = vsize' /\ Taken(c)' >= 0
        /\ BlocksOf(vsize') = BlocksOf(vsize)
    BY <1>4
  <1>9. AnswerInv(c)'
    BY <1>6, <1>7, <1>8, ZenonT(20) DEF AnswerInv
  <1> QED BY <1>3, <1>4, <1>9

-----------------------------------------------------------------------------
LEMMA InitData ==
  ASSUME Init, BlocksOf(vsize) < 256
  PROVE  DataInv
  <1>1. /\ vsize \in {Expand(size) : size \in Sizes} /\ BlocksOf(vsize) < 256
        /\ polling = {} /\ ended = {} /\ topo \in Topologies
        /\ vector = [n \in Node |-> <<>>] /\ answers = [c \in NonRoot |-> <<>>]
        /\ accepted = [c \in NonRoot |-> 0]
        /\ chunk = [n \in Node |-> [b \in 1..Range8(vsize) |-> EmptyChunk]]
    BY DEF Init
  <1>2. vsize \in Nat /\ BlocksOf(vsize) \in Nat /\ Range8(vsize) = BlocksOf(vsize)
    <2>1. PICK size \in Sizes : vsize = Expand(size)
      BY <1>1
    <2>2. vsize \in Nat
      BY InitSize DEF Init, SizeInv
    <2>3. BlocksOf(vsize) \in Nat
      BY <2>2, BlockStarts
    <2>4. BlocksOf(vsize) % 256 = BlocksOf(vsize)
      <3>1. PICK m : m = BlocksOf(vsize)
        OBVIOUS
      <3>2. m \in Nat /\ m < 256
        BY <1>1, <2>3, <3>1
      <3>3. m % 256 = m
        BY <3>2
      <3> QED BY <3>1, <3>3
    <2> QED BY <2>2, <2>3, <2>4 DEF Range8
  <1>3. EmptyChunk \in Chunk /\ EmptyChunk.count = 0 /\ \A i \in 1..k : EmptyChunk.data[i] = 0
    BY NumbersAre DEF EmptyChunk, Chunk
  <1>4. DataTypeOK
    <2>1. <<>> \in Seq(Number) /\ <<>> \in Seq(Block)
      OBVIOUS
    <2> QED BY <1>1, <1>2, <1>3, <2>1 DEF DataTypeOK
  <1>5. ASSUME NEW c \in NonRoot PROVE ~Sent(c) /\ AnswerInv(c)
    BY <1>1 DEF Sent, AnswerInv
  <1>6. ASSUME NEW n \in Node, Kids(n) # {} PROVE ChunkInv(n)
    <2>1. ASSUME NEW b \in 1..BlocksOf(vsize)
          PROVE  /\ chunk[n][b].count = Cardinality(Got(n, b))
                 /\ \A i \in 1..k : chunk[n][b].data[i] =
                                    Summed(vector, Kids(n), Got(n, b), Offset(b) + i)
      <3>1. Got(n, b) = {}
        BY <1>1, <1>5, NoLoop DEF Got
      <3>2. Cardinality({}) = 0
        BY FS_EmptySet
      <3>3. \A j : SumAt(vector, {}, j) = 0
        <4> SUFFICES ASSUME NEW j PROVE SumAt(vector, {}, j) = 0
          OBVIOUS
        <4>1. IsFiniteSet({}) /\ \A c \in {} : vector[c][j] \in Nat
          BY FS_EmptySet
        <4> QED BY <4>1, SumFacts
      <3>4. \A j : Summed(vector, Kids(n), {}, j) = 0
        <4>1. 0 % Width = 0
          BY VectorAssumption
        <4> QED BY <1>6, <3>3, <4>1 DEF Summed
      <3>5. chunk[n][b] = EmptyChunk
        BY <1>1, <1>2
      <3> QED BY <1>3, <3>1, <3>2, <3>4, <3>5
    <2> QED BY <2>1 DEF ChunkInv
  <1> QED BY <1>1, <1>4, <1>5, <1>6 DEF DataInv

LEMMA DataUntouched ==
  ASSUME DataInv, topo \in Topologies, topo' = topo, vsize' = vsize, UNCHANGED data,
         \A c \in NonRoot : Sent(c)' <=> Sent(c)
  PROVE  DataInv'
  <1>1. /\ vector' = vector /\ chunk' = chunk /\ answers' = answers /\ ended' = ended
        /\ accepted' = accepted
    BY DEF data
  <1>2. Node' = Node /\ NonRoot' = NonRoot /\ \A n : Kids(n)' = Kids(n)
    BY TimesFrozen
  <1>3. DataTypeOK'
    BY <1>1, <1>2 DEF DataInv, DataTypeOK
  <1>4. ASSUME NEW c \in NonRoot PROVE AnswerInv(c)' /\ Taken(c)' = Taken(c)
    BY <1>1, AnswerKept
  <1>5. ASSUME NEW n \in Node, Kids(n) # {}, n \notin ended
        PROVE  ChunkInv(n)'
    <2>1. \A b : Got(n, b)' = Got(n, b)
      BY <1>2, <1>4, NoLoop DEF Got
    <2> QED BY <1>1, <1>5, <2>1, ChunkKept
  <1>6. ASSUME NEW n \in ended
        PROVE  EndedInv(n)'
    <2>1. n \in Node /\ EndedInv(n)
      BY DEF DataInv, DataTypeOK
    <2>2. \A d \in Kids(n) : Sent(d)'
      BY <2>1, NoLoop DEF EndedInv
    <2> QED BY <1>1, <2>2, EndedKept
  <1> QED BY <1>1, <1>2, <1>3, <1>4, <1>5, <1>6 DEF DataInv

-----------------------------------------------------------------------------
LEMMA PollData ==
  ASSUME OpeningInv, DataInv, NEW n \in Node, FirstPoll(n)
  PROVE  DataInv'
  <1>1. OpeningTypeOK /\ topo \in Topologies /\ DataTypeOK /\ ~fault
    BY DEF OpeningInv, OpeningTypeOK, DataInv
  <1>2. OpeningInv'
    BY ProcessPolls
  <1>3. /\ n \in started /\ n \notin polling /\ topo' = topo /\ vsize' = vsize
        /\ ChannelsUp(n) /\ polling' = polling \cup {n}
    BY <1>2 DEF FirstPoll, OpeningInv
  <1>4. /\ Node' = Node /\ NonRoot' = NonRoot /\ \A m : Kids(m)' = Kids(m)
    BY <1>3, TimesFrozen
  <1>5. n # Root => n \in NonRoot /\ request[n] = "arrived"
    <2> SUFFICES ASSUME n # Root PROVE n \in NonRoot /\ request[n] = "arrived"
      OBVIOUS
    <2>1. n \in NonRoot
      BY DEF Node, Nodes, NonRoot
    <2>2. request[n] # "read" /\ request'[n] = "read"
      BY <1>2, <1>3, <1>4, <2>1 DEF OpeningInv, RequestInv
    <2>3. CASE request[n] # "arrived"
      <3>1. request' = request
        BY <1>3, <2>3 DEF FirstPoll
      <3> QED BY <2>2, <3>1
    <2> QED BY <2>1, <2>3
  <1>6. CASE n = Root \/ Kids(n) # {}
    <2>1. UNCHANGED data
      <3>1. CASE n = Root
        BY <1>3, <3>1 DEF FirstPoll
      <3>2. CASE n # Root
        BY <1>3, <1>5, <1>6, <3>2 DEF FirstPoll, HandleRequestV, data
      <3> QED BY <3>1, <3>2
    <2>2. ended' = ended
      BY <2>1 DEF data
    <2>3. ASSUME NEW c \in NonRoot PROVE Sent(c)' <=> Sent(c)
      <3>1. c # n \/ Kids(c) # {}
        BY <1>1, <1>6, Shape
      <3> QED BY <1>3, <1>4, <2>2, <3>1 DEF Sent
    <2> QED BY <1>1, <1>3, <2>1, <2>3, DataUntouched
  <1>7. CASE n # Root /\ Kids(n) = {}
    <2>1. /\ n \in NonRoot /\ HandleRequestV(n)
          /\ chunk' = chunk /\ ended' = ended
      BY <1>3, <1>5, <1>7 DEF FirstPoll, HandleRequestV
    <2>2. PICK vec \in Random[vsize], beyond \in Garbage, blocks \in MayAccept(n) :
            /\ vector' = [vector EXCEPT ![n] = vec]
            /\ answers' = [answers EXCEPT ![n] = Blocks(vec, beyond, blocks)]
            /\ accepted' = [accepted EXCEPT ![n] = blocks]
      BY <1>7, <2>1 DEF HandleRequestV, SendResponseVTo, GenetrateRandomVector
    <2>3. vec \in Seq(Number) /\ Len(vec) = vsize /\ vsize \in Nat
      <3>1. vec \in [1..vsize -> Number]
        BY <1>1, NumberAssumption DEF DataTypeOK
      <3>2. vsize \in Nat
        BY <1>1, SizesAreNat
      <3> QED BY <3>1, <3>2
    <2>4. /\ vector'[n] = vec /\ answers'[n] = Blocks(vec, beyond, blocks)
          /\ accepted'[n] = blocks
      BY <1>1, <2>1, <2>2 DEF DataTypeOK
    <2>5. ~Sent(n) /\ Sent(n)'
      BY <1>3, <1>4, <1>7 DEF Sent
    <2>6. AnswerInv(n)' /\ Taken(n)' = 0 /\ answers'[n] \in Seq(Block)
      BY <1>3, <2>1, <2>3, <2>4, <2>5, AnswerStarts
    <2>7. ASSUME NEW c \in NonRoot, c # n
          PROVE  /\ Sent(c)' <=> Sent(c)
                 /\ vector'[c] = vector[c] /\ answers'[c] = answers[c]
                 /\ AnswerInv(c)' /\ Taken(c)' = Taken(c)
      <3>1. Sent(c)' <=> Sent(c)
        BY <1>3, <1>4, <2>1, <2>7 DEF Sent
      <3>2. vector'[c] = vector[c] /\ answers'[c] = answers[c] /\ accepted'[c] = accepted[c]
        BY <1>1, <2>2, <2>7 DEF DataTypeOK, Node, Nodes, NonRoot
      <3> QED BY <1>3, <3>1, <3>2, AnswerKept
    <2>8. DataTypeOK'
      <3>1. vector' \in [Node -> Seq(Number)]
        BY <1>1, <2>2, <2>3 DEF DataTypeOK
      <3>2. answers' \in [NonRoot -> Seq(Block)]
        BY <1>1, <2>2, <2>4, <2>6 DEF DataTypeOK
      <3>3. accepted' \in [NonRoot -> Nat]
        <4>1. blocks \in Nat
          BY <1>1, SizesAreNat DEF MayAccept
        <4> QED BY <1>1, <2>2, <4>1 DEF DataTypeOK
      <3> QED BY <1>1, <1>3, <1>4, <2>1, <3>1, <3>2, <3>3 DEF DataTypeOK
    <2>9. ASSUME NEW m \in Node, Kids(m) # {}, m \notin ended
          PROVE  ChunkInv(m)'
      <3>1. ASSUME NEW b \in 1..BlocksOf(vsize) PROVE Got(m, b)' = Got(m, b)
        <4>1. \A c \in Kids(m) : (Sent(c)' /\ b <= Taken(c)') <=> (Sent(c) /\ b <= Taken(c))
          BY <1>1, <2>5, <2>6, <2>7, NoLoop
        <4>2. vsize' = vsize /\ Kids(m)' = Kids(m)
          BY <1>3, <1>4
        <4> QED BY <4>1, <4>2 DEF Got
      <3>2. \A d \in Kids(m) : Sent(d) => vector'[d] = vector[d]
        BY <1>1, <2>5, <2>7, NoLoop
      <3> QED BY <1>1, <1>3, <2>1, <2>9, <3>1, <3>2, ChunkKept
    <2>10. ASSUME NEW m \in ended PROVE EndedInv(m)'
      <3>1. m \in Node /\ Kids(m) # {} /\ m # n /\ EndedInv(m)
        BY <1>1, <1>7 DEF DataInv, DataTypeOK
      <3>2. \A d \in Kids(m) : d \in NonRoot /\ Sent(d) /\ d # n
        BY <1>1, <2>5, <3>1, NoLoop DEF EndedInv
      <3>3. vector'[m] = vector[m]
        BY <1>1, <2>2, <3>1 DEF DataTypeOK
      <3> QED BY <1>1, <1>3, <2>7, <3>1, <3>2, <3>3, EndedKept
    <2>11. \A c \in NonRoot : AnswerInv(c)'
      BY <2>6, <2>7
    <2>12. \A m \in ended : Kids(m) # {}
      BY DEF DataInv
    <2> QED BY <1>4, <2>1, <2>8, <2>9, <2>10, <2>11, <2>12 DEF DataInv
  <1> QED BY <1>6, <1>7

(* A step that sends and asks, but not of any data. *)
LEMMA OpeningData ==
  ASSUME OpeningInv, DataInv, topo' = topo, vsize' = vsize, polling' = polling, UNCHANGED data
  PROVE  DataInv'
  <1>1. topo \in Topologies
    BY DEF OpeningInv, OpeningTypeOK
  <1>2. \A n : Kids(n)' = Kids(n)
    BY TimesFrozen
  <1>3. \A c \in NonRoot : Sent(c)' <=> Sent(c)
    BY <1>2 DEF Sent, data
  <1> QED BY <1>1, <1>3, DataUntouched

(* A block that is read leaves its answer, and is in the chunk. *)
LEMMA ReadBlock ==
  ASSUME OpeningInv, DataInv, NEW c \in NonRoot, HandleResponseV(c)
  PROVE  LET n == topo.parent[c]
             rest == [answers EXCEPT ![c] = Tail(@)]
         IN  /\ topo \in Topologies /\ n \in Node \ ended /\ c \in Kids(n) /\ n # c /\ Sent(c)
             /\ topo' = topo /\ vsize' = vsize /\ polling' = polling
             /\ rest \in [NonRoot -> Seq(Block)]
             /\ Len(rest[c]) = Len(answers[c]) - 1 /\ Len(answers[c]) \in Nat
             /\ \A i \in 1..Len(rest[c]) : rest[c][i] = answers[c][i + 1]
             /\ \A d \in NonRoot : d # c => rest[d] = answers[d]
  <1> DEFINE s == answers[c]
             rest == [answers EXCEPT ![c] = Tail(@)]
  <1>1. topo \in Topologies /\ DataTypeOK
    BY DEF OpeningInv, OpeningTypeOK, DataInv
  <1>2. /\ s # <<>> /\ topo' = topo /\ vsize' = vsize /\ polling' = polling
    BY DEF HandleResponseV, opening
  <1>3. /\ topo.parent[c] \in Node \ ended /\ c \in Kids(topo.parent[c]) /\ Sent(c)
    BY <1>1, <1>2, ChunkSummed
  <1>4. topo.parent[c] # c
    BY <1>1, <1>3, NoLoop
  <1>5. s \in Seq(Block) /\ answers \in [NonRoot -> Seq(Block)]
    BY <1>1 DEF DataTypeOK
  <1>6. /\ Tail(s) \in Seq(Block) /\ Len(Tail(s)) = Len(s) - 1 /\ Len(s) \in Nat
        /\ \A i \in 1..Len(Tail(s)) : Tail(s)[i] = s[i + 1]
    <2> HIDE DEF s
    <2> QED BY <1>2, <1>5
  <1>7. rest[c] = Tail(s) /\ \A d \in NonRoot : d # c => rest[d] = answers[d]
    BY <1>5
  <1>8. rest \in [NonRoot -> Seq(Block)]
    BY <1>5, <1>6
  <1> HIDE DEF rest
  <1> QED BY <1>1, <1>2, <1>3, <1>4, <1>6, <1>7, <1>8 DEF rest

LEMMA TailAnswer ==
  ASSUME DataInv, topo' = topo, vsize' = vsize, NEW c \in NonRoot, Sent(c), Sent(c)',
         vector'[c] = vector[c], accepted'[c] = accepted[c],
         Len(answers[c]) \in Nat, answers[c] # <<>>,
         Len(answers'[c]) = Len(answers[c]) - 1,
         \A i \in 1..Len(answers'[c]) : answers'[c][i] = answers[c][i + 1]
  PROVE  AnswerInv(c)' /\ Taken(c)' = Taken(c) + 1
  <1>1. AnswerInv(c) /\ vsize \in Nat /\ BlocksOf(vsize) \in Nat /\ accepted[c] \in Nat
    BY SizesAreNat DEF DataInv, DataTypeOK
  <1>2. Taken(c)' = Taken(c) + 1 /\ Taken(c) \in Int
    BY <1>1 DEF Taken
  <1>3. ASSUME NEW i \in 1..Len(answers'[c])
        PROVE  Holds(answers'[c][i], Taken(c) + 1 + i, vector[c])
    <2>1. i + 1 \in 1..Len(answers[c]) /\ Taken(c) + (i + 1) = Taken(c) + 1 + i
      <3> DEFINE l == Len(answers[c])
                 t == Taken(c)
      <3>1. i \in Nat /\ 1 <= i /\ i <= l - 1 /\ l \in Nat /\ t \in Int
        BY <1>2
      <3> HIDE DEF l, t
      <3>2. i + 1 \in 1..l /\ t + (i + 1) = t + 1 + i
        BY <3>1
      <3> QED BY <3>2 DEF l, t
    <2>2. Holds(answers[c][i + 1], Taken(c) + (i + 1), vector[c])
      BY <1>1, <2>1 DEF AnswerInv
    <2> QED BY <2>1, <2>2
  <1>4. Len(vector[c]) = vsize /\ Taken(c) >= 0 /\ accepted[c] <= BlocksOf(vsize)
    BY <1>1 DEF AnswerInv
  <1> QED BY <1>2, <1>3, <1>4 DEF AnswerInv

(* A block that does not complete the vector. *)
LEMMA SumData ==
  ASSUME OpeningInv, DataInv, NEW c \in NonRoot, HandleResponseV(c),
         ~AvgEnd(topo.parent[c], SumChunk(topo.parent[c], Head(answers[c])))
  PROVE  DataInv'
  <1> DEFINE n == topo.parent[c]
             chunks == SumChunk(n, Head(answers[c]))
             rest == [answers EXCEPT ![c] = Tail(@)]
             got == [b \in 1..BlocksOf(vsize) |->
                       IF b = Taken(c) + 1 THEN Got(n, b) \cup {c} ELSE Got(n, b)]
  <1>1. /\ topo \in Topologies /\ n \in Node \ ended /\ c \in Kids(n) /\ n # c /\ Sent(c)
        /\ topo' = topo /\ vsize' = vsize /\ polling' = polling
        /\ rest \in [NonRoot -> Seq(Block)]
        /\ Len(rest[c]) = Len(answers[c]) - 1 /\ Len(answers[c]) \in Nat
        /\ \A i \in 1..Len(rest[c]) : rest[c][i] = answers[c][i + 1]
        /\ \A d \in NonRoot : d # c => rest[d] = answers[d]
    BY ReadBlock
  <1>2. /\ answers[c] # <<>> /\ chunk' = [chunk EXCEPT ![n] = chunks]
        /\ answers' = rest /\ vector' = vector /\ accepted' = accepted /\ ended' = ended
    BY DEF HandleResponseV
  <1>3. /\ Taken(c) \in Nat /\ chunks \in [1..BlocksOf(vsize) -> Chunk]
        /\ \A b \in 1..BlocksOf(vsize) :
             /\ got[b] \subseteq Kids(n)
             /\ chunks[b].count = Cardinality(got[b])
             /\ \A i \in 1..k : Offset(b) + i <= vsize =>
                  chunks[b].data[i] = Summed(vector, Kids(n), got[b], Offset(b) + i)
    BY <1>1, <1>2, ChunkSummed
  <1> HIDE DEF chunks, rest, n
  <1>4. Node' = Node /\ NonRoot' = NonRoot /\ \A m : Kids(m)' = Kids(m)
    BY <1>1, TimesFrozen
  <1>5. DataTypeOK
    BY DEF DataInv
  <1>6. chunk'[n] = chunks /\ \A m \in Node : m # n => chunk'[m] = chunk[m]
    BY <1>1, <1>2, <1>5 DEF DataTypeOK
  <1>7. DataTypeOK'
    <2>1. chunk' \in [Node -> [1..BlocksOf(vsize) -> Chunk]]
      BY <1>1, <1>2, <1>3, <1>5 DEF DataTypeOK
    <2> QED BY <1>1, <1>2, <1>4, <1>5, <2>1 DEF DataTypeOK
  <1>8. \A d : Sent(d)' <=> Sent(d)
    BY <1>1, <1>2, <1>4 DEF Sent
  <1>9. AnswerInv(c)' /\ Taken(c)' = Taken(c) + 1
    BY <1>1, <1>2, <1>8, TailAnswer
  <1>10. \A d \in NonRoot : d # c => AnswerInv(d)' /\ Taken(d)' = Taken(d)
    BY <1>1, <1>2, <1>8, AnswerKept
  <1>11. ASSUME NEW m \in Node, Kids(m) # {}, m \notin ended PROVE ChunkInv(m)'
    <2>1. CASE m = n
      <3>1. ASSUME NEW b \in 1..BlocksOf(vsize) PROVE Got(m, b)' = got[b]
        <4>1. \A d \in Kids(m) : (Sent(d)' /\ b <= Taken(d)') <=>
                                  (Sent(d) /\ b <= Taken(d)) \/ (d = c /\ b = Taken(c) + 1)
          <5> SUFFICES ASSUME NEW d \in Kids(m)
                       PROVE  (Sent(d)' /\ b <= Taken(d)') <=>
                                (Sent(d) /\ b <= Taken(d)) \/ (d = c /\ b = Taken(c) + 1)
            OBVIOUS
          <5>1. d \in NonRoot
            BY <1>1, <2>1, NoLoop
          <5>2. CASE d = c
            BY <1>1, <1>3, <1>8, <1>9, <5>2
          <5>3. CASE d # c
            BY <1>8, <1>10, <5>1, <5>3
          <5> QED BY <5>2, <5>3
        <4>2. Got(m, b)' = {d \in Kids(m) : Sent(d)' /\ b <= Taken(d)'}
          BY <1>1, <1>4 DEF Got
        <4>3. Got(m, b) = {d \in Kids(m) : Sent(d) /\ b <= Taken(d)}
          BY DEF Got
        <4>4. got[b] = IF b = Taken(c) + 1 THEN Got(m, b) \cup {c} ELSE Got(m, b)
          BY <2>1
        <4> HIDE DEF got
        <4> QED BY <1>1, <2>1, <4>1, <4>2, <4>3, <4>4
      <3> HIDE DEF got
      <3>2. ASSUME NEW b \in 1..BlocksOf(vsize)
            PROVE  /\ chunk'[m][b].count = Cardinality(got[b])
                   /\ \A i \in 1..k : Offset(b) + i <= vsize =>
                        chunk'[m][b].data[i] = Summed(vector, Kids(m), got[b], Offset(b) + i)
        BY <1>3, <1>6, <2>1
      <3>3. Kids(m)' = Kids(m) /\ vsize' = vsize /\ vector' = vector
        BY <1>1, <1>2, <1>4
      <3> QED BY <3>1, <3>2, <3>3 DEF ChunkInv
    <2>2. CASE m # n
      <3>1. c \notin Kids(m)
        BY <1>1, <2>2 DEF Kids, Children, n
      <3>2. \A b : Got(m, b)' = Got(m, b)
        BY <1>1, <1>4, <1>8, <1>10, <3>1, NoLoop DEF Got
      <3> QED BY <1>1, <1>2, <1>6, <1>11, <2>2, <3>2, ChunkKept
    <2> QED BY <2>1, <2>2
  <1>12. ASSUME NEW m \in ended PROVE EndedInv(m)'
    <2>1. m \in Node /\ m # n /\ EndedInv(m)
      BY <1>1, <1>5 DEF DataInv, DataTypeOK
    <2>2. \A d \in Kids(m) : d \in NonRoot /\ Sent(d) /\ d # c
      BY <1>1, <2>1, NoLoop DEF EndedInv, Kids, Children, n
    <2> QED BY <1>1, <1>2, <1>8, <2>1, <2>2, EndedKept
  <1>13. \A d \in NonRoot : AnswerInv(d)'
    BY <1>9, <1>10
  <1>14. \A m \in ended : Kids(m) # {}
    BY DEF DataInv
  <1> QED BY <1>2, <1>4, <1>7, <1>11, <1>12, <1>13, <1>14 DEF DataInv

(* The block that completes the vector. *)
LEMMA EndData ==
  ASSUME OpeningInv, DataInv, NEW c \in NonRoot, HandleResponseV(c),
         AvgEnd(topo.parent[c], SumChunk(topo.parent[c], Head(answers[c])))
  PROVE  DataInv'
  <1>0. PICK n : n = topo.parent[c]
    OBVIOUS
  <1> DEFINE chunks == SumChunk(n, Head(answers[c]))
             rest == [answers EXCEPT ![c] = Tail(@)]
             avg == WriteChunk2Vec(vsize, chunks)
             got == [b \in 1..BlocksOf(vsize) |->
                       IF b = Taken(c) + 1 THEN Got(n, b) \cup {c} ELSE Got(n, b)]
  <1>1. /\ topo \in Topologies /\ n \in Node \ ended /\ c \in Kids(n) /\ n # c /\ Sent(c)
        /\ topo' = topo /\ vsize' = vsize /\ polling' = polling
        /\ rest \in [NonRoot -> Seq(Block)]
        /\ Len(rest[c]) = Len(answers[c]) - 1 /\ Len(answers[c]) \in Nat
        /\ \A i \in 1..Len(rest[c]) : rest[c][i] = answers[c][i + 1]
        /\ \A d \in NonRoot : d # c => rest[d] = answers[d]
    BY <1>0, ReadBlock
  <1>2. /\ answers[c] # <<>> /\ vector' = [vector EXCEPT ![n] = avg]
        /\ chunk' = [chunk EXCEPT ![n] = [b \in DOMAIN chunk[n] |-> EmptyChunk]]
        /\ ended' = ended \cup {n}
        /\ \/ n = Root /\ answers' = rest /\ accepted' = accepted
           \/ n # Root /\ SendResponseVTo(n, avg, rest)
    BY <1>0 DEF HandleResponseV, ReportAverage
  <1>3. /\ Taken(c) \in Nat /\ Taken(c) + 1 \in 1..BlocksOf(vsize)
        /\ chunks \in [1..BlocksOf(vsize) -> Chunk]
        /\ \A b \in 1..BlocksOf(vsize) :
             /\ got[b] \subseteq Kids(n)
             /\ chunks[b].count = Cardinality(got[b])
             /\ \A i \in 1..k : Offset(b) + i <= vsize =>
                  chunks[b].data[i] = Summed(vector, Kids(n), got[b], Offset(b) + i)
    <2> DEFINE h == topo.parent[c]
               hchunks == SumChunk(h, Head(answers[c]))
               hgot == [b \in 1..BlocksOf(vsize) |->
                          IF b = Taken(c) + 1 THEN Got(h, b) \cup {c} ELSE Got(h, b)]
    <2>1. /\ Taken(c) \in Nat /\ Taken(c) + 1 \in 1..BlocksOf(vsize)
          /\ hchunks \in [1..BlocksOf(vsize) -> Chunk]
          /\ \A b \in 1..BlocksOf(vsize) :
               /\ hgot[b] \subseteq Kids(h)
               /\ hchunks[b].count = Cardinality(hgot[b])
               /\ \A i \in 1..k : Offset(b) + i <= vsize =>
                    hchunks[b].data[i] = Summed(vector, Kids(h), hgot[b], Offset(b) + i)
      BY <1>1, <1>2, ChunkSummed
    <2>2. h = n /\ hchunks = chunks /\ hgot = got
      BY <1>0
    <2> HIDE DEF h, hchunks, hgot, chunks, got
    <2> QED BY <2>1, <2>2
  <1>4. DataTypeOK /\ vsize \in Nat /\ BlocksOf(vsize) \in Nat /\ Range8(vsize) = BlocksOf(vsize)
    BY SizesAreNat DEF DataInv
  <1>5. \A b \in 1..BlocksOf(vsize) : got[b] = Kids(n)
    <2> SUFFICES ASSUME NEW b \in 1..BlocksOf(vsize) PROVE got[b] = Kids(n)
      OBVIOUS
    <2>1. chunks[b].count = Cardinality(Kids(n))
      BY <1>0, <1>4 DEF AvgEnd
    <2>2. got[b] \subseteq Kids(n) /\ Cardinality(got[b]) = Cardinality(Kids(n)) /\ IsFiniteSet(Kids(n))
      BY <1>1, <1>3, <2>1, NoLoop
    <2> DEFINE g == got[b]
    <2> HIDE DEF g
    <2>3. g \in SUBSET Kids(n) /\ Cardinality(Kids(n)) = Cardinality(g) /\ IsFiniteSet(Kids(n))
      BY <2>2 DEF g
    <2>4. g = Kids(n)
      BY <2>3, FS_Subset
    <2> QED BY <2>4 DEF g
  (* All of the answers to n have been read. *)
  <1>6. ASSUME NEW d \in Kids(n)
        PROVE  d \in NonRoot /\ Sent(d) /\ rest[d] = <<>>
    <2> DEFINE last == BlocksOf(vsize)
    <2>1. d \in NonRoot /\ last \in 1..last
      BY <1>1, <1>3, <1>4, NoLoop
    <2>2. d \in got[last]
      BY <1>5, <2>1
    <2>3. CASE d # c
      <3>1. Sent(d) /\ last <= Taken(d)
        BY <2>1, <2>2, <2>3 DEF Got
      <3>2. answers[d] \in Seq(Block) /\ accepted[d] \in Nat /\ accepted[d] <= last
        BY <1>4, <2>1, <3>1 DEF DataTypeOK, DataInv, AnswerInv
      <3>3. Len(answers[d]) <= 0 /\ Len(answers[d]) \in Nat
        BY <1>4, <3>1, <3>2 DEF Taken
      <3> QED BY <1>1, <2>1, <2>3, <3>1, <3>2, <3>3
    <2>4. CASE d = c
      <3>0. accepted[c] \in Nat /\ accepted[c] <= last /\ Len(answers[c]) >= 1
        <4>1. Len(rest[c]) \in Nat
          BY <1>1, <2>1, <2>4
        <4> QED BY <1>1, <1>4, <2>1, <2>4, <4>1 DEF DataTypeOK, DataInv, AnswerInv
      <3>1. c \notin Got(n, last)
        BY <1>1, <1>4, <3>0 DEF Got, Taken
      <3>2. last = Taken(c) + 1
        BY <2>1, <2>2, <2>4, <3>1
      <3>3. Len(answers[c]) = 1
        BY <1>1, <1>4, <3>0, <3>2 DEF Taken
      <3>4. rest[c] \in Seq(Block) /\ Len(rest[c]) = 0
        BY <1>1, <3>3
      <3>5. rest[c] = <<>>
        <4> DEFINE s == rest[c]
        <4>1. s \in Seq(Block) /\ Len(s) = 0
          BY <3>4
        <4> HIDE DEF s
        <4>2. s = <<>>
          BY <4>1
        <4> QED BY <4>2 DEF s
      <3> QED BY <1>1, <2>1, <2>4, <3>5
    <2> QED BY <2>3, <2>4
  <1>7. avg \in [1..vsize -> Number] /\ avg \in Seq(Number) /\ Len(avg) = vsize
    <2>1. ASSUME NEW j \in 1..vsize
          PROVE  chunks[(j - 1) \div k + 1].data[((j - 1) % k) + 1] \in Number
      <3> DEFINE b == (j - 1) \div k + 1
                 i == ((j - 1) % k) + 1
      <3>1. b \in 1..BlocksOf(vsize) /\ i \in 1..k
        BY <1>4, Position
      <3> HIDE DEF b, i, chunks
      <3>2. chunks[b].data[i] \in Number
        BY <1>3, <3>1 DEF Chunk
      <3> QED BY <3>2 DEF b, i
    <2> HIDE DEF chunks
    <2>2. avg \in [1..vsize -> Number]
      BY <2>1 DEF WriteChunk2Vec
    <2> HIDE DEF avg
    <2> QED BY <1>4, <2>2
  <1>8. ASSUME NEW j \in 1..vsize
        PROVE  avg[j] = Summed(vector, Kids(n), Kids(n), j)
    <2> DEFINE b == (j - 1) \div k + 1
               i == ((j - 1) % k) + 1
    <2>1. b \in 1..BlocksOf(vsize) /\ i \in 1..k /\ Offset(b) + i = j
      BY <1>4, Position
    <2>2. avg[j] = chunks[b].data[i]
      BY DEF WriteChunk2Vec
    <2>3. j <= vsize
      BY <1>4
    <2> HIDE DEF b, i, chunks, avg, got
    <2>4. chunks[b].data[i] = Summed(vector, Kids(n), got[b], Offset(b) + i)
      BY <1>3, <2>1, <2>3
    <2> QED BY <1>5, <2>1, <2>2, <2>4
  <1> HIDE DEF chunks, rest, avg, got
  <1>9. Node' = Node /\ NonRoot' = NonRoot /\ \A m : Kids(m)' = Kids(m)
    BY <1>1, TimesFrozen
  <1>10. ASSUME NEW m \in Node
         PROVE  /\ m = n => vector'[m] = avg /\ m \in ended'
                /\ m # n => /\ vector'[m] = vector[m] /\ chunk'[m] = chunk[m]
                            /\ m \in ended' <=> m \in ended
    BY <1>1, <1>2, <1>4 DEF DataTypeOK
  <1>11. ASSUME NEW d \in NonRoot, d # n
         PROVE  /\ answers'[d] = rest[d] /\ accepted'[d] = accepted[d]
                /\ (Sent(d)' <=> Sent(d)) /\ vector'[d] = vector[d]
    <2>1. d \in Node
      BY DEF Node, Nodes, NonRoot
    <2>2. Sent(d)' <=> Sent(d)
      BY <1>1, <1>9, <1>10, <1>11, <2>1 DEF Sent
    <2>3. answers'[d] = rest[d] /\ accepted'[d] = accepted[d]
      BY <1>1, <1>2, <1>4, <1>11 DEF SendResponseVTo, DataTypeOK
    <2> QED BY <1>10, <1>11, <2>1, <2>2, <2>3
  <1>12. n \in NonRoot => /\ ~Sent(n) /\ Sent(n)' /\ AnswerInv(n)' /\ Taken(n)' = 0
                          /\ answers'[n] \in Seq(Block)
    <2> SUFFICES ASSUME n \in NonRoot
                 PROVE  /\ ~Sent(n) /\ Sent(n)' /\ AnswerInv(n)' /\ Taken(n)' = 0
                        /\ answers'[n] \in Seq(Block)
      OBVIOUS
    <2>1. n # Root /\ ~Sent(n)
      BY <1>1, Shape DEF Sent
    <2>2. PICK beyond \in Garbage, blocks \in MayAccept(n) :
            /\ answers' = [rest EXCEPT ![n] = Blocks(avg, beyond, blocks)]
            /\ accepted' = [accepted EXCEPT ![n] = blocks]
      BY <1>2, <2>1 DEF SendResponseVTo
    <2>3. /\ answers'[n] = Blocks(avg, beyond, blocks) /\ accepted'[n] = blocks
          /\ vector'[n] = avg
      BY <1>1, <1>4, <1>10, <2>2 DEF DataTypeOK
    <2>4. Sent(n)'
      BY <1>1, <1>9, <1>10 DEF Sent
    <2> QED BY <1>1, <1>7, <2>1, <2>3, <2>4, AnswerStarts
  <1>13. AnswerInv(c)' /\ Sent(c)'
    <2>1. /\ answers'[c] = rest[c] /\ accepted'[c] = accepted[c]
          /\ Sent(c)' /\ vector'[c] = vector[c]
      BY <1>1, <1>11
    <2> QED BY <1>1, <1>2, <2>1, TailAnswer
  <1>14. ASSUME NEW d \in NonRoot, d # c, d # n
         PROVE  AnswerInv(d)' /\ Taken(d)' = Taken(d)
    BY <1>1, <1>11, <1>14, AnswerKept
  <1>15. \A d \in NonRoot : AnswerInv(d)'
    BY <1>12, <1>13, <1>14
  <1>16. DataTypeOK'
    <2>1. vector' \in [Node -> Seq(Number)]
      BY <1>1, <1>2, <1>4, <1>7 DEF DataTypeOK
    <2>2. chunk' \in [Node -> [1..BlocksOf(vsize) -> Chunk]]
      <3>1. EmptyChunk \in Chunk
        BY NumbersAre DEF EmptyChunk, Chunk
      <3>2. DOMAIN chunk[n] = 1..BlocksOf(vsize)
        BY <1>1, <1>4 DEF DataTypeOK
      <3>3. [b \in DOMAIN chunk[n] |-> EmptyChunk] \in [1..BlocksOf(vsize) -> Chunk]
        BY <3>1, <3>2
      <3> QED BY <1>1, <1>2, <1>4, <3>3 DEF DataTypeOK
    <2>3. answers' \in [NonRoot -> Seq(Block)]
      <3>1. CASE n = Root
        BY <1>1, <1>2, <3>1
      <3>2. CASE n # Root
        <4>1. n \in NonRoot
          BY <1>1, <3>2 DEF Node, Nodes, NonRoot
        <4>2. \A d \in NonRoot : answers'[d] \in Seq(Block)
          BY <1>1, <1>11, <1>12, <4>1
        <4>3. PICK beyond \in Garbage, blocks \in MayAccept(n) :
                answers' = [rest EXCEPT ![n] = Blocks(avg, beyond, blocks)]
          BY <1>2, <3>2 DEF SendResponseVTo
        <4> QED BY <1>1, <4>1, <4>2, <4>3
      <3> QED BY <3>1, <3>2
    <2>4. accepted' \in [NonRoot -> Nat]
      <3>1. \A blocks \in MayAccept(n) : blocks \in Nat
        BY <1>4 DEF MayAccept
      <3> QED BY <1>2, <1>4, <3>1 DEF SendResponseVTo, DataTypeOK
    <2> QED BY <1>1, <1>2, <1>4, <1>9, <2>1, <2>2, <2>3, <2>4 DEF DataTypeOK
  <1>17. EndedInv(n)'
    <2>1. \A d \in Kids(n) : d \in NonRoot /\ d # n /\ Sent(d) /\ Sent(d)'
                             /\ answers'[d] = <<>> /\ vector'[d] = vector[d]
      BY <1>1, <1>6, <1>11, NoLoop
    <2>2. ASSUME NEW j \in 1..vsize
          PROVE  vector'[n][j] = Summed(vector', Kids(n), Kids(n), j)
      <3>1. Summed(vector', Kids(n), Kids(n), j) = Summed(vector, Kids(n), Kids(n), j)
        BY <1>1, <2>1, SummedKept
      <3> QED BY <1>1, <1>8, <1>10, <3>1
    <2> QED BY <1>1, <1>9, <2>1, <2>2 DEF EndedInv
  <1>18. ASSUME NEW m \in Node, m # n, m \in ended
         PROVE  EndedInv(m)'
    <2>1. EndedInv(m)
      BY <1>18 DEF DataInv
    <2>2. \A d \in Kids(m) : d \in NonRoot /\ d # n /\ d # c /\ Sent(d)
      <3>1. c \notin Kids(m)
        BY <1>0, <1>18 DEF Kids, Children
      <3>2. n \in NonRoot => ~Sent(n)
        BY <1>12
      <3> QED BY <1>1, <2>1, <3>1, <3>2, NoLoop DEF EndedInv
    <2>3. \A d \in Kids(m) : Sent(d)' /\ answers'[d] = answers[d] /\ vector'[d] = vector[d]
      BY <1>1, <1>11, <2>2
    <2> QED BY <1>1, <1>10, <1>18, <2>3, EndedKept
  <1>19. ASSUME NEW m \in Node, m # n, m \notin ended, Kids(m) # {}
         PROVE  ChunkInv(m)'
    <2>1. c \notin Kids(m) /\ Kids(m) \subseteq NonRoot
      BY <1>0, <1>1, <1>19, NoLoop DEF Kids, Children
    <2>2. ASSUME NEW b \in 1..BlocksOf(vsize) PROVE Got(m, b)' = Got(m, b)
      <3>1. ASSUME NEW d \in Kids(m)
            PROVE  (Sent(d)' /\ b <= Taken(d)') <=> (Sent(d) /\ b <= Taken(d))
        <4>1. CASE d = n
          BY <1>12, <2>1, <4>1
        <4>2. CASE d # n
          BY <1>11, <1>14, <2>1, <4>2
        <4> QED BY <4>1, <4>2
      <3> QED BY <1>9, <3>1 DEF Got
    <2>3. \A d \in Kids(m) : Sent(d) => vector'[d] = vector[d]
      BY <1>11, <1>12, <2>1
    <2> QED BY <1>1, <1>10, <1>19, <2>2, <2>3, ChunkKept
  <1>20. \A m \in ended' : Kids(m) # {}
    <2>1. \A m \in ended : Kids(m) # {}
      BY DEF DataInv
    <2> QED BY <1>1, <1>2, <2>1
  <1>21. \A m \in Node : Kids(m) # {} => IF m \in ended' THEN EndedInv(m)' ELSE ChunkInv(m)'
    BY <1>10, <1>17, <1>18, <1>19
  <1> QED BY <1>9, <1>15, <1>16, <1>20, <1>21 DEF DataInv

LEMMA NextData == OpeningInv /\ DataInv /\ [Next]_vars => DataInv'
  <1> SUFFICES ASSUME OpeningInv, DataInv, [Next]_vars PROVE DataInv'
    OBVIOUS
  <1>1. CASE \E n \in Node : FirstPoll(n)
    BY <1>1, PollData
  <1>2. CASE \E c \in NonRoot : HandleResponseV(c)
    BY <1>2, SumData, EndData
  <1>3. CASE Tick \/ AVG \/ SimulatorStop \/ UNCHANGED vars
    <2>1. topo' = topo /\ vsize' = vsize /\ polling' = polling /\ UNCHANGED data
      BY <1>3 DEF Tick, AVG, SimulatorStop, vars, opening
    <2> QED BY <2>1, OpeningData
  <1>4. CASE \E n \in Node : StartApplication(n)
    <2>1. topo' = topo /\ vsize' = vsize /\ polling' = polling /\ UNCHANGED data
      BY <1>4 DEF StartApplication
    <2> QED BY <2>1, OpeningData
  <1>5. CASE \E c \in NonRoot : SessionReady(c) \/ RequestArrives(c)
    <2>1. topo' = topo /\ vsize' = vsize /\ polling' = polling /\ UNCHANGED data
      BY <1>5 DEF SessionReady, RequestArrives
    <2> QED BY <2>1, OpeningData
  <1> QED BY <1>1, <1>2, <1>3, <1>4, <1>5 DEF Next

(* What every chunk, answer and vector holds, at every time, if the        *)
(* vectors have fewer than 256 blocks: Range8, the number of blocks of     *)
(* AvgEnd and WriteChunk2Vec, is a uint8_t.                                *)
THEOREM DataInvariant == Spec => [](BlocksOf(vsize) < 256 => DataInv)
  <1>1. Init => (BlocksOf(vsize) < 256 => DataInv)
    BY InitData
  <1>2. OpeningInv /\ (BlocksOf(vsize) < 256 => DataInv) /\ [Next]_vars
          => (BlocksOf(vsize) < 256 => DataInv)'
    <2> SUFFICES ASSUME OpeningInv, BlocksOf(vsize) < 256 => DataInv, [Next]_vars,
                        BlocksOf(vsize') < 256
                 PROVE  DataInv'
      OBVIOUS
    <2>1. BlocksOf(vsize) < 256
      BY SizeKept
    <2> QED BY <2>1, NextData
  <1> QED BY <1>1, <1>2, OpeningInvariant, PTL DEF Spec

(* The average that a process keeps and sends up is the exact average of   *)
(* its children's vectors, for vectors of fewer than 256 blocks.           *)
THEOREM AveragesAreExact == Spec => [](BlocksOf(vsize) < 256 => AverageExact)
  <1>1. OpeningInv /\ DataInv => AverageExact
    <2> SUFFICES ASSUME OpeningInv, DataInv, NEW n \in ended, NEW j \in 1..vsize,
                        Total(n, j) < Width
                 PROVE  vector[n][j] = Total(n, j) \div Cardinality(Kids(n))
      BY DEF AverageExact
    <2>1. topo \in Topologies /\ n \in Node /\ Kids(n) # {}
      BY DEF OpeningInv, OpeningTypeOK, DataInv, DataTypeOK
    <2>2. EndedInv(n)
      BY <2>1 DEF DataInv
    <2>3. IsFiniteSet(Kids(n)) /\ \A d \in Kids(n) : vector[d][j] \in Nat
      BY <2>1, <2>2, NoLoop, VectorFacts DEF EndedInv
    <2>4. Total(n, j) \in Nat
      BY <2>3, SumFacts DEF Total
    <2>5. Total(n, j) % Width = Total(n, j)
      BY <2>4, NumbersAre, NotNarrowed
    <2>6. vector[n][j] = (Total(n, j) % Width) \div Cardinality(Kids(n))
      BY <2>2 DEF EndedInv, Summed, Total
    <2> QED BY <2>5, <2>6
  <1> QED BY <1>1, OpeningInvariant, DataInvariant, PTL
=============================================================================
