----------------------------- MODULE Experiment -----------------------------
(***************************************************************************)
(* The experiment of scratch/in-quic-topo.cc from its set-up to the result *)
(* of the first iteration.  The applications start at fixed times; each    *)
(* opens a QUIC connection to every child; the consumer asks for a vector  *)
(* after its base time; every process polls its buffers from a fixed time  *)
(* on.  Nothing but the clock orders these steps, and a process that polls *)
(* a connection without a channel follows a pointer that is null or was    *)
(* never set (GetBuffer).  A process that has performed its iterations     *)
(* stops the simulator, and an aggregator, which is set up for none, does  *)
(* so with its first average.                                              *)
(*                                                                         *)
(* A connection is named by the child: client[c] is its end at the parent, *)
(* server[c] its end at c.  Time is in units of some milliseconds.         *)
(***************************************************************************)
EXTENDS Sessions, Vectors, FiniteSetsExt

CONSTANTS
  Root,       (* the consumer                                              *)
  Topologies, (* set-ups: direct (topotype 0) or not, and the parents      *)
  Second,     (* 1000 ms                                                   *)
  Half,       (* the 500 ms of a first poll                                *)
  Starttime,  (* starttime                                                 *)
  Basetime,   (* basetime                                                  *)
  Modulus,    (* a producer's base time is a uint16_t: 65536 ms            *)
  Handshake,  (* bound: a connection is ready after that time              *)
  Latency,    (* bound: a request arrives after that time                  *)
  Itr,        (* maxIteration of the consumer                              *)
  Unready,    (* processes whose stream may refuse a block of an answer    *)
  Sizes,      (* vector sizes asked for                                    *)
  Random,     (* the vectors rand() may yield: Random[size]                *)
  Garbage     (* what may be found behind a vector                         *)

Nodes(t) == {Root} \cup DOMAIN t.parent
Children(t, n) == {c \in DOMAIN t.parent : t.parent[c] = n}

(* Trees of aggregators below the consumer and producers below those. *)
ASSUME TopologyAssumption ==
  \A t \in Topologies :
    /\ t = [direct |-> t.direct, parent |-> t.parent]
    /\ t.direct \in BOOLEAN
    /\ t.parent \in [DOMAIN t.parent -> Nodes(t)]
    /\ Root \notin DOMAIN t.parent
    /\ \A c \in DOMAIN t.parent : t.parent[c] # Root => t.parent[t.parent[c]] = Root
    /\ t.direct => \A c \in DOMAIN t.parent : t.parent[c] = Root
    /\ IsFiniteSet(DOMAIN t.parent)

(* What the constants of the set-up leave for the network. *)
ASSUME TimingAssumption ==
  /\ Second \in Nat /\ Half \in Nat /\ Starttime \in Nat /\ Basetime \in Nat
  /\ Modulus \in Nat /\ Handshake \in Nat /\ Latency \in Nat
  /\ Handshake < Basetime
  /\ Second + Latency < Basetime + Half
  /\ 2 * Second + Latency < 5 * Basetime + Half
  /\ Second + Latency < 4 * Basetime
  /\ 6 * Basetime < Modulus

(* A consumer asks once at least. *)
ASSUME IterationAssumption == Itr \in Nat \ {0}

ASSUME SizeAssumption == Sizes \subseteq {size \in Nat : size < SizeWidth}

(* Whatever is in a vector, or behind it, is read as a number. *)
ASSUME NumberAssumption ==
  /\ \A size \in Sizes : Random[Expand(size)] \subseteq [1..Expand(size) -> Number]
  /\ Garbage \subseteq Number

VARIABLES
  now,         (* the time                                                 *)
  topo,        (* the topology                                             *)
  vsize,       (* the size of the vectors                                  *)
  started,     (* processes whose application runs                         *)
  called,      (* the consumer's first AVG has run                         *)
  client,      (* client[c]: the session with c, at its parent             *)
  server,      (* server[c]: the session with its parent, at c             *)
  readyBy,     (* readyBy[c]: when client[c] is ready at the latest        *)
  request,     (* request[c]: what became of the REQUESTV to c             *)
  arrivesBy,   (* arrivesBy[c]: when it has arrived at the latest          *)
  polling,     (* processes that poll                                      *)
  fault,       (* a poll followed a bad pointer: the simulation crashed    *)
  vector,      (* vector[n]: the vector of a producer, avg of the others   *)
  chunk,       (* chunk[n][b]: chunkMap[Offset(b)] of n                    *)
  answers,     (* answers[c]: blocks on their way to the parent of c       *)
  accepted,    (* accepted[c]: blocks of its answer the stream of c took   *)
  ended,       (* processes with curIter = 1                               *)
  overrun,     (* processes that touched memory outside a vector           *)
  stopping,    (* Simulator::Stop has been called                          *)
  running      (* the simulator has not stopped                            *)

opening == <<topo, vsize, started, called, client, server, readyBy, request,
             arrivesBy, polling, fault>>
data == <<vector, chunk, answers, accepted, ended, overrun>>
simulator == <<stopping, running>>
vars == <<now, opening, data, simulator>>

Node == Nodes(topo)
NonRoot == DOMAIN topo.parent
Kids(n) == Children(topo, n)

(* SetStartTime of Createpro, Createagg, Createcon and CreateDirectTopo. *)
StartTime(n) ==
  Starttime + (IF n = Root THEN (IF topo.direct THEN Second ELSE 2 * Second)
               ELSE IF Kids(n) # {} THEN Second ELSE 0)

(* A producer's base time, in the parameter of SetupProducer. *)
ProducerBase == ((IF topo.direct THEN 2 ELSE 6) * Basetime) % Modulus

(* How long after its start a process polls first; a consumer just after   *)
(* its first AVG.                                                          *)
ConsumerPoll   == Basetime + 1
AggregatorPoll == 2 * Basetime + Half
ProducerPoll   == ProducerBase + Half

(* Mutant: a process without children polls like an aggregator. *)
PollTimeEarly(n) == StartTime(n) + (IF n = Root THEN ConsumerPoll ELSE AggregatorPoll)

(* The first ReceiveDataFromAll. *)
PollTime(n) ==
  StartTime(n) + (IF n = Root THEN ConsumerPoll
                  ELSE IF Kids(n) # {} THEN AggregatorPoll
                  ELSE ProducerPoll)

(* Mutant: the consumer asks as soon as it runs. *)
AskTimeAtOnce == StartTime(Root)

AskTime == StartTime(Root) + Basetime

Init ==
  /\ now = 0
  /\ topo \in Topologies
  /\ \E size \in Sizes : vsize = Expand(size)
  /\ started = {} /\ called = FALSE
  /\ client = [c \in NonRoot |-> NoSession]
  /\ server = [c \in NonRoot |-> NoSession]
  /\ readyBy = [c \in NonRoot |-> 0]
  /\ request = [c \in NonRoot |-> "none"]
  /\ arrivesBy = [c \in NonRoot |-> 0]
  /\ polling = {} /\ fault = FALSE
  /\ vector = [n \in Node |-> <<>>]
  /\ chunk = [n \in Node |-> [b \in 1..Range8(vsize) |-> EmptyChunk]]
  /\ answers = [c \in NonRoot |-> <<>>]
  /\ accepted = [c \in NonRoot |-> 0]
  /\ ended = {} /\ overrun = {}
  /\ stopping = FALSE /\ running = TRUE

-----------------------------------------------------------------------------
(* The opening. *)

(* The constructor of MyQuicServer starts it: from then on it answers. *)
StartServer(n) == started' = started \cup {n}
Listening(c) == c \in started

(* The clients of n begin their handshakes. *)
InitialAndConnect(n) ==
  /\ client' = [c \in NonRoot |-> IF c \in Kids(n) THEN NewClientSession ELSE client[c]]
  /\ readyBy' = [c \in NonRoot |-> IF c \in Kids(n) THEN now + Handshake ELSE readyBy[c]]

(* CreateSocketPool: a server for the parent, a client for each child. *)
CreateSocketPool(n) == StartServer(n) /\ InitialAndConnect(n)

StartApplication(n) ==
  /\ running /\ ~fault /\ n \notin started /\ now = StartTime(n)
  /\ CreateSocketPool(n)
  /\ UNCHANGED <<now, topo, vsize, called, server, request, arrivesBy, polling, fault,
                 data, simulator>>

(* The handshake of a connection is over: OnSessionReady of its client. *)
SessionReady(c) ==
  /\ running /\ ~fault /\ Listening(c)
  /\ client[c].endpoint = "alive" /\ client[c].channel = NoStream
  /\ client' = [client EXCEPT ![c] = OnSessionReady("my", @)]
  /\ UNCHANGED <<now, topo, vsize, started, called, server, readyBy, request, arrivesBy,
                 polling, fault, data, simulator>>

(* Send has nothing to send on before the connection is ready. *)
SendRequestVTo(c) == IF HasChannel(client[c]) THEN "flying" ELSE "lost"

(* What n asks of its children; read is the process that read its own      *)
(* request in this step.                                                   *)
SendRequestVToAll(n, read) ==
  /\ request' = [c \in NonRoot |-> IF c \in Kids(n) THEN SendRequestVTo(c)
                                   ELSE IF c \in read THEN "read" ELSE request[c]]
  /\ arrivesBy' = [c \in NonRoot |-> IF c \in Kids(n) THEN now + Latency ELSE arrivesBy[c]]

(* The first AVG of the consumer. *)
AVG ==
  /\ running /\ ~fault /\ Root \in started /\ ~called /\ now = AskTime
  /\ called' = TRUE
  /\ SendRequestVToAll(Root, {})
  /\ UNCHANGED <<now, topo, vsize, started, client, server, readyBy, polling, fault,
                 data, simulator>>

(* A request arrives: the first data of its stream, which has the server's *)
(* session create its end.                                                 *)
RequestArrives(c) ==
  /\ running /\ ~fault /\ request[c] = "flying" /\ Listening(c)
  /\ request' = [request EXCEPT ![c] = "arrived"]
  /\ server' = [server EXCEPT ![c] = CreateIncomingStream(@, 1)]
  /\ UNCHANGED <<now, topo, vsize, started, called, client, readyBy, arrivesBy, polling,
                 fault, data, simulator>>

(* GetBuffer finds a buffer: at the parent's end of a connection, at the   *)
(* child's, and for every connection in the socket pool of n.              *)
ClientBuffer(c) == HasChannel(client[c])
ServerBuffer(c) == HasChannel(server[c])
ChannelsUp(n) == (n # Root => ServerBuffer(n)) /\ \A c \in Kids(n) : ClientBuffer(c)

(* SendResponseVTo, of a vector of n; sent is what of answers is still on  *)
(* its way.  The result of Send is never looked at: when the stream takes  *)
(* no more data it does so for the rest of the handler, and a prefix of    *)
(* the blocks gets through.                                                *)
MayAccept(n) == IF n \in Unready THEN 0..BlocksOf(vsize) ELSE {BlocksOf(vsize)}
SendResponseVTo(n, vec, sent) ==
  \E beyond \in Garbage, blocks \in MayAccept(n) :
    /\ answers' = [sent EXCEPT ![n] = Blocks(vec, beyond, blocks)]
    /\ accepted' = [accepted EXCEPT ![n] = blocks]

GenetrateRandomVector(size) == Random[size]

(* HandleRequestV, in the first poll because nothing else reads a request: *)
(* it goes down the tree; a producer answers at once.                      *)
HandleRequestV(n) ==
  /\ SendRequestVToAll(n, {n})
  /\ IF Kids(n) = {}
       THEN /\ \E vec \in GenetrateRandomVector(vsize) :
                 /\ vector' = [vector EXCEPT ![n] = vec]
                 /\ SendResponseVTo(n, vec, answers)
            /\ overrun' = IF ReadsBeyond(vsize) THEN overrun \cup {n} ELSE overrun
       ELSE UNCHANGED <<vector, answers, accepted, overrun>>
  /\ UNCHANGED <<chunk, ended>>

(* ReceiveDataFromAll for the first time. *)
FirstPoll(n) ==
  /\ running /\ ~fault /\ n \in started /\ n \notin polling /\ now = PollTime(n)
  /\ IF ~ChannelsUp(n)
       THEN fault' = TRUE /\ UNCHANGED <<polling, request, arrivesBy, data>>
       ELSE /\ polling' = polling \cup {n}
            /\ fault' = fault
            /\ IF n # Root /\ request[n] = "arrived"
                 THEN HandleRequestV(n)
                 ELSE UNCHANGED <<request, arrivesBy, data>>
  /\ UNCHANGED <<now, topo, vsize, started, called, client, server, readyBy, simulator>>

(* Time passes no event of the scheduler, and no bound of the network. *)
Due ==
  \/ \E n \in Node : \/ n \notin started /\ now >= StartTime(n)
                     \/ n \notin polling /\ now >= PollTime(n)
  \/ ~called /\ now >= AskTime
  \/ \E c \in NonRoot : \/ /\ client[c].endpoint = "alive"
                           /\ client[c].channel = NoStream
                           /\ now >= readyBy[c]
                        \/ request[c] = "flying" /\ now >= arrivesBy[c]

Tick ==
  /\ running /\ ~fault /\ ~Due /\ polling # Node
  /\ now' = now + 1
  /\ UNCHANGED <<opening, data, simulator>>

-----------------------------------------------------------------------------
(* The first iteration on its way up. *)

(* The chunks of n when block m was summed; a full chunk is averaged. *)
SumChunk(n, m) ==
  [chunk[n] EXCEPT ![m.offset \div k + 1] =
     LET sum == SumVector(@.data, PraseVector(m.values))
     IN  [count |-> @.count + 1,
          data |-> IF @.count + 1 = Cardinality(Kids(n))
                   THEN AvgVector(sum, @.count + 1) ELSE sum]]

AvgEnd(n, chunks) ==
  \A b \in 1..Range8(vsize) : chunks[b].count = Cardinality(Kids(n))

(* Only the consumer is set up with an iteration count: the others get 0. *)
MaxIteration(n) == IF n = Root THEN Itr ELSE 0

(* AVG after the first iteration: write the result, answer the parent,     *)
(* clear, and stop the simulator if there is no iteration left.            *)
ReportAverage(n, chunks, rest) ==
  LET avg == WriteChunk2Vec(vsize, chunks)
  IN  /\ vector' = [vector EXCEPT ![n] = avg]
      /\ chunk' = [chunk EXCEPT ![n] = [b \in DOMAIN @ |-> EmptyChunk]]
      /\ ended' = ended \cup {n}
      /\ overrun' = IF WritesBeyond(vsize) \/ (n # Root /\ ReadsBeyond(vsize))
                    THEN overrun \cup {n} ELSE overrun
      /\ IF n = Root THEN answers' = rest /\ accepted' = accepted
                     ELSE SendResponseVTo(n, avg, rest)
      /\ stopping' = (stopping \/ 1 >= MaxIteration(n))

(* The parent of c reads a block from c. *)
HandleResponseV(c) ==
  LET n == topo.parent[c]
      chunks == SumChunk(n, Head(answers[c]))
      rest == [answers EXCEPT ![c] = Tail(@)]
  IN  /\ running /\ ~fault /\ n \in polling /\ answers[c] # <<>>
      /\ IF AvgEnd(n, chunks)
           THEN ReportAverage(n, chunks, rest)
           ELSE /\ chunk' = [chunk EXCEPT ![n] = chunks]
                /\ answers' = rest
                /\ UNCHANGED <<vector, accepted, ended, overrun, stopping>>
      /\ UNCHANGED <<now, opening, running>>

(* The event of Simulator::Stop, which is due some time after the call:    *)
(* AVG passes a time where a delay is asked for.                           *)
SimulatorStop ==
  /\ running /\ stopping
  /\ running' = FALSE
  /\ UNCHANGED <<now, opening, data, stopping>>

Next ==
  \/ Tick \/ AVG \/ SimulatorStop
  \/ \E n \in Node : StartApplication(n) \/ FirstPoll(n)
  \/ \E c \in NonRoot : SessionReady(c) \/ RequestArrives(c) \/ HandleResponseV(c)

(* The simulator runs its events as long as there are any, the polls that  *)
(* read an answer among them.                                              *)
Spec == Init /\ [][Next]_vars /\ WF_vars(Next)

-----------------------------------------------------------------------------
(* No process ever polls a connection that has no channel, at either end   *)
(* of a connection: what the start times, base times and delays of         *)
(* in-quic-topo.cc are there for (GetBuffer of the endpoints does not look *)
(* at channel_, and MyServerBackend::endpoint_ is not even set).           *)
PollsFindChannels == ~fault

(* Every process is asked before it looks: no request is sent into a       *)
(* connection that is not ready, and none is still missing when its reader *)
(* polls for the first time (MyClientEndpoint::Send drops silently).       *)
NoRequestLost ==
  /\ \A c \in NonRoot : request[c] # "lost"
  /\ \A n \in polling \ {Root} : request[n] = "read"

(* The average a process keeps and sends is the average of the vectors of  *)
(* its children, number by number, if their sum fits the type; in whatever *)
(* order the blocks come, and although a partial block is padded with what *)
(* lies behind the vector (CreatResponseV, SumVector, AvgVector,           *)
(* WriteChunk2Vec).                                                        *)
SumAt(vecs, set, j) == MapThenSumSet(LAMBDA c : vecs[c][j], set)
Total(n, j) == SumAt(vector, Kids(n), j)
AverageExact ==
  \A n \in ended : \A j \in 1..vsize :
    Total(n, j) < Width => vector[n][j] = Total(n, j) \div Cardinality(Kids(n))

(* Memory outside a vector is touched only when the vector is shorter than *)
(* one block: main rounds every other size up, to one that is shorter      *)
(* still if it wraps.                                                      *)
WholeBlocksStayInside == overrun # {} => vsize < k

(* c has a vector and has answered its parent with it. *)
Sent(c) == IF Kids(c) = {} THEN c \in polling ELSE c \in ended

(* The first iteration ends with the consumer's result, in whatever order  *)
(* the blocks come: nothing but a refused block can be missing, and where  *)
(* there is no aggregator nothing stops the simulator before.  (With one,  *)
(* AVG calls Simulator::Stop at the aggregator's first average, and the    *)
(* simulator may stop with steps left to do.)                              *)
Refused == \E c \in NonRoot : Sent(c) /\ accepted[c] < BlocksOf(vsize)
StoppedEarly ==
  /\ ~running /\ ~topo.direct
  /\ polling # Node \/ \E c \in NonRoot : answers[c] # <<>>
FirstIterationEnds == <>(Root \in ended \/ Refused \/ StoppedEarly)
-----------------------------------------------------------------------------
(* The inductive invariant of the opening: where each clock-driven step    *)
(* and each connection stands at every time.                               *)

OpeningTypeOK ==
  /\ now \in Nat
  /\ topo \in Topologies
  /\ started \in SUBSET Node /\ polling \in SUBSET Node
  /\ called \in BOOLEAN /\ fault \in BOOLEAN
  /\ client \in [NonRoot -> Session] /\ server \in [NonRoot -> Session]
  /\ request \in [NonRoot -> {"none", "flying", "arrived", "read", "lost"}]
  /\ readyBy \in [NonRoot -> Nat] /\ arrivesBy \in [NonRoot -> Nat]

ClockInv ==
  /\ \A n \in Node : /\ n \in started => now >= StartTime(n)
                     /\ n \notin started => now <= StartTime(n)
                     /\ n \in polling => now >= PollTime(n)
                     /\ n \notin polling => now <= PollTime(n)
  /\ called => now >= AskTime
  /\ ~called => now <= AskTime

(* n has sent its requests, and when that is. *)
Asked(n) == IF n = Root THEN called ELSE n \in polling
SendTime(n) == IF n = Root THEN AskTime ELSE PollTime(n)

ConnectionInv(c) ==
  LET n == topo.parent[c]
  IN  /\ n \in started => client[c].endpoint = "alive"
      /\ n \in started /\ client[c].channel = NoStream => now <= StartTime(n) + Handshake
      /\ n \in started => readyBy[c] = StartTime(n) + Handshake

RequestInv(c) ==
  LET n == topo.parent[c]
  IN  /\ ~Asked(n) => request[c] = "none"
      /\ Asked(n) => request[c] \in {"flying", "arrived", "read"}
      /\ request[c] = "flying" => /\ arrivesBy[c] = SendTime(n) + Latency
                                  /\ now <= arrivesBy[c]
      /\ request[c] \in {"arrived", "read"} => server[c].channel # NoStream
      /\ c \in polling => request[c] = "read"
      /\ request[c] = "read" => c \in polling

OpeningInv ==
  /\ OpeningTypeOK
  /\ ~fault
  /\ ClockInv
  /\ \A c \in NonRoot : ConnectionInv(c) /\ RequestInv(c)

(* The size of the vectors and what it means for the memory around them. *)
Whole(size) == \E q \in Nat : size = q * k
SizeInv ==
  /\ vsize \in Nat
  /\ vsize < k \/ Whole(vsize)
  /\ overrun # {} => vsize < k
-----------------------------------------------------------------------------
(* The inductive invariant of the first iteration's data: how far each     *)
(* answer has come, and what its parent has made of it.                    *)

Block == [offset : Nat, values : Seq(Number)]

DataTypeOK ==
  /\ vsize \in {Expand(size) : size \in Sizes} /\ BlocksOf(vsize) < 256
  /\ vector \in [Node -> Seq(Number)]
  /\ chunk \in [Node -> [1..BlocksOf(vsize) -> Chunk]]
  /\ answers \in [NonRoot -> Seq(Block)]
  /\ accepted \in [NonRoot -> Nat]
  /\ ended \in SUBSET Node

(* The last block that the parent of c has read. *)
Taken(c) == accepted[c] - Len(answers[c])

(* A block holds the numbers of its vector, whatever is behind them. *)
Holds(block, b, vec) ==
  /\ block.offset = Offset(b)
  /\ \A i \in 1..k :
       Offset(b) + i <= Len(vec) => PraseVector(block.values)[i] = vec[Offset(b) + i]

(* The blocks that are left of an answer. *)
AnswerInv(c) ==
  /\ ~Sent(c) => answers[c] = <<>>
  /\ Sent(c) => /\ Len(vector[c]) = vsize
                /\ Taken(c) >= 0 /\ accepted[c] <= BlocksOf(vsize)
                /\ \A i \in 1..Len(answers[c]) : Holds(answers[c][i], Taken(c) + i, vector[c])

(* The children whose block b is in the chunk of n, and what such a chunk  *)
(* holds of the numbers j in their vectors.                                *)
Got(n, b) == {c \in Kids(n) : Sent(c) /\ b <= Taken(c)}

Summed(vecs, kids, got, j) ==
  LET sum == SumAt(vecs, got, j) % Width
  IN  IF got = kids THEN sum \div Cardinality(kids) ELSE sum

ChunkInv(n) ==
  \A b \in 1..BlocksOf(vsize) :
    /\ chunk[n][b].count = Cardinality(Got(n, b))
    /\ \A i \in 1..k : Offset(b) + i <= vsize =>
         chunk[n][b].data[i] = Summed(vector, Kids(n), Got(n, b), Offset(b) + i)

EndedInv(n) ==
  /\ \A c \in Kids(n) : Sent(c) /\ answers[c] = <<>>
  /\ \A j \in 1..vsize : vector[n][j] = Summed(vector, Kids(n), Kids(n), j)

DataInv ==
  /\ DataTypeOK
  /\ \A c \in NonRoot : AnswerInv(c)
  /\ \A n \in Node : Kids(n) # {} => IF n \in ended THEN EndedInv(n) ELSE ChunkInv(n)
  /\ \A n \in ended : Kids(n) # {}
=============================================================================
