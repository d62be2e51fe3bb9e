# Verification of the in-network aggregation system

This directory holds TLA+ specifications of the program in `src/`: a simulation of distributed
averaging over QUIC, in which a *consumer* asks for a vector, *producers* answer with random
vectors, and *aggregators* between them average what comes from below and pass it up. The
specifications are written from the code. TLC checks them on small instances, and TLAPS proves the
properties that matter most for every value of the constants.

## 1. The system

| Part | Code | State it keeps | Operations | Talks to |
|---|---|---|---|---|
| Aggregation protocol | `innetwork-train/model/simple-MPI`, `consumer`, `aggregator`, `producer` | `asEnd`, `curIter`, `vsize`, `chunkMap`, `avg`, the poll event | start, poll, `HandleRequestV`, `HandleResponseV`, `AVG`, stop | its parent's and children's processes, through one stream each |
| Stream channel | `quic/model/ns3-quic-channel`, `circularbuffer`, `ns3-transport-stream` | the ring, its positions and size | `OnCanRead`, `Send`, the framing loop of `ReceiveDataFrom` | the sequencer of the QUIC stream below, the protocol's poll above |
| Alarm engine | `quic/model/ns3-quic-alarm-engine` | `alarm_map_`, `all_alarms_`, `timer_`, per alarm `registered_` and the token | set, cancel, update, `OnTimeout`, shutdown | the ns-3 scheduler, QUIC's connections by callbacks |
| Vectors and codec | `innetwork-train/utils` | none | sum, divide, (de)serialize | called by the protocol |
| Experiment set-up | `scratch/in-quic-topo` | none after start | builds the tree, assigns ranks, ports, start times | creates all processes |
| Endpoints and sessions | `quic/model/ns3-quic-backend`, `-myserver`, `-myclient`, `-*-session` | `endpoint_`, `channel_`, `session_` | session ready/destroyed, incoming stream, channel destroyed | quiche's sessions below, the sockets of the protocol above |
| Congestion control | `quic/model/cc-algo/vegas_sender`, `copa_sender` | window, slow-start state, RTT filters | on sent, on acked, on lost | quiche's sent-packet manager |
| Hello demo | `scratch/quic-main`, `quic/model/ns3-quic-client-app`, `-server-app` | `m_running`, `m_impl`, `m_seq` | start, `SendHello`, stop, send and receive datagrams | sessions, traces |
| Traces and tags | `quic/model/ns3-quic-trace`, `-tag` | sequence numbers, byte counts, rate times | `OnOwd`, `Shutdown`, tag (de)serialize | the demo's servers and clients |
| Glue, CDG, commented-out applications | the rest of `quic/model`, `innetwork-train/model/my*-app` | little | | |

Everything runs in one thread: an *event* of the ns-3 scheduler runs to completion before the next.
What interleaves are events: packets that arrive, polls (every process polls its streams every
30 ms), timers. Nothing is persisted and processes do not restart, so the hard behaviours are these:

* **Order.** Blocks of a vector arrive from several children in any order and over several polls;
  the counters of the chunks decide when a round is over. A request resets only part of the state.
* **Loss.** QUIC is reliable, but `SimpleMPI` ignores the result of `Send`. A link that has no
  stream yet, or whose stream is blocked, drops messages silently, and nothing retries.
* **Splitting.** The transport splits and merges messages; the ring and the framing loop must
  restore them, within a ring of 10240 bytes filled at most 8192 bytes at a time.
* **Timers.** One scheduler event stands for all alarms, and callbacks of alarms set, move and
  cancel other alarms, due ones included.
* **Termination.** Every process may stop the simulation.
* **Time.** Handshake, first request and first poll of a connection are ordered by nothing but the
  constants in `in-quic-topo.cc`; a poll that comes first follows an invalid pointer.
* **Ownership.** Sessions, endpoints, streams and channels point at each other with raw pointers, and
  what is destroyed first depends on the network and on when an application is stopped.
* **Forgetting.** The RTT filters of the congestion controllers drop samples; assertions relate what
  they kept to minima kept elsewhere.

What makes each part correct: *protocol* - a result is the average of all producers' vectors of
exactly one round, and without loss every round completes; *channel* - the messages that were sent
come out, whole, in order, once; *alarms* - an alarm fires at its deadline unless cancelled;
*codec* - decoding inverts encoding for every vector size; *set-up* - ranks and ports identify
processes; *endpoints* - what is called back is still there; *demo* - everything is released in the end; *traces* - every lost
datagram and every received byte is counted once; *congestion control* - the window keeps its minimum,
nothing underflows, a flight is punished once.

## 2. Modules

| Module | Models | Used by |
|---|---|---|
| `AggService` | abstract: what the tree promises its consumer | `SimpleMPI` (refinement) |
| `SimpleMPI` | the protocol, for any tree | `MCSimpleMPI` (TLC), `SimpleMPI_proofs` (TLAPS) |
| `MyChannel` | one direction of a stream, from the sequencer to the handlers | `MCMyChannel`, `MyChannel_proofs` |
| `AlarmClock` | abstract: an ideal alarm clock | `AlarmEngine` (refinement) |
| `AlarmEngine` | the alarms of QUIC on the ns-3 scheduler | `MCAlarmEngine`, `AlarmEngine_proofs` |
| `Vectors` | numbers, blocks, sums, averages, size arithmetic (operators only) | `Experiment` |
| `Sessions` | session, endpoint, streams and channels of one end of a connection (operators only) | `Experiment`, `HelloDemo` |
| `PacketTrace` | packet tags and the server's trace (operators only) | `HelloDemo`, `PacketTrace_proofs` |
| `Experiment` | the aggregation experiment from its start to the first result | `MCExperiment`, `Experiment_proofs` |
| `HelloDemo` | the demo of `quic-main.cc`, with loss, closing and stopping | `MCHelloDemo`, `HelloDemo_proofs` |
| `RttFilter` | the windowed minimum of quiche (external, operators only) | `SendAlgorithm` |
| `SendAlgorithm` | what the senders share, and QUIC around them | `VegasSender`, `CopaSender` |
| `VegasSender`, `CopaSender` | the two congestion controllers | `Congestion` |
| `Congestion` | a connection with one of the two | `MCCongestion`, `Congestion_proofs` |
| `Induction` | no code: lemmas on induction and recursion over natural numbers | `Experiment_proofs`, `PacketTrace_proofs` |

`SimpleMPI` abstracts the streams to FIFO queues of whole messages that may drop what is sent.
`MyChannel` justifies the queues: it delivers what was sent, in order (`FramesIntact`,
`BatchDelivered`), for the batches that the lock-step of `SimpleMPI` allows (`LockStep`,
`RequestFindsIdle`: at most one vector is on its way on a stream). Timers below QUIC are
`AlarmEngine`'s. `Experiment` justifies the initial state of `SimpleMPI`: when a process starts to poll, its
connections have channels and its request is there; and it replaces the provenance of a block by its
numbers. `Sessions` is shared by `Experiment` and `HelloDemo`, which take a session through its creation
and through its end. `Congestion` stands alone: a window decides when a packet leaves, and the other
modules leave that open.

### SimpleMPI

A process `n` is one `SimpleMPI` object; `Parent` and `Children` are `pGroup` and `cGroup`. The
variables have the names of the fields; `down[c]` and `up[c]` are the requests and responses on the
stream between `c` and its parent; `polling[n]` says that `ReceiveDataFromAll` is in the scheduler;
`round` is a history variable.

| Action | Code |
|---|---|
| `StartApplication` | `Consumer::StartApplication`: `AVG` for the first time, then the first poll |
| `HandleRequestV(c)` | `c` reads a REQUESTV: takes over `vsize`, clears `avg`, passes the request on, a producer answers |
| `HandleResponseV(c)` | the parent of `c` reads one block: sums it, and if it was the last one runs `AvgEnd` and `AVG` (store, answer the parent, clear the chunks, stop or ask again) - all in one step, as in the code |
| `RepeatPoll(n)` | the end of a poll: `ReceiveDataFromAll` schedules itself if `asEnd` is false |
| `SimulatorStop` | the event of `Simulator::Stop` |

A vector is a sequence of blocks, and a block is its *provenance*: the set of pairs (producer,
round) averaged in it. This keeps apart everything the properties speak of - a contribution that
is missing, foreign, or of another round; `CountIsContributions` says separately that nothing is
summed twice - and abstracts from the numbers. A poll is the sequence of the handlers it
dispatches; the handlers of two processes interleave, which is more than the scheduler does.
`Accepted` and the `refused` sets are the ways in which sends fail: a request is dropped or not; of
a vector a prefix of the blocks gets through.

The state before the first request is modelled as well: `vsize` is not initialized in the code and
holds an arbitrary value (`StaleVSize`).

### MyChannel

A byte is represented by its offset in the stream, so that loss, duplication and reordering show.
`Arrive(n, called)` is an arrival of `n` bytes in order - one frame, or the one that fills a gap -
with the call of `OnCanRead` if there is one; the transport has to call only when nothing was
readable before. `Write`, `Peek`, `ReadPos`, `SizeRead` and `HeadUint16` are the operations of
`CircularBuffer`, cell by cell. `ReceiveData` is one turn of the loop in `ReceiveDataFrom`. A failed
`NS_ASSERT` sets `aborted`, after which nothing happens. All messages of one direction have the same
length (15 bytes, or 14 + 8k), because `main` rounds the vector up to whole blocks; a sender sends
the next batch after the last one was read, because of the lock-step.

### AlarmEngine

`alarmMap`, `allAlarms`, `registered` and `timer` are the fields; `deadline` is the field of
quiche's `QuicAlarm`. `Set`, `Cancel` and `Update` are the calls of quiche (with `SetImpl`,
`CancelImpl`, `UpdateImpl` plugged in), possible in any event and in every callback of an alarm.
`OnTimeout` is split where it calls out: taking out the entries that are due, each callback
(`OnAlarm`), and the end (`TimeoutDone`). `timer_.IsRunning ()` is false while its own event runs.
Time passes (`Tick`) when no event is left at the instant. A failed assertion and the use of an
erased iterator set `fault`, after which nothing happens.

### Experiment

A connection goes by the child's name: `client[c]` is the session at the parent (the child is the
QUIC server), `server[c]` the one at `c`. `StartTime`, `PollTime` and `AskTime` are computed as in
`Createpro`, `Createagg`, `Createcon`, `CreateDirectTopo` and the `StartApplication`s; `Due` and `Tick`
are the scheduler, and the bounds of the network (`readyBy`, `arrivesBy`) keep time from passing a
handshake or a request.

| Action | Code |
|---|---|
| `StartApplication(n)` | `StartApplication` of the three applications: `CreateSocketPool` with one server and a client for each child |
| `SessionReady(c)` | `OnSessionReady` of the client, after the handshake: stream and channel |
| `AVG` | the consumer's first `AVG`: `SendRequestVToAll` |
| `RequestArrives(c)` | first data of the stream: `CreateIncomingStream` makes endpoint and channel at the child |
| `FirstPoll(n)` | the first `ReceiveDataFromAll`: through every `GetBuffer`, and `HandleRequestV` if a request is there. Without a channel somewhere it crashes (`fault`) |
| `HandleResponseV(c)` | the parent reads a block; after the last one `AVG` writes the result, answers its own parent, and calls `Simulator::Stop` if it has performed its iterations |
| `SimulatorStop` | the event of `Simulator::Stop`; nothing happens after it |

`MaxIteration` is `Itr` at the consumer and 0 at an aggregator, as `CreateAggTree` hands it over
(in-quic-topo.cc:188-191), so every aggregator calls `Simulator::Stop` with its first average: finding 1 is about
that, and `Experiment` takes it in. `SendResponseVTo` ignores the result of `Send` as the code does: a process in
`Unready` may have a stream that takes no more data (`CanWrite`, ns3-transport-stream.cc:81), and then only a prefix of
its blocks gets through; `accepted[c]` is its length. Requests are not refused: each is the first
message on a fresh stream, of 15 bytes. The requests of a second iteration, which the consumer sends in the same `AVG`
if `Itr` is more than 1, are not part of `Experiment`; iterations after the first are `SimpleMPI`'s.

Numbers are taken modulo `Width`, sizes modulo `SizeWidth`, the producers' base time modulo
`Modulus`, as their C++ types do. `Garbage` is what may lie behind a vector. `overrun` records a process
that read or wrote there.

### Sessions and HelloDemo

`Sessions` describes one end of a connection as a record: the endpoint's fate, the streams that
exist, `channel_`, the channels whose `notifier_` is set, and `wild`: a channel has called an endpoint
that was deleted. Its operators are the callbacks of the code, in the order of the destructors.

`HelloDemo` has one session record per client and side. Applications (`StartClient`, `SendHello`,
`StopClient`, `StartServer`, `StopServer`) are scheduler events at fixed times; `Send`, `Drop` and
`RecvPacket` move tagged datagrams; `Ready`, `EchoArrives`, `ClientStreamDone`, `ServerStreamDone`,
`OnConnectionClosed`, `ServerIdle` and `DeleteSession` are what quiche does when it wants. A session reports
itself ready once or twice (`ready`), because both `SetDefaultEncryptionLevel` and
`OnTlsHandshakeComplete` of `Ns3QuicClientSession` do it. `StopServer` closes the traces of *all* clients: the
servers of the dumbbell share one dispatcher of traces (ns3-quic-server-app.cc:129), and the first that
stops shuts it down.

What a client has in flight when it is stopped is still processed: `Process` does not ask whether the client
is there. A late handshake makes a session, and a late hello an endpoint and a stream, whose echo nobody
reads. Only a session that was deleted is not made again (quiche keeps the identifiers of closed connections, and
drops what comes for them), nor a stream that exists or was finished.

`PacketTrace` models the tag as the bytes it is - seven bits each, nothing for zero - because the loss
count depends on decoding the sequence number in front of the time.

### Congestion

The variables are the fields of the classes. `OnCongestionEvent` of the code is a loop over the
lost packets and then, for Vegas, over the acknowledged ones: `OnCongestionEvent`, `ProcessLost` and
`ProcessAcked` are its first lines, one turn each, and its last lines; nothing else is enabled in
between. `Report` says what quiche may report: losses only below something acknowledged, round-trip times
only with a new largest packet, late acknowledgements of packets declared lost. Floating-point
factors are replaced by exact fractions (`latencyFactor_` is 1/2). `fault` is a failed `QUICHE_CHECK` ("check") or an
exception of `addAndCheckOverflow` ("throw"). `sinceCutback` and `baseRose` are history variables.

## 3. What TLC checks

| Run | Instance | Shows |
|---|---|---|
| `deep_lossy` | con - {agg1 - {agg2 - {p3}, p2}, p1}; 3 blocks, 3 iterations, every link may drop | safety under loss: no result misses a producer or mixes rounds (`ResultIsComplete`, `SumsOneRound`), counters count distinct children (`CountIsContributions`), processes stay in lock-step, and the inductive invariant `IInv` of the proofs |
| `tree_reliable` | con - {agg1 - {p1, p2}, agg2 - {p3, p4}}; 2 blocks, 2 iterations, no loss | liveness: every request is answered unless the simulator stops (`EveryRoundCompletes`); refinement of `AggService`; requests find idle processes; polls never end |
| `direct_reliable` | con - {p1, p2, p3}; 2 blocks, 3 iterations | `topotype` 0 is right: all iterations are performed, and only then the simulator stops |
| `tree_stops` | the tree, 1 block | **violated** - finding 1 |
| `ring_delivers` | ring of 14, reads of 12, messages of 6, two per batch, 84 bytes in all | the ring and the framing loop restore the messages |
| `ring_overflows` | three messages per batch | **violated** - finding 2 |
| `ring_stalls` | ring of 20, reads of 12, three messages per batch | **violated** - finding 3 |
| `alarms` | 3 alarms, 4 instants, 4 calls per instant | the timer covers the earliest alarm, the records of an alarm agree, the ideal clock is implemented, every alarm fires or is cancelled - up to the faults; and the inductive invariant `IInv` of the proofs |
| `stale_alarm` | 3 alarms | **violated** - finding 4 |
| `experiment` | three producers in three topologies; blocks of 3, sizes 2, 3, 5 and 7, numbers modulo 8; base time 1 s in units of 250 ms | no poll before its channel (`PollsFindChannels`), no request too early or too late (`NoRequestLost`), the average is exact when its sum fits (`AverageExact`), memory is overrun only by vectors shorter than a block (`WholeBlocksStayInside`), and the first iteration ends unless a block is refused or, with an aggregator, the simulator stops early (`FirstIterationEnds`) |
| `hello` | one client with either backend and one with `MYBACKEND`, two servers, four instants, one loss | deleted endpoints are called only in sessions with twin streams (`OnlyTwinStreamsDangle`), losses and bytes are counted right (`LossCountRight`, `GoodputComplete`), nothing stays behind (`EverythingReleased`); clients are stopped after any part of handshake and hello, with datagrams in flight |
| `congestion` | Vegas with 5 packets, Copa with 6; three and two round-trip times; 7 instants, a filter window of 4 | the window keeps its floor, a flight cuts back once, Vegas' mode follows recovery, the assertions of both (`VegasCheckHolds`, `CopaChecksHold`), a velocity never acts against its direction |

**Bounds, and why they are enough.** In `SimpleMPI`, two blocks make order between blocks matter,
three let a lost block lie between received ones; three iterations let the one before and the one
after interfere with the one in between; three levels let a request overtake nothing but reach a
grandchild late. The proofs remove these bounds for safety. In `MyChannel` the sizes keep the
relations of the real ones (message < read < ring < 2 reads, a common divisor of message and ring that
is larger than 1, a ring that is no multiple of the message): 84 bytes go around the ring six
times, past every alignment of a message to its end. In `AlarmEngine` two alarms are needed for the
interaction in a batch and a third to be neither first nor last; four calls at an instant allow
set, set, fire, move, cancel in one batch. In `Experiment` the sizes are one partial block, one block,
one that is rounded up to two blocks and one that wraps: 7 becomes 9, which is 1 (`SizeWidth` is 8); numbers modulo 8
make some sums of three vectors wrap and others not; the time unit of 250 ms is half the smallest
constant of the set-up, and the handshake takes up to three units where `TimingAssumption` asks for less than four. `Itr` is 1, so that the consumer stops
the simulator too, and every process may be refused blocks (`Unready`). In
`HelloDemo` two streams are the most a session opens, and three datagrams of one client - handshake,
hello, close - with one loss among them give every piece the chance to be the one that is
lost, resent or late; the second client shows the shared traces and the second stop. In `Congestion`
five packets are two flights with a loss in each; a run of 7 instants outlives the filter's window of 4,
which is what makes the filters forget; Copa needs a sixth packet to double its velocity and then turn.
The proofs remove these bounds for all safety properties; `NeverAborts`, `StopOnlyWhenDone` and
`AverageExact` hold under the conditions that their theorems state. The invariants `DataInv` and `FlowInv`
of the proofs hold in all states of the runs `experiment` and `hello`; they are not among the runs' invariants,
as each implies properties that are.

**Fairness.** `SimpleMPI`: weak fairness of the handlers, as every process polls every 30 ms and a
poll drains the sockets, and of the consumer's start. None for the stop of the simulator beyond
that, as `EveryRoundCompletes` allows it. `MyChannel`: weak fairness of arrivals (QUIC retransmits
until everything is there) and of the poll; *not* of a call of `OnCanRead` for bytes the transport
has already announced. `AlarmEngine`: weak fairness of `OnTimeout` and its parts and of time, as the
scheduler runs every event; `MaxCalls` per instant expresses that quiche does not call for ever
at one instant. `Experiment`: weak fairness of `Next`, as the simulator runs events while there are
any; a fault, the last result or the event of `Simulator::Stop` ends it. That event may come at any time after the
call, or as the last of all; so `FirstIterationEnds` allows that a simulation with an aggregator stops with steps left to do
(`StoppedEarly`) and claims the result everywhere else: always with `topotype` 0, and in a tree if the stop
comes late enough. What it rules out is an iteration that hangs with every block sent and nothing stopped.
`HelloDemo`: weak fairness of what is in the scheduler
(`Scheduled`: time, starts, `SendHello`, stops) and of nothing else: `EverythingReleased` holds even if
the network delivers nothing any more. `Congestion` states none. Safety and proofs use no fairness.

Deadlock is not checked: each system may stop - after the last iteration, when a lost message stops
a round, when the bound on bytes or time is reached, after a fault.

## 4. Findings

1. **Aggregators stop the simulation** (`tree_stops`, simpleMPI.cc:330). `AVG` calls
   `Simulator::Stop` in every process whose `curIter` reaches its own `maxIteration`, but
   `CreateAggTree` gives aggregators 0. The first aggregation in the tree stops the simulation,
   although `itr` is the number of iterations "consumer performed". (The delay given to
   `Simulator::Stop` is relative, and the code passes the current time plus a second: the later
   the first aggregation, the longer the simulation continues, so that some experiments still end
   as expected. The model lets the event come at any time.) `Experiment` has the same stop, and
   `FirstIterationEnds` the exception it makes necessary.
2. **The ring overflows** (`ring_overflows`, circularbuffer.cc:43). Vectors of 13 and more blocks
   that arrive between two polls fail the assertion in `CircularBuffer::write`.
3. **A tail is never read** (`ring_stalls`, ns3-quic-channel.cc:201). `OnCanRead` reads at most 8192
   bytes per notification; when more become readable at once (a retransmitted frame fills a gap in
   front of a vector of 11 or 12 blocks), nobody reads the rest.
4. **Erased iterators** (`stale_alarm`, ns3-quic-alarm-engine.cc:117). `OnTimeout` erases the entries
   of all due alarms before it calls them, and they still count as registered: a callback that
   cancels another due alarm erases its iterator again.

Two further assertions of the engine can fail: `ReregisterAlarm` asserts that *another* alarm is in
the map (line 75), and does not raise a past deadline to the present (line 99 then fails).
Whether quiche ever does either is not visible in this repository, so they are modelled as faults and
listed as hazards, without a run.

Behaviours of the code that the other runs include, and that a maintainer should know of:

* The assertion `min_rtt_ >= base_rtt` (vegas_sender.cc:186) can fail. Once a connection is older than the
  ten seconds of the filter, the filter may replace its minimum by a larger sample while `min_rtt_`
  still holds the smaller one. `VegasCheckHolds` says that this is the only way; the run `congestion` reaches it.
* A hello session that reports ready twice opens two streams, and the channel that the endpoint has
  forgotten calls it after its deletion (`OnlyTwinStreamsDangle` is about nothing else being able to).
* A sum of three or more producers' numbers can wrap modulo 2^64 (they have 63 bits), and the average is then
  wrong; `AverageExact` is conditional on it.
* Vectors shorter than a block (k numbers) are read and written past their end (utils.cc:68, simpleMPI.cc:397); with
  blocks of 100 a size above 65500 is rounded to 64, which is one of them.
* A datagram received at the very instant of the last goodput line is never logged; `m_receiptTime`, on which the
  lines depend, is set only while the one-way delay file is open.

## 5. What TLAPS proves

Every safety invariant and action property of the passing runs is stated by a theorem. The proofs use no
fairness and no bound: they hold for every tree, number of blocks, number of iterations, for every set of
alarms, for all vectors, and for every number of datagrams and losses.

### 5.1 The protocol (`SimpleMPI_proofs`)

Assumed: `TreeAssumption` (parents and children form the links, every set of processes has one without
a child in the set - so all paths end -, and a process has at most 255 children) and `SizeAssumption` (1 to 255
blocks). TLC evaluates both for the trees of the runs.

| Theorem | Says |
|---|---|
| `BelowEquations` | the producers below a process are those below its children, and those below siblings are apart |
| `TypeCorrect` | `TypeOK` |
| `Invariance` | `IInv`, the inductive invariant |
| `ResultCorrect`, `CountCorrect`, `RoundsNotMixed` | `ResultIsComplete`, `CountIsContributions`, `SumsOneRound`: parts of `IInv` |
| `Synchronous` | `LockStep` |
| `RequestsFindIdle` | `RequestFindsIdle` |
| `PollsForever` | `PollNeverDies` |
| `DirectStopsWhenDone` | `StopOnlyWhenDone`, if every process is a child of the consumer (finding 1 is about the others) |
| `Implementation` | `Spec => Service!Spec`: the tree refines `AggService` |

`Below` is what a vector's provenance is measured against. It is defined as the childless processes in the
smallest set that holds a process and the children of its members, so that its equations are proved and not
assumed: nothing in that set but its top lacks a parent in it (`SubtreeParent`), and a process below its own child
would give a set in which everybody has a child (`NoCycle`), which is why siblings have nothing in common.

None of the other theorems is inductive alone: that a sum mixes no rounds depends on what may be on its way on
a link, which depends on how far child and parent are apart. `IInv` describes each link between a
child `c` and its parent. `RequestInv(c)`: they are in the same round, or `c` is one behind; a request
is on its way only in the second case; and while `c` is behind or busy with its own children, it has
nothing on its way upwards and nothing summed at its parent. `ResponseInv(c)`: what is in `up[c]` are
blocks of the parent's current round, each index once, none of them summed yet. `ProcessInv(n)`: a
process with no open round has all its chunks clear, one with an open round is exactly one round
ahead of its count of results, and every process but one that was never asked knows the true
`vsize`. From this, the block that completes
a round finds every other block complete, which gives `ResultIsComplete`; and a request finds its
receiver with clear chunks and silent children, so that not clearing them (a hazard) is harmless.
The proof has one lemma per action (`InvStart`, `InvHandleRequestV`, `InvResponsePartial`,
`InvResponseComplete`, `InvQuiet`), with frame lemmas for the links and processes a step leaves
alone.

### 5.2 The alarms (`AlarmEngine_proofs`)

Assumed: `BoundAssumption` (the horizon and the bound on calls are natural numbers of any size).

| Theorem | Says |
|---|---|
| `TypeCorrect` | `TypeOK` |
| `Invariance` | `IInv`, the inductive invariant |
| `NoLostWakeUp`, `RecordsAgree` | `TimerCovers`, `SameView` |
| `ClockImplemented` | `Spec => Clock!Spec`: the engine refines `AlarmClock` |

`TimerCovers` needs that nothing in the map is overdue when a new entry is compared with the timer,
and the refinement needs that an entry that is not due now is at its alarm's deadline
(`RegisterAlarm` raises past deadlines to the present) and that what `OnTimeout` took out is due and
has not rung: `EngineInv` adds these. `UpdateTimerCovers` and `UpdateIfEarlierCovers` are about the
part that `RegisterAlarm`, `ReregisterAlarm` and `OnTimeout` share. All of it holds *up to a fault*
(`Sound`): the theorems do not say that no fault happens, and finding 4 shows that one does.

### 5.3 The experiment (`Experiment_proofs`)

Assumed: `TopologyAssumption` (a tree of depth two at most, direct or not), `TimingAssumption`,
`VectorAssumption`, `SizeAssumption` and `NumberAssumption` (a random vector has numbers, as many as the
size of the experiment says, and what is behind a vector are numbers too). `TimingAssumption` is what the set-up has to satisfy, found by
proving: the handshake is shorter than `basetime`; with b the base time, one second and the latency of a
request are less than b + 500 ms (a producer of
the direct set-up, an aggregator), two seconds and the latency less than 5 b + 500 ms (tree: a
producer below the consumer), one second and the latency less than 4 b (a producer below an aggregator); and
6 b fits a `uint16_t`. The defaults (b = 1 s) satisfy all of it, with half a second to spare.

| Theorem | Says |
|---|---|
| `OpeningInvariant` | `OpeningInv`, the inductive invariant of the opening |
| `PollsAreSafe` | `PollsFindChannels` |
| `RequestsAreInTime` | `NoRequestLost` |
| `BlocksStayInside` | `WholeBlocksStayInside` |
| `DataInvariant` | `DataInv`, the inductive invariant of the vectors |
| `AveragesAreExact` | `AverageExact`, if the vectors have fewer than 256 blocks |

That a poll finds its channels is not inductive: the channel must be there *by* the time of the poll.
`OpeningInv` ties each flag to the clock (`ClockInv`: started before its start time? then the clock has not
passed it), each unfinished handshake to the time its connection began (`ConnectionInv`), and each request
on its way to the time it was sent (`RequestInv`); `ReadyInTime` and `ArrivesInTime` then turn the
inequalities of `TimingAssumption` into the order of the steps, by cases on the topology. `BlocksStayInside`
needs that the vector's size is either less than `k` or a multiple of it, also when the
rounding wraps once (`WrapsOnce`).

That an average is exact says nothing of the blocks before the last; `DataInv` does. The blocks of an answer are
read in order, so how many are left tells which were summed: `Got(n, b)` are the children whose block `b` was
taken. A chunk's counter is their number, and its data are their sum modulo the numbers' width - divided if they
are all children (`ChunkInv`). What is left of an answer are the blocks of the sender's vector, in order
(`AnswerInv`); a partial last block carries whatever is in memory behind the vector, and `Holds` asks nothing of it. So
when `AvgEnd` finds every counter full, every child has sent and was read to its end, and the vector made of the
chunks is the one `EndedInv` describes; `ChunkKept` and `EndedKept` show that later steps do not disturb any of it.
Two things make it arithmetic rather than
bookkeeping. The model sums with `MapThenSumSet`, which takes the elements of a set in an order of its own:
`AnyOrder` shows that the order does not matter, by induction on the size of the set, and `SumFacts` that a
further child adds its number. And the code narrows every partial sum, the property the total:
`SumNarrowed` is why that is the same. The condition on the number of blocks is the `uint8_t` in which `AvgEnd` and
`WriteChunk2Vec` count them; with more the theorem would be false.

### 5.4 Sessions and the demo (`HelloDemo_proofs`)

Assumed: `DemoAssumption` (times in order) and `TraceAssumption` (the tag's base is above one).

| Theorem | Says |
|---|---|
| `DemoInvariant` | `ConnInv`, `FlowInv` and `InFlightInv` together: the inductive invariant |
| `ConnectionInvariant` | `ConnInv`, the part about the connections |
| `NothingElseDangles` | `OnlyTwinStreamsDangle` |
| `FlowInvariant` | `FlowInv`, the part about the datagrams |
| `LossesAreCounted`, `GoodputIsComplete` | `LossCountRight`, `GoodputComplete` |
| `TagReadBack` (`PacketTrace_proofs`) | decoding a tag gives the number and the time it was made of |

`SessionOk` says that in a session with one stream at most a channel has a notifier only while the
endpoint is alive and points to it; the lemmas `OnSessionReadyOk`, `CreateIncomingStreamOk`, `StreamDestroyedOk` and
`SessionDtorOk` show that each operation of `Sessions` keeps it. `ClientInv` bounds the streams of a "my"
client: while it can still report ready, it has its channel. `ServerInv` bounds the server by what the
client opened. Since a hello may arrive long after its client was stopped, that takes `InFlightInv`: what is on a
link, too, names only streams that were opened. `OpenedGrows` shows that no step takes an opening back, `LinkSteps`
how a link changes.

A trace counts a loss where the numbers skip, so its column is right only if what is still on the link is newer than
all that was measured, in rising order, and if the tag on it decodes to its number: that is `LinkInv`. `CountInv` is
the count itself, and `LogInv` says what the file has: while it is open, what was read up to the last line; after
`Shutdown`, everything - unless the last datagram came at the instant of the last line. `OnOwdOk` and
`CloseTraceOk` are about the two operations. That tags decode to what was encoded is `ValueReadBack`: the bytes
of a number end at the first without a flag, so what follows them in the tag is neither decoded nor skipped.

### 5.5 Congestion control (`Congestion_proofs`)

Assumed: `WindowAssumption`, `RttAssumption`, `AlgorithmAssumption`, `InfiniteAssumption`, `InitialWindowsAssumption` (the
initial window is at least the minimum), `WidthAssumption`, `BoundAssumption` (the bounds are natural
numbers of any size).

| Theorem | Says |
|---|---|
| `CongestionInvariant` | `CongestionInv`, the inductive invariant |
| `TypesAreKept`, `WindowKeepsItsFloor`, `ModeFollowsRecovery` | `TypeOK`, `WindowAtLeastMinimum`, `ModeTracksRecovery` |
| `VegasCheckFailsOnlyAfterARise`, `CopaNeverAborts` | `VegasCheckHolds`, `CopaChecksHold` |
| `FlightsCutOnce`, `VelocityIsNotReversed` | `OneCutPerFlight`, `VelocityPointsAlong` |

The two assertions rest on the filter: `UpdateBest` shows that after an update the best estimate is at
most the new sample, and rises only when the window has passed. `RoundInv` uses it to
keep `base_rtt` below the round's minimum until the filter's minimum rises. That the minimum floor holds in unsigned
arithmetic needs it as an invariant of itself (`WindowInv`). `OneCutPerFlight` needs that
`sinceCutback` is exactly the range of numbers above the last cutback (`SenderInv`).

### 5.6 The stream channel (`MyChannel_proofs`)

Assumed: `RingAssumption` (lengths and bounds of any size) and `AlignAssumption` (message and ring have a
common divisor of at least 2).

| Theorem | Says |
|---|---|
| `ChannelInvariant` | `ChannelInv`, the inductive invariant |
| `TypeCorrect`, `RingIsStream`, `MessagesRestored` | `TypeOK`, `RingHoldsStream`, `FramesIntact` |
| `HeadNeverWraps` | `HeadContiguous` |
| `RoomIsEnough` | `NeverAborts`, if a batch fits the ring: up to 12 blocks of 814 bytes in 10240 (finding 2 is about more) |

The two ways of moving a position around the end of the storage meet in `Cells` and `Advance`:
places behind the read position are different cells. `WriteAppends` and `ReadTakes` show that a
write goes behind what the ring holds, and that a read takes from its front what the stream had there. The loop
reads the right length because the head of the ring is the start of a message and because the
divisor of both lengths divides every read position (`Aligned`), so that two bytes of length never straddle the
end. `BatchInv` bounds what can be in the ring by the batch that was sent last.

### 5.7 Induction over data (`Induction`)

The library's induction theorems take a predicate as a parameter, which the provers cannot
instantiate. `Induction` states induction with a *set* in the predicate's place and derives it from the
library's fact that a set of natural numbers has a least element (`NatLessThanWellFounded`, `WFMin`):
`NatSetInduction`, and `RankInduction` for anything that has a rank. `RecursionExists` shows
that a function given by recursion on a smaller rank exists; as a recursive definition in TLA+ is
a choice among the functions that satisfy its equation, this is what turns `VarintEncode`, `VarientDecode`, the skipping of a
value and the fold behind `MapThenSumSet` into equations a proof can use (`EncodeEquation`,
`DecodeEquation`, `SkipEquation`, `SumIterates`).

### 5.8 What is not proved

Liveness (`EveryRoundCompletes`, `AllIterationsPerformed`, `BatchDelivered`, `EveryAlarmEnds`,
`FirstIterationEnds`, `EverythingReleased`) is only model-checked, since the prover handles neither fairness
nor `ENABLED`. So are the four findings, which are counterexamples.

## 6. What is not modelled, and why

* **Trees with an aggregator below an aggregator, during the start.** All aggregators poll for the first time
  at `starttime` + 1 s + 2 b + 500 ms. The upper one passes the request on in that poll, so it cannot have
  reached the lower one, whose server has no endpoint yet: `GetBuffer` reads a pointer that was never set.
  Such a tree does not start, whatever the constants; `TopologyAssumption` excludes it, and
  `aggtree.txt` has none. `SimpleMPI` is about such trees too, as it leaves the start out.
* **Ranks and addresses.** `CreateAggTree` counts ranks down each path, so cousins share one. No state depends
  on a rank; it seeds the random vectors, which the models leave arbitrary.
* **A connection that is closed for idleness in the middle of the experiment.** A lost message silences all
  connections, QUIC closes them, and the polls go on through freed endpoints (ns3-quic-backend.cc:369, a
  hazard in the list). `Experiment` ends with the first iteration; `SimpleMPI` abstracts from sessions.
* **`quic-twoend.cc`**, the two-process set-up: its producer is set up with the consumer's base time and
  polls from 2.5 s on, before the consumer asks at 3 s - the order `PollsFindChannels` is about, violated by its
  constants.
* **Message layout.** Header, offset and size are copied to and from fixed places in a buffer; `Vectors`
  has the values they carry. `CreatResponseVK` and `SaveResult` are never called.
* **Bandwidth and unidirectional channels, `HelloUnidiChannel`.** Nothing creates them: the bandwidth
  backend of a client is even built as a server's (ns3-quic-client-app.cc:241).
* **Client's trace and one-way delays** only write what they are given. **Pacing rate and bandwidth
  estimate** of the senders are functions of the window and read by quiche.
* **CDG** is not built; **`myclient-app` and `myserver-app`** are commented out.
* **Glue** (flags, clock, packet writer, helpers) hands calls on. quiche, ns-3 and the network are external and
  modelled by how the code uses them.
