----------------------------- MODULE SimpleMPI -----------------------------
(***************************************************************************)
(* The aggregation protocol of innetwork-train/model/simple-MPI: a tree of *)
(* SimpleMPI processes in which the consumer (the root) asks for a vector, *)
(* the producers (the leaves) answer with one random vector each, and      *)
(* every inner node averages the vectors of its children block by block    *)
(* and answers its own parent.                                             *)
(*                                                                         *)
(* Data abstraction.  A vector is a sequence of blocks of k numbers, and a *)
(* block is abstracted to its provenance: the set of pairs <<p, r>> such   *)
(* that the r-th random vector of producer p entered the (nested) average. *)
(* Summing is union; that no block is summed twice is a property of its    *)
(* own (CountIsContributions).  The byte streams are FIFO channels of      *)
(* whole messages.  An event handler runs to completion without            *)
(* interleaving, as events of the ns-3 scheduler do; a poll of the sockets *)
(* is the sequence of the handlers it dispatches.                          *)
(***************************************************************************)
EXTENDS Integers, Sequences, FiniteSets

CONSTANTS
  Node,      (* all processes                                              *)
  Root,      (* the consumer                                               *)
  Parent,    (* the parent of every other process                          *)
  Blocks,    (* blocks in a vector: (vsize + k - 1) / k                    *)
  Itr,       (* maxIteration of the consumer                               *)
  Unready,   (* processes whose link to the parent may refuse a Send       *)
  StaleVSize (* values the uninitialized field vsize may hold              *)

NonRoot == Node \ {Root}
Children(n) == {c \in NonRoot : Parent[c] = n}
Block == 1..Blocks
MaxUInt16 == 65535
UInt16 == 0..MaxUInt16

(* The links make a tree: in every set of processes there is one that has  *)
(* no child in the set, so no process is below itself and all paths end.   *)
ASSUME TreeAssumption ==
  /\ Root \in Node
  /\ Parent \in [NonRoot -> Node]
  /\ \A n \in Node : IsFiniteSet(Children(n)) /\ Cardinality(Children(n)) <= 255
  /\ Children(Root) # {}
  /\ \A X \in SUBSET Node : X # {} => \E n \in X : Children(n) \cap X = {}

(* The processes from n downwards: those in every set that holds n and the *)
(* children of its members.  Below[n] are the producers among them.        *)
Closed(X) == \A c \in NonRoot : Parent[c] \in X => c \in X
Subtree(n) == {x \in Node : \A X \in SUBSET Node : n \in X /\ Closed(X) => x \in X}
Below == [n \in Node |-> {p \in Subtree(n) : Children(p) = {}}]

ASSUME SizeAssumption ==
  /\ Blocks \in Nat /\ 1 <= Blocks /\ Blocks <= 255
  /\ Itr \in Nat
  /\ Unready \subseteq NonRoot
  /\ StaleVSize \subseteq UInt16 /\ StaleVSize # {}

VARIABLES
  asEnd,    (* asEnd[n]: AVG may run at n                                  *)
  curIter,  (* curIter[n]: aggregations n completed                        *)
  vsize,    (* vsize[n]: the vector size n works with, in blocks           *)
  chunk,    (* chunk[n][b]: MyChunk b of n, its count and its sum          *)
  avg,      (* avg[n][b]: block b of the last result written at n          *)
  polling,  (* polling[n]: ReceiveDataFromAll is in the scheduler          *)
  down,     (* down[c]: REQUESTV messages on their way to c                *)
  up,       (* up[c]: RESPONSEV messages on their way to c's parent        *)
  stopping, (* Simulator::Stop has been called                             *)
  running,  (* the simulator has not stopped                               *)
  round     (* history: requests handled by n (issued, for the consumer)   *)

node == <<asEnd, curIter, vsize, chunk, avg, polling, round>>
vars == <<asEnd, curIter, vsize, chunk, avg, polling, down, up, stopping, running, round>>

Contribution == (UNION {Below[n] : n \in Node}) \X Nat
(* count is a uint8_t; CountIsContributions and TreeAssumption keep it in range. *)
Chunk == [count : Nat, data : SUBSET Contribution]
Response == [block : Block, val : SUBSET Contribution]

EmptyChunk == [count |-> 0, data |-> {}]
NoChunks == [b \in Block |-> EmptyChunk]
Zeros == [b \in Block |-> {}]

(* Mutants (here and below, always right before the definition they replace):
   every process iterates; the consumer stops one iteration early. *)
MaxIterationEverywhere(n) == Itr
MaxIterationShort(n) == IF n = Root THEN Itr - 1 ELSE 0

(* Only the consumer is set up with an iteration count: the other
   processes get 0. *)
MaxIteration(n) == IF n = Root THEN Itr ELSE 0

(* uint8_t range, the number of blocks AvgEnd and WriteChunk2Vec visit. *)
Range8(size) == size % 256

-----------------------------------------------------------------------------
(* Sending.  The result of Send is never looked at: on a link that is not
   ready, or whose stream cannot take more data, the message is dropped.   *)

(* Mutants: the last block is forgotten; blocks are numbered from 0 at one end only. *)
SendResponseVToShort(queue, vec, accepted) ==
  queue \o [i \in 1..(accepted - 1) |-> [block |-> i, val |-> vec[i]]]
SendResponseVToZeroBased(queue, vec, accepted) ==
  queue \o [i \in 1..accepted |-> [block |-> i - 1, val |-> vec[i]]]

(* One RESPONSEV per block.  When the stream stops accepting data it does so
   for the rest of the handler: a prefix of the blocks gets through. *)
SendResponseVTo(queue, vec, accepted) ==
  queue \o [i \in 1..accepted |-> [block |-> i, val |-> vec[i]]]

Accepted(n) == IF n \in Unready THEN 0..Blocks ELSE {Blocks}

(* Mutant: the size is rounded down to whole blocks. *)
SendRequestVToAllRoundedDown(n, requests, size) ==
  down' = [c \in NonRoot |-> IF Parent[c] = n THEN Append(requests[c], size - 1) ELSE requests[c]]

(* One REQUESTV to each child, except those whose link refuses it. *)
SendRequestVToAll(n, requests, size) ==
  \E refused \in SUBSET (Children(n) \cap Unready) :
    down' = [c \in NonRoot |-> IF Parent[c] = n /\ c \notin refused
                               THEN Append(requests[c], size)
                               ELSE requests[c]]

-----------------------------------------------------------------------------
(* Aggregating. *)

SumVector(chunks, m) ==
  [chunks EXCEPT ![m.block] = [count |-> @.count + 1, data |-> @.data \cup m.val]]

(* Mutant: off by one in the number of children. *)
FullBeyond(n, ck) == ck.count > Cardinality(Children(n))

Full(n, ck) == ck.count = Cardinality(Children(n))

(* Mutant: the last block is not looked at. *)
AvgEndShort(n, chunks) == \A b \in 1..(Range8(vsize[n]) - 1) : Full(n, chunks[b])

(* The result AvgEnd computes: every block it visits is complete. *)
AvgEnd(n, chunks) == \A b \in 1..Range8(vsize[n]) : Full(n, chunks[b])

(* Mutant: the last block is not written. *)
WriteChunk2VecShort(n, chunks) ==
  [b \in Block |-> IF b < Range8(vsize[n]) THEN chunks[b].data ELSE avg[n][b]]

WriteChunk2Vec(n, chunks) ==
  [b \in Block |-> IF b <= Range8(vsize[n]) THEN chunks[b].data ELSE avg[n][b]]

(* Mutants: the chunks are left as they are; only their counters are reset. *)
ClearNothing(chunks) == chunks
ClearCountsOnly(chunks) == [b \in Block |-> [chunks[b] EXCEPT !.count = 0]]

(* Every chunk back to zero, whatever it held. *)
ClearChunkMap(chunks) == NoChunks

(* An aggregation ended: keep the average, answer the parent with it
   (SendResponseVToP), clear the chunks.  inbox is what of up is still to be
   read. *)
ReportAverage(n, chunks, inbox) ==
  /\ avg' = [avg EXCEPT ![n] = WriteChunk2Vec(n, chunks)]
  /\ chunk' = [chunk EXCEPT ![n] = ClearChunkMap(chunks)]
  /\ IF n = Root
       THEN up' = inbox
       ELSE \E accepted \in Accepted(n) :
              up' = [inbox EXCEPT ![n] = SendResponseVTo(@, WriteChunk2Vec(n, chunks), accepted)]

(* AVG when asEnd is set, after iter aggregations. *)
AVG(n, iter, chunks, inbox) ==
  /\ asEnd' = [asEnd EXCEPT ![n] = FALSE]
  /\ curIter' = [curIter EXCEPT ![n] = iter]
  /\ IF iter > 0
       THEN ReportAverage(n, chunks, inbox)
       ELSE chunk' = [chunk EXCEPT ![n] = chunks] /\ up' = inbox /\ avg' = avg
  /\ stopping' = (stopping \/ iter >= MaxIteration(n))
  /\ IF iter < MaxIteration(n)
       THEN /\ SendRequestVToAll(n, down, vsize[n])
            /\ round' = [round EXCEPT ![n] = @ + 1]
       ELSE UNCHANGED <<down, round>>

-----------------------------------------------------------------------------
(* The consumer's StartApplication: AVG runs once, and the first poll is
   scheduled right behind it. *)
StartApplication ==
  /\ running /\ asEnd[Root] /\ ~polling[Root]
  /\ AVG(Root, curIter[Root], chunk[Root], up)
  /\ polling' = [polling EXCEPT ![Root] = TRUE]
  /\ UNCHANGED <<vsize, running>>

(* Process n reads a REQUESTV from its parent. *)
HandleRequestV(n) ==
  /\ running /\ polling[n] /\ down[n] # <<>>
  /\ vsize' = [vsize EXCEPT ![n] = Head(down[n])]
  /\ avg' = [avg EXCEPT ![n] = Zeros]
  /\ round' = [round EXCEPT ![n] = @ + 1]
  /\ SendRequestVToAll(n, [down EXCEPT ![n] = Tail(@)], Head(down[n]))
  /\ IF Children(n) = {}
       THEN \E accepted \in Accepted(n) :
              up' = [up EXCEPT ![n] =
                       SendResponseVTo(@, [b \in Block |-> {<<n, round'[n]>>}], accepted)]
       ELSE UNCHANGED up
  /\ UNCHANGED <<asEnd, curIter, chunk, polling, stopping, running>>

(* The parent of c reads a RESPONSEV block from c. *)
HandleResponseV(c) ==
  LET n == Parent[c]
      m == Head(up[c])
      chunks == SumVector(chunk[n], m)
      rest == [up EXCEPT ![c] = Tail(@)]
  IN /\ running /\ polling[n] /\ up[c] # <<>>
     /\ IF Full(n, chunks[m.block]) /\ AvgEnd(n, chunks)
          THEN AVG(n, curIter[n] + 1, chunks, rest)
          ELSE /\ chunk' = [chunk EXCEPT ![n] = chunks]
               /\ up' = rest
               /\ asEnd' = [asEnd EXCEPT ![n] = @ /\ ~Full(n, chunks[m.block])]
               /\ UNCHANGED <<curIter, avg, down, stopping, round>>
     /\ UNCHANGED <<vsize, polling, running>>

(* Mutant: the condition inverted. *)
RepeatPollInverted(n) ==
  /\ running /\ polling[n]
  /\ polling' = [polling EXCEPT ![n] = asEnd[n] \/ Children(n) = {}]
  /\ UNCHANGED <<asEnd, curIter, vsize, chunk, avg, down, up, stopping, running, round>>

(* The end of a poll: ReceiveDataFromAll schedules itself again, or not. *)
RepeatPoll(n) ==
  /\ running /\ polling[n]
  /\ polling' = [polling EXCEPT ![n] = ~asEnd[n] \/ Children(n) = {}]
  /\ UNCHANGED <<asEnd, curIter, vsize, chunk, avg, down, up, stopping, running, round>>

(* The stop event scheduled by Simulator::Stop fires. *)
SimulatorStop ==
  /\ running /\ stopping
  /\ running' = FALSE
  /\ UNCHANGED <<node, down, up, stopping>>

Init ==
  /\ asEnd = [n \in Node |-> n = Root]
  /\ curIter = [n \in Node |-> 0]
  /\ \E stale \in StaleVSize : vsize = [n \in Node |-> IF n = Root THEN Blocks ELSE stale]
  /\ chunk = [n \in Node |-> NoChunks]
  /\ avg = [n \in Node |-> Zeros]
  /\ polling = [n \in Node |-> n # Root]
  /\ down = [c \in NonRoot |-> <<>>]
  /\ up = [c \in NonRoot |-> <<>>]
  /\ stopping = FALSE
  /\ running = TRUE
  /\ round = [n \in Node |-> 0]

Next ==
  \/ StartApplication
  \/ \E c \in NonRoot : HandleRequestV(c)
  \/ \E c \in NonRoot : HandleResponseV(c)
  \/ \E n \in Node : RepeatPoll(n)
  \/ SimulatorStop

Spec == Init /\ [][Next]_vars

(* A poll runs every 30 ms and drains every socket. *)
PollFairness ==
  /\ WF_vars(StartApplication)
  /\ \A c \in NonRoot : WF_vars(HandleRequestV(c)) /\ WF_vars(HandleResponseV(c))

FairSpec == Spec /\ PollFairness

-----------------------------------------------------------------------------
(* Reading the state. *)

(* The sum of the r-th vectors of all producers below the processes of S. *)
SumOf(S, r) == UNION {Below[c] \X {r} : c \in S}

(* The children of n that entered the sum data, and those that entered the sum
   of its block b. *)
Summed(n, data) == {c \in Children(n) : \E x \in data : x[1] \in Below[c]}
Contributors(n, b) == Summed(n, chunk[n][b].data)

TypeOK ==
  /\ asEnd \in [Node -> BOOLEAN]
  /\ curIter \in [Node -> Nat]
  /\ vsize \in [Node -> UInt16]
  /\ chunk \in [Node -> [Block -> Chunk]]
  /\ avg \in [Node -> [Block -> SUBSET Contribution]]
  /\ polling \in [Node -> BOOLEAN]
  /\ down \in [NonRoot -> Seq(UInt16)]
  /\ up \in [NonRoot -> Seq(Response)]
  /\ stopping \in BOOLEAN
  /\ running \in BOOLEAN
  /\ round \in [Node -> Nat]

(* The consumer's result of iteration r is the average of the r-th vectors of
   all producers: none is missing, and none is of another iteration
   (simpleMPI.cc, AVG and WriteChunk2Vec at the root). *)
ResultIsComplete ==
  \A b \in Block : avg[Root][b] = IF curIter[Root] = 0 THEN {}
                                  ELSE Below[Root] \X {curIter[Root]}

(* The counter of a chunk is the number of distinct children summed in it: no
   child is counted or summed twice, and nothing is added to a chunk whose sum
   was already divided (simpleMPI.cc, HandleResponseV). *)
CountIsContributions ==
  \A n \in Node, b \in Block : chunk[n][b].count = Cardinality(Contributors(n, b))

(* A partial sum mixes no two rounds: all it contains answers the request the
   process handled last. *)
SumsOneRound ==
  \A n \in Node, b \in Block :
    chunk[n][b].data = SumOf(Contributors(n, b), round[n])

(* A request only ever travels to a process that has finished with the one
   before: its chunks are cleared and its children have nothing left to say.
   HandleRequestV resets vsize and avg but not the chunks, and relies on it. *)
RequestFindsIdle ==
  \A c \in NonRoot : down[c] # <<>> =>
    /\ Len(down[c]) = 1
    /\ chunk[c] = NoChunks
    /\ up[c] = <<>>
    /\ \A d \in Children(c) : up[d] = <<>> /\ down[d] = <<>>

(* Lock-step: no process is ever ahead of its parent, nor more than one
   request behind it; the gap is the request on the way, or one lost. *)
LockStep ==
  \A c \in NonRoot : /\ round[c] + Len(down[c]) <= round[Parent[c]]
                     /\ round[Parent[c]] <= round[c] + 1

(* The poll loop of a process never ends: asEnd is FALSE whenever
   ReceiveDataFromAll decides whether to schedule itself again. *)
PollNeverDies == \A n \in Node : polling[n] \/ (n = Root /\ asEnd[n])

(* The simulation is stopped by a consumer that performed its iterations
   ("max iteration consumer performed", in-quic-topo.cc:246). *)
StopOnlyWhenDone == stopping => curIter[Root] >= Itr

-----------------------------------------------------------------------------
(* The tree implements the service: its iterations complete one at a time, each
   with the right result in every block (AVG and the handlers together). *)
Service == INSTANCE AggService
  WITH Producer <- Below[Root], asked <- round[Root], done <- curIter[Root], result <- avg[Root]
ImplementsService == Service!Spec

(* Every request a process with children handles (or, at the consumer, issues)
   is answered with the average of all its children, unless the simulation is
   stopped first. *)
EveryRoundCompletes ==
  \A n \in Node : \A r \in 1..Itr :
    (Children(n) # {} /\ round[n] = r) ~> (curIter[n] >= r \/ ~running)

(* The consumer performs all its iterations. *)
AllIterationsPerformed == <>(curIter[Root] = Itr)
-----------------------------------------------------------------------------
(* The inductive invariant: what holds of one edge of the tree, between a
   process c and its parent. *)

Busy(n) == Children(n) # {} /\ curIter[n] # round[n]
Behind(c) == round[Parent[c]] = round[c] + 1
Even(c) == round[Parent[c]] = round[c]

(* c owes its parent nothing that it has started to send. *)
Silent(c) ==
  /\ up[c] = <<>>
  /\ \A b \in Block : c \notin Contributors(Parent[c], b)

RequestInv(c) ==
  /\ Behind(c) \/ Even(c)
  /\ down[c] # <<>> => down[c] = <<Blocks>> /\ Behind(c)
  /\ Behind(c) => ~Busy(c)
  /\ ~Busy(Parent[c]) => Even(c) /\ ~Busy(c) /\ up[c] = <<>>
  /\ Behind(c) \/ Busy(c) => Silent(c)

(* The blocks on their way are all different, belong to the current round, and
   have not been summed yet. *)
ResponseInv(c) ==
  \A i \in 1..Len(up[c]) :
    /\ up[c][i].val = Below[c] \X {round[Parent[c]]}
    /\ c \notin Contributors(Parent[c], up[c][i].block)
    /\ \A j \in 1..Len(up[c]) : up[c][i].block = up[c][j].block => i = j

ProcessInv(n) ==
  /\ ~Busy(n) => chunk[n] = NoChunks
  /\ Busy(n) => round[n] = curIter[n] + 1
  /\ n = Root \/ round[n] > 0 => vsize[n] = Blocks
  /\ asEnd[n] => n = Root /\ ~polling[n]
  /\ ~polling[n] => n = Root /\ asEnd[n] /\ round[n] = 0 /\ curIter[n] = 0

IInv ==
  /\ TypeOK
  /\ \A c \in NonRoot : RequestInv(c) /\ ResponseInv(c)
  /\ \A n \in Node : ProcessInv(n)
  /\ CountIsContributions
  /\ SumsOneRound
  /\ ResultIsComplete
=============================================================================
