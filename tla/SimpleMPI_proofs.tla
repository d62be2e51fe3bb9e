-------------------------- MODULE SimpleMPI_proofs --------------------------
(***************************************************************************)
(* Machine-checked proofs about SimpleMPI, for every tree, number of       *)
(* blocks, number of iterations and set of unreliable links.               *)
(***************************************************************************)
EXTENDS SimpleMPI, FiniteSetTheorems, TLAPS

USE DEF NonRoot, Block

(***************************************************************************)
(* Subtrees and the producers in them.                                     *)
(***************************************************************************)

(* A subtree holds its top and the children of its members, and is inside
   every other set that does. *)
LEMMA SubtreeClosed ==
  ASSUME NEW n \in Node
  PROVE  /\ Subtree(n) \in SUBSET Node /\ n \in Subtree(n) /\ Closed(Subtree(n))
         /\ \A X \in SUBSET Node : n \in X /\ Closed(X) => Subtree(n) \subseteq X
BY DEF Subtree, Closed

(* Every member of a subtree but the top is a child of a member. *)
LEMMA SubtreeParent ==
  ASSUME NEW n \in Node, NEW x \in Subtree(n), x # n
  PROVE  x \in NonRoot /\ Parent[x] \in Subtree(n)
<1>. SUFFICES ASSUME ~(x \in NonRoot /\ Parent[x] \in Subtree(n))
              PROVE  FALSE
  OBVIOUS
<1>. DEFINE X == Subtree(n) \ {x}
<1>1. X \in SUBSET Node /\ n \in X
  BY SubtreeClosed
<1>2. Closed(X)
  BY SubtreeClosed DEF Closed
<1>3. Subtree(n) \subseteq X
  BY <1>1, <1>2, SubtreeClosed
<1>. QED  BY <1>3

(* A subtree is its top and the subtrees of the children of the top. *)
LEMMA SubtreeEquation ==
  ASSUME NEW n \in Node
  PROVE  Subtree(n) = {n} \cup UNION {Subtree(c) : c \in Children(n)}
<1>. DEFINE X == {n} \cup UNION {Subtree(c) : c \in Children(n)}
<1>1. \A c \in Children(n) : c \in Node /\ c \in NonRoot /\ Parent[c] = n
  BY DEF Children
<1>2. X \in SUBSET Node
  BY <1>1, SubtreeClosed
<1>3. ASSUME NEW d \in NonRoot, Parent[d] \in X
      PROVE  d \in X
  <2>1. CASE Parent[d] = n
    <3>1. d \in Children(n) /\ d \in Node
      BY <2>1 DEF Children
    <3>. QED  BY <3>1, SubtreeClosed
  <2>2. CASE Parent[d] # n
    <3>1. PICK c \in Children(n) : Parent[d] \in Subtree(c)
      BY <1>3, <2>2
    <3>2. d \in Subtree(c)
      BY <1>1, <3>1, SubtreeClosed DEF Closed
    <3>. QED  BY <3>2
  <2>. QED  BY <2>1, <2>2
<1>4. Subtree(n) \subseteq X
  <2>1. n \in X /\ Closed(X)
    BY <1>3 DEF Closed
  <2>. HIDE DEF X
  <2>. QED  BY <1>2, <2>1, SubtreeClosed
<1>5. ASSUME NEW c \in Children(n)
      PROVE  Subtree(c) \subseteq Subtree(n)
  <2>1. c \in Subtree(n)
    BY <1>1, SubtreeClosed DEF Closed
  <2>. QED  BY <1>1, <2>1, SubtreeClosed
<1>6. X \subseteq Subtree(n)
  BY <1>5, SubtreeClosed
<1>. QED  BY <1>4, <1>6

(* No process is below its own child. *)
LEMMA NoCycle ==
  ASSUME NEW d \in NonRoot
  PROVE  Parent[d] \notin Subtree(d)
<1>. SUFFICES ASSUME Parent[d] \in Subtree(d)
              PROVE  FALSE
  OBVIOUS
<1>. DEFINE n == Parent[d]
            X == {x \in Node : n \in Subtree(x)}
<1>1. n \in Node /\ d \in Node /\ d \in Children(n)
  BY TreeAssumption DEF Children
<1>2. X \in SUBSET Node /\ X # {}
  BY <1>1
<1>3. PICK x \in X : Children(x) \cap X = {}
  <2>. HIDE DEF X
  <2>. QED  BY <1>2, TreeAssumption
<1>4. CASE x = n
  <2>1. d \in X /\ d \in Children(x)
    BY <1>1, <1>4
  <2>. QED  BY <1>3, <2>1
<1>5. CASE x # n
  <2>1. n \in Subtree(x) /\ x \in Node
    BY <1>3
  <2>2. PICK c \in Children(x) : n \in Subtree(c)
    BY <1>5, <2>1, SubtreeEquation
  <2>3. c \in X
    BY <2>2 DEF Children
  <2>. QED  BY <1>3, <2>2, <2>3
<1>. QED  BY <1>4, <1>5

LEMMA NotOwnParent == \A c \in NonRoot : Parent[c] # c
BY NoCycle, SubtreeClosed

(* Every subtree holds a producer. *)
LEMMA SubtreeHasLeaf ==
  ASSUME NEW n \in Node
  PROVE  \E p \in Subtree(n) : Children(p) = {}
<1>1. Subtree(n) \in SUBSET Node /\ Subtree(n) # {}
  BY SubtreeClosed
<1>2. PICK p \in Subtree(n) : Children(p) \cap Subtree(n) = {}
  BY <1>1, TreeAssumption
<1>3. Children(p) \subseteq Subtree(n)
  BY SubtreeClosed DEF Children, Closed
<1>. QED  BY <1>2, <1>3

(* The subtrees of siblings do not meet. *)
LEMMA SiblingsApart ==
  ASSUME NEW c \in NonRoot, NEW d \in NonRoot, c # d, Parent[c] = Parent[d]
  PROVE  Subtree(c) \cap Subtree(d) = {}
<1>1. c \notin Subtree(d) /\ d \notin Subtree(c)
  BY SubtreeParent, NoCycle
<1>. DEFINE X == Subtree(c) \ Subtree(d)
<1>2. X \in SUBSET Node /\ c \in X
  BY <1>1, SubtreeClosed
<1>3. ASSUME NEW e \in NonRoot, Parent[e] \in X
      PROVE  e \in X
  <2>1. e \in Subtree(c)
    BY <1>3, SubtreeClosed DEF Closed
  <2>2. e # d
    BY <1>1, <2>1
  <2>3. e \notin Subtree(d)
    BY <1>3, <2>2, SubtreeParent
  <2>. QED  BY <2>1, <2>3
<1>4. Subtree(c) \subseteq X
  <2>1. Closed(X)
    BY <1>3 DEF Closed
  <2>. HIDE DEF X
  <2>. QED  BY <1>2, <2>1, SubtreeClosed
<1>. QED  BY <1>4

(* The producers below a process are those below its children, and those
   below one child are not below another: a sum over the children has every
   producer, once. *)
THEOREM BelowEquations ==
  /\ \A n \in Node : /\ Below[n] # {}
                     /\ Children(n) = {} => Below[n] = {n}
                     /\ Children(n) # {} => Below[n] = UNION {Below[c] : c \in Children(n)}
  /\ \A c, d \in NonRoot : c # d /\ Parent[c] = Parent[d] => Below[c] \cap Below[d] = {}
<1>1. \A n \in Node : Below[n] = {p \in Subtree(n) : Children(p) = {}}
  BY DEF Below
<1>2. ASSUME NEW n \in Node
      PROVE  /\ Below[n] # {}
             /\ Children(n) = {} => Below[n] = {n}
             /\ Children(n) # {} => Below[n] = UNION {Below[c] : c \in Children(n)}
  <2>1. Children(n) \subseteq Node
    BY DEF Children
  <2>2. Subtree(n) = {n} \cup UNION {Subtree(c) : c \in Children(n)}
    BY SubtreeEquation
  <2>3. Below[n] # {}
    BY <1>1, SubtreeHasLeaf
  <2>4. ASSUME Children(n) = {}
        PROVE  Below[n] = {n}
    BY <1>1, <2>2, <2>4
  <2>5. ASSUME Children(n) # {}
        PROVE  Below[n] = UNION {Below[c] : c \in Children(n)}
    BY <1>1, <2>1, <2>2, <2>5
  <2>. QED  BY <2>3, <2>4, <2>5
<1>3. ASSUME NEW c \in NonRoot, NEW d \in NonRoot, c # d, Parent[c] = Parent[d]
      PROVE  Below[c] \cap Below[d] = {}
  BY <1>1, <1>3, SiblingsApart
<1>. QED  BY <1>2, <1>3

-----------------------------------------------------------------------------
(* What a response batch is: as many messages as the stream accepted, block i
   in place i (SendResponseVTo). *)
LEMMA SendResponseVToType ==
  ASSUME NEW q \in Seq(Response), NEW vec \in [Block -> SUBSET Contribution],
         NEW accepted \in 0..Blocks
  PROVE  SendResponseVTo(q, vec, accepted) \in Seq(Response)
<1>. DEFINE batch == [i \in 1..accepted |-> [block |-> i, val |-> vec[i]]]
<1>1. accepted \in Nat /\ 1..accepted \subseteq Block
  BY SizeAssumption
<1>2. \A i \in 1..accepted : [block |-> i, val |-> vec[i]] \in Response
  BY <1>1 DEF Response
<1>3. batch \in [1..accepted -> Response]
  BY <1>2
<1>4. batch \in Seq(Response)
  BY <1>1, <1>3
<1>. QED  BY <1>4 DEF SendResponseVTo

(* Sending requests keeps every downward channel a sequence of sizes. *)
LEMMA SendRequestVToAllType ==
  ASSUME NEW n \in Node, NEW requests \in [NonRoot -> Seq(UInt16)],
         NEW size \in UInt16, SendRequestVToAll(n, requests, size)
  PROVE  down' \in [NonRoot -> Seq(UInt16)]
BY DEF SendRequestVToAll

LEMMA AcceptedType ==
  ASSUME NEW n
  PROVE  Accepted(n) \subseteq 0..Blocks
BY SizeAssumption DEF Accepted

(* What WriteChunk2Vec stores is a vector. *)
LEMMA WriteChunk2VecType ==
  ASSUME TypeOK, NEW n \in Node, NEW chunks \in [Block -> Chunk]
  PROVE  WriteChunk2Vec(n, chunks) \in [Block -> SUBSET Contribution]
<1>1. ASSUME NEW b \in Block
      PROVE  chunks[b].data \in SUBSET Contribution /\ avg[n][b] \in SUBSET Contribution
  <2>1. chunks[b] \in Chunk
    BY Zenon
  <2>2. avg[n] \in [Block -> SUBSET Contribution]
    BY DEF TypeOK
  <2>3. avg[n][b] \in SUBSET Contribution
    BY <2>2, Zenon
  <2>. QED  BY <2>1, <2>3 DEF Chunk
<1>. QED  BY <1>1, Zenon DEF WriteChunk2Vec

(* The part of a step that AVG performs keeps the types. *)
LEMMA AVGType ==
  ASSUME TypeOK, NEW n \in Node, NEW iter \in Nat, NEW chunks \in [Block -> Chunk],
         NEW inbox \in [NonRoot -> Seq(Response)], AVG(n, iter, chunks, inbox)
  PROVE  /\ asEnd' \in [Node -> BOOLEAN]
         /\ curIter' \in [Node -> Nat]
         /\ chunk' \in [Node -> [Block -> Chunk]]
         /\ avg' \in [Node -> [Block -> SUBSET Contribution]]
         /\ up' \in [NonRoot -> Seq(Response)]
         /\ down' \in [NonRoot -> Seq(UInt16)]
         /\ stopping' \in BOOLEAN
         /\ round' \in [Node -> Nat]
<1>. USE DEF TypeOK
<1>1. asEnd' \in [Node -> BOOLEAN] /\ curIter' \in [Node -> Nat] /\ stopping' \in BOOLEAN
  BY DEF AVG
<1>2. down' \in [NonRoot -> Seq(UInt16)] /\ round' \in [Node -> Nat]
  <2>1. vsize[n] \in UInt16 /\ round[n] + 1 \in Nat
    OBVIOUS
  <2>2. CASE iter < MaxIteration(n)
    <3>1. SendRequestVToAll(n, down, vsize[n]) /\ round' = [round EXCEPT ![n] = @ + 1]
      BY <2>2, Zenon DEF AVG
    <3>2. down' \in [NonRoot -> Seq(UInt16)]
      BY <2>1, <3>1, SendRequestVToAllType
    <3>. QED  BY <2>1, <3>1, <3>2
  <2>3. CASE ~(iter < MaxIteration(n))
    BY <2>3 DEF AVG
  <2>. QED  BY <2>2, <2>3
<1>3. CASE ~(iter > 0)
  <2>1. chunk' = [chunk EXCEPT ![n] = chunks] /\ up' = inbox /\ avg' = avg
    BY <1>3, Zenon DEF AVG
  <2>. QED  BY <1>1, <1>2, <2>1
<1>4. CASE iter > 0
  <2>1. ReportAverage(n, chunks, inbox)
    BY <1>4, Zenon DEF AVG
  <2>2. NoChunks \in [Block -> Chunk]
    BY DEF NoChunks, EmptyChunk, Chunk
  <2>3. WriteChunk2Vec(n, chunks) \in [Block -> SUBSET Contribution]
    BY WriteChunk2VecType
  <2>4. /\ chunk' \in [Node -> [Block -> Chunk]]
        /\ avg' \in [Node -> [Block -> SUBSET Contribution]]
    BY <2>1, <2>2, <2>3 DEF ReportAverage, ClearChunkMap
  <2>5. up' \in [NonRoot -> Seq(Response)]
    <3>1. CASE n = Root
      BY <2>1, <3>1 DEF ReportAverage, ClearChunkMap
    <3>2. CASE n # Root
      <4>1. PICK accepted \in Accepted(n) :
              up' = [inbox EXCEPT ![n] = SendResponseVTo(@, WriteChunk2Vec(n, chunks), accepted)]
        BY <2>1, <3>2, Zenon DEF ReportAverage, ClearChunkMap
      <4>2. SendResponseVTo(inbox[n], WriteChunk2Vec(n, chunks), accepted) \in Seq(Response)
        BY <2>3, <3>2, <4>1, AcceptedType, SendResponseVToType
      <4>. QED  BY <4>1, <4>2
    <3>. QED  BY <3>1, <3>2
  <2>. QED  BY <1>1, <1>2, <2>4, <2>5
<1>. QED  BY <1>3, <1>4

(* Summing a response into the chunks keeps them chunks (SumVector). *)
LEMMA SumVectorType ==
  ASSUME NEW chunks \in [Block -> Chunk], NEW m \in Response
  PROVE  SumVector(chunks, m) \in [Block -> Chunk]
BY DEF SumVector, Chunk, Response

(* Every handler keeps the variables in their types. *)
LEMMA TypeStep == TypeOK /\ [Next]_vars => TypeOK'
<1>. SUFFICES ASSUME TypeOK, [Next]_vars
              PROVE  TypeOK'
  OBVIOUS
<1>. USE DEF TypeOK
<1>1. CASE StartApplication
  <2>1. Root \in Node /\ curIter[Root] \in Nat /\ chunk[Root] \in [Block -> Chunk]
    BY TreeAssumption
  <2>2. AVG(Root, curIter[Root], chunk[Root], up)
    BY <1>1 DEF StartApplication
  <2>3. polling' \in [Node -> BOOLEAN] /\ vsize' = vsize /\ running' = running
    BY <1>1 DEF StartApplication
  <2>. QED  BY <2>1, <2>2, <2>3, AVGType
<1>2. ASSUME NEW c \in NonRoot, HandleRequestV(c)
      PROVE  TypeOK'
  <2>1. c \in Node /\ Head(down[c]) \in UInt16 /\ Tail(down[c]) \in Seq(UInt16)
    BY <1>2 DEF HandleRequestV
  <2>2. vsize' \in [Node -> UInt16] /\ round' \in [Node -> Nat]
        /\ round' = [round EXCEPT ![c] = @ + 1]
    BY <1>2, <2>1 DEF HandleRequestV
  <2>3. avg' \in [Node -> [Block -> SUBSET Contribution]]
    BY <1>2 DEF HandleRequestV, Zeros
  <2>4. down' \in [NonRoot -> Seq(UInt16)]
    <3>1. [down EXCEPT ![c] = Tail(@)] \in [NonRoot -> Seq(UInt16)]
      BY <2>1
    <3>. QED  BY <1>2, <2>1, <3>1, SendRequestVToAllType DEF HandleRequestV
  <2>5. up' \in [NonRoot -> Seq(Response)]
    <3>1. CASE Children(c) = {}
      <4>. DEFINE vec == [b \in Block |-> {<<c, round'[c]>>}]
      <4>1. c \in UNION {Below[n] : n \in Node} /\ round'[c] \in Nat
        <5>1. Below[c] = {c}
          BY <2>1, <3>1, BelowEquations
        <5>2. c \in UNION {Below[n] : n \in Node}
          BY <2>1, <5>1
        <5>. QED  BY <2>1, <2>2, <5>2
      <4>2. {<<c, round'[c]>>} \in SUBSET Contribution
        BY <4>1 DEF Contribution
      <4>3. vec \in [Block -> SUBSET Contribution]
        BY <4>2
      <4>4. PICK accepted \in Accepted(c) :
              up' = [up EXCEPT ![c] = SendResponseVTo(@, vec, accepted)]
        BY <1>2, <3>1 DEF HandleRequestV
      <4>5. SendResponseVTo(up[c], vec, accepted) \in Seq(Response)
        BY <4>3, <4>4, AcceptedType, SendResponseVToType
      <4>. QED  BY <4>4, <4>5
    <3>2. CASE Children(c) # {}
      BY <1>2, <3>2 DEF HandleRequestV
    <3>. QED  BY <3>1, <3>2
  <2>. QED  BY <1>2, <2>2, <2>3, <2>4, <2>5 DEF HandleRequestV
<1>3. ASSUME NEW c \in NonRoot, HandleResponseV(c)
      PROVE  TypeOK'
  <2>. DEFINE n == Parent[c]
              m == Head(up[c])
              chunks == SumVector(chunk[n], m)
              rest == [up EXCEPT ![c] = Tail(@)]
  <2>1. n \in Node /\ m \in Response /\ Tail(up[c]) \in Seq(Response)
    BY <1>3, TreeAssumption DEF HandleResponseV
  <2>2. chunks \in [Block -> Chunk] /\ rest \in [NonRoot -> Seq(Response)]
    BY <2>1, SumVectorType
  <2>3. vsize' = vsize /\ polling' = polling /\ running' = running
    BY <1>3 DEF HandleResponseV
  <2>4. CASE Full(n, chunks[m.block]) /\ AvgEnd(n, chunks)
    <3>1. AVG(n, curIter[n] + 1, chunks, rest)
      BY <1>3, <2>4 DEF HandleResponseV
    <3>2. curIter[n] + 1 \in Nat
      BY <2>1
    <3>. HIDE DEF n, m, chunks, rest
    <3>. QED  BY <2>1, <2>2, <2>3, <3>1, <3>2, AVGType
  <2>5. CASE ~(Full(n, chunks[m.block]) /\ AvgEnd(n, chunks))
    <3>1. /\ chunk' = [chunk EXCEPT ![n] = chunks]
          /\ up' = rest
          /\ asEnd' = [asEnd EXCEPT ![n] = @ /\ ~Full(n, chunks[m.block])]
          /\ UNCHANGED <<curIter, avg, down, stopping, round>>
      BY <1>3, <2>5 DEF HandleResponseV
    <3>2. asEnd' \in [Node -> BOOLEAN]
      BY <3>1 DEF Full
    <3>. HIDE DEF chunks, rest, n, m
    <3>. QED  BY <2>1, <2>2, <2>3, <3>1, <3>2
  <2>. QED  BY <2>4, <2>5
<1>4. ASSUME NEW n \in Node, RepeatPoll(n)
      PROVE  TypeOK'
  BY <1>4 DEF RepeatPoll
<1>5. CASE SimulatorStop
  BY <1>5 DEF SimulatorStop, node
<1>6. CASE UNCHANGED vars
  BY <1>6 DEF vars
<1>. QED  BY <1>1, <1>2, <1>3, <1>4, <1>5, <1>6 DEF Next

(* The initial state has the right types. *)
LEMMA TypeInit == Init => TypeOK
<1>. SUFFICES ASSUME Init
              PROVE  TypeOK
  OBVIOUS
<1>1. NoChunks \in [Block -> Chunk] /\ Zeros \in [Block -> SUBSET Contribution]
  BY DEF NoChunks, EmptyChunk, Chunk, Zeros
<1>2. PICK stale \in StaleVSize : vsize = [n \in Node |-> IF n = Root THEN Blocks ELSE stale]
  BY Zenon DEF Init
<1>3. stale \in UInt16 /\ Blocks \in UInt16
  <2>1. Blocks \in UInt16
    <3>1. MaxUInt16 \in Nat /\ 255 < MaxUInt16
      BY DEF MaxUInt16
    <3>. QED  BY <3>1, SizeAssumption DEF UInt16
  <2>. QED  BY <2>1, SizeAssumption
<1>4. vsize \in [Node -> UInt16]
  BY <1>2, <1>3
<1>5. /\ asEnd \in [Node -> BOOLEAN] /\ curIter \in [Node -> Nat]
      /\ polling \in [Node -> BOOLEAN] /\ round \in [Node -> Nat]
      /\ stopping \in BOOLEAN /\ running \in BOOLEAN
  BY DEF Init
<1>6. down \in [NonRoot -> Seq(UInt16)] /\ up \in [NonRoot -> Seq(Response)]
  BY DEF Init
<1>7. chunk \in [Node -> [Block -> Chunk]] /\ avg \in [Node -> [Block -> SUBSET Contribution]]
  BY <1>1 DEF Init
<1>. QED  BY <1>4, <1>5, <1>6, <1>7 DEF TypeOK

(* Type correctness of the protocol. *)
THEOREM TypeCorrect == Spec => []TypeOK
<1>1. Init => TypeOK
  BY TypeInit
<1>2. TypeOK /\ [Next]_vars => TypeOK'
  BY TypeStep
<1>. QED  BY <1>1, <1>2, PTL DEF Spec

-----------------------------------------------------------------------------
(***************************************************************************)
(* Sums of contributions.                                                  *)
(***************************************************************************)

(* A sum of vectors of distinct children names exactly those children: their
   subtrees are disjoint and not empty. *)
LEMMA SummedSumOf ==
  ASSUME NEW n \in Node, NEW S \in SUBSET Children(n), NEW r
  PROVE  Summed(n, SumOf(S, r)) = S
<1>1. ASSUME NEW c \in S
      PROVE  c \in Summed(n, SumOf(S, r))
  <2>1. c \in Children(n) /\ c \in Node
    BY DEF Children
  <2>2. PICK p : p \in Below[c]
    BY <2>1, BelowEquations
  <2>3. <<p, r>> \in SumOf(S, r)
    BY <2>2 DEF SumOf
  <2>. QED  BY <2>1, <2>2, <2>3 DEF Summed
<1>2. ASSUME NEW c \in Summed(n, SumOf(S, r))
      PROVE  c \in S
  <2>1. PICK x \in SumOf(S, r) : x[1] \in Below[c]
    BY DEF Summed
  <2>2. PICK d \in S : x \in Below[d] \X {r}
    BY DEF SumOf
  <2>3. x[1] \in Below[d]
    BY <2>2
  <2>4. c \in NonRoot /\ d \in NonRoot /\ Parent[c] = n /\ Parent[d] = n
    BY DEF Summed, Children
  <2>5. c = d
    BY <2>1, <2>3, <2>4, BelowEquations
  <2>. QED  BY <2>5
<1>. QED  BY <1>1, <1>2

(* Summing one more vector. *)
LEMMA SumOfAdd ==
  ASSUME NEW S, NEW c, NEW r
  PROVE  SumOf(S, r) \cup (Below[c] \X {r}) = SumOf(S \cup {c}, r)
<1>. DEFINE T == {Below[d] \X {r} : d \in S}
            U == {Below[d] \X {r} : d \in S \cup {c}}
<1>1. U = T \cup {Below[c] \X {r}}
  OBVIOUS
<1>2. UNION U = (UNION T) \cup (Below[c] \X {r})
  BY <1>1
<1>. QED  BY <1>2 DEF SumOf

LEMMA SumOfEmpty ==
  ASSUME NEW r
  PROVE  SumOf({}, r) = {}
BY DEF SumOf

(* The vectors of all children make up the vector of the whole subtree. *)
LEMMA SumOfChildren ==
  ASSUME NEW n \in Node, Children(n) # {}, NEW r
  PROVE  SumOf(Children(n), r) = Below[n] \X {r}
<1>1. Below[n] = UNION {Below[c] : c \in Children(n)}
  BY BelowEquations
<1>2. ASSUME NEW x \in SumOf(Children(n), r)
      PROVE  x \in Below[n] \X {r}
  <2>1. PICK c \in Children(n) : x \in Below[c] \X {r}
    BY <1>2 DEF SumOf
  <2>. QED  BY <1>1, <2>1
<1>3. ASSUME NEW x \in Below[n] \X {r}
      PROVE  x \in SumOf(Children(n), r)
  <2>1. PICK c \in Children(n) : x[1] \in Below[c]
    BY <1>1
  <2>2. x \in Below[c] \X {r}
    BY <2>1
  <2>. QED  BY <2>1, <2>2 DEF SumOf
<1>. QED  BY <1>2, <1>3

(* Cleared chunks contain no contribution. *)
LEMMA NoContributors ==
  ASSUME NEW n, NEW b \in Block, chunk[n] = NoChunks
  PROVE  Contributors(n, b) = {}
BY DEF Contributors, Summed, NoChunks, EmptyChunk

(* Where a request can be on its way after SendRequestVToAll: to the children
   of n only, and one at most was added to each. *)
LEMMA RequestsSent ==
  ASSUME NEW n \in Node, NEW requests, NEW size, NEW d \in NonRoot,
         SendRequestVToAll(n, requests, size)
  PROVE  /\ Parent[d] # n => down'[d] = requests[d]
         /\ Parent[d] = n => down'[d] \in {requests[d], Append(requests[d], size)}
BY DEF SendRequestVToAll

(* A freshly sent batch of blocks satisfies ResponseInv. *)
LEMMA FreshResponse ==
  ASSUME NEW c \in NonRoot, NEW vec, NEW accepted \in Accepted(c), NEW queue,
         queue = <<>>,
         up'[c] = SendResponseVTo(queue, vec, accepted),
         \A b \in Block : vec[b] = Below[c] \X {round'[Parent[c]]},
         \A b \in Block : c \notin Contributors(Parent[c], b)'
  PROVE  ResponseInv(c)'
<1>1. accepted \in Nat /\ accepted <= Blocks
  BY AcceptedType, SizeAssumption
<1>. DEFINE batch == [i \in 1..accepted |-> [block |-> i, val |-> vec[i]]]
<1>2. \A i \in 1..accepted : [block |-> i, val |-> vec[i]] \in [block : Block, val : {vec[j] : j \in Block}]
  BY <1>1, SizeAssumption
<1>3. batch \in Seq([block : Block, val : {vec[j] : j \in Block}])
  BY <1>1, <1>2
<1>4. up'[c] = batch
  BY <1>3 DEF SendResponseVTo
<1>5. Len(batch) = accepted
  BY <1>1
<1>6. \A i \in 1..accepted : batch[i].block = i /\ batch[i].val = vec[i] /\ i \in Block
  BY <1>1, SizeAssumption
<1>. HIDE DEF batch
<1>. QED  BY <1>4, <1>5, <1>6 DEF ResponseInv

(* What is not touched keeps its invariant: an edge, then a process. *)
LEMMA EdgeFrame ==
  ASSUME NEW c \in NonRoot, RequestInv(c), ResponseInv(c),
         round'[c] = round[c], round'[Parent[c]] = round[Parent[c]],
         curIter'[c] = curIter[c], curIter'[Parent[c]] = curIter[Parent[c]],
         chunk'[Parent[c]] = chunk[Parent[c]],
         up'[c] = up[c], down'[c] = down[c]
  PROVE  RequestInv(c)' /\ ResponseInv(c)'
BY DEF RequestInv, ResponseInv, Behind, Even, Busy, Silent, Contributors, Summed, Children

LEMMA ProcessFrame ==
  ASSUME NEW n \in Node, ProcessInv(n),
         chunk'[n] = chunk[n], curIter'[n] = curIter[n], round'[n] = round[n],
         vsize'[n] = vsize[n], asEnd'[n] = asEnd[n], polling'[n] = polling[n]
  PROVE  ProcessInv(n)'
BY DEF ProcessInv, Busy, Children

-----------------------------------------------------------------------------
(***************************************************************************)
(* The inductive invariant.                                                *)
(***************************************************************************)

(* The invariant holds initially. *)
LEMMA InvInit == Init => IInv
<1>. SUFFICES ASSUME Init
              PROVE  IInv
  OBVIOUS
<1>. USE DEF Init
<1>1. TypeOK
  BY TypeInit
<1>2. ASSUME NEW n \in Node, NEW b \in Block
      PROVE  /\ chunk[n][b].count = 0 /\ chunk[n][b].data = {}
             /\ Contributors(n, b) = {} /\ round[n] = 0
  <2>1. chunk[n] = NoChunks
    OBVIOUS
  <2>. QED  BY <2>1, NoContributors DEF NoChunks, EmptyChunk
<1>3. CountIsContributions
  BY <1>2, FS_EmptySet DEF CountIsContributions
<1>4. SumsOneRound
  BY <1>2, SumOfEmpty DEF SumsOneRound
<1>5. ResultIsComplete
  BY TreeAssumption DEF ResultIsComplete, Zeros
<1>6. ASSUME NEW c \in NonRoot
      PROVE  RequestInv(c) /\ ResponseInv(c)
  <2>1. /\ Parent[c] \in Node /\ c \in Node
        /\ up[c] = <<>> /\ down[c] = <<>> /\ round[c] = 0 /\ curIter[c] = 0
        /\ round[Parent[c]] = 0 /\ curIter[Parent[c]] = 0
    BY TreeAssumption
  <2>. QED  BY <2>1 DEF RequestInv, ResponseInv, Even, Behind, Busy
<1>7. ASSUME NEW n \in Node
      PROVE  ProcessInv(n)
  <2>1. /\ chunk[n] = NoChunks /\ curIter[n] = 0 /\ round[n] = 0
        /\ asEnd[n] <=> n = Root
        /\ polling[n] <=> n # Root
    OBVIOUS
  <2>2. n = Root => vsize[n] = Blocks
    BY TreeAssumption
  <2>. QED  BY <2>1, <2>2 DEF ProcessInv, Busy
<1>. QED  BY <1>1, <1>3, <1>4, <1>5, <1>6, <1>7 DEF IInv

(* What the three conjuncts about chunks depend on. *)
LEMMA SumsFrame ==
  ASSUME NEW n \in Node, NEW b \in Block, CountIsContributions, SumsOneRound,
         chunk'[n] = chunk[n], round'[n] = round[n]
  PROVE  /\ (chunk[n][b].count = Cardinality(Contributors(n, b)))'
         /\ (chunk[n][b].data = SumOf(Contributors(n, b), round[n]))'
BY DEF CountIsContributions, SumsOneRound, Contributors, Summed, Children, SumOf

(* Cleared chunks satisfy them whatever the round. *)
LEMMA SumsCleared ==
  ASSUME NEW n \in Node, NEW b \in Block, chunk'[n] = NoChunks
  PROVE  /\ Contributors(n, b)' = {}
         /\ (chunk[n][b].count = Cardinality(Contributors(n, b)))'
         /\ (chunk[n][b].data = SumOf(Contributors(n, b), round[n]))'
<1>1. chunk'[n][b].data = {} /\ chunk'[n][b].count = 0
  BY DEF NoChunks, EmptyChunk
<1>2. Contributors(n, b)' = {}
  BY <1>1 DEF Contributors, Summed
<1>3. SumOf({}, round[n])' = {}
  BY DEF SumOf
<1>. QED  BY <1>1, <1>2, <1>3, FS_EmptySet

(* A process that asks its children again leaves each of them one request
   behind, with nothing on its way up and no part in the cleared sum. *)
LEMMA ChildAsked ==
  ASSUME NEW d \in NonRoot, NEW p \in Node, p = Parent[d], Children(p) # {},
         round[d] \in Nat, round[p] \in Nat,
         round'[d] = round[d], round'[p] = round[p] + 1, round[d] = round[p],
         curIter'[d] = curIter[d], ~Busy(d), curIter'[p] # round'[p],
         chunk'[p] = NoChunks, up'[d] = <<>>, down'[d] \in {<<>>, <<Blocks>>}
  PROVE  RequestInv(d)' /\ ResponseInv(d)'
<1>1. Behind(d)' /\ ~Even(d)'
  BY DEF Behind, Even
<1>2. ~Busy(d)' /\ Busy(p)'
  BY DEF Busy, Children
<1>3. \A b \in Block : Contributors(p, b)' = {}
  BY SumsCleared
<1>. QED  BY <1>1, <1>2, <1>3 DEF RequestInv, ResponseInv, Silent

(* A process that has just completed leaves its children even with it, silent
   and with nothing on the way. *)
LEMMA ChildAnswered ==
  ASSUME NEW d \in NonRoot, NEW p \in Node, p = Parent[d],
         round[d] \in Nat, round[p] \in Nat,
         round'[d] = round[d], round'[p] = round[p], round[d] = round[p],
         curIter'[d] = curIter[d], ~Busy(d), curIter'[p] = round'[p],
         up'[d] = <<>>, down'[d] = <<>>
  PROVE  RequestInv(d)' /\ ResponseInv(d)'
<1>1. ~Behind(d)' /\ Even(d)'
  BY DEF Behind, Even
<1>2. ~Busy(d)'
  BY DEF Busy, Children
<1>. QED  BY <1>1, <1>2 DEF RequestInv, ResponseInv

(* The consumer starts. *)
LEMMA InvStart ==
  ASSUME IInv, TypeOK', StartApplication
  PROVE  IInv'
<1>. USE DEF IInv
<1>1. Root \in Node /\ \A c \in NonRoot : Parent[c] \in Node /\ c \in Node /\ Parent[c] # c
  BY TreeAssumption, NotOwnParent
<1>2. /\ asEnd[Root] /\ ~polling[Root] /\ round[Root] = 0 /\ curIter[Root] = 0
      /\ vsize[Root] = Blocks
  <2>1. asEnd[Root] /\ ~polling[Root]
    BY DEF StartApplication
  <2>. QED  BY <1>1, <2>1 DEF ProcessInv
<1>3. ~Busy(Root) /\ chunk[Root] = NoChunks
  BY <1>1, <1>2 DEF Busy, ProcessInv
<1>4. AVG(Root, 0, chunk[Root], up) /\ vsize' = vsize /\ polling' = [polling EXCEPT ![Root] = TRUE]
  BY <1>2 DEF StartApplication
<1>5. /\ asEnd' = [asEnd EXCEPT ![Root] = FALSE]
      /\ curIter' = [curIter EXCEPT ![Root] = 0]
      /\ chunk' = [chunk EXCEPT ![Root] = chunk[Root]]
      /\ up' = up /\ avg' = avg
  <2>1. ~(0 > 0)
    OBVIOUS
  <2>. QED  BY <1>4, <2>1, Zenon DEF AVG
<1>6. chunk' = chunk /\ curIter' = curIter
  BY <1>1, <1>2, <1>5 DEF TypeOK
<1>7. \/ /\ Itr > 0
         /\ SendRequestVToAll(Root, down, Blocks)
         /\ round' = [round EXCEPT ![Root] = 1]
      \/ down' = down /\ round' = round
  <2>1. IF 0 < Itr THEN /\ SendRequestVToAll(Root, down, vsize[Root])
                        /\ round' = [round EXCEPT ![Root] = @ + 1]
                   ELSE UNCHANGED <<down, round>>
    BY <1>4, Zenon DEF AVG, MaxIteration
  <2>2. [round EXCEPT ![Root] = @ + 1] = [round EXCEPT ![Root] = 1]
    BY <1>1, <1>2 DEF TypeOK
  <2>. QED  BY <1>2, <2>1, <2>2, SizeAssumption
<1>8. ResultIsComplete'
  BY <1>5, <1>6 DEF ResultIsComplete
<1>9. ASSUME NEW n \in Node
      PROVE  ProcessInv(n)'
  <2>1. CASE n = Root
    <3>1. asEnd'[Root] = FALSE /\ polling'[Root] = TRUE
      BY <1>1, <1>4, <1>5 DEF TypeOK
    <3>2. round'[Root] = 1 \/ round'[Root] = 0
      BY <1>1, <1>2, <1>7 DEF TypeOK
    <3>. QED  BY <1>2, <1>3, <1>4, <1>6, <2>1, <3>1, <3>2 DEF ProcessInv, Busy
  <2>2. CASE n # Root
    <3>1. asEnd'[n] = asEnd[n] /\ polling'[n] = polling[n]
      BY <1>4, <1>5, <2>2, Zenon DEF TypeOK
    <3>2. round'[n] = round[n]
      BY <1>7, <2>2 DEF TypeOK
    <3>. QED  BY <1>4, <1>6, <3>1, <3>2, ProcessFrame
  <2>. QED  BY <2>1, <2>2
<1>10. ASSUME NEW n \in Node, NEW b \in Block
       PROVE  /\ (chunk[n][b].count = Cardinality(Contributors(n, b)))'
              /\ (chunk[n][b].data = SumOf(Contributors(n, b), round[n]))'
  <2>1. CASE n = Root
    BY <1>3, <1>6, <2>1, SumsCleared
  <2>2. CASE n # Root
    <3>1. round'[n] = round[n]
      BY <1>7, <2>2 DEF TypeOK
    <3>. QED  BY <1>6, <3>1, SumsFrame
  <2>. QED  BY <2>1, <2>2
<1>11. ASSUME NEW d \in NonRoot
       PROVE  RequestInv(d)' /\ ResponseInv(d)'
  <2>1. d # Root /\ d \in Node /\ Parent[d] \in Node
    BY <1>1
  <2>2. round'[d] = round[d]
    BY <1>7, <2>1 DEF TypeOK
  <2>3. CASE Parent[d] # Root \/ (down' = down /\ round' = round)
    <3>1. round'[Parent[d]] = round[Parent[d]]
      BY <1>7, <2>1, <2>3 DEF TypeOK
    <3>2. down'[d] = down[d]
      <4>1. CASE down' = down
        BY <4>1
      <4>2. CASE SendRequestVToAll(Root, down, Blocks) /\ Parent[d] # Root
        BY <1>1, <4>2, RequestsSent
      <4>. QED  BY <1>7, <2>3, <4>1, <4>2, Zenon
    <3>. QED  BY <1>5, <1>6, <2>2, <3>1, <3>2, EdgeFrame
  <2>4. CASE Parent[d] = Root /\ ~(down' = down /\ round' = round)
    <3>1. RequestInv(d)
      OBVIOUS
    <3>2. Even(d) /\ ~Busy(d) /\ up[d] = <<>>
      BY <1>3, <2>4, <3>1 DEF RequestInv
    <3>3. down[d] = <<>>
      BY <1>2, <2>4, <3>1, <3>2 DEF RequestInv, Even, Behind
    <3>4. SendRequestVToAll(Root, down, Blocks) /\ round'[Root] = 1
      BY <1>1, <1>7, <2>4 DEF TypeOK
    <3>5. down'[d] \in {<<>>, <<Blocks>>}
      <4>1. down'[d] \in {down[d], Append(down[d], Blocks)}
        BY <1>1, <2>4, <3>4, RequestsSent
      <4>. QED  BY <3>3, <4>1
    <3>6. round[d] = 0
      BY <1>2, <2>4, <3>2 DEF Even
    <3>7. Children(Root) # {}
      BY TreeAssumption
    <3>. QED  BY <1>1, <1>2, <1>3, <1>5, <1>6, <2>2, <2>4, <3>2, <3>4, <3>5, <3>6, <3>7, ChildAsked
  <2>. QED  BY <2>3, <2>4
<1>. QED  BY <1>8, <1>9, <1>10, <1>11 DEF CountIsContributions, SumsOneRound

(* A process reads a request. *)
LEMMA InvHandleRequestV ==
  ASSUME IInv, TypeOK', NEW c \in NonRoot, HandleRequestV(c)
  PROVE  IInv'
<1>. USE DEF IInv
<1>1. /\ c \in Node /\ c # Root /\ Parent[c] \in Node
      /\ \A d \in NonRoot : Parent[d] \in Node /\ d \in Node /\ Parent[d] # d
  BY TreeAssumption, NotOwnParent
<1>2. down[c] = <<Blocks>> /\ Behind(c) /\ ~Busy(c) /\ Silent(c) /\ Busy(Parent[c])
  <2>1. down[c] # <<>> /\ RequestInv(c)
    BY DEF HandleRequestV
  <2>2. down[c] = <<Blocks>> /\ Behind(c) /\ ~Busy(c) /\ Silent(c)
    BY <2>1 DEF RequestInv
  <2>3. ~Even(c)
    BY <1>1, <2>2 DEF Even, Behind, TypeOK
  <2>. QED  BY <2>1, <2>2, <2>3 DEF RequestInv
<1>3. chunk[c] = NoChunks
  BY <1>1, <1>2 DEF ProcessInv
<1>4. /\ vsize' = [vsize EXCEPT ![c] = Blocks]
      /\ avg' = [avg EXCEPT ![c] = Zeros]
      /\ round' = [round EXCEPT ![c] = @ + 1]
      /\ SendRequestVToAll(c, [down EXCEPT ![c] = <<>>], Blocks)
      /\ UNCHANGED <<asEnd, curIter, chunk, polling, stopping, running>>
  <2>1. Head(down[c]) = Blocks /\ Tail(down[c]) = <<>>
    BY <1>2
  <2>2. [down EXCEPT ![c] = Tail(@)] = [down EXCEPT ![c] = <<>>]
    BY <2>1 DEF TypeOK
  <2>. QED  BY <2>1, <2>2 DEF HandleRequestV
<1>5. \A n \in Node : round'[n] = IF n = c THEN round[n] + 1 ELSE round[n]
  BY <1>1, <1>4 DEF TypeOK
<1>6. \A d \in NonRoot : d # c => up'[d] = up[d]
  <2>1. CASE Children(c) = {}
    <3>1. \E accepted \in Accepted(c) :
            up' = [up EXCEPT ![c] =
                     SendResponseVTo(@, [b \in Block |-> {<<c, round'[c]>>}], accepted)]
      BY <2>1, Zenon DEF HandleRequestV
    <3>. QED  BY <3>1 DEF TypeOK
  <2>2. CASE Children(c) # {}
    BY <2>2 DEF HandleRequestV
  <2>. QED  BY <2>1, <2>2
<1>7. ASSUME NEW d \in NonRoot, Parent[d] # c
      PROVE  down'[d] = IF d = c THEN <<>> ELSE down[d]
  <2>. DEFINE read == [down EXCEPT ![c] = <<>>]
  <2>1. SendRequestVToAll(c, read, Blocks)
    BY <1>4
  <2>2. read[d] = IF d = c THEN <<>> ELSE down[d]
    BY DEF TypeOK
  <2>. HIDE DEF read
  <2>3. down'[d] = read[d]
    BY <1>1, <1>7, <2>1, RequestsSent
  <2>. QED  BY <2>2, <2>3
<1>8. ResultIsComplete'
  <2>1. avg'[Root] = avg[Root] /\ curIter' = curIter
    BY <1>1, <1>4, TreeAssumption DEF TypeOK
  <2>. QED  BY <2>1 DEF ResultIsComplete
<1>9. ASSUME NEW n \in Node
      PROVE  ProcessInv(n)'
  <2>1. CASE n = c
    <3>1. round'[c] = round[c] + 1 /\ vsize'[c] = Blocks /\ round[c] \in Nat /\ curIter[c] \in Nat
      BY <1>1, <1>4, <1>5 DEF TypeOK
    <3>2. Busy(c)' => round'[c] = curIter'[c] + 1
      BY <1>2, <1>4, <3>1 DEF Busy, Children
    <3>3. asEnd'[c] = asEnd[c] /\ polling'[c] = polling[c] /\ chunk'[c] = NoChunks
      BY <1>3, <1>4
    <3>4. ProcessInv(c)
      BY <1>1
    <3>. QED  BY <1>1, <2>1, <3>1, <3>2, <3>3, <3>4 DEF ProcessInv
  <2>2. CASE n # c
    <3>1. vsize'[n] = vsize[n] /\ round'[n] = round[n]
      BY <1>4, <1>5, <2>2 DEF TypeOK
    <3>. QED  BY <1>4, <3>1, ProcessFrame
  <2>. QED  BY <2>1, <2>2
<1>10. ASSUME NEW n \in Node, NEW b \in Block
       PROVE  /\ (chunk[n][b].count = Cardinality(Contributors(n, b)))'
              /\ (chunk[n][b].data = SumOf(Contributors(n, b), round[n]))'
  <2>1. CASE n = c
    BY <1>3, <1>4, <2>1, SumsCleared
  <2>2. CASE n # c
    BY <1>4, <1>5, <2>2, SumsFrame
  <2>. QED  BY <2>1, <2>2
<1>11. RequestInv(c)' /\ ResponseInv(c)'
  <2>1. Even(c)' /\ ~Behind(c)' /\ round'[c] = round[Parent[c]] /\ round'[Parent[c]] = round[Parent[c]]
    BY <1>1, <1>2, <1>5 DEF Even, Behind, TypeOK
  <2>2. down'[c] = <<>>
    BY <1>1, <1>7
  <2>3. Busy(Parent[c])'
    BY <1>1, <1>2, <1>4, <1>5 DEF Busy, Children
  <2>4. \A b \in Block : c \notin Contributors(Parent[c], b)'
    BY <1>2, <1>4 DEF Silent, Contributors, Summed, Children
  <2>5. CASE Children(c) = {}
    <3>. DEFINE vec == [b \in Block |-> {<<c, round'[c]>>}]
    <3>1. PICK accepted \in Accepted(c) : up' = [up EXCEPT ![c] = SendResponseVTo(@, vec, accepted)]
      BY <2>5 DEF HandleRequestV
    <3>2. up'[c] = SendResponseVTo(up[c], vec, accepted) /\ up[c] = <<>>
      BY <1>2, <3>1 DEF TypeOK, Silent
    <3>3. \A b \in Block : vec[b] = Below[c] \X {round'[Parent[c]]}
      <4>1. Below[c] = {c}
        BY <1>1, <2>5, BelowEquations
      <4>2. {<<c, round'[c]>>} = {c} \X {round'[c]}
        OBVIOUS
      <4>. QED  BY <2>1, <4>1, <4>2
    <3>. HIDE DEF vec
    <3>4. ResponseInv(c)'
      BY <2>4, <3>2, <3>3, FreshResponse
    <3>5. ~Busy(c)'
      BY <2>5 DEF Busy, Children
    <3>. QED  BY <2>1, <2>2, <2>3, <3>4, <3>5 DEF RequestInv
  <2>6. CASE Children(c) # {}
    <3>1. up'[c] = <<>>
      BY <1>2, <2>6 DEF HandleRequestV, Silent
    <3>2. Silent(c)'
      BY <2>4, <3>1 DEF Silent
    <3>. QED  BY <2>1, <2>2, <2>3, <3>1, <3>2 DEF RequestInv, ResponseInv
  <2>. QED  BY <2>5, <2>6
<1>12. ASSUME NEW d \in NonRoot
       PROVE  RequestInv(d)' /\ ResponseInv(d)'
  <2>1. CASE d = c
    BY <1>11, <2>1
  <2>2. CASE d # c /\ Parent[d] # c
    BY <1>1, <1>4, <1>5, <1>6, <1>7, <2>2, EdgeFrame
  <2>3. CASE d # c /\ Parent[d] = c
    <3>1. Children(c) # {} /\ d \in Node
      BY <2>3 DEF Children
    <3>2. Even(d) /\ ~Busy(d) /\ up[d] = <<>>
      BY <1>2, <2>3 DEF RequestInv
    <3>3. down[d] = <<>>
      BY <1>1, <2>3, <3>2 DEF RequestInv, Even, Behind, TypeOK
    <3>4. down'[d] \in {<<>>, <<Blocks>>}
      <4>. DEFINE read == [down EXCEPT ![c] = <<>>]
      <4>1. read[d] = <<>>
        BY <2>3, <3>3 DEF TypeOK
      <4>2. SendRequestVToAll(c, read, Blocks)
        BY <1>4
      <4>. HIDE DEF read
      <4>3. down'[d] \in {read[d], Append(read[d], Blocks)}
        BY <1>1, <2>3, <4>2, RequestsSent
      <4>. QED  BY <4>1, <4>3
    <3>5. round[d] = round[c] /\ round[c] = curIter[c] /\ round[d] \in Nat /\ round[c] \in Nat
      BY <1>1, <1>2, <2>3, <3>1, <3>2 DEF Even, Busy, TypeOK
    <3>6. /\ round'[d] = round[d] /\ round'[c] = round[c] + 1
          /\ curIter'[d] = curIter[d] /\ curIter'[c] # round'[c]
          /\ chunk'[c] = NoChunks /\ up'[d] = <<>>
      BY <1>1, <1>3, <1>4, <1>5, <1>6, <2>3, <3>1, <3>2, <3>5
    <3>. QED  BY <1>1, <2>3, <3>1, <3>2, <3>4, <3>5, <3>6, ChildAsked
  <2>. QED  BY <2>1, <2>2, <2>3
<1>. QED  BY <1>8, <1>9, <1>10, <1>12 DEF CountIsContributions, SumsOneRound

(* A process reads a block from its child c: what is known of the block. *)
LEMMA ResponseRead ==
  ASSUME IInv, NEW c \in NonRoot, up[c] # <<>>, NEW n, n = Parent[c],
         NEW m, m = Head(up[c])
  PROVE  /\ n \in Node /\ c \in Children(n) /\ m \in Response
         /\ m.val = Below[c] \X {round[n]}
         /\ c \notin Contributors(n, m.block)
         /\ Even(c) /\ ~Busy(c) /\ down[c] = <<>> /\ Busy(n)
         /\ \A i \in 1..Len(Tail(up[c])) :
              /\ Tail(up[c])[i] = up[c][i + 1]
              /\ Tail(up[c])[i].block # m.block
<1>. USE DEF IInv
<1>1. n \in Node /\ c \in Children(n) /\ m \in Response
  BY TreeAssumption DEF Children, TypeOK
<1>2. RequestInv(c) /\ ResponseInv(c) /\ up[c] \in Seq(Response) /\ Len(up[c]) \in Nat \ {0} /\ m = up[c][1]
  BY DEF TypeOK
<1>3. m.val = Below[c] \X {round[n]} /\ c \notin Contributors(n, m.block)
  BY <1>2 DEF ResponseInv
<1>4. ~Silent(c)
  BY DEF Silent
<1>5. Even(c) /\ ~Behind(c) /\ ~Busy(c) /\ Busy(n) /\ down[c] = <<>>
  BY <1>2, <1>4 DEF RequestInv
<1>6. ASSUME NEW i \in 1..Len(Tail(up[c]))
      PROVE  Tail(up[c])[i] = up[c][i + 1] /\ Tail(up[c])[i].block # m.block
  <2>1. i + 1 \in 1..Len(up[c]) /\ i + 1 # 1 /\ Tail(up[c])[i] = up[c][i + 1]
    BY <1>2
  <2>2. up[c][i + 1].block # up[c][1].block
    BY <1>2, <2>1 DEF ResponseInv
  <2>. QED  BY <1>2, <2>1, <2>2
<1>. QED  BY <1>1, <1>3, <1>5, <1>6

(* What reading m from c makes of block b of the sums of n: the children summed
   in it, its data and its count. *)
Adds(n, c, m, chunks, b) ==
  /\ Summed(n, chunks[b].data) = IF b = m.block THEN Contributors(n, b) \cup {c}
                                               ELSE Contributors(n, b)
  /\ chunks[b].data = SumOf(Summed(n, chunks[b].data), round[n])
  /\ chunks[b].count = Cardinality(Summed(n, chunks[b].data))

LEMMA ResponseSummed ==
  ASSUME IInv, NEW c \in NonRoot, up[c] # <<>>, NEW n, n = Parent[c],
         NEW m, m = Head(up[c]), NEW chunks, chunks = SumVector(chunk[n], m), NEW b \in Block
  PROVE  Adds(n, c, m, chunks, b)
<1>. USE DEF Adds
<1>1. /\ n \in Node /\ c \in Children(n) /\ m \in Response
      /\ m.val = Below[c] \X {round[n]}
      /\ c \notin Contributors(n, m.block)
  BY ResponseRead
<1>2. /\ chunk[n][b].count = Cardinality(Contributors(n, b))
      /\ chunk[n][b].data = SumOf(Contributors(n, b), round[n])
  BY <1>1 DEF IInv, CountIsContributions, SumsOneRound
<1>3. Contributors(n, b) \in SUBSET Children(n) /\ IsFiniteSet(Contributors(n, b))
  <2>1. Contributors(n, b) \in SUBSET Children(n)
    BY DEF Contributors, Summed
  <2>. QED  BY <1>1, <2>1, TreeAssumption, FS_Subset
<1>4. chunk[n] \in [Block -> Chunk] /\ m.block \in Block
  BY <1>1 DEF IInv, TypeOK, Response
<1>5. CASE b # m.block
  <2>1. chunks[b] = chunk[n][b]
    BY <1>4, <1>5 DEF SumVector
  <2>. QED  BY <1>2, <1>5, <2>1 DEF Contributors
<1>6. CASE b = m.block
  <2>. DEFINE S == Contributors(n, b) \cup {c}
  <2>1. chunks[b].count = chunk[n][b].count + 1 /\ chunks[b].data = chunk[n][b].data \cup m.val
    BY <1>4, <1>6 DEF SumVector
  <2>2. chunks[b].data = SumOf(S, round[n])
    <3>1. chunks[b].data = SumOf(Contributors(n, b), round[n]) \cup (Below[c] \X {round[n]})
      BY <1>1, <1>2, <2>1
    <3>2. SumOf(Contributors(n, b), round[n]) \cup (Below[c] \X {round[n]}) = SumOf(S, round[n])
      <4>1. \A T, r : SumOf(T, r) \cup (Below[c] \X {r}) = SumOf(T \cup {c}, r)
        BY SumOfAdd, ZenonT(60)
      <4>. QED  BY <4>1, Zenon
    <3>. QED  BY <3>1, <3>2, Zenon
  <2>3. S \in SUBSET Children(n)
    BY <1>1, <1>3
  <2>4. Cardinality(S) = Cardinality(Contributors(n, b)) + 1
    BY <1>1, <1>3, <1>6, FS_AddElement
  <2>5. chunks[b].count = Cardinality(S)
    BY <1>2, <2>1, <2>4
  <2>. HIDE DEF S
  <2>6. Summed(n, SumOf(S, round[n])) = S
    BY <1>1, <2>3, SummedSumOf, Zenon
  <2>7. Summed(n, chunks[b].data) = S
    BY <2>2, <2>6, Zenon
  <2>8. S = Contributors(n, b) \cup {c}
    BY DEF S
  <2>. QED  BY <1>6, <2>2, <2>5, <2>7, <2>8, Zenon
<1>. QED  BY <1>5, <1>6

(* A block arrives and does not complete the aggregation. *)
LEMMA InvResponsePartial ==
  ASSUME IInv, TypeOK', NEW c \in NonRoot, HandleResponseV(c),
         NEW n, n = Parent[c], NEW m, m = Head(up[c]),
         NEW chunks, chunks = SumVector(chunk[n], m),
         ~(Full(n, chunks[m.block]) /\ AvgEnd(n, chunks))
  PROVE  IInv'
<1>0. \A b \in Block : Adds(n, c, m, chunks, b)
  <2>1. up[c] # <<>>
    BY DEF HandleResponseV
  <2>. QED  BY <2>1, ResponseSummed, Zenon
<1>. USE DEF IInv
<1>1. /\ up[c] # <<>>
      /\ chunk' = [chunk EXCEPT ![n] = chunks]
      /\ up' = [up EXCEPT ![c] = Tail(@)]
      /\ asEnd' = [asEnd EXCEPT ![n] = @ /\ ~Full(n, chunks[m.block])]
      /\ UNCHANGED <<curIter, avg, down, stopping, round, vsize, polling, running>>
  BY DEF HandleResponseV
<1>2. /\ n \in Node /\ c \in Children(n) /\ m \in Response
      /\ c \notin Contributors(n, m.block)
      /\ Even(c) /\ ~Busy(c) /\ down[c] = <<>> /\ Busy(n)
      /\ \A i \in 1..Len(Tail(up[c])) :
           /\ Tail(up[c])[i] = up[c][i + 1]
           /\ Tail(up[c])[i].block # m.block
  BY <1>1, ResponseRead
<1>3. \A d \in NonRoot : Parent[d] \in Node /\ d \in Node
  BY TreeAssumption
<1>4. \A p \in Node : chunk'[p] = IF p = n THEN chunks ELSE chunk[p]
  BY <1>1, <1>2 DEF TypeOK
<1>5. \A b \in Block : Contributors(n, b)' = Summed(n, chunks[b].data)
  BY <1>2, <1>4 DEF Contributors, Summed, Children
<1>6. \A b \in Block : Contributors(n, b)' = IF b = m.block THEN Contributors(n, b) \cup {c}
                                                          ELSE Contributors(n, b)
  BY <1>0, <1>5 DEF Adds
<1>7. ResultIsComplete'
  BY <1>1 DEF ResultIsComplete
<1>8. ASSUME NEW p \in Node
      PROVE  ProcessInv(p)'
  <2>1. CASE p # n
    <3>1. asEnd'[p] = asEnd[p]
      BY <1>1, <2>1 DEF TypeOK
    <3>. QED  BY <1>1, <1>4, <2>1, <3>1, ProcessFrame
  <2>2. CASE p = n
    <3>1. asEnd'[n] => asEnd[n]
      BY <1>1, <1>2 DEF TypeOK
    <3>2. ProcessInv(n)
      BY <1>2
    <3>3. Busy(n)' /\ round[n] = curIter[n] + 1 /\ curIter[n] \in Nat
      BY <1>1, <1>2, <3>2 DEF Busy, Children, ProcessInv, TypeOK
    <3>4. polling[n]
      BY <3>2, <3>3 DEF ProcessInv
    <3>. QED  BY <1>1, <2>2, <3>1, <3>2, <3>3, <3>4 DEF ProcessInv
  <2>. QED  BY <2>1, <2>2
<1>9. ASSUME NEW p \in Node, NEW b \in Block
      PROVE  /\ (chunk[p][b].count = Cardinality(Contributors(p, b)))'
             /\ (chunk[p][b].data = SumOf(Contributors(p, b), round[p]))'
  <2>1. CASE p # n
    BY <1>1, <1>4, <2>1, SumsFrame
  <2>2. CASE p = n
    <3>1. /\ chunks[b].data = SumOf(Summed(n, chunks[b].data), round[n])
          /\ chunks[b].count = Cardinality(Summed(n, chunks[b].data))
      BY <1>0 DEF Adds
    <3>2. chunk'[n][b] = chunks[b] /\ round'[n] = round[n]
      BY <1>1, <1>2, <1>4
    <3>. QED  BY <1>5, <2>2, <3>1, <3>2 DEF SumOf
  <2>. QED  BY <2>1, <2>2
<1>10. ASSUME NEW d \in NonRoot
       PROVE  RequestInv(d)' /\ ResponseInv(d)'
  <2>1. CASE Parent[d] # n
    <3>1. up'[d] = up[d]
      BY <1>1, <2>1 DEF TypeOK
    <3>. QED  BY <1>1, <1>3, <1>4, <2>1, <3>1, EdgeFrame
  <2>2. CASE Parent[d] = n /\ d # c
    <3>1. up'[d] = up[d] /\ RequestInv(d) /\ ResponseInv(d)
      BY <1>1, <2>2 DEF TypeOK
    <3>2. \A b \in Block : d \in Contributors(n, b)' <=> d \in Contributors(n, b)
      BY <1>6, <2>2
    <3>3. (Busy(d)' <=> Busy(d)) /\ (Behind(d)' <=> Behind(d)) /\ (Even(d)' <=> Even(d)) /\ Busy(n)'
      BY <1>1, <1>2 DEF Busy, Behind, Even, Children
    <3>4. Silent(d) => Silent(d)'
      BY <2>2, <3>1, <3>2 DEF Silent
    <3>5. RequestInv(d)'
      BY <1>1, <2>2, <3>1, <3>3, <3>4 DEF RequestInv
    <3>6. \A i \in 1..Len(up[d]) : up[d][i].block \in Block
      <4>1. up[d] \in Seq(Response)
        BY DEF TypeOK
      <4>2. \A i \in 1..Len(up[d]) : up[d][i] \in Response
        BY <4>1
      <4>. QED  BY <4>2 DEF Response
    <3>7. ResponseInv(d)'
      BY <1>1, <2>2, <3>1, <3>2, <3>6 DEF ResponseInv
    <3>. QED  BY <3>5, <3>7
  <2>3. CASE d = c
    <3>1. up'[c] = Tail(up[c]) /\ RequestInv(c) /\ ResponseInv(c) /\ up[c] \in Seq(Response)
      BY <1>1, <2>3 DEF TypeOK
    <3>2. ~Busy(c)' /\ Even(c)' /\ ~Behind(c)' /\ Busy(n)'
      <4>1. ~Busy(c)'
        BY <1>1, <1>2, <1>3 DEF Busy, Children
      <4>2. Even(c)' /\ ~Behind(c)'
        BY <1>1, <1>2, <1>3 DEF Behind, Even, Children, TypeOK
      <4>3. Busy(n)'
        BY <1>1, <1>2, <1>3 DEF Busy, Children
      <4>. QED  BY <4>1, <4>2, <4>3
    <3>3. RequestInv(c)'
      BY <1>1, <1>2, <3>2 DEF RequestInv
    <3>4. ASSUME NEW i \in 1..Len(Tail(up[c]))
          PROVE  /\ i + 1 \in 1..Len(up[c]) /\ Tail(up[c])[i] = up[c][i + 1]
                 /\ up[c][i + 1].block \in Block \ {m.block}
      <4>1. i + 1 \in 1..Len(up[c]) /\ Tail(up[c])[i] = up[c][i + 1]
        BY <1>1, <3>1
      <4>2. up[c][i + 1] \in Response
        BY <3>1, <4>1
      <4>. QED  BY <1>2, <4>1, <4>2 DEF Response
    <3>5. ASSUME NEW i \in 1..Len(up'[c])
          PROVE  /\ up'[c][i].val = Below[c] \X {round'[n]}
                 /\ (c \notin Contributors(n, up[c][i].block))'
                 /\ \A j \in 1..Len(up'[c]) : up'[c][i].block = up'[c][j].block => i = j
      <4>1. /\ c \notin Contributors(n, up[c][i + 1].block)
            /\ up[c][i + 1].val = Below[c] \X {round[n]}
        BY <3>1, <3>4 DEF ResponseInv
      <4>2. \A b \in Block : b = up[c][i + 1].block => c \notin Contributors(n, b)'
        BY <1>6, <3>1, <3>4, <4>1
      <4>3. (c \notin Contributors(n, up[c][i].block))'
        BY <3>1, <3>4, <4>2
      <4>4. ASSUME NEW j \in 1..Len(up'[c]), up'[c][i].block = up'[c][j].block
            PROVE  i = j
        <5>1. i + 1 = j + 1
          BY <3>1, <3>4, <4>4 DEF ResponseInv
        <5>. QED  BY <5>1
      <4>. QED  BY <1>1, <3>1, <3>4, <4>1, <4>3, <4>4
    <3>6. ResponseInv(c)'
      BY <3>5 DEF ResponseInv
    <3>. QED  BY <2>3, <3>3, <3>6
  <2>. QED  BY <2>1, <2>2, <2>3
<1>. QED  BY <1>7, <1>8, <1>9, <1>10 DEF CountIsContributions, SumsOneRound

(* The uint8_t block range of a vector of at most 255 blocks is exact. *)
LEMMA Range8Exact == Range8(Blocks) = Blocks
BY SizeAssumption DEF Range8

(* When the last block arrives, every child has delivered all of its vector, is
   waiting for the next request, and has nothing left on the way: the average
   is the one of the whole subtree, in every block. *)
Completes(n, c, chunks) ==
  /\ vsize[n] = Blocks /\ round[n] = curIter[n] + 1
  /\ WriteChunk2Vec(n, chunks) = [b \in Block |-> Below[n] \X {round[n]}]
  /\ \A d \in Children(n) : /\ Even(d) /\ ~Busy(d) /\ down[d] = <<>>
                            /\ d # c => up[d] = <<>>
  /\ Tail(up[c]) = <<>>

LEMMA ResponseCompletes ==
  ASSUME IInv, NEW c \in NonRoot, up[c] # <<>>, NEW n, n = Parent[c],
         NEW m, m = Head(up[c]), NEW chunks, chunks = SumVector(chunk[n], m),
         AvgEnd(n, chunks)
  PROVE  Completes(n, c, chunks)
<1>1. /\ n \in Node /\ c \in Children(n) /\ m \in Response
      /\ c \notin Contributors(n, m.block)
      /\ Even(c) /\ ~Busy(c) /\ down[c] = <<>> /\ Busy(n)
      /\ \A i \in 1..Len(Tail(up[c])) :
           /\ Tail(up[c])[i] = up[c][i + 1]
           /\ Tail(up[c])[i].block # m.block
  BY ResponseRead
<1>2. \A b \in Block : Adds(n, c, m, chunks, b)
  BY ResponseSummed, Zenon
<1>3. vsize[n] = Blocks /\ round[n] = curIter[n] + 1
  <2>1. ProcessInv(n) /\ curIter[n] \in Nat
    BY <1>1 DEF IInv, TypeOK
  <2>2. round[n] = curIter[n] + 1
    BY <1>1, <2>1 DEF ProcessInv
  <2>3. round[n] > 0
    BY <2>1, <2>2
  <2>. QED  BY <2>1, <2>2, <2>3 DEF ProcessInv
<1>4. Range8(vsize[n]) = Blocks
  BY <1>3, Range8Exact
<1>5. ASSUME NEW b \in Block
      PROVE  Summed(n, chunks[b].data) = Children(n)
  <2>1. Cardinality(Summed(n, chunks[b].data)) = Cardinality(Children(n))
    <3>1. chunks[b].count = Cardinality(Summed(n, chunks[b].data))
      BY <1>2 DEF Adds
    <3>2. chunks[b].count = Cardinality(Children(n))
      BY <1>4 DEF AvgEnd, Full
    <3>. QED  BY <3>1, <3>2
  <2>2. Summed(n, chunks[b].data) \in SUBSET Children(n)
    BY DEF Summed
  <2>3. IsFiniteSet(Children(n))
    BY <1>1, TreeAssumption
  <2>. QED  BY <2>1, <2>2, <2>3, FS_Subset
<1>6. ASSUME NEW b \in Block, NEW d \in Children(n), d # c \/ b # m.block
      PROVE  d \in Contributors(n, b)
  <2>1. Children(n) = IF b = m.block THEN Contributors(n, b) \cup {c} ELSE Contributors(n, b)
    BY <1>2, <1>5 DEF Adds
  <2>. QED  BY <1>6, <2>1
<1>7. Children(n) # {}
  BY <1>1
<1>8. WriteChunk2Vec(n, chunks) = [b \in Block |-> Below[n] \X {round[n]}]
  <2>1. ASSUME NEW b \in Block
        PROVE  b <= Range8(vsize[n]) /\ chunks[b].data = Below[n] \X {round[n]}
    <3>1. chunks[b].data = SumOf(Children(n), round[n])
      <4>1. chunks[b].data = SumOf(Summed(n, chunks[b].data), round[n])
        BY <1>2 DEF Adds
      <4>. QED  BY <1>5, <4>1
    <3>2. SumOf(Children(n), round[n]) = Below[n] \X {round[n]}
      BY <1>1, <1>7, SumOfChildren
    <3>. QED  BY <1>4, <3>1, <3>2
  <2>. QED  BY <2>1 DEF WriteChunk2Vec
<1>9. ASSUME NEW d \in Children(n), d # c
      PROVE  Even(d) /\ ~Busy(d) /\ down[d] = <<>> /\ up[d] = <<>>
  <2>1. d \in NonRoot /\ Parent[d] = n
    BY DEF Children
  <2>2. RequestInv(d) /\ ResponseInv(d) /\ up[d] \in Seq(Response)
    BY <2>1 DEF IInv, TypeOK
  <2>3. 1 \in Block
    BY SizeAssumption
  <2>4. ~Silent(d)
    BY <1>6, <1>9, <2>1, <2>3 DEF Silent
  <2>5. Even(d) /\ ~Busy(d) /\ down[d] = <<>>
    BY <2>2, <2>4 DEF RequestInv
  <2>6. ASSUME up[d] # <<>>
        PROVE  FALSE
    <3>1. 1 \in 1..Len(up[d]) /\ up[d][1] \in Response
      BY <2>2, <2>6
    <3>2. d \notin Contributors(n, up[d][1].block) /\ up[d][1].block \in Block
      BY <2>1, <2>2, <3>1 DEF ResponseInv, Response
    <3>. QED  BY <1>6, <1>9, <3>2
  <2>. QED  BY <2>5, <2>6
<1>10. Tail(up[c]) = <<>>
  <2>1. up[c] \in Seq(Response) /\ ResponseInv(c)
    BY DEF IInv, TypeOK
  <2>2. ASSUME Tail(up[c]) # <<>>
        PROVE  FALSE
    <3>1. /\ 1 \in 1..Len(Tail(up[c])) /\ 2 \in 1..Len(up[c])
          /\ Tail(up[c])[1] = up[c][2] /\ up[c][2] \in Response
      BY <2>1, <2>2
    <3>2. c \notin Contributors(n, up[c][2].block)
      BY <2>1, <3>1 DEF ResponseInv
    <3>3. up[c][2].block \in Block /\ up[c][2].block # m.block
      BY <1>1, <3>1 DEF Response
    <3>. QED  BY <1>1, <1>6, <3>2, <3>3
  <2>. QED  BY <2>2
<1>. QED  BY <1>1, <1>3, <1>8, <1>9, <1>10 DEF Completes

(* What AVG does in the step that completes an aggregation. *)
CompleteStep(n, c, chunks) ==
  /\ up[c] # <<>>
  /\ asEnd' = [asEnd EXCEPT ![n] = FALSE]
  /\ curIter' = [curIter EXCEPT ![n] = @ + 1]
  /\ ReportAverage(n, chunks, [up EXCEPT ![c] = Tail(@)])
  /\ IF curIter[n] + 1 < MaxIteration(n)
       THEN /\ SendRequestVToAll(n, down, vsize[n])
            /\ round' = [round EXCEPT ![n] = @ + 1]
       ELSE UNCHANGED <<down, round>>
  /\ UNCHANGED <<vsize, polling, running>>

LEMMA ResponseCompleteStep ==
  ASSUME IInv, NEW c \in NonRoot, HandleResponseV(c), NEW n, n = Parent[c],
         NEW m, m = Head(up[c]), NEW chunks, chunks = SumVector(chunk[n], m),
         Full(n, chunks[m.block]), AvgEnd(n, chunks)
  PROVE  CompleteStep(n, c, chunks)
<1>. DEFINE rest == [up EXCEPT ![c] = Tail(@)]
<1>1. AVG(n, curIter[n] + 1, chunks, rest) /\ up[c] # <<>> /\ UNCHANGED <<vsize, polling, running>>
  BY DEF HandleResponseV
<1>2. curIter[n] + 1 > 0
  <2>1. n \in Node
    BY TreeAssumption
  <2>. QED  BY <2>1 DEF IInv, TypeOK
<1>. HIDE DEF rest
<1>3. /\ asEnd' = [asEnd EXCEPT ![n] = FALSE]
      /\ curIter' = [curIter EXCEPT ![n] = curIter[n] + 1]
      /\ ReportAverage(n, chunks, rest)
      /\ IF curIter[n] + 1 < MaxIteration(n)
           THEN /\ SendRequestVToAll(n, down, vsize[n])
                /\ round' = [round EXCEPT ![n] = @ + 1]
           ELSE UNCHANGED <<down, round>>
  BY <1>1, <1>2, Zenon DEF AVG
<1>. QED  BY <1>1, <1>3 DEF rest, CompleteStep

LEMMA InvResponseComplete ==
  ASSUME IInv, TypeOK', NEW c \in NonRoot, HandleResponseV(c), NEW n, n = Parent[c],
         NEW m, m = Head(up[c]), NEW chunks, chunks = SumVector(chunk[n], m),
         Full(n, chunks[m.block]), AvgEnd(n, chunks)
  PROVE  IInv'
<1>. DEFINE rest == [up EXCEPT ![c] = Tail(@)]
            vec == WriteChunk2Vec(n, chunks)
<1>1. CompleteStep(n, c, chunks)
  BY ResponseCompleteStep, Zenon
<1>2. Completes(n, c, chunks)
  <2>1. up[c] # <<>>
    BY <1>1 DEF CompleteStep
  <2>. QED  BY <2>1, ResponseCompletes, Zenon
<1>. USE DEF IInv
<1>3. /\ n \in Node /\ c \in Children(n) /\ Children(n) # {}
      /\ \A d \in NonRoot : Parent[d] \in Node /\ d \in Node /\ Parent[d] # d
  BY TreeAssumption, NotOwnParent DEF Children
<1>4. /\ curIter[n] \in Nat /\ round[n] \in Nat /\ round[n] = curIter[n] + 1
      /\ vsize[n] = Blocks /\ Busy(n)
  BY <1>2, <1>3 DEF Completes, TypeOK, Busy
<1>5. /\ vsize' = vsize /\ polling' = polling
      /\ asEnd'[n] = FALSE
      /\ curIter'[n] = round[n]
      /\ chunk'[n] = NoChunks
      /\ avg'[n] = vec
  BY <1>1, <1>3, <1>4 DEF CompleteStep, ReportAverage, ClearChunkMap, TypeOK
<1>6. \A p \in Node : p # n => /\ asEnd'[p] = asEnd[p] /\ curIter'[p] = curIter[p]
                               /\ chunk'[p] = chunk[p] /\ avg'[p] = avg[p]
  BY <1>1 DEF CompleteStep, ReportAverage, ClearChunkMap, TypeOK
<1>7. vec = [b \in Block |-> Below[n] \X {round[n]}]
  BY <1>2 DEF Completes
<1>. HIDE DEF vec
<1>8. \A d \in NonRoot : rest[d] = IF d = c THEN <<>> ELSE up[d]
  BY <1>2 DEF Completes, TypeOK
<1>9. n # Root => \E accepted \in Accepted(n) : up' = [rest EXCEPT ![n] = SendResponseVTo(@, vec, accepted)]
  BY <1>1 DEF CompleteStep, ReportAverage, ClearChunkMap, vec
<1>10. n = Root => up' = rest
  BY <1>1 DEF CompleteStep, ReportAverage, ClearChunkMap
<1>11. rest \in [NonRoot -> Seq(Response)]
  <2>1. rest = [d \in NonRoot |-> rest[d]]
    BY DEF TypeOK
  <2>2. up \in [NonRoot -> Seq(Response)] /\ <<>> \in Seq(Response)
    BY DEF TypeOK
  <2>. HIDE DEF rest
  <2>3. \A d \in NonRoot : rest[d] \in Seq(Response)
    BY <1>8, <2>2
  <2>. QED  BY <2>1, <2>3
<1>. HIDE DEF rest
<1>12. \A d \in NonRoot : d # n => up'[d] = rest[d]
  BY <1>9, <1>10, <1>11
<1>13. \/ /\ n = Root /\ curIter[n] + 1 < Itr
          /\ SendRequestVToAll(n, down, Blocks)
          /\ round' = [round EXCEPT ![n] = @ + 1]
       \/ UNCHANGED <<down, round>>
  <2>1. CASE n = Root
    BY <1>1, <1>4, <2>1 DEF CompleteStep, MaxIteration
  <2>2. CASE n # Root
    <3>1. ~(curIter[n] + 1 < MaxIteration(n))
      BY <1>4, <2>2 DEF MaxIteration
    <3>. QED  BY <1>1, <3>1, Zenon DEF CompleteStep
  <2>. QED  BY <2>1, <2>2
<1>14. \A p \in Node : p # n => round'[p] = round[p]
  BY <1>13 DEF TypeOK
<1>15. ResultIsComplete'
  <2>1. CASE n = Root
    <3>1. \A b \in Block : avg'[Root][b] = Below[Root] \X {curIter'[Root]}
      BY <1>5, <1>7, <2>1
    <3>2. curIter'[Root] # 0
      BY <1>4, <1>5, <2>1
    <3>. QED  BY <3>1, <3>2 DEF ResultIsComplete
  <2>2. CASE n # Root
    BY <1>6, <2>2, TreeAssumption DEF ResultIsComplete
  <2>. QED  BY <2>1, <2>2
<1>16. ASSUME NEW p \in Node
       PROVE  ProcessInv(p)'
  <2>1. CASE p # n
    BY <1>5, <1>6, <1>14, <2>1, ProcessFrame
  <2>2. CASE p = n
    <3>1. ProcessInv(n)
      BY <1>3
    <3>2. polling[n] /\ (n = Root \/ round[n] > 0)
      BY <1>4, <3>1 DEF ProcessInv
    <3>3. round'[n] = round[n] \/ round'[n] = round[n] + 1
      BY <1>3, <1>13 DEF TypeOK
    <3>4. Busy(n)' => round'[n] = curIter'[n] + 1
      BY <1>4, <1>5, <3>3 DEF Busy, Children
    <3>. QED  BY <1>4, <1>5, <2>2, <3>2, <3>4 DEF ProcessInv
  <2>. QED  BY <2>1, <2>2
<1>17. ASSUME NEW p \in Node, NEW b \in Block
       PROVE  /\ (chunk[p][b].count = Cardinality(Contributors(p, b)))'
              /\ (chunk[p][b].data = SumOf(Contributors(p, b), round[p]))'
  <2>1. CASE p = n
    BY <1>5, <2>1, SumsCleared
  <2>2. CASE p # n
    BY <1>6, <1>14, <2>2, SumsFrame
  <2>. QED  BY <2>1, <2>2
<1>18. ASSUME NEW d \in NonRoot, Parent[d] = n
       PROVE  RequestInv(d)' /\ ResponseInv(d)'
  <2>1. /\ d \in Children(n) /\ d \in Node /\ d # n
    BY <1>3, <1>18 DEF Children
  <2>2. Even(d) /\ ~Busy(d) /\ down[d] = <<>> /\ rest[d] = <<>>
    BY <1>2, <1>8, <2>1 DEF Completes
  <2>3. /\ round[d] = round[n] /\ round[d] \in Nat /\ up'[d] = <<>>
        /\ round'[d] = round[d] /\ curIter'[d] = curIter[d]
    BY <1>6, <1>12, <1>14, <1>18, <2>1, <2>2 DEF Even, TypeOK
  <2>4. CASE UNCHANGED <<down, round>>
    <3>1. down'[d] = <<>> /\ round'[n] = round[n] /\ curIter'[n] = round'[n]
      BY <1>5, <2>2, <2>4
    <3>. QED  BY <1>3, <1>4, <1>18, <2>2, <2>3, <3>1, ChildAnswered
  <2>5. CASE SendRequestVToAll(n, down, Blocks) /\ round' = [round EXCEPT ![n] = @ + 1]
    <3>1. round'[n] = round[n] + 1 /\ curIter'[n] # round'[n]
      <4>1. round \in [Node -> Nat]
        BY DEF TypeOK
      <4>2. round'[n] = round[n] + 1
        BY <1>3, <2>5, <4>1
      <4>. QED  BY <1>4, <1>5, <4>2
    <3>2. down'[d] \in {down[d], Append(down[d], Blocks)}
      BY <1>3, <1>18, <2>5, RequestsSent
    <3>3. down'[d] \in {<<>>, <<Blocks>>}
      BY <2>2, <3>2
    <3>. QED  BY <1>3, <1>4, <1>5, <1>18, <2>2, <2>3, <3>1, <3>3, ChildAsked
  <2>. QED  BY <1>13, <2>4, <2>5
<1>19. ASSUME NEW d \in NonRoot, Parent[d] # n, d # n
       PROVE  RequestInv(d)' /\ ResponseInv(d)'
  <2>1. up'[d] = up[d]
    BY <1>3, <1>8, <1>12, <1>19 DEF Children
  <2>2. down'[d] = down[d]
    <3>1. CASE SendRequestVToAll(n, down, Blocks)
      BY <1>3, <1>19, <3>1, RequestsSent
    <3>2. CASE down' = down
      BY <3>2
    <3>. QED  BY <1>13, <3>1, <3>2
  <2>. QED  BY <1>3, <1>6, <1>14, <1>19, <2>1, <2>2, EdgeFrame
<1>20. ASSUME n \in NonRoot
       PROVE  RequestInv(n)' /\ ResponseInv(n)'
  <2>. DEFINE p == Parent[n]
  <2>1. p \in Node /\ p # n /\ n # Root
    BY <1>3, <1>20
  <2>2. RequestInv(n)
    BY <1>20
  <2>3. Even(n) /\ ~Behind(n) /\ Silent(n) /\ Busy(p) /\ down[n] = <<>>
    BY <1>4, <2>2 DEF RequestInv
  <2>4. down' = down /\ round' = round
    BY <1>13, <2>1
  <2>5. chunk'[p] = chunk[p] /\ curIter'[p] = curIter[p] /\ round[n] = round[p]
    BY <1>6, <2>1, <2>3 DEF Even
  <2>6. \A b \in Block : n \notin Contributors(p, b)'
    BY <2>3, <2>5 DEF Silent, Contributors, Summed, Children
  <2>7. rest[n] = <<>>
    BY <1>8, <1>20, <2>3 DEF Silent
  <2>8. PICK accepted \in Accepted(n) : up'[n] = SendResponseVTo(rest[n], vec, accepted)
    BY <1>9, <1>11, <1>20, <2>1
  <2>9. \A b \in Block : vec[b] = Below[n] \X {round'[p]}
    BY <1>7, <2>4, <2>5
  <2>10. ResponseInv(n)'
    BY <1>20, <2>6, <2>7, <2>8, <2>9, FreshResponse
  <2>11. Even(n)' /\ ~Behind(n)' /\ ~Busy(n)' /\ Busy(p)'
    BY <1>4, <1>5, <2>3, <2>4, <2>5 DEF Even, Behind, Busy, Children
  <2>. QED  BY <2>3, <2>4, <2>10, <2>11 DEF RequestInv
<1>21. \A d \in NonRoot : RequestInv(d)' /\ ResponseInv(d)'
  BY <1>18, <1>19, <1>20
<1>. QED  BY <1>15, <1>16, <1>17, <1>21 DEF CountIsContributions, SumsOneRound

(* The events that deliver nothing. *)
LEMMA InvQuiet ==
  ASSUME IInv, TypeOK', polling' = polling,
         UNCHANGED <<asEnd, curIter, vsize, chunk, avg, down, up, round>>
  PROVE  IInv'
<1>. USE DEF IInv
<1>1. \A d \in NonRoot : Parent[d] \in Node
  BY TreeAssumption
<1>2. ASSUME NEW d \in NonRoot
      PROVE  RequestInv(d)' /\ ResponseInv(d)'
  BY <1>1, EdgeFrame
<1>3. ASSUME NEW n \in Node
      PROVE  ProcessInv(n)'
  BY ProcessFrame
<1>4. ASSUME NEW n \in Node, NEW b \in Block
      PROVE  /\ (chunk[n][b].count = Cardinality(Contributors(n, b)))'
             /\ (chunk[n][b].data = SumOf(Contributors(n, b), round[n]))'
  BY SumsFrame
<1>5. ResultIsComplete'
  BY DEF ResultIsComplete
<1>. QED  BY <1>2, <1>3, <1>4, <1>5 DEF CountIsContributions, SumsOneRound

(* The invariant is inductive. *)
LEMMA InvStep == IInv /\ [Next]_vars => IInv'
<1>. SUFFICES ASSUME IInv, [Next]_vars
              PROVE  IInv'
  OBVIOUS
<1>1. TypeOK'
  <2>1. TypeOK
    BY DEF IInv
  <2>. QED  BY <2>1, TypeStep, Zenon
<1>2. CASE StartApplication
  BY <1>1, <1>2, InvStart, Zenon
<1>3. ASSUME NEW c \in NonRoot, HandleRequestV(c)
      PROVE  IInv'
  BY <1>1, <1>3, InvHandleRequestV, Zenon
<1>4. ASSUME NEW c \in NonRoot, HandleResponseV(c)
      PROVE  IInv'
  <2>. DEFINE n == Parent[c]
              m == Head(up[c])
              chunks == SumVector(chunk[n], m)
  <2>1. CASE Full(n, chunks[m.block]) /\ AvgEnd(n, chunks)
    BY <1>1, <1>4, <2>1, InvResponseComplete, Zenon
  <2>2. CASE ~(Full(n, chunks[m.block]) /\ AvgEnd(n, chunks))
    BY <1>1, <1>4, <2>2, InvResponsePartial, Zenon
  <2>. QED  BY <2>1, <2>2, Zenon
<1>5. ASSUME NEW n \in Node, RepeatPoll(n)
      PROVE  IInv'
  <2>1. ProcessInv(n)
    BY DEF IInv
  <2>2. polling[n] /\ ~asEnd[n]
    BY <1>5, <2>1 DEF RepeatPoll, ProcessInv
  <2>3. polling' = polling
    BY <1>5, <2>2 DEF RepeatPoll, IInv, TypeOK
  <2>. QED  BY <1>1, <1>5, <2>3, InvQuiet DEF RepeatPoll
<1>6. CASE SimulatorStop
  BY <1>1, <1>6, InvQuiet DEF SimulatorStop, node
<1>7. CASE UNCHANGED vars
  BY <1>1, <1>7, InvQuiet DEF vars
<1>. QED  BY <1>2, <1>3, <1>4, <1>5, <1>6, <1>7, Zenon DEF Next

THEOREM Invariance == Spec => []IInv
<1>. QED  BY InvInit, InvStep, PTL DEF Spec

-----------------------------------------------------------------------------
(***************************************************************************)
(* What follows from the invariant.                                        *)
(***************************************************************************)

(* Whatever the tree, and whatever its links refuse to carry, each block of the
   consumer's result is the average of the vectors of all producers of one and
   the same iteration (AVG and WriteChunk2Vec at the root). *)
THEOREM ResultCorrect == Spec => []ResultIsComplete
<1>1. IInv => ResultIsComplete
  BY DEF IInv
<1>. QED  BY <1>1, Invariance, PTL

(* No child enters a sum twice, and no sum that was divided is added to
   (HandleResponseV, SumVector, ClearChunkMap). *)
THEOREM CountCorrect == Spec => []CountIsContributions
<1>1. IInv => CountIsContributions
  BY DEF IInv
<1>. QED  BY <1>1, Invariance, PTL

(* No sum mixes the vectors of two iterations. *)
THEOREM RoundsNotMixed == Spec => []SumsOneRound
<1>1. IInv => SumsOneRound
  BY DEF IInv
<1>. QED  BY <1>1, Invariance, PTL

(* No process is ahead of its parent, nor more than one request behind it
   (AVG and HandleRequestV between them). *)
THEOREM Synchronous == Spec => []LockStep
<1>1. IInv => LockStep
  <2>. SUFFICES ASSUME IInv, NEW c \in NonRoot
                PROVE  /\ round[c] + Len(down[c]) <= round[Parent[c]]
                       /\ round[Parent[c]] <= round[c] + 1
    BY DEF LockStep
  <2>1. RequestInv(c) /\ round[c] \in Nat /\ round[Parent[c]] \in Nat
    BY TreeAssumption DEF IInv, TypeOK
  <2>2. CASE down[c] = <<>>
    BY <2>1, <2>2 DEF RequestInv, Behind, Even
  <2>3. CASE down[c] # <<>>
    <3>1. down[c] = <<Blocks>> /\ round[Parent[c]] = round[c] + 1
      BY <2>1, <2>3 DEF RequestInv, Behind
    <3>2. Len(down[c]) = 1
      BY <3>1
    <3>. QED  BY <2>1, <3>1, <3>2
  <2>. QED  BY <2>2, <2>3
<1>. QED  BY <1>1, Invariance, PTL

(* A request finds its receiver idle: HandleRequestV need not clear the chunks. *)
THEOREM RequestsFindIdle == Spec => []RequestFindsIdle
<1>1. IInv => RequestFindsIdle
  <2>. SUFFICES ASSUME IInv, NEW c \in NonRoot, down[c] # <<>>
                PROVE  /\ Len(down[c]) = 1
                       /\ chunk[c] = NoChunks
                       /\ up[c] = <<>>
                       /\ \A d \in Children(c) : up[d] = <<>> /\ down[d] = <<>>
    BY DEF RequestFindsIdle
  <2>1. RequestInv(c) /\ ProcessInv(c) /\ c \in Node
    BY DEF IInv
  <2>2. down[c] = <<Blocks>> /\ ~Busy(c) /\ Silent(c)
    BY <2>1 DEF RequestInv
  <2>3. ASSUME NEW d \in Children(c)
        PROVE  up[d] = <<>> /\ down[d] = <<>>
    <3>1. d \in NonRoot /\ Parent[d] = c
      BY DEF Children
    <3>2. RequestInv(d) /\ round[d] \in Nat /\ round[c] \in Nat
      BY <2>1, <3>1 DEF IInv, TypeOK
    <3>3. Even(d) /\ up[d] = <<>>
      BY <2>2, <3>1, <3>2 DEF RequestInv
    <3>. QED  BY <3>1, <3>2, <3>3 DEF RequestInv, Even, Behind
  <2>. QED  BY <2>1, <2>2, <2>3 DEF ProcessInv, Silent
<1>. QED  BY <1>1, Invariance, PTL

(* ReceiveDataFromAll never decides not to schedule itself again. *)
THEOREM PollsForever == Spec => []PollNeverDies
<1>1. IInv => PollNeverDies
  BY DEF IInv, ProcessInv, PollNeverDies
<1>. QED  BY <1>1, Invariance, PTL

-----------------------------------------------------------------------------
(***************************************************************************)
(* The tree implements the aggregation service.                            *)
(***************************************************************************)

service == <<round[Root], curIter[Root], avg[Root]>>

LEMMA ServiceInit == Init => Service!Init
BY TreeAssumption DEF Init, Service!Init, Zeros

(* A step that leaves the consumer's round, count and result alone. *)
LEMMA ServiceStutter ==
  ASSUME round'[Root] = round[Root], curIter'[Root] = curIter[Root], avg'[Root] = avg[Root]
  PROVE  UNCHANGED service
BY DEF service

LEMMA ServiceStart ==
  ASSUME IInv, StartApplication
  PROVE  Service!Next \/ UNCHANGED service
<1>1. Root \in Node /\ round[Root] = 0 /\ curIter[Root] = 0
  <2>1. asEnd[Root] /\ ~polling[Root] /\ Root \in Node
    BY TreeAssumption DEF StartApplication
  <2>. QED  BY <2>1 DEF IInv, ProcessInv
<1>2. AVG(Root, 0, chunk[Root], up)
  BY <1>1 DEF StartApplication
<1>3. curIter' = [curIter EXCEPT ![Root] = 0] /\ avg' = avg
  <2>1. ~(0 > 0)
    OBVIOUS
  <2>. QED  BY <1>2, <2>1, Zenon DEF AVG
<1>4. IF 0 < Itr THEN round' = [round EXCEPT ![Root] = @ + 1] ELSE round' = round
  BY <1>2, Zenon DEF AVG, MaxIteration
<1>5. curIter'[Root] = curIter[Root] /\ avg'[Root] = avg[Root]
  BY <1>1, <1>3 DEF IInv, TypeOK
<1>6. CASE 0 < Itr
  <2>1. round'[Root] = 1
    BY <1>1, <1>4, <1>6 DEF IInv, TypeOK
  <2>. QED  BY <1>1, <1>5, <1>6, <2>1 DEF Service!Next, Service!Ask
<1>7. CASE ~(0 < Itr)
  BY <1>4, <1>5, <1>7, ServiceStutter
<1>. QED  BY <1>6, <1>7

LEMMA ServiceResponse ==
  ASSUME IInv, NEW c \in NonRoot, HandleResponseV(c)
  PROVE  Service!Next \/ UNCHANGED service
<1>. DEFINE n == Parent[c]
            m == Head(up[c])
            chunks == SumVector(chunk[n], m)
            vec == WriteChunk2Vec(n, chunks)
<1>1. CASE ~(Full(n, chunks[m.block]) /\ AvgEnd(n, chunks))
  BY <1>1, ServiceStutter DEF HandleResponseV
<1>2. CASE Full(n, chunks[m.block]) /\ AvgEnd(n, chunks)
  <2>1. CompleteStep(n, c, chunks)
    BY <1>2, ResponseCompleteStep, Zenon
  <2>2. Completes(n, c, chunks)
    <3>1. up[c] # <<>>
      BY <2>1 DEF CompleteStep
    <3>. QED  BY <1>2, <3>1, ResponseCompletes, Zenon
  <2>. HIDE DEF chunks, m
  <2>3. /\ curIter' = [curIter EXCEPT ![n] = @ + 1]
        /\ avg' = [avg EXCEPT ![n] = vec]
        /\ IF curIter[n] + 1 < MaxIteration(n)
             THEN round' = [round EXCEPT ![n] = @ + 1]
             ELSE round' = round
    BY <2>1 DEF CompleteStep, ReportAverage, ClearChunkMap
  <2>4. /\ vec = [b \in Block |-> Below[n] \X {round[n]}]
        /\ round[n] = curIter[n] + 1
    BY <2>2 DEF Completes
  <2>. HIDE DEF vec
  <2>5. /\ curIter \in [Node -> Nat] /\ round \in [Node -> Nat]
        /\ avg \in [Node -> [Block -> SUBSET Contribution]]
    BY DEF IInv, TypeOK
  <2>6. CASE n = Root
    <3>1. MaxIteration(n) = Itr /\ Root \in Node
      BY <2>6, TreeAssumption DEF MaxIteration
    <3>2. round'[Root] = IF round[Root] < Itr THEN round[Root] + 1 ELSE round[Root]
      BY <2>3, <2>4, <2>5, <2>6, <3>1
    <3>3. curIter'[Root] = round[Root]
      BY <2>3, <2>4, <2>5, <2>6, <3>1
    <3>4. avg'[Root] = [b \in Block |-> Below[Root] \X {round[Root]}]
      BY <2>3, <2>4, <2>5, <2>6, <3>1
    <3>5. round[Root] = curIter[Root] + 1
      BY <2>4, <2>6
    <3>. QED  BY <3>2, <3>3, <3>4, <3>5 DEF Service!Next, Service!Answer
  <2>7. CASE n # Root
    <3>1. curIter'[Root] = curIter[Root] /\ avg'[Root] = avg[Root] /\ round'[Root] = round[Root]
      BY <2>3, <2>5, <2>7, TreeAssumption
    <3>. QED  BY <3>1, ServiceStutter
  <2>. QED  BY <2>6, <2>7
<1>. QED  BY <1>1, <1>2, Zenon

LEMMA ServiceStep == IInv /\ [Next]_vars => [Service!Next]_service
<1>. SUFFICES ASSUME IInv, [Next]_vars
              PROVE  Service!Next \/ UNCHANGED service
  OBVIOUS
<1>1. CASE StartApplication
  BY <1>1, ServiceStart
<1>2. ASSUME NEW c \in NonRoot, HandleRequestV(c)
      PROVE  UNCHANGED service
  <2>1. c # Root /\ Root \in Node
    BY TreeAssumption
  <2>2. round' = [round EXCEPT ![c] = @ + 1] /\ avg' = [avg EXCEPT ![c] = Zeros] /\ curIter' = curIter
    BY <1>2 DEF HandleRequestV
  <2>3. round'[Root] = round[Root] /\ avg'[Root] = avg[Root]
    BY <2>1, <2>2 DEF IInv, TypeOK
  <2>. QED  BY <2>2, <2>3, ServiceStutter
<1>3. ASSUME NEW c \in NonRoot, HandleResponseV(c)
      PROVE  Service!Next \/ UNCHANGED service
  BY <1>3, ServiceResponse
<1>4. ASSUME UNCHANGED <<round, curIter, avg>>
      PROVE  UNCHANGED service
  BY <1>4, ServiceStutter
<1>5. ASSUME NEW n \in Node, RepeatPoll(n)
      PROVE  UNCHANGED service
  BY <1>4, <1>5 DEF RepeatPoll
<1>6. CASE SimulatorStop
  BY <1>4, <1>6 DEF SimulatorStop, node
<1>7. CASE UNCHANGED vars
  BY <1>4, <1>7 DEF vars
<1>. QED  BY <1>1, <1>2, <1>3, <1>5, <1>6, <1>7, Zenon DEF Next

(* Every behaviour of the tree is one of the service: iterations complete one
   by one, each in a single step and with the right result. *)
THEOREM Implementation == Spec => ImplementsService
<1>1. Service!Spec <=> Service!Init /\ [][Service!Next]_service
  BY DEF Service!Spec, service
<1>. QED  BY <1>1, ServiceInit, ServiceStep, Invariance, PTL DEF Spec, ImplementsService

-----------------------------------------------------------------------------
(* Without aggregators only the consumer runs AVG. *)
LEMMA StopAfterAVG ==
  ASSUME TypeOK, StopOnlyWhenDone, NEW iter \in Nat, curIter[Root] <= iter,
         NEW chunks, NEW inbox, AVG(Root, iter, chunks, inbox)
  PROVE  StopOnlyWhenDone'
<1>1. Root \in Node /\ curIter \in [Node -> Nat] /\ Itr \in Nat
  BY TreeAssumption, SizeAssumption DEF TypeOK
<1>2. curIter' = [curIter EXCEPT ![Root] = iter] /\ stopping' = (stopping \/ iter >= Itr)
  BY Zenon DEF AVG, MaxIteration
<1>3. curIter'[Root] = iter
  BY <1>1, <1>2
<1>4. CASE stopping
  <2>1. curIter[Root] >= Itr
    BY <1>4 DEF StopOnlyWhenDone
  <2>. QED  BY <1>1, <1>3, <2>1 DEF StopOnlyWhenDone
<1>5. CASE ~stopping
  BY <1>2, <1>3, <1>5 DEF StopOnlyWhenDone
<1>. QED  BY <1>4, <1>5

LEMMA StopStep ==
  ASSUME \A c \in NonRoot : Parent[c] = Root, TypeOK, StopOnlyWhenDone, [Next]_vars
  PROVE  StopOnlyWhenDone'
<1>1. Root \in Node /\ curIter \in [Node -> Nat]
  BY TreeAssumption DEF TypeOK
<1>2. ASSUME UNCHANGED <<curIter, stopping>>
      PROVE  StopOnlyWhenDone'
  BY <1>2 DEF StopOnlyWhenDone
<1>3. CASE StartApplication
  BY <1>1, <1>3, StopAfterAVG DEF StartApplication
<1>4. ASSUME NEW c \in NonRoot, HandleResponseV(c)
      PROVE  StopOnlyWhenDone'
  <2>. DEFINE chunks == SumVector(chunk[Parent[c]], Head(up[c]))
  <2>1. Parent[c] = Root
    OBVIOUS
  <2>2. CASE Full(Root, chunks[Head(up[c]).block]) /\ AvgEnd(Root, chunks)
    <3>1. AVG(Root, curIter[Root] + 1, chunks, [up EXCEPT ![c] = Tail(@)])
      BY <1>4, <2>1, <2>2, Zenon DEF HandleResponseV
    <3>2. curIter[Root] + 1 \in Nat /\ curIter[Root] <= curIter[Root] + 1
      BY <1>1
    <3>. HIDE DEF chunks
    <3>. QED  BY <3>1, <3>2, StopAfterAVG
  <2>3. CASE ~(Full(Root, chunks[Head(up[c]).block]) /\ AvgEnd(Root, chunks))
    <3>1. UNCHANGED <<curIter, stopping>>
      BY <1>4, <2>1, <2>3, Zenon DEF HandleResponseV
    <3>. QED  BY <3>1, <1>2
  <2>. QED  BY <2>2, <2>3
<1>5. ASSUME NEW c \in NonRoot, HandleRequestV(c)
      PROVE  StopOnlyWhenDone'
  BY <1>2, <1>5 DEF HandleRequestV
<1>6. ASSUME NEW n \in Node, RepeatPoll(n)
      PROVE  StopOnlyWhenDone'
  BY <1>2, <1>6 DEF RepeatPoll
<1>7. CASE SimulatorStop
  BY <1>2, <1>7 DEF SimulatorStop, node
<1>8. CASE UNCHANGED vars
  BY <1>2, <1>8 DEF vars, node
<1>. QED  BY <1>3, <1>4, <1>5, <1>6, <1>7, <1>8, Zenon DEF Next

(* Where every process is a child of the consumer, as in CreateDirectTopo, the
   simulation is stopped only by a consumer that performed its iterations. *)
THEOREM DirectStopsWhenDone ==
  ASSUME \A c \in NonRoot : Parent[c] = Root
  PROVE  Spec => []StopOnlyWhenDone
<1>1. Init => StopOnlyWhenDone
  BY DEF Init, StopOnlyWhenDone
<1>2. TypeOK /\ StopOnlyWhenDone /\ [Next]_vars => StopOnlyWhenDone'
  BY StopStep
<1>. QED  BY <1>1, <1>2, TypeCorrect, PTL DEF Spec
=============================================================================
