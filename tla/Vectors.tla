------------------------------ MODULE Vectors ------------------------------
(***************************************************************************)
(* Vectors of unsigned numbers and the blocks they travel in               *)
(* (innetwork-train/utils, and the chunks of simple-MPI).  A vector is a   *)
(* sequence, so that vec[i] of the code is vec[i + 1] here; a block is its *)
(* offset and its values.                                                  *)
(***************************************************************************)
EXTENDS Integers, Sequences

CONSTANTS
  k,     (* numbers in a full block (parameter.cc)                         *)
  Width, (* the numbers are taken modulo Width: 2^64                       *)
  SizeWidth  (* the size of a vector is a uint16_t: 2^16                   *)

ASSUME VectorAssumption ==
  /\ k \in Nat \ {0} /\ Width \in Nat \ {0}
  /\ SizeWidth \in Nat /\ k <= SizeWidth

Number == 0..(Width - 1)
Chunk == [count : Nat, data : [1..k -> Number]]
EmptyChunk == [count |-> 0, data |-> [i \in 1..k |-> 0]]

(* The blocks of a vector: those SendResponseVTo sends, and the number     *)
(* AvgEnd and WriteChunk2Vec count in a uint8_t.                           *)
BlocksOf(size) == size \div k + (IF size % k = 0 THEN 0 ELSE 1)
Range8(size) == BlocksOf(size) % 256
Offset(b) == (b - 1) * k

(* Mutant: the size is taken as it is given. *)
ExpandNothing(size) == size

(* main: a vector of at least one block gets whole blocks; a size just     *)
(* below SizeWidth wraps around to a few numbers.                          *)
Expand(size) ==
  IF size \div k = 0 THEN size ELSE (((size + k - 1) \div k) * k) % SizeWidth

(* CreatResponseV: the index of the last value, counted from 0.  A partial *)
(* block has one value too many.                                           *)
LastIndex(size, offset) == IF size - offset < k THEN size ELSE offset + k - 1

(* beyond is what the memory behind the vector holds. *)
CreatResponseV(vec, offset, beyond) ==
  [offset |-> offset,
   values |-> [i \in 1..(LastIndex(Len(vec), offset) - offset + 1) |->
                 IF offset + i <= Len(vec) THEN vec[offset + i] ELSE beyond]]

(* Mutant: the last block is not sent. *)
BlocksShort(vec, beyond, blocks) ==
  [b \in 1..(blocks - 1) |-> CreatResponseV(vec, Offset(b), beyond)]

(* SendResponseVTo, while the stream takes the blocks. *)
Blocks(vec, beyond, blocks) ==
  [b \in 1..blocks |-> CreatResponseV(vec, Offset(b), beyond)]

(* Whether one of the blocks reads past the vector. *)
ReadsBeyond(size) == \E b \in 1..BlocksOf(size) : LastIndex(size, Offset(b)) >= size

(* A block's values, into k zeros. *)
PraseVector(values) == [i \in 1..k |-> IF i <= Len(values) THEN values[i] ELSE 0]

SumVector(vec1, vec2) == [i \in 1..k |-> (vec1[i] + vec2[i]) % Width]
AvgVector(sum, count) == [i \in 1..k |-> sum[i] \div count]

(* Mutant: the values of a block are written one place too early. *)
WriteChunk2VecShifted(size, chunks) ==
  [j \in 1..size |-> chunks[(j - 1) \div k + 1].data[(j % k) + 1]]

(* All of a chunk is written, k values for a partial block too. *)
WriteChunk2Vec(size, chunks) ==
  [j \in 1..size |-> chunks[(j - 1) \div k + 1].data[((j - 1) % k) + 1]]
WritesBeyond(size) == Range8(size) * k > size
=============================================================================
