----------------------------- MODULE MyChannel -----------------------------
(***************************************************************************)
(* The receiving side of one stream between two SimpleMPI processes: the   *)
(* bytes QUIC delivers in order are moved by MyChannel::OnCanRead into a   *)
(* CircularBuffer, from which the poll of the process cuts whole messages  *)
(* (quic/model/circularbuffer.cc, MyChannel in ns3-quic-channel.cc,        *)
(* ReceiveDataFrom in simpleMPI.cc).                                       *)
(*                                                                         *)
(* Data abstraction.  A byte is its offset in the stream, so that order    *)
(* and loss are visible, and all messages of one direction have the same   *)
(* length, as they have in the program: requests are 15 bytes, responses   *)
(* 14 + 8 k because main rounds the vector up to whole blocks.  The sender *)
(* follows the lock-step of SimpleMPI: a batch of messages (one request,   *)
(* or the blocks of one vector) is sent after the one before was read.     *)
(***************************************************************************)
EXTENDS Integers, Sequences

CONSTANTS
  Capacity, (* of the ring: 10240                                     *)
  ReadMax,  (* bytes OnCanRead takes from the stream at a time: 8192  *)
  MsgLen,   (* length of a message, which its first two bytes hold    *)
  Batch,    (* messages the sender sends at a time                    *)
  Total,    (* bound: bytes sent in a behaviour                       *)
  Garbage   (* what two bytes that are no header may read as          *)

LengthBytes == 2

ASSUME RingAssumption ==
  /\ Capacity \in Nat /\ ReadMax \in Nat \ {0}
  /\ MsgLen \in Nat /\ LengthBytes < MsgLen /\ MsgLen <= Capacity
  /\ Batch \in Nat \ {0} /\ Total \in Nat
  /\ Garbage \subseteq Nat

(* The lengths of messages and the capacity have a common divisor: 5 for
   requests, 2 for responses. *)
ASSUME AlignAssumption ==
  \E d \in 2..MsgLen, p \in 1..Capacity, q \in 1..MsgLen : Capacity = d * p /\ MsgLen = d * q

VARIABLES
  sent,      (* bytes written to the stream by the sender                *)
  arrived,   (* bytes the sequencer can hand out in order                *)
  taken,     (* bytes read from the sequencer by OnCanRead               *)
  buffer,    (* the cells of the ring                                    *)
  size,      (* bytes in the ring                                        *)
  readPos,
  writePos,
  aborted,   (* an NS_ASSERT failed                                      *)
  delivered  (* history: the messages handed to the handlers             *)

ring == <<buffer, size, readPos, writePos>>
vars == <<sent, arrived, taken, buffer, size, readPos, writePos, aborted, delivered>>

Cell == 0..(Capacity - 1)
Uninitialized == -1
Byte == Nat \cup {Uninitialized}

consumed == taken - size

-----------------------------------------------------------------------------
(* CircularBuffer.  firstPart is the room between a position and the end of
   the storage. *)
FirstPart(pos) == Capacity - pos

(* Mutant: the part that wraps around is not copied. *)
MemcpyUnwrapped(from, bytes) ==
  [i \in Cell |-> IF writePos <= i /\ i < writePos + bytes THEN from + i - writePos ELSE buffer[i]]

(* The storage after bytes stream bytes, the first at offset from, were copied
   behind the write position, the excess to the start. *)
Memcpy(from, bytes) ==
  [i \in Cell |->
     CASE writePos <= i /\ i < writePos + bytes -> from + i - writePos
       [] i < bytes - FirstPart(writePos) -> from + FirstPart(writePos) + i
       [] OTHER -> buffer[i]]

Write(from, bytes) ==
  IF bytes <= Capacity - size
    THEN /\ buffer' = Memcpy(from, bytes)
         /\ writePos' = (writePos + bytes) % Capacity
         /\ size' = size + bytes
         /\ UNCHANGED aborted
    ELSE aborted' = TRUE /\ UNCHANGED <<buffer, writePos, size>>

(* The bytes read copies out, and where it leaves the read position. *)
Peek(bytes) ==
  [j \in 1..bytes |-> IF j <= FirstPart(readPos) THEN buffer[readPos + j - 1]
                                                ELSE buffer[j - FirstPart(readPos) - 1]]

(* Mutants: one byte is skipped after wrapping, or always; the position may end
   behind the storage. *)
ReadPosSkips(bytes) ==
  IF bytes > FirstPart(readPos) THEN bytes - FirstPart(readPos) + 1
                                ELSE (readPos + bytes) % Capacity
ReadPosFar(bytes) == (readPos + bytes + 1) % Capacity
ReadPosUnwrapped(bytes) ==
  IF bytes > FirstPart(readPos) THEN bytes - FirstPart(readPos)
                                ELSE readPos + bytes

ReadPos(bytes) ==
  IF bytes > FirstPart(readPos) THEN bytes - FirstPart(readPos)
                                ELSE (readPos + bytes) % Capacity

(* Mutant: the bytes read stay in the ring. *)
SizeKept(bytes) == size

SizeRead(bytes) == size - bytes

(* getHeadUint16 copies two bytes from the read position on, which does not
   wrap: across the end of the storage it reads what lies behind it. *)
HeadUint16 ==
  IF /\ readPos + 1 \in Cell
     /\ buffer[readPos] \in Nat /\ buffer[readPos] % MsgLen = 0
     /\ buffer[readPos + 1] = buffer[readPos] + 1
  THEN {MsgLen}
  ELSE Garbage

-----------------------------------------------------------------------------
(* SendResponseVTo, SendRequestVToAll: a batch of messages. *)
SendBatch ==
  /\ ~aborted /\ sent = consumed
  /\ sent + Batch * MsgLen <= Total
  /\ sent' = sent + Batch * MsgLen
  /\ UNCHANGED <<arrived, taken, ring, aborted, delivered>>

(* What OnCanRead takes of the bytes it may read. *)
ReadLen(readable) == IF readable <= ReadMax THEN readable ELSE ReadMax

(* n more bytes come in order: a frame, or the one that fills a gap in front of
   frames already there.  The sequencer promises to call OnDataAvailable, and
   thereby OnCanRead, only when nothing was readable before. *)
Arrive(n, called) ==
  LET bytes == ReadLen(arrived + n - taken)
  IN /\ ~aborted /\ arrived + n <= sent
     /\ called \/ taken < arrived
     /\ arrived' = arrived + n
     /\ IF called
          THEN /\ Write(taken, bytes)
               /\ taken' = IF aborted' THEN taken ELSE taken + bytes
          ELSE UNCHANGED <<taken, buffer, size, writePos, aborted>>
     /\ UNCHANGED <<sent, readPos, delivered>>

(* Mutant: a message that is all there is in the ring is left for later. *)
WholeBeyond(len) == 0 < len /\ len < size

Whole(len) == 0 < len /\ len <= size

(* One turn of the loop of ReceiveDataFrom: cut a whole message and dispatch it. *)
ReceiveData ==
  /\ ~aborted /\ size > LengthBytes
  /\ \E len \in HeadUint16 :
       IF len > Capacity
         THEN aborted' = TRUE /\ UNCHANGED <<size, readPos, delivered>>
         ELSE /\ Whole(len)
              /\ delivered' = Append(delivered, Peek(len))
              /\ readPos' = ReadPos(len)
              /\ size' = SizeRead(len)
              /\ UNCHANGED aborted
  /\ UNCHANGED <<sent, arrived, taken, buffer, writePos>>

(* The constructor of the ring, and of the channel that has one. *)
NewBuffer ==
  /\ buffer = [i \in Cell |-> Uninitialized]
  /\ size = 0 /\ readPos = 0 /\ writePos = 0

Init ==
  /\ NewBuffer
  /\ sent = 0 /\ arrived = 0 /\ taken = 0
  /\ aborted = FALSE
  /\ delivered = <<>>

SomeArrive == \E n \in 1..Total, called \in BOOLEAN : Arrive(n, called)

Next ==
  \/ SendBatch
  \/ SomeArrive
  \/ ReceiveData

Spec == Init /\ [][Next]_vars

(* QUIC retransmits until all bytes are there, and a process polls every 30 ms. *)
FairSpec == Spec /\ WF_vars(SomeArrive) /\ WF_vars(ReceiveData)

-----------------------------------------------------------------------------
TypeOK ==
  /\ sent \in Nat /\ arrived \in Nat /\ taken \in Nat
  /\ buffer \in [Cell -> Byte]
  /\ size \in 0..Capacity /\ readPos \in Cell /\ writePos \in Cell
  /\ aborted \in BOOLEAN
  /\ delivered \in Seq(Seq(Byte))

Message(m) == [j \in 1..MsgLen |-> (m - 1) * MsgLen + j - 1]

(* The handlers get the messages that were sent, whole and in order, however
   the transport split them ("to eliminate the effect of auto PACKET-SPLIT
   operation performed by transport protocol", simpleMPI.cc:88). *)
FramesIntact == \A m \in 1..Len(delivered) : delivered[m] = Message(m)

(* The cell i places behind the read position. *)
CellAt(i) == IF readPos + i < Capacity THEN readPos + i ELSE readPos + i - Capacity

(* The ring holds the bytes taken and not yet consumed, in order, and the write
   position is right behind them (CircularBuffer::write and read together). *)
RingHoldsStream ==
  /\ \A i \in 0..(size - 1) : buffer[CellAt(i)] = consumed + i
  /\ writePos = CellAt(size)
  /\ consumed = Len(delivered) * MsgLen

(* The length of a message never straddles the end of the storage, which
   getHeadUint16 could not read: nothing in the code checks it, it follows
   from the lengths chosen. *)
HeadContiguous == readPos + 1 \in Cell

(* No assertion fails: OnCanRead finds room for all it reads
   (NS_ASSERT (bytes <= (this->capacity - this->size)), circularbuffer.cc:43). *)
NeverAborts == ~aborted

(* Everything sent is delivered. *)
BatchDelivered == (sent > consumed) ~> (sent = consumed)
-----------------------------------------------------------------------------
(* The inductive invariant. *)

(* The read position stays a multiple of whatever divides both lengths. *)
Aligned ==
  \A d \in 2..MsgLen, p \in 1..Capacity, q \in 1..MsgLen :
    Capacity = d * p /\ MsgLen = d * q => \E m \in 0..Capacity : readPos = d * m

(* What is not consumed is part of one batch, and an assertion fails only if
   that does not fit the ring. *)
BatchInv ==
  /\ consumed <= taken /\ taken <= arrived /\ arrived <= sent
  /\ sent <= consumed + Batch * MsgLen
  /\ aborted => Capacity < Batch * MsgLen

ChannelInv == TypeOK /\ RingHoldsStream /\ FramesIntact /\ Aligned /\ BatchInv
=============================================================================
