-------------------------- MODULE MyChannel_proofs --------------------------
(***************************************************************************)
(* That the ring and the framing loop restore the messages of a stream, for *)
(* every length of ring, message and read and for every way in which the   *)
(* transport splits the stream; and that no assertion fails as long as a   *)
(* batch fits the ring.                                                    *)
(***************************************************************************)
EXTENDS MyChannel, TLAPS

(* Arithmetic. *)
LEMMA Below == ASSUME NEW x \in Nat, NEW m \in Nat, x < m PROVE x % m = x
  OBVIOUS

LEMMA WrapsOnce ==
  ASSUME NEW x \in Nat, NEW m \in Nat \ {0}, m <= x, x - m < m
  PROVE  x % m = x - m
  OBVIOUS

LEMMA Multiple == ASSUME NEW x \in Nat, NEW m \in Nat \ {0} PROVE (x * m) % m = 0
  OBVIOUS

LEMMA Product == ASSUME NEW x \in Nat, NEW y \in Nat PROVE x * y \in Nat
  OBVIOUS

LEMMA OneMore ==
  ASSUME NEW x \in Nat, NEW m \in Nat
  PROVE  /\ (x + 1) * m = x * m + m
         /\ ((x + 1) - 1) * m = x * m
  OBVIOUS

LEMMA FactorBounded ==
  ASSUME NEW d \in Nat, 2 <= d, NEW x \in Int, NEW c \in Nat, d * x \in Nat, d * x < c
  PROVE  x \in 0..c
  <1>1. x >= 0
    <2> SUFFICES ASSUME x < 0 PROVE FALSE
      OBVIOUS
    <2>1. PICK y \in Nat : x = 0 - 1 - y
      OBVIOUS
    <2>2. d * x = 0 - d - d * y /\ d * y \in Nat
      BY <2>1
    <2> QED BY <2>2
  <1>2. PICK e \in Nat : d = 1 + e
    OBVIOUS
  <1>3. d * x = x + e * x /\ e * x \in Nat
    BY <1>1, <1>2
  <1> QED BY <1>1, <1>3

LEMMA ProductGap ==
  ASSUME NEW d \in Nat, NEW m \in Nat, NEW p \in Nat, d * m < d * p
  PROVE  d * m + d <= d * p
  <1>1. m < p
    <2> SUFFICES ASSUME p <= m PROVE FALSE
      OBVIOUS
    <2>1. PICK x \in Nat : m = p + x
      OBVIOUS
    <2>2. d * m = d * p + d * x /\ d * x \in Nat /\ d * p \in Nat
      BY <2>1
    <2> QED BY <2>2
  <1>2. PICK x \in Nat : p = m + 1 + x
    BY <1>1
  <1>3. d * p = d * m + d + d * x /\ d * x \in Nat /\ d * m \in Nat
    BY <1>2
  <1> QED BY <1>3

LEMMA Lengths ==
  /\ Capacity \in Nat \ {0} /\ ReadMax \in Nat \ {0} /\ MsgLen \in Nat \ {0}
  /\ LengthBytes = 2 /\ 2 < MsgLen /\ MsgLen <= Capacity
  /\ Batch \in Nat \ {0} /\ Total \in Nat /\ Garbage \subseteq Nat
  /\ Batch * MsgLen \in Nat
  <1>1. /\ Capacity \in Nat \ {0} /\ ReadMax \in Nat \ {0} /\ MsgLen \in Nat \ {0}
        /\ LengthBytes = 2 /\ 2 < MsgLen /\ MsgLen <= Capacity
        /\ Batch \in Nat \ {0} /\ Total \in Nat /\ Garbage \subseteq Nat
    BY RingAssumption DEF LengthBytes
  <1> QED BY <1>1, Product

-----------------------------------------------------------------------------
(* The ring. *)

(* Places behind the read position: different ones are different cells. *)
LEMMA Cells ==
  ASSUME readPos \in Cell, NEW i \in 0..Capacity
  PROVE  /\ CellAt(i) \in Cell
         /\ i < Capacity - readPos => CellAt(i) = readPos + i
         /\ i >= Capacity - readPos => CellAt(i) = readPos + i - Capacity
  BY Lengths DEF CellAt, Cell

(* The position after reading or writing bytes. *)
LEMMA Advance ==
  ASSUME NEW pos \in Cell, NEW bytes \in 0..Capacity
  PROVE  /\ (pos + bytes) % Capacity \in Cell
         /\ (pos + bytes) % Capacity =
              IF pos + bytes < Capacity THEN pos + bytes ELSE pos + bytes - Capacity
  <1>1. CASE pos + bytes < Capacity
    <2>1. (pos + bytes) % Capacity = pos + bytes
      BY <1>1, Below, Lengths DEF Cell
    <2> QED BY <1>1, <2>1, Lengths DEF Cell
  <1>2. CASE pos + bytes >= Capacity
    <2>1. (pos + bytes) % Capacity = pos + bytes - Capacity
      BY <1>2, WrapsOnce, Lengths DEF Cell
    <2> QED BY <1>2, <2>1, Lengths DEF Cell
  <1> QED BY <1>1, <1>2, Lengths DEF Cell

(* What is written goes behind what is there, which stays as it is. *)
LEMMA WriteAppends ==
  ASSUME TypeOK, RingHoldsStream, NEW bytes \in Nat, bytes <= Capacity - size,
         Write(taken, bytes), taken' = taken + bytes,
         UNCHANGED <<readPos, delivered>>
  PROVE  /\ buffer' \in [Cell -> Byte] /\ size' \in 0..Capacity /\ writePos' \in Cell
         /\ UNCHANGED aborted
         /\ RingHoldsStream'
         /\ consumed' = consumed
  <1>1. /\ buffer' = Memcpy(taken, bytes) /\ writePos' = (writePos + bytes) % Capacity
        /\ size' = size + bytes /\ UNCHANGED aborted
    BY DEF Write
  <1>2. /\ size \in Nat /\ size + bytes <= Capacity /\ readPos \in Cell /\ writePos \in Cell
        /\ readPos \in Nat /\ writePos \in Nat
        /\ taken \in Nat /\ writePos = CellAt(size) /\ buffer \in [Cell -> Byte]
        /\ bytes \in 0..Capacity /\ size \in 0..Capacity
    BY Lengths DEF TypeOK, RingHoldsStream, Cell
  <1>3. consumed' = consumed /\ consumed = taken - size
    BY <1>1, <1>2 DEF consumed
  <1>4. buffer' \in [Cell -> Byte]
    <2>1. ASSUME NEW i \in Cell
          PROVE  /\ writePos <= i => taken + i - writePos \in Byte
                 /\ taken + FirstPart(writePos) + i \in Byte
                 /\ buffer[i] \in Byte
      BY <1>2, Lengths DEF FirstPart, Cell, Byte
    <2> QED BY <1>1, <2>1 DEF Memcpy
  <1>5. writePos' \in Cell /\ writePos' = CellAt(size)'
    <2>1. writePos' \in Cell
      BY <1>1, <1>2, Advance
    <2>2. writePos' = IF writePos + bytes < Capacity THEN writePos + bytes
                                                     ELSE writePos + bytes - Capacity
      BY <1>1, <1>2, Advance
    <2>3. CellAt(size)' = IF readPos + (size + bytes) < Capacity THEN readPos + (size + bytes)
                           ELSE readPos + (size + bytes) - Capacity
      BY <1>1 DEF CellAt
    <2> QED BY <2>1, <2>2, <2>3, <1>2, Lengths DEF CellAt, Cell
  <1>6. ASSUME NEW i \in 0..(size' - 1)
        PROVE  buffer'[CellAt(i)'] = consumed' + i
    <2>1. /\ i \in Nat /\ i \in 0..Capacity /\ i < size + bytes
          /\ CellAt(i)' = CellAt(i) /\ CellAt(i) \in Cell /\ CellAt(i) \in Nat
      <3>1. i \in Nat /\ i \in 0..Capacity /\ i < size + bytes
        BY <1>1, <1>2, Lengths
      <3>2. CellAt(i)' = CellAt(i)
        BY DEF CellAt
      <3>3. CellAt(i) \in Cell
        BY <3>1, <1>2, Cells
      <3> QED BY <3>1, <3>2, <3>3, Lengths DEF Cell
    <2>2. buffer'[CellAt(i)] =
            (CASE writePos <= CellAt(i) /\ CellAt(i) < writePos + bytes -> taken + CellAt(i) - writePos
               [] CellAt(i) < bytes - FirstPart(writePos) -> taken + FirstPart(writePos) + CellAt(i)
               [] OTHER -> buffer[CellAt(i)])
      BY <1>1, <2>1 DEF Memcpy
    <2>3. CASE i < size
      <3>1. /\ ~(writePos <= CellAt(i) /\ CellAt(i) < writePos + bytes)
            /\ ~(CellAt(i) < bytes - FirstPart(writePos))
        BY <1>2, <2>1, <2>3, Lengths DEF CellAt, Cell, FirstPart
      <3>2. buffer[CellAt(i)] = consumed + i
        BY <1>2, <2>1, <2>3 DEF RingHoldsStream
      <3> QED BY <2>1, <2>2, <3>1, <3>2, <1>3
    <2>4. CASE i >= size /\ i < size + FirstPart(writePos)
      <3>1. /\ writePos <= CellAt(i) /\ CellAt(i) < writePos + bytes
            /\ CellAt(i) - writePos = i - size
            /\ ~(CellAt(i) < bytes - FirstPart(writePos))
        BY <1>2, <2>1, <2>4, Lengths DEF CellAt, Cell, FirstPart
      <3>2. taken + CellAt(i) - writePos = consumed + i
        BY <1>2, <1>3, <2>1, <3>1
      <3> QED BY <2>1, <2>2, <3>1, <3>2, <1>3
    <2>5. CASE i >= size + FirstPart(writePos)
      <3>1. /\ ~(writePos <= CellAt(i))
            /\ CellAt(i) < bytes - FirstPart(writePos)
            /\ FirstPart(writePos) + CellAt(i) = i - size
            /\ FirstPart(writePos) \in Nat
        BY <1>2, <2>1, <2>5, Lengths DEF CellAt, Cell, FirstPart
      <3>2. taken + FirstPart(writePos) + CellAt(i) = consumed + i
        BY <1>2, <1>3, <2>1, <3>1
      <3> QED BY <2>1, <2>2, <3>1, <3>2, <1>3
    <2> QED BY <2>1, <2>3, <2>4, <2>5, <1>2, Lengths DEF FirstPart, Cell
  <1>7. consumed' = Len(delivered') * MsgLen
    BY <1>3 DEF RingHoldsStream
  <1>8. size' \in 0..Capacity
    BY <1>1, <1>2, Lengths
  <1> QED BY <1>1, <1>3, <1>4, <1>5, <1>6, <1>7, <1>8 DEF RingHoldsStream

-----------------------------------------------------------------------------
(* The loop of ReceiveDataFrom. *)

(* A common divisor leaves room for two bytes before the end of the storage. *)
LEMMA AlignedHead == ASSUME TypeOK, Aligned PROVE HeadContiguous
  <1>1. PICK d \in 2..MsgLen, p \in 1..Capacity, q \in 1..MsgLen : Capacity = d * p /\ MsgLen = d * q
    BY AlignAssumption
  <1>2. PICK m \in 0..Capacity : readPos = d * m
    BY <1>1 DEF Aligned
  <1>3. d \in Nat /\ p \in Nat /\ m \in Nat /\ d >= 2 /\ d * m < d * p
    BY <1>1, <1>2, Lengths DEF TypeOK, Cell
  <1>4. d * m + d <= d * p
    BY <1>3, ProductGap
  <1>5. readPos + d <= Capacity /\ readPos \in Nat
    BY <1>1, <1>2, <1>4, Lengths DEF TypeOK, Cell
  <1> QED BY <1>3, <1>5, Lengths DEF HeadContiguous, Cell

(* So the loop always reads the length of the message at the head. *)
LEMMA HeadIsLength ==
  ASSUME ChannelInv, size > LengthBytes
  PROVE  HeadUint16 = {MsgLen}
  <1>1. /\ readPos + 1 \in Cell /\ readPos \in Cell /\ size \in 0..Capacity /\ size > 2
        /\ taken \in Nat /\ Len(delivered) \in Nat
    BY AlignedHead, Lengths DEF ChannelInv, TypeOK, HeadContiguous
  <1>2. 0 \in 0..(size - 1) /\ 1 \in 0..(size - 1) /\ CellAt(0) = readPos /\ CellAt(1) = readPos + 1
    BY <1>1, Lengths DEF CellAt, Cell
  <1>3. buffer[readPos] = consumed + 0 /\ buffer[readPos + 1] = consumed + 1
    BY <1>2 DEF ChannelInv, RingHoldsStream
  <1>4. /\ consumed = Len(delivered) * MsgLen /\ consumed \in Nat
        /\ (Len(delivered) * MsgLen) % MsgLen = 0
    BY <1>1, Lengths, Product, Multiple DEF ChannelInv, RingHoldsStream
  <1>5. /\ buffer[readPos] = consumed /\ buffer[readPos + 1] = buffer[readPos] + 1
        /\ buffer[readPos] \in Nat /\ buffer[readPos] % MsgLen = 0
    BY <1>3, <1>4
  <1> QED BY <1>1, <1>5 DEF HeadUint16

(* What is cut is the next message, and the ring holds the rest. *)
LEMMA CutIsMessage ==
  ASSUME ChannelInv, MsgLen <= size
  PROVE  Peek(MsgLen) = Message(Len(delivered) + 1)
  <1>1. /\ readPos \in Cell /\ size \in 0..Capacity /\ Len(delivered) \in Nat
        /\ consumed = Len(delivered) * MsgLen
        /\ Len(delivered) * MsgLen \in Nat
        /\ ((Len(delivered) + 1) - 1) * MsgLen = Len(delivered) * MsgLen
    BY Lengths, Product, OneMore DEF ChannelInv, TypeOK, RingHoldsStream
  <1>2. ASSUME NEW j \in 1..MsgLen
        PROVE  (IF j <= FirstPart(readPos) THEN buffer[readPos + j - 1]
                                           ELSE buffer[j - FirstPart(readPos) - 1])
               = ((Len(delivered) + 1) - 1) * MsgLen + j - 1
    <2>1. /\ j - 1 \in 0..(size - 1)
          /\ CellAt(j - 1) = IF j <= FirstPart(readPos) THEN readPos + j - 1
                                                        ELSE j - FirstPart(readPos) - 1
      BY <1>1, Lengths DEF CellAt, Cell, FirstPart
    <2>2. buffer[CellAt(j - 1)] = consumed + (j - 1)
      BY <2>1 DEF ChannelInv, RingHoldsStream
    <2>3. consumed + (j - 1) = ((Len(delivered) + 1) - 1) * MsgLen + j - 1
      BY <1>1, <2>1
    <2>4. CASE j <= FirstPart(readPos)
      BY <2>1, <2>2, <2>3, <2>4
    <2>5. CASE ~(j <= FirstPart(readPos))
      BY <2>1, <2>2, <2>3, <2>5
    <2> QED BY <2>4, <2>5
  <1> QED BY <1>2 DEF Peek, Message

LEMMA ReadTakes ==
  ASSUME ChannelInv, MsgLen <= size,
         delivered' = Append(delivered, Peek(MsgLen)),
         readPos' = ReadPos(MsgLen), size' = SizeRead(MsgLen),
         UNCHANGED <<buffer, writePos, taken>>
  PROVE  RingHoldsStream' /\ FramesIntact' /\ Aligned'
         /\ readPos' \in Cell /\ size' \in 0..Capacity /\ delivered' \in Seq(Seq(Byte))
         /\ consumed' = consumed + MsgLen
  <1>1. /\ readPos \in Cell /\ readPos \in Nat /\ size \in 0..Capacity /\ Len(delivered) \in Nat
        /\ delivered \in Seq(Seq(Byte)) /\ buffer \in [Cell -> Byte]
        /\ writePos = CellAt(size) /\ writePos \in Cell /\ taken \in Nat
        /\ consumed = Len(delivered) * MsgLen /\ consumed = taken - size
        /\ FramesIntact
    BY Lengths DEF ChannelInv, TypeOK, RingHoldsStream, Cell, consumed
  <1>2. /\ readPos' \in Cell
        /\ readPos' = IF readPos + MsgLen < Capacity THEN readPos + MsgLen
                                                     ELSE readPos + MsgLen - Capacity
    <2>1. CASE MsgLen > FirstPart(readPos)
      BY <1>1, <2>1, Lengths DEF ReadPos, FirstPart, Cell
    <2>2. CASE ~(MsgLen > FirstPart(readPos))
      <3>1. readPos' = (readPos + MsgLen) % Capacity /\ MsgLen \in 0..Capacity
        BY <2>2, Lengths DEF ReadPos
      <3> QED BY <1>1, <3>1, Advance
    <2> QED BY <2>1, <2>2
  <1>3. size' = size - MsgLen /\ size' \in 0..Capacity
    BY <1>1, Lengths DEF SizeRead
  <1>4. consumed' = consumed + MsgLen
    BY <1>1, <1>3, Lengths DEF consumed
  <1>5. Peek(MsgLen) = Message(Len(delivered) + 1) /\ Peek(MsgLen) \in Seq(Byte)
    <2>1. Peek(MsgLen) = Message(Len(delivered) + 1)
      BY CutIsMessage
    <2>2. ASSUME NEW j \in 1..MsgLen PROVE ((Len(delivered) + 1) - 1) * MsgLen + j - 1 \in Byte
      <3>1. ((Len(delivered) + 1) - 1) * MsgLen \in Nat
        BY <1>1, Product, Lengths
      <3> QED BY <3>1 DEF Byte
    <2>3. Message(Len(delivered) + 1) \in [1..MsgLen -> Byte]
      BY <2>2 DEF Message
    <2> QED BY <2>1, <2>3, Lengths
  <1>6. /\ delivered' \in Seq(Seq(Byte)) /\ Len(delivered') = Len(delivered) + 1
        /\ delivered'[Len(delivered) + 1] = Message(Len(delivered) + 1)
        /\ \A m \in 1..Len(delivered) : delivered'[m] = delivered[m]
    BY <1>1, <1>5
  <1>7. FramesIntact'
    <2> SUFFICES ASSUME NEW m \in 1..Len(delivered') PROVE delivered'[m] = Message(m)
      BY DEF FramesIntact, Message
    <2> QED BY <1>1, <1>6 DEF FramesIntact
  <1>8. RingHoldsStream'
    <2>1. ASSUME NEW i \in 0..(size' - 1) PROVE buffer'[CellAt(i)'] = consumed' + i
      <3>1. /\ i + MsgLen \in 0..(size - 1) /\ i \in Nat
        BY <1>1, <1>3, Lengths
      <3>2. CellAt(i)' = IF readPos' + i < Capacity THEN readPos' + i ELSE readPos' + i - Capacity
        BY DEF CellAt
      <3>3. CellAt(i)' = CellAt(i + MsgLen)
        BY <1>1, <1>2, <3>1, <3>2, Lengths DEF CellAt, Cell
      <3>4. buffer[CellAt(i + MsgLen)] = consumed + (i + MsgLen)
        BY <3>1 DEF ChannelInv, RingHoldsStream
      <3> QED BY <1>1, <1>4, <3>1, <3>3, <3>4, Lengths
    <2>2. writePos' = CellAt(size)'
      <3>1. CellAt(size)' = IF readPos' + size' < Capacity THEN readPos' + size'
                                                           ELSE readPos' + size' - Capacity
        BY DEF CellAt
      <3>2. /\ writePos = IF readPos + size < Capacity THEN readPos + size
                                                      ELSE readPos + size - Capacity
            /\ readPos \in Nat /\ readPos < Capacity /\ Capacity \in Nat /\ MsgLen \in Nat
            /\ size \in Nat /\ size <= Capacity /\ MsgLen <= size
        BY <1>1, <1>3, Lengths DEF CellAt, Cell
      <3>3. size' = size - MsgLen
        BY <1>3
      <3>4. CASE readPos + MsgLen < Capacity
        BY <1>2, <3>1, <3>2, <3>3, <3>4
      <3>5. CASE ~(readPos + MsgLen < Capacity)
        BY <1>2, <3>1, <3>2, <3>3, <3>5
      <3> QED BY <3>4, <3>5
    <2>3. consumed' = Len(delivered') * MsgLen
      <3>1. (Len(delivered) + 1) * MsgLen = Len(delivered) * MsgLen + MsgLen
        BY <1>1, OneMore, Lengths
      <3>2. consumed' = Len(delivered) * MsgLen + MsgLen
        BY <1>1, <1>4
      <3> QED BY <1>6, <3>1, <3>2
    <2> QED BY <2>1, <2>2, <2>3 DEF RingHoldsStream
  <1>9. Aligned'
    <2> SUFFICES ASSUME NEW d \in 2..MsgLen, NEW p \in 1..Capacity, NEW q \in 1..MsgLen,
                        Capacity = d * p, MsgLen = d * q
                 PROVE  \E m \in 0..Capacity : readPos' = d * m
      BY DEF Aligned
    <2>1. PICK m \in 0..Capacity : readPos = d * m
      BY DEF ChannelInv, Aligned
    <2>2. PICK x \in Int : readPos' = d * x
      <3>1. d * (m + q) = d * m + d * q /\ d * (m + q - p) = d * m + d * q - d * p
        BY Lengths
      <3>2. m + q \in Int /\ m + q - p \in Int
        BY Lengths
      <3>3. readPos' = d * (m + q) \/ readPos' = d * (m + q - p)
        BY <1>2, <2>1, <3>1
      <3> QED BY <3>2, <3>3
    <2>3. x \in 0..Capacity
      <3>1. readPos' \in Nat /\ readPos' < Capacity /\ d \in Nat /\ d >= 2
        BY <1>2, Lengths DEF Cell
      <3> QED BY <2>2, <3>1, Lengths, FactorBounded
    <2> QED BY <2>2, <2>3
  <1> QED BY <1>2, <1>3, <1>4, <1>6, <1>7, <1>8, <1>9

-----------------------------------------------------------------------------
(* Every step keeps the invariant. *)

LEMMA InitChannel == Init => ChannelInv
  <1> SUFFICES ASSUME Init PROVE ChannelInv
    OBVIOUS
  <1>1. /\ sent = 0 /\ arrived = 0 /\ taken = 0 /\ size = 0 /\ readPos = 0 /\ writePos = 0
        /\ aborted = FALSE /\ delivered = <<>> /\ buffer = [i \in Cell |-> Uninitialized]
        /\ Len(delivered) = 0
    BY DEF Init, NewBuffer
  <1>2. TypeOK
    <2>1. buffer \in [Cell -> Byte]
      BY <1>1 DEF Byte
    <2>2. size \in 0..Capacity /\ readPos \in Cell /\ writePos \in Cell
      BY <1>1, Lengths DEF Cell
    <2>3. delivered \in Seq(Seq(Byte))
      BY <1>1
    <2> QED BY <1>1, <2>1, <2>2, <2>3 DEF TypeOK
  <1>3. RingHoldsStream
    BY <1>1, Lengths DEF RingHoldsStream, CellAt, consumed
  <1>4. FramesIntact
    BY <1>1 DEF FramesIntact
  <1>5. Aligned
    <2> SUFFICES ASSUME NEW d \in 2..MsgLen PROVE 0 \in 0..Capacity /\ 0 = d * 0
      BY <1>1 DEF Aligned
    <2> QED BY Lengths
  <1>6. BatchInv
    BY <1>1, Lengths DEF BatchInv, consumed
  <1> QED BY <1>2, <1>3, <1>4, <1>5, <1>6 DEF ChannelInv

LEMMA SendBatchChannel == ASSUME ChannelInv, SendBatch PROVE ChannelInv'
  <1> DEFINE length == Batch * MsgLen
  <1>1. /\ sent = consumed /\ sent' = sent + length /\ ~aborted
        /\ UNCHANGED <<arrived, taken, buffer, size, readPos, writePos, aborted, delivered>>
    BY DEF SendBatch, ring
  <1>2. consumed' = consumed /\ sent \in Nat /\ length \in Nat
    BY <1>1, Lengths DEF consumed, ChannelInv, TypeOK
  <1> HIDE DEF length
  <1>3. sent' \in Nat /\ sent <= sent' /\ sent' <= consumed' + length
    BY <1>1, <1>2
  <1>4. TypeOK' /\ BatchInv'
    <2>1. TypeOK'
      BY <1>1, <1>3 DEF ChannelInv, TypeOK
    <2>2. arrived <= sent'
      BY <1>2, <1>3 DEF ChannelInv, TypeOK, BatchInv
    <2> QED BY <1>1, <1>2, <1>3, <2>1, <2>2 DEF ChannelInv, BatchInv, length
  <1>5. RingHoldsStream'
    BY <1>1, <1>2 DEF ChannelInv, RingHoldsStream, CellAt
  <1>6. FramesIntact' /\ Aligned'
    BY <1>1 DEF ChannelInv, FramesIntact, Aligned, Message
  <1> QED BY <1>4, <1>5, <1>6 DEF ChannelInv

LEMMA ArriveChannel ==
  ASSUME ChannelInv, NEW n \in 1..Total, NEW called \in BOOLEAN, Arrive(n, called)
  PROVE  ChannelInv'
  <1> DEFINE bytes == ReadLen(arrived + n - taken)
  <1>1. /\ ~aborted /\ arrived + n <= sent /\ arrived' = arrived + n
        /\ UNCHANGED <<sent, readPos, delivered>>
    BY DEF Arrive
  <1>2. /\ sent \in Nat /\ arrived \in Nat /\ taken \in Nat /\ size \in 0..Capacity
        /\ consumed = taken - size /\ consumed <= taken /\ taken <= arrived /\ arrived <= sent
        /\ sent <= consumed + Batch * MsgLen /\ n \in Nat
    BY Lengths DEF ChannelInv, TypeOK, BatchInv, consumed
  <1>3. bytes \in Nat /\ bytes <= arrived + n - taken
    BY <1>1, <1>2, Lengths DEF ReadLen
  <1>4. FramesIntact' /\ Aligned'
    BY <1>1 DEF ChannelInv, FramesIntact, Aligned, Message
  <1>5. CASE called /\ bytes <= Capacity - size
    <2>1. Write(taken, bytes) /\ UNCHANGED aborted
      BY <1>5 DEF Arrive, Write
    <2>2. taken' = taken + bytes
      BY <1>1, <1>5, <2>1 DEF Arrive
    <2>3. /\ buffer' \in [Cell -> Byte] /\ size' \in 0..Capacity /\ writePos' \in Cell
          /\ RingHoldsStream' /\ consumed' = consumed
      BY <1>1, <1>3, <1>5, <2>1, <2>2, WriteAppends DEF ChannelInv
    <2>4. TypeOK'
      BY <1>1, <1>2, <1>3, <2>1, <2>2, <2>3 DEF ChannelInv, TypeOK
    <2>5. BatchInv'
      BY <1>1, <1>2, <1>3, <2>1, <2>2, <2>3, Lengths DEF ChannelInv, BatchInv
    <2> QED BY <1>4, <2>3, <2>4, <2>5 DEF ChannelInv
  <1>6. CASE called /\ ~(bytes <= Capacity - size)
    <2>1. /\ aborted' = TRUE /\ UNCHANGED <<buffer, writePos, size>> /\ taken' = taken
      BY <1>6 DEF Arrive, Write
    <2>2. consumed' = consumed
      BY <2>1 DEF consumed
    <2>3. TypeOK'
      BY <1>1, <1>2, <2>1 DEF ChannelInv, TypeOK
    <2>4. Capacity < Batch * MsgLen
      BY <1>1, <1>2, <1>3, <1>6, Lengths
    <2>5. BatchInv'
      BY <1>1, <1>2, <2>1, <2>2, <2>4, Lengths DEF BatchInv
    <2>6. RingHoldsStream'
      BY <1>1, <2>1, <2>2 DEF ChannelInv, RingHoldsStream, CellAt
    <2> QED BY <1>4, <2>3, <2>5, <2>6 DEF ChannelInv
  <1>7. CASE ~called
    <2>1. UNCHANGED <<taken, buffer, size, writePos, aborted>>
      BY <1>7 DEF Arrive
    <2>2. consumed' = consumed
      BY <2>1 DEF consumed
    <2>3. TypeOK'
      BY <1>1, <1>2, <2>1 DEF ChannelInv, TypeOK
    <2>4. BatchInv'
      BY <1>1, <1>2, <2>1, <2>2, Lengths DEF ChannelInv, BatchInv
    <2>5. RingHoldsStream'
      BY <1>1, <2>1, <2>2 DEF ChannelInv, RingHoldsStream, CellAt
    <2> QED BY <1>4, <2>3, <2>4, <2>5 DEF ChannelInv
  <1> QED BY <1>5, <1>6, <1>7

LEMMA ReceiveDataChannel == ASSUME ChannelInv, ReceiveData PROVE ChannelInv'
  <1>1. /\ ~aborted /\ size > LengthBytes
        /\ UNCHANGED <<sent, arrived, taken, buffer, writePos>>
    BY DEF ReceiveData
  <1>2. HeadUint16 = {MsgLen} /\ ~(MsgLen > Capacity)
    BY <1>1, HeadIsLength, Lengths
  <1>3. /\ Whole(MsgLen)
        /\ delivered' = Append(delivered, Peek(MsgLen))
        /\ readPos' = ReadPos(MsgLen)
        /\ size' = SizeRead(MsgLen)
        /\ UNCHANGED aborted
    BY <1>2 DEF ReceiveData
  <1>4. MsgLen <= size /\ size \in 0..Capacity /\ taken \in Nat
    BY <1>3 DEF Whole, ChannelInv, TypeOK
  <1>5. /\ RingHoldsStream' /\ FramesIntact' /\ Aligned'
        /\ readPos' \in Cell /\ size' \in 0..Capacity /\ delivered' \in Seq(Seq(Byte))
        /\ consumed' = consumed + MsgLen
    BY <1>1, <1>3, <1>4, ReadTakes
  <1>6. TypeOK'
    BY <1>1, <1>3, <1>5 DEF ChannelInv, TypeOK
  <1>7. BatchInv'
    <2>1. consumed' <= taken' /\ consumed \in Int
      BY <1>1, <1>3, <1>4, Lengths DEF SizeRead, consumed
    <2> QED BY <1>1, <1>3, <1>5, <2>1, Lengths DEF ChannelInv, TypeOK, BatchInv
  <1> QED BY <1>5, <1>6, <1>7 DEF ChannelInv

LEMMA NextChannel == ChannelInv /\ [Next]_vars => ChannelInv'
  <1> SUFFICES ASSUME ChannelInv, [Next]_vars PROVE ChannelInv'
    OBVIOUS
  <1>1. CASE SendBatch
    BY <1>1, SendBatchChannel
  <1>2. CASE SomeArrive
    BY <1>2, ArriveChannel DEF SomeArrive
  <1>3. CASE ReceiveData
    BY <1>3, ReceiveDataChannel
  <1>4. CASE UNCHANGED vars
    BY <1>4 DEF vars, ChannelInv, TypeOK, RingHoldsStream, FramesIntact, Aligned, BatchInv,
                CellAt, Message, consumed
  <1> QED BY <1>1, <1>2, <1>3, <1>4 DEF Next

-----------------------------------------------------------------------------
(* The invariant of the channel, however the stream is split and whenever the
   reader is called. *)
THEOREM ChannelInvariant == Spec => []ChannelInv
  BY InitChannel, NextChannel, PTL DEF Spec

(* The positions stay in the ring, and what is handed out consists of bytes. *)
THEOREM TypeCorrect == Spec => []TypeOK
  <1>1. ChannelInv => TypeOK
    BY DEF ChannelInv
  <1> QED BY <1>1, ChannelInvariant, PTL

(* Writing and reading around the end of the storage fit together: the ring
   always holds the part of the stream that was taken and not consumed. *)
THEOREM RingIsStream == Spec => []RingHoldsStream
  <1>1. ChannelInv => RingHoldsStream
    BY DEF ChannelInv
  <1> QED BY <1>1, ChannelInvariant, PTL

(* The handlers get the messages that were sent, whole, in order and once. *)
THEOREM MessagesRestored == Spec => []FramesIntact
  <1>1. ChannelInv => FramesIntact
    BY DEF ChannelInv
  <1> QED BY <1>1, ChannelInvariant, PTL

(* getHeadUint16 never reads past the storage. *)
THEOREM HeadNeverWraps == Spec => []HeadContiguous
  <1>1. ChannelInv => HeadContiguous
    BY AlignedHead DEF ChannelInv
  <1> QED BY <1>1, ChannelInvariant, PTL

(* No assertion fails if a whole batch fits the ring: vectors of up to 12
   blocks, with the numbers of the program. *)
THEOREM RoomIsEnough == Spec => [](Batch * MsgLen <= Capacity => NeverAborts)
  <1>1. ChannelInv => (Batch * MsgLen <= Capacity => NeverAborts)
    BY Lengths DEF ChannelInv, BatchInv, NeverAborts
  <1> QED BY <1>1, ChannelInvariant, PTL

=============================================================================
