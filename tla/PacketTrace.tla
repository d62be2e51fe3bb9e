----------------------------- MODULE PacketTrace -----------------------------
(***************************************************************************)
(* The measurement of a flow.  QuicClientApp gives every datagram a tag    *)
(* with a sequence number and the time; QuicServerApp takes the tag off,   *)
(* and Ns3QuicServerTrace counts as lost what is missing between the       *)
(* numbers and logs the bytes of every interval.                           *)
(***************************************************************************)
EXTENDS Integers, Sequences, FiniteSets

CONSTANTS
  TagBase,         (* 2^7: values a byte of a tag holds beside its flag    *)
  GoodputInterval  (* g_goodputInterval: 1000 ms                           *)

ASSUME TraceAssumption ==
  TagBase \in Nat /\ TagBase > 1 /\ GoodputInterval \in Nat

(* Ns3QuicTag: seven bits to a byte, the least significant first, with a   *)
(* flag on all but the last byte.  Zero takes no byte at all.              *)
VarintEncode[value \in Nat] ==
  IF value = 0 THEN <<>>
  ELSE IF value < TagBase THEN <<value>>
  ELSE <<TagBase + (value % TagBase)>> \o VarintEncode[value \div TagBase]

VarientDecode[bytes \in Seq(Nat)] ==
  IF bytes = <<>> THEN 0
  ELSE IF Head(bytes) < TagBase THEN Head(bytes)
  ELSE (Head(bytes) % TagBase) + TagBase * VarientDecode[Tail(bytes)]

(* What follows the first value of a tag. *)
Skip[bytes \in Seq(Nat)] ==
  IF bytes = <<>> THEN <<>>
  ELSE IF Head(bytes) < TagBase THEN Tail(bytes) ELSE Skip[Tail(bytes)]

(* Mutant: the time first. *)
SerializeTimeFirst(seq, time) == VarintEncode[time] \o VarintEncode[seq]

Serialize(seq, time) == VarintEncode[seq] \o VarintEncode[time]

Deserialize(tag) == [seq |-> VarientDecode[tag], time |-> VarientDecode[Skip[tag]]]

Trace == [open : BOOLEAN, lastSeq : Nat, lostPackets : Int, readBytes : Nat,
          receiptTime : Nat, lastRateTime : Nat, lastRateBytes : Nat, logged : Nat]

(* A trace that has just been opened; 0 is no time. *)
NewTrace == [open |-> TRUE, lastSeq |-> 0, lostPackets |-> 0,
             readBytes |-> 0, receiptTime |-> 0,
             lastRateTime |-> 0, lastRateBytes |-> 0, logged |-> 0]

(* LogGoodput writes a line about the bytes since the last one.  The trace *)
(* does not move on for the line that its destructor writes.               *)
LogLine(trace) ==
  [trace EXCEPT !.logged = @ + (trace.readBytes - trace.lastRateBytes)]

LogGoodput(trace) ==
  IF trace.receiptTime >= trace.lastRateTime + GoodputInterval
  THEN [LogLine(trace) EXCEPT !.lastRateBytes = trace.readBytes,
                              !.lastRateTime  = trace.receiptTime]
  ELSE trace

(* The lost column: a number that was passed over counts as lost at once,  *)
(* and nothing is taken back if it arrives later.                          *)
CountLost(trace, seq) ==
  [trace EXCEPT
    !.lostPackets = IF seq > trace.lastSeq - 1
                    THEN @ + (seq - trace.lastSeq - 1) ELSE @,
    !.lastSeq     = IF seq > @ THEN seq ELSE @]

(* Ns3QuicServerTrace::OnOwd; a datagram has one byte here. *)
OnOwd(trace, now, seq) ==
  CountLost(LogGoodput([trace EXCEPT
    !.readBytes    = @ + 1,
    !.receiptTime  = now,
    !.lastRateTime = IF @ = 0 THEN now ELSE @]), seq)

(* Mutant: the last interval is not written. *)
CloseAbruptly(trace) == [trace EXCEPT !.open = FALSE]

(* Ns3QuicServerTrace's destructor, if the trace is still there. *)
CloseTrace(trace) ==
  [(IF trace.open /\ trace.receiptTime > trace.lastRateTime
    THEN LogLine(trace) ELSE trace) EXCEPT !.open = FALSE]

-----------------------------------------------------------------------------
(* What a trace has counted of the numbers it was given, in rising order,  *)
(* and what the lines of its file account for.                             *)
CountInv(trace, numbers) ==
  /\ IsFiniteSet(numbers)
  /\ \A n \in numbers : n <= trace.lastSeq
  /\ trace.lostPackets = trace.lastSeq - Cardinality(numbers)
  /\ trace.readBytes = Cardinality(numbers)

LogInv(trace) ==
  /\ trace.open => /\ trace.logged = trace.lastRateBytes
                   /\ trace.lastRateBytes <= trace.readBytes
                   /\ trace.lastRateTime <= trace.receiptTime
  /\ ~trace.open /\ trace.receiptTime # trace.lastRateTime =>
       trace.logged = trace.readBytes
=============================================================================
