---------------------------- MODULE SendAlgorithm ----------------------------
(***************************************************************************)
(* What the two congestion controllers of the repository share: the state  *)
(* that VegasSender and CopaSender declare alike, and QUIC around them,    *)
(* which sends packets, takes round-trip times and reports packets that    *)
(* were acknowledged or lost.                                              *)
(*                                                                         *)
(* A report (OnCongestionEvent) is a loop over the lost packets, then one  *)
(* over the acknowledged ones.  The model takes one iteration per step;    *)
(* QUIC does nothing in between.  Packet numbers start at 1 and 0 stands   *)
(* for a QuicPacketNumber that is not initialized.                         *)
(***************************************************************************)
EXTENDS Integers, FiniteSets, RttFilter

CONSTANTS
  kDefaultTCPMSS,         (* bytes of a full packet                        *)
  InitialWindow,          (* packets of the initial congestion window      *)
  MaxWindow,              (* packets QUIC passes as the largest window     *)
  kMinRTTWindowLength,    (* length of the filter for the smallest RTT     *)
  Algorithms,             (* congestion controllers a client may ask for   *)
  Rtts,                   (* Rtts[a]: round-trip times the path of a       *)
                          (* connection with a can have                    *)
  AckOnly,                (* packets sent without retransmittable data     *)
  LateAcks,               (* packets that may be acknowledged after they   *)
                          (* were declared lost                            *)
  MaxPackets, MaxInFlight, MaxTime
                          (* bounds, for each algorithm: packets sent,     *)
                          (* packets in flight, length of the run          *)

ASSUME WindowAssumption ==
  /\ kDefaultTCPMSS \in Nat \ {0}
  /\ InitialWindow \in Nat /\ MaxWindow \in Nat
  /\ 4 <= InitialWindow /\ InitialWindow <= MaxWindow
ASSUME RttAssumption ==
  /\ Rtts \in [Algorithms -> SUBSET (Nat \ {0})]
  /\ kMinRTTWindowLength \in Nat
ASSUME AlgorithmAssumption == Algorithms \subseteq {"vegas", "copa"}
ASSUME BoundAssumption ==
  /\ MaxPackets \in [Algorithms -> Nat] /\ MaxTime \in [Algorithms -> Nat]
  /\ MaxInFlight \in [Algorithms -> Nat]

VARIABLES
  algo,                          (* the algorithm the factory has created  *)
  now,                           (* time; it starts at 1, 0 is QuicTime::Zero *)
  largest_sent_packet_number_,
  largest_acked_packet_number_,
  largest_sent_at_last_cutback_,
  congestion_window_,
  latest_rtt, smoothed_rtt,      (* of rtt_stats_                          *)
  inFlight,                      (* packets QUIC counts as in flight       *)
  unacked,                       (* packets whose acknowledgement may come *)
  event,                         (* the report that is being processed     *)
  fault,                         (* how the sender has ended the program   *)
  sinceCutback                   (* history: packets sent since the last   *)
                                 (* cutback                                *)

reportVars == <<latest_rtt, smoothed_rtt, inFlight, unacked, event>>
senderVars == <<algo, now, largest_sent_packet_number_,
                largest_acked_packet_number_, largest_sent_at_last_cutback_,
                congestion_window_, reportVars, fault, sinceCutback>>

min_congestion_window_ == 4 * kDefaultTCPMSS
AtLeast(x, y) == IF x < y THEN y ELSE x
AtMost(x, y)  == IF x < y THEN x ELSE y

NoEvent == [busy |-> FALSE, lost |-> {}, acked |-> {}, before |-> FALSE]
Idle    == ~event.busy /\ fault = "no"

InRecovery ==
  /\ largest_acked_packet_number_ # 0
  /\ largest_sent_at_last_cutback_ # 0
  /\ largest_acked_packet_number_ <= largest_sent_at_last_cutback_

(* The algorithm a client names.  Of those the factory can create, the two *)
(* below are the repository's own.                                         *)
GetCongestionType == algo \in Algorithms

(* The sender of a new connection. *)
SenderInit ==
  /\ GetCongestionType
  /\ now = 1
  /\ largest_sent_packet_number_ = 0
  /\ largest_acked_packet_number_ = 0
  /\ largest_sent_at_last_cutback_ = 0
  /\ congestion_window_ = InitialWindow * kDefaultTCPMSS
  /\ latest_rtt = 0 /\ smoothed_rtt = 0
  /\ inFlight = {} /\ unacked = {}
  /\ event = NoEvent
  /\ fault = "no"
  /\ sinceCutback = {}

-----------------------------------------------------------------------------
(* QUIC around the sender.                                                 *)

CanSend == Cardinality(inFlight) * kDefaultTCPMSS < congestion_window_

(* A packet leaves.  One that only acknowledges is not counted in flight   *)
(* and is never lost, but its number is recorded like any other.           *)
OnPacketSent ==
  /\ Idle
  /\ largest_sent_packet_number_ < MaxPackets[algo]
  /\ Cardinality(inFlight) < MaxInFlight[algo]
  /\ LET number == largest_sent_packet_number_ + 1 IN
     /\ number \notin AckOnly => CanSend
     /\ largest_sent_packet_number_' = number
     /\ inFlight' = inFlight \cup ({number} \ AckOnly)
     /\ unacked' = unacked \cup {number}
     /\ sinceCutback' = sinceCutback \cup {number}
  /\ UNCHANGED <<algo, now, largest_acked_packet_number_,
                 largest_sent_at_last_cutback_, congestion_window_,
                 latest_rtt, smoothed_rtt, event, fault>>

(* The smoothed round-trip time moves by an eighth of the difference. *)
Smooth(rtt) ==
  IF smoothed_rtt = 0 THEN rtt ELSE (7 * smoothed_rtt + rtt) \div 8

(* QUIC has processed an acknowledgement, or its loss alarm has fired.     *)
(* Packets are declared lost only when a later one was acknowledged, and   *)
(* an acknowledgement gives a round-trip time if it advances the largest   *)
(* packet acknowledged.  A packet that was declared lost too early may     *)
(* still be acknowledged.                                                  *)
Report(acked, lost, rtt) ==
  /\ Idle
  /\ acked \subseteq unacked /\ lost \subseteq inFlight \ acked
  /\ acked \cup lost # {}
  /\ \A p \in lost :
       \E q \in acked \cup {largest_acked_packet_number_} : p < q
  /\ IF \E p \in acked : largest_acked_packet_number_ < p
     THEN /\ rtt \in Rtts[algo] /\ rtt < now
          /\ latest_rtt' = rtt
          /\ smoothed_rtt' = Smooth(rtt)
     ELSE /\ rtt = latest_rtt
          /\ UNCHANGED <<latest_rtt, smoothed_rtt>>
  /\ inFlight' = inFlight \ (acked \cup lost)
  /\ unacked' = unacked \ (acked \cup (lost \ LateAcks))
  /\ event' = [busy |-> TRUE, lost |-> lost, acked |-> acked,
               before |-> InRecovery]
  /\ UNCHANGED <<algo, now, largest_sent_packet_number_,
                 largest_acked_packet_number_, largest_sent_at_last_cutback_,
                 congestion_window_, fault, sinceCutback>>

First(p, S) == p \in S /\ \A q \in S : p <= q

(* The next packet of lost_packets, and the next of acked_packets. *)
NextLost(p)  == event.busy /\ fault = "no" /\ First(p, event.lost)
NextAcked(p) == /\ event.busy /\ fault = "no" /\ event.lost = {}
                /\ First(p, event.acked)

(* Mutant: the packet up to which a cutback reaches counts as new. *)
NewLossAgain(p) == largest_sent_at_last_cutback_ <= p

(* Both algorithms remember at a loss how far they had sent, and ignore    *)
(* further losses up to there.                                             *)
NewLoss(p) ==
  largest_sent_at_last_cutback_ = 0 \/ largest_sent_at_last_cutback_ < p

CutBack ==
  /\ largest_sent_at_last_cutback_' = largest_sent_packet_number_
  /\ sinceCutback' = {}

Elapse ==
  /\ Idle
  /\ now < MaxTime[algo]
  /\ now' = now + 1
  /\ UNCHANGED <<algo, largest_sent_packet_number_,
                 largest_acked_packet_number_, largest_sent_at_last_cutback_,
                 congestion_window_, reportVars, fault, sinceCutback>>
=============================================================================
