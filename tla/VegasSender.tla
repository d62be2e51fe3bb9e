----------------------------- MODULE VegasSender -----------------------------
(***************************************************************************)
(* VegasSender: TCP Vegas for QUIC.  Once per round trip it compares the   *)
(* smallest round-trip time of the round with the smallest of the last ten *)
(* seconds, and moves the window by a packet; while it recovers from a     *)
(* loss it grows the window as Reno does.  Times are microseconds.         *)
(***************************************************************************)
EXTENDS SendAlgorithm

CONSTANT Infinite       (* QuicTime::Delta::Infinite                       *)
ASSUME InfiniteAssumption ==
  /\ Infinite \in Nat \ {0}
  /\ \A r \in UNION {Rtts[a] : a \in Algorithms} : r + 1 < Infinite

VARIABLES
  slowstart_threshold_,
  baseRTTFilter_,       (* smallest round-trip time of the last window     *)
  min_rtt_, rtt_count_, (* smallest of this round, and how many it had     *)
  beg_send_next_,       (* the round ends when this packet is acknowledged *)
  num_acked_packets_,   (* acknowledged since Reno's last increase         *)
  vegas_mode_,
  baseRose              (* history: the filter gave up its minimum for a   *)
                        (* larger one in this round                        *)

roundVars == <<min_rtt_, rtt_count_, baseRose>>
vegasVars == <<slowstart_threshold_, baseRTTFilter_, roundVars,
               beg_send_next_, num_acked_packets_, vegas_mode_>>

kAlphaCongestionWindow == 2 * kDefaultTCPMSS
kBetaCongestionWindow  == 4 * kDefaultTCPMSS
kGammaCongestionWindow == 1 * kDefaultTCPMSS

VegasInit ==
  /\ slowstart_threshold_ = MaxWindow * kDefaultTCPMSS
  /\ baseRTTFilter_ = NoSample
  /\ min_rtt_ = Infinite /\ rtt_count_ = 0
  /\ beg_send_next_ = 0
  /\ num_acked_packets_ = 0
  /\ vegas_mode_ = TRUE
  /\ baseRose = FALSE

VegasInSlowStart == congestion_window_ < slowstart_threshold_

(* QUIC replaces the initial window while nothing was acknowledged. *)
VegasSetInitialCongestionWindow(packets) ==
  /\ Idle /\ largest_acked_packet_number_ = 0
  /\ VegasInSlowStart
  /\ congestion_window_' = packets * kDefaultTCPMSS
  /\ UNCHANGED <<algo, now, largest_sent_packet_number_,
                 largest_acked_packet_number_, largest_sent_at_last_cutback_,
                 reportVars, fault, sinceCutback, vegasVars>>

(* Mutant: the first round ends with the packet after the first. *)
VegasOnPacketSentAhead ==
  /\ OnPacketSent
  /\ beg_send_next_' =
       IF beg_send_next_ = 0 THEN largest_sent_packet_number_' + 1 ELSE beg_send_next_
  /\ UNCHANGED <<slowstart_threshold_, baseRTTFilter_, roundVars,
                 num_acked_packets_, vegas_mode_>>

VegasOnPacketSent ==
  /\ OnPacketSent
  /\ beg_send_next_' =
       IF beg_send_next_ = 0 THEN largest_sent_packet_number_' ELSE beg_send_next_
  /\ UNCHANGED <<slowstart_threshold_, baseRTTFilter_, roundVars,
                 num_acked_packets_, vegas_mode_>>

-----------------------------------------------------------------------------
(* OnCongestionEvent, from its first lines to its last.                    *)

BaseRtt == GetBest(baseRTTFilter_)

(* A report with acknowledgements is a sample of the round-trip time. *)
VegasOnCongestionEvent(acked, lost, rtt) ==
  /\ Report(acked, lost, rtt)
  /\ IF acked = {}
     THEN UNCHANGED <<baseRTTFilter_, roundVars>>
     ELSE LET vrtt == latest_rtt' + 1 IN
          /\ baseRTTFilter_' =
               Update(baseRTTFilter_, vrtt, now, kMinRTTWindowLength)
          /\ min_rtt_' = AtMost(min_rtt_, vrtt)
          /\ rtt_count_' = rtt_count_ + 1
          /\ baseRose' =
               (baseRose \/ (BaseRtt # 0 /\ BaseRtt' > BaseRtt))
  /\ UNCHANGED <<slowstart_threshold_, beg_send_next_, num_acked_packets_,
                 vegas_mode_>>

(* Mutant: without the floor. *)
HalvedWindowOnly == congestion_window_ \div 2

(* The window is halved for the first loss of a flight. *)
HalvedWindow == AtLeast(congestion_window_ \div 2, min_congestion_window_)

VegasOnPacketLost(p) ==
  /\ NextLost(p)
  /\ event' = [event EXCEPT !.lost = @ \ {p}]
  /\ IF NewLoss(p)
     THEN /\ congestion_window_' = HalvedWindow
          /\ slowstart_threshold_' = congestion_window_'
          /\ num_acked_packets_' = 0
          /\ CutBack
     ELSE UNCHANGED <<congestion_window_, slowstart_threshold_,
                      num_acked_packets_, largest_sent_at_last_cutback_,
                      sinceCutback>>
  /\ UNCHANGED <<algo, now, largest_sent_packet_number_,
                 largest_acked_packet_number_, latest_rtt, smoothed_rtt,
                 inFlight, unacked, fault, baseRTTFilter_, roundVars,
                 beg_send_next_, vegas_mode_>>

(* A packet more per acknowledgement in slow start, per window after it. *)
FullWindowAcked ==
  (num_acked_packets_ + 1) * kDefaultTCPMSS >= congestion_window_

IncreaseCongestionWindowAsReno(floor) ==
  /\ congestion_window_' =
       AtLeast(IF VegasInSlowStart \/ FullWindowAcked
               THEN congestion_window_ + kDefaultTCPMSS ELSE congestion_window_,
               floor)
  /\ num_acked_packets_' =
       CASE VegasInSlowStart -> num_acked_packets_
         [] ~VegasInSlowStart /\ FullWindowAcked -> 0
         [] OTHER -> num_acked_packets_ + 1
  /\ UNCHANGED slowstart_threshold_

(* The comparison at the end of a round: what the window would be if it    *)
(* held exactly what the path carries, in whole packets, and how much more *)
(* it holds now.                                                           *)
TargetWindow ==
  LET exact == (congestion_window_ * BaseRtt) \div min_rtt_
  IN  ((exact + kDefaultTCPMSS - 1) \div kDefaultTCPMSS) * kDefaultTCPMSS
Excess == (congestion_window_ * (min_rtt_ - BaseRtt)) \div BaseRtt

AdjustedWindow ==
  CASE VegasInSlowStart /\ Excess > kGammaCongestionWindow ->
         AtMost(congestion_window_, TargetWindow)
    [] VegasInSlowStart /\ Excess <= kGammaCongestionWindow ->
         congestion_window_ + kDefaultTCPMSS
    [] ~VegasInSlowStart /\ Excess > kBetaCongestionWindow ->
         IF congestion_window_ > min_congestion_window_
         THEN congestion_window_ - kDefaultTCPMSS ELSE congestion_window_
    [] ~VegasInSlowStart /\ Excess < kAlphaCongestionWindow ->
         congestion_window_ + kDefaultTCPMSS
    [] OTHER -> congestion_window_

AdjustWindow ==
  /\ congestion_window_' = AtLeast(AdjustedWindow, min_congestion_window_)
  /\ slowstart_threshold_' =
       IF VegasInSlowStart /\ Excess > kGammaCongestionWindow
       THEN AdjustedWindow ELSE slowstart_threshold_
  /\ UNCHANGED num_acked_packets_

(* Mutant: the minimum is carried into the next round. *)
NewRoundCarries ==
  /\ UNCHANGED min_rtt_
  /\ rtt_count_' = 0
  /\ baseRose' = FALSE

NewRound ==
  /\ min_rtt_' = Infinite
  /\ rtt_count_' = 0
  /\ baseRose' = FALSE

EndsRound(p) == vegas_mode_ /\ beg_send_next_ <= p
Compares(p)  == EndsRound(p) /\ rtt_count_ > 2

(* QUICHE_CHECK ends the program.  The round's minimum is below that of    *)
(* the filter if the filter has forgotten a sample of the round.           *)
CheckFails(p) ==
  vegas_mode_ /\ (beg_send_next_ = 0 \/ (Compares(p) /\ min_rtt_ < BaseRtt))

VegasOnPacketAcked(p) ==
  /\ NextAcked(p)
  /\ event' = [event EXCEPT !.acked = @ \ {p}]
  /\ largest_acked_packet_number_' = AtLeast(largest_acked_packet_number_, p)
  /\ \/ /\ ~vegas_mode_
        /\ IncreaseCongestionWindowAsReno(0)
        /\ UNCHANGED <<beg_send_next_, roundVars, fault>>
     \/ /\ CheckFails(p)
        /\ fault' = "check"
        /\ UNCHANGED <<congestion_window_, slowstart_threshold_,
                       num_acked_packets_, beg_send_next_, roundVars>>
     \/ /\ ~CheckFails(p) /\ EndsRound(p)
        /\ IF Compares(p) THEN AdjustWindow
           ELSE IncreaseCongestionWindowAsReno(min_congestion_window_)
        /\ beg_send_next_' = largest_sent_packet_number_
        /\ NewRound
        /\ UNCHANGED fault
     \/ /\ ~CheckFails(p) /\ vegas_mode_ /\ ~EndsRound(p)
        /\ congestion_window_' =
             AtLeast(IF VegasInSlowStart THEN congestion_window_ + kDefaultTCPMSS
                     ELSE congestion_window_, min_congestion_window_)
        /\ UNCHANGED <<slowstart_threshold_, num_acked_packets_,
                       beg_send_next_, roundVars, fault>>
  /\ UNCHANGED <<algo, now, largest_sent_packet_number_,
                 largest_sent_at_last_cutback_, latest_rtt, smoothed_rtt,
                 inFlight, unacked, sinceCutback, baseRTTFilter_, vegas_mode_>>

(* Mutant: Vegas stays off. *)
VegasEventDoneOff ==
  /\ event.busy /\ fault = "no" /\ event.lost = {} /\ event.acked = {}
  /\ event' = NoEvent
  /\ vegas_mode_' = (vegas_mode_ /\ ~InRecovery)
  /\ UNCHANGED <<algo, now, largest_sent_packet_number_,
                 largest_acked_packet_number_, largest_sent_at_last_cutback_,
                 congestion_window_, latest_rtt, smoothed_rtt, inFlight,
                 unacked, fault, sinceCutback, slowstart_threshold_,
                 baseRTTFilter_, roundVars, beg_send_next_, num_acked_packets_>>

(* Vegas is switched off when the report has started a recovery, and       *)
(* starts over with a new round when it has ended one.                     *)
VegasEventDone ==
  /\ event.busy /\ fault = "no" /\ event.lost = {} /\ event.acked = {}
  /\ event' = NoEvent
  /\ vegas_mode_' = IF InRecovery # event.before THEN ~InRecovery ELSE vegas_mode_
  /\ IF event.before /\ ~InRecovery
     THEN /\ beg_send_next_' = largest_sent_packet_number_
          /\ NewRound
     ELSE UNCHANGED <<beg_send_next_, roundVars>>
  /\ UNCHANGED <<algo, now, largest_sent_packet_number_,
                 largest_acked_packet_number_, largest_sent_at_last_cutback_,
                 congestion_window_, latest_rtt, smoothed_rtt, inFlight,
                 unacked, fault, sinceCutback, slowstart_threshold_,
                 baseRTTFilter_, num_acked_packets_>>
=============================================================================
