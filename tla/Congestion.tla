----------------------------- MODULE Congestion -----------------------------
(***************************************************************************)
(* A connection whose sender is one of the congestion controllers of the   *)
(* repository.  Which packets are acknowledged and lost, and when, is left *)
(* open within what QUIC can report.                                       *)
(***************************************************************************)
EXTENDS VegasSender, CopaSender

CONSTANT InitialWindows   (* packets QUIC may set the initial window to    *)
ASSUME InitialWindowsAssumption ==
  InitialWindows \subseteq {w \in Nat : 4 <= w /\ w <= MaxWindow}

vars == <<senderVars, vegasVars, copaVars>>

(* The factory has created the sender; the variables of the algorithm that *)
(* was not chosen keep their first values and mean nothing.                *)
Init == SenderInit /\ VegasInit /\ CopaInit

IsVegas == algo = "vegas" /\ UNCHANGED copaVars
IsCopa  == algo = "copa"  /\ UNCHANGED vegasVars

Send ==
  \/ IsVegas /\ VegasOnPacketSent
  \/ IsCopa  /\ CopaOnPacketSent

SetInitialCongestionWindow ==
  \E packets \in InitialWindows :
    \/ IsVegas /\ VegasSetInitialCongestionWindow(packets)
    \/ IsCopa  /\ CopaSetInitialCongestionWindow(packets)

OnCongestionEvent ==
  \E acked \in SUBSET unacked, lost \in SUBSET inFlight, rtt \in Rtts[algo] :
    \/ IsVegas /\ VegasOnCongestionEvent(acked, lost, rtt)
    \/ IsCopa  /\ CopaOnCongestionEvent(acked, lost, rtt)

ProcessLost ==
  \E p \in event.lost : \/ IsVegas /\ VegasOnPacketLost(p)
                        \/ IsCopa  /\ CopaOnPacketLost(p)

ProcessAcked ==
  \/ \E p \in event.acked : IsVegas /\ VegasOnPacketAcked(p)
  \/ IsVegas /\ VegasEventDone
  \/ IsCopa /\ CopaOnPacketAcked

Tick == Elapse /\ UNCHANGED <<vegasVars, copaVars>>

Next ==
  \/ Send \/ SetInitialCongestionWindow \/ Tick
  \/ OnCongestionEvent \/ ProcessLost \/ ProcessAcked

Spec == Init /\ [][Next]_vars

-----------------------------------------------------------------------------
(* What the variables hold; packet numbers never run ahead of what was     *)
(* sent.                                                                   *)
TypeOK ==
  /\ algo \in Algorithms /\ fault \in {"no", "check", "throw"}
  /\ now \in Nat \ {0}
  /\ largest_sent_packet_number_ \in Nat
  /\ largest_acked_packet_number_ \in 0..largest_sent_packet_number_
  /\ largest_sent_at_last_cutback_ \in 0..largest_sent_packet_number_
  /\ congestion_window_ \in Nat /\ slowstart_threshold_ \in Nat
  /\ latest_rtt \in Nat /\ smoothed_rtt \in Nat
  /\ inFlight \subseteq 1..largest_sent_packet_number_
  /\ unacked \subseteq 1..largest_sent_packet_number_
  /\ sinceCutback \subseteq 1..largest_sent_packet_number_
  /\ event \in [busy : BOOLEAN, lost : SUBSET (1..largest_sent_packet_number_),
                acked : SUBSET (1..largest_sent_packet_number_), before : BOOLEAN]
  /\ baseRTTFilter_ \in Filters(Nat, Nat)
  /\ min_rtt_ \in Nat /\ rtt_count_ \in Nat /\ baseRose \in BOOLEAN
  /\ beg_send_next_ \in 0..largest_sent_packet_number_
  /\ num_acked_packets_ \in Nat /\ vegas_mode_ \in BOOLEAN
  /\ isSlowStart_ \in BOOLEAN /\ lastCwndDoubleTime_ \in Nat
  /\ minRTTFilter_ \in Filters(Nat, Nat)
  /\ standingRTTFilter_ \in Filters(Nat, Nat)
  /\ velocityState_ \in [velocity : Nat, direction : {"None", "Up", "Down"},
                         numTimesDirectionSame : Nat,
                         lastRecordedCwndBytes : Nat, lastCwndRecordTime : Nat]

(* No sequence of losses, rounds and decreases takes the window below four *)
(* packets, the minimum both constructors set: Vegas halves it and takes   *)
(* packets off, Copa subtracts in unsigned arithmetic.                     *)
WindowAtLeastMinimum == min_congestion_window_ <= congestion_window_

(* However the losses of one flight are spread over reports, they cut back *)
(* once: the loss that does was sent after the cutback before it.          *)
OneCutPerFlight ==
  [][sinceCutback' = {} /\ sinceCutback # {}
       => \E p \in event.lost \ event'.lost : p \in sinceCutback]_vars

(* Between reports Vegas is on exactly while the sender is not in          *)
(* recovery, though a report may start a recovery, end one, or both.       *)
ModeTracksRecovery == algo = "vegas" /\ ~event.busy => vegas_mode_ = ~InRecovery

(* QUICHE_CHECK (min_rtt_ >= base_rtt) can fail (line 186), but only once  *)
(* the connection is older than the filter's window, and in a round in     *)
(* which the filter gave up its minimum for a larger one; and beg_send_next_ *)
(* is always initialized (line 177).                                       *)
VegasCheckHolds ==
  algo = "vegas" /\ fault # "no" => baseRose /\ now > kMinRTTWindowLength

(* Copa's delay is never negative and its standing round-trip time never   *)
(* zero, whatever the two filters have forgotten: QUICHE_CHECK (0) is not  *)
(* reached.                                                                *)
CopaChecksHold == algo = "copa" => fault # "check"

(* A velocity above one only ever moves the window in the direction in     *)
(* which it was gained.                                                    *)
VelocityPointsAlong ==
  [][algo = "copa" /\ congestion_window_' # congestion_window_
       /\ velocityState_'.velocity > 1
       => velocityState_'.direction =
            IF congestion_window_' > congestion_window_ THEN "Up" ELSE "Down"]_vars
-----------------------------------------------------------------------------
(* The inductive invariant: of what both senders share, of each of them,   *)
(* and of the one that runs.                                               *)

(* A filter that has seen a sample has no empty estimate. *)
FilterOk(f) ==
  /\ f \in Filters(Nat, Nat)
  /\ f.best.sample > 0 => f.second.sample > 0 /\ f.third.sample > 0

SenderInv ==
  /\ algo \in Algorithms /\ fault \in {"no", "check", "throw"}
  /\ now \in Nat \ {0}
  /\ largest_sent_packet_number_ \in Nat
  /\ largest_acked_packet_number_ \in 0..largest_sent_packet_number_
  /\ largest_sent_at_last_cutback_ \in 0..largest_sent_packet_number_
  /\ latest_rtt \in Nat /\ smoothed_rtt \in Nat
  /\ inFlight \subseteq 1..largest_sent_packet_number_
  /\ unacked \subseteq 1..largest_sent_packet_number_
  /\ event \in [busy : BOOLEAN, lost : SUBSET (1..largest_sent_packet_number_),
                acked : SUBSET (1..largest_sent_packet_number_), before : BOOLEAN]
  /\ sinceCutback = (largest_sent_at_last_cutback_ + 1)..largest_sent_packet_number_
  /\ latest_rtt = 0 \/ latest_rtt \in Rtts[algo]
  /\ largest_acked_packet_number_ > 0 \/ event.busy => latest_rtt > 0

WindowInv ==
  /\ congestion_window_ \in Nat
  /\ min_congestion_window_ <= congestion_window_

RoundInv ==
  /\ FilterOk(baseRTTFilter_)
  /\ min_rtt_ \in Nat \ {0} /\ rtt_count_ \in Nat /\ baseRose \in BOOLEAN
  /\ rtt_count_ > 0 => BaseRtt > 0
  /\ rtt_count_ = 0 => min_rtt_ = Infinite
  /\ ~baseRose /\ rtt_count_ > 0 => BaseRtt <= min_rtt_
  /\ baseRose => now > kMinRTTWindowLength

VegasInv ==
  /\ slowstart_threshold_ \in Nat /\ num_acked_packets_ \in Nat
  /\ beg_send_next_ \in 0..largest_sent_packet_number_
  /\ vegas_mode_ \in BOOLEAN

CopaInv ==
  /\ isSlowStart_ \in BOOLEAN /\ lastCwndDoubleTime_ \in Nat
  /\ FilterOk(minRTTFilter_) /\ FilterOk(standingRTTFilter_)
  /\ velocityState_ \in [velocity : Nat, direction : {"None", "Up", "Down"},
                         numTimesDirectionSame : Nat,
                         lastRecordedCwndBytes : Nat, lastCwndRecordTime : Nat]
  /\ isSlowStart_ => velocityState_.velocity = 1

AlgoInv ==
  /\ algo = "vegas" =>
       /\ largest_sent_packet_number_ > 0 => beg_send_next_ > 0
       /\ vegas_mode_ = ~(IF event.busy THEN event.before ELSE InRecovery)
       /\ fault # "no" => baseRose
  /\ algo = "copa" => fault # "check"

CongestionInv == SenderInv /\ WindowInv /\ RoundInv /\ VegasInv /\ CopaInv /\ AlgoInv
=============================================================================
