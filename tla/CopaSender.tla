----------------------------- MODULE CopaSender -----------------------------
(***************************************************************************)
(* CopaSender: the Copa controller copied from mvfst.  It compares the     *)
(* rate it sends at with a target that is inversely proportional to the    *)
(* queueing delay, and moves the window towards it at a velocity that      *)
(* doubles while the direction stays the same.  A loss changes nothing but *)
(* the packet number up to which the sender counts as recovering.          *)
(***************************************************************************)
EXTENDS SendAlgorithm

CONSTANTS
  Second,         (* microseconds in a second; a scale that cancels out    *)
  MaxBytes        (* largest value of a window (uint64_t)                  *)
ASSUME ScaleAssumption == Second \in Nat \ {0}
ASSUME WidthAssumption == MaxBytes \in Nat

VARIABLES
  isSlowStart_,
  lastCwndDoubleTime_,
  minRTTFilter_,      (* smallest round-trip time of the last window       *)
  standingRTTFilter_, (* smallest of the last half round trip              *)
  velocityState_

copaVars == <<isSlowStart_, lastCwndDoubleTime_, minRTTFilter_,
              standingRTTFilter_, velocityState_>>

CopaInit ==
  /\ isSlowStart_ = TRUE
  /\ lastCwndDoubleTime_ = 0
  /\ minRTTFilter_ = NoSample
  /\ standingRTTFilter_ = NoSample
  /\ velocityState_ = [velocity |-> 1, direction |-> "None",
                       numTimesDirectionSame |-> 0,
                       lastRecordedCwndBytes |-> 0, lastCwndRecordTime |-> 0]

CopaSetInitialCongestionWindow(packets) ==
  /\ Idle /\ largest_acked_packet_number_ = 0
  /\ isSlowStart_
  /\ congestion_window_' = packets * kDefaultTCPMSS
  /\ UNCHANGED <<algo, now, largest_sent_packet_number_,
                 largest_acked_packet_number_, largest_sent_at_last_cutback_,
                 reportVars, fault, sinceCutback, copaVars>>

CopaOnPacketSent == OnPacketSent /\ UNCHANGED copaVars

CopaOnCongestionEvent(acked, lost, rtt) ==
  Report(acked, lost, rtt) /\ UNCHANGED copaVars

CopaOnPacketLost(p) ==
  /\ NextLost(p)
  /\ event' = [event EXCEPT !.lost = @ \ {p}]
  /\ IF NewLoss(p) THEN CutBack
     ELSE UNCHANGED <<largest_sent_at_last_cutback_, sinceCutback>>
  /\ UNCHANGED <<algo, now, largest_sent_packet_number_,
                 largest_acked_packet_number_, congestion_window_, latest_rtt,
                 smoothed_rtt, inFlight, unacked, fault, copaVars>>

-----------------------------------------------------------------------------
(* The velocity.                                                           *)

(* Once per round trip the direction is what the window has done since.    *)
CheckAndUpdateDirection(v, window) ==
  LET direction == IF window > v.lastRecordedCwndBytes THEN "Up" ELSE "Down"
      same      == v.numTimesDirectionSame + 1
      recorded  == [v EXCEPT !.lastRecordedCwndBytes = window,
                             !.lastCwndRecordTime = now]
  IN  IF v.lastCwndRecordTime = 0 THEN recorded
      ELSE IF now - v.lastCwndRecordTime < smoothed_rtt THEN v
      ELSE IF direction # v.direction
      THEN [recorded EXCEPT !.direction = direction, !.velocity = 1,
                            !.numTimesDirectionSame = 0]
      ELSE [recorded EXCEPT !.numTimesDirectionSame = same,
                            !.velocity = IF same >= 3 THEN 2 * @ ELSE @]

(* Mutant: the velocity is kept. *)
ChangeDirectionKeeps(v, direction, window) == v

(* A velocity that was gained in the other direction is given up. *)
ChangeDirection(v, direction, window) ==
  IF v.direction # direction /\ v.velocity > 1
  THEN [velocity |-> 1, direction |-> direction, numTimesDirectionSame |-> 0,
        lastRecordedCwndBytes |-> window, lastCwndRecordTime |-> now]
  ELSE v

-----------------------------------------------------------------------------
(* OnPacketAcked: once per report, with all packets it acknowledges.       *)

MinRtt      == Update(minRTTFilter_, latest_rtt, now, kMinRTTWindowLength)
StandingRtt == Update(standingRTTFilter_, latest_rtt, now, smoothed_rtt \div 2)
Delay       == latest_rtt - GetBest(MinRtt)

(* The program ends on a negative delay or an empty standing filter. *)
RttCheckFails == Delay < 0 \/ GetBest(StandingRtt) = 0

(* With a latency factor of 1/2. *)
TargetRate  == (2 * kDefaultTCPMSS * Second) \div Delay
CurrentRate == (congestion_window_ * Second) \div GetBest(StandingRtt)
IncreaseCwnd == IF Delay = 0 THEN TRUE ELSE TargetRate >= CurrentRate

Step(v) == (2 * Cardinality(event.acked) * kDefaultTCPMSS * kDefaultTCPMSS
              * v.velocity) \div congestion_window_

(* addAndCheckOverflow and subtractAndCheckUnderflow throw rather than     *)
(* wrap around.                                                            *)
SetWindow(window) ==
  IF window \in 0..MaxBytes
  THEN congestion_window_' = window /\ UNCHANGED fault
  ELSE fault' = "throw" /\ UNCHANGED congestion_window_

(* Slow start doubles the window once per smoothed round trip. *)
SlowStartIncrease ==
  /\ IncreaseCwnd /\ isSlowStart_
  /\ \/ /\ lastCwndDoubleTime_ = 0
        /\ lastCwndDoubleTime_' = now
        /\ UNCHANGED <<congestion_window_, fault>>
     \/ /\ lastCwndDoubleTime_ # 0 /\ now - lastCwndDoubleTime_ > smoothed_rtt
        /\ SetWindow(congestion_window_ + congestion_window_)
        /\ lastCwndDoubleTime_' = now
     \/ /\ lastCwndDoubleTime_ # 0 /\ now - lastCwndDoubleTime_ <= smoothed_rtt
        /\ UNCHANGED <<lastCwndDoubleTime_, congestion_window_, fault>>
  /\ UNCHANGED <<isSlowStart_, velocityState_>>

Increase ==
  /\ IncreaseCwnd /\ ~isSlowStart_
  /\ velocityState_' =
       ChangeDirection(CheckAndUpdateDirection(velocityState_, congestion_window_),
                       "Up", congestion_window_)
  /\ SetWindow(congestion_window_ + Step(velocityState_'))
  /\ UNCHANGED <<isSlowStart_, lastCwndDoubleTime_>>

(* The room above the minimum, in unsigned arithmetic: a window below the  *)
(* minimum would leave it next to MaxBytes.                                *)
Room ==
  IF congestion_window_ < min_congestion_window_
  THEN congestion_window_ - min_congestion_window_ + MaxBytes + 1
  ELSE congestion_window_ - min_congestion_window_

Decrease ==
  /\ ~IncreaseCwnd
  /\ velocityState_' =
       ChangeDirection(CheckAndUpdateDirection(velocityState_, congestion_window_),
                       "Down", congestion_window_)
  /\ isSlowStart_' = FALSE
  /\ SetWindow(congestion_window_ - AtMost(Step(velocityState_'), Room))
  /\ UNCHANGED lastCwndDoubleTime_

CopaOnPacketAcked ==
  /\ event.busy /\ fault = "no" /\ event.lost = {}
  /\ largest_acked_packet_number_' \in
       {la \in event.acked \cup {largest_acked_packet_number_} :
          \A p \in event.acked \cup {largest_acked_packet_number_} : p <= la}
  /\ event' = NoEvent
  /\ minRTTFilter_' = MinRtt
  /\ standingRTTFilter_' = StandingRtt
  /\ IF RttCheckFails
     THEN /\ fault' = "check"
          /\ UNCHANGED <<congestion_window_, isSlowStart_,
                         lastCwndDoubleTime_, velocityState_>>
     ELSE SlowStartIncrease \/ Increase \/ Decrease
  /\ UNCHANGED <<algo, now, largest_sent_packet_number_,
                 largest_sent_at_last_cutback_, latest_rtt, smoothed_rtt,
                 inFlight, unacked, sinceCutback>>
=============================================================================
