-------------------------- MODULE Congestion_proofs --------------------------
(***************************************************************************)
(* The invariant of the two congestion controllers and what follows from   *)
(* it, for every packet size, window, filter length and set of round-trip  *)
(* times, and for every way in which packets are acknowledged and lost.    *)
(***************************************************************************)
EXTENDS Congestion, TLAPS, FiniteSetTheorems

-----------------------------------------------------------------------------
(* Arithmetic the solver does not do where terms are large.                *)

LEMMA ProductNat == ASSUME NEW x \in Nat, NEW y \in Nat PROVE x * y \in Nat
  OBVIOUS

LEMMA QuotientNat == ASSUME NEW x \in Nat, NEW m \in Nat \ {0} PROVE x \div m \in Nat
  OBVIOUS

LEMMA ProductPositive ==
  ASSUME NEW x \in Nat \ {0}, NEW y \in Nat \ {0} PROVE x * y \in Nat \ {0}
  OBVIOUS

LEMMA SuccPositive == ASSUME NEW x \in Nat \ {0} PROVE x + 1 \in Nat \ {0}
  OBVIOUS

LEMMA ProductGrows ==
  ASSUME NEW x \in Nat, NEW y \in Nat, 4 <= x
  PROVE  x * y \in Nat /\ 4 * y <= x * y
  <1>1. PICK d \in Nat : x = 4 + d
    <2>1. x - 4 \in Nat /\ x = 4 + (x - 4)
      OBVIOUS
    <2> QED BY <2>1
  <1>2. x * y = 4 * y + d * y
    BY <1>1
  <1>3. d * y \in Nat
    BY ProductNat
  <1> QED BY <1>2, <1>3

-----------------------------------------------------------------------------
(* The windowed filter.                                                    *)

(* What the replacements of estimates leave in a filter. *)
LEMMA Replaced ==
  ASSUME NEW f \in Filters(Nat, Nat), NEW e \in Estimates(Nat, Nat)
  PROVE  /\ [f EXCEPT !.third = e] \in [best : {f.best}, second : {f.second}, third : {e}]
         /\ [f EXCEPT !.second = e, !.third = e]
              \in [best : {f.best}, second : {e}, third : {e}]
         /\ Promote(f, e) \in [best : {f.second}, second : {f.third}, third : {e}]
  <1> DEFINE S == Estimates(Nat, Nat)
  <1>1. f \in [best : S, second : S, third : S] /\ e \in S
    BY DEF Filters
  <1> HIDE DEF S
  <1>2. [f EXCEPT !.third = e] \in [best : {f.best}, second : {f.second}, third : {e}]
    BY <1>1
  <1>3. [f EXCEPT !.second = e, !.third = e]
          \in [best : {f.best}, second : {e}, third : {e}]
    BY <1>1
  <1>4. Promote(f, e) \in [best : {f.second}, second : {f.third}, third : {e}]
    BY <1>1 DEF Promote
  <1> QED BY <1>2, <1>3, <1>4

(* A sample leaves the filter well formed, with estimates that are real.   *)
LEMMA UpdateOk ==
  ASSUME NEW f, FilterOk(f), NEW s \in Nat \ {0}, NEW t \in Nat, NEW w \in Nat
  PROVE  FilterOk(Update(f, s, t, w)) /\ GetBest(Update(f, s, t, w)) > 0
  <1> DEFINE new == Estimate(s, t)
             Good(g) == /\ g \in Filters(Nat, Nat) /\ g.best.sample > 0
                        /\ g.second.sample > 0 /\ g.third.sample > 0
  <1>1. new \in Estimates(Nat, Nat) /\ new.sample = s
    BY DEF Estimate, Estimates
  <1>2. ASSUME NEW e1 \in Estimates(Nat, Nat), NEW e2 \in Estimates(Nat, Nat),
               NEW e3 \in Estimates(Nat, Nat),
               e1.sample > 0, e2.sample > 0, e3.sample > 0
        PROVE  Good([best |-> e1, second |-> e2, third |-> e3])
    BY <1>2 DEF Filters
  <1>3. ASSUME NEW g, Good(g)
        PROVE  /\ g.best \in Estimates(Nat, Nat) /\ g.second \in Estimates(Nat, Nat)
               /\ g.third \in Estimates(Nat, Nat)
               /\ g = [best |-> g.best, second |-> g.second, third |-> g.third]
    BY <1>3 DEF Filters
  <1>4. Good(Reset(new))
    BY <1>1, <1>2 DEF Reset
  <1>5. ASSUME NEW g, Good(g)
        PROVE  /\ Good([g EXCEPT !.third = new])
               /\ Good([g EXCEPT !.second = new, !.third = new])
               /\ Good(Promote(g, new))
    <2>1. g \in Filters(Nat, Nat) /\ new \in Estimates(Nat, Nat) /\ new.sample > 0
      BY <1>1, <1>5
    <2>2. g.best.sample > 0 /\ g.second.sample > 0 /\ g.third.sample > 0
      BY <1>5
    <2>3. /\ g.best \in Estimates(Nat, Nat) /\ g.second \in Estimates(Nat, Nat)
          /\ g.third \in Estimates(Nat, Nat)
      BY <1>3, <1>5
    <2>4. ASSUME NEW e1 \in Estimates(Nat, Nat), NEW e2 \in Estimates(Nat, Nat),
                 NEW e3 \in Estimates(Nat, Nat),
                 e1.sample > 0, e2.sample > 0, e3.sample > 0,
                 NEW h \in [best : {e1}, second : {e2}, third : {e3}]
          PROVE  Good(h)
      BY <2>4 DEF Filters
    <2> HIDE DEF Good, new
    <2>5. /\ [g EXCEPT !.third = new]
               \in [best : {g.best}, second : {g.second}, third : {new}]
          /\ [g EXCEPT !.second = new, !.third = new]
               \in [best : {g.best}, second : {new}, third : {new}]
          /\ Promote(g, new) \in [best : {g.second}, second : {g.third}, third : {new}]
      BY <2>1, Replaced
    <2>6. Good([g EXCEPT !.third = new])
      BY <2>1, <2>2, <2>3, <2>4, <2>5
    <2>7. Good([g EXCEPT !.second = new, !.third = new])
      BY <2>1, <2>2, <2>3, <2>4, <2>5
    <2>8. Good(Promote(g, new))
      BY <2>1, <2>2, <2>3, <2>4, <2>5
    <2> QED BY <2>6, <2>7, <2>8
  <1>6. ASSUME f.best.sample # 0 PROVE Good(f)
    BY <1>6 DEF FilterOk, Filters, Estimates
  <1>7. ASSUME NEW g, Good(g)
        PROVE  Good(Improve(g, new)) /\ Good(Spread(g, new, w)) /\ Good(Expire(g, new, w))
    <2> HIDE DEF Good
    <2>1. Good(Improve(g, new)) /\ Good(Spread(g, new, w))
      BY <1>5, <1>7 DEF Improve, Spread
    <2>2. Good(Promote(g, new)) /\ Good(Promote(Promote(g, new), new))
      BY <1>5, <1>7
    <2> QED BY <2>1, <2>2 DEF Expire
  <1>8. Good(Update(f, s, t, w))
    <2> HIDE DEF Good
    <2>1. CASE f.best.sample = 0
      BY <2>1, <1>4 DEF Update
    <2>2. CASE f.best.sample # 0
      <3>1. Good(Improve(f, new))
        BY <2>2, <1>6, <1>7
      <3> QED BY <3>1, <1>4, <1>7, <2>2 DEF Update
    <2> QED BY <2>1, <2>2
  <1> QED BY <1>8 DEF FilterOk, GetBest

(* The minimum is at most the newest sample, and rises only if the filter  *)
(* has run for longer than its window.                                     *)
LEMMA UpdateBest ==
  ASSUME NEW f, FilterOk(f), NEW s \in Nat \ {0}, NEW t \in Nat, NEW w \in Nat
  PROVE  /\ GetBest(Update(f, s, t, w)) <= s
         /\ GetBest(f) > 0 /\ GetBest(Update(f, s, t, w)) > GetBest(f) => t > w
  <1> DEFINE new == Estimate(s, t)
  <1>1. /\ f.best \in Estimates(Nat, Nat) /\ f.second \in Estimates(Nat, Nat)
        /\ f.third \in Estimates(Nat, Nat)
        /\ f = [best |-> f.best, second |-> f.second, third |-> f.third]
    BY DEF FilterOk, Filters
  <1>2. /\ f.best.sample \in Nat /\ f.second.sample \in Nat /\ f.third.sample \in Nat
        /\ f.best.time \in Nat /\ f.second.time \in Nat /\ f.third.time \in Nat
    BY <1>1 DEF Estimates
  <1>3. new.sample = s /\ new.time = t
    BY DEF Estimate
  <1> DEFINE next == Improve(f, new)
  <1>4. /\ next.best = f.best
        /\ next.second = new \/ (next.second = f.second /\ f.second.sample <= s)
        /\ next.third = new \/ (next.third = f.third /\ f.third.sample <= s)
    <2>1. f \in Filters(Nat, Nat) /\ new \in Estimates(Nat, Nat)
      BY DEF FilterOk, Estimate, Estimates
    <2> HIDE DEF new
    <2>2. /\ [f EXCEPT !.third = new]
               \in [best : {f.best}, second : {f.second}, third : {new}]
          /\ [f EXCEPT !.second = new, !.third = new]
               \in [best : {f.best}, second : {new}, third : {new}]
      BY <2>1, Replaced
    <2>3. CASE s <= f.second.sample
      BY <1>2, <1>3, <2>2, <2>3 DEF Improve
    <2>4. CASE ~(s <= f.second.sample) /\ s <= f.third.sample
      BY <1>2, <1>3, <2>2, <2>4 DEF Improve
    <2>5. CASE ~(s <= f.second.sample) /\ ~(s <= f.third.sample)
      BY <1>2, <1>3, <2>5 DEF Improve
    <2> QED BY <2>3, <2>4, <2>5
  <1>5. /\ Reset(new).best = new
        /\ Expire(next, new, w).best \in {next.second, next.third}
        /\ Spread(next, new, w).best = next.best
    <2>1. f \in Filters(Nat, Nat) /\ new \in Estimates(Nat, Nat)
      BY DEF FilterOk, Estimate, Estimates
    <2> HIDE DEF new
    <2>2. next \in Filters(Nat, Nat)
      BY <1>1, <2>1 DEF Improve, Filters
    <2> HIDE DEF next
    <2>3. /\ [next EXCEPT !.third = new].best = next.best
          /\ [next EXCEPT !.second = new, !.third = new].best = next.best
      <3>1. /\ [next EXCEPT !.third = new]
                 \in [best : {next.best}, second : {next.second}, third : {new}]
            /\ [next EXCEPT !.second = new, !.third = new]
                 \in [best : {next.best}, second : {new}, third : {new}]
        BY <2>1, <2>2, Replaced
      <3> QED BY <3>1
    <2>4. Spread(next, new, w).best = next.best
      BY <2>3 DEF Spread
    <2>5. Reset(new).best = new /\ Expire(next, new, w).best \in {next.second, next.third}
      BY DEF Reset, Expire, Promote
    <2> QED BY <2>4, <2>5
  <1> HIDE DEF new, next
  <1>6. CASE \/ f.best.sample = 0 \/ s <= f.best.sample
    <2>1. Update(f, s, t, w) = Reset(new)
      BY <1>6 DEF Update, new
    <2> QED BY <1>2, <1>3, <1>5, <1>6, <2>1 DEF GetBest
  <1>7. CASE ~(f.best.sample = 0 \/ s <= f.best.sample)
    <2>1. CASE Expired(f.third, t, w)
      <3>1. Update(f, s, t, w) = Reset(new)
        BY <2>1 DEF Update, new
      <3> QED BY <1>2, <1>3, <1>5, <2>1, <3>1 DEF GetBest, Expired
    <2>2. CASE ~Expired(f.third, t, w) /\ Expired(next.best, t, w)
      <3>1. Update(f, s, t, w) = Expire(next, new, w)
        BY <1>7, <2>2 DEF Update, new, next
      <3>2. t > w
        BY <1>2, <1>4, <2>2 DEF Expired
      <3>3. next.second.sample <= s /\ next.third.sample <= s
        BY <1>2, <1>3, <1>4
      <3> QED BY <1>5, <3>1, <3>2, <3>3 DEF GetBest
    <2>3. CASE ~Expired(f.third, t, w) /\ ~Expired(next.best, t, w)
      <3>1. Update(f, s, t, w) = Spread(next, new, w)
        BY <1>7, <2>3 DEF Update, new, next
      <3> QED BY <1>2, <1>4, <1>5, <1>7, <3>1 DEF GetBest
    <2> QED BY <2>1, <2>2, <2>3
  <1> QED BY <1>6, <1>7

-----------------------------------------------------------------------------
(* What the invariant says of the constants and of each part.              *)

LEMMA Constants ==
  /\ kDefaultTCPMSS \in Nat \ {0}
  /\ min_congestion_window_ \in Nat \ {0}
  /\ kMinRTTWindowLength \in Nat /\ Infinite \in Nat \ {0}
  /\ \A a \in Algorithms : \A r \in Rtts[a] : r \in Nat \ {0} /\ r + 1 < Infinite
  <1>1. min_congestion_window_ \in Nat \ {0}
    BY WindowAssumption DEF min_congestion_window_
  <1> QED BY <1>1, WindowAssumption, RttAssumption, InfiniteAssumption

LEMMA ImpliesTypeOK == ASSUME CongestionInv PROVE TypeOK
  <1>1. /\ algo \in Algorithms /\ fault \in {"no", "check", "throw"}
        /\ now \in Nat \ {0}
        /\ largest_sent_packet_number_ \in Nat
        /\ largest_acked_packet_number_ \in 0..largest_sent_packet_number_
        /\ largest_sent_at_last_cutback_ \in 0..largest_sent_packet_number_
        /\ latest_rtt \in Nat /\ smoothed_rtt \in Nat
        /\ inFlight \subseteq 1..largest_sent_packet_number_
        /\ unacked \subseteq 1..largest_sent_packet_number_
        /\ event \in [busy : BOOLEAN, lost : SUBSET (1..largest_sent_packet_number_),
                      acked : SUBSET (1..largest_sent_packet_number_), before : BOOLEAN]
    BY DEF CongestionInv, SenderInv
  <1>2. sinceCutback \subseteq 1..largest_sent_packet_number_
    BY DEF CongestionInv, SenderInv
  <1>3. congestion_window_ \in Nat /\ slowstart_threshold_ \in Nat
        /\ baseRTTFilter_ \in Filters(Nat, Nat)
        /\ min_rtt_ \in Nat /\ rtt_count_ \in Nat /\ baseRose \in BOOLEAN
        /\ beg_send_next_ \in 0..largest_sent_packet_number_
        /\ num_acked_packets_ \in Nat /\ vegas_mode_ \in BOOLEAN
    BY DEF CongestionInv, WindowInv, RoundInv, VegasInv, FilterOk
  <1>4. /\ isSlowStart_ \in BOOLEAN /\ lastCwndDoubleTime_ \in Nat
        /\ minRTTFilter_ \in Filters(Nat, Nat)
        /\ standingRTTFilter_ \in Filters(Nat, Nat)
        /\ velocityState_ \in [velocity : Nat, direction : {"None", "Up", "Down"},
                               numTimesDirectionSame : Nat,
                               lastRecordedCwndBytes : Nat, lastCwndRecordTime : Nat]
    BY DEF CongestionInv, CopaInv, FilterOk
  <1> QED BY <1>1, <1>2, <1>3, <1>4, Zenon DEF TypeOK

LEMMA NothingReported ==
  /\ NoEvent.busy = FALSE /\ NoEvent.lost = {} /\ NoEvent.acked = {}
  /\ \A n : NoEvent \in [busy : BOOLEAN, lost : SUBSET (1..n),
                         acked : SUBSET (1..n), before : BOOLEAN]
  BY DEF NoEvent

(* The constructors establish the invariant. *)
LEMMA InitInv == ASSUME Init PROVE CongestionInv
  <1>1. SenderInv
    <2>1. sinceCutback = (largest_sent_at_last_cutback_ + 1)..largest_sent_packet_number_
      BY DEF Init, SenderInit, GetCongestionType
    <2> QED BY <2>1, NothingReported DEF Init, SenderInit, GetCongestionType, SenderInv
  <1>2. WindowInv
    <2>1. congestion_window_ = InitialWindow * kDefaultTCPMSS
      BY DEF Init, SenderInit, GetCongestionType
    <2>2. /\ InitialWindow * kDefaultTCPMSS \in Nat
          /\ 4 * kDefaultTCPMSS <= InitialWindow * kDefaultTCPMSS
      BY WindowAssumption, ProductGrows
    <2> QED BY <2>1, <2>2 DEF WindowInv, min_congestion_window_
  <1>3. FilterOk(NoSample) /\ GetBest(NoSample) = 0
    <2>1. Estimate(0, 0) \in Estimates(Nat, Nat) /\ Estimate(0, 0).sample = 0
      BY DEF Estimate, Estimates
    <2>2. /\ NoSample.best = Estimate(0, 0) /\ NoSample \in Filters(Nat, Nat)
      <3> DEFINE e == Estimate(0, 0)
      <3>1. e \in Estimates(Nat, Nat)
        BY <2>1
      <3> HIDE DEF e
      <3>2. Reset(e).best = e /\ Reset(e) \in Filters(Nat, Nat)
        BY <3>1 DEF Reset, Filters
      <3> QED BY <3>2 DEF NoSample, e
    <2> QED BY <2>1, <2>2 DEF FilterOk, GetBest
  <1>4. RoundInv
    <2>1. /\ FilterOk(baseRTTFilter_) /\ BaseRtt = 0 /\ Infinite \in Nat \ {0}
          /\ min_rtt_ = Infinite /\ rtt_count_ = 0 /\ baseRose = FALSE
      BY <1>3, Constants DEF Init, VegasInit, BaseRtt
    <2>2. min_rtt_ \in Nat \ {0} /\ rtt_count_ \in Nat /\ ~(rtt_count_ > 0)
      BY <2>1
    <2>3. baseRose \in BOOLEAN /\ ~baseRose
      BY <2>1
    <2> QED BY <2>1, <2>2, <2>3, Zenon DEF RoundInv
  <1>5. VegasInv
    <2>1. MaxWindow * kDefaultTCPMSS \in Nat
      BY WindowAssumption, ProductNat
    <2> QED BY <2>1 DEF Init, SenderInit, GetCongestionType, VegasInit, VegasInv
  <1>6. CopaInv
    BY <1>3 DEF Init, CopaInit, CopaInv
  <1>7. AlgoInv
    <2>1. vegas_mode_ = TRUE /\ ~event.busy /\ fault = "no"
          /\ largest_sent_packet_number_ = 0 /\ largest_acked_packet_number_ = 0
      BY NothingReported DEF Init, SenderInit, GetCongestionType, VegasInit
    <2>2. ~InRecovery
      BY <2>1 DEF InRecovery
    <2>3. vegas_mode_ = ~(IF event.busy THEN event.before ELSE InRecovery)
      <3>1. (IF event.busy THEN event.before ELSE InRecovery) = InRecovery
        BY <2>1
      <3> QED BY <2>1, <2>2, <3>1, Zenon
    <2>4. fault # "check" /\ ~(fault # "no") /\ ~(largest_sent_packet_number_ > 0)
      BY <2>1
    <2> QED BY <2>3, <2>4, Zenon DEF AlgoInv
  <1> QED BY <1>1, <1>2, <1>4, <1>5, <1>6, <1>7 DEF CongestionInv

(* The parts keep holding where their variables are left alone. *)
LEMMA CopaFrame == ASSUME CopaInv, UNCHANGED copaVars PROVE CopaInv'
  BY DEF CopaInv, copaVars, FilterOk

LEMMA RoundFrame ==
  ASSUME RoundInv, UNCHANGED <<baseRTTFilter_, roundVars>>,
         now \in Nat, now' \in Nat, now <= now'
  PROVE  RoundInv'
  <1>1. /\ baseRTTFilter_' = baseRTTFilter_ /\ min_rtt_' = min_rtt_
        /\ rtt_count_' = rtt_count_ /\ baseRose' = baseRose /\ BaseRtt' = BaseRtt
    BY DEF roundVars, BaseRtt
  <1>2. baseRose => now' > kMinRTTWindowLength
    BY Constants DEF RoundInv
  <1> QED BY <1>1, <1>2 DEF RoundInv, FilterOk

LEMMA NewRoundInv ==
  ASSUME RoundInv, NewRound, baseRTTFilter_' = baseRTTFilter_ PROVE RoundInv'
  <1>1. /\ min_rtt_' = Infinite /\ rtt_count_' = 0 /\ baseRose' = FALSE
        /\ FilterOk(baseRTTFilter_') /\ Infinite \in Nat \ {0}
    BY Constants DEF NewRound, RoundInv
  <1>2. min_rtt_' \in Nat \ {0} /\ rtt_count_' \in Nat /\ ~(rtt_count_' > 0)
    BY <1>1
  <1>3. baseRose' \in BOOLEAN /\ ~baseRose'
    BY <1>1
  <1> QED BY <1>1, <1>2, <1>3, Zenon DEF RoundInv, FilterOk

LEMMA VegasFrame ==
  ASSUME VegasInv, largest_sent_packet_number_ \in Nat,
         largest_sent_packet_number_' \in Nat,
         largest_sent_packet_number_ <= largest_sent_packet_number_',
         UNCHANGED <<slowstart_threshold_, num_acked_packets_, beg_send_next_,
                     vegas_mode_>>
  PROVE  VegasInv'
  BY DEF VegasInv

LEMMA WindowFrame == ASSUME WindowInv, UNCHANGED congestion_window_ PROVE WindowInv'
  BY DEF WindowInv, min_congestion_window_

(* What the parts about the sender are worth to a step. *)
LEMMA SenderTypes ==
  ASSUME CongestionInv
  PROVE  /\ algo \in Algorithms /\ now \in Nat \ {0}
         /\ algo = "vegas" \/ algo = "copa"
         /\ largest_sent_packet_number_ \in Nat
         /\ event.busy \in BOOLEAN /\ event.before \in BOOLEAN
         /\ event.lost \subseteq 1..largest_sent_packet_number_
         /\ event.acked \subseteq 1..largest_sent_packet_number_
         /\ InRecovery \in BOOLEAN
  BY AlgorithmAssumption DEF CongestionInv, SenderInv, InRecovery

-----------------------------------------------------------------------------
(* Steps of QUIC.                                                          *)

LEMMA SendSender ==
  ASSUME CongestionInv, OnPacketSent
  PROVE  /\ SenderInv' /\ WindowInv'
         /\ algo' = algo /\ now' = now /\ event' = event
         /\ fault = "no" /\ fault' = "no" /\ ~event.busy
         /\ largest_sent_packet_number_' = largest_sent_packet_number_ + 1
         /\ InRecovery' = InRecovery
  <1>1. /\ algo' = algo /\ now' = now /\ event' = event /\ fault' = fault
        /\ largest_acked_packet_number_' = largest_acked_packet_number_
        /\ largest_sent_at_last_cutback_' = largest_sent_at_last_cutback_
        /\ latest_rtt' = latest_rtt /\ smoothed_rtt' = smoothed_rtt
        /\ congestion_window_' = congestion_window_
        /\ fault = "no" /\ ~event.busy
    BY DEF OnPacketSent, Idle
  <1> DEFINE number == largest_sent_packet_number_ + 1
  <1>2. /\ largest_sent_packet_number_' = number
        /\ inFlight' = inFlight \cup ({number} \ AckOnly)
        /\ unacked' = unacked \cup {number}
        /\ sinceCutback' = sinceCutback \cup {number}
    BY DEF OnPacketSent
  <1>3. SenderInv
    BY DEF CongestionInv
  <1>4. InRecovery' = InRecovery
    BY <1>1 DEF InRecovery
  <1>5. /\ largest_sent_packet_number_ \in Nat /\ number \in Nat
        /\ largest_acked_packet_number_ \in 0..number
        /\ largest_sent_at_last_cutback_ \in 0..number
        /\ inFlight' \subseteq 1..number /\ unacked' \subseteq 1..number
    <2>1. /\ largest_sent_packet_number_ \in Nat
          /\ largest_acked_packet_number_ \in 0..largest_sent_packet_number_
          /\ largest_sent_at_last_cutback_ \in 0..largest_sent_packet_number_
          /\ inFlight \subseteq 1..largest_sent_packet_number_
          /\ unacked \subseteq 1..largest_sent_packet_number_
      BY <1>3 DEF SenderInv
    <2>2. /\ number \in 1..number
          /\ \A m \in 1..largest_sent_packet_number_ : m \in 1..number
          /\ \A m \in 0..largest_sent_packet_number_ : m \in 0..number
      BY <2>1
    <2> HIDE DEF number
    <2>3. number \in Nat
      BY <2>1 DEF number
    <2> QED BY <1>2, <2>1, <2>2, <2>3
  <1>6. event \in [busy : BOOLEAN, lost : SUBSET (1..number),
                   acked : SUBSET (1..number), before : BOOLEAN]
    <2>1. 1..largest_sent_packet_number_ \subseteq 1..number
      BY <1>5
    <2> QED BY <1>3, <2>1 DEF SenderInv
  <1>7. sinceCutback' = (largest_sent_at_last_cutback_ + 1)..number
    BY <1>2, <1>3, <1>5 DEF SenderInv
  <1>8. SenderInv'
    <2>1. /\ algo \in Algorithms /\ fault \in {"no", "check", "throw"}
          /\ now \in Nat \ {0} /\ latest_rtt \in Nat /\ smoothed_rtt \in Nat
          /\ latest_rtt = 0 \/ latest_rtt \in Rtts[algo]
          /\ largest_acked_packet_number_ > 0 \/ event.busy => latest_rtt > 0
      BY <1>3 DEF SenderInv
    <2> QED BY <1>1, <1>2, <1>5, <1>6, <1>7, <2>1 DEF SenderInv
  <1>9. WindowInv'
    BY <1>1, WindowFrame DEF CongestionInv
  <1> QED BY <1>1, <1>2, <1>4, <1>8, <1>9

LEMMA ReportSender ==
  ASSUME CongestionInv, NEW acked \in SUBSET unacked, NEW lost \in SUBSET inFlight,
         NEW rtt, Report(acked, lost, rtt)
  PROVE  /\ SenderInv' /\ WindowInv'
         /\ algo' = algo /\ now' = now
         /\ fault = "no" /\ fault' = "no" /\ ~event.busy
         /\ largest_sent_packet_number_' = largest_sent_packet_number_
         /\ event'.busy /\ event'.before = InRecovery
         /\ latest_rtt' \in Nat \ {0} /\ latest_rtt' + 1 < Infinite
  <1>1. /\ algo' = algo /\ now' = now /\ fault' = fault
        /\ largest_sent_packet_number_' = largest_sent_packet_number_
        /\ largest_acked_packet_number_' = largest_acked_packet_number_
        /\ largest_sent_at_last_cutback_' = largest_sent_at_last_cutback_
        /\ congestion_window_' = congestion_window_
        /\ sinceCutback' = sinceCutback
        /\ fault = "no" /\ ~event.busy
        /\ event' = [busy |-> TRUE, lost |-> lost, acked |-> acked,
                     before |-> InRecovery]
        /\ inFlight' = inFlight \ (acked \cup lost)
        /\ unacked' = unacked \ (acked \cup (lost \ LateAcks))
    BY DEF Report, Idle
  <1>2. SenderInv
    BY DEF CongestionInv
  <1>3. /\ algo \in Algorithms /\ fault \in {"no", "check", "throw"}
        /\ now \in Nat \ {0} /\ largest_sent_packet_number_ \in Nat
        /\ largest_acked_packet_number_ \in 0..largest_sent_packet_number_
        /\ largest_sent_at_last_cutback_ \in 0..largest_sent_packet_number_
        /\ latest_rtt \in Nat /\ smoothed_rtt \in Nat
        /\ inFlight \subseteq 1..largest_sent_packet_number_
        /\ unacked \subseteq 1..largest_sent_packet_number_
        /\ latest_rtt = 0 \/ latest_rtt \in Rtts[algo]
        /\ largest_acked_packet_number_ > 0 => latest_rtt > 0
    BY <1>2 DEF SenderInv
  <1>4. /\ latest_rtt' \in Nat \ {0} /\ latest_rtt' \in Rtts[algo]
        /\ smoothed_rtt' \in Nat
    <2>1. CASE \E p \in acked : largest_acked_packet_number_ < p
      <3>1. rtt \in Rtts[algo] /\ latest_rtt' = rtt /\ smoothed_rtt' = Smooth(rtt)
        BY <2>1 DEF Report
      <3>2. rtt \in Nat \ {0}
        BY <1>3, <3>1, Constants
      <3>3. (7 * smoothed_rtt + rtt) \in Nat
        BY <1>3, <3>2
      <3>4. (7 * smoothed_rtt + rtt) \div 8 \in Nat
        BY <3>3, QuotientNat
      <3> QED BY <3>1, <3>2, <3>4 DEF Smooth
    <2>2. CASE ~\E p \in acked : largest_acked_packet_number_ < p
      <3>1. latest_rtt' = latest_rtt /\ smoothed_rtt' = smoothed_rtt
        BY <2>2 DEF Report
      <3>2. largest_acked_packet_number_ > 0
        <4>1. \A p \in acked \cup lost : p \in Nat /\ 0 < p
          BY <1>3
        <4>2. CASE acked # {}
          <5>1. PICK p \in acked : TRUE
            BY <4>2
          <5>2. ~(largest_acked_packet_number_ < p)
            BY <2>2, <5>1
          <5> QED BY <1>3, <4>1, <5>1, <5>2
        <4>3. CASE acked = {}
          <5>1. PICK p \in lost : TRUE
            BY <4>3 DEF Report
          <5>2. p < largest_acked_packet_number_
            BY <4>3, <5>1 DEF Report
          <5> QED BY <1>3, <4>1, <5>2
        <4> QED BY <4>2, <4>3
      <3> QED BY <1>3, <3>1, <3>2
    <2> QED BY <2>1, <2>2
  <1>5. latest_rtt' + 1 < Infinite
    BY <1>3, <1>4, Constants
  <1>6. /\ event' \in [busy : BOOLEAN, lost : SUBSET (1..largest_sent_packet_number_),
                       acked : SUBSET (1..largest_sent_packet_number_), before : BOOLEAN]
        /\ event'.busy /\ event'.before = InRecovery
    <2>1. InRecovery \in BOOLEAN
      BY SenderTypes
    <2>2. /\ lost \subseteq 1..largest_sent_packet_number_
          /\ acked \subseteq 1..largest_sent_packet_number_
      BY <1>3
    <2> HIDE DEF InRecovery
    <2> QED BY <1>1, <2>1, <2>2
  <1>7. SenderInv'
    <2>1. /\ inFlight' \subseteq 1..largest_sent_packet_number_
          /\ unacked' \subseteq 1..largest_sent_packet_number_
      BY <1>1, <1>3
    <2>2. sinceCutback' = (largest_sent_at_last_cutback_ + 1)..largest_sent_packet_number_
      BY <1>1, <1>2 DEF SenderInv
    <2>3. latest_rtt' > 0
      BY <1>4
    <2> QED BY <1>1, <1>3, <1>4, <1>6, <2>1, <2>2, <2>3 DEF SenderInv
  <1>8. WindowInv'
    BY <1>1, WindowFrame DEF CongestionInv
  <1> QED BY <1>1, <1>4, <1>5, <1>6, <1>7, <1>8

(* A report with some of its packets processed is a report. *)
LEMMA EventMinus ==
  ASSUME NEW N \in Nat, NEW p,
         event \in [busy : BOOLEAN, lost : SUBSET (1..N), acked : SUBSET (1..N),
                    before : BOOLEAN],
         \/ event' = [event EXCEPT !.lost = @ \ {p}]
         \/ event' = [event EXCEPT !.acked = @ \ {p}]
  PROVE  /\ event' \in [busy : BOOLEAN, lost : SUBSET (1..N), acked : SUBSET (1..N),
                        before : BOOLEAN]
         /\ event'.busy = event.busy /\ event'.before = event.before
  <1> DEFINE S == SUBSET (1..N)
  <1>1. \A r \in S : r \ {p} \in S
    OBVIOUS
  <1> HIDE DEF S
  <1>2. event \in [busy : BOOLEAN, lost : S, acked : S, before : BOOLEAN]
    BY DEF S
  <1>3. CASE event' = [event EXCEPT !.lost = @ \ {p}]
    <2>1. event.lost \ {p} \in S
      BY <1>1, <1>2
    <2> QED BY <1>2, <1>3, <2>1 DEF S
  <1>4. CASE event' = [event EXCEPT !.acked = @ \ {p}]
    <2>1. event.acked \ {p} \in S
      BY <1>1, <1>2
    <2> QED BY <1>2, <1>4, <2>1 DEF S
  <1> QED BY <1>3, <1>4

(* The first loss of a flight moves the cutback to the last packet sent.   *)
LEMMA LostSender ==
  ASSUME CongestionInv, NEW p \in event.lost, NextLost(p),
         event' = [event EXCEPT !.lost = @ \ {p}],
         IF NewLoss(p) THEN CutBack
         ELSE UNCHANGED <<largest_sent_at_last_cutback_, sinceCutback>>,
         UNCHANGED <<algo, now, largest_sent_packet_number_,
                     largest_acked_packet_number_, latest_rtt,
                     smoothed_rtt, inFlight, unacked, fault>>
  PROVE  /\ SenderInv'
         /\ fault = "no" /\ event.busy
         /\ event'.busy = event.busy /\ event'.before = event.before
  <1>1. SenderInv
    BY DEF CongestionInv
  <1>2. /\ largest_sent_packet_number_ \in Nat
        /\ event \in [busy : BOOLEAN, lost : SUBSET (1..largest_sent_packet_number_),
                      acked : SUBSET (1..largest_sent_packet_number_), before : BOOLEAN]
        /\ largest_sent_at_last_cutback_ \in 0..largest_sent_packet_number_
        /\ sinceCutback = (largest_sent_at_last_cutback_ + 1)..largest_sent_packet_number_
    BY <1>1 DEF SenderInv
  <1>3. /\ event' \in [busy : BOOLEAN, lost : SUBSET (1..largest_sent_packet_number_),
                       acked : SUBSET (1..largest_sent_packet_number_), before : BOOLEAN]
        /\ event'.busy = event.busy /\ event'.before = event.before
    BY <1>2, EventMinus
  <1>4. /\ largest_sent_at_last_cutback_' \in 0..largest_sent_packet_number_
        /\ sinceCutback' = (largest_sent_at_last_cutback_' + 1)..largest_sent_packet_number_
    <2>1. CASE NewLoss(p)
      <3>1. /\ largest_sent_at_last_cutback_' = largest_sent_packet_number_
            /\ sinceCutback' = {}
        BY <2>1 DEF CutBack
      <3>2. (largest_sent_packet_number_ + 1)..largest_sent_packet_number_ = {}
        BY <1>2
      <3> QED BY <1>2, <3>1, <3>2
    <2>2. CASE ~NewLoss(p)
      <3>1. /\ largest_sent_at_last_cutback_' = largest_sent_at_last_cutback_
            /\ sinceCutback' = sinceCutback
        BY <2>2
      <3> QED BY <1>2, <3>1
    <2> QED BY <2>1, <2>2
  <1>5. fault = "no" /\ event.busy
    BY DEF NextLost
  <1>6. SenderInv'
    BY <1>1, <1>3, <1>4, <1>5 DEF SenderInv
  <1> QED BY <1>3, <1>5, <1>6

(* Time passes. *)
LEMMA ElapseInv == ASSUME CongestionInv, Tick PROVE CongestionInv'
  <1>1. /\ algo' = algo /\ now' = now + 1 /\ fault' = fault
        /\ largest_sent_packet_number_' = largest_sent_packet_number_
        /\ largest_acked_packet_number_' = largest_acked_packet_number_
        /\ largest_sent_at_last_cutback_' = largest_sent_at_last_cutback_
        /\ congestion_window_' = congestion_window_
        /\ latest_rtt' = latest_rtt /\ smoothed_rtt' = smoothed_rtt
        /\ inFlight' = inFlight /\ unacked' = unacked /\ event' = event
        /\ sinceCutback' = sinceCutback
        /\ UNCHANGED vegasVars /\ UNCHANGED copaVars
    BY DEF Tick, Elapse, reportVars
  <1>2. now \in Nat /\ now' \in Nat \ {0} /\ now <= now'
        /\ largest_sent_packet_number_ \in Nat
    BY <1>1 DEF CongestionInv, SenderInv
  <1>3. SenderInv'
    BY <1>1, <1>2 DEF CongestionInv, SenderInv
  <1>4. WindowInv'
    BY <1>1, WindowFrame DEF CongestionInv
  <1>5. RoundInv' /\ VegasInv' /\ CopaInv'
    <2>1. /\ UNCHANGED <<baseRTTFilter_, roundVars>>
          /\ UNCHANGED <<slowstart_threshold_, num_acked_packets_, beg_send_next_,
                         vegas_mode_>>
      BY <1>1 DEF vegasVars
    <2>2. RoundInv /\ VegasInv /\ CopaInv
      BY DEF CongestionInv
    <2> QED BY <1>1, <1>2, <2>1, <2>2, RoundFrame, VegasFrame, CopaFrame
  <1>6. AlgoInv'
    <2>1. /\ InRecovery' = InRecovery /\ beg_send_next_' = beg_send_next_
          /\ vegas_mode_' = vegas_mode_ /\ baseRose' = baseRose
      BY <1>1 DEF InRecovery, vegasVars, roundVars
    <2> QED BY <1>1, <2>1, Zenon DEF CongestionInv, AlgoInv
  <1> QED BY <1>3, <1>4, <1>5, <1>6 DEF CongestionInv

-----------------------------------------------------------------------------
(* Vegas.                                                                  *)

LEMMA VegasSentInv ==
  ASSUME CongestionInv, IsVegas, VegasOnPacketSent PROVE CongestionInv'
  <1>1. /\ SenderInv' /\ WindowInv'
        /\ algo' = algo /\ now' = now /\ event' = event
        /\ fault = "no" /\ fault' = "no" /\ ~event.busy
        /\ largest_sent_packet_number_' = largest_sent_packet_number_ + 1
        /\ InRecovery' = InRecovery
    BY SendSender DEF VegasOnPacketSent
  <1>2. /\ UNCHANGED <<slowstart_threshold_, baseRTTFilter_, roundVars>>
        /\ num_acked_packets_' = num_acked_packets_ /\ vegas_mode_' = vegas_mode_
        /\ slowstart_threshold_' = slowstart_threshold_
        /\ beg_send_next_' = IF beg_send_next_ = 0 THEN largest_sent_packet_number_'
                             ELSE beg_send_next_
        /\ UNCHANGED copaVars /\ algo = "vegas"
    BY DEF VegasOnPacketSent, IsVegas
  <1>3. now \in Nat /\ largest_sent_packet_number_ \in Nat
    BY SenderTypes
  <1>4. RoundInv' /\ CopaInv'
    BY <1>1, <1>2, <1>3, RoundFrame, CopaFrame DEF CongestionInv
  <1>5. VegasInv' /\ beg_send_next_' > 0
    BY <1>1, <1>2, <1>3 DEF CongestionInv, VegasInv
  <1>6. AlgoInv'
    <2>1. vegas_mode_ = ~(IF event.busy THEN event.before ELSE InRecovery)
      BY <1>2, Zenon DEF CongestionInv, AlgoInv
    <2>2. ~(fault' # "no") /\ algo' # "copa"
      BY <1>1, <1>2
    <2>3. vegas_mode_' = ~(IF event'.busy THEN event'.before ELSE InRecovery')
      BY <1>1, <1>2, <2>1, Zenon
    <2> QED BY <1>5, <2>2, <2>3, Zenon DEF AlgoInv
  <1> QED BY <1>1, <1>4, <1>5, <1>6 DEF CongestionInv

(* Setting the initial window is a step of either algorithm.               *)
LEMMA InitialWindowInv ==
  ASSUME CongestionInv, NEW packets \in InitialWindows,
         congestion_window_' = packets * kDefaultTCPMSS,
         UNCHANGED <<algo, now, largest_sent_packet_number_,
                     largest_acked_packet_number_, largest_sent_at_last_cutback_,
                     reportVars, fault, sinceCutback, vegasVars, copaVars>>
  PROVE  CongestionInv'
  <1>1. /\ algo' = algo /\ now' = now /\ fault' = fault
        /\ largest_sent_packet_number_' = largest_sent_packet_number_
        /\ largest_acked_packet_number_' = largest_acked_packet_number_
        /\ largest_sent_at_last_cutback_' = largest_sent_at_last_cutback_
        /\ latest_rtt' = latest_rtt /\ smoothed_rtt' = smoothed_rtt
        /\ inFlight' = inFlight /\ unacked' = unacked /\ event' = event
        /\ sinceCutback' = sinceCutback
        /\ UNCHANGED vegasVars /\ UNCHANGED copaVars
    BY DEF reportVars
  <1>2. now \in Nat /\ largest_sent_packet_number_ \in Nat
    BY SenderTypes
  <1>3. SenderInv'
    BY <1>1 DEF CongestionInv, SenderInv
  <1>4. WindowInv'
    <2>1. packets \in Nat /\ 4 <= packets /\ kDefaultTCPMSS \in Nat
      BY InitialWindowsAssumption, Constants
    <2>2. packets * kDefaultTCPMSS \in Nat /\ 4 * kDefaultTCPMSS <= packets * kDefaultTCPMSS
      BY <2>1, ProductGrows
    <2> QED BY <2>2 DEF WindowInv, min_congestion_window_
  <1>5. RoundInv' /\ VegasInv' /\ CopaInv'
    <2>1. /\ UNCHANGED <<baseRTTFilter_, roundVars>>
          /\ UNCHANGED <<slowstart_threshold_, num_acked_packets_, beg_send_next_,
                         vegas_mode_>>
      BY <1>1 DEF vegasVars
    <2>2. RoundInv /\ VegasInv /\ CopaInv
      BY DEF CongestionInv
    <2> QED BY <1>1, <1>2, <2>1, <2>2, RoundFrame, VegasFrame, CopaFrame
  <1>6. AlgoInv'
    <2>1. /\ InRecovery' = InRecovery /\ beg_send_next_' = beg_send_next_
          /\ vegas_mode_' = vegas_mode_ /\ baseRose' = baseRose
      BY <1>1 DEF InRecovery, vegasVars, roundVars
    <2> QED BY <1>1, <2>1, Zenon DEF CongestionInv, AlgoInv
  <1> QED BY <1>3, <1>4, <1>5, <1>6 DEF CongestionInv

LEMMA VegasEventInv ==
  ASSUME CongestionInv, IsVegas, NEW acked \in SUBSET unacked,
         NEW lost \in SUBSET inFlight, NEW rtt, VegasOnCongestionEvent(acked, lost, rtt)
  PROVE  CongestionInv'
  <1>1. /\ SenderInv' /\ WindowInv'
        /\ algo' = algo /\ now' = now
        /\ fault = "no" /\ fault' = "no" /\ ~event.busy
        /\ largest_sent_packet_number_' = largest_sent_packet_number_
        /\ event'.busy /\ event'.before = InRecovery
        /\ latest_rtt' \in Nat \ {0} /\ latest_rtt' + 1 < Infinite
    BY ReportSender DEF VegasOnCongestionEvent
  <1>2. /\ slowstart_threshold_' = slowstart_threshold_
        /\ beg_send_next_' = beg_send_next_ /\ vegas_mode_' = vegas_mode_
        /\ num_acked_packets_' = num_acked_packets_
        /\ UNCHANGED copaVars /\ algo = "vegas"
    BY DEF VegasOnCongestionEvent, IsVegas
  <1>3. now \in Nat /\ largest_sent_packet_number_ \in Nat
    BY SenderTypes
  <1>4. CopaInv' /\ VegasInv'
    BY <1>1, <1>2, <1>3, CopaFrame, VegasFrame DEF CongestionInv
  <1>5. RoundInv'
    <2>1. CASE acked = {}
      <3>1. UNCHANGED <<baseRTTFilter_, roundVars>>
        BY <2>1 DEF VegasOnCongestionEvent
      <3> QED BY <1>1, <1>3, <3>1, RoundFrame DEF CongestionInv
    <2>2. CASE acked # {}
      <3> DEFINE vrtt == latest_rtt' + 1
      <3>1. /\ baseRTTFilter_' = Update(baseRTTFilter_, vrtt, now, kMinRTTWindowLength)
            /\ min_rtt_' = AtMost(min_rtt_, vrtt)
            /\ rtt_count_' = rtt_count_ + 1
            /\ baseRose' = (baseRose \/ (BaseRtt # 0 /\ BaseRtt' > BaseRtt))
        BY <2>2 DEF VegasOnCongestionEvent
      <3>2. vrtt \in Nat \ {0} /\ vrtt < Infinite
        <4>1. latest_rtt' \in Nat \ {0} /\ latest_rtt' + 1 < Infinite
          BY <1>1, Zenon
        <4>2. latest_rtt' + 1 \in Nat \ {0}
          BY <4>1, SuccPositive, Zenon
        <4> QED BY <4>1, <4>2, Zenon
      <3> HIDE DEF vrtt
      <3>3. /\ FilterOk(baseRTTFilter_) /\ BaseRtt \in Nat
            /\ min_rtt_ \in Nat \ {0} /\ rtt_count_ \in Nat /\ baseRose \in BOOLEAN
            /\ rtt_count_ > 0 => BaseRtt > 0
            /\ rtt_count_ = 0 => min_rtt_ = Infinite
            /\ ~baseRose /\ rtt_count_ > 0 => BaseRtt <= min_rtt_
            /\ baseRose => now > kMinRTTWindowLength
        <4>1. RoundInv
          BY DEF CongestionInv
        <4>2. BaseRtt \in Nat
          BY <4>1 DEF RoundInv, FilterOk, Filters, Estimates, BaseRtt, GetBest
        <4> QED BY <4>1, <4>2 DEF RoundInv
      <3>4. /\ FilterOk(baseRTTFilter_') /\ BaseRtt' \in Nat
            /\ BaseRtt' > 0 /\ BaseRtt' <= vrtt
            /\ BaseRtt > 0 /\ BaseRtt' > BaseRtt => now > kMinRTTWindowLength
        <4>1. /\ FilterOk(Update(baseRTTFilter_, vrtt, now, kMinRTTWindowLength))
              /\ BaseRtt' > 0
          BY <1>3, <3>1, <3>2, <3>3, Constants, UpdateOk DEF BaseRtt
        <4>2. /\ BaseRtt' <= vrtt
              /\ BaseRtt > 0 /\ BaseRtt' > BaseRtt => now > kMinRTTWindowLength
          BY <1>3, <3>1, <3>2, <3>3, Constants, UpdateBest DEF BaseRtt
        <4>3. FilterOk(baseRTTFilter_')
          BY <3>1, <4>1
        <4>4. BaseRtt' \in Nat
          BY <4>3 DEF FilterOk, Filters, Estimates, BaseRtt, GetBest
        <4> QED BY <4>1, <4>2, <4>3, <4>4
      <3> HIDE DEF BaseRtt
      <3>5. /\ min_rtt_' \in Nat \ {0} /\ rtt_count_' \in Nat /\ rtt_count_' > 0
            /\ min_rtt_' = vrtt \/ (min_rtt_' = min_rtt_ /\ min_rtt_ <= vrtt)
        BY <3>1, <3>2, <3>3 DEF AtMost
      <3>6. baseRose' \in BOOLEAN /\ (baseRose' => now' > kMinRTTWindowLength)
        BY <1>1, <3>1, <3>3, <3>4
      <3>7. ASSUME ~baseRose' PROVE BaseRtt' <= min_rtt_'
        <4>1. ~baseRose /\ ~(BaseRtt # 0 /\ BaseRtt' > BaseRtt)
          BY <3>1, <3>7
        <4>2. CASE rtt_count_ > 0
          BY <3>2, <3>3, <3>4, <3>5, <4>1, <4>2
        <4>3. CASE rtt_count_ = 0
          BY <3>2, <3>3, <3>4, <3>5, <4>3
        <4> QED BY <3>3, <4>2, <4>3
      <3> QED BY <3>4, <3>5, <3>6, <3>7 DEF RoundInv, FilterOk
    <2> QED BY <2>1, <2>2
  <1>6. AlgoInv'
    <2>1. vegas_mode_ = ~(IF event.busy THEN event.before ELSE InRecovery)
          /\ (largest_sent_packet_number_ > 0 => beg_send_next_ > 0)
      BY <1>2, Zenon DEF CongestionInv, AlgoInv
    <2>2. ~(fault' # "no") /\ algo' # "copa"
      BY <1>1, <1>2
    <2>3. (IF event'.busy THEN event'.before ELSE InRecovery') = InRecovery
          /\ (IF event.busy THEN event.before ELSE InRecovery) = InRecovery
      BY <1>1
    <2>4. vegas_mode_' = ~(IF event'.busy THEN event'.before ELSE InRecovery')
      BY <1>2, <2>1, <2>3, Zenon
    <2>5. largest_sent_packet_number_' > 0 => beg_send_next_' > 0
      BY <1>1, <1>2, <2>1
    <2> QED BY <2>2, <2>4, <2>5, Zenon DEF AlgoInv
  <1> QED BY <1>1, <1>4, <1>5, <1>6 DEF CongestionInv

(* Halving never goes below the minimum. *)
LEMMA VegasLostInv ==
  ASSUME CongestionInv, IsVegas, NEW p \in event.lost, VegasOnPacketLost(p)
  PROVE  CongestionInv'
  <1>1. /\ SenderInv' /\ fault = "no" /\ event.busy
        /\ event'.busy = event.busy /\ event'.before = event.before
    <2>1. /\ NextLost(p)
          /\ event' = [event EXCEPT !.lost = @ \ {p}]
          /\ IF NewLoss(p) THEN CutBack
             ELSE UNCHANGED <<largest_sent_at_last_cutback_, sinceCutback>>
          /\ UNCHANGED <<algo, now, largest_sent_packet_number_,
                         largest_acked_packet_number_, latest_rtt,
                         smoothed_rtt, inFlight, unacked, fault>>
      BY DEF VegasOnPacketLost
    <2> QED BY <2>1, LostSender
  <1>2. /\ UNCHANGED <<baseRTTFilter_, roundVars>>
        /\ algo' = algo /\ now' = now /\ fault' = fault
        /\ largest_sent_packet_number_' = largest_sent_packet_number_
        /\ beg_send_next_' = beg_send_next_ /\ vegas_mode_' = vegas_mode_
        /\ UNCHANGED copaVars /\ algo = "vegas"
    BY DEF VegasOnPacketLost, IsVegas
  <1>3. now \in Nat /\ largest_sent_packet_number_ \in Nat
    BY SenderTypes
  <1>4. RoundInv' /\ CopaInv'
    BY <1>2, <1>3, RoundFrame, CopaFrame DEF CongestionInv
  <1>5. /\ congestion_window_ \in Nat /\ min_congestion_window_ \in Nat
        /\ min_congestion_window_ <= congestion_window_
        /\ slowstart_threshold_ \in Nat /\ num_acked_packets_ \in Nat
        /\ beg_send_next_ \in 0..largest_sent_packet_number_ /\ vegas_mode_ \in BOOLEAN
    BY Constants DEF CongestionInv, WindowInv, VegasInv
  <1>6. HalvedWindow \in Nat /\ min_congestion_window_ <= HalvedWindow
    <2>1. congestion_window_ \div 2 \in Nat
      BY <1>5, QuotientNat
    <2> QED BY <1>5, <2>1 DEF HalvedWindow, AtLeast
  <1>7. /\ congestion_window_' \in Nat /\ min_congestion_window_ <= congestion_window_'
        /\ slowstart_threshold_' \in Nat /\ num_acked_packets_' \in Nat
    <2>1. CASE NewLoss(p)
      <3>1. /\ congestion_window_' = HalvedWindow
            /\ slowstart_threshold_' = congestion_window_' /\ num_acked_packets_' = 0
        BY <2>1 DEF VegasOnPacketLost
      <3> QED BY <1>6, <3>1
    <2>2. CASE ~NewLoss(p)
      <3>1. /\ congestion_window_' = congestion_window_
            /\ slowstart_threshold_' = slowstart_threshold_
            /\ num_acked_packets_' = num_acked_packets_
        BY <2>2 DEF VegasOnPacketLost
      <3> QED BY <1>5, <3>1
    <2> QED BY <2>1, <2>2
  <1>8. WindowInv' /\ VegasInv'
    BY <1>2, <1>5, <1>7 DEF WindowInv, VegasInv, min_congestion_window_
  <1>9. AlgoInv'
    <2>1. /\ vegas_mode_ = ~(IF event.busy THEN event.before ELSE InRecovery)
          /\ largest_sent_packet_number_ > 0 => beg_send_next_ > 0
      BY <1>2, Zenon DEF CongestionInv, AlgoInv
    <2>2. ~(fault' # "no") /\ algo' # "copa"
      BY <1>1, <1>2
    <2>3. vegas_mode_' = ~(IF event'.busy THEN event'.before ELSE InRecovery')
      BY <1>1, <1>2, <2>1, Zenon
    <2> QED BY <1>2, <2>1, <2>2, <2>3, Zenon DEF AlgoInv
  <1> QED BY <1>1, <1>4, <1>8, <1>9 DEF CongestionInv

(* The end of a report. *)
LEMMA VegasEventDoneInv ==
  ASSUME CongestionInv, IsVegas, VegasEventDone PROVE CongestionInv'
  <1>1. /\ algo' = algo /\ now' = now /\ fault' = fault /\ fault = "no"
        /\ largest_sent_packet_number_' = largest_sent_packet_number_
        /\ largest_acked_packet_number_' = largest_acked_packet_number_
        /\ largest_sent_at_last_cutback_' = largest_sent_at_last_cutback_
        /\ congestion_window_' = congestion_window_
        /\ latest_rtt' = latest_rtt /\ smoothed_rtt' = smoothed_rtt
        /\ inFlight' = inFlight /\ unacked' = unacked
        /\ sinceCutback' = sinceCutback /\ event' = NoEvent /\ event.busy
        /\ slowstart_threshold_' = slowstart_threshold_
        /\ baseRTTFilter_' = baseRTTFilter_
        /\ num_acked_packets_' = num_acked_packets_
        /\ UNCHANGED copaVars /\ algo = "vegas"
    BY DEF VegasEventDone, IsVegas
  <1>2. now \in Nat /\ largest_sent_packet_number_ \in Nat
    BY SenderTypes
  <1>3. SenderInv'
    <2>1. ~event'.busy /\ event' \in
            [busy : BOOLEAN, lost : SUBSET (1..largest_sent_packet_number_),
             acked : SUBSET (1..largest_sent_packet_number_), before : BOOLEAN]
      BY <1>1, NothingReported
    <2> QED BY <1>1, <2>1 DEF CongestionInv, SenderInv
  <1>4. WindowInv' /\ CopaInv'
    BY <1>1, WindowFrame, CopaFrame DEF CongestionInv
  <1>5. /\ RoundInv' /\ beg_send_next_' \in 0..largest_sent_packet_number_
        /\ largest_sent_packet_number_ > 0 => beg_send_next_' > 0
    <2>1. /\ beg_send_next_ \in 0..largest_sent_packet_number_
          /\ largest_sent_packet_number_ > 0 => beg_send_next_ > 0
      BY <1>1 DEF CongestionInv, VegasInv, AlgoInv
    <2>2. CASE event.before /\ ~InRecovery
      <3>1. beg_send_next_' = largest_sent_packet_number_ /\ NewRound
        BY <2>2 DEF VegasEventDone
      <3> QED BY <1>1, <1>2, <3>1, NewRoundInv DEF CongestionInv
    <2>3. CASE ~(event.before /\ ~InRecovery)
      <3>1. beg_send_next_' = beg_send_next_ /\ UNCHANGED roundVars
        BY <2>3 DEF VegasEventDone
      <3> QED BY <1>1, <1>2, <2>1, <3>1, RoundFrame DEF CongestionInv
    <2> QED BY <2>2, <2>3
  <1>6. vegas_mode_' = ~InRecovery
    <2>1. /\ vegas_mode_ = ~(IF event.busy THEN event.before ELSE InRecovery)
          /\ vegas_mode_' = IF InRecovery # event.before THEN ~InRecovery ELSE vegas_mode_
      BY <1>1, Zenon DEF CongestionInv, AlgoInv, VegasEventDone
    <2>2. vegas_mode_ = ~event.before
      BY <1>1, <2>1, Zenon
    <2>3. CASE InRecovery # event.before
      BY <2>1, <2>3, Zenon
    <2>4. CASE InRecovery = event.before
      BY <2>1, <2>2, <2>4, Zenon
    <2> QED BY <2>3, <2>4, Zenon
  <1>7. VegasInv'
    <2>1. vegas_mode_' \in BOOLEAN
      BY <1>6, SenderTypes
    <2> QED BY <1>1, <1>5, <2>1 DEF CongestionInv, VegasInv
  <1>8. AlgoInv'
    <2>1. InRecovery' = InRecovery
      BY <1>1 DEF InRecovery
    <2>2. ~event'.busy /\ ~(fault' # "no") /\ algo' # "copa"
      BY <1>1, NothingReported
    <2>3. vegas_mode_' = ~(IF event'.busy THEN event'.before ELSE InRecovery')
      BY <1>6, <2>1, <2>2, Zenon
    <2> QED BY <1>1, <1>5, <2>2, <2>3, Zenon DEF AlgoInv
  <1> QED BY <1>3, <1>4, <1>5, <1>7, <1>8 DEF CongestionInv

(* Reno's increase keeps the window above the minimum, whatever floor it   *)
(* is given.                                                               *)
LEMMA RenoKeeps ==
  ASSUME WindowInv, VegasInv, NEW floor \in Nat, IncreaseCongestionWindowAsReno(floor)
  PROVE  /\ congestion_window_' \in Nat /\ min_congestion_window_ <= congestion_window_'
         /\ slowstart_threshold_' \in Nat /\ num_acked_packets_' \in Nat
  <1>1. /\ congestion_window_ \in Nat /\ min_congestion_window_ \in Nat
        /\ min_congestion_window_ <= congestion_window_ /\ kDefaultTCPMSS \in Nat
        /\ num_acked_packets_ \in Nat /\ slowstart_threshold_ \in Nat
    BY Constants DEF WindowInv, VegasInv
  <1> DEFINE grown == IF VegasInSlowStart \/ FullWindowAcked
                      THEN congestion_window_ + kDefaultTCPMSS ELSE congestion_window_
  <1>2. grown \in Nat /\ min_congestion_window_ <= grown
    BY <1>1
  <1>3. congestion_window_' = AtLeast(grown, floor)
    BY DEF IncreaseCongestionWindowAsReno
  <1> HIDE DEF grown
  <1>4. congestion_window_' \in Nat /\ min_congestion_window_ <= congestion_window_'
    BY <1>1, <1>2, <1>3 DEF AtLeast
  <1>5. /\ num_acked_packets_' \in {num_acked_packets_, 0, num_acked_packets_ + 1}
        /\ slowstart_threshold_' = slowstart_threshold_
    BY DEF IncreaseCongestionWindowAsReno
  <1> QED BY <1>1, <1>4, <1>5

(* The comparison at the end of a round leaves natural numbers. *)
LEMMA AdjustKeeps ==
  ASSUME WindowInv, VegasInv, min_rtt_ \in Nat \ {0}, BaseRtt \in Nat, AdjustWindow
  PROVE  /\ congestion_window_' \in Nat /\ min_congestion_window_ <= congestion_window_'
         /\ slowstart_threshold_' \in Nat /\ num_acked_packets_' \in Nat
  <1>1. /\ congestion_window_ \in Nat /\ min_congestion_window_ \in Nat
        /\ min_congestion_window_ <= congestion_window_
        /\ kDefaultTCPMSS \in Nat \ {0} /\ kDefaultTCPMSS <= min_congestion_window_
        /\ num_acked_packets_ \in Nat /\ slowstart_threshold_ \in Nat
    BY Constants DEF WindowInv, VegasInv, min_congestion_window_
  <1>2. TargetWindow \in Nat
    <2> DEFINE exact == (congestion_window_ * BaseRtt) \div min_rtt_
    <2>1. exact \in Nat
      BY <1>1, ProductNat, QuotientNat
    <2> HIDE DEF exact
    <2>2. exact + kDefaultTCPMSS - 1 \in Nat
      BY <1>1, <2>1
    <2>3. ((exact + kDefaultTCPMSS - 1) \div kDefaultTCPMSS) * kDefaultTCPMSS \in Nat
      BY <1>1, <2>2, ProductNat, QuotientNat
    <2> QED BY <2>3 DEF TargetWindow, exact
  <1>3. AdjustedWindow \in {congestion_window_, TargetWindow,
                            congestion_window_ + kDefaultTCPMSS,
                            congestion_window_ - kDefaultTCPMSS}
    <2> HIDE DEF TargetWindow
    <2>1. AtMost(congestion_window_, TargetWindow) \in {congestion_window_, TargetWindow}
      BY DEF AtMost
    <2> QED BY <2>1 DEF AdjustedWindow
  <1>4. congestion_window_ - kDefaultTCPMSS \in Nat
    BY <1>1
  <1>5. AdjustedWindow \in Nat
    BY <1>1, <1>2, <1>3, <1>4
  <1> HIDE DEF AdjustedWindow
  <1>6. /\ congestion_window_' = AtLeast(AdjustedWindow, min_congestion_window_)
        /\ slowstart_threshold_' \in {AdjustedWindow, slowstart_threshold_}
        /\ num_acked_packets_' = num_acked_packets_
    BY DEF AdjustWindow
  <1>7. congestion_window_' \in Nat /\ min_congestion_window_ <= congestion_window_'
    BY <1>1, <1>5, <1>6 DEF AtLeast
  <1> QED BY <1>1, <1>5, <1>6, <1>7

(* The check of a round fails only after the filter's minimum has risen.   *)
LEMMA VegasAckedInv ==
  ASSUME CongestionInv, IsVegas, NEW p \in event.acked, VegasOnPacketAcked(p)
  PROVE  CongestionInv'
  <1>1. /\ algo' = algo /\ now' = now /\ fault = "no" /\ event.busy
        /\ largest_sent_packet_number_' = largest_sent_packet_number_
        /\ largest_acked_packet_number_' = AtLeast(largest_acked_packet_number_, p)
        /\ largest_sent_at_last_cutback_' = largest_sent_at_last_cutback_
        /\ latest_rtt' = latest_rtt /\ smoothed_rtt' = smoothed_rtt
        /\ inFlight' = inFlight /\ unacked' = unacked
        /\ sinceCutback' = sinceCutback
        /\ event' = [event EXCEPT !.acked = @ \ {p}]
        /\ baseRTTFilter_' = baseRTTFilter_ /\ vegas_mode_' = vegas_mode_
        /\ UNCHANGED copaVars /\ algo = "vegas"
    BY DEF VegasOnPacketAcked, NextAcked, IsVegas
  <1>2. /\ now \in Nat /\ largest_sent_packet_number_ \in Nat
        /\ p \in 1..largest_sent_packet_number_
        /\ largest_acked_packet_number_ \in 0..largest_sent_packet_number_
        /\ event \in [busy : BOOLEAN, lost : SUBSET (1..largest_sent_packet_number_),
                      acked : SUBSET (1..largest_sent_packet_number_), before : BOOLEAN]
    BY DEF CongestionInv, SenderInv
  <1>3. /\ event' \in [busy : BOOLEAN, lost : SUBSET (1..largest_sent_packet_number_),
                       acked : SUBSET (1..largest_sent_packet_number_), before : BOOLEAN]
        /\ event'.busy = event.busy /\ event'.before = event.before
    BY <1>1, <1>2, EventMinus
  <1>4. CopaInv'
    BY <1>1, CopaFrame DEF CongestionInv
  <1>5. /\ beg_send_next_ \in 0..largest_sent_packet_number_ /\ beg_send_next_ > 0
        /\ vegas_mode_ = ~(IF event.busy THEN event.before ELSE InRecovery)
    <2>1. largest_sent_packet_number_ > 0
      BY <1>2
    <2>2. /\ largest_sent_packet_number_ > 0 => beg_send_next_ > 0
          /\ vegas_mode_ = ~(IF event.busy THEN event.before ELSE InRecovery)
          /\ beg_send_next_ \in 0..largest_sent_packet_number_
      BY <1>1, Zenon DEF CongestionInv, AlgoInv, VegasInv
    <2> QED BY <2>1, <2>2, Zenon
  <1>6. /\ WindowInv /\ VegasInv /\ RoundInv
        /\ min_rtt_ \in Nat \ {0} /\ BaseRtt \in Nat
    BY DEF CongestionInv, RoundInv, FilterOk, Filters, Estimates, BaseRtt, GetBest
  <1>7. /\ congestion_window_' \in Nat /\ min_congestion_window_ <= congestion_window_'
        /\ slowstart_threshold_' \in Nat /\ num_acked_packets_' \in Nat
        /\ RoundInv' /\ beg_send_next_' \in 0..largest_sent_packet_number_
        /\ beg_send_next_' > 0
        /\ fault' \in {"no", "check"} /\ (fault' # "no" => baseRose')
    <2>1. /\ congestion_window_ \in Nat /\ min_congestion_window_ \in Nat
          /\ min_congestion_window_ <= congestion_window_ /\ kDefaultTCPMSS \in Nat
          /\ slowstart_threshold_ \in Nat /\ num_acked_packets_ \in Nat
          /\ largest_sent_packet_number_ > 0
      BY <1>2, <1>6, Constants DEF WindowInv, VegasInv
    <2>2. CASE /\ ~vegas_mode_ /\ IncreaseCongestionWindowAsReno(0)
               /\ UNCHANGED <<beg_send_next_, roundVars, fault>>
      <3>1. RoundInv'
        BY <1>1, <1>2, <1>6, <2>2, RoundFrame
      <3>2. /\ congestion_window_' \in Nat /\ min_congestion_window_ <= congestion_window_'
            /\ slowstart_threshold_' \in Nat /\ num_acked_packets_' \in Nat
        BY <1>6, <2>2, RenoKeeps
      <3> QED BY <1>1, <1>5, <2>2, <3>1, <3>2
    <2>3. CASE /\ CheckFails(p) /\ fault' = "check"
               /\ UNCHANGED <<congestion_window_, slowstart_threshold_,
                              num_acked_packets_, beg_send_next_, roundVars>>
      <3>1. RoundInv'
        BY <1>1, <1>2, <1>6, <2>3, RoundFrame
      <3>2. Compares(p) /\ min_rtt_ < BaseRtt
        BY <1>5, <2>3 DEF CheckFails
      <3>3. baseRose
        <4>1. rtt_count_ > 2 /\ rtt_count_ \in Nat
          BY <1>6, <3>2 DEF Compares, RoundInv
        <4>2. ~(BaseRtt <= min_rtt_) /\ rtt_count_ > 0
          BY <1>6, <3>2, <4>1
        <4> QED BY <1>6, <4>2, Zenon DEF RoundInv
      <3>4. baseRose' = baseRose
        BY <2>3 DEF roundVars
      <3> QED BY <1>5, <2>1, <2>3, <3>1, <3>3, <3>4
    <2>4. CASE /\ ~CheckFails(p) /\ EndsRound(p)
               /\ IF Compares(p) THEN AdjustWindow
                  ELSE IncreaseCongestionWindowAsReno(min_congestion_window_)
               /\ beg_send_next_' = largest_sent_packet_number_
               /\ NewRound /\ UNCHANGED fault
      <3>1. RoundInv'
        BY <1>1, <1>6, <2>4, NewRoundInv
      <3>2. /\ congestion_window_' \in Nat /\ min_congestion_window_ <= congestion_window_'
            /\ slowstart_threshold_' \in Nat /\ num_acked_packets_' \in Nat
        BY <1>6, <2>1, <2>4, RenoKeeps, AdjustKeeps
      <3> QED BY <1>1, <1>2, <2>1, <2>4, <3>1, <3>2
    <2>5. CASE /\ ~CheckFails(p) /\ vegas_mode_ /\ ~EndsRound(p)
               /\ congestion_window_' =
                    AtLeast(IF VegasInSlowStart THEN congestion_window_ + kDefaultTCPMSS
                            ELSE congestion_window_, min_congestion_window_)
               /\ UNCHANGED <<slowstart_threshold_, num_acked_packets_,
                              beg_send_next_, roundVars, fault>>
      <3>1. RoundInv'
        BY <1>1, <1>2, <1>6, <2>5, RoundFrame
      <3>2. congestion_window_' \in Nat /\ min_congestion_window_ <= congestion_window_'
        <4>1. congestion_window_' \in {congestion_window_ + kDefaultTCPMSS,
                                       congestion_window_, min_congestion_window_}
              /\ min_congestion_window_ <= congestion_window_'
          BY <2>1, <2>5 DEF AtLeast
        <4> QED BY <2>1, <4>1
      <3> QED BY <1>1, <1>5, <2>1, <2>5, <3>1, <3>2
    <2> QED BY <2>2, <2>3, <2>4, <2>5, Zenon DEF VegasOnPacketAcked
  <1>8. SenderInv'
    <2>1. largest_acked_packet_number_' \in 0..largest_sent_packet_number_
      BY <1>1, <1>2 DEF AtLeast
    <2>2. latest_rtt > 0
      BY <1>1 DEF CongestionInv, SenderInv
    <2> QED BY <1>1, <1>3, <1>7, <2>1, <2>2 DEF CongestionInv, SenderInv
  <1>9. WindowInv' /\ VegasInv'
    BY <1>1, <1>6, <1>7 DEF WindowInv, VegasInv, min_congestion_window_
  <1>10. AlgoInv'
    <2>1. vegas_mode_' = ~(IF event'.busy THEN event'.before ELSE InRecovery')
      BY <1>1, <1>3, <1>5, Zenon
    <2>2. algo' # "copa" /\ beg_send_next_' > 0 /\ (fault' # "no" => baseRose')
      BY <1>1, <1>7
    <2> QED BY <2>1, <2>2, Zenon DEF AlgoInv
  <1> QED BY <1>4, <1>7, <1>8, <1>9, <1>10 DEF CongestionInv

-----------------------------------------------------------------------------
(* Copa.                                                                   *)

(* Vegas's variables belong to no sender while Copa runs. *)
LEMMA IdleVegas ==
  ASSUME RoundInv, VegasInv, now \in Nat, now' = now,
         largest_sent_packet_number_ \in Nat, largest_sent_packet_number_' \in Nat,
         largest_sent_packet_number_ <= largest_sent_packet_number_',
         UNCHANGED vegasVars
  PROVE  RoundInv' /\ VegasInv'
  <1>1. /\ UNCHANGED <<baseRTTFilter_, roundVars>>
        /\ UNCHANGED <<slowstart_threshold_, num_acked_packets_, beg_send_next_,
                       vegas_mode_>>
    BY DEF vegasVars
  <1> QED BY <1>1, RoundFrame, VegasFrame

LEMMA CopaSentInv ==
  ASSUME CongestionInv, IsCopa, CopaOnPacketSent PROVE CongestionInv'
  <1>1. /\ SenderInv' /\ WindowInv' /\ algo' = algo /\ now' = now
        /\ fault' = "no"
        /\ largest_sent_packet_number_' = largest_sent_packet_number_ + 1
    BY SendSender DEF CopaOnPacketSent
  <1>2. UNCHANGED vegasVars /\ UNCHANGED copaVars /\ algo = "copa"
    BY DEF IsCopa, CopaOnPacketSent
  <1>3. now \in Nat /\ largest_sent_packet_number_ \in Nat
    BY SenderTypes
  <1>4. RoundInv' /\ VegasInv' /\ CopaInv'
    BY <1>1, <1>2, <1>3, IdleVegas, CopaFrame DEF CongestionInv
  <1>5. AlgoInv'
    BY <1>1, <1>2 DEF AlgoInv
  <1> QED BY <1>1, <1>4, <1>5 DEF CongestionInv

LEMMA CopaEventInv ==
  ASSUME CongestionInv, IsCopa, NEW acked \in SUBSET unacked,
         NEW lost \in SUBSET inFlight, NEW rtt, CopaOnCongestionEvent(acked, lost, rtt)
  PROVE  CongestionInv'
  <1>1. /\ SenderInv' /\ WindowInv' /\ algo' = algo /\ now' = now
        /\ fault' = "no"
        /\ largest_sent_packet_number_' = largest_sent_packet_number_
    BY ReportSender DEF CopaOnCongestionEvent
  <1>2. UNCHANGED vegasVars /\ UNCHANGED copaVars /\ algo = "copa"
    BY DEF IsCopa, CopaOnCongestionEvent
  <1>3. now \in Nat /\ largest_sent_packet_number_ \in Nat
    BY SenderTypes
  <1>4. RoundInv' /\ VegasInv' /\ CopaInv'
    BY <1>1, <1>2, <1>3, IdleVegas, CopaFrame DEF CongestionInv
  <1>5. AlgoInv'
    BY <1>1, <1>2 DEF AlgoInv
  <1> QED BY <1>1, <1>4, <1>5 DEF CongestionInv

LEMMA CopaLostInv ==
  ASSUME CongestionInv, IsCopa, NEW p \in event.lost, CopaOnPacketLost(p)
  PROVE  CongestionInv'
  <1>1. /\ NextLost(p)
        /\ event' = [event EXCEPT !.lost = @ \ {p}]
        /\ IF NewLoss(p) THEN CutBack
           ELSE UNCHANGED <<largest_sent_at_last_cutback_, sinceCutback>>
        /\ UNCHANGED <<algo, now, largest_sent_packet_number_,
                       largest_acked_packet_number_, latest_rtt,
                       smoothed_rtt, inFlight, unacked, fault>>
    BY DEF CopaOnPacketLost
  <1>2. SenderInv' /\ fault = "no"
    BY <1>1, LostSender
  <1>3. /\ UNCHANGED vegasVars /\ UNCHANGED copaVars /\ algo = "copa"
        /\ algo' = algo /\ fault' = fault /\ now' = now
        /\ largest_sent_packet_number_' = largest_sent_packet_number_
        /\ congestion_window_' = congestion_window_
    BY DEF IsCopa, CopaOnPacketLost
  <1>4. now \in Nat /\ largest_sent_packet_number_ \in Nat
    BY SenderTypes
  <1>5. RoundInv' /\ VegasInv' /\ CopaInv' /\ WindowInv'
    BY <1>3, <1>4, IdleVegas, CopaFrame, WindowFrame DEF CongestionInv
  <1>6. AlgoInv'
    BY <1>2, <1>3 DEF AlgoInv
  <1> QED BY <1>2, <1>5, <1>6 DEF CongestionInv

Velocities == [velocity : Nat, direction : {"None", "Up", "Down"},
               numTimesDirectionSame : Nat,
               lastRecordedCwndBytes : Nat, lastCwndRecordTime : Nat]

(* Whatever the velocity was, after ChangeDirection a velocity above one   *)
(* belongs to the direction of the step.                                   *)
LEMMA VelocityKept ==
  ASSUME NEW v \in Velocities, NEW w \in Nat, NEW d \in {"Up", "Down"},
         now \in Nat, smoothed_rtt \in Nat
  PROVE  LET u == ChangeDirection(CheckAndUpdateDirection(v, w), d, w) IN
         u \in Velocities /\ (u.velocity > 1 => u.direction = d)
  <1> DEFINE c == CheckAndUpdateDirection(v, w)
  <1>1. c \in Velocities
    <2> DEFINE direction == IF w > v.lastRecordedCwndBytes THEN "Up" ELSE "Down"
               same      == v.numTimesDirectionSame + 1
               recorded  == [v EXCEPT !.lastRecordedCwndBytes = w,
                                      !.lastCwndRecordTime = now]
    <2>1. recorded \in Velocities
      BY DEF Velocities
    <2>2. direction \in {"None", "Up", "Down"} /\ same \in Nat
          /\ recorded.velocity \in Nat /\ 2 * recorded.velocity \in Nat
      BY <2>1 DEF Velocities
    <2> HIDE DEF recorded, direction, same
    <2>3. [recorded EXCEPT !.direction = direction, !.velocity = 1,
                           !.numTimesDirectionSame = 0] \in Velocities
      BY <2>1, <2>2 DEF Velocities
    <2>4. [recorded EXCEPT !.numTimesDirectionSame = same,
                           !.velocity = IF same >= 3 THEN 2 * @ ELSE @] \in Velocities
      <3> DEFINE x == IF same >= 3 THEN 2 * recorded.velocity ELSE recorded.velocity
      <3>1. x \in Nat
        BY <2>2
      <3> HIDE DEF x
      <3>2. [recorded EXCEPT !.numTimesDirectionSame = same, !.velocity = x] \in Velocities
        BY <2>1, <2>2, <3>1 DEF Velocities
      <3> QED BY <3>2 DEF x
    <2> QED BY <2>1, <2>3, <2>4, Zenon
            DEF CheckAndUpdateDirection, recorded, direction, same
  <1> HIDE DEF c
  <1>2. CASE c.direction # d /\ c.velocity > 1
    BY <1>2 DEF ChangeDirection, Velocities, c
  <1>3. CASE ~(c.direction # d /\ c.velocity > 1)
    <2>1. ChangeDirection(c, d, w) = c
      BY <1>3 DEF ChangeDirection
    <2> QED BY <1>1, <1>3, <2>1 DEF c
  <1> QED BY <1>2, <1>3

(* The two filters answer what Copa divides by and subtracts. *)
LEMMA CopaRtts ==
  ASSUME CongestionInv, event.busy
  PROVE  /\ FilterOk(MinRtt) /\ FilterOk(StandingRtt)
         /\ ~RttCheckFails
  <1>1. /\ latest_rtt \in Nat \ {0} /\ smoothed_rtt \in Nat /\ now \in Nat
        /\ FilterOk(minRTTFilter_) /\ FilterOk(standingRTTFilter_)
    BY DEF CongestionInv, SenderInv, CopaInv
  <1>2. smoothed_rtt \div 2 \in Nat
    BY <1>1, QuotientNat
  <1>3. FilterOk(MinRtt) /\ GetBest(MinRtt) <= latest_rtt
    BY <1>1, Constants, UpdateOk, UpdateBest DEF MinRtt
  <1>4. FilterOk(StandingRtt) /\ GetBest(StandingRtt) > 0
    BY <1>1, <1>2, UpdateOk DEF StandingRtt
  <1>5. GetBest(MinRtt) \in Nat /\ GetBest(StandingRtt) \in Nat
    <2> HIDE DEF MinRtt, StandingRtt
    <2> QED BY <1>3, <1>4 DEF FilterOk, Filters, Estimates, GetBest
  <1> HIDE DEF MinRtt, StandingRtt
  <1>6. ~(Delay < 0) /\ GetBest(StandingRtt) # 0
    BY <1>1, <1>3, <1>4, <1>5 DEF Delay
  <1> QED BY <1>3, <1>4, <1>6 DEF RttCheckFails

LEMMA StepIsNat ==
  ASSUME CongestionInv, NEW v \in Velocities PROVE Step(v) \in Nat
  <1>1. congestion_window_ \in Nat \ {0}
    <2>1. congestion_window_ \in Nat /\ min_congestion_window_ <= congestion_window_
          /\ min_congestion_window_ \in Nat \ {0}
      BY Constants DEF CongestionInv, WindowInv
    <2> QED BY <2>1
  <1>2. Cardinality(event.acked) \in Nat
    <2>1. /\ event.acked \subseteq 1..largest_sent_packet_number_
          /\ largest_sent_packet_number_ \in Nat
      BY SenderTypes
    <2>2. IsFiniteSet(1..largest_sent_packet_number_)
      BY <2>1, FS_Interval
    <2> QED BY <2>1, <2>2, FS_Subset, FS_CardinalityType
  <1>3. v.velocity \in Nat /\ kDefaultTCPMSS \in Nat
    BY Constants DEF Velocities
  <1> DEFINE a == 2 * Cardinality(event.acked)
             b == a * kDefaultTCPMSS
             c == b * kDefaultTCPMSS
             d == c * v.velocity
  <1>4. d \in Nat
    <2>1. a \in Nat
      BY <1>2
    <2> HIDE DEF a
    <2>2. b \in Nat
      BY <1>3, <2>1, ProductNat
    <2> HIDE DEF b
    <2>3. c \in Nat
      BY <1>3, <2>2, ProductNat
    <2> HIDE DEF c
    <2> QED BY <1>3, <2>3, ProductNat
  <1>5. Step(v) = d \div congestion_window_
    BY DEF Step
  <1> HIDE DEF d
  <1> QED BY <1>1, <1>4, <1>5, QuotientNat

(* What an acknowledgement does to the window and to the velocity. *)
LEMMA CopaMoves ==
  ASSUME CongestionInv, IsCopa, CopaOnPacketAcked
  PROVE  /\ congestion_window_' \in Nat /\ min_congestion_window_ <= congestion_window_'
         /\ fault' \in {"no", "throw"}
         /\ isSlowStart_' \in BOOLEAN /\ lastCwndDoubleTime_' \in Nat
         /\ velocityState_' \in Velocities
         /\ isSlowStart_' => velocityState_'.velocity = 1
         /\ congestion_window_' # congestion_window_ /\ velocityState_'.velocity > 1
              => velocityState_'.direction =
                   IF congestion_window_' > congestion_window_ THEN "Up" ELSE "Down"
  <1>1. /\ congestion_window_ \in Nat /\ min_congestion_window_ \in Nat
        /\ min_congestion_window_ <= congestion_window_
        /\ isSlowStart_ \in BOOLEAN /\ lastCwndDoubleTime_ \in Nat
        /\ velocityState_ \in Velocities
        /\ isSlowStart_ => velocityState_.velocity = 1
        /\ now \in Nat /\ smoothed_rtt \in Nat
    BY Constants DEF CongestionInv, WindowInv, CopaInv, SenderInv, Velocities
  <1>2. fault = "no" /\ event.busy
    BY DEF CopaOnPacketAcked
  <1>3. SlowStartIncrease \/ Increase \/ Decrease
    BY <1>2, CopaRtts DEF CopaOnPacketAcked
  <1>4. ASSUME NEW w, SetWindow(w)
        PROVE  /\ fault' \in {"no", "throw"}
               /\ \/ congestion_window_' = w /\ w \in Nat
                  \/ congestion_window_' = congestion_window_
    BY <1>2, <1>4, WidthAssumption DEF SetWindow
  <1>5. CASE SlowStartIncrease
    <2>1. /\ isSlowStart_ /\ isSlowStart_' = isSlowStart_
          /\ velocityState_' = velocityState_
      BY <1>5 DEF SlowStartIncrease
    <2>2. /\ lastCwndDoubleTime_' \in {now, lastCwndDoubleTime_}
          /\ SetWindow(congestion_window_ + congestion_window_)
               \/ UNCHANGED <<congestion_window_, fault>>
      BY <1>5 DEF SlowStartIncrease
    <2>3. congestion_window_' \in Nat /\ min_congestion_window_ <= congestion_window_'
          /\ fault' \in {"no", "throw"}
      <3>1. CASE SetWindow(congestion_window_ + congestion_window_)
        BY <1>1, <1>4, <3>1
      <3>2. CASE UNCHANGED <<congestion_window_, fault>>
        BY <1>1, <1>2, <3>2
      <3> QED BY <2>2, <3>1, <3>2
    <2>4. ~(velocityState_'.velocity > 1)
      BY <1>1, <2>1
    <2> QED BY <1>1, <2>1, <2>2, <2>3, <2>4
  <1> DEFINE Moved(d) == ChangeDirection(CheckAndUpdateDirection(velocityState_, congestion_window_),
                                         d, congestion_window_)
  <1>6. \A d \in {"Up", "Down"} :
          /\ Moved(d) \in Velocities /\ (Moved(d).velocity > 1 => Moved(d).direction = d)
          /\ Step(Moved(d)) \in Nat
    BY <1>1, VelocityKept, StepIsNat
  <1> HIDE DEF Moved
  <1>7. CASE Increase
    <2>1. /\ velocityState_' = Moved("Up") /\ ~isSlowStart_
          /\ SetWindow(congestion_window_ + Step(velocityState_'))
          /\ isSlowStart_' = isSlowStart_ /\ lastCwndDoubleTime_' = lastCwndDoubleTime_
      BY <1>7 DEF Increase, Moved
    <2> DEFINE s == Step(velocityState_')
    <2>2. s \in Nat /\ velocityState_' \in Velocities
          /\ (velocityState_'.velocity > 1 => velocityState_'.direction = "Up")
      BY <1>6, <2>1
    <2>3. SetWindow(congestion_window_ + s)
      BY <2>1
    <2> HIDE DEF s
    <2>4. /\ fault' \in {"no", "throw"} /\ congestion_window_' \in Nat
          /\ min_congestion_window_ <= congestion_window_'
          /\ congestion_window_ <= congestion_window_'
      BY <1>1, <1>4, <2>2, <2>3
    <2> QED BY <1>1, <2>1, <2>2, <2>4
  <1>8. CASE Decrease
    <2>1. /\ velocityState_' = Moved("Down")
          /\ SetWindow(congestion_window_ - AtMost(Step(velocityState_'), Room))
          /\ isSlowStart_' = FALSE /\ lastCwndDoubleTime_' = lastCwndDoubleTime_
      BY <1>8 DEF Decrease, Moved
    <2> DEFINE s == AtMost(Step(velocityState_'), Room)
    <2>2. velocityState_' \in Velocities
          /\ (velocityState_'.velocity > 1 => velocityState_'.direction = "Down")
      BY <1>6, <2>1
    <2>3. s \in Nat /\ s <= congestion_window_ - min_congestion_window_
      <3>1. Step(velocityState_') \in Nat
        BY <1>6, <2>1
      <3>2. Room = congestion_window_ - min_congestion_window_
        BY <1>1 DEF Room
      <3> HIDE DEF min_congestion_window_
      <3> QED BY <1>1, <3>1, <3>2 DEF AtMost
    <2>4. SetWindow(congestion_window_ - s)
      BY <2>1
    <2> HIDE DEF s
    <2>5. /\ fault' \in {"no", "throw"} /\ congestion_window_' \in Nat
          /\ min_congestion_window_ <= congestion_window_'
          /\ congestion_window_' <= congestion_window_
      BY <1>1, <1>4, <2>3, <2>4
    <2>6. isSlowStart_' \in BOOLEAN /\ ~isSlowStart_'
      BY <2>1
    <2> QED BY <1>1, <2>1, <2>2, <2>5, <2>6
  <1> QED BY <1>3, <1>5, <1>7, <1>8

LEMMA CopaAckedInv ==
  ASSUME CongestionInv, IsCopa, CopaOnPacketAcked PROVE CongestionInv'
  <1>1. /\ algo' = algo /\ now' = now /\ event.busy /\ event' = NoEvent
        /\ largest_sent_packet_number_' = largest_sent_packet_number_
        /\ largest_sent_at_last_cutback_' = largest_sent_at_last_cutback_
        /\ latest_rtt' = latest_rtt /\ smoothed_rtt' = smoothed_rtt
        /\ inFlight' = inFlight /\ unacked' = unacked
        /\ sinceCutback' = sinceCutback
        /\ minRTTFilter_' = MinRtt /\ standingRTTFilter_' = StandingRtt
        /\ largest_acked_packet_number_' \in event.acked \cup {largest_acked_packet_number_}
        /\ UNCHANGED vegasVars /\ algo = "copa"
    BY DEF CopaOnPacketAcked, IsCopa
  <1>2. /\ now \in Nat /\ largest_sent_packet_number_ \in Nat
        /\ event.acked \subseteq 1..largest_sent_packet_number_
    BY SenderTypes
  <1>3. /\ congestion_window_' \in Nat /\ min_congestion_window_ <= congestion_window_'
        /\ fault' \in {"no", "throw"}
        /\ isSlowStart_' \in BOOLEAN /\ lastCwndDoubleTime_' \in Nat
        /\ velocityState_' \in Velocities
        /\ isSlowStart_' => velocityState_'.velocity = 1
    BY CopaMoves
  <1>4. SenderInv'
    <2>1. ~event'.busy /\ event' \in
            [busy : BOOLEAN, lost : SUBSET (1..largest_sent_packet_number_),
             acked : SUBSET (1..largest_sent_packet_number_), before : BOOLEAN]
      BY <1>1, <1>2, NothingReported
    <2>2. /\ largest_acked_packet_number_' \in 0..largest_sent_packet_number_
          /\ latest_rtt > 0
      BY <1>1, <1>2 DEF CongestionInv, SenderInv
    <2> QED BY <1>1, <1>3, <2>1, <2>2 DEF CongestionInv, SenderInv
  <1>5. WindowInv'
    BY <1>3 DEF WindowInv, min_congestion_window_
  <1>6. RoundInv' /\ VegasInv'
    BY <1>1, <1>2, IdleVegas DEF CongestionInv
  <1>7. CopaInv'
    <2>1. FilterOk(minRTTFilter_') /\ FilterOk(standingRTTFilter_')
      BY <1>1, CopaRtts
    <2> QED BY <1>3, <2>1 DEF CopaInv, FilterOk, Velocities
  <1>8. AlgoInv'
    BY <1>1, <1>3 DEF AlgoInv
  <1> QED BY <1>4, <1>5, <1>6, <1>7, <1>8 DEF CongestionInv

-----------------------------------------------------------------------------
(* The theorems.                                                           *)

LEMMA SetInitialInv ==
  ASSUME CongestionInv, SetInitialCongestionWindow PROVE CongestionInv'
  <1>1. PICK packets \in InitialWindows :
          \/ IsVegas /\ VegasSetInitialCongestionWindow(packets)
          \/ IsCopa  /\ CopaSetInitialCongestionWindow(packets)
    BY DEF SetInitialCongestionWindow
  <1>2. /\ congestion_window_' = packets * kDefaultTCPMSS
        /\ UNCHANGED <<algo, now, largest_sent_packet_number_,
                       largest_acked_packet_number_, largest_sent_at_last_cutback_,
                       reportVars, fault, sinceCutback, vegasVars, copaVars>>
    BY <1>1 DEF IsVegas, IsCopa, VegasSetInitialCongestionWindow,
                CopaSetInitialCongestionWindow
  <1> QED BY <1>2, InitialWindowInv

LEMMA NextInv == ASSUME CongestionInv, [Next]_vars PROVE CongestionInv'
  <1>1. CASE Send
    BY <1>1, VegasSentInv, CopaSentInv DEF Send
  <1>2. CASE SetInitialCongestionWindow
    BY <1>2, SetInitialInv
  <1>3. CASE Tick
    BY <1>3, ElapseInv
  <1>4. CASE OnCongestionEvent
    BY <1>4, VegasEventInv, CopaEventInv DEF OnCongestionEvent
  <1>5. CASE ProcessLost
    BY <1>5, VegasLostInv, CopaLostInv DEF ProcessLost
  <1>6. CASE ProcessAcked
    BY <1>6, VegasAckedInv, VegasEventDoneInv, CopaAckedInv DEF ProcessAcked
  <1>7. CASE UNCHANGED vars
    <2>1. UNCHANGED <<algo, now, largest_sent_packet_number_,
                      largest_acked_packet_number_, largest_sent_at_last_cutback_,
                      congestion_window_, reportVars, fault, sinceCutback>>
          /\ UNCHANGED vegasVars /\ UNCHANGED copaVars
      BY <1>7 DEF vars, senderVars
    <2> QED BY <2>1
            DEF CongestionInv, SenderInv, WindowInv, RoundInv, VegasInv, CopaInv, AlgoInv,
                reportVars, vegasVars, copaVars, roundVars, FilterOk, BaseRtt, InRecovery,
                min_congestion_window_
  <1> QED BY <1>1, <1>2, <1>3, <1>4, <1>5, <1>6, <1>7 DEF Next

(* The inductive invariant holds of every run of either algorithm. *)
THEOREM CongestionInvariant == Spec => []CongestionInv
  <1>1. Init => CongestionInv
    BY InitInv
  <1>2. CongestionInv /\ [Next]_vars => CongestionInv'
    BY NextInv
  <1> QED BY <1>1, <1>2, PTL DEF Spec

(* Type correctness. *)
THEOREM TypesAreKept == Spec => []TypeOK
  <1>1. CongestionInv => TypeOK
    BY ImpliesTypeOK
  <1> QED BY <1>1, CongestionInvariant, PTL

(* The congestion window never falls below the minimum of four packets,    *)
(* in OnPacketLost and OnPacketAcked of both senders.                      *)
THEOREM WindowKeepsItsFloor == Spec => []WindowAtLeastMinimum
  <1>1. CongestionInv => WindowAtLeastMinimum
    BY DEF CongestionInv, WindowInv, WindowAtLeastMinimum
  <1> QED BY <1>1, CongestionInvariant, PTL

(* vegas_mode_ follows InRecovery from report to report.                   *)
THEOREM ModeFollowsRecovery == Spec => []ModeTracksRecovery
  <1>1. ASSUME CongestionInv PROVE ModeTracksRecovery
    <2>1. SUFFICES ASSUME algo = "vegas", ~event.busy PROVE vegas_mode_ = ~InRecovery
      BY Zenon DEF ModeTracksRecovery
    <2>2. vegas_mode_ = ~(IF event.busy THEN event.before ELSE InRecovery)
      BY <1>1, <2>1, Zenon DEF CongestionInv, AlgoInv
    <2> QED BY <2>1, <2>2, Zenon
  <1> QED BY <1>1, CongestionInvariant, PTL

(* The check of VegasSender::OnPacketAcked fails only in a round in which  *)
(* the windowed filter gave up its minimum.                                *)
THEOREM VegasCheckFailsOnlyAfterARise == Spec => []VegasCheckHolds
  <1>1. ASSUME CongestionInv PROVE VegasCheckHolds
    <2>1. algo = "vegas" /\ fault # "no" => baseRose
      BY <1>1, Zenon DEF CongestionInv, AlgoInv
    <2>2. baseRose => now > kMinRTTWindowLength
      BY <1>1, Zenon DEF CongestionInv, RoundInv
    <2> QED BY <2>1, <2>2, Zenon DEF VegasCheckHolds
  <1> QED BY <1>1, CongestionInvariant, PTL

(* The checks of CopaSender::OnPacketAcked never fail. *)
THEOREM CopaNeverAborts == Spec => []CopaChecksHold
  <1>1. CongestionInv => CopaChecksHold
    BY DEF CongestionInv, AlgoInv, CopaChecksHold
  <1> QED BY <1>1, CongestionInvariant, PTL

(* The losses of one flight cut the window back once. *)
THEOREM FlightsCutOnce == Spec => OneCutPerFlight
  <1> DEFINE Cut == sinceCutback' = {} /\ sinceCutback # {}
                      => \E p \in event.lost \ event'.lost : p \in sinceCutback
  <1>1. ASSUME CongestionInv, [Next]_vars PROVE Cut
    <2>1. /\ largest_sent_packet_number_ \in Nat
          /\ event.lost \subseteq 1..largest_sent_packet_number_
          /\ largest_sent_at_last_cutback_ \in 0..largest_sent_packet_number_
          /\ sinceCutback = (largest_sent_at_last_cutback_ + 1)..largest_sent_packet_number_
      BY <1>1 DEF CongestionInv, SenderInv
    <2>2. CASE Send
      <3>1. sinceCutback' = sinceCutback \cup {largest_sent_packet_number_ + 1}
        BY <2>2 DEF Send, VegasOnPacketSent, CopaOnPacketSent, OnPacketSent
      <3> QED BY <3>1
    <2>3. CASE ProcessLost
      <3>1. PICK p \in event.lost :
              /\ event' = [event EXCEPT !.lost = @ \ {p}]
              /\ IF NewLoss(p) THEN CutBack
                 ELSE UNCHANGED <<largest_sent_at_last_cutback_, sinceCutback>>
        <4>1. ASSUME NEW p \in event.lost, VegasOnPacketLost(p) \/ CopaOnPacketLost(p)
              PROVE  /\ event' = [event EXCEPT !.lost = @ \ {p}]
                     /\ IF NewLoss(p) THEN CutBack
                        ELSE UNCHANGED <<largest_sent_at_last_cutback_, sinceCutback>>
          BY <4>1 DEF VegasOnPacketLost, CopaOnPacketLost
        <4> QED BY <2>3, <4>1 DEF ProcessLost
      <3>2. p \notin event'.lost
        <4>1. event \in [busy : BOOLEAN, lost : SUBSET (1..largest_sent_packet_number_),
                         acked : SUBSET (1..largest_sent_packet_number_), before : BOOLEAN]
          BY <1>1 DEF CongestionInv, SenderInv
        <4>2. event'.lost = event.lost \ {p}
          BY <3>1, <4>1
        <4> QED BY <4>2
      <3>3. CASE NewLoss(p)
        <4>1. p \in sinceCutback
          BY <2>1, <3>1, <3>3 DEF NewLoss
        <4> QED BY <3>1, <3>2, <4>1
      <3>4. CASE ~NewLoss(p)
        BY <3>1, <3>4
      <3> QED BY <3>3, <3>4
    <2>4. CASE SetInitialCongestionWindow \/ Tick \/ OnCongestionEvent \/ ProcessAcked
               \/ UNCHANGED vars
      <3>1. sinceCutback' = sinceCutback
        BY <2>4 DEF SetInitialCongestionWindow, VegasSetInitialCongestionWindow,
                    CopaSetInitialCongestionWindow, Tick, Elapse, OnCongestionEvent,
                    VegasOnCongestionEvent, CopaOnCongestionEvent, Report, ProcessAcked,
                    VegasOnPacketAcked, VegasEventDone, CopaOnPacketAcked, vars, senderVars
      <3> QED BY <3>1
    <2> QED BY <1>1, <2>2, <2>3, <2>4 DEF Next
  <1>2. CongestionInv /\ [Next]_vars => [Cut]_vars
    BY <1>1
  <1> QED BY <1>2, CongestionInvariant, PTL DEF Spec, OneCutPerFlight

(* A velocity above one moves Copa's window its own way. *)
THEOREM VelocityIsNotReversed == Spec => VelocityPointsAlong
  <1> DEFINE Along == algo = "copa" /\ congestion_window_' # congestion_window_
                        /\ velocityState_'.velocity > 1
                      => velocityState_'.direction =
                           IF congestion_window_' > congestion_window_ THEN "Up" ELSE "Down"
  <1>1. ASSUME CongestionInv, [Next]_vars PROVE Along
    <2>1. SUFFICES ASSUME algo = "copa" PROVE Along
      OBVIOUS
    <2>2. CASE CopaOnPacketAcked /\ IsCopa
      BY <1>1, <2>2, CopaMoves
    <2>3. CASE SetInitialCongestionWindow
      <3>1. isSlowStart_ /\ velocityState_' = velocityState_
        BY <2>1, <2>3 DEF SetInitialCongestionWindow, IsVegas,
                          CopaSetInitialCongestionWindow, copaVars
      <3>2. ~(velocityState_'.velocity > 1)
        BY <1>1, <3>1 DEF CongestionInv, CopaInv
      <3> QED BY <3>2
    <2>4. CASE Send \/ Tick \/ OnCongestionEvent \/ ProcessLost \/ UNCHANGED vars
      <3>1. congestion_window_' = congestion_window_
        BY <2>1, <2>4 DEF Send, IsVegas, CopaOnPacketSent, OnPacketSent, Tick, Elapse,
                          OnCongestionEvent, CopaOnCongestionEvent, Report, ProcessLost,
                          CopaOnPacketLost, vars, senderVars
      <3> QED BY <3>1
    <2> QED BY <1>1, <2>1, <2>2, <2>3, <2>4 DEF Next, ProcessAcked, IsVegas
  <1>2. CongestionInv /\ [Next]_vars => [Along]_vars
    BY <1>1
  <1> QED BY <1>2, CongestionInvariant, PTL DEF Spec, VelocityPointsAlong
=============================================================================
