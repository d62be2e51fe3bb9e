---------------------------- MODULE MCCongestion ----------------------------
(* Instance of Congestion for TLC: Copa needs a longer run than Vegas to   *)
(* gain velocity.                                                          *)
EXTENDS Congestion

CONSTANTS VegasPackets, VegasInFlight, VegasTime, VegasRtts,
          CopaPackets, CopaInFlight, CopaTime, CopaRtts

Of(vegas, copa) == [a \in Algorithms |-> IF a = "vegas" THEN vegas ELSE copa]
InFlightOf == Of(VegasInFlight, CopaInFlight)
PacketsOf  == Of(VegasPackets, CopaPackets)
TimeOf     == Of(VegasTime, CopaTime)
RttsOf     == Of(VegasRtts, CopaRtts)
=============================================================================
