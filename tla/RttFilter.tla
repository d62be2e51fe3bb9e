------------------------------ MODULE RttFilter ------------------------------
(***************************************************************************)
(* The windowed minimum that VegasSender and CopaSender take from QUICHE   *)
(* (WindowedFilter with MinFilter, the algorithm of Kathleen Nichols).     *)
(* It keeps three estimates instead of the samples of the window: the      *)
(* best, the best of what came after it, and the best of what came after   *)
(* that one.  Some samples are forgotten that way while they are still     *)
(* inside the window, and VegasSender asserts a relation that holds only   *)
(* as long as none of them mattered.                                       *)
(***************************************************************************)
EXTENDS Integers

Estimate(s, t) == [sample |-> s, time |-> t]
Estimates(Values, Times) == [sample : Values, time : Times]
Filters(Values, Times) == [best   : Estimates(Values, Times),
                           second : Estimates(Values, Times),
                           third  : Estimates(Values, Times)]

Reset(new) == [best |-> new, second |-> new, third |-> new]

(* A filter that has seen nothing: the sample zero marks it. *)
NoSample == Reset(Estimate(0, 0))

Expired(estimate, t, window) == t - estimate.time > window

(* A sample that is at least as good replaces the later estimates. *)
Improve(f, new) ==
  IF new.sample <= f.second.sample
  THEN [f EXCEPT !.second = new, !.third = new]
  ELSE IF new.sample <= f.third.sample THEN [f EXCEPT !.third = new] ELSE f

Promote(f, last) == [best |-> f.second, second |-> f.third, third |-> last]

(* The best estimate is too old: its successors move up, by one place or   *)
(* by two.                                                                 *)
Expire(f, new, window) ==
  LET once == Promote(f, new) IN
  IF Expired(once.best, new.time, window) THEN Promote(once, new) ELSE once

(* A quarter, then a half of the window has passed without a better        *)
(* sample: later estimates are taken from the later part of the window.    *)
Spread(f, new, window) ==
  IF /\ f.second.sample = f.best.sample
     /\ Expired(f.second, new.time, window \div 4)
  THEN [f EXCEPT !.second = new, !.third = new]
  ELSE IF /\ f.third.sample = f.second.sample
          /\ Expired(f.third, new.time, window \div 2)
  THEN [f EXCEPT !.third = new]
  ELSE f

(* Mutant: a sample that is a new minimum is not recognized as one. *)
UpdateLater(f, sample, t, window) ==
  LET new  == Estimate(sample, t)
      next == Improve(f, new)
  IN  IF f.best.sample = 0 \/ Expired(f.third, t, window)
      THEN Reset(new)
      ELSE IF Expired(next.best, t, window)
           THEN Expire(next, new, window)
           ELSE Spread(next, new, window)

Update(f, sample, t, window) ==
  LET new  == Estimate(sample, t)
      next == Improve(f, new)
  IN  IF \/ f.best.sample = 0
         \/ sample <= f.best.sample
         \/ Expired(f.third, t, window)
      THEN Reset(new)
      ELSE IF Expired(next.best, t, window)
           THEN Expire(next, new, window)
           ELSE Spread(next, new, window)

GetBest(f) == f.best.sample
=============================================================================
