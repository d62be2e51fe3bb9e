----------------------------- MODULE AggService -----------------------------
(***************************************************************************)
(* What the aggregation tree promises its consumer, whatever its shape and *)
(* however its messages interleave: iterations are asked for one at a      *)
(* time, and the result of iteration r is, in every block, the average of  *)
(* the r-th vectors of all producers.  It promises no more if links may    *)
(* refuse messages: a lost message stops the service, it never corrupts a  *)
(* result.                                                                 *)
(***************************************************************************)
EXTENDS Naturals

CONSTANTS
  Producer, (* the producers                               *)
  Block,    (* the blocks of a vector                      *)
  Itr       (* iterations the consumer performs            *)

VARIABLES
  asked,    (* iterations asked for                        *)
  done,     (* iterations completed                        *)
  result    (* provenance of each block of the last result *)

(* The consumer asks for the first iteration. *)
Ask ==
  /\ asked = 0 /\ Itr > 0
  /\ asked' = 1
  /\ UNCHANGED <<done, result>>

(* The result arrives, all of it at once, and the next iteration is asked for
   in the same step. *)
Answer ==
  /\ asked = done + 1
  /\ done' = asked
  /\ result' = [b \in Block |-> Producer \X {asked}]
  /\ asked' = IF asked < Itr THEN asked + 1 ELSE asked

Init ==
  /\ asked = 0
  /\ done = 0
  /\ result = [b \in Block |-> {}]

Next == Ask \/ Answer

Spec == Init /\ [][Next]_<<asked, done, result>>
=============================================================================
