----------------------------- MODULE AlarmClock -----------------------------
(***************************************************************************)
(* What an alarm factory promises QUIC: an alarm that is set fires when    *)
(* the time is its deadline, not before and not after, and not at all if   *)
(* it is cancelled first.  Time is the simulator's, so nothing is late:    *)
(* the clock does not pass a deadline before its alarm has fired.          *)
(***************************************************************************)
EXTENDS Integers

CONSTANT Alarm

VARIABLES
  now,     (* the time                                                   *)
  deadline,(* deadline[a]: when a is to fire, or None                    *)
  ringing  (* the alarm whose callback runs, if any                      *)

None == -1
IsSet(a) == deadline[a] # None

Tick ==
  /\ \A a \in Alarm : IsSet(a) => now < deadline[a]
  /\ now' = now + 1
  /\ UNCHANGED <<deadline, ringing>>

(* An alarm is set, or moved.  A deadline that has passed is due at once. *)
Set(a) ==
  /\ deadline'[a] \in Nat
  /\ deadline' = [deadline EXCEPT ![a] = deadline'[a]]
  /\ UNCHANGED <<now, ringing>>

Cancel(a) ==
  /\ deadline' = [deadline EXCEPT ![a] = None]
  /\ UNCHANGED <<now, ringing>>

Fire(a) ==
  /\ a \notin ringing
  /\ IsSet(a) /\ deadline[a] <= now
  /\ deadline' = [deadline EXCEPT ![a] = None]
  /\ ringing' = {a}
  /\ UNCHANGED now

(* The callback returns. *)
Return == ringing' = {} /\ UNCHANGED <<now, deadline>>

Init ==
  /\ now = 0
  /\ deadline = [a \in Alarm |-> None]
  /\ ringing = {}

Next ==
  \/ Tick \/ Return
  \/ \E a \in Alarm : Set(a) \/ Cancel(a) \/ Fire(a)

Spec == Init /\ [][Next]_<<now, deadline, ringing>>
=============================================================================
