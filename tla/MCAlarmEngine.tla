--------------------------- MODULE MCAlarmEngine ---------------------------
(* Instances of AlarmEngine for TLC. *)
EXTENDS AlarmEngine, TLC

CONSTANTS idle, ack, rto

AlarmSymmetry == Permutations(Alarm)
=============================================================================
