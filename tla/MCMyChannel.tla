---------------------------- MODULE MCMyChannel ----------------------------
(* Instances of MyChannel for TLC: the sizes of the program, scaled down. *)
EXTENDS MyChannel

(* Two bytes that are no header: zero, a short length, one beyond the ring. *)
AnyLength == {0, MsgLen - 1, Capacity + 1}
=============================================================================
