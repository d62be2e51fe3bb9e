---------------------------- MODULE MCHelloDemo ----------------------------
(* One client with either backend and one with a MyClientBackend, each     *)
(* with a server of its own, the second started and stopped later.         *)
EXTENDS HelloDemo, TLC

CONSTANTS c1, c2, s1, s2
MCClients == {c1, c2}
MCServerOf == c1 :> s1 @@ c2 :> s2
MCTypes == c1 :> {"hello", "my"} @@ c2 :> {"my"}
MCStart == c1 :> 1 @@ c2 :> 2
MCStop  == c1 :> 2 @@ c2 :> 3
MCMaxPackets == c1 :> 3 @@ c2 :> 1
=============================================================================
