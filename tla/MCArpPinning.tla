---------------------------- MODULE MCArpPinning ----------------------------
(* At home the client's private MAC rotates; in the cafe, its address is held  *)
(* by a device with one of these MACs or with one that is never seen at home.  *)
EXTENDS ArpPinning

CONSTANTS home, cafe, m1, m2

RotatingAndRoaming == [n \in {home, cafe} |-> IF n = home THEN {m1, m2} ELSE {m2}]
SharedAddress == [n \in {home, cafe} |-> IF n = home THEN {m1} ELSE {m2}]
=============================================================================
