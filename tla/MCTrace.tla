------------------------------ MODULE MCTrace ------------------------------
(* Instances of Trace for TLC. *)
EXTENDS Trace
CONSTANTS d1, d2, r1, self

OneDestination == <<d1>>
TwoAndSelf == <<d1, d2, self>>
TcpOnly == <<"TCP">>
TcpAndUdp == <<"TCP", "UDP">>
Port443 == <<443>>
Ports443and53 == <<443, 53>>
=============================================================================
