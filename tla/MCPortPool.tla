----------------------------- MODULE MCPortPool -----------------------------
(* Instances of PortPool for TLC. *)
EXTENDS PortPool

ThreePorts == <<80, 8080, 8443>>
Packets443and80 == <<443, 80>>
=============================================================================
