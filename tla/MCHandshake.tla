---------------------------- MODULE MCHandshake ----------------------------
(* Instances of Handshake, with the rule of Firewall, for TLC. *)
EXTENDS Handshake

\* Every way a destination of a TCP trace can be probed.
AllModes == {"handshake", "paris", "rexmit"}

\* add_firewall_drop asked for or not.
EitherAnswer == BOOLEAN
=============================================================================
