-------------------------------- MODULE Dpi --------------------------------
(***************************************************************************)
(* The path classifier of utils/dpi.py: the DPI / CGNAT / SNI / RST posture *)
(* of one path, computed from the signals a trace or a graph collected.     *)
(* The classifier is pure; the tracer calls it twice (before the probes,    *)
(* from defaults, and after them, from the hops), the graph once per hop.   *)
(***************************************************************************)
EXTENDS Integers

RstThreshold == 3
SniPort == 443

NetworkStates == {"open", "allowlisted", "shutdown", "unknown"}
CgnatNetworkStates == {"allowlisted"}

\* The keyword defaults of classify_dpi_path.
DefaultSignals ==
    [ is_nat |-> FALSE, is_middlebox |-> FALSE, is_pep |-> FALSE,
      network_state |-> "unknown", sent_proto |-> "", sent_dport |-> -1,
      rst_count |-> 0, dst_reached |-> TRUE, cgnat_observed |-> FALSE,
      reply_forged |-> FALSE ]

CgnatHop(s) ==
    \/ s.cgnat_observed
    \/ s.network_state \in CgnatNetworkStates

SniInspected(s) ==
    /\ s.is_middlebox \/ s.is_pep
    /\ s.sent_proto = "TCP"
    /\ s.sent_dport = SniPort

RstFlood(s) == s.rst_count >= RstThreshold

TcpSilentlyDropped(s) ==
    /\ s.sent_proto = "TCP"
    /\ ~s.dst_reached
    /\ ~RstFlood(s)
    /\ ~(s.is_middlebox \/ s.is_pep)

DpiCleared(s) ==
    /\ ~s.reply_forged
    /\ ~SniInspected(s)
    /\ ~RstFlood(s)
    /\ ~TcpSilentlyDropped(s)
    /\ s.dst_reached
    /\ s.network_state = "open"

ClassifyDpiPath(s) ==
    [ dpi_cleared |-> DpiCleared(s),
      cgnat_hop |-> CgnatHop(s),
      sni_inspected |-> SniInspected(s),
      rst_flood |-> RstFlood(s),
      tcp_silently_dropped |-> TcpSilentlyDropped(s) ]
=============================================================================
