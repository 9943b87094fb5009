----------------------------- MODULE Handshake ------------------------------
(***************************************************************************)
(* The probes of one destination of a TCP trace (utils/trace.py): send_packet *)
(* with a handshake before each probe, with the handshake of a preflight      *)
(* whose packet is replayed (--paris), or with a stored packet replayed       *)
(* (--rexmit).  The tracer talks to a server over a path that loses, delays,  *)
(* refuses and injects, while the kernel of its own host, which knows none of *)
(* these connections, resets them unless the rule of Firewall is in place.    *)
(*                                                                            *)
(* Every SYN has a port of its own (ephemeral_port_reserve): connections are  *)
(* numbered within a handshake, and those of earlier handshakes, whose ports   *)
(* nobody uses again, are forgotten.  A timeout may strike at any moment.     *)
(***************************************************************************)
EXTENDS Firewall, Sequences, FiniteSets

CONSTANTS
    Modes,      \* "handshake", "paris", "rexmit"
    MaxSyn,     \* SYNs per handshake, 5 in the code
    Repeats,    \* repeat_requests
    MaxTtl,     \* probes per repeat
    IdLimit     \* 2^16: what fits into the field IP.id

ASSUME ModesAssumption == Modes \subseteq {"handshake", "paris", "rexmit"}
ASSUME ProbeAssumption ==
    {MaxSyn, Repeats, MaxTtl, IdLimit} \subseteq Nat \ {0}

\* The connections of one handshake, and 0 for that of a stored packet.
Conns == 0..MaxSyn

ToServer == {"syn", "ack", "data", "expiring data", "rst"}
ToHost == {"synack", "reply", "icmp", "injected", "reset"}
Rsts == {"injected", "reset"}

\* What sr() takes for an answer to a packet of its own on the same connection.
SynAnswers == {"synack", "icmp"} \cup Rsts
DataAnswers == {"reply", "icmp"} \cup Rsts
AnswersTo(kind) == IF kind = "syn" THEN SynAnswers ELSE DataAnswers

VARIABLES
    mode,
    pc,         \* where the tracer is
    sending,    \* "preflight", "handshake" or "replay"
    rep, ttl,
    attempt,    \* max_repeat
    conn,       \* the connection of the last SYN
    ok,         \* handshake_ok
    rsts,       \* handshake_rst_count
    packet,     \* the packet that is replayed: kind, connection, IP.id
    answered,   \* what sr() returns for it
    noted,      \* the annotation carries PREFLIGHT_FAILED_NOTE
    result,     \* the last result of a hop
    wire,       \* history: the kinds this call of send_packet put on the wire
    heard,      \* history: RSTs this call of send_packet was handed
    net,        \* messages in flight
    server      \* connection |-> "none", "half", "open", "closed"

loopVars == <<mode, sending, rep, ttl>>
tracerVars == <<pc, attempt, conn, ok, rsts, packet, answered, noted, result, wire, heard>>
netVars == <<net, server>>
vars == <<fwVars, loopVars, tracerVars, netVars>>

Msg(kind, c) == [kind |-> kind, conn |-> c]
NoResult == [ok |-> "none", rst |-> 0, from |-> <<>>, sending |-> "none", wire |-> {}, heard |-> 0]

Init ==
    /\ FirewallInit
    /\ mode \in Modes
    /\ pc = "repeat" /\ sending = "none" /\ rep = 0 /\ ttl = 0
    /\ attempt = 0 /\ conn = 0 /\ ok = "none" /\ rsts = 0
    /\ \E id \in IF mode = "rexmit" THEN 0 .. IdLimit - 1 ELSE {0} :
          packet = [kind |-> "data", conn |-> 0, id |-> id]
    /\ answered = <<>> /\ noted = FALSE /\ result = NoResult
    /\ wire = {} /\ heard = 0
    /\ net = {} /\ server = [c \in Conns |-> "none"]

CountRst(kinds) == Cardinality({i \in DOMAIN kinds : kinds[i] \in Rsts})

-----------------------------------------------------------------------------
(* The loops *)

BeginRepeat ==
    /\ pc = "repeat" /\ block = "left"
    /\ IF rep = Repeats THEN pc' = "end" /\ UNCHANGED <<rep, ttl, sending>>
       ELSE /\ rep' = rep + 1 /\ pc' = "send"
            /\ ttl' = IF mode = "paris" THEN 0 ELSE 1
            /\ sending' = CASE mode = "paris" -> "preflight" [] mode = "rexmit" -> "replay"
                            [] OTHER -> "handshake"
    /\ UNCHANGED <<fwVars, mode, attempt, conn, ok, rsts, packet, answered, noted, result, wire,
                   heard, netVars>>

NewHandshake ==
    /\ conn' = 0 /\ net' = {} /\ server' = [c \in Conns |-> "none"]
    /\ packet' = [kind |-> "data", conn |-> 0, id |-> 0]

\* Mutant: the evidence of the last probe is not cleared.
SendPacketStale ==
    /\ pc = "send"
    /\ wire' = {} /\ heard' = 0 /\ attempt' = 0 /\ answered' = <<>>
    /\ IF sending = "replay" THEN pc' = "retransmit" /\ UNCHANGED <<conn, packet, netVars>>
       ELSE pc' = "syn" /\ NewHandshake
    /\ UNCHANGED <<fwVars, loopVars, ok, rsts, noted, result>>

SendPacket ==
    /\ pc = "send"
    /\ ok' = "none" /\ rsts' = 0
    /\ wire' = {} /\ heard' = 0 /\ attempt' = 0 /\ answered' = <<>>
    /\ IF sending = "replay" THEN pc' = "retransmit" /\ UNCHANGED <<conn, packet, netVars>>
       ELSE pc' = "syn" /\ NewHandshake
    /\ UNCHANGED <<fwVars, loopVars, noted, result>>

-----------------------------------------------------------------------------
(* send_packet_with_tcphandshake *)

Send(kind, c) ==
    /\ net' = net \cup {Msg(kind, c)}
    /\ wire' = wire \cup {kind}
    /\ UNCHANGED server

SendSyn ==
    /\ pc = "syn" /\ conn + 1 \in Conns
    /\ conn' = conn + 1
    /\ Send("syn", conn + 1)
    /\ pc' = "syn sent"
    /\ UNCHANGED <<fwVars, loopVars, attempt, ok, rsts, packet, answered, noted, result, heard>>

\* The kernel answers what belongs to none of its sockets, if the rule lets it.
KernelResets(m) ==
    IF m.kind \in {"synack", "reply"} /\ rules = 0 THEN {Msg("rst", m.conn)} ELSE {}

Deliver(m) == net' = (net \ {m}) \cup KernelResets(m) /\ UNCHANGED server

RstIn(m) == IF m.kind \in Rsts THEN 1 ELSE 0

\* IP.id is a draw of 16 bits; it matters where the packet will be replayed.
Drawn(ids) == IF mode = "paris" THEN ids ELSE {0}

\* The SYN that stands first among the unanswered is the one to be replayed.
Unanswered(c) ==
    \E id \in Drawn(0 .. IdLimit - 1) :
        packet' = [packet EXCEPT !.kind = "syn", !.conn = c, !.id = id]

\* Mutant: any answer completes the handshake.
HearAnySyn(m) ==
    /\ pc = "syn sent" /\ m.conn = conn /\ m.kind \in SynAnswers
    /\ Deliver(m)
    /\ attempt' = attempt + 1
    /\ rsts' = rsts + RstIn(m) /\ heard' = heard + RstIn(m)
    /\ pc' = "ack" /\ ok' = "yes"
    /\ UNCHANGED <<fwVars, loopVars, conn, packet, answered, noted, result, wire>>

\* Mutant: a refusal is retried like silence.
HearSynInsist(m) ==
    /\ pc = "syn sent" /\ m.conn = conn /\ m.kind \in SynAnswers
    /\ Deliver(m)
    /\ attempt' = attempt + 1
    /\ rsts' = rsts + RstIn(m) /\ heard' = heard + RstIn(m)
    /\ pc' = IF m.kind = "synack" THEN "ack" ELSE IF attempt + 1 < MaxSyn THEN "syn" ELSE "failed"
    /\ ok' = IF m.kind = "synack" THEN "yes" ELSE "no"
    /\ UNCHANGED <<fwVars, loopVars, conn, packet, answered, noted, result, wire>>

\* Only a SYN-ACK is a handshake; any other answer ends the attempts, and the
\* list of the SYNs sent stands in for the empty list of unanswered ones.
HearSyn(m) ==
    /\ pc = "syn sent" /\ m.conn = conn /\ m.kind \in SynAnswers
    /\ Deliver(m)
    /\ attempt' = attempt + 1
    /\ rsts' = rsts + RstIn(m) /\ heard' = heard + RstIn(m)
    /\ pc' = IF m.kind = "synack" THEN "ack" ELSE "failed"
    /\ ok' = IF m.kind = "synack" THEN "yes" ELSE "no"
    /\ IF m.kind = "synack" THEN UNCHANGED packet ELSE Unanswered(1)
    /\ UNCHANGED <<fwVars, loopVars, conn, answered, noted, result, wire>>

\* Mutant: silence is not counted.
SynTimeoutUncounted ==
    /\ pc = "syn sent"
    /\ pc' = IF attempt + 1 < MaxSyn THEN "syn" ELSE "failed"
    /\ Unanswered(conn)
    /\ UNCHANGED <<fwVars, loopVars, attempt, conn, ok, rsts, answered, noted, result, wire, heard,
                   netVars>>

SynTimeout ==
    /\ pc = "syn sent"
    /\ attempt' = attempt + 1
    /\ pc' = IF attempt + 1 < MaxSyn THEN "syn" ELSE "failed"
    /\ Unanswered(conn)
    /\ UNCHANGED <<fwVars, loopVars, conn, ok, rsts, answered, noted, result, wire, heard, netVars>>

HandshakeFailed ==
    /\ pc = "failed"
    /\ ok' = "no"
    /\ pc' = "answered"
    /\ UNCHANGED <<fwVars, loopVars, attempt, conn, rsts, packet, answered, noted, result, wire,
                   heard, netVars>>

\* A field that does not fit raises and ends the program.
Raise == pc' = "error"

\* RandShort() + 1: each use of the volatile draws a number of its own.
SendAck ==
    /\ pc = "ack"
    /\ \/ Send("ack", conn) /\ pc' = "data"
       \/ Raise /\ UNCHANGED <<wire, netVars>>
    /\ UNCHANGED <<fwVars, loopVars, attempt, conn, ok, rsts, packet, answered, noted, result,
                   heard>>

\* RandShort() + 2.
SendData ==
    /\ pc = "data"
    /\ \E id \in 2 .. IdLimit + 1 :
          IF id >= IdLimit THEN Raise /\ UNCHANGED <<packet, wire, netVars>>
          ELSE /\ packet' = [kind |-> "data", conn |-> conn,
                             id |-> IF mode = "paris" THEN id ELSE 0]
               /\ Send(IF ttl = 0 THEN "expiring data" ELSE "data", conn)
               /\ pc' = "waiting"
    /\ UNCHANGED <<fwVars, loopVars, attempt, conn, ok, rsts, answered, noted, result, heard>>

-----------------------------------------------------------------------------
(* Retransmission, answers, results *)

Retransmit ==
    /\ pc = "retransmit"
    /\ IF packet.id + 1 >= IdLimit THEN Raise /\ UNCHANGED <<packet, wire, netVars>>
       ELSE /\ packet' = [packet EXCEPT !.id = @ + 1]
            /\ Send(packet.kind, packet.conn)
            /\ pc' = "waiting"
    /\ UNCHANGED <<fwVars, loopVars, attempt, conn, ok, rsts, answered, noted, result, heard>>

\* multi=True collects answers until the timeout; a stored packet gets one.
HearData(m) ==
    /\ pc = "waiting" /\ m.conn = packet.conn /\ m.kind \in AnswersTo(packet.kind)
    /\ Deliver(m)
    /\ answered' = Append(answered, m.kind) /\ heard' = heard + RstIn(m)
    /\ pc' = IF mode = "rexmit" THEN "answered" ELSE "waiting"
    /\ UNCHANGED <<fwVars, loopVars, attempt, conn, ok, rsts, packet, noted, result, wire>>

DataTimeout ==
    /\ pc = "waiting"
    /\ pc' = "answered"
    /\ UNCHANGED <<fwVars, loopVars, attempt, conn, ok, rsts, packet, answered, noted, result,
                   wire, heard, netVars>>

\* What the tracer is not waiting for reaches only its kernel.
Stray(m) ==
    /\ m.kind \in ToHost
    /\ ~(pc = "syn sent" /\ m.conn = conn /\ m.kind \in SynAnswers)
    /\ ~(pc = "waiting" /\ m.conn = packet.conn /\ m.kind \in AnswersTo(packet.kind))
    /\ Deliver(m)
    /\ UNCHANGED <<fwVars, loopVars, tracerVars>>

FirstReplay == ttl' = 1 /\ sending' = "replay" /\ pc' = "send" /\ UNCHANGED <<mode, rep>>

\* generate_packets_for_each_ip: no answer is taken for a failed handshake.
NotePreflight ==
    /\ pc = "answered" /\ sending = "preflight"
    /\ noted' = (noted \/ answered = <<>>)
    /\ FirstReplay
    /\ UNCHANGED <<fwVars, attempt, conn, ok, rsts, packet, answered, result, wire, heard, netVars>>

\* Segments that bear the address of the destination end a repeat, but not
\* with --continue.
Reached == \E i \in DOMAIN answered : answered[i] # "icmp"

\* parse_packet and add_hop, then the next turn of the loops.
Parse ==
    /\ pc = "answered" /\ sending # "preflight"
    /\ result' = [ ok |-> ok, rst |-> rsts + CountRst(answered), from |-> answered,
                   sending |-> sending, wire |-> wire, heard |-> heard ]
    /\ \/ ttl < MaxTtl /\ ttl' = ttl + 1 /\ pc' = "send"
       \/ (ttl = MaxTtl \/ Reached) /\ ttl' = 0 /\ pc' = "repeat"
    /\ UNCHANGED <<fwVars, mode, sending, rep, attempt, conn, ok, rsts, packet, answered, noted,
                   wire, heard, netVars>>

Tracer ==
    \/ BeginRepeat \/ SendPacket \/ SendSyn \/ SynTimeout \/ HandshakeFailed \/ SendAck
    \/ SendData \/ Retransmit \/ DataTimeout \/ NotePreflight \/ Parse

-----------------------------------------------------------------------------
(* The path and the server *)

Replace(m, kinds) == net' = (net \ {m}) \cup {Msg(k, m.conn) : k \in kinds}

\* A box answers in place of the server, a TTL expires, or nothing comes back.
PathKeeps(m) ==
    /\ \/ Replace(m, {})
       \/ /\ m.kind \in {"syn", "data", "expiring data"}
          /\ Replace(m, {"icmp"}) \/ Replace(m, {"injected"})
    /\ UNCHANGED <<fwVars, loopVars, tracerVars, server>>

Server(m, states, next, kinds) ==
    /\ server[m.conn] \in states
    /\ server' = [server EXCEPT ![m.conn] = next]
    /\ Replace(m, kinds)
    /\ UNCHANGED <<fwVars, loopVars, tracerVars>>

\* A box beside the path may add its own reset to the server's reply.
ServerTakes(m) ==
    \/ m.kind = "syn" /\ Server(m, {"none", "half", "closed"}, "half", {"synack"})
    \/ m.kind = "ack" /\ Server(m, {"half", "open"}, "open", {})
    \/ m.kind = "data" /\ \E injected \in {{}, {"injected"}} :
                              Server(m, {"half", "open"}, "open", {"reply"} \cup injected)
    \/ m.kind \in {"ack", "data"} /\ Server(m, {"none", "closed"}, server[m.conn], {"reset"})
    \/ m.kind = "rst" /\ Server(m, {"half", "open", "closed"}, "closed", {})

Network ==
    \E m \in net : HearSyn(m) \/ HearData(m) \/ Stray(m) \/ PathKeeps(m) \/ ServerTakes(m)

-----------------------------------------------------------------------------
Firewall == (Block \/ Others) /\ UNCHANGED <<loopVars, tracerVars, netVars>>

Next == Firewall \/ Tracer \/ Network

Spec == Init /\ [][Next]_vars

\* sr() and iptables return: the program goes on whatever the network does.
FairSpec == Spec /\ WF_vars(Tracer) /\ WF_vars(Block /\ UNCHANGED <<loopVars, tracerVars, netVars>>)

-----------------------------------------------------------------------------
(* Properties *)

TypeOK ==
    /\ FirewallTypeOK
    /\ mode \in Modes
    /\ pc \in {"repeat", "send", "syn", "syn sent", "failed", "ack", "data", "retransmit",
               "waiting", "answered", "end", "error"}
    /\ sending \in {"none", "preflight", "handshake", "replay"}
    /\ rep \in 0..Repeats /\ ttl \in 0..MaxTtl
    /\ attempt \in 0..MaxSyn /\ conn \in Conns
    /\ ok \in {"none", "yes", "no"} /\ rsts \in 0..1
    /\ packet \in [kind : {"syn", "data"}, conn : Conns, id : 0 .. IdLimit - 1]
    /\ answered \in Seq(SynAnswers \cup DataAnswers)
    /\ noted \in BOOLEAN
    /\ wire \subseteq ToServer /\ heard \in Nat
    /\ net \subseteq [kind : ToServer \cup ToHost, conn : Conns]
    /\ server \in [Conns -> {"none", "half", "open", "closed"}]

\* Payload is sent only on a connection the server has answered ("we are trying
\* to trace packet data, not SYN packet"), whatever comes late, refused or
\* injected on the connections tried before.
DataMeetsConnection ==
    \A m \in net :
        (m.kind \in {"ack", "data", "expiring data"} /\ m.conn > 0) => server[m.conn] # "none"

\* The verdict saved with a hop is that of its own probe: handshake_ok is true
\* exactly where the data went out, and absent from a replay, which makes none.
VerdictIsOwn ==
    /\ result.sending = "handshake" =>
          /\ result.ok \in {"yes", "no"}
          /\ result.ok = "yes" <=> "data" \in result.wire
    /\ result.sending = "replay" => result.ok = "none"

\* Every reset the probe was handed, in the handshake or after the data, is
\* counted once in the result of its hop, and no other is.
RstsCountedOnce == result.rst = result.heard

\* "Retries are for *silence* only": a SYN leaves only as long as nothing has
\* answered the SYNs of this probe before it.
NoSynAfterRefusal == [][conn' > conn => ok = "none"]_vars

\* A replayed SYN is never passed off as the configured packet: "it can no
\* longer happen quietly".
SynReplayIsNoted ==
    (sending = "replay" /\ packet.kind = "syn") => noted

\* Where the operator has set the rule, as FIREWALL_COMMANDS_HELP asks, no reset
\* that the host itself provoked is counted against the path.
OperatorsRuleProtects ==
    (operator > 0 /\ mode # "rexmit") => "reset" \notin {result.from[i] : i \in DOMAIN result.from}

\* FIREWALL_COMMANDS_HELP: "You may need to temporarily block RST output packets
\* in your firewall. [...] After the test, you can delete it".  The rule that
\* tracevis adds itself protects the trace as well.
AddedRuleProtects ==
    (wanted /\ mode # "rexmit") => "reset" \notin {result.from[i] : i \in DOMAIN result.from}

\* The trace or the program comes to an end, even if nothing is ever answered.
Terminates == <>(pc \in {"end", "error"} \/ block = "raised")
=============================================================================
