------------------------------ MODULE PortPool ------------------------------
(***************************************************************************)
(* --port-pool: PortRandomizer of utils/portpool.py driven by the tracer's   *)
(* probes (Tracer.send_packet and _register_rst_feedback of utils/trace.py). *)
(* A port that draws a flood of RSTs is put on cooling-off and the probes    *)
(* move on to the next clean port of a shuffled pool.                        *)
(*                                                                          *)
(* monotonic() is a tick that passes at any moment; cool[p] is what is left  *)
(* of the cooling-off of p, so is_available(p) is cool[p] = 0.  A probe with *)
(* no port (ICMP) changes nothing here and is left out.                      *)
(***************************************************************************)
EXTENDS Integers, Sequences, FiniteSets

CONSTANTS
    Pool,           \* the list parse_port_pool returned, repetitions included
    PacketPorts,    \* destination port of each configured packet
    DstPort,        \* --port, or NoPort
    NoPort,
    Threshold,      \* rst_threshold
    CoolingOff,     \* cooling_off_seconds, in ticks
    RstCounts       \* RSTs one probe may draw

Slots == 0..(Len(Pool) - 1)
PoolPorts == {Pool[i] : i \in 1..Len(Pool)}
Ports == PoolPorts \cup {PacketPorts[b] : b \in DOMAIN PacketPorts}
                   \cup (IF DstPort = NoPort THEN {} ELSE {DstPort})

ASSUME PoolAssumption == Pool \in Seq(PoolPorts) /\ Len(Pool) > 0
ASSUME NoPortAssumption == NoPort \notin Ports
ASSUME ThresholdAssumption == Threshold \in Nat \ {0} /\ CoolingOff \in Nat \ {0}
ASSUME RstAssumption == RstCounts \subseteq Nat

VARIABLES
    order,      \* _order
    idx,        \* _idx
    rst,        \* _rst_counts, 0 where the dictionary has no entry
    cool,       \* _cooling_until - monotonic(), 0 once that has passed
    current,    \* current_dport of the tracer
    own,        \* the destination port each packet object carries
    burned      \* history: the ports that have been put on cooling-off so far

vars == <<order, idx, rst, cool, current, own, burned>>

Init ==
    /\ \E shuffle \in [Slots -> 1..Len(Pool)] :
          /\ \A j \in 1..Len(Pool) : \E i \in Slots : shuffle[i] = j
          /\ order = [i \in Slots |-> Pool[shuffle[i]]]
    /\ idx = 0
    /\ rst = [p \in Ports |-> 0]
    /\ cool = [p \in Ports |-> 0]
    /\ current = DstPort
    /\ own = [b \in DOMAIN PacketPorts |->
                 IF DstPort = NoPort THEN PacketPorts[b] ELSE DstPort]
    /\ burned = {}

-----------------------------------------------------------------------------
\* The slot k places on in the rotation, at most one lap away.
Slot(k) == IF idx + k < Len(Pool) THEN idx + k ELSE idx + k - Len(Pool)
CleanOffsets(c) == {k \in Slots : c[order[Slot(k)]] = 0}

\* Mutant: the next port whatever its state.
RotateToAny(c) == current' = order[idx] /\ idx' = Slot(1)

\* next_port: the first clean port from idx on; a full lap without one leaves
\* idx where it was.
Rotate(c) ==
    \/ CleanOffsets(c) = {} /\ current' = order[idx] /\ UNCHANGED idx
    \/ \E k \in CleanOffsets(c) :
          /\ \A j \in CleanOffsets(c) : k <= j
          /\ current' = order[Slot(k)]
          /\ idx' = Slot(k + 1)

\* The port a probe of packet b goes to.
ProbePort(b) == IF current = NoPort THEN own[b] ELSE current

\* send_packet rewrites the packet it was given.
Send(b) == own' = [own EXCEPT ![b] = ProbePort(b)]

\* A probe that draws no RST, answered or not, clears its port's record.
QuietProbe(b) ==
    /\ 0 \in RstCounts
    /\ Send(b)
    /\ rst' = [rst EXCEPT ![ProbePort(b)] = 0]
    /\ cool' = [cool EXCEPT ![ProbePort(b)] = 0]
    /\ UNCHANGED <<order, idx, current, burned>>

\* RSTs that do not reach the threshold are added to the port's count.
CountedProbe(b, n) ==
    /\ n > 0
    /\ rst[ProbePort(b)] + n < Threshold
    /\ Send(b)
    /\ rst' = [rst EXCEPT ![ProbePort(b)] = @ + n]
    /\ UNCHANGED <<order, idx, cool, current, burned>>

\* Mutant: the next port is taken before the flooded one is put on cooling-off.
TrippingProbeRotatesFirst(b, n) ==
    /\ n > 0
    /\ rst[ProbePort(b)] + n >= Threshold
    /\ Send(b)
    /\ rst' = [rst EXCEPT ![ProbePort(b)] = (@ + n) % Threshold]
    /\ cool' = [cool EXCEPT ![ProbePort(b)] = CoolingOff]
    /\ burned' = burned \cup {ProbePort(b)}
    /\ Rotate(cool)
    /\ UNCHANGED order

\* register_rst is called once per RST and starts over at the threshold; one
\* rotation follows, however often it was reached.
TrippingProbe(b, n) ==
    /\ n > 0
    /\ rst[ProbePort(b)] + n >= Threshold
    /\ Send(b)
    /\ rst' = [rst EXCEPT ![ProbePort(b)] = (@ + n) % Threshold]
    /\ cool' = [cool EXCEPT ![ProbePort(b)] = CoolingOff]
    /\ burned' = burned \cup {ProbePort(b)}
    /\ Rotate(cool')
    /\ UNCHANGED order

Tick ==
    /\ \E p \in Ports : cool[p] > 0
    /\ cool' = [p \in Ports |-> IF cool[p] > 0 THEN cool[p] - 1 ELSE 0]
    /\ UNCHANGED <<order, idx, rst, current, own, burned>>

Probe(b) ==
    \/ QuietProbe(b)
    \/ \E n \in RstCounts : CountedProbe(b, n) \/ TrippingProbe(b, n)

Next == Tick \/ \E b \in DOMAIN PacketPorts : Probe(b)

Spec == Init /\ [][Next]_vars
-----------------------------------------------------------------------------
(* Properties *)

\* The randomizer's tables and the tracer's port keep their types; no count
\* stands at the threshold between two probes.
TypeOK ==
    /\ order \in [Slots -> PoolPorts]
    /\ idx \in Slots
    /\ rst \in [Ports -> 0..(Threshold - 1)]
    /\ cool \in [Ports -> 0..CoolingOff]
    /\ current \in Ports \cup {NoPort}
    /\ own \in [DOMAIN PacketPorts -> Ports]
    /\ burned \in SUBSET Ports

\* The tracer never sits on a burned port before every port of the pool has
\* been burned: no long run of floods makes the rotation skip a fresh port or
\* come back to a port that is still cooling too early.
WholePoolBeforeBurned ==
    (current # NoPort /\ cool[current] > 0) => PoolPorts \subseteq burned

\* A rotation ends on a clean port unless the whole pool is cooling.
RotatesToClean ==
    [][current' # current =>
          cool'[current'] = 0 \/ \A p \in PoolPorts : cool'[p] > 0]_vars
=============================================================================
