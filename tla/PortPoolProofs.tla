--------------------------- MODULE PortPoolProofs ---------------------------
(***************************************************************************)
(* Proofs about PortPool for every pool, threshold, cooling-off time and     *)
(* number of RSTs.                                                           *)
(***************************************************************************)
EXTENDS PortPool, TLAPS

\* A port that is cooling has been burned, and the shuffled order is the whole
\* pool: what WholePoolBeforeBurned needs to be inductive.
CoolingIsBurned == \A p \in Ports : cool[p] > 0 => p \in burned
OrderIsPool == \A p \in PoolPorts : \E i \in Slots : order[i] = p

PoolInv == TypeOK /\ OrderIsPool /\ CoolingIsBurned /\ WholePoolBeforeBurned

LEMMA PoolFacts ==
    /\ Len(Pool) \in Nat /\ Len(Pool) > 0
    /\ PoolPorts \subseteq Ports
    /\ \A i \in 1..Len(Pool) : Pool[i] \in PoolPorts
    /\ \A b \in DOMAIN PacketPorts : PacketPorts[b] \in Ports
    /\ DstPort # NoPort => DstPort \in Ports
    /\ NoPort \notin Ports
    /\ Threshold \in Nat /\ Threshold > 0
    /\ CoolingOff \in Nat /\ CoolingOff > 0
  BY PoolAssumption, NoPortAssumption, ThresholdAssumption DEF PoolPorts, Ports

-----------------------------------------------------------------------------
(* next_port *)

LEMMA SlotInRange ==
    ASSUME TypeOK, NEW k \in 0..Len(Pool)
    PROVE  Slot(k) \in Slots
  BY PoolFacts DEF TypeOK, Slots, Slot

\* One lap visits every slot.
LEMMA LapIsWhole ==
    ASSUME TypeOK, NEW i \in Slots
    PROVE  \E k \in Slots : Slot(k) = i
  <1> DEFINE k == IF idx <= i THEN i - idx ELSE i - idx + Len(Pool)
  <1>1. idx \in 0..(Len(Pool) - 1) /\ i \in 0..(Len(Pool) - 1) /\ Len(Pool) \in Nat
    BY PoolFacts DEF TypeOK, Slots
  <1>2. k \in Slots /\ Slot(k) = i
    BY <1>1 DEF Slots, Slot
  <1> QED BY <1>2

\* next_port stays inside the pool and the list, and returns a port that is
\* cooling only when every port of the pool is.
LEMMA RotateResult ==
    ASSUME TypeOK, OrderIsPool, NEW c \in [Ports -> Nat], Rotate(c)
    PROVE  /\ current' \in PoolPorts
           /\ idx' \in Slots
           /\ c[current'] = 0 \/ \A p \in PoolPorts : c[p] > 0
  <1>1. idx \in Slots /\ order \in [Slots -> PoolPorts]
    BY DEF TypeOK
  <1>2. CASE CleanOffsets(c) = {} /\ current' = order[idx] /\ UNCHANGED idx
    <2>1. ASSUME NEW p \in PoolPorts
          PROVE  c[p] > 0
      <3>1. PICK i \in Slots : order[i] = p
        BY DEF OrderIsPool
      <3>2. PICK k \in Slots : Slot(k) = i
        BY LapIsWhole
      <3>3. c[order[Slot(k)]] # 0
        BY <1>2 DEF CleanOffsets
      <3>4. c[p] \in Nat
        BY PoolFacts
      <3> QED BY <3>1, <3>2, <3>3, <3>4
    <2> QED BY <1>1, <1>2, <2>1
  <1>3. CASE \E k \in CleanOffsets(c) :
                /\ \A j \in CleanOffsets(c) : k <= j
                /\ current' = order[Slot(k)]
                /\ idx' = Slot(k + 1)
    <2>1. PICK k \in CleanOffsets(c) : current' = order[Slot(k)] /\ idx' = Slot(k + 1)
      BY <1>3
    <2>2. k \in Slots /\ c[order[Slot(k)]] = 0
      BY DEF CleanOffsets
    <2>3. k \in 0..Len(Pool) /\ k + 1 \in 0..Len(Pool)
      BY <2>2, PoolFacts DEF Slots
    <2>4. Slot(k) \in Slots /\ Slot(k + 1) \in Slots
      BY <2>3, SlotInRange
    <2> QED BY <1>1, <2>1, <2>2, <2>4
  <1> QED BY <1>2, <1>3 DEF Rotate

-----------------------------------------------------------------------------
(* The invariant *)

LEMMA InitPoolInv == Init => PoolInv
  <1> SUFFICES ASSUME Init PROVE PoolInv
    OBVIOUS
  <1>1. PICK shuffle \in [Slots -> 1..Len(Pool)] :
           /\ \A j \in 1..Len(Pool) : \E i \in Slots : shuffle[i] = j
           /\ order = [i \in Slots |-> Pool[shuffle[i]]]
    BY DEF Init
  <1>2. order \in [Slots -> PoolPorts]
    BY <1>1, PoolFacts
  <1>3. OrderIsPool
    <2> SUFFICES ASSUME NEW p \in PoolPorts
                 PROVE  \E i \in Slots : order[i] = p
      BY DEF OrderIsPool
    <2>1. PICK j \in 1..Len(Pool) : Pool[j] = p
      BY DEF PoolPorts
    <2>2. PICK i \in Slots : shuffle[i] = j
      BY <1>1
    <2> QED BY <1>1, <2>1, <2>2
  <1>4. idx \in Slots
    BY PoolFacts DEF Init, Slots
  <1>5. /\ rst \in [Ports -> 0..(Threshold - 1)]
        /\ cool \in [Ports -> 0..CoolingOff]
        /\ \A p \in Ports : cool[p] = 0
    BY PoolFacts DEF Init
  <1>6. /\ current \in Ports \cup {NoPort}
        /\ own \in [DOMAIN PacketPorts -> Ports]
        /\ burned \in SUBSET Ports
    BY PoolFacts DEF Init
  <1>7. TypeOK
    BY <1>2, <1>4, <1>5, <1>6 DEF TypeOK
  <1>8. CoolingIsBurned /\ WholePoolBeforeBurned
    BY <1>5, <1>6 DEF CoolingIsBurned, WholePoolBeforeBurned
  <1> QED BY <1>3, <1>7, <1>8 DEF PoolInv

\* What every probe does, whatever it draws.
LEMMA SendType ==
    ASSUME TypeOK, NEW b \in DOMAIN PacketPorts
    PROVE  /\ ProbePort(b) \in Ports
           /\ Send(b) => own' \in [DOMAIN PacketPorts -> Ports]
  <1>1. ProbePort(b) \in Ports
    BY DEF TypeOK, ProbePort
  <1> QED BY <1>1 DEF TypeOK, Send

LEMMA ProbePoolInv ==
    ASSUME PoolInv, NEW b \in DOMAIN PacketPorts, Probe(b)
    PROVE  PoolInv'
  <1> DEFINE d == ProbePort(b)
  <1>1. d \in Ports /\ (Send(b) => own' \in [DOMAIN PacketPorts -> Ports])
    BY SendType DEF PoolInv
  <1>2. /\ TypeOK /\ OrderIsPool /\ CoolingIsBurned /\ WholePoolBeforeBurned
        /\ rst \in [Ports -> 0..(Threshold - 1)]
        /\ cool \in [Ports -> 0..CoolingOff]
        /\ burned \in SUBSET Ports
    BY DEF PoolInv, TypeOK
  <1> HIDE DEF d
  <1>3. CASE QuietProbe(b)
    <2>1. /\ Send(b) /\ rst' = [rst EXCEPT ![d] = 0] /\ cool' = [cool EXCEPT ![d] = 0]
          /\ order' = order /\ idx' = idx /\ current' = current /\ burned' = burned
      BY <1>3 DEF QuietProbe, d
    <2>2. rst' \in [Ports -> 0..(Threshold - 1)] /\ cool' \in [Ports -> 0..CoolingOff]
      BY <2>1, <1>1, <1>2, PoolFacts
    <2>3. \A p \in Ports : cool'[p] > 0 => cool[p] > 0
      BY <2>1, <1>1, <1>2
    <2>4. TypeOK' /\ OrderIsPool'
      BY <2>1, <2>2, <1>1, <1>2 DEF TypeOK, OrderIsPool
    <2>5. CoolingIsBurned'
      BY <2>1, <2>3, <1>2 DEF CoolingIsBurned
    <2>6. WholePoolBeforeBurned'
      BY <2>1, <2>3, <1>2 DEF WholePoolBeforeBurned, TypeOK
    <2> QED BY <2>4, <2>5, <2>6 DEF PoolInv
  <1>4. ASSUME NEW n \in RstCounts, CountedProbe(b, n)
        PROVE  PoolInv'
    <2>1. /\ n > 0 /\ rst[d] + n < Threshold /\ Send(b)
          /\ rst' = [rst EXCEPT ![d] = @ + n]
          /\ order' = order /\ idx' = idx /\ cool' = cool
          /\ current' = current /\ burned' = burned
      BY <1>4 DEF CountedProbe, d
    <2>2. rst[d] + n \in 0..(Threshold - 1)
      <3>1. n \in Nat /\ rst[d] \in Nat
        BY <1>1, <1>2, RstAssumption
      <3> QED BY <3>1, <2>1, PoolFacts
    <2>3. rst' \in [Ports -> 0..(Threshold - 1)]
      BY <2>1, <2>2, <1>1, <1>2
    <2>4. TypeOK' /\ OrderIsPool'
      BY <2>1, <2>3, <1>1, <1>2 DEF TypeOK, OrderIsPool
    <2>5. CoolingIsBurned' /\ WholePoolBeforeBurned'
      BY <2>1, <1>2 DEF CoolingIsBurned, WholePoolBeforeBurned
    <2> QED BY <2>4, <2>5 DEF PoolInv
  <1>5. ASSUME NEW n \in RstCounts, TrippingProbe(b, n)
        PROVE  PoolInv'
    <2>1. /\ n > 0 /\ Send(b) /\ Rotate(cool') /\ order' = order
          /\ rst' = [rst EXCEPT ![d] = (@ + n) % Threshold]
          /\ cool' = [cool EXCEPT ![d] = CoolingOff]
          /\ burned' = burned \cup {d}
      BY <1>5 DEF TrippingProbe, d
    <2>2. (rst[d] + n) % Threshold \in 0..(Threshold - 1)
      <3>1. n \in Nat /\ rst[d] \in Nat
        BY <1>1, <1>2, RstAssumption
      <3>2. rst[d] + n \in Int
        BY <3>1
      <3> QED BY <3>2, PoolFacts
    <2>3. rst' \in [Ports -> 0..(Threshold - 1)]
      BY <2>1, <2>2, <1>1, <1>2
    <2>4. cool' \in [Ports -> 0..CoolingOff] /\ cool' \in [Ports -> Nat]
      BY <2>1, <1>1, <1>2, PoolFacts
    <2>5. /\ current' \in PoolPorts /\ idx' \in Slots
          /\ cool'[current'] = 0 \/ \A p \in PoolPorts : cool'[p] > 0
      BY <2>1, <2>4, <1>2, RotateResult
    <2>6. TypeOK' /\ OrderIsPool'
      BY <2>1, <2>3, <2>4, <2>5, <1>1, <1>2, PoolFacts DEF TypeOK, OrderIsPool
    <2>7. CoolingIsBurned'
      BY <2>1, <1>1, <1>2 DEF CoolingIsBurned
    <2>8. WholePoolBeforeBurned'
      BY <2>5, <2>7, PoolFacts DEF CoolingIsBurned, WholePoolBeforeBurned
    <2> QED BY <2>6, <2>7, <2>8 DEF PoolInv
  <1> QED BY <1>3, <1>4, <1>5 DEF Probe

LEMMA TickPoolInv ==
    ASSUME PoolInv, Tick
    PROVE  PoolInv'
  <1>1. /\ cool' = [p \in Ports |-> IF cool[p] > 0 THEN cool[p] - 1 ELSE 0]
        /\ UNCHANGED <<order, idx, rst, current, own, burned>>
        /\ TypeOK /\ OrderIsPool /\ CoolingIsBurned /\ WholePoolBeforeBurned
        /\ cool \in [Ports -> 0..CoolingOff]
    BY DEF Tick, PoolInv, TypeOK
  <1>2. cool' \in [Ports -> 0..CoolingOff]
    BY <1>1, PoolFacts
  <1>3. \A p \in Ports : cool'[p] > 0 => cool[p] > 0
    BY <1>1
  <1>4. TypeOK' /\ OrderIsPool'
    BY <1>1, <1>2 DEF TypeOK, OrderIsPool
  <1>5. CoolingIsBurned'
    BY <1>1, <1>3 DEF CoolingIsBurned
  <1>6. WholePoolBeforeBurned'
    BY <1>1, <1>3 DEF WholePoolBeforeBurned, TypeOK
  <1> QED BY <1>4, <1>5, <1>6 DEF PoolInv

THEOREM PoolInvariant == Spec => []PoolInv
  <1>1. PoolInv /\ [Next]_vars => PoolInv'
    <2> SUFFICES ASSUME PoolInv, [Next]_vars PROVE PoolInv'
      OBVIOUS
    <2>1. CASE Tick
      BY <2>1, TickPoolInv
    <2>2. ASSUME NEW b \in DOMAIN PacketPorts, Probe(b) PROVE PoolInv'
      BY <2>2, ProbePoolInv
    <2>3. CASE UNCHANGED vars
      BY <2>3 DEF vars, PoolInv, TypeOK, OrderIsPool, CoolingIsBurned, WholePoolBeforeBurned
    <2> QED BY <2>1, <2>2, <2>3 DEF Next
  <1> QED BY <1>1, InitPoolInv, PTL DEF Spec

-----------------------------------------------------------------------------
(* The theorems *)

\* The tables keep their types; no RST count survives at the threshold.
THEOREM PoolTypes == Spec => []TypeOK
  <1>1. PoolInv => TypeOK
    BY DEF PoolInv
  <1> QED BY <1>1, PoolInvariant, PTL

\* No burned port is returned to before the whole pool has been burned.
THEOREM FreshPortsFirst == Spec => []WholePoolBeforeBurned
  <1>1. PoolInv => WholePoolBeforeBurned
    BY DEF PoolInv
  <1> QED BY <1>1, PoolInvariant, PTL

\* Every rotation ends on a clean port unless the whole pool is cooling.
THEOREM RotationFindsClean == Spec => RotatesToClean
  <1>1. ASSUME PoolInv, PoolInv', [Next]_vars, current' # current
        PROVE  cool'[current'] = 0 \/ \A p \in PoolPorts : cool'[p] > 0
    <2>1. PICK b \in DOMAIN PacketPorts : \E n \in RstCounts : TrippingProbe(b, n)
      BY <1>1 DEF Next, Tick, Probe, QuietProbe, CountedProbe, vars
    <2>2. Rotate(cool')
      BY <2>1 DEF TrippingProbe
    <2>3. cool' \in [Ports -> Nat]
      BY <1>1, PoolFacts DEF PoolInv, TypeOK
    <2> QED BY <1>1, <2>2, <2>3, RotateResult DEF PoolInv
  <1>2. PoolInv /\ PoolInv' /\ [Next]_vars =>
           [current' # current =>
               cool'[current'] = 0 \/ \A p \in PoolPorts : cool'[p] > 0]_vars
    BY <1>1
  <1> QED BY <1>2, PoolInvariant, PTL DEF Spec, RotatesToClean
=============================================================================
