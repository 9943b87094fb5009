---------------------------- MODULE TraceProofs ----------------------------
(***************************************************************************)
(* Proofs about Trace for every number of destinations, packets, TTLs and   *)
(* repeats, every set of routers and every outcome of the probes.           *)
(***************************************************************************)
EXTENDS Trace, NaturalFacts, TLAPS

\* Where the loops stand, beyond their types.
LoopPosition ==
    /\ pc \in {"init", "classify"} => rep = 0 /\ ttl = 1
    /\ pc \in {"preflight", "row", "arm"} => rep > 0
    /\ pc = "preflight" => ttl = 1
    /\ pc = "row" => arm = <<1, 1>>

\* previous_node_ids says exactly which arms have reached their destination in
\* the current repeat, and a row is skipped only when all of them have.
NodesKnown ==
    pc \in {"preflight", "row", "arm"} =>
        /\ \A a \in Arms :
              Reached(a) <=>
                  \/ Dst(a) = SourceIp
                  \/ \E k \in 1..Filled(a) : hops[a][k][rep].from = Dst(a)
        /\ (pc = "arm" /\ skip) => ~Continue /\ AllReached

LoopInv ==
    /\ TypeOK
    /\ LoopPosition
    /\ RepeatsAligned
    /\ NodesKnown
    /\ StopsAtDestination
    /\ PaddingIsEarned

-----------------------------------------------------------------------------
(* Constants and operators *)

LEMMA ConstantTypes ==
    /\ Packets \in Nat /\ Packets >= 1
    /\ Len(Destinations) \in Nat /\ Len(Destinations) >= 1
    /\ MaxTtl \in Nat /\ MaxTtl >= 1
    /\ Repeats \in Nat /\ Repeats >= 1
    /\ MaxInterrupts \in Nat
    /\ SourceIp \in Addresses
    /\ "-" \notin Addresses \cup {Silence}
    /\ \A a \in Arms : Dst(a) \in Addresses
  <1>1. Destinations \in Seq(Addresses) /\ Len(Destinations) > 0
    BY AddressAssumption
  <1>2. Len(Destinations) \in Nat /\ Len(Destinations) >= 1
    BY <1>1
  <1>3. \A a \in Arms : Dst(a) \in Addresses
    BY DEF Arms, Blocks, Targets, Dst, Addresses
  <1>4. "-" \notin Addresses \cup {Silence}
    BY AddressAssumption DEF Silence
  <1> QED
    BY <1>2, <1>3, <1>4, PacketsAssumption, LoopAssumption, InterruptAssumption
    DEF Addresses

\* The order of the turns in a row: an arm that is not the last is followed by
\* an arm, and exactly the arms before it have had their turn.
LEMMA FollowingIsArm ==
    ASSUME arm \in Arms
    PROVE  /\ FollowingArm \in Arms
           /\ <<1, 1>> \in Arms
  BY ConstantTypes DEF FollowingArm, LastArm, Arms, Blocks, Targets

\* add_hop appends one result to one hop and touches no other.
LEMMA AddHopShape ==
    ASSUME NEW h \in Seq(Seq(Results)), NEW k \in Nat, k >= 1, k <= Len(h) + 1,
           NEW c \in Results
    PROVE  /\ AddHop(h, k, c) \in Seq(Seq(Results))
           /\ Len(AddHop(h, k, c)) = IF Len(h) < k THEN Len(h) + 1 ELSE Len(h)
           /\ \A j \in 1..Len(h) : j # k => AddHop(h, k, c)[j] = h[j]
           /\ AddHop(h, k, c)[k] = Append(IF k <= Len(h) THEN h[k] ELSE <<>>, c)
  <1> DEFINE grown == IF Len(h) < k THEN Append(h, <<>>) ELSE h
  <1>1. /\ grown \in Seq(Seq(Results))
        /\ Len(grown) = IF Len(h) < k THEN Len(h) + 1 ELSE Len(h)
        /\ \A j \in 1..Len(h) : grown[j] = h[j]
        /\ grown[k] = IF k <= Len(h) THEN h[k] ELSE <<>>
        /\ k \in 1..Len(grown)
    OBVIOUS
  <1>2. Append(grown[k], c) \in Seq(Results)
    <2>1. grown[k] \in Seq(Results)
      BY <1>1
    <2> QED BY <2>1
  <1>3. AddHop(h, k, c) = [grown EXCEPT ![k] = Append(grown[k], c)]
    BY DEF AddHop
  <1> HIDE DEF grown
  <1> QED BY <1>1, <1>2, <1>3

LEMMA DashIsResult == Dash \in Results
  BY DEF Dash, Results

LEMMA OutcomeIsResult ==
    ASSUME NEW a \in Arms, NEW c \in Outcomes(a)
    PROVE  /\ c \in Results
           /\ c.from \in Addresses \cup {Silence}
           /\ c.from # "-"
  <1>0. Routers \subseteq Addresses
    BY DEF Addresses
  <1>1. c \in Results /\ c.from \in Addresses \cup {Silence}
    BY <1>0, ConstantTypes, ReplyAssumption DEF Outcomes, Results
  <1> QED BY <1>1, ConstantTypes

LEMMA PostureTypes ==
    /\ BlankPosture \in Postures
    /\ PreTracePosture \in Postures
    /\ \A a \in Arms : PostTracePosture(a, hops[a]) \in Postures
  <1>1. ASSUME NEW s, NEW f \in BOOLEAN
        PROVE  Posture(s, f) \in Postures
    <2>1. /\ DpiCleared(s) \in BOOLEAN /\ CgnatHop(s) \in BOOLEAN
          /\ SniInspected(s) \in BOOLEAN /\ RstFlood(s) \in BOOLEAN
          /\ TcpSilentlyDropped(s) \in BOOLEAN
      BY DEF DpiCleared, CgnatHop, SniInspected, RstFlood, TcpSilentlyDropped
    <2> QED BY <2>1 DEF Posture, Postures, ClassifyDpiPath
  <1>2. BlankPosture \in Postures
    BY DEF BlankPosture, Postures
  <1>3. PreTracePosture \in Postures
    BY <1>1 DEF PreTracePosture
  <1>4. ASSUME NEW a \in Arms PROVE PostTracePosture(a, hops[a]) \in Postures
    BY <1>1 DEF PostTracePosture
  <1> QED BY <1>2, <1>3, <1>4

-----------------------------------------------------------------------------
(* One turn of the loops *)

\* A turn moves one arm on by one hop, whichever row or repeat comes next.
LEMMA FilledAfterTurn ==
    ASSUME LoopInv, pc = "arm", NEW result, EndTurn(result)
    PROVE  /\ Filled(arm) = ttl - 1
           /\ \A a \in Arms : Filled(a)' = IF a = arm THEN ttl ELSE Filled(a)
  <1>1. arm \in Arms /\ ttl \in 1..MaxTtl
    BY DEF LoopInv, TypeOK
  <1>2. PICK b \in Blocks, i \in Targets : arm = <<b, i>>
    BY <1>1 DEF Arms
  <1>3. /\ Blocks \subseteq Int /\ Targets \subseteq Int
        /\ \A x \in Blocks : 1 <= x /\ x <= Packets
        /\ \A x \in Targets : 1 <= x /\ x <= Len(Destinations)
    BY ConstantTypes DEF Blocks, Targets
  <1>4. Filled(arm) = ttl - 1
    BY <1>2, <1>3 DEF Filled, Taken
  <1>5. ASSUME NEW a \in Arms
        PROVE  Filled(a)' = IF a = arm THEN ttl ELSE Filled(a)
    <2>1. PICK c \in Blocks, j \in Targets : a = <<c, j>>
      BY DEF Arms
    <2>2. a = arm <=> c = b /\ j = i
      BY <2>1, <1>2
    <2>3. Taken(a) <=> c < b \/ (c = b /\ j < i)
      BY <2>1, <1>2 DEF Taken
    <2>4. CASE ~LastArm
      <3>1. pc' = "arm" /\ ttl' = ttl /\ arm' = FollowingArm
        BY <2>4 DEF EndTurn
      <3>2. arm' = IF i < Len(Destinations) THEN <<b, i + 1>> ELSE <<b + 1, 1>>
        BY <3>1, <2>4, <1>2 DEF FollowingArm
      <3>3. Taken(a)' <=> c < b \/ (c = b /\ j <= i)
        <4>1. CASE i < Len(Destinations)
          BY <4>1, <3>1, <3>2, <2>1, <1>3 DEF Taken
        <4>2. CASE ~(i < Len(Destinations))
          BY <4>2, <3>1, <3>2, <2>1, <1>3, ConstantTypes DEF Taken
        <4> QED BY <4>1, <4>2
      <3> QED
        BY <2>2, <2>3, <3>1, <3>3, <1>3 DEF Filled
    <2>5. CASE LastArm
      <3>1. b = Packets /\ i = Len(Destinations)
        BY <2>5, <1>2 DEF LastArm
      <3>2. a = arm \/ Taken(a)
        BY <3>1, <2>2, <2>3, <1>3, ConstantTypes
      <3>3. a = arm \/ Filled(a) = ttl
        BY <3>2 DEF Filled, Taken
      <3>4. CASE ttl < MaxTtl
        <4>1. pc' = "row" /\ ttl' = ttl + 1
          BY <2>5, <3>4 DEF EndTurn
        <4> QED BY <4>1, <3>3, <1>1, ConstantTypes DEF Filled, Taken
      <3>5. CASE ~(ttl < MaxTtl)
        <4>1. pc' = "repeat" /\ ttl = MaxTtl
          BY <2>5, <3>5, <1>1, ConstantTypes DEF EndTurn
        <4> QED BY <4>1, <3>3 DEF Filled
      <3> QED BY <3>4, <3>5
    <2> QED BY <2>4, <2>5
  <1> QED BY <1>4, <1>5

\* What a turn finds of the current repeat in its arm's hops: a result in every
\* hop before this TTL, none from here on.
LEMMA BeforeTurn ==
    ASSUME LoopInv, pc = "arm", NEW result, EndTurn(result)
    PROVE  /\ arm \in Arms /\ ttl \in 1..MaxTtl /\ rep \in Nat /\ rep >= 1
           /\ Len(hops[arm]) = IF rep = 1 THEN ttl - 1 ELSE MaxTtl
           /\ \A k \in 1..Len(hops[arm]) :
                 Len(hops[arm][k]) = IF k <= ttl - 1 THEN rep ELSE rep - 1
  <1>1. arm \in Arms /\ ttl \in 1..MaxTtl /\ rep \in Nat /\ rep >= 1
    BY ConstantTypes DEF LoopInv, TypeOK, LoopPosition
  <1>2. Filled(arm) = ttl - 1
    BY FilledAfterTurn
  <1>3. RepeatsAligned
    BY DEF LoopInv
  <1>4. /\ Len(hops[arm]) = (IF rep = 1 THEN Filled(arm) ELSE MaxTtl)
        /\ \A k \in Indices(hops[arm]) :
              Len(hops[arm][k]) = (IF k <= Filled(arm) THEN rep ELSE rep - 1)
    BY <1>1, <1>3 DEF RepeatsAligned, Looping
  <1> QED BY <1>1, <1>2, <1>4 DEF Indices

\* What a turn does to the collected hops: the arm's hop at this TTL gains the
\* result at the position of the current repeat, and nothing else changes.
LEMMA TurnAddsResult ==
    ASSUME LoopInv, pc = "arm", NEW result \in Results, EndTurn(result)
    PROVE  /\ hops' \in [Arms -> Seq(Seq(Results))]
           /\ rep' = rep /\ rep \in Nat /\ rep >= 1
           /\ \A a \in Arms : a # arm => hops'[a] = hops[a]
           /\ ttl <= Len(hops'[arm])
           /\ Len(hops'[arm]) = IF rep = 1 THEN ttl ELSE MaxTtl
           /\ Len(hops[arm]) = IF rep = 1 THEN ttl - 1 ELSE MaxTtl
           /\ \A k \in 1..Len(hops[arm]) : k # ttl => hops'[arm][k] = hops[arm][k]
           /\ Len(hops'[arm][ttl]) = rep
           /\ hops'[arm][ttl][rep] = result
           /\ \A r \in 1..(rep - 1) :
                 /\ ttl <= Len(hops[arm]) /\ r \in 1..Len(hops[arm][ttl])
                 /\ hops'[arm][ttl][r] = hops[arm][ttl][r]
  <1>1. /\ arm \in Arms /\ ttl \in 1..MaxTtl
        /\ hops \in [Arms -> Seq(Seq(Results))]
        /\ rep \in Nat /\ rep >= 1
    BY BeforeTurn DEF LoopInv, TypeOK
  <1>3. /\ Len(hops[arm]) = IF rep = 1 THEN ttl - 1 ELSE MaxTtl
        /\ \A k \in 1..Len(hops[arm]) :
              Len(hops[arm][k]) = IF k <= ttl - 1 THEN rep ELSE rep - 1
    BY BeforeTurn
  <1> DEFINE h == hops[arm]
             g == AddHop(h, ttl, result)
             old == IF ttl <= Len(h) THEN h[ttl] ELSE <<>>
  <1>4. /\ h \in Seq(Seq(Results)) /\ ttl \in Nat /\ ttl >= 1 /\ ttl <= Len(h) + 1
    BY <1>1, <1>3, ConstantTypes
  <1>5. /\ g \in Seq(Seq(Results))
        /\ Len(g) = IF Len(h) < ttl THEN Len(h) + 1 ELSE Len(h)
        /\ \A j \in 1..Len(h) : j # ttl => g[j] = h[j]
        /\ g[ttl] = Append(old, result)
    <2> HIDE DEF h
    <2> QED BY <1>4, AddHopShape
  <1>6. hops' = [hops EXCEPT ![arm] = g]
    BY DEF EndTurn
  <1>7. hops'[arm] = g /\ \A a \in Arms : a # arm => hops'[a] = hops[a]
    BY <1>6, <1>1
  <1>8. old \in Seq(Results) /\ Len(old) = rep - 1
    <2>1. CASE ttl <= Len(h)
      <3>1. old = h[ttl] /\ ttl \in 1..Len(h)
        BY <2>1, <1>4
      <3>2. h[ttl] \in Seq(Results)
        BY <3>1, <1>4
      <3>3. Len(h[ttl]) = rep - 1
        BY <3>1, <1>3, <1>4, <1>1
      <3> QED BY <3>1, <3>2, <3>3
    <2>2. CASE ~(ttl <= Len(h))
      <3>1. rep = 1
        BY <2>2, <1>3, <1>1, ConstantTypes
      <3>2. old = <<>>
        BY <2>2
      <3> HIDE DEF old
      <3> QED BY <3>1, <3>2
    <2> QED BY <2>1, <2>2
  <1>9. /\ Len(g[ttl]) = rep /\ g[ttl][rep] = result
        /\ \A r \in 1..(rep - 1) : g[ttl][r] = old[r]
    <2> HIDE DEF g, old
    <2> QED BY <1>5, <1>8, <1>1
  <1>10. Len(g) = (IF rep = 1 THEN ttl ELSE MaxTtl) /\ ttl <= Len(g)
    BY <1>5, <1>3, <1>1, ConstantTypes
  <1>11. ASSUME NEW r \in 1..(rep - 1)
         PROVE  ttl <= Len(h) /\ old = h[ttl] /\ r \in 1..Len(old)
    BY <1>3, <1>8, <1>1, ConstantTypes
  <1>12. rep' = rep
    BY DEF EndTurn
  <1>13. hops' \in [Arms -> Seq(Seq(Results))]
    BY <1>5, <1>6, <1>1
  <1> HIDE DEF g, old
  <1> QED BY <1>1, <1>3, <1>5, <1>7, <1>9, <1>10, <1>11, <1>12, <1>13

LEMMA TurnKeepsShape ==
    ASSUME LoopInv, pc = "arm", NEW result \in Results, EndTurn(result),
           success' \in BOOLEAN, prev' \in [Arms -> Addresses \cup {Silence}]
    PROVE  TypeOK' /\ LoopPosition' /\ RepeatsAligned'
  <1>1. TypeOK /\ RepeatsAligned /\ LoopPosition
    BY DEF LoopInv
  <1>2. arm \in Arms /\ ttl \in 1..MaxTtl /\ rep \in 0..Repeats
    BY <1>1 DEF TypeOK
  <1>3. TypeOK'
    <2>1. hops' \in [Arms -> Seq(Seq(Results))]
      BY TurnAddsResult
    <2>2. arm' \in Arms /\ ttl' \in 1..MaxTtl
      BY <1>2, FollowingIsArm, ConstantTypes DEF EndTurn
    <2>3. pc' \in Running
      BY DEF EndTurn, Running
    <2> QED
      BY <1>1, <2>1, <2>2, <2>3 DEF TypeOK, EndTurn, Postures
  <1>4. LoopPosition'
    <2>1. pc' \in {"arm", "row", "repeat"} /\ rep' = rep
      BY DEF EndTurn
    <2>2. rep > 0
      BY <1>1 DEF LoopPosition
    <2>3. pc' = "row" => arm' = <<1, 1>>
      BY DEF EndTurn, FollowingArm
    <2> QED BY <2>1, <2>2, <2>3 DEF LoopPosition
  <1>5. RepeatsAligned'
    <2> SUFFICES ASSUME NEW a \in Arms
        PROVE /\ Len(hops'[a]) = (IF rep' = 1 THEN Filled(a)' ELSE MaxTtl)
              /\ \A k \in 1..Len(hops'[a]) :
                    Len(hops'[a][k]) = (IF k <= Filled(a)' THEN rep' ELSE rep' - 1)
      <3>1. rep' # 0
        BY TurnAddsResult
      <3> QED BY <3>1, Zenon DEF RepeatsAligned, Indices
    <2>1. rep' = rep /\ rep \in Nat /\ rep > 0
      BY TurnAddsResult
    <2>2. /\ Len(hops[a]) = (IF rep = 1 THEN Filled(a) ELSE MaxTtl)
          /\ \A k \in 1..Len(hops[a]) :
                Len(hops[a][k]) = (IF k <= Filled(a) THEN rep ELSE rep - 1)
      BY <1>1, <2>1 DEF RepeatsAligned, Looping, Indices
    <2>3. CASE a # arm
      <3>1. hops'[a] = hops[a] /\ Filled(a)' = Filled(a)
        BY <2>3, TurnAddsResult, FilledAfterTurn
      <3> QED BY <3>1, <2>1, <2>2
    <2>4. CASE a = arm
      <3>1. Filled(a)' = ttl /\ Filled(a) = ttl - 1
        BY <2>4, FilledAfterTurn
      <3>2. Len(hops'[arm]) = IF rep = 1 THEN ttl ELSE MaxTtl
        BY TurnAddsResult
      <3>3. ASSUME NEW k \in 1..Len(hops'[arm])
            PROVE Len(hops'[arm][k]) = (IF k <= ttl THEN rep ELSE rep - 1)
        <4>1. CASE k = ttl
          BY <4>1, TurnAddsResult, <1>2
        <4>2. CASE k # ttl
          <5>1. k \in 1..Len(hops[arm])
            BY <4>2, <3>2, TurnAddsResult, <1>2, ConstantTypes
          <5>2. hops'[arm][k] = hops[arm][k]
            BY <5>1, <4>2, TurnAddsResult
          <5>3. Len(hops[arm][k]) = IF k <= ttl - 1 THEN rep ELSE rep - 1
            BY <5>1, <2>2, <2>4, <3>1
          <5>4. k <= ttl <=> k <= ttl - 1
            BY <4>2, <1>2, <5>1
          <5> QED BY <5>2, <5>3, <5>4
        <4> QED BY <4>1, <4>2
      <3> QED BY <2>4, <3>1, <3>2, <3>3, <2>1
    <2> QED BY <2>3, <2>4
  <1> QED BY <1>3, <1>4, <1>5

\* A turn that pads only where the destination has been reached, probes only
\* where it may, and records a destination's answer in previous_node_ids.
LEMMA TurnKeepsPaths ==
    ASSUME LoopInv, pc = "arm", NEW result \in Results, EndTurn(result),
           result.from = "-" => Reached(arm),
           result.from # "-" => Continue \/ ~Reached(arm),
           \A a \in Arms : Reached(a)' <=> Reached(a) \/ (a = arm /\ result.from = Dst(a))
    PROVE  NodesKnown' /\ StopsAtDestination' /\ PaddingIsEarned'
  <1>1. arm \in Arms /\ ttl \in 1..MaxTtl /\ rep \in Nat /\ rep >= 1 /\ rep' = rep
    BY TurnAddsResult DEF LoopInv, TypeOK
  <1>2. /\ \A a \in Arms : Reached(a) <=>
              \/ Dst(a) = SourceIp
              \/ \E k \in 1..Filled(a) : hops[a][k][rep].from = Dst(a)
        /\ skip => ~Continue /\ AllReached
    BY DEF LoopInv, NodesKnown
  <1>3. /\ Filled(arm) = ttl - 1
        /\ \A a \in Arms : Filled(a)' = IF a = arm THEN ttl ELSE Filled(a)
    BY FilledAfterTurn
  <1>4. ASSUME NEW k \in 1..Len(hops'[arm]), k # ttl
        PROVE  /\ k \in 1..Len(hops[arm])
               /\ hops'[arm][k] = hops[arm][k]
               /\ Len(hops[arm][k]) = IF k < ttl THEN rep ELSE rep - 1
    <2>0. /\ Len(hops'[arm]) = IF rep = 1 THEN ttl ELSE MaxTtl
          /\ Len(hops[arm]) = IF rep = 1 THEN ttl - 1 ELSE MaxTtl
      BY TurnAddsResult
    <2>1. k \in 1..Len(hops[arm])
      BY <1>4, <1>1, <2>0, ConstantTypes
    <2>2. hops'[arm][k] = hops[arm][k]
      BY <2>1, <1>4, TurnAddsResult
    <2>3. Len(hops[arm][k]) = (IF k <= Filled(arm) THEN rep ELSE rep - 1)
      <3>1. \A n \in Indices(hops[arm]) :
               Len(hops[arm][n]) = (IF n <= Filled(arm) THEN rep ELSE rep - 1)
        BY <1>1 DEF LoopInv, RepeatsAligned, Looping
      <3> QED BY <3>1, <2>1 DEF Indices
    <2> QED BY <2>1, <2>2, <2>3, <1>3, <1>1
  <1>5. \A r \in 1..(rep - 1) : /\ ttl \in 1..Len(hops[arm])
                                /\ r \in 1..Len(hops[arm][ttl])
                                /\ hops'[arm][ttl][r] = hops[arm][ttl][r]
    BY TurnAddsResult, <1>1
  <1>6. hops'[arm][ttl][rep] = result /\ Len(hops'[arm][ttl]) = rep /\ ttl <= Len(hops'[arm])
    BY TurnAddsResult
  <1>7. \A a \in Arms : a # arm => hops'[a] = hops[a]
    BY TurnAddsResult
  <1>8. \A k \in 1..(ttl - 1) : k \in 1..Len(hops'[arm])
    BY <1>6, <1>1, TurnAddsResult
  <1>9. NodesKnown'
    <2>1. ASSUME NEW a \in Arms
          PROVE  Reached(a)' <=>
                    \/ Dst(a) = SourceIp
                    \/ \E k \in 1..Filled(a)' : hops'[a][k][rep].from = Dst(a)
      <3>1. CASE a # arm
        BY <3>1, <1>2, <1>3, <1>7
      <3>2. CASE a = arm
        <4>1. (\E k \in 1..ttl : hops'[arm][k][rep].from = Dst(arm)) <=>
                 \/ \E k \in 1..(ttl - 1) : hops[arm][k][rep].from = Dst(arm)
                 \/ result.from = Dst(arm)
          <5>1. \A k \in 1..(ttl - 1) : hops'[arm][k] = hops[arm][k]
            BY <1>4, <1>8, <1>1
          <5>2. 1..ttl = 1..(ttl - 1) \cup {ttl}
            BY <1>1
          <5>3. hops'[arm][ttl][rep].from = result.from
            BY <1>6
          <5> HIDE DEF Dst
          <5> QED BY <5>1, <5>2, <5>3
        <4> QED BY <4>1, <3>2, <1>2, <1>3, <1>1
      <3> QED BY <3>1, <3>2
    <2>2. skip' => ~Continue /\ AllReached'
      <3>1. skip' = skip
        BY DEF EndTurn
      <3> QED BY <3>1, <1>2 DEF AllReached
    <2>3. \A a \in Arms : Dst(a)' = Dst(a)
      BY DEF Dst
    <2> QED BY <2>1, <2>2, <1>1 DEF NodesKnown
  <1>10. StopsAtDestination'
    <2> SUFFICES ASSUME ~Continue, NEW a \in Arms, NEW j \in 1..Len(hops'[a]),
                        NEW k \in 1..Len(hops'[a]), NEW r \in 1..Len(hops'[a][k]),
                        j < k, r \in 1..Len(hops'[a][j]),
                        hops'[a][j][r].from = Dst(a)
                 PROVE  hops'[a][k][r].from = "-"
      BY DEF StopsAtDestination, Indices
    <2>1. \A x \in Arms : \A m \in 1..Len(hops[x]) : \A n \in 1..Len(hops[x]) :
             \A q \in 1..Len(hops[x][n]) :
                 (m < n /\ q \in 1..Len(hops[x][m]) /\ hops[x][m][q].from = Dst(x))
                   => hops[x][n][q].from = "-"
      BY DEF LoopInv, StopsAtDestination, Indices
    <2>2. CASE a # arm
      <3>1. hops'[a] = hops[a]
        BY <2>2, <1>7
      <3>2. j \in 1..Len(hops[a]) /\ k \in 1..Len(hops[a])
        BY <3>1
      <3>3. r \in 1..Len(hops[a][k]) /\ r \in 1..Len(hops[a][j])
        BY <3>1
      <3>4. hops[a][j][r].from = Dst(a)
        BY <3>1
      <3>5. hops[a][k][r].from = "-"
        BY <3>2, <3>3, <3>4, <2>1
      <3> QED BY <3>1, <3>5
    <2>3. CASE a = arm /\ k # ttl
      <3>1. /\ k \in 1..Len(hops[arm]) /\ hops'[arm][k] = hops[arm][k]
            /\ Len(hops[arm][k]) = IF k < ttl THEN rep ELSE rep - 1
        BY <2>3, <1>4
      <3>2. CASE j # ttl
        <4>1. j \in 1..Len(hops[arm]) /\ hops'[arm][j] = hops[arm][j]
          BY <3>2, <2>3, <1>4
        <4>2. /\ r \in 1..Len(hops[arm][k]) /\ r \in 1..Len(hops[arm][j])
              /\ hops[arm][j][r].from = Dst(arm)
          BY <4>1, <3>1, <2>3
        <4>3. hops[arm][k][r].from = "-"
          BY <4>1, <4>2, <3>1, <2>1, <1>1
        <4> QED BY <4>3, <3>1, <2>3
      <3>3. CASE j = ttl
        <4>1. r \in 1..(rep - 1)
          BY <3>3, <3>1, <2>3, <1>1
        <4>2. /\ j \in 1..Len(hops[arm]) /\ r \in 1..Len(hops[arm][j])
              /\ hops'[arm][j][r] = hops[arm][j][r]
          BY <4>1, <3>3, <1>5
        <4>3. r \in 1..Len(hops[arm][k]) /\ hops[arm][j][r].from = Dst(arm)
          BY <4>2, <3>1, <2>3
        <4>4. hops[arm][k][r].from = "-"
          BY <4>2, <4>3, <3>1, <2>1, <1>1
        <4> QED BY <4>4, <3>1, <2>3
      <3> QED BY <3>2, <3>3
    <2>4. CASE a = arm /\ k = ttl
      <3>1. /\ j \in 1..Len(hops[arm]) /\ hops'[arm][j] = hops[arm][j]
            /\ j \in 1..(ttl - 1)
        BY <2>4, <1>4, <1>1
      <3>2. CASE r = rep
        <4>1. Reached(arm)
          BY <3>1, <3>2, <2>4, <1>1, <1>2, <1>3
        <4> QED BY <4>1, <3>2, <2>4, <1>6
      <3>3. CASE r # rep
        <4>1. r \in 1..(rep - 1)
          BY <3>3, <2>4, <1>6, <1>1
        <4>2. /\ k \in 1..Len(hops[arm]) /\ r \in 1..Len(hops[arm][k])
              /\ hops'[arm][k][r] = hops[arm][k][r]
          BY <4>1, <2>4, <1>5
        <4>3. r \in 1..Len(hops[arm][j]) /\ hops[arm][j][r].from = Dst(arm)
          BY <3>1, <2>4
        <4>4. hops[arm][k][r].from = "-"
          BY <4>2, <4>3, <3>1, <2>1, <1>1
        <4> QED BY <4>2, <4>4, <2>4
      <3> QED BY <3>2, <3>3
    <2> QED BY <2>2, <2>3, <2>4
  <1>11. PaddingIsEarned'
    <2> SUFFICES ASSUME NEW a \in Arms, NEW k \in 1..Len(hops'[a]),
                        NEW r \in 1..Len(hops'[a][k]), hops'[a][k][r].from = "-",
                        Dst(a) # SourceIp
                 PROVE  \E j \in 1..(k - 1) : hops'[a][j][r].from = Dst(a)
      BY DEF PaddingIsEarned, Indices
    <2>0. PaddingIsEarned
      BY DEF LoopInv
    <2>1. \A x \in Arms : \A n \in 1..Len(hops[x]) : \A q \in 1..Len(hops[x][n]) :
             hops[x][n][q].from = "-" =>
                \/ Dst(x) = SourceIp
                \/ \E m \in 1..(n - 1) : hops[x][m][q].from = Dst(x)
      BY <2>0 DEF PaddingIsEarned, Indices
    <2>2. CASE a # arm
      <3>1. hops'[a] = hops[a]
        BY <2>2, <1>7
      <3>2. k \in 1..Len(hops[a]) /\ r \in 1..Len(hops[a][k]) /\ hops[a][k][r].from = "-"
        BY <3>1
      <3>3. \E m \in 1..(k - 1) : hops[a][m][r].from = Dst(a)
        BY <2>1, <3>2
      <3> QED BY <3>1, <3>3
    <2>3. CASE a = arm /\ (k # ttl \/ r # rep)
      <3>1. /\ k \in 1..Len(hops[arm]) /\ r \in 1..Len(hops[arm][k])
            /\ hops'[arm][k][r] = hops[arm][k][r]
            /\ k > ttl => r \in 1..(rep - 1)
        <4>1. CASE k # ttl
          BY <4>1, <2>3, <1>4, <1>1
        <4>2. CASE k = ttl
          <5>1. r \in 1..(rep - 1)
            BY <4>2, <2>3, <1>6, <1>1
          <5> QED BY <5>1, <4>2, <1>5, <1>1
        <4> QED BY <4>1, <4>2
      <3>2. PICK j \in 1..(k - 1) : hops[arm][j][r].from = Dst(arm)
        BY <3>1, <2>1, <2>3
      <3>3. hops'[arm][j][r] = hops[arm][j][r]
        <4>1. j \in 1..Len(hops'[arm])
          BY <2>3
        <4>2. CASE j # ttl
          BY <4>1, <4>2, <1>4
        <4>3. CASE j = ttl
          BY <4>3, <3>1, <1>5, <1>1
        <4> QED BY <4>2, <4>3
      <3> QED BY <3>2, <3>3, <2>3
    <2>4. CASE a = arm /\ k = ttl /\ r = rep
      <3>1. Reached(arm)
        BY <2>4, <1>6
      <3>2. PICK j \in 1..(ttl - 1) : hops[arm][j][rep].from = Dst(arm)
        BY <3>1, <1>1, <1>2, <1>3, <2>4
      <3>3. hops'[arm][j] = hops[arm][j]
        BY <1>8, <1>4, <1>1
      <3> QED BY <3>2, <3>3, <2>4
    <2> QED BY <2>2, <2>3, <2>4
  <1> QED BY <1>9, <1>10, <1>11

-----------------------------------------------------------------------------
(* The invariant *)

LEMMA InitLoopInv == Init => LoopInv
  <1> SUFFICES ASSUME Init PROVE LoopInv
    OBVIOUS
  <1> USE DEF Init
  <1>1. TypeOK
    <2>1. <<1, 1>> \in Arms
      BY ConstantTypes DEF Arms, Blocks, Targets
    <2>2. posture \in [Arms -> Postures]
      BY PostureTypes
    <2>3. hops \in [Arms -> Seq(Seq(Results))]
      OBVIOUS
    <2>4. prev \in [Arms -> Addresses \cup {Silence}]
      BY ConstantTypes
    <2>5. /\ made \in [Blocks -> 0..Len(Destinations)]
          /\ noted \in [Arms -> BOOLEAN]
          /\ rep \in 0..Repeats /\ ttl \in 1..MaxTtl /\ interrupts \in 0..MaxInterrupts
      BY ConstantTypes
    <2>6. /\ pc \in Running /\ arm \in Arms
          /\ skip \in BOOLEAN /\ success \in BOOLEAN /\ context \in BOOLEAN
      BY <2>1 DEF Running
    <2> QED BY <2>2, <2>3, <2>4, <2>5, <2>6 DEF TypeOK
  <1>2. LoopPosition /\ NodesKnown
    BY DEF LoopPosition, NodesKnown
  <1>3. RepeatsAligned
    BY DEF RepeatsAligned, Indices
  <1>4. StopsAtDestination /\ PaddingIsEarned
    BY DEF StopsAtDestination, PaddingIsEarned, Indices
  <1> QED BY <1>1, <1>2, <1>3, <1>4 DEF LoopInv

\* The three kinds of turn.
LEMMA TurnLoopInv ==
    ASSUME LoopInv, SkipTurn \/ ReachedTurn \/ ProbeTurn
    PROVE  LoopInv'
  <1> DEFINE Keeps == TypeOK' /\ LoopPosition' /\ RepeatsAligned'
             Walks == NodesKnown' /\ StopsAtDestination' /\ PaddingIsEarned'
  <1>1. /\ TypeOK /\ NodesKnown /\ pc = "arm" /\ arm \in Arms
        /\ prev \in [Arms -> Addresses \cup {Silence}]
        /\ success \in BOOLEAN
    BY DEF LoopInv, TypeOK, SkipTurn, ReachedTurn, ProbeTurn
  <1>2. Dash \in Results /\ Dash.from = "-"
    BY DashIsResult DEF Dash
  <1>3. CASE SkipTurn \/ ReachedTurn
    <2>1. EndTurn(Dash) /\ prev' = prev /\ success' \in BOOLEAN
      BY <1>3, <1>1 DEF SkipTurn, ReachedTurn
    <2>2. Reached(arm)
      BY <1>3, <1>1 DEF SkipTurn, ReachedTurn, NodesKnown, AllReached
    <2>3. Keeps
      BY <2>1, <1>1, <1>2, TurnKeepsShape
    <2>4. \A a \in Arms : Reached(a)' <=> Reached(a)
      BY <2>1 DEF Reached, Dst
    <2>5. Dst(arm) # "-"
      BY <1>1, ConstantTypes
    <2>6. \A a \in Arms : Reached(a)' <=> Reached(a) \/ (a = arm /\ Dash.from = Dst(a))
      BY <2>4, <2>5, <1>2
    <2>7. Walks
      BY <2>1, <2>2, <2>6, <1>1, <1>2, TurnKeepsPaths
    <2> QED BY <2>3, <2>7 DEF LoopInv
  <1>4. CASE ProbeTurn
    <2>1. PICK result \in Outcomes(arm) :
             /\ EndTurn(result)
             /\ prev' = IF Reached(arm) THEN prev ELSE [prev EXCEPT ![arm] = result.from]
      BY <1>4 DEF ProbeTurn
    <2>2. success' = TRUE /\ (Continue \/ ~Reached(arm))
      BY <1>4 DEF ProbeTurn
    <2>3. /\ result \in Results /\ result.from # "-"
          /\ result.from \in Addresses \cup {Silence}
      BY <1>1, OutcomeIsResult
    <2>4. prev' \in [Arms -> Addresses \cup {Silence}]
      BY <2>1, <2>3, <1>1
    <2>5. Keeps
      BY <2>1, <2>2, <2>3, <2>4, <1>1, TurnKeepsShape
    <2>6. \A a \in Arms : Reached(a)' <=> Reached(a) \/ (a = arm /\ result.from = Dst(a))
      BY <2>1, <1>1 DEF Reached, Dst
    <2>7. Walks
      BY <2>1, <2>2, <2>3, <2>6, <1>1, TurnKeepsPaths
    <2> QED BY <2>5, <2>7 DEF LoopInv
  <1> QED BY <1>3, <1>4

\* A step that collects nothing leaves what holds of the collected hops alone.
LEMMA HopsKept ==
    ASSUME StopsAtDestination, PaddingIsEarned, hops' = hops
    PROVE  StopsAtDestination' /\ PaddingIsEarned'
  BY DEF StopsAtDestination, PaddingIsEarned, Indices, Dst

LEMMA StepType ==
    ASSUME TypeOK, Next, ~(SkipTurn \/ ReachedTurn \/ ProbeTurn)
    PROVE  TypeOK' /\ hops' = hops
  <1> USE DEF entries, loop
  <1> USE DEF Running, Handling, Stopped
  <1>1. CASE AppendEntry
    <2>1. NextBlock \in Blocks /\ made[NextBlock] \in Nat
          /\ made[NextBlock] < Len(Destinations)
      BY <1>1, ConstantTypes, PacketsAssumption DEF AppendEntry, NextBlock, TypeOK, Blocks
    <2>2. made' \in [Blocks -> 0..Len(Destinations)]
      BY <1>1, <2>1, ConstantTypes DEF AppendEntry, TypeOK
    <2> QED BY <1>1, <2>2 DEF AppendEntry, TypeOK, Postures
  <1>2. CASE ClassifyBeforeTrace
    <2>1. posture' \in [Arms -> Postures]
      BY <1>2, PostureTypes DEF ClassifyBeforeTrace
    <2> QED BY <1>2, <2>1 DEF ClassifyBeforeTrace, TypeOK
  <1>3. CASE StartRepeat
    <2>1. <<1, 1>> \in Arms
      BY ConstantTypes DEF Arms, Blocks, Targets
    <2>2. prev' \in [Arms -> Addresses \cup {Silence}]
      BY <1>3, ConstantTypes DEF StartRepeat
    <2>3. rep' \in 0..Repeats /\ ttl' \in 1..MaxTtl
      BY <1>3, ConstantTypes DEF StartRepeat, TypeOK
    <2> QED BY <1>3, <2>1, <2>2, <2>3 DEF StartRepeat, TypeOK, Postures
  <1>4. CASE Preflight
    <2>1. noted' \in [Arms -> BOOLEAN]
      BY <1>4 DEF Preflight, TypeOK
    <2>2. arm' \in Arms
      BY <1>4, FollowingIsArm DEF Preflight, TypeOK
    <2> QED BY <1>4, <2>1, <2>2 DEF Preflight, TypeOK, Postures
  <1>5. CASE StartRow
    BY <1>5 DEF StartRow, TypeOK, Postures
  <1>6. CASE EndTrace \/ ReturnPath \/ Render \/ ProbeError
    BY <1>6 DEF EndTrace, ReturnPath, Render, ProbeError, TypeOK, Postures
  <1>7. CASE Finalise \/ SavePartialMeasurement
    <2>1. posture' \in [Arms -> Postures]
      BY <1>7, PostureTypes
      DEF Finalise, SavePartialMeasurement, FinaliseMeasurements, TypeOK
    <2> QED BY <1>7, <2>1 DEF Finalise, SavePartialMeasurement, TypeOK
  <1>8. CASE OpenMeasurement \/ WriteMeasurement \/ OpenPartial \/ WritePartial
    BY <1>8 DEF OpenMeasurement, WriteMeasurement, OpenPartial, WritePartial,
                OpenFile, WriteFile, TypeOK, Postures
  <1>9. CASE Interrupt \/ InterruptHandler
    <2>1. interrupts' \in 0..MaxInterrupts
      <3>1. interrupts < MaxInterrupts /\ interrupts' = interrupts + 1
        BY <1>9 DEF Interrupt, InterruptHandler
      <3>2. interrupts \in 0..MaxInterrupts
        BY DEF TypeOK
      <3> QED BY <3>1, <3>2, ConstantTypes
    <2> QED BY <1>9, <2>1 DEF Interrupt, InterruptHandler, TypeOK, Postures
  <1> QED
    BY <1>1, <1>2, <1>3, <1>4, <1>5, <1>6, <1>7, <1>8, <1>9 DEF Next, Progress

\* Steps that leave the loops, or happen outside them.
LEMMA OutsideLoop ==
    ASSUME LoopInv, TypeOK', hops' = hops, pc' \notin Looping
    PROVE  LoopInv'
  <1>1. StopsAtDestination' /\ PaddingIsEarned'
    BY HopsKept DEF LoopInv
  <1>2. LoopPosition' /\ NodesKnown' /\ RepeatsAligned'
    BY DEF LoopPosition, NodesKnown, RepeatsAligned, Looping
  <1> QED BY <1>1, <1>2 DEF LoopInv

LEMMA PrepareLoopInv ==
    ASSUME LoopInv, TypeOK', AppendEntry \/ ClassifyBeforeTrace
    PROVE  LoopInv'
  <1>1. /\ hops' = hops /\ rep' = rep /\ ttl' = ttl /\ rep = 0 /\ ttl = 1
        /\ pc' \in {"init", "classify", "repeat"}
    BY DEF AppendEntry, ClassifyBeforeTrace, LoopInv, LoopPosition, loop, entries
  <1>2. pc' = "repeat" \/ pc' \in {"init", "classify"}
    BY <1>1
  <1>3. \A a \in Arms : hops[a] = <<>>
    <2>1. pc \in Looping
      BY DEF AppendEntry, ClassifyBeforeTrace, Looping
    <2> QED BY <1>1, <2>1 DEF LoopInv, RepeatsAligned
  <1>4. RepeatsAligned'
    BY <1>1, <1>3 DEF RepeatsAligned
  <1>5. LoopPosition' /\ NodesKnown'
    BY <1>1, <1>2 DEF LoopPosition, NodesKnown
  <1>6. StopsAtDestination' /\ PaddingIsEarned'
    BY <1>1, HopsKept DEF LoopInv
  <1> QED BY <1>4, <1>5, <1>6 DEF LoopInv

LEMMA StartRepeatLoopInv ==
    ASSUME LoopInv, TypeOK', StartRepeat
    PROVE  LoopInv'
  <1>1. /\ pc = "repeat" /\ rep' = rep + 1 /\ ttl' = 1 /\ arm' = <<1, 1>>
        /\ hops' = hops /\ prev' = [a \in Arms |-> SourceIp]
        /\ pc' \in {"preflight", "row"}
    BY DEF StartRepeat, entries
  <1>2. rep \in Nat
    BY ConstantTypes DEF LoopInv, TypeOK
  <1>3. \A a \in Arms : Filled(a) = MaxTtl
    BY <1>1 DEF Filled
  <1>4. \A a \in Arms : Filled(a)' = 0
    BY <1>1 DEF Filled, Taken
  <1>5. ASSUME NEW a \in Arms
        PROVE  /\ Len(hops[a]) = (IF rep + 1 = 1 THEN 0 ELSE MaxTtl)
               /\ \A k \in Indices(hops[a]) : Len(hops[a][k]) = rep
    <2>1. /\ rep = 0 => hops[a] = <<>>
          /\ rep > 0 => Len(hops[a]) = (IF rep = 1 THEN Filled(a) ELSE MaxTtl)
          /\ rep > 0 => \A k \in Indices(hops[a]) :
                Len(hops[a][k]) = (IF k <= Filled(a) THEN rep ELSE rep - 1)
      BY <1>1 DEF LoopInv, RepeatsAligned, Looping
    <2>2. CASE rep = 0
      BY <2>1, <2>2 DEF Indices
    <2>3. CASE rep # 0
      <3>1. rep > 0 /\ Len(hops[a]) = MaxTtl
        BY <2>1, <2>3, <1>2, <1>3
      <3>2. \A k \in Indices(hops[a]) : k <= Filled(a)
        BY <3>1, <1>3, ConstantTypes DEF Indices
      <3> QED BY <3>1, <3>2, <2>1, <1>2
    <2> QED BY <2>2, <2>3
  <1>6. RepeatsAligned'
    <2>1. ASSUME NEW a \in Arms
          PROVE  /\ rep' = 0 => hops'[a] = <<>>
                 /\ rep' > 0 => Len(hops'[a]) = (IF rep' = 1 THEN 0 ELSE MaxTtl)
                 /\ rep' > 0 => \A k \in 1..Len(hops'[a]) :
                       Len(hops'[a][k]) = (IF k <= 0 THEN rep' ELSE rep' - 1)
      <3>1. \A k \in 1..Len(hops[a]) : ~(k <= 0) /\ Len(hops[a][k]) = rep
        <4>1. \A k \in Indices(hops[a]) : Len(hops[a][k]) = rep
          BY <1>5
        <4> QED BY <4>1 DEF Indices
      <3>2. Len(hops[a]) = (IF rep + 1 = 1 THEN 0 ELSE MaxTtl)
        BY <1>5
      <3>3. rep' = rep + 1 /\ rep' # 0 /\ rep' - 1 = rep /\ hops' = hops
        BY <1>1, <1>2
      <3> QED BY <3>1, <3>2, <3>3
    <2> QED BY <2>1, <1>4, Zenon DEF RepeatsAligned, Indices
  <1>7. NodesKnown'
    <2>1. \A a \in Arms : Reached(a)' <=> Dst(a) = SourceIp
      BY <1>1 DEF Reached, Dst
    <2>2. \A a \in Arms : 1..Filled(a)' = {}
      BY <1>4
    <2>3. pc' # "arm"
      BY <1>1
    <2>4. \A a \in Arms : Dst(a)' = Dst(a)
      BY DEF Dst
    <2> QED BY <2>1, <2>2, <2>3, <2>4 DEF NodesKnown
  <1>8. LoopPosition'
    BY <1>1, <1>2 DEF LoopPosition
  <1>9. StopsAtDestination' /\ PaddingIsEarned'
    BY <1>1, HopsKept DEF LoopInv
  <1> QED BY <1>6, <1>7, <1>8, <1>9 DEF LoopInv

\* Steps inside a repeat that take no turn.
LEMMA BetweenTurns ==
    ASSUME LoopInv, TypeOK', Preflight \/ StartRow
    PROVE  LoopInv'
  <1>1. /\ hops' = hops /\ prev' = prev /\ rep' = rep /\ ttl' = ttl
        /\ pc \in {"preflight", "row"} /\ pc' \in {"preflight", "row", "arm"}
        /\ pc' \in {"row", "arm"} => arm' = <<1, 1>>
        /\ pc' = "preflight" => pc = "preflight"
    <2>1. CASE Preflight
      BY <2>1 DEF Preflight, FollowingArm
    <2>2. CASE StartRow
      BY <2>2 DEF StartRow, entries, LoopInv, LoopPosition
    <2> QED BY <2>1, <2>2
  <1>2. \A a \in Arms : Filled(a)' = ttl - 1 /\ Filled(a) = ttl - 1
    <2>1. \A a \in Arms : a[1] >= 1 /\ a[2] >= 1 /\ a[1] \in Int /\ a[2] \in Int
      BY ConstantTypes DEF Arms, Blocks, Targets
    <2>2. \A a \in Arms : ~Taken(a) /\ ~Taken(a)'
      BY <2>1, <1>1 DEF Taken
    <2> QED BY <2>2, <1>1 DEF Filled
  <1>3. RepeatsAligned'
    BY <1>1, <1>2 DEF LoopInv, RepeatsAligned, Looping, Indices
  <1>4. LoopPosition'
    BY <1>1 DEF LoopInv, LoopPosition
  <1>5. NodesKnown'
    <2>1. \A a \in Arms : (Reached(a)' <=> Reached(a)) /\ Dst(a)' = Dst(a)
      BY <1>1 DEF Reached, Dst
    <2>2. \A a \in Arms : Reached(a)' <=>
             \/ Dst(a) = SourceIp
             \/ \E k \in 1..Filled(a)' : hops'[a][k][rep'].from = Dst(a)
      BY <2>1, <1>1, <1>2 DEF LoopInv, NodesKnown
    <2>3. (pc' = "arm" /\ skip') => ~Continue /\ AllReached
      BY <1>1 DEF Preflight, StartRow
    <2>4. AllReached' <=> AllReached
      BY <2>1 DEF AllReached
    <2> QED BY <2>2, <2>3, <2>4 DEF NodesKnown
  <1>6. StopsAtDestination' /\ PaddingIsEarned'
    BY <1>1, HopsKept DEF LoopInv
  <1> QED BY <1>3, <1>4, <1>5, <1>6 DEF LoopInv

LEMMA StepLoopInv == LoopInv /\ [Next]_vars => LoopInv'
  <1> SUFFICES ASSUME LoopInv, [Next]_vars PROVE LoopInv'
    OBVIOUS
  <1>1. CASE SkipTurn \/ ReachedTurn \/ ProbeTurn
    BY <1>1, TurnLoopInv
  <1>2. CASE Next /\ ~(SkipTurn \/ ReachedTurn \/ ProbeTurn)
    <2>1. TypeOK' /\ hops' = hops
      BY <1>2, StepType DEF LoopInv
    <2>2. CASE AppendEntry \/ ClassifyBeforeTrace
      BY <2>1, <2>2, PrepareLoopInv
    <2>3. CASE StartRepeat
      BY <2>1, <2>3, StartRepeatLoopInv
    <2>4. CASE Preflight \/ StartRow
      BY <2>1, <2>4, BetweenTurns
    <2>5. CASE \/ EndTrace \/ ReturnPath \/ Render \/ ProbeError
               \/ Finalise \/ SavePartialMeasurement
               \/ Interrupt \/ InterruptHandler
      <3>1. pc' \notin Looping
        BY <2>5 DEF EndTrace, ReturnPath, Render, ProbeError, Finalise,
                    SavePartialMeasurement, Interrupt, InterruptHandler, Looping
      <3> QED BY <2>1, <3>1, OutsideLoop
    <2>6. CASE OpenMeasurement \/ WriteMeasurement \/ OpenPartial \/ WritePartial
      <3>1. pc' \notin Looping
        BY <2>6 DEF OpenMeasurement, WriteMeasurement, OpenPartial, WritePartial,
                    OpenFile, WriteFile, Looping
      <3> QED BY <2>1, <3>1, OutsideLoop
    <2> QED
      BY <1>2, <2>2, <2>3, <2>4, <2>5, <2>6 DEF Next, Progress
  <1>3. CASE UNCHANGED vars
    BY <1>3 DEF vars, loop, entries, LoopInv, TypeOK, LoopPosition, RepeatsAligned,
                NodesKnown, StopsAtDestination, PaddingIsEarned, Filled, Taken,
                Reached, AllReached, Indices, Dst, Postures
  <1> QED BY <1>1, <1>2, <1>3

-----------------------------------------------------------------------------
(* Paths *)

\* When the results of a repeat are answers up to a hop and padding, or missing,
\* behind it, its path is those answers.
LEMMA PathIsPrefix ==
    ASSUME NEW h \in Seq(Seq(Results)), NEW r \in Nat, NEW n \in 0..Len(h),
           \A k \in 1..n : r \in 1..Len(h[k]) /\ h[k][r].from # "-",
           \A k \in (n + 1)..Len(h) : r > Len(h[k]) \/ h[k][r].from = "-"
    PROVE  Path(h, r) = [k \in 1..n |-> h[k][r]]
  <1> DEFINE Missing(k) == r > Len(h[k]) \/ h[k][r].from = "-"
             Rec(f) == [k \in 0..Len(h) |->
                          IF k = 0 THEN <<>>
                          ELSE IF Missing(k) THEN f[k - 1]
                          ELSE Append(f[k - 1], h[k][r])]
             answered == CHOOSE f : f = Rec(f)
             Answers(m) == [k \in 1..m |-> h[k][r]]
  <1>1. Path(h, r) = answered[Len(h)]
    BY DEF Path
  <1>2. answered = Rec(answered)
    <2> DEFINE V == Seq({h[k][r] : k \in 1..Len(h)})
               step == [k \in 1..Len(h) |-> [p \in V |->
                          IF Missing(k) THEN p ELSE Append(p, h[k][r])]]
    <2>1. step \in [1..Len(h) -> [V -> V]] /\ <<>> \in V /\ Len(h) \in Nat
      OBVIOUS
    <2>2. PICK f \in [0..Len(h) -> V] :
             f[0] = <<>> /\ \A i \in 1..Len(h) : f[i] = step[i][f[i - 1]]
      <3> HIDE DEF V, step
      <3>1. HasRun(Len(h), V, <<>>, step)
        BY <2>1, RunExists
      <3> QED BY <3>1 DEF HasRun, IsRun
    <2>3. \A i \in 0..Len(h) : i # 0 =>
             step[i][f[i - 1]] = IF Missing(i) THEN f[i - 1] ELSE Append(f[i - 1], h[i][r])
      <3> SUFFICES ASSUME NEW i \in 0..Len(h), i # 0
          PROVE step[i][f[i - 1]] = IF Missing(i) THEN f[i - 1] ELSE Append(f[i - 1], h[i][r])
        OBVIOUS
      <3>1. f[i - 1] \in V /\ i \in 1..Len(h)
        <4> HIDE DEF V, step, Missing
        <4>1. i - 1 \in 0..Len(h) /\ i \in 1..Len(h)
          OBVIOUS
        <4> QED BY <4>1
      <3> HIDE DEF V, Missing
      <3> QED BY <3>1
    <2>4. f = Rec(f)
      <3> HIDE DEF V, step, Missing
      <3>1. f = [i \in 0..Len(h) |-> f[i]]
        OBVIOUS
      <3>2. \A i \in 0..Len(h) : i # 0 => i \in 1..Len(h)
        OBVIOUS
      <3> QED BY <2>2, <2>3, <3>1, <3>2
    <2> HIDE DEF Rec
    <2> QED BY <2>4
  <1>3. \A k \in 0..Len(h) : answered[k] =
            IF k = 0 THEN <<>>
            ELSE IF Missing(k) THEN answered[k - 1]
            ELSE Append(answered[k - 1], h[k][r])
    <2> HIDE DEF answered, Missing
    <2> QED BY <1>2
  <1> HIDE DEF answered, Rec
  <1> DEFINE T == {k \in Nat : k <= Len(h) =>
                      answered[k] = Answers(IF k <= n THEN k ELSE n)}
  <1>4. 0 \in T
    <2>1. answered[0] = <<>> /\ Answers(0) = <<>>
      BY <1>3
    <2> QED BY <2>1
  <1>5. ASSUME NEW k \in T PROVE k + 1 \in T
    <2> SUFFICES ASSUME k + 1 <= Len(h)
        PROVE answered[k + 1] = Answers(IF k + 1 <= n THEN k + 1 ELSE n)
      OBVIOUS
    <2>1. /\ k \in Nat /\ k + 1 \in 0..Len(h) /\ k + 1 # 0 /\ (k + 1) - 1 = k /\ k <= Len(h)
          /\ n \in Nat /\ n <= Len(h)
      OBVIOUS
    <2>2. answered[k] = Answers(IF k <= n THEN k ELSE n)
      BY <2>1
    <2>3. answered[k + 1] = IF Missing(k + 1) THEN answered[k]
                            ELSE Append(answered[k], h[k + 1][r])
      <3> HIDE DEF Missing
      <3> QED BY <1>3, <2>1
    <2>4. CASE k + 1 <= n
      <3>1. ~ Missing(k + 1)
        <4>1. k + 1 \in 1..n
          BY <2>4, <2>1
        <4>2. h[k + 1] \in Seq(Results)
          BY <2>1
        <4> QED BY <4>1, <4>2
      <3>2. Append(Answers(k), h[k + 1][r]) = Answers(k + 1)
        <4> HIDE DEF T
        <4>1. \A c : k \in Nat => Append(Answers(k), c) =
                  [j \in 1..(k + 1) |-> IF j = k + 1 THEN c ELSE Answers(k)[j]]
          BY <2>1
        <4>2. \A j \in 1..(k + 1) : j # k + 1 => j \in 1..k
          BY <2>1
        <4> QED BY <2>1, <4>1, <4>2
      <3>3. k <= n
        BY <2>1, <2>4
      <3> HIDE DEF T, Answers, Missing
      <3> QED BY <2>2, <2>3, <2>4, <3>1, <3>2, <3>3
    <2>5. CASE ~ (k + 1 <= n)
      <3>1. Missing(k + 1)
        <4>1. k + 1 \in (n + 1)..Len(h)
          BY <2>1, <2>5
        <4> QED BY <4>1
      <3>2. k <= n => k = n
        BY <2>1, <2>5
      <3> QED BY <2>2, <2>3, <2>5, <3>1, <3>2
    <2> QED BY <2>4, <2>5
  <1>6. T = Nat
    <2>1. T \in SUBSET Nat
      OBVIOUS
    <2> HIDE DEF T
    <2> QED BY <1>4, <1>5, <2>1, SetInduction
  <1>7. answered[Len(h)] = Answers(n)
    <2>1. Len(h) \in Nat /\ n \in Nat /\ n <= Len(h)
      OBVIOUS
    <2>2. answered[Len(h)] = Answers(IF Len(h) <= n THEN Len(h) ELSE n)
      <3>1. Len(h) \in T
        <4> HIDE DEF T
        <4> QED BY <1>6, <2>1
      <3> QED BY <2>1, <3>1
    <2>3. Len(h) <= n => Len(h) = n
      BY <2>1
    <2> QED BY <2>2, <2>3
  <1> QED BY <1>1, <1>7

-----------------------------------------------------------------------------
(* The shape of what has been collected *)

\* No hop has a result for a repeat that an earlier one has none for.
Narrowing ==
    \A a \in Arms : \A k \in Indices(hops[a]) : \A j \in 1..k :
        Len(hops[a][k]) <= Len(hops[a][j])

\* The probing host itself is sent nothing, unless every TTL is walked.
HomeIsPadded ==
    ~Continue => \A a \in Arms : Dst(a) = SourceIp =>
        \A k \in Indices(hops[a]) : \A r \in Indices(hops[a][k]) : hops[a][k][r].from = "-"

\* With --continue nothing is padded.
WalksOn ==
    Continue => \A a \in Arms : \A k \in Indices(hops[a]) : \A r \in Indices(hops[a][k]) :
        hops[a][k][r].from # "-"

NothingCollected ==
    \A a \in Arms : \A k \in Indices(hops[a]) : \A r \in Indices(hops[a][k]) :
        hops[a][k][r].from = "-"

\* A trace that is not successful has sent nothing.
Fruitless == pc \in Looping /\ ~success => NothingCollected

ShapeInv == Narrowing /\ HomeIsPadded /\ WalksOn /\ Fruitless

\* What a turn leaves is what was there and the new result.
LEMMA TurnCollects ==
    ASSUME LoopInv, pc = "arm", NEW result \in Results, EndTurn(result),
           NEW a \in Arms, NEW k \in Indices(hops'[a]), NEW r \in Indices(hops'[a][k])
    PROVE  \/ a = arm /\ k = ttl /\ r = rep /\ hops'[a][k][r] = result
           \/ /\ k \in Indices(hops[a]) /\ r \in Indices(hops[a][k])
              /\ hops'[a][k][r] = hops[a][k][r]
  <1>1. /\ arm \in Arms /\ ttl \in 1..MaxTtl /\ rep \in Nat /\ rep >= 1
    BY TurnAddsResult DEF LoopInv, TypeOK
  <1>2. CASE a # arm
    BY <1>2, TurnAddsResult
  <1>3. CASE a = arm /\ k # ttl
    <2>1. k \in 1..Len(hops[arm])
      <3>1. /\ Len(hops'[arm]) = IF rep = 1 THEN ttl ELSE MaxTtl
            /\ Len(hops[arm]) = IF rep = 1 THEN ttl - 1 ELSE MaxTtl
        BY TurnAddsResult
      <3> QED BY <3>1, <1>1, <1>3, ConstantTypes DEF Indices
    <2>2. hops'[arm][k] = hops[arm][k]
      BY <1>3, <2>1, TurnAddsResult
    <2> QED BY <1>3, <2>1, <2>2 DEF Indices
  <1>4. CASE a = arm /\ k = ttl
    <2>1. Len(hops'[arm][ttl]) = rep /\ hops'[arm][ttl][rep] = result
      BY TurnAddsResult
    <2>2. r \in 1..rep
      BY <1>4, <2>1 DEF Indices
    <2>3. CASE r = rep
      BY <1>4, <2>1, <2>3
    <2>4. CASE r # rep
      <3>1. r \in 1..(rep - 1)
        BY <2>2, <2>4, <1>1
      <3>2. /\ ttl <= Len(hops[arm]) /\ r \in 1..Len(hops[arm][ttl])
            /\ hops'[arm][ttl][r] = hops[arm][ttl][r]
        BY <3>1, TurnAddsResult
      <3>3. Len(hops[arm]) \in Nat
        <4>1. hops[arm] \in Seq(Seq(Results))
          BY <1>1 DEF LoopInv, TypeOK
        <4> QED BY <4>1
      <3>4. ttl \in 1..Len(hops[arm])
        BY <1>1, <3>2, <3>3, ConstantTypes
      <3> QED BY <1>4, <3>2, <3>4 DEF Indices
    <2> QED BY <2>3, <2>4
  <1> QED BY <1>2, <1>3, <1>4

LEMMA InitShapeInv == Init => ShapeInv
  BY DEF Init, ShapeInv, Narrowing, HomeIsPadded, WalksOn, Fruitless, NothingCollected, Indices

\* While the loops run, the lengths follow from the position of the loops.
LEMMA AlignedNarrows == TypeOK /\ RepeatsAligned /\ pc \in Looping => Narrowing
  <1> SUFFICES ASSUME TypeOK, RepeatsAligned, pc \in Looping,
                      NEW a \in Arms, NEW k \in Indices(hops[a]), NEW j \in 1..k
      PROVE Len(hops[a][k]) <= Len(hops[a][j])
    BY DEF Narrowing
  <1>1. hops[a] \in Seq(Seq(Results)) /\ rep \in Nat
    BY ConstantTypes DEF TypeOK
  <1>2. rep > 0
    <2>1. rep # 0
      BY <1>1 DEF RepeatsAligned, Indices
    <2> QED BY <1>1, <2>1
  <1>3. Len(hops[a][k]) = (IF k <= Filled(a) THEN rep ELSE rep - 1)
    BY <1>1, <1>2 DEF RepeatsAligned
  <1>4. j \in Indices(hops[a]) /\ j <= k /\ j \in Nat /\ k \in Nat
    BY <1>1 DEF Indices
  <1>5. Len(hops[a][j]) = (IF j <= Filled(a) THEN rep ELSE rep - 1)
    BY <1>1, <1>2, <1>4 DEF RepeatsAligned
  <1>6. Filled(a) \in Int
    BY ConstantTypes DEF TypeOK, Filled
  <1> QED BY <1>1, <1>3, <1>4, <1>5, <1>6

LEMMA TurnShapeInv ==
    ASSUME LoopInv, ShapeInv, LoopInv', SkipTurn \/ ReachedTurn \/ ProbeTurn
    PROVE  ShapeInv'
  <1>1. /\ pc = "arm" /\ arm \in Arms
        /\ skip => ~Continue /\ AllReached
        /\ \A a \in Arms : Dst(a) = SourceIp => Reached(a)
    BY DEF LoopInv, TypeOK, SkipTurn, ReachedTurn, ProbeTurn, NodesKnown
  <1>2. PICK result \in Results :
            /\ EndTurn(result)
            /\ result.from = "-" => ~Continue
            /\ result.from # "-" => success' /\ (Continue \/ Dst(arm) # SourceIp)
            /\ success => success'
    <2>1. CASE SkipTurn
      BY <2>1, <1>1, DashIsResult DEF SkipTurn, Dash
    <2>2. CASE ReachedTurn
      BY <2>2, <1>1, DashIsResult DEF ReachedTurn, Dash
    <2>3. CASE ProbeTurn
      <3>1. PICK c \in Outcomes(arm) : EndTurn(c)
        BY <2>3 DEF ProbeTurn
      <3>2. success' /\ (Continue \/ ~Reached(arm))
        BY <2>3 DEF ProbeTurn
      <3>3. c \in Results /\ c.from # "-"
        BY <1>1, OutcomeIsResult
      <3> QED BY <3>1, <3>2, <3>3, <1>1
    <2> QED BY <2>1, <2>2, <2>3
  <1>3. \A a \in Arms : \A k \in Indices(hops'[a]) : \A r \in Indices(hops'[a][k]) :
           \/ a = arm /\ hops'[a][k][r] = result
           \/ /\ k \in Indices(hops[a]) /\ r \in Indices(hops[a][k])
              /\ hops'[a][k][r] = hops[a][k][r]
    BY <1>1, <1>2, TurnCollects
  <1>4. pc' \in Looping /\ pc \in Looping
    BY <1>1, <1>2 DEF EndTurn, Looping
  <1>5. Narrowing'
    <2>1. TypeOK' /\ RepeatsAligned'
      BY DEF LoopInv
    <2>2. (TypeOK /\ RepeatsAligned /\ pc \in Looping => Narrowing)'
      BY AlignedNarrows, PTL
    <2> QED BY <2>1, <2>2, <1>4
  <1>6. HomeIsPadded'
    <2> SUFFICES ASSUME ~Continue, NEW a \in Arms, Dst(a) = SourceIp,
                        NEW k \in Indices(hops'[a]), NEW r \in Indices(hops'[a][k])
        PROVE hops'[a][k][r].from = "-"
      BY DEF HomeIsPadded, Indices, Dst
    <2> QED BY <1>2, <1>3 DEF ShapeInv, HomeIsPadded
  <1>7. WalksOn'
    <2> SUFFICES ASSUME Continue, NEW a \in Arms,
                        NEW k \in Indices(hops'[a]), NEW r \in Indices(hops'[a][k])
        PROVE hops'[a][k][r].from # "-"
      BY DEF WalksOn, Indices
    <2> QED BY <1>2, <1>3 DEF ShapeInv, WalksOn
  <1>8. Fruitless'
    <2> SUFFICES ASSUME ~success', NEW a \in Arms,
                        NEW k \in Indices(hops'[a]), NEW r \in Indices(hops'[a][k])
        PROVE hops'[a][k][r].from = "-"
      BY DEF Fruitless, NothingCollected, Indices
    <2> QED BY <1>2, <1>3, <1>4 DEF ShapeInv, Fruitless, NothingCollected
  <1> QED BY <1>5, <1>6, <1>7, <1>8 DEF ShapeInv

LEMMA StepShapeInv == LoopInv /\ ShapeInv /\ LoopInv' /\ [Next]_vars => ShapeInv'
  <1> SUFFICES ASSUME LoopInv, ShapeInv, LoopInv', [Next]_vars PROVE ShapeInv'
    OBVIOUS
  <1>1. CASE SkipTurn \/ ReachedTurn \/ ProbeTurn
    BY <1>1, TurnShapeInv
  <1>2. ASSUME hops' = hops, pc' \in Looping => pc \in Looping /\ success' = success
        PROVE  ShapeInv'
    BY <1>2 DEF ShapeInv, Narrowing, HomeIsPadded, WalksOn, Fruitless, NothingCollected,
                Indices, Dst
  <1>3. CASE Next /\ ~(SkipTurn \/ ReachedTurn \/ ProbeTurn)
    <2>1. hops' = hops
      BY <1>3, StepType DEF LoopInv
    <2>2. pc' \in Looping => pc \in Looping /\ success' = success
      BY <1>3 DEF Next, Progress, AppendEntry, ClassifyBeforeTrace, StartRepeat, Preflight,
                  StartRow, EndTrace, Finalise, OpenMeasurement, WriteMeasurement,
                  ReturnPath, SavePartialMeasurement, OpenPartial, WritePartial, Render,
                  ProbeError, Interrupt, InterruptHandler, OpenFile, WriteFile, loop, Looping
    <2> QED BY <2>1, <2>2, <1>2
  <1>4. CASE UNCHANGED vars
    BY <1>4, <1>2 DEF vars, entries, loop
  <1> QED BY <1>1, <1>3, <1>4

-----------------------------------------------------------------------------
(* What a capture shows of it *)

\* The results of repeat r are answers up to hop n and padding, or missing,
\* behind it.
Ends(h, r, n) ==
    /\ n \in 0..Len(h)
    /\ \A k \in 1..n : r \in 1..Len(h[k]) /\ h[k][r].from # "-"
    /\ \A k \in (n + 1)..Len(h) : r > Len(h[k]) \/ h[k][r].from = "-"

\* Behind padding there is only padding.
LEMMA PathEnds ==
    ASSUME LoopInv, ShapeInv, NEW a \in Arms, NEW r \in Nat \ {0}
    PROVE  \E n : Ends(hops[a], r, n)
  <1> DEFINE h == hops[a]
             Missing == {k \in 1..Len(h) : r > Len(h[k]) \/ h[k][r].from = "-"}
  <1>1. h \in Seq(Seq(Results)) /\ Len(h) \in Nat /\ r \in Nat /\ r >= 1
    BY ConstantTypes DEF LoopInv, TypeOK
  <1>2. \A k \in 1..Len(h) : Len(h[k]) \in Nat
    BY <1>1
  <1>3. CASE Missing = {}
    <2>1. ASSUME NEW k \in 1..Len(h)
          PROVE  r \in 1..Len(h[k]) /\ h[k][r].from # "-"
      <3>1. k \notin Missing
        BY <1>3
      <3>2. Len(h[k]) \in Nat
        BY <1>2
      <3> HIDE DEF h
      <3> QED BY <1>1, <3>1, <3>2
    <2> HIDE DEF h, Missing
    <2>2. Ends(h, r, Len(h))
      BY <1>1, <2>1 DEF Ends
    <2> QED BY <2>2 DEF h
  <1>4. CASE Missing # {}
    <2>1. PICK d \in Missing : \A e \in Missing : d <= e
      <3>1. Missing \in SUBSET Nat
        BY <1>1
      <3> HIDE DEF Missing
      <3> QED BY <1>4, <3>1, LeastNatural
    <2>2. d \in 1..Len(h) /\ (r > Len(h[d]) \/ h[d][r].from = "-")
      BY <2>1
    <2>3. \A k \in 1..(d - 1) : r \in 1..Len(h[k]) /\ h[k][r].from # "-"
      <3> SUFFICES ASSUME NEW k \in 1..(d - 1)
          PROVE r \in 1..Len(h[k]) /\ h[k][r].from # "-"
        OBVIOUS
      <3>1. k \in 1..Len(h) /\ ~(d <= k)
        BY <1>1, <2>2
      <3>2. k \notin Missing
        BY <2>1, <3>1
      <3> HIDE DEF h
      <3> QED BY <1>1, <1>2, <3>1, <3>2
    <2>4. ASSUME NEW k \in d..Len(h)
          PROVE  r > Len(h[k]) \/ h[k][r].from = "-"
      <3>1. k \in Indices(hops[a]) /\ d \in Indices(hops[a]) /\ d \in 1..k
        BY <1>1, <2>2 DEF Indices
      <3>2. \A j \in 1..k : Len(hops[a][k]) <= Len(hops[a][j])
        BY <3>1 DEF ShapeInv, Narrowing
      <3>3. CASE r > Len(h[d])
        <4>1. Len(h[k]) <= Len(h[d]) /\ Len(h[k]) \in Nat /\ Len(h[d]) \in Nat
          BY <3>1, <3>2, <1>2 DEF Indices
        <4> HIDE DEF h
        <4> QED BY <3>3, <4>1, <1>1
      <3>4. CASE r <= Len(h[k]) /\ h[d][r].from = "-"
        <4>1. \A j \in 1..k : r \in Indices(hops[a][j])
          <5> SUFFICES ASSUME NEW j \in 1..k PROVE r \in Indices(hops[a][j])
            OBVIOUS
          <5>1. Len(h[k]) <= Len(h[j]) /\ Len(h[k]) \in Nat /\ Len(h[j]) \in Nat
            BY <3>1, <3>2, <1>2, <1>1 DEF Indices
          <5>2. r \in 1..Len(h[j])
            <6> HIDE DEF h
            <6> QED BY <3>4, <5>1, <1>1
          <5> QED BY <5>2 DEF Indices
        <4>2. k \in 1..k
          BY <3>1, <1>1 DEF Indices
        <4>3. \/ Dst(a) = SourceIp
              \/ \E j \in 1..(d - 1) : hops[a][j][r].from = Dst(a)
          BY <3>1, <3>4, <4>1 DEF LoopInv, PaddingIsEarned
        <4>4. ~Continue
          BY <3>1, <3>4, <4>1 DEF ShapeInv, WalksOn
        <4>5. CASE Dst(a) = SourceIp
          BY <3>1, <4>1, <4>2, <4>4, <4>5 DEF ShapeInv, HomeIsPadded
        <4>6. CASE \E j \in 1..(d - 1) : hops[a][j][r].from = Dst(a)
          <5>1. PICK j \in 1..(d - 1) : hops[a][j][r].from = Dst(a)
            BY <4>6
          <5>2. j \in Indices(hops[a]) /\ j < k /\ j \in 1..k
            BY <2>2, <3>1, <1>1 DEF Indices
          <5>3. r \in Indices(hops[a][j]) /\ r \in Indices(hops[a][k])
            BY <4>1, <4>2, <5>2
          <5> QED BY <5>1, <5>2, <5>3, <3>1, <4>4 DEF LoopInv, StopsAtDestination
        <4> QED BY <4>3, <4>5, <4>6
      <3>5. Len(h[k]) \in Nat
        BY <3>1, <1>2 DEF Indices
      <3> HIDE DEF h
      <3> QED BY <2>2, <3>3, <3>4, <3>5, <1>1
    <2>5. Ends(h, r, d - 1)
      <3>1. d \in 1..Len(h)
        BY <2>2
      <3> HIDE DEF h, Missing
      <3> QED BY <1>1, <2>3, <2>4, <3>1 DEF Ends
    <2> QED BY <2>5 DEF h
  <1> QED BY <1>3, <1>4

LEMMA PathOfEnds ==
    ASSUME NEW h \in Seq(Seq(Results)), NEW r \in Nat, NEW n, Ends(h, r, n)
    PROVE  Path(h, r) = [k \in 1..n |-> h[k][r]]
  BY PathIsPrefix DEF Ends

\* clean_extra_result keeps the hops before the first that is all padding.
LEMMA CleanedShape ==
    ASSUME NEW h \in Seq(Seq(Results))
    PROVE  \E m \in 0..Len(h) :
              /\ CleanExtraResult(h) = SubSeq(h, 1, m)
              /\ m < Len(h) => AllDash(h[m + 1])
  <1> DEFINE live == {k \in 0..Len(h) : \A j \in 1..k : ~AllDash(h[j])}
             m == CHOOSE k \in live : \A j \in live : j <= k
  <1>1. Len(h) \in Nat
    OBVIOUS
  <1>2. HasGreatest(live)
    <2>1. live \in SUBSET Nat /\ 0 \in live /\ \A x \in live : x <= Len(h)
      BY <1>1
    <2> HIDE DEF live
    <2> QED BY <1>1, <2>1, GreatestUpTo
  <1>3. m \in live /\ \A j \in live : j <= m
    <2> HIDE DEF live
    <2> QED BY <1>2 DEF HasGreatest
  <1>4. CleanExtraResult(h) = SubSeq(h, 1, m)
    BY DEF CleanExtraResult
  <1>5. m \in 0..Len(h) /\ \A j \in 1..m : ~AllDash(h[j])
    <2> HIDE DEF m
    <2> QED BY <1>3
  <1>6. ASSUME m < Len(h), ~AllDash(h[m + 1]) PROVE FALSE
    <2>1. m + 1 \in 0..Len(h) /\ \A j \in 1..(m + 1) : j \in 1..m \/ j = m + 1
      <3> HIDE DEF m
      <3> QED BY <1>1, <1>5, <1>6
    <2>2. m + 1 \in live
      <3> HIDE DEF m
      <3> QED BY <1>5, <1>6, <2>1
    <2>3. m + 1 <= m /\ m \in Nat
      <3> HIDE DEF m, live
      <3> QED BY <1>1, <1>3, <1>5, <2>2
    <2> HIDE DEF m
    <2> QED BY <2>3
  <1> HIDE DEF m, live
  <1> QED BY <1>4, <1>5, <1>6

Shown(h) == IF Continue THEN h ELSE CleanExtraResult(h)

\* Cleaning drops padding only: the hops behind the first all-padded one are
\* padded too.
LEMMA ShownIsPrefix ==
    ASSUME LoopInv, ShapeInv, NEW a \in Arms
    PROVE  \E m \in 0..Len(hops[a]) :
              /\ Shown(hops[a]) = SubSeq(hops[a], 1, m)
              /\ \A k \in (m + 1)..Len(hops[a]) : AllDash(hops[a][k])
  <1> DEFINE h == hops[a]
  <1>1. h \in Seq(Seq(Results)) /\ Len(h) \in Nat
    BY DEF LoopInv, TypeOK
  <1>2. CASE Continue
    <2>1. Shown(h) = SubSeq(h, 1, Len(h))
      <3> HIDE DEF h
      <3> QED BY <1>1, <1>2 DEF Shown
    <2>2. (Len(h) + 1)..Len(h) = {}
      BY <1>1
    <2> QED BY <1>1, <2>1, <2>2
  <1>3. CASE ~Continue
    <2>1. PICK m \in 0..Len(h) : /\ Shown(h) = SubSeq(h, 1, m)
                                 /\ m < Len(h) => AllDash(h[m + 1])
      <3> HIDE DEF h
      <3> QED BY <1>1, <1>3, CleanedShape DEF Shown
    <2>2. ASSUME NEW k \in (m + 1)..Len(h), NEW r \in Indices(h[k])
          PROVE  h[k][r].from = "-"
      <3>1. /\ k \in Indices(hops[a]) /\ m + 1 \in 1..k /\ m + 1 \in 1..Len(h)
            /\ k \in 1..Len(h) /\ k \in Nat /\ m \in Nat
        BY <1>1, <2>1 DEF Indices
      <3>2. Len(h[k]) <= Len(h[m + 1])
        BY <3>1 DEF ShapeInv, Narrowing
      <3>3. h[k] \in Seq(Results) /\ h[m + 1] \in Seq(Results)
        BY <1>1, <3>1
      <3>4. r \in Indices(h[m + 1]) /\ r \in Nat /\ r >= 1 /\ r <= Len(h[k])
        <4> HIDE DEF h
        <4> QED BY <3>2, <3>3 DEF Indices
      <3>5. h[m + 1][r].from = "-"
        <4>1. m < Len(h)
          BY <1>1, <3>1
        <4> QED BY <2>1, <4>1, <3>4 DEF AllDash
      <3>6. r \in Nat \ {0}
        BY <3>4
      <3>7. PICK n : Ends(h, r, n)
        BY <3>6, PathEnds
      <3>8. n < m + 1
        <4>1. n \in 0..Len(h) /\ \A j \in 1..n : h[j][r].from # "-"
          BY <3>7 DEF Ends
        <4>2. m + 1 \notin 1..n
          BY <3>5, <4>1
        <4>3. n \in Nat /\ m + 1 \in Nat /\ m + 1 >= 1
          BY <1>1, <3>1, <4>1
        <4> QED BY ONLY <4>2, <4>3
      <3>9. k \in (n + 1)..Len(h)
        <4>1. n \in 0..Len(h)
          BY <3>7 DEF Ends
        <4> HIDE DEF h
        <4> QED BY <1>1, <3>1, <3>8, <4>1
      <3>10. r > Len(h[k]) \/ h[k][r].from = "-"
        BY <3>7, <3>9 DEF Ends
      <3> HIDE DEF h
      <3> QED BY <3>3, <3>4, <3>10
    <2> QED BY <2>1, <2>2 DEF AllDash
  <1> QED BY <1>2, <1>3

-----------------------------------------------------------------------------
(* The files *)

Unwritten == {NoFile, Truncated}

\* Nothing is collected before every entry exists and has its first flags.
Prepared ==
    /\ made[Packets] <= made[1]
    /\ pc = "classify" \/ context => \A b \in Blocks : made[b] = Len(Destinations)
    /\ pc \in {"repeat", "preflight", "row", "arm", "finalise", "open", "write", "saved"}
          => context
    /\ ~context => \A a \in Arms : hops[a] = <<>> /\ posture[a] = BlankPosture

\* The flags that go with the hops.
Flags(a) == IF context THEN PostTracePosture(a, hops[a]) ELSE BlankPosture

Settled ==
    pc \in {"open", "write", "partial open", "partial write"} =>
        \A a \in Arms : posture[a] = Flags(a)

\* A capture shows the hops in memory, which nothing adds to any more.
TrueDocument(doc) ==
    /\ DOMAIN doc \subseteq Arms
    /\ \A a \in Arms \ DOMAIN doc : hops[a] = <<>>
    /\ \A a \in DOMAIN doc : doc[a].hops = Shown(hops[a]) /\ doc[a].posture = Flags(a)

FilesTrue ==
    /\ DOMAIN files = {"full", "partial"}
    /\ \A kind \in {"full", "partial"} :
          files[kind] \in Unwritten
          \/ \E doc : files[kind] = Holding(doc) /\ TrueDocument(doc)
    /\ pc \in Looping \cup {"finalise", "open", "write"} => files["full"] \in Unwritten
    /\ pc \in Running \cup Handling => files["partial"] \in Unwritten

Lost == pc = "nothing saved" => NothingCollected

CaptureInv == Prepared /\ Settled /\ FilesTrue /\ Lost

LEMMA BlockFacts ==
    /\ 1 \in Blocks
    /\ Len(Destinations) # 0
    /\ \A a \in Arms : a[2] <= Len(Destinations)
    /\ 1..Len(<<>>) = {}
  <1>1. 1 \in Blocks
    BY PacketsAssumption DEF Blocks
  <1>2. Len(Destinations) # 0
    BY AddressAssumption
  <1>3. \A i \in Targets : i <= Len(Destinations)
    BY DEF Targets
  <1>4. \A a \in Arms : a[2] \in Targets
    BY DEF Arms
  <1> QED BY <1>1, <1>2, <1>3, <1>4

\* What is true of a document follows from what is in memory.
LEMMA DocumentsKept ==
    ASSUME hops' = hops, context' = context
    PROVE  /\ \A a : Flags(a)' = Flags(a)
           /\ \A doc : TrueDocument(doc)' <=> TrueDocument(doc)
           /\ Unwritten' = Unwritten /\ \A doc : Holding(doc)' = Holding(doc)
  <1>1. \A a : Flags(a)' = Flags(a)
    BY DEF Flags, PostTracePosture, FromDestination, Dst
  <1>2. Unwritten' = Unwritten /\ \A doc : Holding(doc)' = Holding(doc)
    BY DEF Unwritten, NoFile, Truncated, Holding
  <1> QED BY <1>1, <1>2 DEF TrueDocument

LEMMA InitCaptureInv == Init => CaptureInv
  <1> SUFFICES ASSUME Init PROVE CaptureInv
    OBVIOUS
  <1>1. Prepared
    BY ConstantTypes, PacketsAssumption DEF Init, Prepared, Blocks
  <1>2. Settled /\ Lost
    BY DEF Init, Settled, Lost
  <1>3. FilesTrue
    BY DEF Init, FilesTrue, Unwritten
  <1> QED BY <1>1, <1>2, <1>3 DEF CaptureInv

LEMMA LoopingCaptureInv ==
    ASSUME LoopInv, ShapeInv, CaptureInv, TypeOK',
           \/ AppendEntry \/ ClassifyBeforeTrace \/ StartRepeat \/ Preflight \/ StartRow
           \/ SkipTurn \/ ReachedTurn \/ ProbeTurn
    PROVE  CaptureInv'
  <1>1. pc \in Looping /\ pc' \in Looping /\ files' = files
    BY DEF AppendEntry, ClassifyBeforeTrace, StartRepeat, Preflight, StartRow, SkipTurn,
           ReachedTurn, ProbeTurn, EndTurn, Looping
  <1>2. FilesTrue'
    <2>1. /\ DOMAIN files = {"full", "partial"}
          /\ files["full"] \in Unwritten /\ files["partial"] \in Unwritten
      BY <1>1 DEF CaptureInv, FilesTrue, Looping, Running
    <2> QED BY <2>1, <1>1 DEF FilesTrue, Unwritten, NoFile, Truncated
  <1>3. Settled' /\ Lost'
    BY <1>1 DEF Settled, Lost, Looping
  <1>4. Prepared'
    <2>1. CASE AppendEntry
      <3>1. /\ made \in [Blocks -> 0..Len(Destinations)]
            /\ made' \in [Blocks -> 0..Len(Destinations)]
            /\ 1 \in Blocks /\ Packets \in Blocks /\ Len(Destinations) \in Nat
            /\ Blocks \subseteq {1, Packets}
        <4>1. made \in [Blocks -> 0..Len(Destinations)] /\ made' \in [Blocks -> 0..Len(Destinations)]
          BY DEF LoopInv, TypeOK
        <4>2. 1 \in Blocks /\ Packets \in Blocks /\ Blocks \subseteq {1, Packets}
          BY PacketsAssumption DEF Blocks
        <4> QED BY <4>1, <4>2, ConstantTypes
      <3>2. /\ made' = [made EXCEPT ![NextBlock] = @ + 1] /\ context' = context
            /\ hops' = hops /\ posture' = posture /\ pc' \in {"init", "classify"}
            /\ pc' = "classify" => made'[Packets] = Len(Destinations)
            /\ made[Packets] < Len(Destinations)
        BY <2>1 DEF AppendEntry
      <3>3. /\ made[Packets] <= made[1] /\ made[1] \in Nat /\ made[Packets] \in Nat
            /\ ~context
        BY <3>1, <3>2, ConstantTypes DEF CaptureInv, Prepared
      <3>4. made'[Packets] <= made'[1]
        BY <3>1, <3>2, <3>3 DEF NextBlock
      <3>5. pc' = "classify" => \A b \in Blocks : made'[b] = Len(Destinations)
        BY <3>1, <3>2, <3>4
      <3> QED BY <3>2, <3>3, <3>4, <3>5 DEF CaptureInv, Prepared
    <2>2. CASE ClassifyBeforeTrace
      BY <2>2 DEF ClassifyBeforeTrace, CaptureInv, Prepared
    <2>3. CASE StartRepeat \/ Preflight \/ StartRow \/ SkipTurn \/ ReachedTurn \/ ProbeTurn
      <3>1. pc \in {"repeat", "preflight", "row", "arm"} /\ made' = made /\ context' = context
            /\ pc' # "classify"
        BY <2>3 DEF StartRepeat, Preflight, StartRow, SkipTurn, ReachedTurn, ProbeTurn,
                    EndTurn, entries
      <3> QED BY <3>1 DEF CaptureInv, Prepared
    <2> QED BY <2>1, <2>2, <2>3
  <1> QED BY <1>2, <1>3, <1>4 DEF CaptureInv

\* Steps that write nothing: what is in memory stays, but for the flags.
LEMMA MemoryCaptureInv ==
    ASSUME LoopInv, ShapeInv, CaptureInv,
           \/ EndTrace \/ ReturnPath \/ Render \/ ProbeError
           \/ Finalise \/ SavePartialMeasurement \/ Interrupt \/ InterruptHandler
    PROVE  CaptureInv'
  <1>1. /\ made' = made /\ hops' = hops /\ context' = context /\ files' = files
        /\ pc' \notin Looping
    BY DEF EndTrace, ReturnPath, Render, ProbeError, Finalise, SavePartialMeasurement,
           Interrupt, InterruptHandler, entries, loop, Looping
  <1>2. FilesTrue'
    <2>1. /\ pc' \in {"finalise", "open", "write"} => pc \in Looping \cup {"finalise"}
          /\ pc' \in Running \cup Handling => pc \in Running \cup Handling
      BY DEF EndTrace, ReturnPath, Render, ProbeError, Finalise, SavePartialMeasurement,
             Interrupt, InterruptHandler, Looping, Running, Handling
    <2>2. \A doc : TrueDocument(doc)' <=> TrueDocument(doc)
      BY <1>1, DocumentsKept
    <2>3. FilesTrue
      BY DEF CaptureInv
    <2>4. \A kind \in {"full", "partial"} :
             files'[kind] \in Unwritten
             \/ \E doc : files'[kind] = Holding(doc) /\ TrueDocument(doc)'
      BY <1>1, <2>2, <2>3 DEF FilesTrue
    <2>5. Unwritten' = Unwritten /\ \A doc : Holding(doc)' = Holding(doc)
      BY <1>1, DocumentsKept
    <2> QED BY <1>1, <2>1, <2>3, <2>4, <2>5 DEF FilesTrue
  <1>3. Prepared'
    <2>1. /\ ~context => posture' = posture
          /\ pc' \in {"finalise", "open", "write", "saved"} =>
                pc \in {"repeat", "finalise", "open", "write", "saved"}
          /\ pc' # "classify"
      BY DEF EndTrace, ReturnPath, Render, ProbeError, Finalise, SavePartialMeasurement,
             Interrupt, InterruptHandler, entries, loop, FinaliseMeasurements
    <2> QED BY <1>1, <2>1 DEF CaptureInv, Prepared, Looping
  <1>4. Settled'
    <2>1. CASE Finalise \/ SavePartialMeasurement
      <3>1. FinaliseMeasurements \/ pc' = "nothing saved"
        BY <2>1 DEF Finalise, SavePartialMeasurement
      <3>2. \A a \in Arms : Flags(a)' = Flags(a)
        BY <1>1, DocumentsKept
      <3>3. FinaliseMeasurements => \A a \in Arms : posture'[a] = Flags(a)
        <4> HIDE DEF PostTracePosture
        <4> QED BY DEF FinaliseMeasurements, Flags, CaptureInv, Prepared
      <3> QED BY <3>1, <3>2, <3>3 DEF Settled
    <2>2. CASE EndTrace \/ ReturnPath \/ Render \/ ProbeError \/ Interrupt \/ InterruptHandler
      BY <2>2 DEF EndTrace, ReturnPath, Render, ProbeError, Interrupt, InterruptHandler, Settled
    <2> QED BY <2>1, <2>2
  <1>5. Lost'
    <2> SUFFICES ASSUME pc' = "nothing saved" PROVE NothingCollected
      BY <1>1 DEF Lost, NothingCollected, Indices
    <2>1. CASE EndTrace
      BY <2>1 DEF EndTrace, ShapeInv, Fruitless, Looping
    <2>2. CASE SavePartialMeasurement
      <3>1. made[1] = 0
        BY <2>2 DEF SavePartialMeasurement
      <3>2. 1 \in Blocks /\ Len(Destinations) # 0
        BY BlockFacts
      <3>3. \A a \in Arms : Indices(hops[a]) = {}
        <4>1. ~context
          BY <3>1, <3>2 DEF CaptureInv, Prepared
        <4>2. \A a \in Arms : hops[a] = <<>>
          BY <4>1 DEF CaptureInv, Prepared
        <4> QED BY <4>2, BlockFacts DEF Indices
      <3> QED BY <3>3 DEF NothingCollected
    <2> QED
      BY <2>1, <2>2 DEF ReturnPath, Render, ProbeError, Finalise, Interrupt, InterruptHandler
  <1> QED BY <1>2, <1>3, <1>4, <1>5 DEF CaptureInv

\* Entries that do not exist yet have nothing to show.
LEMMA DocumentIsTrue ==
    ASSUME CaptureInv, pc \in {"write", "partial write"},
           NEW n, n = Len(Destinations) \/ n = made[1]
    PROVE  TrueDocument(Document(n))
  <1>1. DOMAIN Document(n) = {x \in Arms : x[2] <= n}
    BY DEF Document
  <1>2. ASSUME NEW a \in Arms, ~(a[2] <= n) PROVE hops[a] = <<>>
    <2>1. a[2] <= Len(Destinations) /\ 1 \in Blocks
      BY BlockFacts
    <2>2. n # Len(Destinations)
      BY <1>2, <2>1
    <2>3. ~context
      BY <2>1, <2>2 DEF CaptureInv, Prepared
    <2> QED BY <2>3 DEF CaptureInv, Prepared
  <1>3. \A a \in DOMAIN Document(n) :
           Document(n)[a].hops = Shown(hops[a]) /\ Document(n)[a].posture = posture[a]
    BY DEF Document, Shown
  <1>4. \A a \in Arms : posture[a] = Flags(a)
    BY DEF CaptureInv, Settled
  <1> QED BY <1>1, <1>2, <1>3, <1>4 DEF TrueDocument

LEMMA WritingCaptureInv ==
    ASSUME CaptureInv, OpenMeasurement \/ WriteMeasurement \/ OpenPartial \/ WritePartial
    PROVE  CaptureInv'
  <1> USE DEF OpenMeasurement, WriteMeasurement, OpenPartial, WritePartial, OpenFile, WriteFile
  <1>1. made' = made /\ hops' = hops /\ context' = context /\ posture' = posture
    BY DEF entries, loop
  <1> DEFINE Saves(kind, file) ==
           /\ files' = [files EXCEPT ![kind] = file]
           /\ \/ /\ file = Truncated
                 /\ \/ kind = "full" /\ pc = "open" /\ pc' = "write"
                    \/ kind = "partial" /\ pc = "partial open" /\ pc' = "partial write"
              \/ /\ \E doc : file = Holding(doc) /\ TrueDocument(doc)
                 /\ \/ kind = "full" /\ pc = "write" /\ pc' = "saved"
                    \/ kind = "partial" /\ pc = "partial write" /\ pc' = "render"
  <1>2. \E kind \in {"full", "partial"} : \E file : Saves(kind, file)
    <2>1. CASE OpenMeasurement
      BY <2>1
    <2>2. CASE OpenPartial
      BY <2>2
    <2>3. CASE WriteMeasurement
      BY <2>3, DocumentIsTrue
    <2>4. CASE WritePartial
      BY <2>4, DocumentIsTrue
    <2> QED BY <2>1, <2>2, <2>3, <2>4
  <1>5. PICK kind \in {"full", "partial"} : \E file : Saves(kind, file)
    BY <1>2
  <1>6. PICK file : Saves(kind, file)
    BY <1>5
  <1>3. Prepared' /\ Settled' /\ Lost'
    <2>1. \A a \in Arms : Flags(a)' = Flags(a)
      BY <1>1, DocumentsKept
    <2>2. Settled'
      BY <1>1, <1>6, <2>1 DEF CaptureInv, Settled
    <2>3. Prepared' /\ Lost'
      BY <1>1, <1>6 DEF CaptureInv, Prepared, Lost
    <2> QED BY <2>2, <2>3
  <1>4. FilesTrue'
    <2>1. \A doc : TrueDocument(doc)' <=> TrueDocument(doc)
      BY <1>1, DocumentsKept
    <2>2. FilesTrue
      BY DEF CaptureInv
    <2>3. /\ DOMAIN files' = {"full", "partial"} /\ files'[kind] = file
          /\ \A other \in {"full", "partial"} : other # kind => files'[other] = files[other]
      BY <1>6, <2>2 DEF FilesTrue
    <2>4. Truncated \in Unwritten
      BY DEF Unwritten
    <2>5. \A x \in {"full", "partial"} :
             files'[x] \in Unwritten \/ \E doc : files'[x] = Holding(doc) /\ TrueDocument(doc)
      BY <1>6, <2>2, <2>3, <2>4 DEF FilesTrue
    <2>6. /\ pc' \in Looping \cup {"finalise", "open", "write"} => files'["full"] \in Unwritten
          /\ pc' \in Running \cup Handling => files'["partial"] \in Unwritten
      BY <1>6, <2>2, <2>3, <2>4 DEF FilesTrue, Looping, Running, Handling
    <2>7. Unwritten' = Unwritten /\ \A doc : Holding(doc)' = Holding(doc)
      BY <1>1, DocumentsKept
    <2> QED BY <2>1, <2>3, <2>5, <2>6, <2>7 DEF FilesTrue
  <1> QED BY <1>3, <1>4 DEF CaptureInv

TraceInv == LoopInv /\ ShapeInv /\ CaptureInv

LEMMA StepTraceInv == TraceInv /\ [Next]_vars => TraceInv'
  <1> SUFFICES ASSUME TraceInv, [Next]_vars PROVE TraceInv'
    OBVIOUS
  <1>1. LoopInv'
    BY StepLoopInv DEF TraceInv
  <1>2. ShapeInv'
    BY <1>1, StepShapeInv DEF TraceInv
  <1>3. CaptureInv'
    <2>1. CASE \/ AppendEntry \/ ClassifyBeforeTrace \/ StartRepeat \/ Preflight \/ StartRow
               \/ SkipTurn \/ ReachedTurn \/ ProbeTurn
      BY <1>1, <2>1, LoopingCaptureInv DEF TraceInv, LoopInv
    <2>2. CASE \/ EndTrace \/ ReturnPath \/ Render \/ ProbeError
               \/ Finalise \/ SavePartialMeasurement \/ Interrupt \/ InterruptHandler
      BY <2>2, MemoryCaptureInv DEF TraceInv
    <2>3. CASE OpenMeasurement \/ WriteMeasurement \/ OpenPartial \/ WritePartial
      BY <2>3, WritingCaptureInv DEF TraceInv
    <2>4. CASE UNCHANGED vars
      <3>1. /\ made' = made /\ hops' = hops /\ context' = context /\ posture' = posture
            /\ files' = files /\ pc' = pc
        BY <2>4 DEF vars, entries, loop
      <3>2. Prepared' /\ Lost'
        BY <3>1 DEF TraceInv, CaptureInv, Prepared, Lost, NothingCollected, Indices
      <3>3. Settled'
        BY <3>1, DocumentsKept DEF TraceInv, CaptureInv, Settled
      <3>4. FilesTrue'
        BY <3>1, DocumentsKept DEF TraceInv, CaptureInv, FilesTrue
      <3> QED BY <3>2, <3>3, <3>4 DEF CaptureInv
    <2> QED BY <2>1, <2>2, <2>3, <2>4 DEF Next, Progress
  <1> QED BY <1>1, <1>2, <1>3 DEF TraceInv

-----------------------------------------------------------------------------
(* What the captures tell *)

LEMMA CollectedFinite ==
    ASSUME NEW h \in Seq(Seq(Results))
    PROVE  /\ IsFiniteSet(Collected(h))
           /\ Collected(h) \subseteq Results
  <1> DEFINE row(k) == {h[k][r] : r \in Indices(h[k])}
             rows == [k \in Indices(h) |-> row(k)]
  <1>1. /\ IsFiniteSet(Indices(h))
        /\ \A k \in Indices(h) : h[k] \in Seq(Results) /\ IsFiniteSet(Indices(h[k]))
    <2>1. Len(h) \in Int /\ \A k \in Indices(h) : h[k] \in Seq(Results) /\ Len(h[k]) \in Int
      BY DEF Indices
    <2> QED BY <2>1, FS_Interval DEF Indices
  <1>2. \A k \in Indices(h) : IsFiniteSet(row(k)) /\ row(k) \subseteq Results
    <2> SUFFICES ASSUME NEW k \in Indices(h)
        PROVE IsFiniteSet(row(k)) /\ row(k) \subseteq Results
      OBVIOUS
    <2> DEFINE s == h[k]
    <2>1. s \in Seq(Results) /\ IsFiniteSet(Indices(s))
      BY <1>1
    <2> HIDE DEF s
    <2>2. DOMAIN s = Indices(s) /\ s = [r \in Indices(s) |-> s[r]]
      BY <2>1 DEF Indices
    <2>3. IsFiniteSet({s[r] : r \in Indices(s)})
      BY <2>1, <2>2, FiniteImage
    <2>4. {s[r] : r \in Indices(s)} \subseteq Results
      BY <2>1 DEF Indices
    <2> QED BY <2>3, <2>4 DEF s
  <1>3. IsFiniteSet({rows[k] : k \in Indices(h)})
    <2>1. DOMAIN rows = Indices(h) /\ rows = [k \in Indices(h) |-> rows[k]]
      OBVIOUS
    <2> HIDE DEF rows
    <2> QED BY <1>1, <2>1, FiniteImage
  <1>4. {rows[k] : k \in Indices(h)} = {row(k) : k \in Indices(h)}
    OBVIOUS
  <1>5. Collected(h) = UNION {row(k) : k \in Indices(h)}
    BY DEF Collected
  <1>6. IsFiniteSet(UNION {row(k) : k \in Indices(h)})
    <2>1. \A T \in {row(k) : k \in Indices(h)} : IsFiniteSet(T)
      BY <1>2
    <2> HIDE DEF row, rows
    <2> QED BY <1>3, <1>4, <2>1, FS_UNION
  <1>7. UNION {row(k) : k \in Indices(h)} \subseteq Results
    <2> HIDE DEF row
    <2> QED BY <1>2
  <1> QED BY <1>5, <1>6, <1>7

LEMMA CountsBounded ==
    ASSUME NEW h \in Seq(Seq(Results))
    PROVE  MaxRst(h) \in Nat /\ \A c \in Collected(h) : c.rst <= MaxRst(h)
  <1> DEFINE seen == Collected(h)
             rst == [c \in seen |-> c.rst]
             counts == {c.rst : c \in seen} \cup {0}
  <1>1. IsFiniteSet(seen) /\ seen \subseteq Results
    BY CollectedFinite
  <1>2. {c.rst : c \in seen} = {rst[c] : c \in seen}
    OBVIOUS
  <1>3. IsFiniteSet({rst[c] : c \in seen})
    <2>1. DOMAIN rst = seen /\ rst = [c \in seen |-> rst[c]]
      OBVIOUS
    <2> HIDE DEF rst, seen
    <2> QED BY <1>1, <2>1, FiniteImage
  <1>4. IsFiniteSet(counts) /\ counts \subseteq Nat /\ 0 \in counts
    <2>1. IsFiniteSet({0})
      BY FS_Singleton
    <2>2. IsFiniteSet(counts)
      BY <1>2, <1>3, <2>1, FS_Union
    <2>3. counts \subseteq Nat
      BY <1>1 DEF Results
    <2> QED BY <2>2, <2>3
  <1>5. HasGreatest(counts)
    <2> HIDE DEF counts
    <2>1. counts \in SUBSET Nat /\ counts # {}
      BY <1>4
    <2> QED BY <1>4, <2>1, GreatestNatural
  <1>6. MaxRst(h) = CHOOSE m \in counts : \A n \in counts : n <= m
    BY DEF MaxRst
  <1>7. MaxRst(h) \in counts /\ \A n \in counts : n <= MaxRst(h)
    <2> HIDE DEF counts
    <2> QED BY <1>5, <1>6 DEF HasGreatest
  <1> QED BY <1>4, <1>7

\* A capture shows every answer that was collected, and nothing else but padding.
LEMMA ShownResults ==
    ASSUME LoopInv, ShapeInv, NEW a \in Arms
    PROVE  /\ Collected(Shown(hops[a])) \subseteq Collected(hops[a])
           /\ \A c \in Collected(hops[a]) : c.from # "-" => c \in Collected(Shown(hops[a]))
  <1> DEFINE h == hops[a]
  <1>1. PICK m \in 0..Len(h) :
           /\ Shown(h) = SubSeq(h, 1, m)
           /\ \A k \in (m + 1)..Len(h) : AllDash(h[k])
    BY ShownIsPrefix
  <1>2. h \in Seq(Seq(Results)) /\ Len(h) \in Nat /\ m \in Nat
    BY DEF LoopInv, TypeOK
  <1> HIDE DEF h
  <1>3. /\ Len(Shown(h)) = m
        /\ \A k \in 1..m : Shown(h)[k] = h[k] /\ k \in 1..Len(h)
    BY <1>1, <1>2
  <1>4. Collected(Shown(h)) \subseteq Collected(h)
    BY <1>3 DEF Collected, Indices
  <1>5. ASSUME NEW c \in Collected(h), c.from # "-"
        PROVE  c \in Collected(Shown(h))
    <2>1. PICK k \in Indices(h) : \E r \in Indices(h[k]) : c = h[k][r]
      BY DEF Collected
    <2>2. ~AllDash(h[k])
      BY <1>5, <2>1 DEF AllDash
    <2>3. k \in 1..m
      BY <1>1, <1>2, <2>1, <2>2 DEF Indices
    <2> QED BY <1>3, <2>1, <2>3 DEF Collected, Indices
  <1> QED BY <1>4, <1>5 DEF h

LEMMA WrittenIsTrue ==
    ASSUME CaptureInv, NEW doc \in Written
    PROVE  TrueDocument(doc)
  <1>1. PICK kind \in {"full", "partial"} :
           files[kind] \notin Unwritten /\ doc = files[kind].doc
    BY DEF Written, Unwritten
  <1>2. PICK other : files[kind] = Holding(other) /\ TrueDocument(other)
    BY <1>1 DEF CaptureInv, FilesTrue
  <1> QED BY <1>1, <1>2 DEF Holding

LEMMA TraceFirstHop == TraceInv => FirstHopIsWidest
  <1> SUFFICES ASSUME TraceInv PROVE FirstHopIsWidest
    OBVIOUS
  <1>1. ASSUME NEW a \in Arms, NEW k \in Indices(hops[a])
        PROVE  Len(hops[a][k]) <= Len(hops[a][1])
    <2>1. 1 \in 1..k
      BY <1>1 DEF Indices
    <2> QED BY <2>1 DEF TraceInv, ShapeInv, Narrowing
  <1>2. ASSUME NEW doc \in Written, NEW a \in DOMAIN doc, NEW k \in Indices(doc[a].hops)
        PROVE  Len(doc[a].hops[k]) <= Len(doc[a].hops[1])
    <2>1. a \in Arms /\ doc[a].hops = Shown(hops[a])
      BY WrittenIsTrue DEF TraceInv, TrueDocument
    <2>2. PICK m \in 0..Len(hops[a]) : Shown(hops[a]) = SubSeq(hops[a], 1, m)
      BY <2>1, ShownIsPrefix DEF TraceInv
    <2>3. hops[a] \in Seq(Seq(Results))
      BY <2>1 DEF TraceInv, LoopInv, TypeOK
    <2>4. \A j \in 1..m : doc[a].hops[j] = hops[a][j] /\ j \in Indices(hops[a])
      BY <2>1, <2>2, <2>3 DEF Indices
    <2>5. k \in 1..m /\ 1 \in 1..m
      BY <2>1, <2>2, <2>3 DEF Indices
    <2> QED BY <1>1, <2>1, <2>4, <2>5
  <1> QED BY <1>1, <1>2 DEF FirstHopIsWidest

LEMMA TraceNothingLost == TraceInv => NothingLostSilently
  <1> SUFFICES ASSUME TraceInv, pc = "nothing saved", NEW a \in Arms, NEW c \in Collected(hops[a])
      PROVE c.from = "-"
    BY DEF NothingLostSilently
  <1>1. NothingCollected
    BY DEF TraceInv, CaptureInv, Lost
  <1>2. PICK k \in Indices(hops[a]) : \E r \in Indices(hops[a][k]) : c = hops[a][k][r]
    BY DEF Collected
  <1> QED BY <1>1, <1>2 DEF NothingCollected

LEMMA TracePosture == TraceInv => PostureMatchesHops
  <1> SUFFICES ASSUME TraceInv, NEW doc \in Written, NEW a \in DOMAIN doc
      PROVE LET h == doc[a].hops
                p == doc[a].posture
                home == FromDestination(a, h)
            IN  /\ p.path.dpi_cleared =>
                      /\ home # {} /\ \A c \in home : ~c.forged
                      /\ \A c \in Collected(h) : c.rst < RstThreshold
                /\ p.path.tcp_silently_dropped => home = {}
                /\ (\E c \in Collected(h) : c.from \in CgnatAddrs) => p.path.cgnat_hop
                /\ (\E c \in home : c.forged) => p.reply_forged
    BY DEF PostureMatchesHops
  <1> DEFINE h == doc[a].hops
             p == doc[a].posture
             full == hops[a]
  <1>1. a \in Arms /\ h = Shown(full) /\ p = Flags(a)
    BY WrittenIsTrue DEF TraceInv, TrueDocument
  <1>2. full \in Seq(Seq(Results))
    BY <1>1 DEF TraceInv, LoopInv, TypeOK
  <1>3. /\ Collected(h) \subseteq Collected(full)
        /\ \A c \in Collected(full) : c.from # "-" => c \in Collected(h)
    BY <1>1, ShownResults DEF TraceInv
  <1>4. FromDestination(a, h) = FromDestination(a, full)
    BY <1>1, <1>3, ConstantTypes DEF FromDestination
  <1>5. CASE ~context
    <2>1. full = <<>> /\ p = BlankPosture
      BY <1>1, <1>5 DEF TraceInv, CaptureInv, Prepared, Flags
    <2>2. Indices(full) = {}
      BY <2>1, BlockFacts DEF Indices
    <2>3. Collected(full) = {}
      <3> HIDE DEF full
      <3> QED BY <2>2 DEF Collected
    <2>4. Collected(h) = {}
      BY <1>3, <2>3
    <2>5. FromDestination(a, h) = {}
      BY <2>4 DEF FromDestination
    <2>6. ~p.path.dpi_cleared /\ ~p.path.tcp_silently_dropped
      <3> HIDE DEF p
      <3> QED BY <2>1 DEF BlankPosture
    <2> QED BY <2>4, <2>5, <2>6
  <1>6. CASE context
    <2>1. p = PostTracePosture(a, full)
      BY <1>1, <1>6 DEF Flags
    <2>2. MaxRst(full) \in Nat /\ \A c \in Collected(full) : c.rst <= MaxRst(full)
      BY <1>2, CountsBounded
    <2>3. \A c \in Collected(full) : c.rst \in Nat
      BY <1>2, CollectedFinite DEF Results
    <2> DEFINE home == FromDestination(a, full)
    <2>4. /\ p.path.dpi_cleared =>
                home # {} /\ (\A c \in home : ~c.forged) /\ ~(MaxRst(full) >= RstThreshold)
          /\ p.path.tcp_silently_dropped => home = {}
          /\ (\E c \in Collected(full) : c.from \in CgnatAddrs) => p.path.cgnat_hop
          /\ (\E c \in home : c.forged) => p.reply_forged
      <3> HIDE DEF p, full, home
      <3> QED BY <2>1 DEF PostTracePosture, Posture, ClassifyDpiPath, DefaultSignals,
                DpiCleared, CgnatHop, RstFlood, TcpSilentlyDropped, home
    <2>5. ~(MaxRst(full) >= RstThreshold) => \A c \in Collected(full) : c.rst < RstThreshold
      BY <2>2, <2>3 DEF RstThreshold
    <2>6. p.path.dpi_cleared =>
             /\ home # {} /\ \A c \in home : ~c.forged
             /\ \A c \in Collected(h) : c.rst < RstThreshold
      <3> HIDE DEF p, full, h, home
      <3> QED BY <1>3, <2>4, <2>5
    <2>7. (\E c \in Collected(h) : c.from \in CgnatAddrs) => p.path.cgnat_hop
      <3> HIDE DEF p, full, h, home
      <3> QED BY <1>3, <2>4
    <2> HIDE DEF full
    <2> QED BY <1>4, <2>4, <2>6, <2>7
  <1> QED BY <1>5, <1>6

-----------------------------------------------------------------------------
(* The trace implements Traceroute *)

\* The paths an observer of the trace sees, and the captures of them.
Seen == PathsOf(hops)
Captured == {PathsOf(HopsIn(doc)) : doc \in Written}

\* The answers of repeat r in the first n hops.
Column(h, r, n) == [k \in 1..n |-> h[k][r].from]

LEMMA FromsOfEnds ==
    ASSUME NEW h \in Seq(Seq(Results)), NEW r \in Nat, NEW n, Ends(h, r, n)
    PROVE  Froms(Path(h, r)) = Column(h, r, n)
  <1>1. n \in 0..Len(h) /\ Len(h) \in Nat
    BY DEF Ends
  <1> DEFINE path == [k \in 1..n |-> h[k][r]]
  <1>2. Path(h, r) = path
    BY PathOfEnds
  <1>3. Len(path) = n
    BY <1>1
  <1>4. Indices(path) = 1..n
    BY <1>3 DEF Indices
  <1>5. \A k \in 1..n : path[k] = h[k][r]
    OBVIOUS
  <1> HIDE DEF path
  <1> QED BY <1>2, <1>4, <1>5 DEF Froms, Column

LEMMA NothingSeen == \A r \in Nat : Froms(Path(<<>>, r)) = <<>>
  <1> SUFFICES ASSUME NEW r \in Nat PROVE Froms(Path(<<>>, r)) = <<>>
    OBVIOUS
  <1>1. <<>> \in Seq(Seq(Results)) /\ Ends(<<>>, r, 0)
    BY DEF Ends
  <1>2. Froms(Path(<<>>, r)) = Column(<<>>, r, 0)
    BY <1>1, FromsOfEnds
  <1>3. Column(<<>>, r, 0) = <<>>
    BY DEF Column
  <1> QED BY <1>2, <1>3

\* What is seen of an arm in a repeat is the column of its answers.
LEMMA SeenEnds ==
    ASSUME LoopInv, ShapeInv, NEW a \in Arms, NEW r \in 1..Repeats
    PROVE  \E n : /\ Ends(hops[a], r, n) /\ n \in 0..Len(hops[a])
                  /\ Seen[a][r] = Column(hops[a], r, n) /\ Len(Seen[a][r]) = n
  <1>1. r \in Nat /\ r \in Nat \ {0} /\ hops[a] \in Seq(Seq(Results)) /\ DOMAIN hops = Arms
    BY ConstantTypes DEF LoopInv, TypeOK
  <1>2. PICK n : Ends(hops[a], r, n)
    BY <1>1, PathEnds
  <1>3. Seen[a][r] = Froms(Path(hops[a], r))
    BY <1>1 DEF Seen, PathsOf
  <1>4. Seen[a][r] = Column(hops[a], r, n)
    BY <1>1, <1>2, <1>3, FromsOfEnds
  <1>5. n \in 0..Len(hops[a]) /\ n \in Nat
    BY <1>1, <1>2 DEF Ends
  <1>6. Len(Column(hops[a], r, n)) = n
    BY <1>5 DEF Column
  <1> QED BY <1>2, <1>4, <1>5, <1>6

\* A captured document shows what was seen.
LEMMA DocumentShowsPaths ==
    ASSUME LoopInv, ShapeInv, NEW doc, TrueDocument(doc)
    PROVE  PathsOf(HopsIn(doc)) = Seen
  <1>1. DOMAIN hops = Arms /\ hops \in [Arms -> Seq(Seq(Results))]
    BY DEF LoopInv, TypeOK
  <1>2. ASSUME NEW a \in Arms, NEW r \in 1..Repeats
        PROVE  (IF a \in DOMAIN HopsIn(doc) THEN Froms(Path(HopsIn(doc)[a], r)) ELSE <<>>)
                  = Froms(Path(hops[a], r))
    <2>1. r \in Nat /\ r \in Nat \ {0}
      BY ConstantTypes
    <2>2. DOMAIN HopsIn(doc) = DOMAIN doc
      BY DEF HopsIn
    <2>3. CASE a \notin DOMAIN doc
      <3>1. hops[a] = <<>>
        BY <2>3 DEF TrueDocument
      <3> QED BY <2>1, <2>2, <2>3, <3>1, NothingSeen
    <2>4. CASE a \in DOMAIN doc
      <3> DEFINE h == hops[a]
                 shown == Shown(h)
      <3>1. HopsIn(doc)[a] = shown
        BY <2>4 DEF HopsIn, TrueDocument
      <3>2. PICK m \in 0..Len(h) :
               /\ shown = SubSeq(h, 1, m)
               /\ \A k \in (m + 1)..Len(h) : AllDash(h[k])
        BY ShownIsPrefix
      <3>3. PICK n : Ends(h, r, n)
        BY <2>1, PathEnds
      <3>4. h \in Seq(Seq(Results)) /\ Len(h) \in Nat /\ m \in Nat
        BY <1>1
      <3> HIDE DEF h, shown
      <3>5. /\ n \in 0..Len(h) /\ n \in Nat
            /\ \A k \in 1..n : r \in 1..Len(h[k]) /\ h[k][r].from # "-"
        BY <3>3, <3>4 DEF Ends
      <3>6. n <= m
        <4> SUFFICES ASSUME ~(n <= m) PROVE FALSE
          OBVIOUS
        <4>1. n \in 1..n /\ n \in (m + 1)..Len(h)
          BY <3>4, <3>5
        <4> QED BY <3>2, <3>5, <4>1 DEF AllDash, Indices
      <3>7. /\ shown \in Seq(Seq(Results)) /\ Len(shown) = m
            /\ \A k \in 1..m : shown[k] = h[k]
        BY <3>2, <3>4
      <3>8. Ends(shown, r, n)
        <4>1. \A k \in 1..n : k \in 1..m
          BY <3>4, <3>5, <3>6
        <4>2. \A k \in (n + 1)..m : k \in 1..m /\ k \in (n + 1)..Len(h)
          BY <3>4, <3>5
        <4>3. n \in 0..m
          BY <3>4, <3>5, <3>6
        <4>4. \A k \in (n + 1)..Len(h) : r > Len(h[k]) \/ h[k][r].from = "-"
          BY <3>3 DEF Ends
        <4>5. \A k \in 1..n : r \in 1..Len(shown[k]) /\ shown[k][r].from # "-"
          BY <3>5, <3>7, <4>1
        <4>6. \A k \in (n + 1)..m : r > Len(shown[k]) \/ shown[k][r].from = "-"
          BY <3>7, <4>2, <4>4
        <4> QED BY <3>7, <4>3, <4>5, <4>6 DEF Ends
      <3>9. Froms(Path(shown, r)) = Column(shown, r, n) /\ Froms(Path(h, r)) = Column(h, r, n)
        BY <2>1, <3>3, <3>4, <3>7, <3>8, FromsOfEnds
      <3>10. \A k \in 1..n : shown[k] = h[k]
        BY <3>4, <3>5, <3>6, <3>7
      <3>11. Column(shown, r, n) = Column(h, r, n)
        BY <3>10 DEF Column
      <3> QED BY <2>2, <2>4, <3>1, <3>9, <3>11 DEF h
    <2> QED BY <2>3, <2>4
  <1> QED BY <1>1, <1>2 DEF PathsOf, Seen

LEMMA TurnKeepsEntries ==
    ASSUME LoopInv, pc = "arm", NEW result \in Results, EndTurn(result),
           NEW a \in Arms, NEW r \in Nat \ {0}, a # arm \/ r # rep
    PROVE  /\ Len(hops[a]) <= Len(hops'[a])
           /\ \A k \in 1..Len(hops'[a]) :
                 \/ /\ k \in 1..Len(hops[a])
                    /\ r \in 1..Len(hops[a][k]) /\ r \in 1..Len(hops'[a][k])
                    /\ hops'[a][k][r] = hops[a][k][r]
                 \/ /\ k \in 1..Len(hops[a]) => r > Len(hops[a][k])
                    /\ r > Len(hops'[a][k])
  <1>1. hops \in [Arms -> Seq(Seq(Results))] /\ hops' \in [Arms -> Seq(Seq(Results))]
    BY TurnAddsResult DEF LoopInv, TypeOK
  <1>2. CASE a # arm
    <2>1. hops'[a] = hops[a] /\ hops[a] \in Seq(Seq(Results))
      BY <1>1, <1>2, TurnAddsResult
    <2>2. Len(hops[a]) \in Nat /\ \A k \in 1..Len(hops[a]) : Len(hops[a][k]) \in Nat
      BY <2>1
    <2> QED BY <2>1, <2>2
  <1>3. CASE a = arm
    <2>1. /\ ttl \in 1..MaxTtl /\ rep \in Nat /\ rep >= 1
          /\ Len(hops[arm]) = IF rep = 1 THEN ttl - 1 ELSE MaxTtl
          /\ Len(hops'[arm]) = IF rep = 1 THEN ttl ELSE MaxTtl
          /\ \A k \in 1..Len(hops[arm]) : k # ttl => hops'[arm][k] = hops[arm][k]
          /\ Len(hops'[arm][ttl]) = rep
          /\ ttl \in 1..Len(hops[arm]) => Len(hops[arm][ttl]) = rep - 1
          /\ \A s \in 1..(rep - 1) :
                 /\ ttl <= Len(hops[arm]) /\ s \in 1..Len(hops[arm][ttl])
                 /\ hops'[arm][ttl][s] = hops[arm][ttl][s]
      <3>1. ttl \in 1..Len(hops[arm]) => Len(hops[arm][ttl]) = rep - 1
        BY BeforeTurn, ConstantTypes
      <3> QED BY <3>1, BeforeTurn, TurnAddsResult
    <2>2. MaxTtl \in Nat /\ r \in Nat /\ r >= 1 /\ r # rep
      BY <1>3, ConstantTypes
    <2>3. \A k \in 1..Len(hops[arm]) : Len(hops[arm][k]) \in Nat
      BY <1>1, <1>3
    <2> SUFFICES ASSUME NEW k \in 1..Len(hops'[arm])
        PROVE  \/ /\ k \in 1..Len(hops[arm])
                  /\ r \in 1..Len(hops[arm][k]) /\ r \in 1..Len(hops'[arm][k])
                  /\ hops'[arm][k][r] = hops[arm][k][r]
               \/ /\ k \in 1..Len(hops[arm]) => r > Len(hops[arm][k])
                  /\ r > Len(hops'[arm][k])
      BY <1>3, <2>1, <2>2
    <2>4. CASE k # ttl
      <3>1. k \in 1..Len(hops[arm])
        BY <2>1, <2>2, <2>4
      <3>2. hops'[arm][k] = hops[arm][k] /\ Len(hops[arm][k]) \in Nat
        BY <2>1, <2>3, <2>4, <3>1
      <3> QED BY <2>2, <3>1, <3>2
    <2>5. CASE k = ttl /\ r < rep
      <3>1. r \in 1..(rep - 1) /\ r \in 1..rep
        BY <2>1, <2>2, <2>5
      <3>2. ttl \in 1..Len(hops[arm])
        BY <2>1, <2>2, <3>1
      <3> QED BY <2>1, <2>5, <3>1, <3>2
    <2>6. CASE k = ttl /\ r > rep
      BY <2>1, <2>2, <2>6
    <2> QED BY <2>1, <2>2, <2>4, <2>5, <2>6
  <1> QED BY <1>2, <1>3

\* The other paths stay as they are.
LEMMA TurnKeepsOthers ==
    ASSUME LoopInv, pc = "arm", NEW result \in Results, EndTurn(result),
           NEW a \in Arms, NEW r \in Nat \ {0}, a # arm \/ r # rep,
           NEW n, Ends(hops[a], r, n)
    PROVE  Ends(hops'[a], r, n) /\ Column(hops'[a], r, n) = Column(hops[a], r, n)
  <1> DEFINE h == hops[a]
             g == hops'[a]
  <1>1. /\ Len(h) <= Len(g)
        /\ \A k \in 1..Len(g) :
              \/ /\ k \in 1..Len(h)
                 /\ r \in 1..Len(h[k]) /\ r \in 1..Len(g[k])
                 /\ g[k][r] = h[k][r]
              \/ /\ k \in 1..Len(h) => r > Len(h[k])
                 /\ r > Len(g[k])
    BY TurnKeepsEntries
  <1>2. hops[a] \in Seq(Seq(Results)) /\ hops'[a] \in Seq(Seq(Results))
    BY TurnAddsResult DEF LoopInv, TypeOK
  <1>3. Len(h) \in Nat /\ Len(g) \in Nat /\ \A k \in 1..Len(h) : Len(h[k]) \in Nat
    BY <1>2
  <1> HIDE DEF h, g
  <1>4. /\ n \in 0..Len(h)
        /\ \A k \in 1..n : r \in 1..Len(h[k]) /\ h[k][r].from # "-"
        /\ \A k \in (n + 1)..Len(h) : r > Len(h[k]) \/ h[k][r].from = "-"
    BY DEF Ends, h
  <1>5. ASSUME NEW k \in 1..n
        PROVE  r \in 1..Len(g[k]) /\ g[k][r] = h[k][r]
    <2>1. k \in 1..Len(h) /\ k \in 1..Len(g)
      BY <1>1, <1>3, <1>4
    <2>2. ~(r > Len(h[k]))
      BY <1>3, <1>4, <2>1
    <2> QED BY <1>1, <2>1, <2>2
  <1>6. ASSUME NEW k \in (n + 1)..Len(g)
        PROVE  r > Len(g[k]) \/ g[k][r].from = "-"
    <2>1. k \in 1..Len(g) /\ (k \in 1..Len(h) => k \in (n + 1)..Len(h))
      BY <1>3, <1>4
    <2>2. CASE r > Len(g[k])
      BY <2>2
    <2>3. CASE /\ k \in 1..Len(h) /\ r \in 1..Len(h[k]) /\ g[k][r] = h[k][r]
      <3>1. ~(r > Len(h[k]))
        BY <1>3, <2>3
      <3> QED BY <1>4, <2>1, <2>3, <3>1
    <2> QED BY <1>1, <2>1, <2>2, <2>3
  <1>7. n \in 0..Len(g)
    BY <1>1, <1>3, <1>4
  <1>8. Ends(g, r, n)
    BY <1>4, <1>5, <1>6, <1>7 DEF Ends
  <1>9. Column(g, r, n) = Column(h, r, n)
    BY <1>5 DEF Column
  <1> QED BY <1>8, <1>9 DEF h, g

LEMMA AppendedColumn ==
    ASSUME NEW n \in Nat, NEW s, s = [k \in 1..n |-> s[k]], NEW x
    PROVE  Append(s, x) = [k \in 1..(n + 1) |-> IF k = n + 1 THEN x ELSE s[k]]
  <1> DEFINE S == {s[k] : k \in 1..n} \cup {x}
  <1>1. \A k \in 1..n : s[k] \in S
    OBVIOUS
  <1>2. x \in S
    OBVIOUS
  <1> HIDE DEF S
  <1>3. s \in Seq(S) /\ Len(s) = n
    BY <1>1
  <1>4. Append(s, x) \in Seq(S) /\ Len(Append(s, x)) = n + 1
    BY <1>2, <1>3
  <1>5. Append(s, x) = [k \in 1..(n + 1) |-> Append(s, x)[k]]
    BY <1>4
  <1>6. \A k \in 1..(n + 1) : Append(s, x)[k] = IF k = n + 1 THEN x ELSE s[k]
    BY <1>2, <1>3
  <1> QED BY <1>5, <1>6

\* The path of the current repeat ends before this turn: padding leaves it as it
\* is, an answer that continues it makes it one longer.
LEMMA TurnExtends ==
    ASSUME LoopInv, pc = "arm", NEW result \in Results, EndTurn(result),
           NEW n, Ends(hops[arm], rep, n)
    PROVE  /\ n \in 0..(ttl - 1)
           /\ result.from = "-" =>
                 /\ Ends(hops'[arm], rep, n)
                 /\ Column(hops'[arm], rep, n) = Column(hops[arm], rep, n)
           /\ n = ttl - 1 /\ result.from # "-" =>
                 /\ Ends(hops'[arm], rep, ttl)
                 /\ Column(hops'[arm], rep, ttl) = Append(Column(hops[arm], rep, n), result.from)
  <1> DEFINE h == hops[arm]
             g == hops'[arm]
  <1>1. /\ ttl \in 1..MaxTtl /\ rep \in Nat /\ rep >= 1 /\ arm \in Arms
        /\ Len(h) = IF rep = 1 THEN ttl - 1 ELSE MaxTtl
        /\ \A k \in 1..Len(h) : Len(h[k]) = IF k <= ttl - 1 THEN rep ELSE rep - 1
        /\ Len(g) = IF rep = 1 THEN ttl ELSE MaxTtl
        /\ \A k \in 1..Len(h) : k # ttl => g[k] = h[k]
        /\ Len(g[ttl]) = rep /\ g[ttl][rep] = result
    BY BeforeTurn, TurnAddsResult
  <1>2. MaxTtl \in Nat
    BY ConstantTypes
  <1> HIDE DEF h, g
  <1>3. /\ n \in 0..Len(h)
        /\ \A k \in 1..n : rep \in 1..Len(h[k]) /\ h[k][rep].from # "-"
        /\ \A k \in (n + 1)..Len(h) : rep > Len(h[k]) \/ h[k][rep].from = "-"
    BY DEF Ends, h
  <1>4. n \in 0..(ttl - 1)
    <2> SUFFICES ASSUME n > ttl - 1 PROVE FALSE
      BY <1>1, <1>2, <1>3
    <2>1. ttl \in 1..n /\ ttl \in 1..Len(h)
      BY <1>1, <1>2, <1>3
    <2>2. Len(h[ttl]) = rep - 1 /\ rep \in 1..Len(h[ttl])
      BY <1>1, <1>3, <2>1
    <2> QED BY <1>1, <2>2
  <1>5. \A k \in 1..(ttl - 1) : k \in 1..Len(h) /\ k # ttl /\ g[k] = h[k]
    BY <1>1, <1>2
  <1>6. ttl \in 1..Len(g) /\ n \in 0..Len(g) /\ n \in Nat
    BY <1>1, <1>2, <1>4
  <1>7. \A k \in 1..n : k \in 1..(ttl - 1)
    BY <1>1, <1>4
  <1>8. \A k \in 1..n : g[k] = h[k]
    BY <1>5, <1>7
  <1>9. ASSUME NEW k \in (n + 1)..Len(g), k # ttl
        PROVE  rep > Len(g[k]) \/ g[k][rep].from = "-"
    <2>1. k \in (n + 1)..Len(h) /\ k \in 1..Len(h)
      BY <1>1, <1>2, <1>6, <1>9
    <2>2. g[k] = h[k]
      BY <1>1, <1>9, <2>1
    <2> QED BY <1>3, <2>1, <2>2
  <1>10. ASSUME result.from = "-"
         PROVE  Ends(g, rep, n) /\ Column(g, rep, n) = Column(h, rep, n)
    <2>1. \A k \in (n + 1)..Len(g) : rep > Len(g[k]) \/ g[k][rep].from = "-"
      BY <1>1, <1>9, <1>10
    <2>2. Ends(g, rep, n)
      BY <1>3, <1>6, <1>8, <2>1 DEF Ends
    <2> QED BY <2>2, <1>8 DEF Column
  <1>11. ASSUME n = ttl - 1, result.from # "-"
         PROVE  /\ Ends(g, rep, ttl)
                /\ Column(g, rep, ttl) = Append(Column(h, rep, n), result.from)
    <2>1. \A k \in 1..ttl : k \in 1..n \/ k = ttl
      BY <1>1, <1>11
    <2>2. \A k \in 1..ttl : rep \in 1..Len(g[k]) /\ g[k][rep].from # "-"
      <3>1. rep \in 1..Len(g[ttl])
        BY <1>1
      <3> QED BY <1>1, <1>3, <1>8, <1>11, <2>1, <3>1
    <2>3. \A k \in (ttl + 1)..Len(g) : k \in (n + 1)..Len(g) /\ k # ttl
      BY <1>1, <1>6, <1>11
    <2>4. Ends(g, rep, ttl)
      <3>1. ttl \in 0..Len(g)
        BY <1>6
      <3> QED BY <1>9, <2>2, <2>3, <3>1 DEF Ends
    <2> DEFINE old == Column(h, rep, n)
    <2>5. Len(old) = n /\ old = [k \in 1..n |-> old[k]] /\ \A k \in 1..n : old[k] = h[k][rep].from
      BY <1>6 DEF Column
    <2>6. Append(old, result.from) = [k \in 1..(n + 1) |-> IF k = n + 1 THEN result.from ELSE old[k]]
      <3> HIDE DEF old
      <3> QED BY <2>5, <1>6, AppendedColumn
    <2>7. n + 1 = ttl
      BY <1>1, <1>11
    <2>8. \A k \in 1..ttl : g[k][rep].from = IF k = ttl THEN result.from ELSE old[k]
      <3> HIDE DEF old
      <3> QED BY <1>1, <1>8, <2>1, <2>5
    <2>9. Column(g, rep, ttl) = Append(old, result.from)
      <3> HIDE DEF old
      <3> QED BY <2>6, <2>7, <2>8 DEF Column
    <2> QED BY <2>4, <2>9
  <1> QED BY <1>4, <1>10, <1>11 DEF h, g

\* A probe is sent only where the arm's path is complete up to here and may go on.
LEMMA ProbeGoesOn ==
    ASSUME LoopInv, ShapeInv, pc = "arm", Continue \/ ~Reached(arm),
           NEW result \in Results, EndTurn(result),
           NEW n, Ends(hops[arm], rep, n)
    PROVE  n = ttl - 1 /\ ~Promise!Walked(arm, Column(hops[arm], rep, n))
  <1> DEFINE h == hops[arm]
  <1>1. /\ arm \in Arms /\ ttl \in 1..MaxTtl /\ rep \in Nat /\ rep >= 1
        /\ Len(h) = IF rep = 1 THEN ttl - 1 ELSE MaxTtl
        /\ \A k \in 1..Len(h) : Len(h[k]) = IF k <= ttl - 1 THEN rep ELSE rep - 1
    BY BeforeTurn
  <1>2. MaxTtl \in Nat /\ n \in 0..(ttl - 1)
    BY ConstantTypes, TurnExtends
  <1>3. Reached(arm) <=> \/ Dst(arm) = SourceIp
                         \/ \E k \in 1..(ttl - 1) : h[k][rep].from = Dst(arm)
    <2>1. Filled(arm) = ttl - 1
      BY FilledAfterTurn
    <2>2. NodesKnown
      BY DEF LoopInv
    <2> QED BY <1>1, <2>1, <2>2 DEF NodesKnown
  <1>4. n = ttl - 1
    <2> SUFFICES ASSUME n < ttl - 1 PROVE FALSE
      BY <1>1, <1>2
    <2>1. n + 1 \in 1..(ttl - 1) /\ n + 1 \in 1..Len(h) /\ n + 1 \in (n + 1)..Len(h)
          /\ \A k \in 1..(n + 1) : k \in 1..(ttl - 1)
      BY <1>1, <1>2
    <2>2. Len(h[n + 1]) = rep /\ rep \in 1..Len(h[n + 1])
      BY <1>1, <2>1
    <2>3. h[n + 1][rep].from = "-"
      <3>1. ~(rep > Len(h[n + 1]))
        BY <1>1, <2>2
      <3>2. \A k \in (n + 1)..Len(h) : rep > Len(h[k]) \/ h[k][rep].from = "-"
        BY DEF Ends
      <3> QED BY <2>1, <3>1, <3>2
    <2>4. ~Continue
      BY <1>1, <2>1, <2>2, <2>3 DEF ShapeInv, WalksOn, Indices
    <2>5. \/ Dst(arm) = SourceIp
          \/ \E j \in 1..((n + 1) - 1) : h[j][rep].from = Dst(arm)
      BY <1>1, <2>1, <2>2, <2>3 DEF LoopInv, PaddingIsEarned, Indices
    <2>6. \A j \in 1..((n + 1) - 1) : j \in 1..(ttl - 1)
      BY <1>1, <1>2
    <2> QED BY <1>3, <2>4, <2>5, <2>6
  <1>5. Len(Column(h, rep, n)) = n /\ \A k \in 1..n : Column(h, rep, n)[k] = h[k][rep].from
    BY <1>2 DEF Column
  <1>6. n # MaxTtl
    BY <1>1, <1>2, <1>4
  <1> HIDE DEF h
  <1>7. ~Promise!Walked(arm, Column(h, rep, n))
    BY <1>3, <1>4, <1>5, <1>6 DEF Promise!Walked, Promise!Arrived
  <1> QED BY <1>4, <1>7 DEF h

\* What a turn does to what is seen: padding nothing, an answer one more on the
\* arm's path of this repeat.
LEMMA TurnSeen ==
    ASSUME LoopInv, ShapeInv, pc = "arm", NEW result \in Results, EndTurn(result)
    PROVE  /\ result.from = "-" => Seen' = Seen
           /\ result.from # "-" /\ (Continue \/ ~Reached(arm)) =>
                 /\ Seen' = [Seen EXCEPT ![arm][rep] = Append(@, result.from)]
                 /\ ~Promise!Walked(arm, Seen[arm][rep])
  <1>1. /\ arm \in Arms /\ rep \in 1..Repeats /\ rep \in Nat /\ rep >= 1
        /\ hops' \in [Arms -> Seq(Seq(Results))] /\ DOMAIN hops' = Arms
    BY BeforeTurn, TurnAddsResult DEF LoopInv, TypeOK
  <1>2. \A a \in Arms, r \in 1..Repeats : Seen'[a][r] = Froms(Path(hops'[a], r))
    BY <1>1 DEF Seen, PathsOf
  <1>3. \A r \in 1..Repeats : r \in Nat \ {0} /\ r \in Nat
    BY ConstantTypes
  <1>4. ASSUME NEW a \in Arms, NEW r \in 1..Repeats, a # arm \/ r # rep
        PROVE  Seen'[a][r] = Seen[a][r]
    <2>1. PICK n : Ends(hops[a], r, n) /\ Seen[a][r] = Column(hops[a], r, n)
      BY SeenEnds
    <2>2. Ends(hops'[a], r, n) /\ Column(hops'[a], r, n) = Column(hops[a], r, n)
      BY <1>3, <1>4, <2>1, TurnKeepsOthers
    <2>3. hops'[a] \in Seq(Seq(Results))
      BY <1>1
    <2> QED BY <1>2, <1>3, <2>1, <2>2, <2>3, FromsOfEnds
  <1>5. PICK n : Ends(hops[arm], rep, n) /\ Seen[arm][rep] = Column(hops[arm], rep, n)
    BY <1>1, SeenEnds
  <1>6. hops'[arm] \in Seq(Seq(Results))
    BY <1>1
  <1>7. DOMAIN Seen' = Arms /\ DOMAIN Seen = Arms
    BY DEF Seen, PathsOf
  <1>8. /\ Seen = [a \in Arms |-> [r \in 1..Repeats |-> Seen[a][r]]]
        /\ Seen' = [a \in Arms |-> [r \in 1..Repeats |-> Seen'[a][r]]]
    BY DEF Seen, PathsOf
  <1>9. ASSUME result.from = "-"
        PROVE  Seen' = Seen
    <2>1. Seen'[arm][rep] = Seen[arm][rep]
      BY <1>1, <1>2, <1>5, <1>6, <1>9, TurnExtends, FromsOfEnds
    <2>2. \A a \in Arms, r \in 1..Repeats : Seen'[a][r] = Seen[a][r]
      BY <1>4, <2>1
    <2> QED BY <1>8, <2>2
  <1>10. ASSUME result.from # "-", Continue \/ ~Reached(arm)
         PROVE  /\ Seen' = [Seen EXCEPT ![arm][rep] = Append(@, result.from)]
                /\ ~Promise!Walked(arm, Seen[arm][rep])
    <2>1. n = ttl - 1 /\ ~Promise!Walked(arm, Seen[arm][rep])
      BY <1>5, <1>10, ProbeGoesOn
    <2>2. Ends(hops'[arm], rep, ttl)
          /\ Column(hops'[arm], rep, ttl) = Append(Seen[arm][rep], result.from)
      BY <1>5, <1>10, <2>1, TurnExtends
    <2>3. Seen'[arm][rep] = Append(Seen[arm][rep], result.from)
      BY <1>1, <1>2, <1>6, <2>2, FromsOfEnds
    <2>4. \A a \in Arms, r \in 1..Repeats :
             Seen'[a][r] = IF a = arm /\ r = rep THEN Append(Seen[arm][rep], result.from)
                           ELSE Seen[a][r]
      BY <1>4, <2>3
    <2>5. Seen' = [Seen EXCEPT ![arm][rep] = Append(@, result.from)]
      <3> DEFINE old == Seen
                 new == Seen'
                 then == [old EXCEPT ![arm][rep] = Append(@, result.from)]
      <3>1. /\ old = [a \in Arms |-> [r \in 1..Repeats |-> old[a][r]]]
            /\ new = [a \in Arms |-> [r \in 1..Repeats |-> new[a][r]]]
            /\ \A a \in Arms, r \in 1..Repeats :
                  new[a][r] = IF a = arm /\ r = rep THEN Append(old[arm][rep], result.from)
                              ELSE old[a][r]
        BY <1>8, <2>4
      <3> HIDE DEF old, new
      <3> DEFINE row == [old[arm] EXCEPT ![rep] = Append(@, result.from)]
      <3>2. /\ old[arm] = [r \in 1..Repeats |-> old[arm][r]]
            /\ new[arm] = [r \in 1..Repeats |-> new[arm][r]]
        BY <1>1, <3>1
      <3>3. new[arm] = row
        BY <1>1, <3>1, <3>2
      <3>4. ASSUME NEW a \in Arms, a # arm PROVE new[a] = old[a]
        <4>1. /\ old[a] = [r \in 1..Repeats |-> old[a][r]]
              /\ new[a] = [r \in 1..Repeats |-> new[a][r]]
          BY <3>1
        <4>2. \A r \in 1..Repeats : new[a][r] = old[a][r]
          BY <3>1, <3>4
        <4> QED BY <4>1, <4>2
      <3>5. new = [old EXCEPT ![arm] = row]
        <4>1. DOMAIN old = Arms /\ DOMAIN new = Arms /\ new = [a \in Arms |-> new[a]]
          BY <3>1
        <4> HIDE DEF row
        <4> QED BY <1>1, <3>3, <3>4, <4>1
      <3>6. new = then
        BY <3>5
      <3> QED BY <3>6 DEF old, new, then
    <2> QED BY <2>1, <2>5
  <1> QED BY <1>9, <1>10

LEMMA CapturesKept == files' = files => Captured' = Captured
  BY DEF Captured, Written, NoFile, Truncated

LEMMA TurnImplements ==
    ASSUME LoopInv, ShapeInv, SkipTurn \/ ReachedTurn \/ ProbeTurn
    PROVE  /\ rep' = rep /\ Captured' = Captured
           /\ Seen' = Seen \/ \E a \in Arms : Promise!Walk(a)
  <1>1. CASE SkipTurn \/ ReachedTurn
    <2>1. pc = "arm" /\ EndTurn(Dash) /\ Dash \in Results /\ Dash.from = "-"
      BY <1>1, DashIsResult DEF SkipTurn, ReachedTurn, Dash
    <2>2. rep' = rep /\ files' = files
      BY <2>1 DEF EndTurn
    <2> QED BY <2>1, <2>2, TurnSeen, CapturesKept
  <1>2. CASE ProbeTurn
    <2>1. pc = "arm" /\ (Continue \/ ~Reached(arm)) /\ arm \in Arms
      BY <1>2 DEF ProbeTurn, LoopInv, TypeOK
    <2>2. PICK result \in Outcomes(arm) : EndTurn(result)
      BY <1>2 DEF ProbeTurn
    <2>3. result \in Results /\ result.from \in Addresses \cup {Silence} /\ result.from # "-"
      BY <2>1, OutcomeIsResult
    <2>4. rep' = rep /\ files' = files /\ rep > 0
      BY <2>1, <2>2 DEF EndTurn, LoopInv, LoopPosition
    <2>5. Captured' = Captured
      BY <2>4, CapturesKept
    <2>6. /\ Seen' = [Seen EXCEPT ![arm][rep] = Append(@, result.from)]
          /\ ~Promise!Walked(arm, Seen[arm][rep])
      BY <2>1, <2>2, <2>3, TurnSeen
    <2>7. Promise!Walk(arm)
      BY <2>3, <2>4, <2>5, <2>6 DEF Promise!Walk, Seen, Captured
    <2> QED BY <2>1, <2>4, <2>5, <2>7
  <1> QED BY <1>1, <1>2

\* A repeat starts when every arm has ended its path of the last one.
LEMMA RepeatImplements ==
    ASSUME LoopInv, ShapeInv, StartRepeat
    PROVE  Promise!NextRound
  <1>1. /\ pc = "repeat" /\ rep < Repeats /\ rep' = rep + 1
        /\ hops' = hops /\ files' = files /\ rep \in 0..Repeats /\ rep \in Nat
    BY ConstantTypes DEF StartRepeat, entries, LoopInv, TypeOK
  <1>2. Captured' = Captured /\ Seen' = Seen
    BY <1>1, CapturesKept DEF Seen
  <1>3. ASSUME rep > 0, NEW a \in Arms
        PROVE  Promise!Walked(a, Seen[a][rep])
    <2>1. rep \in 1..Repeats
      BY <1>1, <1>3, ConstantTypes
    <2>2. PICK n : /\ Ends(hops[a], rep, n) /\ n \in 0..Len(hops[a])
                   /\ Seen[a][rep] = Column(hops[a], rep, n) /\ Len(Seen[a][rep]) = n
      BY <2>1, SeenEnds
    <2> DEFINE h == hops[a]
    <2>3. Len(h) = MaxTtl /\ \A k \in 1..Len(h) : Len(h[k]) = rep
      <3>1. Filled(a) = MaxTtl
        BY <1>1 DEF Filled
      <3>2. /\ Len(h) = (IF rep = 1 THEN Filled(a) ELSE MaxTtl)
            /\ \A k \in Indices(h) : Len(h[k]) = (IF k <= Filled(a) THEN rep ELSE rep - 1)
        BY <1>1, <1>3 DEF LoopInv, RepeatsAligned, Looping
      <3> HIDE DEF h
      <3> QED BY <3>1, <3>2, ConstantTypes DEF Indices
    <2>4. CASE n = MaxTtl
      BY <2>2, <2>4 DEF Promise!Walked
    <2>5. CASE n # MaxTtl
      <3>1. n + 1 \in 1..Len(h) /\ n + 1 \in (n + 1)..Len(h) /\ n \in Nat
        <4> HIDE DEF h
        <4> QED BY <2>2, <2>3, <2>5, ConstantTypes DEF h
      <3>2. rep \in 1..Len(h[n + 1]) /\ ~(rep > Len(h[n + 1]))
        <4> HIDE DEF h
        <4> QED BY <2>1, <2>3, <3>1
      <3>3. h[n + 1][rep].from = "-"
        BY <2>2, <3>1, <3>2 DEF Ends
      <3>4. ~Continue
        BY <3>1, <3>2, <3>3 DEF ShapeInv, WalksOn, Indices
      <3>5. \/ Dst(a) = SourceIp
            \/ \E j \in 1..((n + 1) - 1) : h[j][rep].from = Dst(a)
        BY <3>1, <3>2, <3>3 DEF LoopInv, PaddingIsEarned, Indices
      <3>6. \A j \in 1..((n + 1) - 1) : j \in 1..n /\ Seen[a][rep][j] = h[j][rep].from
        BY <2>2, <3>1 DEF Column
      <3> HIDE DEF h
      <3> QED BY <2>2, <3>4, <3>5, <3>6 DEF Promise!Walked, Promise!Arrived
    <2> QED BY <2>4, <2>5
  <1> QED BY <1>1, <1>2, <1>3 DEF Promise!NextRound, Seen, Captured

\* Creating a file captures nothing; writing it captures what is seen.
LEMMA WrittenAfter ==
    ASSUME DOMAIN files = {"full", "partial"}, NEW kind \in {"full", "partial"},
           files[kind] \in Unwritten, NEW file, files' = [files EXCEPT ![kind] = file]
    PROVE  /\ file \in Unwritten => Written' = Written
           /\ file \notin Unwritten => Written' = Written \cup {file.doc}
  <1> DEFINE Kinds == {"full", "partial"}
             Full(fs) == {fs[k] : k \in Kinds} \ Unwritten
  <1>1. /\ files'[kind] = file
        /\ \A other \in Kinds : other # kind => files'[other] = files[other]
    OBVIOUS
  <1>2. Written = {f.doc : f \in Full(files)} /\ Written' = {f.doc : f \in Full(files')}
    BY DEF Written, Unwritten, NoFile, Truncated
  <1>3. file \in Unwritten => Full(files') = Full(files)
    BY <1>1
  <1>4. file \notin Unwritten => Full(files') = Full(files) \cup {file}
    BY <1>1
  <1> HIDE DEF Full
  <1> QED BY <1>2, <1>3, <1>4

LEMMA FilesImplement ==
    ASSUME TraceInv, OpenMeasurement \/ OpenPartial \/ WriteMeasurement \/ WritePartial
    PROVE  /\ rep' = rep /\ Seen' = Seen
           /\ Captured' = Captured \/ Captured' = Captured \cup {Seen}
  <1> USE DEF OpenMeasurement, OpenPartial, WriteMeasurement, WritePartial, OpenFile, WriteFile
  <1>1. rep' = rep /\ hops' = hops
    BY DEF loop, entries
  <1>2. Seen' = Seen
    BY <1>1 DEF Seen
  <1>3. DOMAIN files = {"full", "partial"}
    BY DEF TraceInv, CaptureInv, FilesTrue
  <1>4. /\ pc \in {"open", "write"} => files["full"] \in Unwritten
        /\ pc \in {"partial open", "partial write"} => files["partial"] \in Unwritten
    BY DEF TraceInv, CaptureInv, FilesTrue, Handling
  <1>5. CASE OpenMeasurement \/ OpenPartial
    <2>1. PICK kind \in {"full", "partial"} :
             files[kind] \in Unwritten /\ files' = [files EXCEPT ![kind] = Truncated]
      BY <1>4, <1>5
    <2>2. Truncated \in Unwritten
      BY DEF Unwritten
    <2>3. Written' = Written
      BY <1>3, <2>1, <2>2, WrittenAfter
    <2> QED BY <1>1, <1>2, <2>3 DEF Captured
  <1>6. CASE WriteMeasurement \/ WritePartial
    <2>1. PICK kind \in {"full", "partial"} : \E n :
             /\ files[kind] \in Unwritten
             /\ files' = [files EXCEPT ![kind] = Holding(Document(n))]
             /\ n = Len(Destinations) \/ n = made[1]
             /\ pc \in {"write", "partial write"}
      BY <1>4, <1>6
    <2>8. PICK n :
             /\ files[kind] \in Unwritten
             /\ files' = [files EXCEPT ![kind] = Holding(Document(n))]
             /\ n = Len(Destinations) \/ n = made[1]
             /\ pc \in {"write", "partial write"}
      BY <2>1
    <2> DEFINE doc == Document(n)
    <2>2. TrueDocument(doc)
      BY <2>8, DocumentIsTrue DEF TraceInv
    <2> HIDE DEF doc
    <2>3. Holding(doc) \notin Unwritten /\ Holding(doc).doc = doc
      BY DEF Holding, Unwritten, NoFile, Truncated
    <2>4. files' = [files EXCEPT ![kind] = Holding(doc)]
      BY <2>8 DEF doc
    <2>5. Written' = Written \cup {doc}
      BY <1>3, <2>8, <2>3, <2>4, WrittenAfter
    <2>6. PathsOf(HopsIn(doc)) = Seen
      BY <2>2, DocumentShowsPaths DEF TraceInv
    <2>7. Captured' = Captured \cup {Seen}
      BY <2>5, <2>6 DEF Captured
    <2> QED BY <1>1, <1>2, <2>7
  <1> QED BY <1>5, <1>6

\* The steps no one outside can see.
LEMMA SilentSteps ==
    ASSUME LoopInv,
           \/ AppendEntry \/ ClassifyBeforeTrace \/ Preflight \/ StartRow \/ EndTrace
           \/ Finalise \/ ReturnPath \/ SavePartialMeasurement \/ Render
           \/ ProbeError \/ Interrupt \/ InterruptHandler
    PROVE  rep' = rep /\ Seen' = Seen /\ Captured' = Captured
  <1>1. rep' = rep /\ hops' = hops /\ files' = files
    BY DEF entries, loop, AppendEntry, ClassifyBeforeTrace, Preflight, StartRow, EndTrace,
           Finalise, ReturnPath, SavePartialMeasurement, Render, ProbeError, Interrupt,
           InterruptHandler
  <1> QED BY <1>1, CapturesKept DEF Seen

LEMMA InitImplements == Init => Promise!TInit
  <1> SUFFICES ASSUME Init PROVE Promise!TInit
    OBVIOUS
  <1>1. \A a \in Arms, r \in 1..Repeats : r \in Nat /\ hops[a] = <<>>
    BY ConstantTypes DEF Init
  <1>2. DOMAIN hops = Arms
    BY DEF Init
  <1>3. Seen = [a \in Arms |-> [r \in 1..Repeats |-> <<>>]]
    BY <1>1, <1>2, NothingSeen DEF Seen, PathsOf
  <1>4. Written = {}
    BY DEF Init, Written
  <1> QED BY <1>3, <1>4 DEF Init, Promise!TInit, Seen

LEMMA StepImplements == TraceInv /\ [Next]_vars => [Promise!TNext]_(Promise!tvars)
  <1> SUFFICES ASSUME TraceInv, [Next]_vars PROVE [Promise!TNext]_(Promise!tvars)
    OBVIOUS
  <1> USE DEF TraceInv
  <1>1. ASSUME rep' = rep, Seen' = Seen, Captured' = Captured
        PROVE  UNCHANGED Promise!tvars
    BY <1>1 DEF Promise!tvars, Seen, Captured
  <1>2. CASE SkipTurn \/ ReachedTurn \/ ProbeTurn
    BY <1>1, <1>2, TurnImplements DEF Promise!TNext
  <1>3. CASE StartRepeat
    BY <1>3, RepeatImplements DEF Promise!TNext
  <1>4. CASE OpenMeasurement \/ OpenPartial \/ WriteMeasurement \/ WritePartial
    <2>1. /\ rep' = rep /\ Seen' = Seen
          /\ Captured' = Captured \/ Captured' = Captured \cup {Seen}
      BY <1>4, FilesImplement
    <2>2. CASE Captured' = Captured \cup {Seen}
      BY <2>1, <2>2 DEF Promise!TNext, Promise!Capture, Seen, Captured
    <2> QED BY <1>1, <2>1, <2>2
  <1>5. CASE \/ AppendEntry \/ ClassifyBeforeTrace \/ Preflight \/ StartRow \/ EndTrace
             \/ Finalise \/ ReturnPath \/ SavePartialMeasurement \/ Render
             \/ ProbeError \/ Interrupt \/ InterruptHandler
    BY <1>1, <1>5, SilentSteps
  <1>6. CASE UNCHANGED vars
    <2>1. rep' = rep /\ hops' = hops /\ files' = files
      BY <1>6 DEF vars, entries, loop
    <2> QED BY <1>1, <2>1, CapturesKept DEF Seen
  <1> QED BY <1>2, <1>3, <1>4, <1>5, <1>6 DEF Next, Progress

-----------------------------------------------------------------------------
(* The theorems *)

THEOREM TraceInvariant == Spec => []TraceInv
  <1>1. Init => TraceInv
    BY InitLoopInv, InitShapeInv, InitCaptureInv DEF TraceInv
  <1>2. TraceInv /\ [Next]_vars => TraceInv'
    BY StepTraceInv
  <1> QED BY <1>1, <1>2, PTL DEF Spec

\* The variables of the tracer keep their types.
THEOREM TypeCorrectness == Spec => []TypeOK
  <1>1. TraceInv => TypeOK
    BY DEF TraceInv, LoopInv
  <1> QED BY <1>1, TraceInvariant, PTL

\* The r-th result of a hop is the result of repeat r.
THEOREM PositionIsRepeat == Spec => []RepeatsAligned
  <1>1. TraceInv => RepeatsAligned
    BY DEF TraceInv, LoopInv
  <1> QED BY <1>1, TraceInvariant, PTL

\* Nothing is sent past a destination that has answered in the same repeat.
THEOREM NothingPastDestination == Spec => []StopsAtDestination
  <1>1. TraceInv => StopsAtDestination
    BY DEF TraceInv, LoopInv
  <1> QED BY <1>1, TraceInvariant, PTL

\* Padding never stands in for a probe that was owed.
THEOREM PaddingOnlyPastDestination == Spec => []PaddingIsEarned
  <1>1. TraceInv => PaddingIsEarned
    BY DEF TraceInv, LoopInv
  <1> QED BY <1>1, TraceInvariant, PTL

\* No hop, in memory or in a written capture, has more results than the first.
THEOREM FirstHopSizesTheRest == Spec => []FirstHopIsWidest
  BY TraceFirstHop, TraceInvariant, PTL

\* Where the trace, or the handler of a Ctrl-C, returns without a file, no probe
\* had been sent, wherever Ctrl-C struck.
THEOREM ReturnsWithoutFileUnsent == Spec => []NothingLostSilently
  BY TraceNothingLost, TraceInvariant, PTL

\* The flags of a written capture follow from the hops in that capture, however
\* the trace ended.
THEOREM FlagsFollowHops == Spec => []PostureMatchesHops
  BY TracePosture, TraceInvariant, PTL

\* Behind its loops, shared rows, padding and files, the trace is a Traceroute:
\* every arm walks its own path in every repeat, all end a repeat before the next
\* one starts, and every file shows exactly the paths walked so far.
THEOREM TraceImplementsTraceroute == Spec => TraceroutePromise
  BY InitImplements, StepImplements, TraceInvariant, PTL
  DEF Spec, TraceroutePromise, Promise!TSpec
=============================================================================
