---------------------------- MODULE VerdictProofs ----------------------------
(***************************************************************************)
(* Proofs about the verdicts of the program: the sweep of Reassembly, for    *)
(* every list of pauses, number of segments and patience of the middlebox;   *)
(* Arms and Atlas, for any length of the path and any number of results,     *)
(* instants, outages and failures; and main, which calls them one after the  *)
(* other: that every verdict still holds there, and what its exit code says. *)
(***************************************************************************)
EXTENDS CommandLine, NaturalFacts, SequenceTheorems, TLAPS

-----------------------------------------------------------------------------
(* The sweep: the plan and the segments *)

LEMMA PlanFacts ==
    /\ Len(Plan) \in Nat /\ Len(Plan) = Len(Delays) + 1 /\ Len(Plan) >= 2
    /\ Plan[1].count = 1 /\ Plan[1].delay = 0
    /\ \A p \in 2..Len(Plan) : /\ p - 1 \in DOMAIN Delays
                               /\ Plan[p].count = SegmentCount
                               /\ Plan[p].delay = Delays[p - 1]
                               /\ Delays[p - 1] \in Nat
  <1> DEFINE rest == [i \in DOMAIN Delays |-> [count |-> SegmentCount, delay |-> Delays[i]]]
             first == [count |-> 1, delay |-> 0]
  <1>1. /\ Len(Delays) \in Nat /\ Len(Delays) > 0
        /\ DOMAIN Delays = 1..Len(Delays)
        /\ \A i \in 1..Len(Delays) : Delays[i] \in Nat
    BY DelaysAssumption, LenProperties, ElementOfSeq
  <1>2. /\ rest \in Seq([count : Nat, delay : Nat])
        /\ Len(rest) = Len(Delays)
    BY <1>1, SegmentAssumption
  <1>3. Plan = <<first>> \o rest
    BY DEF Plan
  <1> HIDE DEF rest
  <1>4. \A i \in 1..Len(Delays) : rest[i] = [count |-> SegmentCount, delay |-> Delays[i]]
    BY <1>1 DEF rest
  <1>5. /\ Len(Plan) = 1 + Len(rest)
        /\ Plan[1] = first
        /\ \A p \in 2..Len(Plan) : Plan[p] = rest[p - 1]
    <2> DEFINE probes == [count : Nat, delay : Nat]
    <2>1. <<first>> \in Seq(probes) /\ Len(<<first>>) = 1 /\ <<first>>[1] = first
      OBVIOUS
    <2> HIDE DEF first
    <2>2. rest \in Seq(probes) /\ Len(rest) \in Nat
      BY <1>1, <1>2
    <2> HIDE DEF probes
    <2>3. /\ Len(Plan) = 1 + Len(rest)
          /\ \A p \in 1..(1 + Len(rest)) :
                 Plan[p] = IF p <= 1 THEN <<first>>[p] ELSE rest[p - 1]
      BY <1>3, <2>1, <2>2, ConcatProperties
    <2> QED BY <2>1, <2>2, <2>3
  <1>6. \A p \in 2..Len(Plan) : p - 1 \in 1..Len(Delays)
    BY <1>1, <1>2, <1>5
  <1>7. \A p \in 2..Len(Plan) : Plan[p] = [count |-> SegmentCount, delay |-> Delays[p - 1]]
    BY <1>4, <1>5, <1>6
  <1>8. Len(Plan) \in Nat /\ Len(Plan) = Len(Delays) + 1 /\ Len(Plan) >= 2
    BY <1>1, <1>2, <1>5
  <1>9. ASSUME NEW p \in 2..Len(Plan)
        PROVE  /\ p - 1 \in DOMAIN Delays /\ Delays[p - 1] \in Nat
               /\ Plan[p].count = SegmentCount /\ Plan[p].delay = Delays[p - 1]
    <2>1. p - 1 \in 1..Len(Delays)
      BY <1>6
    <2>2. Plan[p] = [count |-> SegmentCount, delay |-> Delays[p - 1]]
      BY <1>7
    <2> QED BY <1>1, <2>1, <2>2
  <1>10. Plan[1].count = 1 /\ Plan[1].delay = 0
    BY <1>5
  <1> QED BY <1>8, <1>9, <1>10

\* The segments of a probe start at the first byte without a pause and end at
\* the last byte of the payload.
LEMMA SegmentFacts ==
    ASSUME NEW count \in Nat \ {0}, NEW delay \in Nat
    PROVE  LET segs == Segments(count, delay)
           IN  /\ Len(segs) \in 1..count
               /\ segs[1].delay = 0
               /\ \A i \in 1..Len(segs) :
                     /\ segs[i].seq \in 0..PayloadLength
                     /\ segs[i].delay \in {0, delay}
               /\ segs[Len(segs)].seq + segs[Len(segs)].size = PayloadLength
  <1> DEFINE n == IF count < PayloadLength THEN count ELSE PayloadLength
             base == PayloadLength \div n
             extra == PayloadLength % n
             start(i) == (i - 1) * base + (IF i - 1 < extra THEN i - 1 ELSE extra)
             segs == Segments(count, delay)
  <1>1. n \in Nat /\ n >= 1 /\ n <= count /\ PayloadLength \in Nat
    BY PayloadAssumption
  <1>2. segs = [i \in 1..n |-> [seq |-> start(i), size |-> start(i + 1) - start(i),
                               delay |-> IF i = 1 THEN 0 ELSE delay]]
    BY DEF Segments
  <1> HIDE DEF n
  <1>3. base \in Nat /\ extra \in Nat /\ extra < n /\ n * base + extra = PayloadLength
    BY <1>1
  <1> HIDE DEF base, extra
  <1>4. ASSUME NEW i \in 1..(n + 1)
        PROVE  start(i) \in 0..PayloadLength
    <2>1. (i - 1) * base \in Nat /\ (i - 1) * base <= n * base
      <3>1. n - (i - 1) \in Nat /\ i - 1 \in Nat
        BY <1>1
      <3>2. (n - (i - 1)) * base \in Nat /\ (i - 1) * base \in Nat
        BY <1>3, <3>1
      <3>3. n * base = (n - (i - 1)) * base + (i - 1) * base
        BY <1>1, <1>3
      <3> QED BY <3>2, <3>3, <1>1, <1>3
    <2> QED BY <1>1, <1>3, <2>1
  <1>5. start(n + 1) = PayloadLength
    BY <1>1, <1>3
  <1> HIDE DEF start
  <1>6. Len(segs) = n
    BY <1>1, <1>2
  <1>7. \A i \in 1..n : segs[i].seq = start(i) /\ segs[i].size = start(i + 1) - start(i)
                        /\ segs[i].delay = IF i = 1 THEN 0 ELSE delay
    BY <1>2
  <1>8. start(n) \in Int /\ start(n + 1) \in Int
    BY <1>1, <1>4
  <1>9. \A i \in 1..n : start(i) \in 0..PayloadLength
    BY <1>1, <1>4
  <1> HIDE DEF segs
  <1>10. segs[n].seq + segs[n].size = PayloadLength
    BY <1>1, <1>5, <1>7, <1>8
  <1>11. Len(segs) \in 1..count /\ segs[1].delay = 0
    BY <1>1, <1>6, <1>7
  <1>12. \A i \in 1..n : segs[i].seq \in 0..PayloadLength /\ segs[i].delay \in {0, delay}
    BY <1>7, <1>9
  <1>13. /\ Len(segs) \in 1..count /\ segs[1].delay = 0
         /\ \A i \in 1..Len(segs) :
               segs[i].seq \in 0..PayloadLength /\ segs[i].delay \in {0, delay}
         /\ segs[Len(segs)].seq + segs[Len(segs)].size = PayloadLength
    BY <1>6, <1>10, <1>11, <1>12
  <1> QED BY <1>13 DEF segs

-----------------------------------------------------------------------------
(* The sweep: the invariant *)

\* Where the sweep is in its plan.
Place ==
    /\ step = "idle" => outcomes = <<>>
    /\ step = "pause" => probe # Len(Plan)
    /\ step \in {"classify", "done"} => probe = Len(Plan)
    /\ (box = "stream" /\ step # "idle") => hold \in Holds

\* A stream box whose patience is longer than every pause of the probe holds it
\* from its first byte and has fired when the last segment is out.
Short == probe # 1 /\ Delays[probe - 1] < hold
Sending ==
    step = "send" =>
        /\ sent <= Len(Current)
        /\ (box = "stream" /\ Short) => (kept = 0 /\ (sent = Len(Current) => fired = TRUE))

\* A stream box lets a cut payload pass only after a pause of at least `hold`.
DeliveredIsExpired ==
    box = "stream" =>
        \A i \in 2..Len(outcomes) : outcomes[i] = "delivered" => hold <= Delays[i - 1]

SweepInv ==
    SweepTypes /\ Place /\ Sending /\ DeliveredIsExpired /\ BufferHasExpired

LEMMA CurrentFacts ==
    ASSUME probe \in 1..Len(Plan)
    PROVE  /\ Len(Current) \in 1..SegmentCount
           /\ \A i \in 1..Len(Current) : /\ Current[i].seq \in 0..PayloadLength
                                         /\ Current[i].delay \in Nat
           /\ Current[1].delay = 0
           /\ probe # 1 => \A i \in 1..Len(Current) : Current[i].delay \in {0, Delays[probe - 1]}
           /\ Current[Len(Current)].seq + Current[Len(Current)].size = PayloadLength
  <1> DEFINE count == Plan[probe].count
             delay == Plan[probe].delay
  <1>1. /\ count \in Nat \ {0} /\ count <= SegmentCount /\ delay \in Nat
        /\ probe # 1 => delay = Delays[probe - 1]
    <2>1. CASE probe = 1
      BY <2>1, PlanFacts, SegmentAssumption
    <2>2. CASE probe # 1
      <3>1. probe \in 2..Len(Plan)
        BY <2>2, PlanFacts
      <3> QED BY <3>1, PlanFacts, SegmentAssumption
    <2> QED BY <2>1, <2>2
  <1>2. Current = Segments(count, delay)
    BY DEF Current
  <1> HIDE DEF count, delay
  <1>3. /\ Len(Current) \in 1..count
        /\ Current[1].delay = 0
        /\ \A i \in 1..Len(Current) :
              Current[i].seq \in 0..PayloadLength /\ Current[i].delay \in {0, delay}
        /\ Current[Len(Current)].seq + Current[Len(Current)].size = PayloadLength
    BY <1>1, <1>2, SegmentFacts
  <1>4. Len(Current) \in 1..SegmentCount
    BY <1>1, <1>3, SegmentAssumption
  <1> QED BY <1>1, <1>3, <1>4

LEMMA SweepInit == ReassemblyInit => SweepInv
  <1> SUFFICES ASSUME ReassemblyInit PROVE SweepInv
    OBVIOUS
  <1>1. SweepTypes
    <2>1. 1 \in 1..Len(Plan)
      BY PlanFacts
    <2>2. 0 \in 0..SegmentCount /\ 0 \in 0..PayloadLength
      BY SegmentAssumption, PayloadAssumption
    <2>3. <<>> \in Seq(Answers) /\ Len(<<>>) = 0
      OBVIOUS
    <2>4. Len(outcomes) = probe - (IF step \in {"idle", "syn", "send"} THEN 1 ELSE 0)
      <3>1. step \in {"idle", "syn", "send"} /\ probe = 1 /\ Len(outcomes) = 0
        BY <2>3 DEF ReassemblyInit
      <3> QED BY <3>1
    <2>5. /\ box \in Boxes /\ hold \in Holds \cup {0}
          /\ step \in {"idle", "syn", "send", "pause", "classify", "done"}
          /\ fired \in BOOLEAN /\ lost \subseteq 1..Len(Plan)
          /\ verdict \in Verdicts \cup {"none"} /\ bufferMs \in Nat \cup {-1}
      BY DEF ReassemblyInit, Boxes
    <2>6. probe = 1 /\ sent = 0 /\ kept = 0 /\ outcomes = <<>>
      BY DEF ReassemblyInit
    <2> QED BY <2>1, <2>2, <2>3, <2>4, <2>5, <2>6 DEF SweepTypes
  <1>2. Place /\ Sending /\ BufferHasExpired
    BY DEF ReassemblyInit, Place, Sending, BufferHasExpired
  <1>3. DeliveredIsExpired
    BY DEF ReassemblyInit, DeliveredIsExpired
  <1> QED BY <1>1, <1>2, <1>3 DEF SweepInv

-----------------------------------------------------------------------------
(* The sweep: its steps *)

LEMMA OutcomesSoFar ==
    ASSUME SweepInv
    PROVE  /\ probe \in 1..Len(Plan) /\ Len(Plan) \in Nat
           /\ outcomes \in Seq(Answers)
           /\ step \in {"idle", "syn", "send"} => Len(outcomes) + 1 = probe
           /\ step \notin {"idle", "syn", "send"} => Len(outcomes) = probe
  <1>1. /\ probe \in 1..Len(Plan) /\ outcomes \in Seq(Answers)
        /\ Len(outcomes) = probe - (IF step \in {"idle", "syn", "send"} THEN 1 ELSE 0)
    BY DEF SweepInv, SweepTypes
  <1>2. Len(Plan) \in Nat
    BY PlanFacts
  <1>3. CASE step \in {"idle", "syn", "send"}
    <2>1. Len(outcomes) = probe - 1
      BY <1>1, <1>3
    <2> QED BY <1>1, <1>2, <1>3, <2>1
  <1>4. CASE step \notin {"idle", "syn", "send"}
    <2>1. Len(outcomes) = probe - 0
      BY <1>1, <1>4
    <2> QED BY <1>1, <1>2, <1>4, <2>1
  <1> QED BY <1>3, <1>4

\* An outcome that is noted keeps the order of the plan, and a delivery through
\* a stream box comes from a pause that was long enough.
LEMMA OutcomeNoted ==
    ASSUME SweepInv, step \in {"syn", "send"}, NEW o \in Answers, Record(o),
           (o = "delivered" /\ box = "stream" /\ probe # 1) => hold <= Delays[probe - 1],
           box' = box, hold' = hold, probe' = probe
    PROVE  /\ step' \in {"pause", "classify"}
           /\ step' = "pause" => probe # Len(Plan)
           /\ step' = "classify" => probe = Len(Plan)
           /\ outcomes' \in Seq(Answers)
           /\ Len(outcomes') = probe'
           /\ DeliveredIsExpired'
  <1>1. outcomes \in Seq(Answers) /\ Len(outcomes) + 1 = probe
        /\ probe \in 1..Len(Plan) /\ Len(Plan) \in Nat
    BY OutcomesSoFar
  <1>2. outcomes' = Append(outcomes, o)
    BY DEF Record
  <1>3. /\ outcomes' \in Seq(Answers) /\ Len(outcomes') = Len(outcomes) + 1
        /\ \A i \in 1..Len(outcomes) : outcomes'[i] = outcomes[i]
        /\ outcomes'[Len(outcomes) + 1] = o
    BY <1>1, <1>2, AppendProperties
  <1>4. Len(outcomes) \in Nat
    BY <1>1, LenProperties
  <1>5. step' = IF probe < Len(Plan) THEN "pause" ELSE "classify"
    BY DEF Record
  <1>6. probe < Len(Plan) \/ probe = Len(Plan)
    BY <1>1
  <1>7. probe < Len(Plan) => probe # Len(Plan)
    BY <1>1
  <1>8. ASSUME box = "stream", NEW i \in 2..Len(outcomes'), outcomes'[i] = "delivered"
        PROVE  hold <= Delays[i - 1]
    <2>1. i \in 2..Len(outcomes) \/ (i = Len(outcomes) + 1 /\ i # 1)
      BY <1>3, <1>4
    <2>2. CASE i \in 2..Len(outcomes)
      <3>1. i \in 1..Len(outcomes)
        BY <1>4, <2>2
      <3>2. outcomes[i] = "delivered"
        BY <1>3, <1>8, <3>1
      <3> QED BY <1>8, <2>2, <3>2 DEF SweepInv, DeliveredIsExpired
    <2>3. CASE i = Len(outcomes) + 1 /\ i # 1
      <3>1. i = probe /\ probe # 1
        BY <1>1, <2>3
      <3>2. o = "delivered"
        BY <1>3, <1>8, <2>3
      <3> QED BY <1>8, <3>1, <3>2
    <2> QED BY <2>1, <2>2, <2>3
  <1>9. DeliveredIsExpired'
    BY <1>8 DEF DeliveredIsExpired
  <1>10. Len(outcomes') = probe'
    BY <1>1, <1>3
  <1> QED BY <1>3, <1>5, <1>6, <1>7, <1>9, <1>10

LEMMA ThresholdIsExpired ==
    ASSUME SweepInv, step = "classify"
    PROVE  /\ Verdict \in Verdicts
           /\ Verdict = "buffer measured" => FirstDelivered \in Nat
           /\ (Verdict = "buffer measured" /\ box = "stream") => hold <= FirstDelivered
  <1>1. Verdict \in Verdicts
    BY DEF Verdict, Verdicts
  <1>2. Verdict = "buffer measured" => Above # {}
    BY DEF Verdict
  <1>3. Len(outcomes) = Len(Plan) /\ Len(Plan) \in Nat /\ Len(Plan) = Len(Delays) + 1
    BY OutcomesSoFar, PlanFacts DEF SweepInv, Place
  <1>4. \A j \in DOMAIN Delays : Delays[j] \in Nat /\ j \in Nat /\ j + 1 \in 2..Len(outcomes)
    <2>1. DOMAIN Delays = 1..Len(Delays) /\ Len(Delays) \in Nat
      BY DelaysAssumption, LenProperties
    <2>2. \A j \in DOMAIN Delays : Delays[j] \in Nat
      BY DelaysAssumption, ElementOfSeq, <2>1
    <2> QED BY <1>3, <2>1, <2>2
  <1>5. Above \subseteq Nat /\ \A d \in Above : box = "stream" => hold <= d
    <2>1. ASSUME NEW d \in Above
          PROVE  d \in Nat /\ (box = "stream" => hold <= d)
      <3>1. PICK j \in DOMAIN Delays : outcomes[j + 1] = "delivered" /\ d = Delays[j]
        BY <2>1 DEF Above, Pauses
      <3>2. j \in Nat /\ j + 1 \in 2..Len(outcomes) /\ d \in Nat
        BY <1>4, <3>1
      <3>3. box = "stream" => hold <= Delays[(j + 1) - 1]
        BY <3>1, <3>2 DEF SweepInv, DeliveredIsExpired
      <3>4. (j + 1) - 1 = j
        BY <3>2
      <3> QED BY <3>1, <3>2, <3>3, <3>4
    <2> QED BY <2>1
  <1>6. Above # {} => FirstDelivered \in Above
    BY <1>5, LeastNatural DEF FirstDelivered
  <1> QED BY <1>1, <1>2, <1>5, <1>6

\* The segment that is sent: what a patient stream box holds, and whether it fires.
LEMMA SegmentSent ==
    ASSUME SweepInv, SendSegment
    PROVE  /\ sent' \in 0..SegmentCount /\ sent' <= Len(Current)
           /\ kept' \in 0..PayloadLength /\ fired' \in BOOLEAN
           /\ (box = "stream" /\ Short) => (kept' = 0 /\ (sent' = Len(Current) => fired' = TRUE))
  <1> DEFINE segment == Current[sent + 1]
  <1>1. /\ sent \in 0..SegmentCount /\ kept \in 0..PayloadLength /\ fired \in BOOLEAN
        /\ probe \in 1..Len(Plan) /\ hold \in Holds \cup {0}
    BY DEF SweepInv, SweepTypes
  <1>2. /\ step = "send" /\ sent < Len(Current) /\ sent' = sent + 1
        /\ kept' = IF box # "stream" \/ segment.delay >= hold THEN segment.seq ELSE kept
        /\ fired' = (fired \/ (box # "none" /\ kept' = 0
                                 /\ segment.seq + segment.size = PayloadLength))
    BY DEF SendSegment
  <1>3. /\ Len(Current) \in 1..SegmentCount
        /\ segment.seq \in 0..PayloadLength /\ segment.delay \in Nat
        /\ probe # 1 => segment.delay \in {0, Delays[probe - 1]}
    BY <1>1, <1>2, CurrentFacts
  <1>4. sent' \in 0..SegmentCount /\ sent' <= Len(Current)
    <2>1. sent < Len(Current) /\ sent' = sent + 1
      BY <1>2
    <2>2. sent \in 0..SegmentCount /\ Len(Current) \in 1..SegmentCount
      BY <1>1, <1>3
    <2> QED BY <2>1, <2>2, SegmentAssumption
  <1>5. kept' \in 0..PayloadLength
    BY <1>1, <1>2, <1>3
  <1>6. fired' \in BOOLEAN
    BY <1>1, <1>2
  <1>7. ASSUME box = "stream", Short
        PROVE  kept' = 0 /\ (sent' = Len(Current) => fired' = TRUE)
    <2>1. hold \in Nat \ {0}
      BY <1>2, <1>7, HoldsAssumption DEF SweepInv, Place
    <2>2. Delays[probe - 1] \in Nat /\ Delays[probe - 1] < hold /\ probe # 1
      <3>1. probe \in 2..Len(Plan)
        BY <1>1, <1>7, PlanFacts DEF Short
      <3> QED BY <1>7, <3>1, PlanFacts DEF Short
    <2>3. ~ (segment.delay >= hold)
      BY <1>3, <2>1, <2>2
    <2>4. kept' = 0
      BY <1>2, <1>7, <2>3 DEF SweepInv, Sending
    <2>5. ASSUME sent' = Len(Current) PROVE fired' = TRUE
      <3>1. segment = Current[Len(Current)]
        BY <1>2, <2>5
      <3>2. segment.seq + segment.size = PayloadLength
        BY <1>1, <3>1, CurrentFacts
      <3> QED BY <1>2, <1>7, <2>4, <3>2
    <2> QED BY <2>4, <2>5
  <1> QED BY <1>4, <1>5, <1>6, <1>7

\* Every step keeps the invariant.
LEMMA SweepStep == SweepInv /\ [ReassemblyNext]_sweepVars => SweepInv'
  <1> SUFFICES ASSUME SweepInv, [ReassemblyNext]_sweepVars PROVE SweepInv'
    OBVIOUS
  <1>0. SweepTypes /\ Place /\ Sending /\ DeliveredIsExpired /\ BufferHasExpired
    BY DEF SweepInv
  <1>1. CASE UNCHANGED sweepVars
    <2>1. SweepTypes' /\ Place'
      BY <1>0, <1>1 DEF sweepVars, SweepTypes, Place
    <2>2. Sending'
      BY <1>0, <1>1 DEF sweepVars, Sending, Short, Current
    <2>3. DeliveredIsExpired'
      BY <1>0, <1>1 DEF sweepVars, DeliveredIsExpired
    <2>4. BufferHasExpired'
      BY <1>0, <1>1 DEF sweepVars, BufferHasExpired, Pauses, LastBlocked, Above, FirstDelivered
    <2> QED BY <2>1, <2>2, <2>3, <2>4 DEF SweepInv
  <1>2. CASE BeginSweep
    <2>1. /\ step = "idle" /\ step' = "syn" /\ outcomes = <<>>
          /\ box' \in Boxes /\ hold' \in Holds \cup {0}
          /\ box' = "stream" => hold' \in Holds
          /\ UNCHANGED <<probe, sent, kept, fired, outcomes, lost, verdict, bufferMs>>
      BY <1>0, <1>2 DEF BeginSweep, connVars, Place, SweepTypes, Boxes
    <2>2. SweepTypes'
      <3>1. step \in {"idle", "syn", "send"} /\ step' \in {"idle", "syn", "send"}
        BY <2>1
      <3>2. Len(outcomes') = probe' - (IF step' \in {"idle", "syn", "send"} THEN 1 ELSE 0)
        BY <1>0, <2>1, <3>1 DEF SweepTypes
      <3> QED BY <1>0, <2>1, <3>1, <3>2 DEF SweepTypes
    <2>3. DeliveredIsExpired'
      <3>1. Len(outcomes') = 0
        BY <2>1
      <3>2. 2..Len(outcomes') = {}
        BY <3>1
      <3> QED BY <3>2 DEF DeliveredIsExpired
    <2>4. Place' /\ Sending' /\ BufferHasExpired'
      BY <2>1 DEF Place, Sending, BufferHasExpired
    <2> QED BY <2>2, <2>3, <2>4 DEF SweepInv
  <1>3. ASSUME SynFails \/ FinalAck
        PROVE  SweepInv'
    <2>1. /\ step \in {"syn", "send"}
          /\ box' = box /\ hold' = hold /\ probe' = probe
          /\ UNCHANGED <<sent, kept, fired, verdict, bufferMs>>
          /\ lost' \subseteq 1..Len(Plan)
      BY <1>0, <1>3 DEF SynFails, FinalAck, pathVars, connVars, SweepTypes
    <2>2. PICK o \in Answers :
              /\ Record(o)
              /\ (o = "delivered" /\ box = "stream" /\ probe # 1) => hold <= Delays[probe - 1]
      <3>1. CASE SynFails
        BY <3>1 DEF SynFails, Answers
      <3>2. CASE FinalAck /\ Record("blocked")
        BY <3>2 DEF Answers
      <3>3. CASE FinalAck /\ fired = FALSE /\ Record("delivered")
        <4>1. step = "send" /\ sent = Len(Current)
          BY <3>3 DEF FinalAck
        <4>2. box = "stream" => ~ Short
          BY <1>0, <3>3, <4>1 DEF Sending
        <4>3. (box = "stream" /\ probe # 1) => hold <= Delays[probe - 1]
          <5>1. SUFFICES ASSUME box = "stream", probe # 1 PROVE hold <= Delays[probe - 1]
            OBVIOUS
          <5>2. ~ (Delays[probe - 1] < hold)
            BY <4>2, <5>1 DEF Short
          <5>3. hold \in Nat
            BY <1>0, <4>1, <5>1, HoldsAssumption DEF Place
          <5>4. probe \in 2..Len(Plan)
            BY <1>0, <5>1, PlanFacts DEF SweepTypes
          <5>5. Delays[probe - 1] \in Nat
            BY <5>4, PlanFacts
          <5> QED BY <5>2, <5>3, <5>5
        <4> QED BY <3>3, <4>3 DEF Answers
      <3>4. FinalAck => Record("blocked") \/ (fired = FALSE /\ Record("delivered"))
        BY <1>0 DEF FinalAck, SweepTypes
      <3> QED BY <1>3, <3>1, <3>2, <3>3, <3>4
    <2>3. /\ step' \in {"pause", "classify"}
          /\ step' = "pause" => probe # Len(Plan)
          /\ step' = "classify" => probe = Len(Plan)
          /\ outcomes' \in Seq(Answers)
          /\ Len(outcomes') = probe'
          /\ DeliveredIsExpired'
      BY <2>1, <2>2, OutcomeNoted
    <2>4. SweepTypes'
      <3>1. step' \notin {"idle", "syn", "send"}
            /\ step' \in {"idle", "syn", "send", "pause", "classify", "done"}
        BY <2>3
      <3>2. probe' \in 1..Len(Plan) /\ Len(Plan) \in Nat /\ probe' = probe
        BY <1>0, <2>1, PlanFacts DEF SweepTypes
      <3>3. probe' = probe' - 0
        BY <3>2
      <3>4. Len(outcomes') = probe' - (IF step' \in {"idle", "syn", "send"} THEN 1 ELSE 0)
        BY <2>3, <3>1, <3>3
      <3> QED BY <1>0, <2>1, <2>3, <3>1, <3>2, <3>4 DEF SweepTypes
    <2>5. Place' /\ Sending' /\ BufferHasExpired'
      <3>1. step # "idle" /\ step' \notin {"idle", "send", "done"}
        BY <2>1, <2>3
      <3> QED BY <1>0, <2>1, <2>3, <3>1 DEF Place, Sending, BufferHasExpired
    <2> QED BY <2>3, <2>4, <2>5 DEF SweepInv
  <1>4. CASE SynAnswered
    <2>1. /\ step = "syn" /\ step' = "send" /\ sent' = 0 /\ kept' = 0 /\ fired' = FALSE
          /\ UNCHANGED <<box, hold, probe, outcomes, lost, verdict, bufferMs>>
      BY <1>4 DEF SynAnswered, pathVars
    <2>2. SweepTypes'
      <3>1. step \in {"idle", "syn", "send"} /\ step' \in {"idle", "syn", "send"}
        BY <2>1
      <3>2. Len(outcomes') = probe' - (IF step' \in {"idle", "syn", "send"} THEN 1 ELSE 0)
        BY <1>0, <2>1, <3>1 DEF SweepTypes
      <3>3. 0 \in 0..SegmentCount /\ 0 \in 0..PayloadLength
        BY SegmentAssumption, PayloadAssumption
      <3>4. sent' \in 0..SegmentCount /\ kept' \in 0..PayloadLength /\ fired' \in BOOLEAN
        BY <2>1, <3>3
      <3>5. step' \in {"idle", "syn", "send", "pause", "classify", "done"}
        BY <2>1
      <3> QED BY <1>0, <2>1, <3>2, <3>4, <3>5 DEF SweepTypes
    <2>3. Sending'
      <3>1. Len(Current') = Len(Current) /\ Len(Current) \in 1..SegmentCount
        BY <1>0, <2>1, CurrentFacts DEF Current, SweepTypes
      <3>2. sent' <= Len(Current') /\ sent' # Len(Current')
        BY <2>1, <3>1, SegmentAssumption
      <3> QED BY <2>1, <3>2 DEF Sending
    <2>4. Place' /\ DeliveredIsExpired' /\ BufferHasExpired'
      BY <1>0, <2>1 DEF Place, DeliveredIsExpired, BufferHasExpired
    <2> QED BY <2>2, <2>3, <2>4 DEF SweepInv
  <1>5. CASE SendSegment
    <2>1. /\ step = "send" /\ step' = "send"
          /\ UNCHANGED <<box, hold, probe, outcomes, lost, verdict, bufferMs>>
      BY <1>5 DEF SendSegment, pathVars
    <2>2. /\ sent' \in 0..SegmentCount /\ sent' <= Len(Current)
          /\ kept' \in 0..PayloadLength /\ fired' \in BOOLEAN
          /\ (box = "stream" /\ Short) => (kept' = 0 /\ (sent' = Len(Current) => fired' = TRUE))
      BY <1>5, SegmentSent
    <2>3. Current' = Current /\ Short' = Short
      BY <2>1 DEF Current, Short
    <2>4. SweepTypes'
      <3>1. Len(outcomes') = probe' - (IF step' \in {"idle", "syn", "send"} THEN 1 ELSE 0)
        BY <1>0, <2>1 DEF SweepTypes
      <3> QED BY <1>0, <2>1, <2>2, <3>1 DEF SweepTypes
    <2>5. Sending'
      BY <2>1, <2>2, <2>3 DEF Sending
    <2>6. Place' /\ DeliveredIsExpired' /\ BufferHasExpired'
      BY <1>0, <2>1 DEF Place, DeliveredIsExpired, BufferHasExpired
    <2> QED BY <2>4, <2>5, <2>6 DEF SweepInv
  <1>6. CASE NextProbe
    <2>1. /\ step = "pause" /\ step' = "syn" /\ probe' = probe + 1
          /\ UNCHANGED <<box, hold, sent, kept, fired, outcomes, lost, verdict, bufferMs>>
      BY <1>6 DEF NextProbe, pathVars, connVars
    <2>2. probe \in 1..Len(Plan) /\ Len(Plan) \in Nat /\ probe # Len(Plan) /\ Len(outcomes) = probe
      BY <1>0, <2>1, OutcomesSoFar DEF Place
    <2>3. probe' \in 1..Len(Plan) /\ Len(outcomes') = probe' - 1
      BY <2>1, <2>2
    <2>4. SweepTypes'
      <3>1. Len(outcomes') = probe' - (IF step' \in {"idle", "syn", "send"} THEN 1 ELSE 0)
        BY <2>1, <2>3
      <3>2. step' \in {"idle", "syn", "send", "pause", "classify", "done"}
        BY <2>1
      <3> QED BY <1>0, <2>1, <2>3, <3>1, <3>2 DEF SweepTypes
    <2>5. Place' /\ Sending' /\ DeliveredIsExpired' /\ BufferHasExpired'
      BY <1>0, <2>1 DEF Place, Sending, DeliveredIsExpired, BufferHasExpired
    <2> QED BY <2>4, <2>5 DEF SweepInv
  <1>7. CASE Classify
    <2>1. /\ step = "classify" /\ step' = "done" /\ verdict' = Verdict
          /\ bufferMs' = IF Verdict = "buffer measured" THEN FirstDelivered ELSE -1
          /\ UNCHANGED <<box, hold, probe, sent, kept, fired, outcomes, lost>>
      BY <1>7 DEF Classify, pathVars, connVars
    <2>2. /\ Verdict \in Verdicts
          /\ Verdict = "buffer measured" => FirstDelivered \in Nat
          /\ (Verdict = "buffer measured" /\ box = "stream") => hold <= FirstDelivered
      BY <2>1, ThresholdIsExpired
    <2> HIDE DEF Verdict
    <2>3. SweepTypes'
      <3>1. step \notin {"idle", "syn", "send"} /\ step' \notin {"idle", "syn", "send"}
        BY <2>1
      <3>2. Len(outcomes') = probe' - (IF step' \in {"idle", "syn", "send"} THEN 1 ELSE 0)
        BY <1>0, <2>1, <3>1 DEF SweepTypes
      <3>3. bufferMs' \in Nat \cup {-1}
        BY <2>1, <2>2
      <3>4. verdict' \in Verdicts \cup {"none"}
            /\ step' \in {"idle", "syn", "send", "pause", "classify", "done"}
        BY <2>1, <2>2
      <3> QED BY <1>0, <2>1, <3>2, <3>3, <3>4 DEF SweepTypes
    <2>4. BufferHasExpired'
      <3>1. SUFFICES ASSUME box = "stream", Verdict = "buffer measured"
                     PROVE  FirstDelivered >= hold
        BY <2>1 DEF BufferHasExpired
      <3>2. FirstDelivered \in Nat /\ hold <= FirstDelivered
        BY <2>2, <3>1
      <3>3. hold \in Nat
        BY <1>0, <2>1, <3>1, HoldsAssumption DEF Place
      <3> QED BY <3>2, <3>3
    <2>5. Place' /\ Sending' /\ DeliveredIsExpired'
      BY <1>0, <2>1 DEF Place, Sending, DeliveredIsExpired
    <2> QED BY <2>3, <2>4, <2>5 DEF SweepInv
  <1> QED BY <1>1, <1>2, <1>3, <1>4, <1>5, <1>6, <1>7 DEF ReassemblyNext, Sweep

-----------------------------------------------------------------------------
(* The sweep: what the outcomes say of the box *)

\* The whole payload is one segment.  Cut, it is at least two: no segment is
\* all of it, and only the first one starts at its first byte.
LEMMA WholeSegment ==
    ASSUME NEW delay \in Nat
    PROVE  LET segs == Segments(1, delay)
           IN  Len(segs) = 1 /\ segs[1].seq = 0 /\ segs[1].size = PayloadLength
  <1> DEFINE segs == Segments(1, delay)
  <1>1. PayloadLength \in Nat /\ 1 < PayloadLength
    BY PayloadAssumption
  <1>2. PayloadLength \div 1 = PayloadLength /\ PayloadLength % 1 = 0
    BY <1>1
  <1>3. segs = [i \in 1..1 |->
                  LET first(k) == (k - 1) * PayloadLength + (IF k - 1 < 0 THEN k - 1 ELSE 0)
                  IN  [seq |-> first(i), size |-> first(i + 1) - first(i),
                       delay |-> IF i = 1 THEN 0 ELSE delay]]
    BY <1>1, <1>2 DEF Segments
  <1>4. 1 \in 1..1 /\ (1 - 1) * PayloadLength = 0 /\ ((1 + 1) - 1) * PayloadLength = PayloadLength
        /\ ~(1 - 1 < 0) /\ ~((1 + 1) - 1 < 0)
    BY <1>1
  <1>5. Len(segs) = 1
    BY <1>3
  <1>6. segs[1].seq = 0 + 0 /\ segs[1].size = (PayloadLength + 0) - (0 + 0)
    BY <1>3, <1>4
  <1> QED BY <1>1, <1>5, <1>6

LEMMA CutSegments ==
    ASSUME NEW count \in Nat \ {0, 1}, NEW delay \in Nat
    PROVE  LET segs == Segments(count, delay)
           IN  /\ segs[1].seq + segs[1].size < PayloadLength
               /\ \A i \in 2..Len(segs) : segs[i].seq > 0 /\ segs[i].delay = delay
               /\ Len(segs) >= 2
  <1> DEFINE n == IF count < PayloadLength THEN count ELSE PayloadLength
             base == PayloadLength \div n
             extra == PayloadLength % n
             start(i) == (i - 1) * base + (IF i - 1 < extra THEN i - 1 ELSE extra)
             segs == Segments(count, delay)
  <1>1. n \in Nat /\ n >= 2 /\ n <= PayloadLength /\ PayloadLength \in Nat
    BY PayloadAssumption
  <1>2. segs = [i \in 1..n |-> [seq |-> start(i), size |-> start(i + 1) - start(i),
                               delay |-> IF i = 1 THEN 0 ELSE delay]]
    BY DEF Segments
  <1> HIDE DEF n
  <1>3. base \in Nat /\ extra \in Nat /\ extra < n /\ n * base + extra = PayloadLength
    BY <1>1
  <1> HIDE DEF base, extra
  <1>4. base >= 1
    <2>1. SUFFICES ASSUME base = 0 PROVE FALSE
      BY <1>3
    <2>2. n * base = 0
      BY <1>1, <2>1
    <2> QED BY <1>1, <1>3, <2>2
  <1>5. start(1) = 0
    BY <1>3
  <1>6. start(2) < PayloadLength /\ start(2) \in Nat
    <2>1. n * base >= base + base /\ n * base \in Nat
      <3>1. PICK k \in Nat : n = 2 + k
        <4>1. n - 2 \in Nat /\ n = 2 + (n - 2)
          BY <1>1
        <4> QED BY <4>1
      <3>2. n * base = base + base + k * base /\ k * base \in Nat
        BY <1>3, <3>1
      <3> QED BY <1>3, <3>2
    <2>2. start(2) = base + (IF 1 < extra THEN 1 ELSE extra)
      BY <1>3
    <2>3. CASE 1 < extra
      BY <1>3, <1>4, <2>1, <2>2, <2>3
    <2>4. CASE ~(1 < extra)
      BY <1>3, <1>4, <2>1, <2>2, <2>4
    <2> QED BY <2>3, <2>4
  <1>7. ASSUME NEW i \in 2..n PROVE start(i) > 0
    <2>1. i - 2 \in Nat /\ (i - 2) * base \in Nat
      BY <1>1, <1>3
    <2>2. (i - 1) * base = base + (i - 2) * base
      BY <1>3
    <2>3. (IF i - 1 < extra THEN i - 1 ELSE extra) \in Nat
      BY <1>1, <1>3
    <2> QED BY <1>3, <1>4, <2>1, <2>2, <2>3
  <1> HIDE DEF start
  <1>8. Len(segs) = n
    BY <1>1, <1>2
  <1>9. /\ segs[1].seq = start(1) /\ segs[1].size = start(2) - start(1)
        /\ \A i \in 2..n : segs[i].seq = start(i) /\ segs[i].delay = delay
    BY <1>1, <1>2
  <1> HIDE DEF segs
  <1>10. segs[1].seq + segs[1].size < PayloadLength
    BY <1>5, <1>6, <1>9
  <1>11. /\ segs[1].seq + segs[1].size < PayloadLength
         /\ \A i \in 2..Len(segs) : segs[i].seq > 0 /\ segs[i].delay = delay
         /\ Len(segs) >= 2
    BY <1>1, <1>7, <1>8, <1>9, <1>10
  <1> QED BY <1>11 DEF segs

\* The segments of the first probe, and of the others.
LEMMA WholeFirst ==
    ASSUME probe = 1
    PROVE  Len(Current) = 1 /\ Current[1].seq = 0 /\ Current[1].size = PayloadLength
  BY PlanFacts, WholeSegment DEF Current

LEMMA ThenCut ==
    ASSUME probe \in 1..Len(Plan), probe # 1
    PROVE  /\ Current[1].seq + Current[1].size < PayloadLength
           /\ \A i \in 2..Len(Current) : /\ Current[i].seq > 0
                                         /\ Current[i].delay = Delays[probe - 1]
           /\ Len(Current) >= 2
  <1>1. probe \in 2..Len(Plan)
    BY PlanFacts
  <1>2. Current = Segments(SegmentCount, Delays[probe - 1])
    BY <1>1, PlanFacts DEF Current
  <1>3. Delays[probe - 1] \in Nat /\ SegmentCount \in Nat \ {0, 1}
    BY <1>1, PlanFacts, SegmentAssumption
  <1> QED BY <1>2, <1>3, CutSegments

\* The block fires where there is one, on the whole payload always, and on a
\* cut one only when it still holds the stretch before each pause.
Fires ==
    step = "send" =>
        /\ sent = 0 => kept = 0
        /\ fired => box # "none"
        /\ (probe = 1 /\ box # "none" /\ sent = Len(Current)) => fired
        /\ (probe # 1 /\ fired) => box = "stream" /\ Delays[probe - 1] < hold

\* What an outcome says of the box when its answer was not lost.
OutcomeIsTrue(i) ==
    /\ (i = 1 /\ outcomes[i] = "blocked") => box # "none"
    /\ (i = 1 /\ outcomes[i] = "delivered") => box = "none"
    /\ (i # 1 /\ outcomes[i] = "blocked") => box = "stream" /\ Delays[i - 1] < hold
OutcomesTrue == \A i \in 1..Len(outcomes) : i \notin lost => OutcomeIsTrue(i)

\* The cut without a pause is blocked by every box that keeps a stream at all.
UncutStream ==
    (Len(outcomes) > 1 /\ 2 \notin lost /\ box = "stream") => outcomes[2] # "delivered"

TruthInv == Fires /\ OutcomesTrue /\ VerdictIsTrue

LEMMA FirstPauseIsNone == DeliveredIsExpired /\ SweepTypes /\ Place => UncutStream
  <1> SUFFICES ASSUME DeliveredIsExpired, SweepTypes, Place, Len(outcomes) > 1,
                      box = "stream", outcomes[2] = "delivered"
               PROVE  FALSE
    BY DEF UncutStream
  <1>1. Len(outcomes) \in Nat /\ outcomes # <<>>
    BY DEF SweepTypes
  <1>2. hold \in Holds
    BY <1>1 DEF Place
  <1>3. 2 \in 2..Len(outcomes)
    BY <1>1
  <1>4. hold <= Delays[2 - 1]
    BY <1>3 DEF DeliveredIsExpired
  <1>5. hold \in Nat \ {0} /\ Delays[2 - 1] = 0
    BY <1>2, HoldsAssumption, DelaysAssumption
  <1> QED BY <1>4, <1>5

LEMMA SegmentFires ==
    ASSUME SweepInv, Fires, SendSegment
    PROVE  Fires'
  <1> DEFINE segment == Current[sent + 1]
  <1>1. /\ step = "send" /\ sent < Len(Current) /\ sent' = sent + 1
        /\ kept' = IF box # "stream" \/ segment.delay >= hold THEN segment.seq ELSE kept
        /\ fired' = (fired \/ (box # "none" /\ kept' = 0
                                 /\ segment.seq + segment.size = PayloadLength))
        /\ UNCHANGED <<box, hold, probe, step>>
    BY DEF SendSegment, pathVars
  <1>2. /\ sent \in Nat /\ kept \in Nat /\ fired \in BOOLEAN
        /\ probe \in 1..Len(Plan) /\ Current' = Current
    <2>1. sent \in 0..SegmentCount /\ kept \in 0..PayloadLength
      BY Zenon DEF SweepInv, SweepTypes
    <2>2. sent \in Nat /\ kept \in Nat
      BY <2>1, SegmentAssumption, PayloadAssumption
    <2> QED BY <1>1, <2>2 DEF SweepInv, SweepTypes, Current
  <1>3. /\ Len(Current) \in Nat /\ sent + 1 \in 1..Len(Current)
        /\ segment.seq \in Nat /\ segment.delay \in Nat
    <2>1. Len(Current) \in 1..SegmentCount
      BY <1>2, CurrentFacts
    <2>2. Len(Current) \in Nat
      BY <2>1
    <2>3. sent + 1 \in 1..Len(Current)
      BY <1>1, <1>2, <2>2
    <2>4. segment.seq \in 0..PayloadLength /\ segment.delay \in Nat
      BY <1>2, <2>3, CurrentFacts
    <2>5. segment.seq \in Nat
      BY <2>4
    <2> QED BY <2>2, <2>3, <2>4, <2>5
  <1>4. box = "stream" => hold \in Nat \ {0}
    BY <1>1, HoldsAssumption DEF SweepInv, Place
  <1> HIDE DEF segment
  <1>5. fired' => box # "none"
    BY <1>1 DEF Fires
  <1>6. (probe = 1 /\ box # "none" /\ sent' = Len(Current)) => fired'
    <2>1. SUFFICES ASSUME probe = 1, box # "none", sent' = Len(Current) PROVE fired' = TRUE
      OBVIOUS
    <2>2. Len(Current) = 1 /\ Current[1].seq = 0 /\ Current[1].size = PayloadLength
      BY <2>1, WholeFirst
    <2>3. sent = 0
      BY <1>1, <1>2, <2>1, <2>2
    <2>4. segment = Current[1]
      BY <2>3 DEF segment
    <2>5. segment.seq = 0 /\ segment.seq + segment.size = PayloadLength
      BY <2>2, <2>4, PayloadAssumption
    <2>6. kept = 0
      BY <1>1, <2>3 DEF Fires
    <2>7. kept' = 0
      BY <1>1, <2>5, <2>6
    <2> QED BY <1>1, <2>1, <2>5, <2>7
  <1>7. (probe # 1 /\ fired') => box = "stream" /\ Delays[probe - 1] < hold
    <2>1. SUFFICES ASSUME probe # 1, ~fired, fired'
                   PROVE  box = "stream" /\ Delays[probe - 1] < hold
      BY <1>1 DEF Fires
    <2>2. /\ Current[1].seq + Current[1].size < PayloadLength
          /\ \A i \in 2..Len(Current) : /\ Current[i].seq > 0
                                        /\ Current[i].delay = Delays[probe - 1]
      BY <1>2, <2>1, ThenCut
    <2>3. box # "none" /\ kept' = 0 /\ segment.seq + segment.size = PayloadLength
      BY <1>1, <2>1
    <2>4. sent + 1 # 1
      <3>1. SUFFICES ASSUME sent + 1 = 1 PROVE FALSE
        OBVIOUS
      <3>2. segment = Current[1]
        BY <3>1 DEF segment
      <3>3. segment.seq + segment.size < PayloadLength
        BY <2>2, <3>2
      <3> QED BY <2>3, <3>3, PayloadAssumption
    <2>5. sent + 1 \in 2..Len(Current)
      BY <1>2, <1>3, <2>4
    <2>6. segment.seq > 0 /\ segment.delay = Delays[probe - 1]
      BY <2>2, <2>5 DEF segment
    <2>7. box = "stream" /\ ~(segment.delay >= hold)
      <3>1. kept' # segment.seq
        BY <1>3, <2>3, <2>6
      <3> QED BY <1>1, <3>1
    <2> QED BY <1>3, <1>4, <2>6, <2>7
  <1>8. sent' # 0
    BY <1>1, <1>2
  <1> QED BY <1>1, <1>2, <1>5, <1>6, <1>7, <1>8 DEF Fires

\* An outcome is noted of the probe under way; a loss is remembered with it.
LEMMA OutcomeNotedTrue ==
    ASSUME SweepInv, Fires, OutcomesTrue, SynFails \/ FinalAck
    PROVE  OutcomesTrue'
  <1>1. /\ outcomes \in Seq(Answers) /\ Len(outcomes) + 1 = probe /\ Len(outcomes) \in Nat
        /\ probe \in 1..Len(Plan) /\ UNCHANGED <<box, hold>>
    BY OutcomesSoFar, LenProperties DEF SynFails, FinalAck, pathVars
  <1>2. PICK o \in Answers :
            /\ outcomes' = Append(outcomes, o)
            /\ lost \subseteq lost'
            /\ probe \notin lost' =>
                  \/ o = "unknown"
                  \/ /\ step = "send" /\ sent = Len(Current)
                     /\ o = IF fired THEN "blocked" ELSE "delivered"
    <2>1. CASE SynFails
      <3>1. outcomes' = Append(outcomes, "unknown") /\ lost' = lost
        BY <2>1 DEF SynFails, Record
      <3> QED BY <3>1 DEF Answers
    <2>2. CASE FinalAck /\ Record(IF fired THEN "blocked" ELSE "delivered") /\ UNCHANGED lost
      <3>1. outcomes' = Append(outcomes, IF fired THEN "blocked" ELSE "delivered")
        BY <2>2 DEF Record
      <3>2. (IF fired THEN "blocked" ELSE "delivered") \in Answers
        BY DEF Answers
      <3>3. step = "send" /\ sent = Len(Current) /\ lost' = lost
        BY <2>2 DEF FinalAck
      <3> QED BY <3>1, <3>2, <3>3
    <2>3. CASE FinalAck /\ Record("blocked") /\ lost' = lost \cup {probe}
      <3>1. outcomes' = Append(outcomes, "blocked") /\ probe \in lost' /\ lost \subseteq lost'
        BY <2>3 DEF Record
      <3> QED BY <3>1 DEF Answers
    <2> QED BY <2>1, <2>2, <2>3 DEF FinalAck
  <1>3. /\ Len(outcomes') = Len(outcomes) + 1
        /\ \A i \in 1..Len(outcomes) : outcomes'[i] = outcomes[i]
        /\ outcomes'[Len(outcomes) + 1] = o
    BY <1>1, <1>2, AppendProperties
  <1>4. SUFFICES ASSUME NEW i \in 1..Len(outcomes'), i \notin lost' PROVE OutcomeIsTrue(i)'
    BY DEF OutcomesTrue
  <1>5. i \in 1..Len(outcomes) \/ i = Len(outcomes) + 1
    BY <1>1, <1>3
  <1>6. CASE i \in 1..Len(outcomes)
    <2>1. i \notin lost /\ outcomes'[i] = outcomes[i]
      BY <1>2, <1>3, <1>4, <1>6
    <2>2. OutcomeIsTrue(i)
      BY <1>6, <2>1 DEF OutcomesTrue
    <2> QED BY <1>1, <2>1, <2>2 DEF OutcomeIsTrue
  <1>7. CASE i = Len(outcomes) + 1
    <2>1. i = probe /\ outcomes'[i] = o
      BY <1>1, <1>3, <1>7
    <2>2. CASE o = "unknown"
      BY <2>1, <2>2 DEF OutcomeIsTrue
    <2>3. CASE step = "send" /\ sent = Len(Current) /\ o = IF fired THEN "blocked" ELSE "delivered"
      <3>1. (probe = 1 /\ o = "blocked") => box # "none"
        BY <2>3 DEF Fires
      <3>2. (probe = 1 /\ o = "delivered") => box = "none"
        BY <2>3 DEF Fires
      <3>3. (probe # 1 /\ o = "blocked") => box = "stream" /\ Delays[probe - 1] < hold
        BY <2>3 DEF Fires
      <3> QED BY <1>1, <2>1, <3>1, <3>2, <3>3 DEF OutcomeIsTrue
    <2> QED BY <1>2, <1>4, <2>1, <2>2, <2>3
  <1> QED BY <1>5, <1>6, <1>7

\* The pauses with an outcome are finitely many, and each is that of a probe.
LEMMA PausesFacts ==
    ASSUME NEW o
    PROVE  /\ Pauses(o) \in SUBSET Nat /\ IsFiniteSet(Pauses(o))
           /\ Pauses(o) # {} <=> \E j \in 1..Len(Delays) : outcomes[j + 1] = o
           /\ \A d \in Pauses(o) : \E j \in 1..Len(Delays) : outcomes[j + 1] = o /\ d = Delays[j]
  <1>1. /\ DOMAIN Delays = 1..Len(Delays) /\ Len(Delays) \in Nat
        /\ \A j \in 1..Len(Delays) : Delays[j] \in Nat
    BY DelaysAssumption, LenProperties, ElementOfSeq
  <1> DEFINE all == {Delays[j] : j \in 1..Len(Delays)}
  <1>2. IsFiniteSet(all)
    <2>1. Delays \in Seq(Nat)
      BY DelaysAssumption
    <2>2. Delays = [j \in 1..Len(Delays) |-> Delays[j]]
      BY <2>1
    <2>3. IsFiniteSet(1..Len(Delays))
      BY <1>1, FS_Interval
    <2> QED BY <1>1, <2>2, <2>3, FiniteImage
  <1>3. Pauses(o) \subseteq all
    BY <1>1 DEF Pauses
  <1> HIDE DEF all
  <1>4. IsFiniteSet(Pauses(o))
    BY <1>2, <1>3, FS_Subset
  <1>5. Pauses(o) \in SUBSET Nat
    BY <1>1 DEF Pauses
  <1> QED BY <1>1, <1>4, <1>5 DEF Pauses

\* classify_sweep reads true outcomes truly.
LEMMA ClassifiesTruly ==
    ASSUME SweepInv, OutcomesTrue, Classify
    PROVE  VerdictIsTrue'
  <1>1. /\ step = "classify" /\ verdict' = Verdict
        /\ bufferMs' = IF Verdict = "buffer measured" THEN FirstDelivered ELSE -1
        /\ UNCHANGED <<box, hold, outcomes, lost>>
    BY DEF Classify, pathVars
  <1>2. SUFFICES ASSUME lost = {} PROVE VerdictIsTrue'
    BY <1>1 DEF VerdictIsTrue
  <1>3. /\ Len(outcomes) = Len(Delays) + 1 /\ Len(Delays) \in Nat /\ Len(Delays) > 0
        /\ Len(Plan) = Len(Delays) + 1 /\ outcomes \in Seq(Answers)
    BY <1>1, OutcomesSoFar, PlanFacts, DelaysAssumption, LenProperties DEF SweepInv, Place
  <1>4. \A j \in 1..Len(Delays) :
            /\ j + 1 \in 2..Len(outcomes) /\ j + 1 # 1 /\ (j + 1) - 1 = j
            /\ Delays[j] \in Nat /\ j + 1 \in 1..Len(outcomes)
    <2>1. \A j \in 1..Len(Delays) : Delays[j] \in Nat
      BY DelaysAssumption, LenProperties, ElementOfSeq
    <2> QED BY <1>3, <2>1
  <1>5. /\ outcomes[1] = "blocked" => box # "none"
        /\ outcomes[1] = "delivered" => box = "none"
    <2>1. 1 \in 1..Len(outcomes)
      BY <1>3
    <2> QED BY <1>2, <2>1 DEF OutcomesTrue, OutcomeIsTrue
  <1>6. \A j \in 1..Len(Delays) : outcomes[j + 1] = "blocked" => box = "stream" /\ Delays[j] < hold
    BY <1>2, <1>4 DEF OutcomesTrue, OutcomeIsTrue
  <1>7. \A d \in Pauses("blocked") : box = "stream" /\ d < hold
    BY <1>6, PausesFacts
  <1>8. ASSUME Pauses("blocked") # {}
        PROVE  LastBlocked \in Pauses("blocked") /\ LastBlocked \in Nat /\ LastBlocked < hold
    <2>1. HasGreatest(Pauses("blocked"))
      BY <1>8, PausesFacts, GreatestNatural
    <2>2. LastBlocked \in Pauses("blocked")
      BY <2>1 DEF HasGreatest, LastBlocked
    <2>3. LastBlocked \in Nat
      BY <2>2, PausesFacts
    <2> QED BY <1>7, <2>2, <2>3
  <1>9. box = "stream" => hold \in Nat
    BY <1>1, HoldsAssumption DEF SweepInv, Place
  <1>10. ASSUME box = "stream", NEW d \in Pauses("delivered") PROVE hold <= d /\ d \in Nat
    <2>1. PICK j \in 1..Len(Delays) : outcomes[j + 1] = "delivered" /\ d = Delays[j]
      BY PausesFacts
    <2>2. hold <= Delays[(j + 1) - 1]
      BY <1>4, <1>10, <2>1 DEF SweepInv, DeliveredIsExpired
    <2> QED BY <1>4, <2>1, <2>2
  <1>11. outcomes[1] \in Answers /\ \A j \in 1..Len(Delays) : outcomes[j + 1] \in Answers
    <2>1. 1 \in 1..Len(outcomes)
      BY <1>3
    <2> QED BY <1>3, <1>4, <2>1, ElementOfSeq
  <1>12. Verdict = "not stream based" => box = "none"
    BY <1>5 DEF Verdict
  <1>13. ASSUME Verdict = "no reassembly"
         PROVE  box = "packet" \/ (box = "stream" /\ outcomes[2] = "unknown")
    <2>1. outcomes[1] = "blocked" /\ Pauses("blocked") = {}
      BY <1>11, <1>13 DEF Verdict, Answers
    <2>2. box \in {"packet", "stream"}
      BY <1>5, <2>1 DEF SweepInv, SweepTypes, Boxes
    <2>3. box = "stream" => outcomes[2] # "delivered"
      <3>1. UncutStream
        BY FirstPauseIsNone DEF SweepInv
      <3>2. Len(outcomes) > 1
        BY <1>3
      <3> QED BY <1>2, <3>1, <3>2 DEF UncutStream
    <2>4. outcomes[2] \in Answers /\ outcomes[2] # "blocked"
      <3>1. 1 \in 1..Len(Delays) /\ 1 + 1 = 2
        BY <1>3
      <3>2. outcomes[1 + 1] \in Answers
        BY <1>11, <3>1
      <3>3. outcomes[1 + 1] # "blocked"
        BY <2>1, <3>1, PausesFacts
      <3> QED BY <3>1, <3>2, <3>3
    <2> QED BY <2>2, <2>3, <2>4 DEF Answers
  <1>14. Verdict = "reassembles" => box = "stream" /\ hold > LastBlocked
    <2>1. SUFFICES ASSUME Verdict = "reassembles" PROVE box = "stream" /\ hold > LastBlocked
      OBVIOUS
    <2>2. Pauses("blocked") # {}
      BY <2>1 DEF Verdict
    <2>3. box = "stream"
      BY <1>7, <2>2
    <2> QED BY <1>8, <1>9, <2>2, <2>3
  <1>15. ASSUME Verdict = "buffer measured"
         PROVE  box = "stream" /\ LastBlocked < hold /\ hold <= FirstDelivered
    <2>1. Pauses("blocked") # {}
      BY <1>15 DEF Verdict
    <2>2. box = "stream"
      BY <1>7, <2>1
    <2>3. hold <= FirstDelivered
      BY <1>1, <1>15, <2>2, ThresholdIsExpired
    <2> QED BY <1>8, <2>1, <2>2, <2>3
  <1>16. ASSUME Verdict = "inconclusive", outcomes[1] # "unknown"
         PROVE  \A i \in 2..Len(Plan) : outcomes[i] = "unknown"
    <2>1. Pauses("blocked") = {} /\ Pauses("delivered") = {}
      <3>1. SUFFICES ASSUME Pauses("blocked") # {}, Pauses("delivered") # {}, Above = {} PROVE FALSE
        BY <1>16 DEF Verdict
      <3>2. PICK d \in Pauses("delivered") : TRUE
        BY <3>1
      <3>3. box = "stream"
        BY <1>7, <3>1
      <3>4. hold <= d /\ d \in Nat
        BY <1>10, <3>3
      <3>5. LastBlocked < hold /\ LastBlocked \in Nat
        BY <1>8, <3>1
      <3>6. d > LastBlocked
        BY <1>9, <3>3, <3>4, <3>5
      <3> QED BY <3>1, <3>6 DEF Above
    <2>2. TAKE i \in 2..Len(Plan)
    <2>3. i - 1 \in 1..Len(Delays) /\ (i - 1) + 1 = i
      BY <1>3
    <2>4. outcomes[(i - 1) + 1] \in Answers
      BY <1>11, <2>3
    <2>5. outcomes[(i - 1) + 1] # "blocked" /\ outcomes[(i - 1) + 1] # "delivered"
      BY <2>1, <2>3, PausesFacts
    <2> QED BY <2>3, <2>4, <2>5 DEF Answers
  <1>17. LastBlocked' = LastBlocked
    BY <1>1 DEF LastBlocked, Pauses
  <1> HIDE DEF Verdict, LastBlocked, FirstDelivered
  <1> QED BY <1>1, <1>12, <1>13, <1>14, <1>15, <1>16, <1>17 DEF VerdictIsTrue

LEMMA TruthInit == ReassemblyInit => TruthInv
  <1> SUFFICES ASSUME ReassemblyInit PROVE TruthInv
    OBVIOUS
  <1>1. Len(outcomes) = 0
    BY DEF ReassemblyInit
  <1>2. 1..Len(outcomes) = {}
    BY <1>1
  <1> QED BY <1>2 DEF ReassemblyInit, TruthInv, Fires, OutcomesTrue, VerdictIsTrue

LEMMA TruthStep == SweepInv /\ TruthInv /\ [ReassemblyNext]_sweepVars => TruthInv'
  <1> SUFFICES ASSUME SweepInv, TruthInv, [ReassemblyNext]_sweepVars PROVE TruthInv'
    OBVIOUS
  <1>0. Fires /\ OutcomesTrue /\ VerdictIsTrue
    BY DEF TruthInv
  <1>1. CASE UNCHANGED sweepVars
    BY <1>0, <1>1 DEF sweepVars, TruthInv, Fires, OutcomesTrue, OutcomeIsTrue, VerdictIsTrue,
           Current, LastBlocked, Pauses
  <1>2. CASE BeginSweep
    <2>1. /\ step = "idle" /\ step' = "syn" /\ outcomes' = <<>>
      BY <1>2 DEF BeginSweep, SweepInv, Place
    <2>2. 1..Len(outcomes') = {}
      BY <2>1
    <2> QED BY <2>1, <2>2 DEF TruthInv, Fires, OutcomesTrue, VerdictIsTrue
  <1>3. CASE SynFails \/ FinalAck
    <2>1. step' \notin {"send", "done"}
      BY <1>3 DEF SynFails, FinalAck, Record
    <2>2. OutcomesTrue'
      BY <1>0, <1>3, OutcomeNotedTrue
    <2> QED BY <2>1, <2>2 DEF TruthInv, Fires, VerdictIsTrue
  <1>4. CASE SynAnswered
    <2>1. /\ step' = "send" /\ sent' = 0 /\ kept' = 0 /\ fired' = FALSE
          /\ UNCHANGED <<box, hold, probe, outcomes, lost>>
      BY <1>4 DEF SynAnswered, pathVars
    <2>2. sent' # Len(Current')
      <3>1. Len(Current) \in 1..SegmentCount /\ Current' = Current
        BY <2>1, CurrentFacts DEF SweepInv, SweepTypes, Current
      <3> QED BY <2>1, <3>1
    <2> QED BY <1>0, <2>1, <2>2 DEF TruthInv, Fires, OutcomesTrue, OutcomeIsTrue, VerdictIsTrue
  <1>5. CASE SendSegment
    <2>1. Fires'
      BY <1>0, <1>5, SegmentFires
    <2>2. step' = "send" /\ UNCHANGED <<box, hold, outcomes, lost>>
      BY <1>5 DEF SendSegment, pathVars
    <2> QED BY <1>0, <2>1, <2>2 DEF TruthInv, OutcomesTrue, OutcomeIsTrue, VerdictIsTrue
  <1>6. CASE NextProbe
    <2>1. step' = "syn" /\ UNCHANGED <<box, hold, outcomes, lost>>
      BY <1>6 DEF NextProbe, pathVars
    <2> QED BY <1>0, <2>1 DEF TruthInv, Fires, OutcomesTrue, OutcomeIsTrue, VerdictIsTrue
  <1>7. CASE Classify
    <2>1. VerdictIsTrue'
      BY <1>0, <1>7, ClassifiesTruly
    <2>2. step' = "done" /\ UNCHANGED <<box, hold, outcomes, lost>>
      BY <1>7 DEF Classify, pathVars
    <2> QED BY <1>0, <2>1, <2>2 DEF TruthInv, Fires, OutcomesTrue, OutcomeIsTrue
  <1> QED BY <1>1, <1>2, <1>3, <1>4, <1>5, <1>6, <1>7 DEF ReassemblyNext, Sweep

-----------------------------------------------------------------------------
(* The sweep: the theorems *)

\* The sweep keeps its types and one outcome per probe that has ended, for any
\* plan and any path (sweep_plan, run_reassembly_probe).
THEOREM SweepsAreTyped == ReassemblySpec => []SweepTypes
  <1>1. SweepInv => SweepTypes
    BY DEF SweepInv
  <1> QED BY <1>1, SweepInit, SweepStep, PTL DEF ReassemblySpec

\* The pause classify_sweep reports is never below the one after which the box
\* forgets, whatever the pauses, the cut and the answers that got lost.
THEOREM MeasuredBufferHasExpired == ReassemblySpec => []BufferHasExpired
  <1>1. SweepInv => BufferHasExpired
    BY DEF SweepInv
  <1> QED BY <1>1, SweepInit, SweepStep, PTL DEF ReassemblySpec

\* classify_sweep judges the middlebox that is on the path as long as no answer
\* was lost: for every list of pauses, cut, payload and patience of the box.
THEOREM SweepJudgesTruly == ReassemblySpec => []VerdictIsTrue
  <1>1. TruthInv => VerdictIsTrue
    BY DEF TruthInv
  <1> QED BY <1>1, SweepInit, SweepStep, TruthInit, TruthStep, PTL DEF ReassemblySpec

-----------------------------------------------------------------------------
(* The greatest of a finite set *)

LEMMA MaxIsGreatest ==
    ASSUME NEW S \in SUBSET Nat, IsFiniteSet(S), S # {}
    PROVE  Max(S) \in S /\ \A y \in S : y <= Max(S)
  <1>1. PICK x \in S : \A y \in S : x >= y
    BY GreatestNatural DEF HasGreatest
  <1>2. Max(S) \in S /\ \A y \in S : Max(S) >= y
    BY <1>1 DEF Max
  <1>3. Max(S) \in Nat
    BY <1>2
  <1> QED BY <1>2, <1>3

-----------------------------------------------------------------------------
(* The comparison of arms *)

\* An arm is read as having reached the destination exactly when it delivers, or
\* something on the way answers for the destination.
LEMMA ReachedIsNamed ==
    ASSUME NEW fate \in Fates, NEW silent \in SUBSET (Ttls \ {PathLength})
    PROVE  SummariseArm(Capture(fate, silent)).reached <=> Delivers(fate) \/ Impersonated(fate)
  <1>1. PathLength \in Ttls /\ fate.injected \subseteq Ttls
    BY PathAssumption DEF Ttls, Fates
  <1>2. \A h \in Ttls : Capture(fate, silent)[h].from = "destination" <=> Named(fate, h)
    BY DEF Capture, Hop
  <1>3. (\E h \in Ttls : Named(fate, h)) <=> Delivers(fate) \/ Impersonated(fate)
    BY <1>1 DEF Named, Delivers, Impersonated
  <1> QED BY <1>2, <1>3 DEF SummariseArm

\* Of an arm that is not answered for, the last hop is the last that answered.
LEMMA LastThatAnswered ==
    ASSUME NEW fate \in Fates, NEW silent \in SUBSET (Ttls \ {PathLength}),
           ~Delivers(fate), ~Impersonated(fate)
    PROVE  LET last == SummariseArm(Capture(fate, silent)).last
               met == {h \in Ttls \ silent : Gets(fate, h)}
           IN  /\ last \in {0} \cup met
               /\ \A h \in met : h <= last
  <1> DEFINE met == {h \in Ttls \ silent : Gets(fate, h)}
             heard == {0} \cup {h \in Ttls : Capture(fate, silent)[h].from # "nobody"}
  <1>1. \A h \in Ttls : ~Named(fate, h)
    BY DEF Named, Delivers, Impersonated
  <1>2. \A h \in Ttls : Capture(fate, silent)[h].from # "nobody" <=> h \in met
    BY <1>1 DEF Capture, Hop
  <1>3. heard = {0} \cup met
    BY <1>2
  <1>4. IsFiniteSet(Ttls) /\ Ttls \subseteq Nat
    BY PathAssumption, FS_Interval DEF Ttls
  <1>5. IsFiniteSet(Ttls \cup {0})
    BY <1>4, FS_AddElement
  <1>6. heard \in SUBSET (Ttls \cup {0})
    OBVIOUS
  <1>7. heard \in SUBSET Nat /\ IsFiniteSet(heard) /\ heard # {}
    <2>1. IsFiniteSet(heard)
      BY <1>5, <1>6, FS_Subset
    <2>2. 0 \in heard
      OBVIOUS
    <2> HIDE DEF heard
    <2> QED BY <1>4, <1>6, <2>1, <2>2
  <1>8. Max(heard) \in heard /\ \A h \in heard : h <= Max(heard)
    BY <1>7, MaxIsGreatest
  <1>9. SummariseArm(Capture(fate, silent)).last = Max(heard)
    BY DEF SummariseArm
  <1> HIDE DEF heard
  <1> QED BY <1>3, <1>8, <1>9

\* Two arms nobody answers for died at the same hop when no hop that answers
\* got the one past where the other was stopped; if they died at different hops,
\* one that answers got only one of them.
LEMMA WhereTheyDied ==
    ASSUME NEW c \in Fates, NEW t \in Fates, NEW silent \in SUBSET (Ttls \ {PathLength}),
           ~Delivers(c), ~Impersonated(c), ~Delivers(t), ~Impersonated(t)
    PROVE  LET same == SummariseArm(Capture(c, silent)).last = SummariseArm(Capture(t, silent)).last
           IN  /\ same => \A h \in Ttls \ silent :
                            (Gets(c, h) => h <= t.stops) /\ (Gets(t, h) => h <= c.stops)
               /\ ~same => \E h \in Ttls \ silent : Gets(c, h) # Gets(t, h)
  <1> DEFINE met(fate) == {h \in Ttls \ silent : Gets(fate, h)}
             last(fate) == SummariseArm(Capture(fate, silent)).last
  <1>1. \A fate \in {c, t} : last(fate) \in {0} \cup met(fate) /\ \A h \in met(fate) : h <= last(fate)
    BY LastThatAnswered
  <1>2. \A fate \in {c, t} : met(fate) \in SUBSET Ttls
    OBVIOUS
  <1>3. \A fate \in {c, t} : \A h \in Ttls \ silent : Gets(fate, h) <=> h \in met(fate)
    OBVIOUS
  <1>4. Ttls \subseteq Nat \ {0} /\ c.stops \in Nat /\ t.stops \in Nat
    BY PathAssumption DEF Ttls, Fates
  <1>5. \A fate \in {c, t} : \A h \in met(fate) : h <= fate.stops
    BY DEF Gets
  <1> HIDE DEF last, met
  <1>6. \A fate \in {c, t} : last(fate) \in Nat
    <2> SUFFICES ASSUME NEW fate \in {c, t} PROVE last(fate) \in Nat
      OBVIOUS
    <2> DEFINE n == last(fate)
    <2>1. n = 0 \/ n \in Ttls
      BY <1>1, <1>2
    <2>2. \A h \in Ttls : h \in Nat
      BY <1>4
    <2> HIDE DEF n
    <2>3. n \in Nat
      BY <2>1, <2>2
    <2> QED BY <2>3 DEF n
  <1>7. ASSUME last(c) = last(t), NEW h \in Ttls \ silent
        PROVE  (Gets(c, h) => h <= t.stops) /\ (Gets(t, h) => h <= c.stops)
    <2>1. ASSUME NEW f \in {c, t}, NEW g \in {c, t}, Gets(f, h)
          PROVE  h <= g.stops
      <3>1. h \in met(f) /\ h <= last(f) /\ last(f) = last(g)
        BY <1>1, <1>3, <1>7, <2>1
      <3>2. h \in Nat \ {0} /\ last(g) \in Nat /\ g.stops \in Nat
        BY <1>4, <1>6
      <3>3. last(g) \in met(g)
        BY <1>1, <3>1, <3>2
      <3>4. last(g) <= g.stops
        BY <1>5, <3>3
      <3> QED BY <3>1, <3>2, <3>4
    <2> QED BY <2>1
  <1>8. ASSUME last(c) # last(t)
        PROVE  \E h \in Ttls \ silent : Gets(c, h) # Gets(t, h)
    <2>1. SUFFICES ASSUME \A h \in Ttls \ silent : Gets(c, h) = Gets(t, h) PROVE FALSE
      OBVIOUS
    <2>2. met(c) = met(t)
      BY <2>1 DEF met
    <2>3. /\ last(c) \in {0} \cup met(c) /\ last(t) \in {0} \cup met(c)
          /\ \A h \in met(c) : h <= last(c) /\ h <= last(t)
      BY <1>1, <2>2
    <2>4. last(c) \in Nat /\ last(t) \in Nat
      BY <1>6
    <2>5. last(c) <= last(t) /\ last(t) <= last(c)
      BY <2>3, <2>4
    <2> QED BY <1>8, <2>4, <2>5
  <1> QED BY <1>7, <1>8 DEF last, met

\* The handshake of an arm is that of its probes.
LEMMA HandshakeOfArm ==
    ASSUME NEW fate \in Fates, NEW silent \in SUBSET (Ttls \ {PathLength})
    PROVE  LET handshake == SummariseArm(Capture(fate, silent)).handshake
           IN  /\ handshake = "none" <=> ~ fate.tcp
               /\ handshake = "no" <=> fate.tcp /\ fate.connects = {}
               /\ handshake = "yes" <=> fate.tcp /\ fate.connects # {}
  <1> DEFINE hops == Capture(fate, silent)
             seen == {hops[h].handshake : h \in Ttls} \ {"none"}
  <1>1. PathLength \in Ttls /\ fate.connects \subseteq Ttls
    BY PathAssumption DEF Ttls, Fates
  <1>2. \A h \in Ttls : hops[h].handshake =
            IF ~fate.tcp THEN "none" ELSE IF h \in fate.connects THEN "yes" ELSE "no"
    BY DEF Capture, Hop
  <1>3. Handshake(hops) = IF "yes" \in seen THEN "yes" ELSE IF "no" \in seen THEN "no" ELSE "none"
    BY DEF Handshake
  <1> HIDE DEF hops
  <1>4. "yes" \in seen <=> fate.tcp /\ fate.connects # {}
    BY <1>1, <1>2
  <1>5. "no" \in seen <=> fate.tcp /\ fate.connects # Ttls
    BY <1>1, <1>2
  <1>6. Handshake(hops) = SummariseArm(hops).handshake
    BY DEF SummariseArm
  <1> QED BY <1>1, <1>3, <1>4, <1>5, <1>6 DEF hops

LEMMA ArmsStep == ArmVerdictFitsPath /\ [CompareArms]_pairing => ArmVerdictFitsPath'
  <1>1. ASSUME ArmVerdictFitsPath, UNCHANGED pairing
        PROVE  ArmVerdictFitsPath'
    BY <1>1 DEF ArmVerdictFitsPath
  <1>2. ASSUME CompareArms
        PROVE  ArmVerdictFitsPath'
    <2> DEFINE c == pairing'.control
               t == pairing'.treatment
               silent == pairing'.silent
               cs == SummariseArm(Capture(c, silent))
               ts == SummariseArm(Capture(t, silent))
    <2>1. /\ c \in Fates /\ t \in Fates /\ silent \in SUBSET (Ttls \ {PathLength})
          /\ c.tcp = t.tcp /\ pairing'.verdict = ClassifyArms(cs, ts)
      BY <1>2 DEF CompareArms
    <2> HIDE DEF c, t, silent
    <2>2. /\ cs.reached <=> Delivers(c) \/ Impersonated(c)
          /\ ts.reached <=> Delivers(t) \/ Impersonated(t)
      BY <2>1, ReachedIsNamed
    <2>3. /\ ts.handshake = "none" <=> ~ t.tcp
          /\ ts.handshake = "no" <=> t.tcp /\ t.connects = {}
          /\ ts.handshake = "yes" <=> t.tcp /\ t.connects # {}
      BY <2>1, HandshakeOfArm
    <2>4. ~Delivers(t) /\ Sent(t, PathLength) => t.stops < PathLength
      <3>1. t.stops \in Nat /\ PathLength \in Nat
        BY <2>1, PathAssumption DEF Fates
      <3> QED BY <3>1 DEF Delivers, Gets
    <2>5. ASSUME ~cs.reached, ~ts.reached
          PROVE  /\ cs.last = ts.last => \A h \in Ttls \ silent :
                        (Gets(c, h) => h <= t.stops) /\ (Gets(t, h) => h <= c.stops)
                 /\ cs.last # ts.last => \E h \in Ttls \ silent : Gets(c, h) # Gets(t, h)
      BY <2>1, <2>2, <2>5, WhereTheyDied
    <2> HIDE DEF cs, ts
    <2>6. pairing'.verdict =
             IF ~cs.reached /\ ts.reached THEN "control failed"
             ELSE IF cs.reached /\ ts.reached THEN "both delivered"
             ELSE IF ~cs.reached
                  THEN IF cs.last = ts.last THEN "port blocked" ELSE "inconclusive"
             ELSE IF ts.handshake = "yes" THEN "payload dropped"
             ELSE IF ts.handshake = "no" THEN "treatment unreachable"
             ELSE "payload probably dropped"
      BY <2>1 DEF ClassifyArms
    <2>7. ArmVerdictFitsPath' <=>
            (pairing' # NoPairing =>
               CASE pairing'.verdict = "both delivered" ->
                       \A fate \in {c, t} : Delivers(fate) \/ Impersonated(fate)
                 [] pairing'.verdict = "control failed" -> ~Delivers(c) /\ ~Impersonated(c)
                 [] pairing'.verdict = "treatment unreachable" -> t.tcp /\ t.connects = {}
                 [] pairing'.verdict \in {"payload dropped", "payload probably dropped"} ->
                       /\ Delivers(c) \/ Impersonated(c)
                       /\ t.tcp <=> pairing'.verdict = "payload dropped"
                       /\ t.tcp => t.connects # {}
                       /\ Sent(t, PathLength) => t.stops < PathLength
                 [] pairing'.verdict = "port blocked" ->
                       /\ ~Delivers(c) /\ ~Delivers(t)
                       /\ \A h \in Ttls \ silent :
                             (Gets(c, h) => h <= t.stops) /\ (Gets(t, h) => h <= c.stops)
                 [] pairing'.verdict = "inconclusive" ->
                       /\ ~Delivers(c) /\ ~Delivers(t)
                       /\ \E h \in Ttls \ silent : Gets(c, h) # Gets(t, h))
      BY DEF ArmVerdictFitsPath, c, t, silent
    <2>8. CASE ~cs.reached /\ ts.reached
      BY <2>2, <2>6, <2>7, <2>8
    <2>9. CASE cs.reached /\ ts.reached
      BY <2>2, <2>6, <2>7, <2>9
    <2>10. CASE ~cs.reached /\ ~ts.reached
      BY <2>2, <2>5, <2>6, <2>7, <2>10
    <2>11. CASE cs.reached /\ ~ts.reached
      BY <2>2, <2>3, <2>4, <2>6, <2>7, <2>11
    <2> QED BY <2>8, <2>9, <2>10, <2>11
  <1> QED BY <1>1, <1>2

LEMMA ArmsBegin == ArmsInit => ArmVerdictFitsPath
  BY DEF ArmsInit, ArmVerdictFitsPath

\* What compare_arms says of a pair is so of its path, whoever answers in the
\* destination's name, for a path of any length, any hops that keep silent and any
\* handshakes that fail; two arms that "died at the same hop" are told apart by no
\* hop that answers (utils/arms.py, _classify).
THEOREM ArmVerdictHolds == ArmsInit /\ [][CompareArms]_pairing => []ArmVerdictFitsPath
  BY ArmsBegin, ArmsStep, PTL

-----------------------------------------------------------------------------
(* Windows and spans *)

Timetable == measurements \in Seq(Downloads)

LEMMA WindowFacts ==
    ASSUME NEW m \in Downloads
    PROVE  /\ Start(m) \in Nat /\ End(m) \in Nat /\ Start(m) <= End(m)
           /\ HasWindow(m) <=> Start(m) > 0
  <1>1. Times \cup {0} \subseteq Nat
    BY AtlasAssumption
  <1>2. m.timestamp \in Times \cup {0} /\ m.endtime \in Times \cup {0}
    BY DEF Downloads
  <1>3. m.timestamp \in Nat /\ m.endtime \in Nat
    BY <1>1, <1>2
  <1> QED BY <1>3 DEF Start, End, HasWindow

LEMMA TimedFacts ==
    ASSUME Timetable
    PROVE  /\ Timed \subseteq Downloads
           /\ \A i \in DOMAIN measurements :
                 HasWindow(measurements[i]) => measurements[i] \in Timed
           /\ \A T \in SUBSET Timed :
                 {End(m) : m \in T} \in SUBSET Nat /\ IsFiniteSet({End(m) : m \in T})
  <1> DEFINE ends == [i \in 1..Len(measurements) |-> End(measurements[i])]
             image == {ends[i] : i \in 1..Len(measurements)}
  <1>1. /\ DOMAIN measurements = 1..Len(measurements) /\ Len(measurements) \in Nat
        /\ \A i \in 1..Len(measurements) : measurements[i] \in Downloads
    BY LenProperties, ElementOfSeq DEF Timetable
  <1>2. /\ Timed \subseteq Downloads
        /\ \A m \in Timed : \E i \in 1..Len(measurements) : m = measurements[i]
        /\ \A i \in DOMAIN measurements : HasWindow(measurements[i]) => measurements[i] \in Timed
    BY <1>1 DEF Timed, ToSet
  <1>3. IsFiniteSet(image)
    <2>1. ends \in Surjection(1..Len(measurements), image)
      BY DEF Surjection
    <2>2. IsFiniteSet(1..Len(measurements))
      BY <1>1, FS_Interval
    <2> QED BY <2>1, <2>2, FS_Surjection
  <1>4. ASSUME NEW T \in SUBSET Timed
        PROVE  {End(m) : m \in T} \in SUBSET Nat /\ IsFiniteSet({End(m) : m \in T})
    <2>1. {End(m) : m \in T} \in SUBSET image
      BY <1>2
    <2>2. {End(m) : m \in T} \in SUBSET Nat
      BY <1>2, WindowFacts
    <2> QED BY <1>3, <2>1, <2>2, FS_Subset
  <1> QED BY <1>2, <1>4

\* The windows that one span answers for.
Here(s) == {m \in Timed : Start(m) >= s /\ \A t \in SpanStarts : t > s => Start(m) < t}

LEMMA SpanFacts ==
    ASSUME Timetable, NEW s \in SpanStarts
    PROVE  /\ s \in Nat /\ Span(s) \in Nat \X Nat /\ Span(s)[1] = s
           /\ \A m \in Here(s) : End(m) <= Span(s)[2]
  <1> DEFINE ends == {End(m) : m \in Here(s)}
  <1>1. PICK m \in Timed : s = Start(m)
    BY DEF SpanStarts
  <1>2. s \in Nat /\ SpanStarts \subseteq Nat
    BY <1>1, TimedFacts, WindowFacts DEF SpanStarts
  <1>3. m \in Here(s)
    BY <1>1, <1>2 DEF Here
  <1>4. Here(s) \in SUBSET Timed
    BY DEF Here
  <1>5. ends \in SUBSET Nat /\ IsFiniteSet(ends) /\ ends # {}
    BY <1>3, <1>4, TimedFacts
  <1>6. Max(ends) \in Nat /\ \A e \in ends : e <= Max(ends)
    BY <1>5, MaxIsGreatest
  <1>7. Span(s) = <<s, Max(ends)>>
    BY DEF Span, Here
  <1> HIDE DEF ends
  <1>8. \A h \in Here(s) : End(h) \in ends
    BY DEF ends
  <1> QED BY <1>2, <1>6, <1>7, <1>8

\* Every window lies in a span, so none is left unasked (merge_spans).
LEMMA SpansCover ==
    ASSUME Timetable, NEW m \in Timed
    PROVE  \E sp \in Spans : sp[1] <= Start(m) /\ End(m) <= sp[2]
  <1> DEFINE starts == {Start(t) : t \in Timed}
             below == {s \in SpanStarts : s <= Start(m)}
  <1>1. starts \in SUBSET Nat /\ Start(m) \in starts /\ Start(m) \in Nat
    BY TimedFacts, WindowFacts
  <1>2. PICK first \in starts : \A s \in starts : first <= s
    BY <1>1, LeastNatural
  <1>3. first \in SpanStarts
    <2>1. \A t \in Timed : ~ (Start(t) < first)
      BY <1>1, <1>2
    <2> QED BY <2>1 DEF SpanStarts
  <1>4. below \in SUBSET Nat /\ below # {}
    BY <1>1, <1>2, <1>3, SpanFacts
  <1>5. IsFiniteSet(below)
    BY <1>1, <1>4, FS_BoundedSetOfNaturals
  <1>6. PICK s \in below : \A t \in below : t <= s
    BY <1>4, <1>5, GreatestNatural DEF HasGreatest
  <1>7. s \in SpanStarts /\ s <= Start(m) /\ s \in Nat
    BY <1>4
  <1>8. ASSUME NEW t \in SpanStarts, t > s PROVE Start(m) < t
    <2>1. t \in Nat
      BY SpanFacts
    <2>2. t \notin below
      BY <1>6, <1>7, <1>8, <2>1
    <2> QED BY <1>1, <2>1, <2>2
  <1>9. m \in Here(s)
    BY <1>1, <1>7, <1>8 DEF Here
  <1>10. Span(s)[1] = s /\ End(m) <= Span(s)[2]
    BY <1>7, <1>9, SpanFacts
  <1> QED BY <1>7, <1>10 DEF Spans

-----------------------------------------------------------------------------
(* The annotation *)

JudgedAll ==
    job \in {"reopen", "dump"} =>
        /\ verdicts = [i \in DOMAIN measurements |-> Judge(measurements[i])]
        /\ Spans \ (answered \cup refused) = {}

AtlasInv ==
    /\ Timetable
    /\ \A o \in outages : o.from \in Nat /\ o.until \in Nat
    /\ answered \subseteq Nat \X Nat
    /\ JudgedAll

\* The outages during a measurement.
During(m) == {o \in outages : o.from <= End(m) /\ (o.until = 0 \/ o.until >= Start(m))}

\* What IODA returns for a span that covers a window, filtered by the window,
\* are outages during it: all but such as began before the query looks back.
LEMMA OverlapIsDuring ==
    ASSUME AtlasInv, NEW m \in Downloads, NEW sp \in Covering(m)
    PROVE  /\ Overlapping(Events(sp), m) \subseteq During(m)
           /\ \A o \in During(m) :
                 o.from >= Start(m) - LookBack => o \in Overlapping(Events(sp), m)
  <1>1. /\ sp[1] \in Nat /\ sp[1] <= Start(m) /\ Start(m) \in Nat
        /\ sp[2] \in Nat /\ End(m) <= sp[2] /\ End(m) \in Nat
    BY WindowFacts DEF Covering, AtlasInv
  <1>2. \A o \in outages : /\ o.from <= End(m) => o.from <= sp[2]
                           /\ o.from >= Start(m) - LookBack => o.from >= sp[1] - LookBack
    BY <1>1, AtlasAssumption DEF AtlasInv
  <1> QED BY <1>2 DEF Overlapping, Events, During

LEMMA JudgedIsTrue == AtlasInv => JudgedTruly
  <1> SUFFICES ASSUME AtlasInv, job \in {"reopen", "dump"}, NEW i \in DOMAIN measurements
               PROVE  LET m == measurements[i]
                      IN  /\ verdicts[i] = "outage" => During(m) # {}
                          /\ verdicts[i] = "clear" =>
                                \A o \in During(m) : o.from < Start(m) - LookBack
                          /\ HasWindow(m) /\ verdicts[i] = "none" =>
                                \E sp \in refused : sp[1] <= Start(m) /\ End(m) <= sp[2]
    BY DEF JudgedTruly, During
  <1> DEFINE m == measurements[i]
  <1>1. m \in Downloads
    BY ElementOfSeq, LenProperties DEF AtlasInv, Timetable
  <1>2. verdicts[i] = Judge(m)
    BY DEF AtlasInv, JudgedAll
  <1>3. HasWindow(m) /\ Covering(m) = {} =>
            \E sp \in refused : sp[1] <= Start(m) /\ End(m) <= sp[2]
    <2>1. SUFFICES ASSUME HasWindow(m), Covering(m) = {}
                   PROVE  \E sp \in refused : sp[1] <= Start(m) /\ End(m) <= sp[2]
      OBVIOUS
    <2>2. PICK sp \in Spans : sp[1] <= Start(m) /\ End(m) <= sp[2]
      BY <2>1, TimedFacts, SpansCover DEF AtlasInv
    <2>3. sp \in answered \cup refused
      BY <2>2 DEF AtlasInv, JudgedAll
    <2> QED BY <2>1, <2>2, <2>3 DEF Covering
  <1> HIDE DEF m
  <1>4. Judge(m) = IF ~HasWindow(m) \/ Covering(m) = {} THEN "none"
                   ELSE IF \E sp \in Covering(m) : Overlapping(Events(sp), m) # {}
                        THEN "outage" ELSE "clear"
    BY DEF Judge
  <1>5. verdicts[i] = "outage" => During(m) # {}
    BY <1>1, <1>2, <1>4, OverlapIsDuring
  <1>6. ASSUME verdicts[i] = "clear", NEW o \in During(m)
        PROVE  o.from < Start(m) - LookBack
    <2>1. PICK sp \in Covering(m) : Overlapping(Events(sp), m) = {}
      BY <1>2, <1>4, <1>6
    <2>2. ~ (o.from >= Start(m) - LookBack)
      BY <1>1, <2>1, OverlapIsDuring
    <2>3. o.from \in Nat /\ Start(m) \in Nat /\ LookBack \in Nat
      BY <1>1, AtlasAssumption, WindowFacts DEF During, AtlasInv
    <2> QED BY <2>2, <2>3
  <1>7. HasWindow(m) /\ verdicts[i] = "none" =>
            \E sp \in refused : sp[1] <= Start(m) /\ End(m) <= sp[2]
    BY <1>2, <1>3, <1>4
  <1> QED BY <1>5, <1>6, <1>7 DEF m

\* The next span is one, with two ends in time.
LEMMA NextSpanIsSpan ==
    ASSUME AtlasInv, Spans \ (answered \cup refused) # {}
    PROVE  NextSpan \in Spans /\ NextSpan \in Nat \X Nat
  <1> DEFINE open == Spans \ (answered \cup refused)
             begins == {sp[1] : sp \in open}
  <1>1. \A sp \in Spans : sp \in Nat \X Nat
    BY SpanFacts DEF Spans, AtlasInv
  <1>2. begins \in SUBSET Nat /\ begins # {}
    BY <1>1
  <1>3. PICK b \in begins : \A c \in begins : b <= c
    BY <1>2, LeastNatural
  <1>4. PICK sp \in open : sp[1] = b
    OBVIOUS
  <1>5. \A other \in open : sp[1] <= other[1]
    BY <1>3, <1>4
  <1>6. NextSpan \in open
    BY <1>4, <1>5 DEF NextSpan
  <1> QED BY <1>1, <1>6

\* A step that leaves what the verdicts are made of alone.
LEMMA JudgingKept ==
    ASSUME AtlasInv,
           UNCHANGED <<outages, measurements, answered, refused, verdicts>>,
           job' \in {"reopen", "dump"} => job \in {"reopen", "dump"}
    PROVE  AtlasInv'
  <1> DEFINE all == [i \in DOMAIN measurements |-> Judge(measurements[i])]
  <1>1. Spans' = Spans
    BY DEF Spans, Span, SpanStarts, Timed, Start, End, HasWindow
  <1>2. all' = all
    BY DEF Judge, Covering, Overlapping, Events, Start, End, HasWindow
  <1> HIDE DEF all
  <1>3. AtlasInv <=>
            /\ Timetable
            /\ \A o \in outages : o.from \in Nat /\ o.until \in Nat
            /\ answered \subseteq Nat \X Nat
            /\ job \in {"reopen", "dump"} =>
                  verdicts = all /\ Spans \ (answered \cup refused) = {}
    BY DEF AtlasInv, JudgedAll, all
  <1>4. AtlasInv' <=>
            /\ Timetable'
            /\ \A o \in outages' : o.from \in Nat /\ o.until \in Nat
            /\ answered' \subseteq Nat \X Nat
            /\ job' \in {"reopen", "dump"} =>
                  verdicts' = all' /\ Spans' \ (answered' \cup refused') = {}
    BY DEF AtlasInv, JudgedAll, all
  <1>5. Timetable' <=> Timetable
    BY DEF Timetable
  <1> QED BY <1>1, <1>2, <1>3, <1>4, <1>5

\* A download starts over, wherever the one before it ended.
LEMMA DownloadBegins ==
    ASSUME NEW several \in BOOLEAN, BeginDownload(several)
    PROVE  AtlasInv'
  <1>1. measurements' = <<>> /\ answered' = {} /\ outages' \in OutageSets /\ job' = "download"
    BY DEF BeginDownload
  <1>2. Timetable'
    BY <1>1 DEF Timetable
  <1> QED BY <1>1, <1>2, OutageAssumption DEF AtlasInv, JudgedAll

LEMMA AtlasBegins == AtlasInit => AtlasInv
  <1> SUFFICES ASSUME AtlasInit PROVE AtlasInv
    OBVIOUS
  <1>1. Timetable
    BY DEF AtlasInit, Timetable
  <1> QED BY <1>1 DEF AtlasInit, AtlasInv, JudgedAll

LEMMA AtlasStep == AtlasInv /\ [AtlasNext]_atlasVars => AtlasInv'
  <1> SUFFICES ASSUME AtlasInv, [AtlasNext]_atlasVars PROVE AtlasInv'
    OBVIOUS
  <1>1. CASE UNCHANGED atlasVars
    BY <1>1, JudgingKept DEF atlasVars
  <1>2. ASSUME NEW several \in BOOLEAN, BeginDownload(several)
        PROVE  AtlasInv'
    BY <1>2, DownloadBegins
  <1>3. CASE ResultArrives
    <2>1. PICK m \in Downloads : measurements' = Append(measurements, m)
      BY <1>3 DEF ResultArrives
    <2>2. /\ job = "download" /\ job' = "download"
          /\ UNCHANGED <<outages, answered>>
      BY <1>3 DEF ResultArrives, Asking, annotation
    <2>3. Timetable'
      BY <2>1, AppendProperties DEF AtlasInv, Timetable
    <2> QED BY <2>2, <2>3 DEF AtlasInv, JudgedAll
  <1>4. CASE NothingArrives \/ EmptyListArrives \/ RequestRaises
    <2>1. /\ UNCHANGED <<outages, measurements, answered, refused, verdicts>>
          /\ job' \notin {"reopen", "dump"}
      BY <1>4 DEF NothingArrives, EmptyListArrives, RequestRaises, Asking, annotation
    <2> QED BY <2>1, JudgingKept
  <1>5. CASE SaveDownload
    <2>1. /\ UNCHANGED <<outages, measurements, answered>>
          /\ job' \notin {"reopen", "dump"}
      BY <1>5 DEF SaveDownload
    <2>2. Timetable'
      BY <2>1 DEF AtlasInv, Timetable
    <2> QED BY <2>1, <2>2 DEF AtlasInv, JudgedAll
  <1>6. CASE SaveFails \/ Unread
    <2>1. /\ UNCHANGED <<outages, measurements, answered, refused, verdicts>>
          /\ job' \notin {"reopen", "dump"}
      BY <1>6 DEF SaveFails, Unread, annotation
    <2> QED BY <2>1, JudgingKept
  <1>7. CASE FetchEvents
    <2>1. NextSpan \in Nat \X Nat
      BY <1>7, NextSpanIsSpan DEF FetchEvents
    <2>2. /\ answered' \subseteq answered \cup {NextSpan}
          /\ UNCHANGED <<outages, measurements>>
          /\ job' \notin {"reopen", "dump"}
      BY <1>7 DEF FetchEvents
    <2>3. Timetable'
      BY <2>2 DEF AtlasInv, Timetable
    <2>4. answered' \subseteq Nat \X Nat
      BY <2>1, <2>2 DEF AtlasInv
    <2> QED BY <2>2, <2>3, <2>4 DEF AtlasInv, JudgedAll
  <1>8. CASE Annotate
    <2>1. CASE job' = "ready" /\ UNCHANGED verdicts
      BY <1>8, <2>1, JudgingKept DEF Annotate
    <2>2. CASE job' = "reopen" /\ verdicts' = [i \in DOMAIN measurements |-> Judge(measurements[i])]
      <3> DEFINE all == [i \in DOMAIN measurements |-> Judge(measurements[i])]
      <3>1. /\ UNCHANGED <<outages, measurements, answered, refused>>
            /\ Spans \ (answered \cup refused) = {}
        BY <1>8 DEF Annotate
      <3>2. Spans' = Spans
        BY <3>1 DEF Spans, Span, SpanStarts, Timed, Start, End, HasWindow
      <3>3. all' = all
        BY <3>1 DEF Judge, Covering, Overlapping, Events, Start, End, HasWindow
      <3>4. verdicts' = all
        BY <2>2
      <3> HIDE DEF all
      <3>5. JudgedAll' <=> (job' \in {"reopen", "dump"} =>
                               verdicts' = all' /\ Spans' \ (answered' \cup refused') = {})
        BY DEF JudgedAll, all
      <3>6. JudgedAll'
        BY <3>1, <3>2, <3>3, <3>4, <3>5
      <3>7. Timetable'
        BY <3>1 DEF AtlasInv, Timetable
      <3> QED BY <3>1, <3>6, <3>7 DEF AtlasInv
    <2> QED BY <1>8, <2>1, <2>2 DEF Annotate
  <1>9. CASE Reopen \/ Dump
    <2>1. /\ UNCHANGED <<outages, measurements, answered, refused, verdicts>>
          /\ job \in {"reopen", "dump"}
      BY <1>9 DEF Reopen, Dump, annotation
    <2> QED BY <2>1, JudgingKept
  <1> QED BY <1>1, <1>2, <1>3, <1>4, <1>5, <1>7, <1>8, <1>9, <1>6 DEF AtlasNext, Download

\* An outage verdict is about the measurement's own time, "clear" leaves room only
\* for an outage that began before the query looks back, and no verdict is missing
\* but for a span asked for in vain, whichever windows were merged, outages
\* happened and requests failed (utils/ioda.py).
THEOREM OutagesJudgedTruly == AtlasSpec => []JudgedTruly
  <1> QED BY AtlasBegins, AtlasStep, JudgedIsTrue, PTL DEF AtlasSpec

-----------------------------------------------------------------------------
(* The command line *)

\* Which sources have had their turn when main is at a place, and that the path
\* in hand is that of the last of them.
Sources == {"none", "trace", "partial", "vps", "ripe", "file"}
PathIsLast ==
    /\ path \in Sources
    /\ success => path # "none"
    /\ path = "none" \/ success \/ (path = "file" /\ command.csv)
    /\ place \in {"targets", "reassembly", "trace"} => path = "none"
    /\ place \in {"vps", "vps download"} => path \in {"none", "trace", "partial"}
    /\ place \in {"ripe", "ripe download"} =>
          path \in Sources \ {"ripe", "file"} /\ (command.vps => path \in {"none", "vps"})
    /\ place = "file" =>
          /\ path # "file"
          /\ command.ripe => path = "ripe"
          /\ command.vps => path \in {"none", "vps", "ripe"}
    /\ place \in {"compare", "render"} =>
          /\ command.file => path = "file"
          /\ command.ripe => path \in {"ripe", "file"}
          /\ command.vps => path \in {"none", "vps", "ripe", "file"}

\* A source is gone through only when it was asked for, and main exits once.
Asked ==
    /\ command \in Options
    /\ place = "reassembly" => command.reassembly
    /\ place = "vps download" => command.vps
    /\ place = "ripe download" => command.ripe
    /\ path = "vps" => command.vps
    /\ path = "ripe" => command.ripe
    /\ path = "file" => command.file
    /\ place # "exit" => exit = -1 /\ drawn = "none"

MainInv == PathIsLast /\ Asked /\ ExitTellsTheGraph

LEMMA MainInit == Init => MainInv
  <1> SUFFICES ASSUME Init PROVE MainInv
    OBVIOUS
  <1>1. command \in Options
    BY CommandsAssumption DEF Init
  <1> QED BY <1>1 DEF Init, MainInv, PathIsLast, Sources, Asked, ExitTellsTheGraph

\* No step leads out of the end of main.
LEMMA MainStep == MainInv /\ [Next]_vars => MainInv'
  <1> SUFFICES ASSUME MainInv, [Next]_vars PROVE MainInv'
    OBVIOUS
  <1> USE DEF MainInv, PathIsLast, Sources, Asked, ExitTellsTheGraph
  <1>1. CASE UNCHANGED vars
    BY <1>1 DEF vars, mainVars, componentVars, atlasVars
  <1>2. CASE RejectTargets \/ AcceptTargets
    <2>1. /\ command' = command /\ drawn' = drawn /\ path' = path /\ success' = success
          /\ place = "targets"
          /\ \/ place' = "exit" /\ exit' = 1
             \/ place' = "reassembly" /\ command.reassembly /\ exit' = exit
             \/ place' = "trace" /\ exit' = exit
      BY <1>2 DEF RejectTargets, AcceptTargets, Go, Exit
    <2>2. PathIsLast'
      BY <2>1
    <2>3. Asked'
      BY <2>1
    <2>4. ExitTellsTheGraph'
      <3>1. place # "exit"
        BY <2>1
      <3>2. drawn = "none" /\ exit = -1
        BY <3>1
      <3>3. drawn' = "none" /\ exit' # 0
        BY <2>1, <3>2
      <3> QED BY <3>3
    <2> QED BY <2>2, <2>3, <2>4
  <1>3. CASE BadProbeTarget \/ ReassemblyEnds
    <2>1. /\ command' = command /\ drawn' = drawn /\ path' = path /\ success' = success
          /\ place = "reassembly" /\ place' = "exit" /\ exit' = 0
      BY <1>3 DEF BadProbeTarget, ReassemblyEnds, Exit
    <2>2. PathIsLast'
      BY <2>1
    <2>3. Asked'
      BY <2>1
    <2>4. ExitTellsTheGraph'
      <3>1. drawn' = "none" /\ path' = "none" /\ command'.reassembly
        BY <2>1
      <3> QED BY <3>1
    <2> QED BY <2>2, <2>3, <2>4
  <1>4. CASE ProbeReassembly
    BY <1>4 DEF ProbeReassembly, mainVars
  <1>5. CASE SkipTrace \/ TraceReturns \/ TraceInterrupted
    <2>1. /\ command' = command /\ drawn' = drawn /\ exit' = exit
          /\ place = "trace" /\ place' = "vps"
          /\ \/ path' = path /\ success' = success
             \/ path' \in {"trace", "partial"} /\ success'
             \/ path' = "none" /\ ~success'
      BY <1>5 DEF SkipTrace, TraceReturns, TraceInterrupted, Go, Took
    <2>2. PathIsLast'
      BY <2>1
    <2>3. Asked'
      BY <2>1
    <2>4. ExitTellsTheGraph'
      <3>1. place # "exit"
        BY <2>1
      <3>2. drawn = "none" /\ exit = -1
        BY <3>1
      <3>3. drawn' = "none" /\ exit' # 0
        BY <2>1, <3>2
      <3> QED BY <3>3
    <2> QED BY <2>2, <2>3, <2>4
  <1>6. CASE TraceRaises \/ MonitorReturns \/ DownloadRaises \/ FileRaises
    <2>1. /\ command' = command /\ drawn' = drawn /\ path' = path /\ success' = success
          /\ place # "exit" /\ place' = "exit"
          /\ \/ exit' = 0 /\ place = "trace" /\ command.trace /\ command.monitor
             \/ exit' \in {1, 2}
      BY <1>6 DEF TraceRaises, MonitorReturns, DownloadRaises, FileRaises, Exit
    <2>2. PathIsLast'
      BY <2>1
    <2>3. Asked'
      BY <2>1
    <2>4. ExitTellsTheGraph'
      <3>1. drawn = "none"
        BY <2>1
      <3>2. drawn' = "none"
        BY <2>1, <3>1
      <3>3. exit' = 0 => path' = "none" /\ command'.trace /\ command'.monitor
        BY <2>1
      <3> QED BY <3>2, <3>3
    <2> QED BY <2>2, <2>3, <2>4
  <1>7. CASE SkipDownload \/ StartDownload
    <2>1. /\ command' = command /\ drawn' = drawn /\ exit' = exit
          /\ path' = path /\ success' = success
          /\ \/ place = "vps" /\ ~command.vps /\ place' = "ripe"
             \/ place = "ripe" /\ ~command.ripe /\ place' = "file"
             \/ place = "vps" /\ command.vps /\ place' = "vps download"
             \/ place = "ripe" /\ command.ripe /\ place' = "ripe download"
      BY <1>7 DEF SkipDownload, StartDownload, Go
    <2>2. PathIsLast'
      BY <2>1
    <2>3. Asked'
      BY <2>1
    <2>4. ExitTellsTheGraph'
      <3>1. place # "exit"
        BY <2>1
      <3>2. drawn = "none" /\ exit = -1
        BY <3>1
      <3>3. drawn' = drawn /\ exit' = exit
        BY <2>1, Zenon
      <3>4. drawn' = "none" /\ exit' # 0
        BY ONLY <3>2, <3>3
      <3> QED BY <3>4
    <2> QED BY <2>2, <2>3, <2>4
  <1>8. CASE NoProbeIds \/ DownloadEnds
    <2>1. /\ command' = command /\ drawn' = drawn /\ exit' = exit
          /\ \/ place = "vps" /\ place' = "ripe" /\ path' = "none" /\ ~success'
             \/ place = "vps download" /\ place' = "ripe" /\ path' = "vps" /\ success'
             \/ place = "ripe download" /\ place' = "file" /\ path' = "ripe" /\ success'
      BY <1>8 DEF NoProbeIds, DownloadEnds, Took
    <2>2. PathIsLast'
      BY <2>1
    <2>3. Asked'
      BY <2>1
    <2>4. ExitTellsTheGraph'
      <3>1. place # "exit"
        BY <2>1
      <3>2. drawn = "none" /\ exit = -1
        BY <3>1
      <3>3. drawn' = drawn /\ exit' = exit
        BY <2>1, Zenon
      <3>4. drawn' = "none" /\ exit' # 0
        BY ONLY <3>2, <3>3
      <3> QED BY <3>4
    <2> QED BY <2>2, <2>3, <2>4
  <1>9. CASE DownloadGoesOn
    BY <1>9 DEF DownloadGoesOn, mainVars
  <1>10. CASE SkipFile \/ TakeFile
    <2>1. /\ command' = command /\ drawn' = drawn /\ exit' = exit
          /\ place = "file" /\ place' = "compare"
          /\ \/ ~command.file /\ path' = path /\ success' = success
             \/ command.file /\ path' = "file" /\ (success' \/ command.csv)
      BY <1>10 DEF SkipFile, TakeFile, Go, Took
    <2>2. PathIsLast'
      BY <2>1
    <2>3. Asked'
      BY <2>1
    <2>4. ExitTellsTheGraph'
      <3>1. place # "exit"
        BY <2>1
      <3>2. drawn = "none" /\ exit = -1
        BY <3>1
      <3>3. drawn' = "none" /\ exit' # 0
        BY <2>1, <3>2
      <3> QED BY <3>3
    <2> QED BY <2>2, <2>3, <2>4
  <1>11. CASE SkipComparison \/ Compare
    <2>1. /\ command' = command /\ drawn' = drawn /\ exit' = exit
          /\ path' = path /\ success' = success
          /\ place = "compare" /\ place' = "render"
      BY <1>11 DEF SkipComparison, Compare, Go
    <2>2. PathIsLast'
      BY <2>1
    <2>3. Asked'
      BY <2>1
    <2>4. ExitTellsTheGraph'
      <3>1. place # "exit"
        BY <2>1
      <3>2. drawn = "none" /\ exit = -1
        BY <3>1
      <3>3. drawn' = "none" /\ exit' # 0
        BY <2>1, <3>2
      <3> QED BY <3>3
    <2> QED BY <2>2, <2>3, <2>4
  <1>12. CASE NothingToRender \/ RenderRejects
    <2>1. /\ command' = command /\ path' = path /\ drawn' = drawn /\ success' = success
          /\ place = "render" /\ place' = "exit"
          /\ \/ exit' = 0 /\ ~success
             \/ exit' = 1
      BY <1>12 DEF NothingToRender, RenderRejects, Exit
    <2>2. ExitTellsTheGraph'
      BY <2>1 DEF ExitTellsTheGraph
    <2>3. PathIsLast'
      BY <2>1
    <2>4. Asked'
      BY <2>1
    <2> QED BY <2>2, <2>3, <2>4
  <1>13. CASE Render
    <2>1. /\ command' = command /\ path' = path /\ drawn' = path /\ place' = "exit"
          /\ success' = success /\ exit' = 0 /\ place = "render"
      BY <1>13 DEF Render
    <2>2. /\ disk' = disk /\ success
          /\ path \in {"vps", "ripe"} => disk # "cut"
      BY <1>13 DEF Render, Readable, componentVars, atlasVars
    <2>3. path \in Sources \ {"none"}
      BY <2>2
    <2>4. ExitTellsTheGraph'
      <3>1. drawn' # "none"
        BY <2>1, <2>3
      <3>2. /\ command.file => path = "file"
            /\ command.ripe => path \in {"ripe", "file"}
            /\ command.vps => path \in {"vps", "ripe", "file"}
        BY <2>1, <2>3
      <3>3. /\ path = "vps" => command.vps
            /\ path = "ripe" => command.ripe
            /\ path = "file" => command.file
        OBVIOUS
      <3>4. /\ command.file \in BOOLEAN /\ command.ripe \in BOOLEAN
            /\ command.vps \in BOOLEAN
        BY DEF Options
      <3> QED BY <2>1, <2>2, <3>1, <3>2, <3>3, <3>4
    <2>5. PathIsLast'
      BY <2>1, <2>2
    <2>6. Asked'
      BY <2>1
    <2> QED BY <2>4, <2>5, <2>6
  <1> QED BY <1>1, <1>2, <1>3, <1>4, <1>5, <1>6, <1>7, <1>8, <1>9, <1>10, <1>11, <1>12, <1>13
          DEF Next, Sourcing

\* Exit code 0 means that a graph was drawn, of the last source that was asked
\* for and of a capture that was whole, but for a sweep, a monitored session, a
\* table, or a last source that made no capture, for any command line (main of
\* tracevis.py).
THEOREM ExitCodeIsTrue == Spec => []ExitTellsTheGraph
  <1>1. MainInv => ExitTellsTheGraph
    BY DEF MainInv
  <1> QED BY <1>1, MainInit, MainStep, PTL DEF Spec

\* main runs its components one after the other and keeps what each of them
\* promises by itself, although --ripe starts a second download after --vps.
ComponentInv == SweepInv /\ TruthInv /\ AtlasInv /\ ArmVerdictFitsPath

LEMMA ComponentStep == ComponentInv /\ [Next]_vars => ComponentInv'
  <1> SUFFICES ASSUME ComponentInv, [Next]_vars PROVE ComponentInv'
    OBVIOUS
  <1>1. [ReassemblyNext]_sweepVars
    BY DEF Next, vars, componentVars, Sourcing, RejectTargets, AcceptTargets, BadProbeTarget,
           ProbeReassembly, ReassemblyEnds, SkipTrace, TraceReturns, TraceInterrupted,
           TraceRaises, MonitorReturns, SkipDownload, StartDownload, NoProbeIds, DownloadGoesOn,
           DownloadEnds, DownloadRaises, SkipFile, TakeFile, FileRaises, SkipComparison, Compare,
           NothingToRender, Render, RenderRejects
  <1>2. [CompareArms]_pairing
    BY DEF Next, vars, componentVars, Sourcing, RejectTargets, AcceptTargets, BadProbeTarget,
           ProbeReassembly, ReassemblyEnds, SkipTrace, TraceReturns, TraceInterrupted,
           TraceRaises, MonitorReturns, SkipDownload, StartDownload, NoProbeIds, DownloadGoesOn,
           DownloadEnds, DownloadRaises, SkipFile, TakeFile, FileRaises, SkipComparison, Compare,
           NothingToRender, Render, RenderRejects
  <1>3. \/ [AtlasNext]_atlasVars
        \/ \E several \in BOOLEAN : BeginDownload(several)
    <2>1. CASE StartDownload
      <3>1. BeginDownload(place = "vps") /\ (place = "vps") \in BOOLEAN
        BY <2>1 DEF StartDownload
      <3> QED BY <3>1
    <2>2. CASE DownloadGoesOn
      BY <2>2 DEF DownloadGoesOn, AtlasNext
    <2>3. CASE UNCHANGED atlasVars
      BY <2>3
    <2> QED
      BY <2>1, <2>2, <2>3 DEF Next, vars, componentVars, Sourcing, RejectTargets, AcceptTargets,
         BadProbeTarget, ProbeReassembly, ReassemblyEnds, SkipTrace, TraceReturns,
         TraceInterrupted, TraceRaises, MonitorReturns, SkipDownload, NoProbeIds, DownloadEnds,
         DownloadRaises, SkipFile, TakeFile, FileRaises, SkipComparison, Compare,
         NothingToRender, Render, RenderRejects
  <1>4. (SweepInv /\ TruthInv)'
    BY <1>1, SweepStep, TruthStep DEF ComponentInv
  <1>5. ArmVerdictFitsPath'
    BY <1>2, ArmsStep DEF ComponentInv
  <1>6. AtlasInv'
    BY <1>3, AtlasStep, DownloadBegins DEF ComponentInv
  <1> QED BY <1>4, <1>5, <1>6 DEF ComponentInv

\* Under main every verdict of its components is still true.
THEOREM VerdictsUnderMain ==
    Spec => [](VerdictIsTrue /\ BufferHasExpired /\ JudgedTruly /\ ArmVerdictFitsPath)
  <1>1. Init => ComponentInv
    BY SweepInit, TruthInit, AtlasBegins, ArmsBegin DEF Init, ComponentInv
  <1>2. ComponentInv => VerdictIsTrue /\ BufferHasExpired /\ JudgedTruly /\ ArmVerdictFitsPath
    BY JudgedIsTrue DEF ComponentInv, SweepInv, TruthInv
  <1> QED BY <1>1, <1>2, ComponentStep, PTL DEF Spec
=============================================================================
