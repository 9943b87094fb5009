------------------------------ MODULE VisProofs ------------------------------
(***************************************************************************)
(* Proofs about Vis for any set of captures: any number of measurements,     *)
(* hops and results, in rows of any widths.                                  *)
(***************************************************************************)
EXTENDS Vis, NaturalFacts, SequenceTheorems, TLAPS

Tags == {"unknown", "forged", "middlebox", "cgnat", "pep", "nat"}
Patterns == {"unknown", "constant", "sequential", "random"}
Vantages == STRING \cup {""}
NodeIds == [tags : Seq(Tags), addr : STRING, vp : Vantages]
Edges == [from : NodeIds, to : NodeIds, number : Nat, repeat : Nat, hop : Nat, index : Nat,
          ipid : Patterns]

TypeInv ==
    /\ pc \in {"next", "row", "saved", "saved with tier", "IndexError"}
    /\ kind \in Captures
    /\ number \in 0..Len(kind.heads)
    /\ edges \subseteq Edges
    /\ IsFiniteSet(DOMAIN nodes)
    /\ \A e \in edges : e.to \in DOMAIN nodes

\* The rows of the measurement being drawn, what is known of them, and the place
\* in them.
RowInv ==
    pc = "row" =>
        /\ number >= 1
        /\ DOMAIN rows = 1..Len(rows) /\ Len(rows) \in 1..MaxHops
        /\ \A h \in 1..Len(rows) : rows[h] \in Seq(Results)
        /\ kind.written => (replyForged <=> ForgedDestinationReply(rows, dst))
        /\ hop \in 1..Len(rows)
        /\ index \in 1..(Len(rows[hop]) + 1)
        /\ repeat \in Nat \ {0}
        /\ previous \in [1..Len(rows[1]) -> NodeIds]
        /\ detected \in [1..Len(rows[1]) -> SUBSET Tags]

Took(h, i) == {e \in Walk(i) : e.hop = h}
Done(h, i) == h < hop \/ (h = hop /\ i < repeat)
DoneOf(i) == IF i < repeat THEN hop ELSE hop - 1
Before(h, i) == IF h = 1 THEN {SourceId(measurement)} ELSE {f.to : f \in Took(h - 1, i)}
Arrives(e, h, i) ==
    e.to.addr = IF IsStar(Probe(h, i)) THEN e.from.addr ELSE Probe(h, i).from

\* Nothing is drawn ahead of the place.
NothingAhead ==
    \A e \in edges :
        /\ e.number <= number
        /\ (pc = "row" /\ e.number = number) =>
              e.hop \in 1..hop /\ e.repeat \in DOMAIN previous /\ Done(e.hop, e.repeat)

WalkInv == TypeInv /\ RowInv /\ NothingAhead

\* In an orderly capture `repeat` is one more than the repeats whose results are
\* behind.
PlaceIsRight ==
    pc = "row" /\ Orderly =>
        /\ skipNext \in BOOLEAN
        /\ skipNext <=> (index > 1 /\ rows[hop][index - 1].late)
        /\ Cardinality(HeadsUpTo(rows[hop], index - 1)) = repeat - 1

\* Behind the place, every hop before the end of its walk is one edge.
OneEdgeEach ==
    pc = "row" /\ Orderly =>
        \A i \in DOMAIN previous : \A h \in 1..hop : Done(h, i) =>
            IF i > Repeats(h) \/ Ended(h, i) THEN Took(h, i) = {}
            ELSE \E e : Took(h, i) = {e} /\ e.from \in Before(h, i) /\ Arrives(e, h, i)

\* A repeat goes on from where its last edge led, unless that is the end.
GoesOn ==
    pc = "row" /\ Orderly =>
        \A i \in 1..Repeats(hop) :
            /\ Reached(previous[i]) <=> Ended(DoneOf(i) + 1, i)
            /\ ~Ended(DoneOf(i) + 1, i) => previous[i] \in Before(DoneOf(i) + 1, i)

OrderInv == PlaceIsRight /\ OneEdgeEach /\ GoesOn /\ OrderlyIsDrawn

-----------------------------------------------------------------------------
(* Rows and the heads in them *)

LEMMA ResultTypes ==
    ASSUME NEW r \in Results
    PROVE  r.late \in BOOLEAN /\ r.from \in STRING /\ r.received \in Seq(Packets)
  BY DEF Results

LEMMA HeadsInRow ==
    ASSUME NEW row \in Seq(Results)
    PROVE  /\ Heads(row) \in SUBSET (1..Len(row)) /\ Heads(row) \in SUBSET Nat
           /\ IsFiniteSet(Heads(row))
           /\ Cardinality(Heads(row)) \in Nat /\ Cardinality(Heads(row)) <= Len(row)
           /\ HeadsUpTo(row, 0) = {}
           /\ HeadsUpTo(row, Len(row)) = Heads(row)
  <1>1. Heads(row) \in SUBSET (1..Len(row)) /\ Len(row) \in Nat
    BY DEF Heads
  <1>2. \A n \in Nat : IsFiniteSet(1..n) /\ Cardinality(1..n) = n
    BY FS_Interval
  <1>3. IsFiniteSet(Heads(row)) /\ Cardinality(Heads(row)) <= Len(row)
    <2>1. IsFiniteSet(1..Len(row)) /\ Cardinality(1..Len(row)) = Len(row)
      BY <1>1, <1>2
    <2>2. IsFiniteSet(Heads(row)) /\ Cardinality(Heads(row)) <= Cardinality(1..Len(row))
      BY <1>1, <2>1, FS_Subset
    <2> QED BY <2>1, <2>2
  <1>4. Cardinality(Heads(row)) \in Nat
    BY <1>3, FS_CardinalityType
  <1> QED BY <1>1, <1>2, <1>3, <1>4 DEF HeadsUpTo

\* Going on by one result passes a head or none.
LEMMA HeadStep ==
    ASSUME NEW row \in Seq(Results), NEW n \in Nat
    PROVE  /\ Cardinality(HeadsUpTo(row, n)) \in Nat
           /\ n + 1 \in Heads(row) =>
                Cardinality(HeadsUpTo(row, n + 1)) = Cardinality(HeadsUpTo(row, n)) + 1
           /\ n + 1 \notin Heads(row) => HeadsUpTo(row, n + 1) = HeadsUpTo(row, n)
  <1>1. Heads(row) \in SUBSET Nat
    BY HeadsInRow
  <1> QED BY <1>1, CountStep DEF HeadsUpTo

LEMMA PositionOfHead ==
    ASSUME NEW row \in Seq(Results), NEW k \in Heads(row)
    PROVE  Position(row, Cardinality(HeadsUpTo(row, k))) = k
  <1>1. \A l \in Heads(row) :
            Cardinality(HeadsUpTo(row, l)) = Cardinality(HeadsUpTo(row, k)) => l = k
    <2> SUFFICES ASSUME NEW l \in Heads(row),
                        Cardinality(HeadsUpTo(row, l)) = Cardinality(HeadsUpTo(row, k))
                 PROVE  l = k
      OBVIOUS
    <2>1. ~ (k < l) /\ ~ (l < k)
      BY HeadsInRow, RankApart DEF HeadsUpTo
    <2> QED BY <2>1, HeadsInRow
  <1> QED BY <1>1 DEF Position

LEMMA PositionInRow ==
    ASSUME NEW row \in Seq(Results), NEW i \in 1..Cardinality(Heads(row))
    PROVE  Position(row, i) \in DOMAIN row
  <1>1. \E k \in Heads(row) : Cardinality(HeadsUpTo(row, k)) = i
    BY HeadsInRow, RankOnto DEF HeadsUpTo
  <1>2. Position(row, i) \in Heads(row)
    BY <1>1 DEF Position
  <1> QED BY <1>2 DEF Heads

LEMMA RowsAreTables ==
    ASSUME NEW widths \in SUBSET Nat, NEW results \in SUBSET Results,
           NEW row \in Rows(widths, results)
    PROVE  row \in Seq(Results) /\ \A i \in DOMAIN row : row[i] \in results
  <1>1. PICK n \in widths : row \in [1..n -> results]
    BY DEF Rows
  <1>2. n \in Nat
    OBVIOUS
  <1> QED BY <1>1, <1>2

\* Filling in the destination's address changes no more than who answered.
LEMMA AddressedIsRow ==
    ASSUME NEW row \in Seq(Results), NEW destination \in STRING
    PROVE  /\ Addressed(row, destination) \in Seq(Results)
           /\ Len(Addressed(row, destination)) = Len(row)
           /\ DOMAIN Addressed(row, destination) = DOMAIN row
  <1> DEFINE new == Addressed(row, destination)
  <1>1. Len(row) \in Nat /\ DOMAIN row = 1..Len(row)
    OBVIOUS
  <1>2. DOMAIN new = DOMAIN row
    BY DEF Addressed
  <1>3. ASSUME NEW i \in DOMAIN row PROVE new[i] \in Results
    <2>1. row[i] \in Results
      BY <1>1
    <2>2. new[i] = IF row[i].from = "dst" THEN [row[i] EXCEPT !.from = destination] ELSE row[i]
      BY <1>3 DEF Addressed
    <2>3. [row[i] EXCEPT !.from = destination] \in Results
      BY <2>1 DEF Results
    <2> HIDE DEF new
    <2> QED BY <2>1, <2>2, <2>3
  <1>4. new = [i \in 1..Len(row) |-> new[i]]
    BY <1>1 DEF Addressed
  <1> HIDE DEF new
  <1>5. new \in [1..Len(row) -> Results]
    BY <1>1, <1>2, <1>3, <1>4
  <1>6. new \in Seq(Results) /\ Len(new) = Len(row)
    BY <1>1, <1>5
  <1> QED BY <1>2, <1>6 DEF new

-----------------------------------------------------------------------------
(* Where the drawing stands *)

LEMMA KindFacts ==
    ASSUME TypeInv
    PROVE  /\ kind.heads \in Seq(MeasurementHeads) /\ kind.heads # <<>>
           /\ kind.hops \subseteq 1..MaxHops /\ kind.widths \in SUBSET Nat /\ kind.written \in BOOLEAN
           /\ kind.results \in SUBSET Results
           /\ \A r \in kind.results : r.received # <<>> => r.saved
           /\ \A n \in 1..Len(kind.heads) :
                /\ kind.heads[n] \in MeasurementHeads
                /\ kind.heads[n].dst # "***" /\ kind.heads[n].dst \in STRING
                /\ SourceId(kind.heads[n]) \in NodeIds
  <1>1. kind \in Captures
    BY DEF TypeInv
  <1>2. kind.heads \in Seq(MeasurementHeads) /\ kind.heads # <<>>
    BY <1>1, CapturesAssumption
  <1>3. ASSUME NEW n \in 1..Len(kind.heads)
        PROVE  /\ kind.heads[n] \in MeasurementHeads
               /\ kind.heads[n].dst # "***" /\ kind.heads[n].dst \in STRING
               /\ SourceId(kind.heads[n]) \in NodeIds
    <2>1. kind.heads[n] \in MeasurementHeads /\ n \in DOMAIN kind.heads
      BY <1>2
    <2>2. kind.heads[n].dst # "***"
      BY <1>1, <2>1, CapturesAssumption
    <2>3. kind.heads[n].dst \in STRING /\ kind.heads[n].src \in STRING /\ kind.heads[n].vp \in STRING
      BY <2>1 DEF MeasurementHeads
    <2>4. <<>> \in Seq(Tags)
      OBVIOUS
    <2> QED BY <2>1, <2>2, <2>3, <2>4 DEF SourceId, NodeIds, Vantages
  <1> QED BY <1>1, <1>2, <1>3, CapturesAssumption

LEMMA InRow ==
    ASSUME RowInv, pc = "row"
    PROVE  /\ number >= 1
           /\ DOMAIN rows = 1..Len(rows) /\ Len(rows) \in Nat /\ Len(rows) <= MaxHops
           /\ 1 \in 1..Len(rows) /\ Len(rows[1]) \in Nat
           /\ \A h \in 1..Len(rows) : rows[h] \in Seq(Results)
           /\ hop \in 1..Len(rows) /\ hop \in Nat /\ hop >= 1
           /\ rows[hop] \in Seq(Results) /\ Len(rows[hop]) \in Nat
           /\ DOMAIN rows[hop] = 1..Len(rows[hop])
           /\ index \in 1..(Len(rows[hop]) + 1) /\ index \in Nat
           /\ repeat \in Nat /\ repeat >= 1
           /\ DOMAIN previous = 1..Len(rows[1]) /\ DOMAIN detected = 1..Len(rows[1])
  <1>1. /\ number >= 1
        /\ DOMAIN rows = 1..Len(rows) /\ Len(rows) \in 1..MaxHops
        /\ \A h \in 1..Len(rows) : rows[h] \in Seq(Results)
        /\ hop \in 1..Len(rows)
        /\ index \in 1..(Len(rows[hop]) + 1)
        /\ repeat \in Nat \ {0}
        /\ previous \in [1..Len(rows[1]) -> NodeIds]
        /\ detected \in [1..Len(rows[1]) -> SUBSET Tags]
    BY DEF RowInv
  <1>2. MaxHops \in Nat
    BY DEF MaxHops
  <1>3. Len(rows) \in Nat /\ Len(rows) <= MaxHops /\ 1 \in 1..Len(rows)
        /\ hop \in Nat /\ hop >= 1
    <2>1. Len(rows) \in 1..MaxHops /\ hop \in 1..Len(rows)
      BY <1>1
    <2> QED BY <1>2, <2>1
  <1>4. rows[hop] \in Seq(Results) /\ rows[1] \in Seq(Results)
    BY <1>1, <1>3
  <1>5. Len(rows[hop]) \in Nat /\ DOMAIN rows[hop] = 1..Len(rows[hop]) /\ Len(rows[1]) \in Nat
    BY <1>4
  <1>6. index \in 1..(Len(rows[hop]) + 1) /\ index \in Nat
    BY <1>1, <1>5
  <1>7. DOMAIN previous = 1..Len(rows[1]) /\ DOMAIN detected = 1..Len(rows[1])
    BY <1>1
  <1> QED BY <1>1, <1>3, <1>4, <1>5, <1>6, <1>7

\* The result that is being looked at is one of its row.
LEMMA AtTheResult ==
    ASSUME RowInv, AtResult
    PROVE  /\ pc = "row" /\ result \in Results
           /\ hop \in DOMAIN rows /\ index \in DOMAIN rows[hop] /\ rows[hop][index] = result
  <1>1. pc = "row" /\ index <= Len(rows[hop])
    BY DEF AtResult
  <1>2. /\ hop \in DOMAIN rows /\ rows[hop] \in Seq(Results) /\ Len(rows[hop]) \in Nat
        /\ index \in 1..(Len(rows[hop]) + 1)
    BY <1>1, InRow
  <1>3. index \in DOMAIN rows[hop]
    BY <1>1, <1>2
  <1> QED BY <1>1, <1>2, <1>3 DEF result

\* What holds while the measurement is the same.
LEMMA Steady ==
    ASSUME UNCHANGED <<kind, number, rows>>
    PROVE  /\ measurement' = measurement /\ dst' = dst
           /\ \A h, i : Probe(h, i)' = Probe(h, i)
           /\ \A h, i : Ended(h, i)' <=> Ended(h, i)
           /\ \A x : Reached(x)' <=> Reached(x)
           /\ \A h : Repeats(h)' = Repeats(h)
           /\ Orderly' <=> Orderly
           /\ \A e : ResultOf(e)' = ResultOf(e)
  <1>1. measurement' = measurement
    BY DEF measurement
  <1>2. dst' = dst
    BY <1>1 DEF dst
  <1>3. \A h, i : Probe(h, i)' = Probe(h, i)
    BY DEF Probe
  <1>4. \A h, i : Ended(h, i)' <=> Ended(h, i)
    BY <1>1, <1>2, <1>3 DEF Ended
  <1>5. \A x : Reached(x)' <=> Reached(x)
    BY <1>2 DEF Reached
  <1>6. \A h : Repeats(h)' = Repeats(h)
    BY DEF Repeats
  <1>7. Orderly' <=> Orderly
    BY <1>1, <1>2, <1>6 DEF Orderly
  <1>8. \A e : ResultOf(e)' = ResultOf(e)
    BY DEF ResultOf
  <1> QED BY <1>1, <1>2, <1>3, <1>4, <1>5, <1>6, <1>7, <1>8

-----------------------------------------------------------------------------
(* Nodes and edges *)

\* The edge a result adds, drawn from where its repeat was.
NewEdge(id, ipid) ==
    [from |-> previous[repeat], to |-> id, number |-> number, repeat |-> repeat,
     hop |-> hop, index |-> index, ipid |-> ipid]

LEMMA WrapType ==
    ASSUME NEW tag \in Tags, NEW id \in NodeIds
    PROVE  /\ Wrap(tag, id) \in NodeIds
           /\ Wrap(tag, id).addr = id.addr /\ Wrap(tag, id).vp = id.vp
           /\ Wrap(tag, id).tags = <<tag>> \o id.tags
           /\ Wrap(tag, id).tags # <<>>
           /\ ToSet(Wrap(tag, id).tags) = {tag} \cup ToSet(id.tags)
  <1>1. id.tags \in Seq(Tags) /\ id.addr \in STRING /\ id.vp \in Vantages
    BY DEF NodeIds
  <1> DEFINE new == <<tag>> \o id.tags
  <1>2. Wrap(tag, id) = [tags |-> new, addr |-> id.addr, vp |-> id.vp]
    <2> HIDE DEF new
    <2>1. [id EXCEPT !.tags = new] = [tags |-> new, addr |-> id.addr, vp |-> id.vp]
      BY DEF NodeIds
    <2> QED BY <2>1 DEF Wrap, new
  <1>3. new \in Seq(Tags) /\ Len(new) = Len(id.tags) + 1 /\ Len(id.tags) \in Nat
    BY <1>1
  <1>4. new[1] = tag /\ \A k \in 1..Len(id.tags) : new[k + 1] = id.tags[k]
    BY <1>1
  <1>5. DOMAIN new = 1..(Len(id.tags) + 1) /\ DOMAIN id.tags = 1..Len(id.tags)
    BY <1>1, <1>3
  <1> HIDE DEF new
  <1>6. new # <<>>
    BY <1>3
  <1>7. ToSet(new) = {tag} \cup ToSet(id.tags)
    <2>1. ASSUME NEW x \in ToSet(new) PROVE x = tag \/ x \in ToSet(id.tags)
      <3>1. PICK k \in DOMAIN new : x = new[k]
        BY DEF ToSet
      <3>2. k = 1 \/ (k - 1 \in 1..Len(id.tags) /\ k = (k - 1) + 1)
        BY <1>3, <1>5
      <3> QED BY <1>4, <1>5, <3>1, <3>2 DEF ToSet
    <2>2. tag \in ToSet(new)
      <3>1. 1 \in DOMAIN new
        BY <1>3, <1>5
      <3> QED BY <1>4, <3>1 DEF ToSet
    <2>3. ASSUME NEW x \in ToSet(id.tags) PROVE x \in ToSet(new)
      <3>1. PICK k \in 1..Len(id.tags) : x = id.tags[k]
        BY <1>5 DEF ToSet
      <3>2. k + 1 \in DOMAIN new
        BY <1>3, <1>5
      <3> QED BY <1>4, <3>1, <3>2 DEF ToSet
    <2> QED BY <2>1, <2>2, <2>3
  <1> QED BY <1>1, <1>2, <1>3, <1>6, <1>7 DEF NodeIds, new

LEMMA NodeIdType ==
    ASSUME NEW addr \in STRING
    PROVE  /\ NodeId(addr) \in NodeIds /\ NodeId(addr).addr = addr
           /\ NodeId(addr).tags = <<>> /\ ToSet(NodeId(addr).tags) = {}
  <1>1. <<>> \in Seq(Tags) /\ DOMAIN <<>> = {}
    OBVIOUS
  <1>2. ToSet(<<>>) = {}
    BY <1>1 DEF ToSet
  <1> QED BY <1>1, <1>2 DEF NodeId, NodeIds, Vantages

\* What an answer is called: its address, wrapped in at most two words, the
\* outer of which says whose it is not.
LEMMA AnswerIdType ==
    ASSUME RowInv, AtResult
    PROVE  /\ AnswerId \in NodeIds /\ AnswerId.addr = result.from
           /\ ForgedHere <=> "forged" \in ToSet(AnswerId.tags)
           /\ ForgedHere => AnswerId.tags # <<>>
           /\ "nat" \in ToSet(AnswerId.tags) <=> (MarkHere = "nat" /\ result.from # dst)
  <1> DEFINE tagged == IF MarkHere \in {"cgnat", "pep", "nat"} /\ result.from # dst
                       THEN Wrap(MarkHere, NodeId(result.from)) ELSE NodeId(result.from)
  <1>1. result.from \in STRING
    BY AtTheResult, ResultTypes
  <1>2. /\ NodeId(result.from) \in NodeIds /\ NodeId(result.from).addr = result.from
        /\ ToSet(NodeId(result.from).tags) = {}
    BY <1>1, NodeIdType
  <1>3. /\ tagged \in NodeIds /\ tagged.addr = result.from
        /\ "forged" \notin ToSet(tagged.tags)
        /\ "nat" \in ToSet(tagged.tags) <=> (MarkHere = "nat" /\ result.from # dst)
    <2>1. CASE MarkHere \in {"cgnat", "pep", "nat"} /\ result.from # dst
      <3>1. tagged = Wrap(MarkHere, NodeId(result.from)) /\ MarkHere \in Tags
        BY <2>1 DEF Tags
      <3>2. ToSet(tagged.tags) = {MarkHere}
        BY <1>2, <3>1, WrapType
      <3>3. tagged \in NodeIds /\ tagged.addr = result.from
        BY <1>2, <3>1, WrapType
      <3> HIDE DEF tagged
      <3> QED BY <2>1, <3>2, <3>3
    <2>2. CASE ~(MarkHere \in {"cgnat", "pep", "nat"} /\ result.from # dst)
      <3>1. tagged = NodeId(result.from)
        BY <2>2
      <3> HIDE DEF tagged
      <3> QED BY <1>2, <2>2, <3>1
    <2> QED BY <2>1, <2>2
  <1>4. AnswerId = IF ForgedHere THEN Wrap("forged", tagged)
                   ELSE IF BoxHere THEN Wrap("middlebox", tagged) ELSE tagged
    BY DEF AnswerId
  <1> HIDE DEF tagged
  <1>5. CASE ForgedHere
    <2>1. AnswerId = Wrap("forged", tagged)
      BY <1>4, <1>5
    <2>2. /\ Wrap("forged", tagged) \in NodeIds /\ Wrap("forged", tagged).addr = tagged.addr
          /\ Wrap("forged", tagged).tags # <<>>
          /\ ToSet(Wrap("forged", tagged).tags) = {"forged"} \cup ToSet(tagged.tags)
      BY <1>3, WrapType DEF Tags
    <2> QED BY <1>3, <1>5, <2>1, <2>2
  <1>6. CASE ~ForgedHere /\ BoxHere
    <2>1. AnswerId = Wrap("middlebox", tagged)
      BY <1>4, <1>6
    <2>2. /\ Wrap("middlebox", tagged) \in NodeIds /\ Wrap("middlebox", tagged).addr = tagged.addr
          /\ ToSet(Wrap("middlebox", tagged).tags) = {"middlebox"} \cup ToSet(tagged.tags)
      BY <1>3, WrapType DEF Tags
    <2> QED BY <1>3, <1>6, <2>1, <2>2
  <1>7. CASE ~ForgedHere /\ ~BoxHere
    BY <1>3, <1>4, <1>7
  <1> QED BY <1>5, <1>6, <1>7

LEMMA DetectionsType ==
    ASSUME RowInv, DrawAnswer
    PROVE  detected' \in [1..Len(rows[1]) -> SUBSET Tags]
  <1>1. detected \in [1..Len(rows[1]) -> SUBSET Tags]
    BY DEF DrawAnswer, Ready, AtResult, RowInv
  <1>2. \A word \in Tags : \A holds : Which(word, holds) \subseteq Tags
    BY DEF Which
  <1>3. PICK more \in SUBSET Tags : detected' = [detected EXCEPT ![repeat] = @ \cup more]
    <2> DEFINE more == Which("middlebox", MarkHere = "sni" \/ ForgedHere \/ BoxHere)
                       \cup Which("pep", FoundHere.pep) \cup Which("nat", FoundHere.nat)
                       \cup Which("cgnat", Analysed /\ result.from \in CgnatAddresses)
    <2>1. more \in SUBSET Tags
      BY <1>2 DEF Tags
    <2>2. detected' = [detected EXCEPT ![repeat] = @ \cup more]
      BY <1>1 DEF DrawAnswer, Ready
    <2> HIDE DEF more
    <2> QED BY <2>1, <2>2
  <1> QED BY <1>1, <1>3

LEMMA PatternType == \A packets : IpIdPattern(packets) \in Patterns
  BY DEF IpIdPattern, Patterns

-----------------------------------------------------------------------------
(* Every step keeps the tables, and draws nothing ahead of the place *)

LEMMA NumberType ==
    ASSUME TypeInv
    PROVE  /\ number \in Nat /\ Len(kind.heads) \in Nat /\ number <= Len(kind.heads)
           /\ \A e \in edges : e.number \in Nat /\ e.repeat \in Nat /\ e.hop \in Nat
  <1>1. kind.heads \in Seq(MeasurementHeads) /\ number \in 0..Len(kind.heads)
    BY KindFacts DEF TypeInv
  <1>2. Len(kind.heads) \in Nat
    BY <1>1
  <1>3. \A e \in edges : e.number \in Nat /\ e.repeat \in Nat /\ e.hop \in Nat
    BY DEF TypeInv, Edges
  <1> QED BY <1>1, <1>2, <1>3

LEMMA RowMoves ==
    ASSUME RowInv, AtResult,
           UNCHANGED <<pc, kind, number, rows, replyForged, hop>>, index' = index + 1,
           repeat' \in {repeat, repeat + 1},
           previous' \in [1..Len(rows[1]) -> NodeIds],
           detected' \in [1..Len(rows[1]) -> SUBSET Tags]
    PROVE  RowInv'
  <1>1. /\ pc = "row" /\ index \in 1..Len(rows[hop]) /\ Len(rows[hop]) \in Nat
        /\ repeat \in Nat /\ repeat >= 1
    BY AtTheResult, InRow
  <1>2. index' \in 1..(Len(rows'[hop']) + 1) /\ repeat' \in Nat \ {0}
    BY <1>1
  <1>3. dst' = dst
    BY Steady
  <1>4. /\ number >= 1
        /\ DOMAIN rows = 1..Len(rows) /\ Len(rows) \in 1..MaxHops
        /\ \A h \in 1..Len(rows) : rows[h] \in Seq(Results)
        /\ kind.written => (replyForged <=> ForgedDestinationReply(rows, dst))
        /\ hop \in 1..Len(rows)
    BY <1>1 DEF RowInv
  <1> QED BY <1>2, <1>3, <1>4 DEF RowInv

LEMMA PlaceMoves ==
    ASSUME TypeInv, RowInv, NothingAhead, pc = "row", UNCHANGED <<pc, number, hop>>,
           repeat' \in {repeat, repeat + 1}, DOMAIN previous' = DOMAIN previous,
           \A e \in edges' : \/ e \in edges
                             \/ /\ e.number = number /\ e.hop = hop /\ e.repeat = repeat
                                /\ repeat' = repeat + 1 /\ repeat \in DOMAIN previous
    PROVE  NothingAhead'
  <1>1. number \in Nat /\ hop \in Nat /\ hop >= 1 /\ repeat \in Nat
    BY NumberType, InRow
  <1> SUFFICES ASSUME NEW e \in edges'
               PROVE  /\ e.number <= number
                      /\ e.number = number =>
                           e.hop \in 1..hop /\ e.repeat \in DOMAIN previous
                           /\ (e.hop < hop \/ (e.hop = hop /\ e.repeat < repeat'))
    BY DEF NothingAhead, Done
  <1>2. CASE e \in edges
    <2>1. /\ e.number <= number
          /\ e.number = number =>
               e.hop \in 1..hop /\ e.repeat \in DOMAIN previous
               /\ (e.hop < hop \/ (e.hop = hop /\ e.repeat < repeat))
      BY <1>2 DEF NothingAhead, Done
    <2>2. e.repeat \in Nat
      BY <1>2, NumberType
    <2> QED BY <1>1, <2>1, <2>2
  <1>3. CASE e \notin edges
    BY <1>1, <1>3
  <1> QED BY <1>2, <1>3

\* A result that nothing is drawn for.
LEMMA PassingStep ==
    ASSUME WalkInv, Skip \/ Pass
    PROVE  WalkInv'
  <1>1. /\ AtResult /\ index' = index + 1 /\ repeat' \in {repeat, repeat + 1}
        /\ UNCHANGED <<pc, kind, number, rows, replyForged, hop, previous, detected, nodes, edges>>
    BY DEF Skip, Pass, graph
  <1>2. pc = "row" /\ previous \in [1..Len(rows[1]) -> NodeIds]
        /\ detected \in [1..Len(rows[1]) -> SUBSET Tags]
    BY <1>1 DEF AtResult, WalkInv, RowInv
  <1>3. TypeInv'
    BY <1>1 DEF WalkInv, TypeInv
  <1>4. RowInv'
    BY <1>1, <1>2, RowMoves DEF WalkInv
  <1>5. NothingAhead'
    BY <1>1, <1>2, PlaceMoves DEF WalkInv
  <1> QED BY <1>3, <1>4, <1>5 DEF WalkInv

LEMMA VisualizeStep ==
    ASSUME WalkInv, Ready, NEW id \in NodeIds, NEW device, NEW ipid \in Patterns,
           Visualize(id, device, ipid), UNCHANGED <<pc, kind, number, rows, replyForged, hop>>,
           detected' \in [1..Len(rows[1]) -> SUBSET Tags]
    PROVE  WalkInv'
  <1> DEFINE new == NewEdge(id, ipid)
  <1>1. /\ pc = "row" /\ AtResult /\ repeat \in DOMAIN previous /\ index' = index + 1
        /\ edges' = edges \cup {new} /\ repeat' = repeat + 1
        /\ previous' = [previous EXCEPT ![repeat] = id]
    BY DEF Ready, Visualize, AtResult, NewEdge
  <1>2. previous \in [1..Len(rows[1]) -> NodeIds]
    BY <1>1 DEF WalkInv, RowInv
  <1>3. number \in Nat /\ hop \in Nat /\ repeat \in Nat /\ index \in Nat
    BY <1>1, NumberType, InRow DEF WalkInv
  <1>4. /\ new.to = id /\ new.number = number /\ new.repeat = repeat /\ new.hop = hop
        /\ new \in Edges
    BY <1>1, <1>2, <1>3 DEF NewEdge, Edges
  <1> HIDE DEF new
  <1>5. previous' \in [1..Len(rows[1]) -> NodeIds] /\ DOMAIN previous' = DOMAIN previous
    BY <1>1, <1>2
  <1>6. TypeInv'
    <2>1. DOMAIN nodes' = DOMAIN nodes \cup {id}
      BY DEF Visualize, AddNode
    <2>2. IsFiniteSet(DOMAIN nodes)
      BY DEF WalkInv, TypeInv
    <2>3. IsFiniteSet(DOMAIN nodes')
      BY <2>1, <2>2, FS_AddElement
    <2>4. edges' \subseteq Edges
      BY <1>1, <1>4 DEF WalkInv, TypeInv
    <2>5. \A e \in edges' : e.to \in DOMAIN nodes'
      BY <1>1, <1>4, <2>1 DEF WalkInv, TypeInv
    <2> QED BY <2>3, <2>4, <2>5 DEF WalkInv, TypeInv
  <1>7. RowInv'
    BY <1>1, <1>5, RowMoves DEF WalkInv
  <1>8. NothingAhead'
    BY <1>1, <1>4, <1>5, PlaceMoves DEF WalkInv
  <1> QED BY <1>6, <1>7, <1>8 DEF WalkInv

\* The two ways of drawing, as one: what is drawn is at the result's address, or
\* for a star at that of the node before.
LEMMA Drawing ==
    ASSUME WalkInv, DrawStar \/ DrawAnswer
    PROVE  /\ Ready /\ UNCHANGED <<pc, kind, number, rows, replyForged, hop>>
           /\ detected' \in [1..Len(rows[1]) -> SUBSET Tags]
           /\ \E id \in NodeIds, ipid \in Patterns : \E device :
                 /\ Visualize(id, device, ipid)
                 /\ id.addr = IF IsStar(result) THEN previous[repeat].addr ELSE result.from
  <1>1. CASE DrawStar
    <2>1. Ready /\ IsStar(result) /\ repeat \in DOMAIN previous /\ pc = "row"
          /\ UNCHANGED <<pc, kind, number, rows, replyForged, hop, detected>>
          /\ Visualize(Wrap("unknown", previous[repeat]), "unknown", "unknown")
      BY <1>1 DEF DrawStar, Ready, AtResult
    <2>2. previous[repeat] \in NodeIds
      BY <2>1 DEF WalkInv, RowInv
    <2>3. Wrap("unknown", previous[repeat]) \in NodeIds
          /\ Wrap("unknown", previous[repeat]).addr = previous[repeat].addr
      BY <2>2, WrapType DEF Tags
    <2>4. detected' \in [1..Len(rows[1]) -> SUBSET Tags]
      BY <2>1 DEF WalkInv, RowInv
    <2>5. "unknown" \in Patterns
      BY DEF Patterns
    <2> QED BY <2>1, <2>3, <2>4, <2>5
  <1>2. CASE DrawAnswer
    <2> DEFINE ipid == IF Analysed THEN IpIdPattern(HopPackets(rows[hop], result.from)) ELSE "unknown"
    <2>1. Ready /\ ~IsStar(result) /\ AtResult
          /\ UNCHANGED <<pc, kind, number, rows, replyForged, hop>>
          /\ Visualize(AnswerId, AnswerDevice, ipid)
      BY <1>2 DEF DrawAnswer, Ready
    <2>2. AnswerId \in NodeIds /\ AnswerId.addr = result.from
      BY <2>1, AnswerIdType DEF WalkInv
    <2>3. ipid \in Patterns
      BY PatternType DEF Patterns
    <2> HIDE DEF ipid
    <2>4. detected' \in [1..Len(rows[1]) -> SUBSET Tags]
      BY <1>2, DetectionsType DEF WalkInv
    <2> QED BY <2>1, <2>2, <2>3, <2>4
  <1> QED BY <1>1, <1>2

LEMMA DrawStep ==
    ASSUME WalkInv, DrawStar \/ DrawAnswer
    PROVE  WalkInv'
  <1>1. PICK id \in NodeIds, ipid \in Patterns : \E device : Visualize(id, device, ipid)
    BY Drawing
  <1> QED BY <1>1, Drawing, VisualizeStep

LEMMA NextHopStep ==
    ASSUME WalkInv, NextHop
    PROVE  WalkInv'
  <1>1. /\ pc = "row" /\ hop < Len(rows)
        /\ hop' = hop + 1 /\ index' = 1 /\ repeat' = 1
        /\ UNCHANGED <<pc, kind, number, rows, replyForged, previous, detected, nodes, edges>>
    BY DEF NextHop, graph
  <1>2. hop \in Nat /\ hop >= 1 /\ Len(rows) \in Nat
    BY <1>1, InRow DEF WalkInv
  <1>3. TypeInv'
    BY <1>1 DEF WalkInv, TypeInv
  <1>4. RowInv'
    <2>1. hop' \in 1..Len(rows)
      BY <1>1, <1>2
    <2>2. rows[hop'] \in Seq(Results)
      BY <1>1, <2>1, InRow DEF WalkInv
    <2>3. index' \in 1..(Len(rows[hop']) + 1) /\ repeat' \in Nat \ {0}
      BY <1>1, <2>2
    <2>4. dst' = dst
      BY <1>1, Steady
    <2> QED BY <1>1, <2>1, <2>3, <2>4 DEF WalkInv, RowInv
  <1>5. NothingAhead'
    <2> SUFFICES ASSUME NEW e \in edges, e.number = number
                 PROVE  e.hop \in 1..hop' /\ e.repeat \in DOMAIN previous /\ e.hop < hop'
      BY <1>1 DEF WalkInv, NothingAhead, Done
    <2>1. e.hop \in 1..hop /\ e.repeat \in DOMAIN previous
      BY <1>1 DEF WalkInv, NothingAhead
    <2> QED BY <1>1, <1>2, <2>1
  <1> QED BY <1>3, <1>4, <1>5 DEF WalkInv

\* The tables a measurement begins with.
Begins(hops, some) ==
    /\ hops \in 1..MaxHops /\ some \in [1..hops -> Seq(Results)]
    /\ \A h \in 1..hops : \A i \in DOMAIN some[h] : some[h][i] \in kind.results
    /\ number + 1 \in 1..Len(kind.heads) /\ number \in Nat
    /\ measurement' = kind.heads[number + 1] /\ dst' = kind.heads[number + 1].dst
    /\ dst' \in STRING /\ dst' # "***"
    /\ rows' = [h \in 1..hops |-> Addressed(some[h], dst')]
    /\ Len(rows') = hops
    /\ rows'[1] \in Seq(Results) /\ Len(rows'[1]) \in Nat
    /\ \A h \in 1..hops : rows'[h] \in Seq(Results) /\ DOMAIN rows'[h] = DOMAIN some[h]
    /\ kind.written => (replyForged' <=> ForgedDestinationReply(rows', dst'))
    /\ DOMAIN previous' = 1..Len(rows'[1]) /\ DOMAIN detected' = 1..Len(rows'[1])
    /\ \A i \in DOMAIN previous' : previous'[i] = SourceId(kind.heads[number + 1])
    /\ \A i \in DOMAIN detected' : detected'[i] = {}
    /\ previous' \in [1..Len(rows'[1]) -> NodeIds]
    /\ detected' \in [1..Len(rows'[1]) -> SUBSET Tags]

LEMMA Beginning ==
    ASSUME WalkInv, BeginMeasurement
    PROVE  \E hops, some : Begins(hops, some)
  <1> DEFINE n == number + 1
             to == kind.heads[n].dst
             start == SourceId(kind.heads[n])
  <1>1. /\ number < Len(kind.heads) /\ number' = number + 1 /\ kind' = kind
        /\ \E h \in kind.hops : \E s \in [1..h -> Rows(kind.widths, kind.results)] :
              /\ rows' = [g \in 1..h |-> Addressed(s[g], to)]
              /\ kind.written => replyForged' \in {ForgedDestinationReply(rows', to)}
              /\ previous' = [i \in DOMAIN s[1] |-> start]
              /\ detected' = [i \in DOMAIN s[1] |-> {}]
    BY DEF BeginMeasurement
  <1>2. PICK hops \in kind.hops : \E s \in [1..hops -> Rows(kind.widths, kind.results)] :
            /\ rows' = [g \in 1..hops |-> Addressed(s[g], to)]
            /\ kind.written => replyForged' \in {ForgedDestinationReply(rows', to)}
            /\ previous' = [i \in DOMAIN s[1] |-> start]
            /\ detected' = [i \in DOMAIN s[1] |-> {}]
    BY <1>1
  <1>3. PICK some \in [1..hops -> Rows(kind.widths, kind.results)] :
            /\ rows' = [g \in 1..hops |-> Addressed(some[g], to)]
            /\ kind.written => replyForged' \in {ForgedDestinationReply(rows', to)}
            /\ previous' = [i \in DOMAIN some[1] |-> start]
            /\ detected' = [i \in DOMAIN some[1] |-> {}]
    BY <1>2
  <1>4. n \in 1..Len(kind.heads) /\ number \in Nat
    BY <1>1, NumberType DEF WalkInv
  <1>5. /\ kind.hops \subseteq 1..MaxHops /\ kind.widths \in SUBSET Nat
        /\ kind.results \in SUBSET Results
        /\ start \in NodeIds /\ to \in STRING /\ to # "***"
    BY <1>4, KindFacts DEF WalkInv
  <1>6. measurement' = kind.heads[n] /\ dst' = to
    BY <1>1 DEF measurement, dst
  <1> HIDE DEF start, to
  <1>7. hops \in 1..MaxHops /\ hops \in Nat /\ 1 \in 1..hops
    <2>1. MaxHops \in Nat
      BY DEF MaxHops
    <2> QED BY <1>5, <2>1
  <1>8. ASSUME NEW h \in 1..hops
        PROVE  /\ some[h] \in Seq(Results) /\ \A i \in DOMAIN some[h] : some[h][i] \in kind.results
               /\ rows'[h] \in Seq(Results) /\ DOMAIN rows'[h] = DOMAIN some[h]
               /\ Len(rows'[h]) = Len(some[h])
    <2>1. some[h] \in Rows(kind.widths, kind.results)
      BY <1>3
    <2>2. some[h] \in Seq(Results) /\ \A i \in DOMAIN some[h] : some[h][i] \in kind.results
      BY <1>5, <2>1, RowsAreTables
    <2>3. rows'[h] = Addressed(some[h], to)
      BY <1>3
    <2> QED BY <1>5, <2>2, <2>3, AddressedIsRow
  <1>9. some \in [1..hops -> Seq(Results)]
    BY <1>3, <1>8
  <1>10. Len(rows') = hops
    BY <1>3, <1>7
  <1>11. rows'[1] \in Seq(Results) /\ Len(rows'[1]) \in Nat /\ DOMAIN some[1] = 1..Len(rows'[1])
    <2>1. rows'[1] \in Seq(Results) /\ DOMAIN rows'[1] = DOMAIN some[1]
      BY <1>7, <1>8
    <2> QED BY <2>1
  <1>12. /\ previous' \in [1..Len(rows'[1]) -> NodeIds]
         /\ detected' \in [1..Len(rows'[1]) -> SUBSET Tags]
         /\ DOMAIN previous' = 1..Len(rows'[1]) /\ DOMAIN detected' = 1..Len(rows'[1])
         /\ \A i \in DOMAIN previous' : previous'[i] = start
         /\ \A i \in DOMAIN detected' : detected'[i] = {}
    BY <1>3, <1>5, <1>11
  <1>13. kind.written => (replyForged' <=> ForgedDestinationReply(rows', dst'))
    <2>1. kind.written => replyForged' = ForgedDestinationReply(rows', to)
      BY <1>3
    <2> QED BY <1>6, <2>1
  <1>14. rows' = [h \in 1..hops |-> Addressed(some[h], dst')]
    BY <1>3, <1>6
  <1>15. \A h \in 1..hops : /\ rows'[h] \in Seq(Results) /\ DOMAIN rows'[h] = DOMAIN some[h]
                            /\ \A i \in DOMAIN some[h] : some[h][i] \in kind.results
    BY <1>8
  <1>16. /\ measurement' = kind.heads[number + 1] /\ dst' = kind.heads[number + 1].dst
         /\ dst' \in STRING /\ dst' # "***"
         /\ \A i \in DOMAIN previous' : previous'[i] = SourceId(kind.heads[number + 1])
    BY <1>5, <1>6, <1>12 DEF start, to
  <1>17. Begins(hops, some)
    BY <1>4, <1>7, <1>9, <1>10, <1>11, <1>12, <1>13, <1>14, <1>15, <1>16 DEF Begins
  <1> QED BY <1>17

LEMMA BeginStep ==
    ASSUME WalkInv, BeginMeasurement
    PROVE  WalkInv'
  <1>1. /\ number' = number + 1 /\ pc' = "row" /\ hop' = 1 /\ index' = 1 /\ repeat' = 1
        /\ nodes' = AddNode(SourceId(kind.heads[number + 1]), "source")
        /\ UNCHANGED <<kind, edges>>
    BY DEF BeginMeasurement
  <1>2. PICK hops, some : Begins(hops, some)
    BY Beginning
  <1>3. /\ hops \in 1..MaxHops /\ number + 1 \in 1..Len(kind.heads) /\ number \in Nat
        /\ DOMAIN rows' = 1..hops /\ Len(rows') = hops
        /\ rows'[1] \in Seq(Results) /\ Len(rows'[1]) \in Nat
        /\ \A h \in 1..hops : rows'[h] \in Seq(Results)
        /\ kind.written => (replyForged' <=> ForgedDestinationReply(rows', dst'))
        /\ previous' \in [1..Len(rows'[1]) -> NodeIds]
        /\ detected' \in [1..Len(rows'[1]) -> SUBSET Tags]
    BY <1>2 DEF Begins
  <1>4. TypeInv'
    <2>1. DOMAIN nodes' = DOMAIN nodes \cup {SourceId(kind.heads[number + 1])}
      BY <1>1 DEF AddNode
    <2>2. IsFiniteSet(DOMAIN nodes) /\ \A e \in edges : e.to \in DOMAIN nodes
      BY DEF WalkInv, TypeInv
    <2>3. IsFiniteSet(DOMAIN nodes')
      BY <2>1, <2>2, FS_AddElement
    <2>4. number' \in 0..Len(kind.heads)
      BY <1>1, <1>3, NumberType DEF WalkInv
    <2> QED BY <1>1, <2>1, <2>2, <2>3, <2>4 DEF WalkInv, TypeInv
  <1>5. RowInv'
    <2>1. hops \in Nat /\ hops >= 1
      <3>1. MaxHops \in Nat
        BY DEF MaxHops
      <3> QED BY <1>3, <3>1
    <2>2. hop' \in 1..Len(rows') /\ index' \in 1..(Len(rows'[hop']) + 1) /\ repeat' \in Nat \ {0}
          /\ number' >= 1 /\ Len(rows') \in 1..MaxHops /\ DOMAIN rows' = 1..Len(rows')
      BY <1>1, <1>3, <2>1
    <2> QED BY <1>1, <1>3, <2>2 DEF RowInv
  <1>6. NothingAhead'
    <2>1. \A e \in edges : e.number \in Nat /\ e.number <= number
      BY NumberType DEF WalkInv, NothingAhead
    <2> QED BY <1>1, <1>3, <2>1 DEF NothingAhead
  <1> QED BY <1>4, <1>5, <1>6 DEF WalkInv

\* Outside a row only the types and the numbers of the edges are asked for.
LEMMA BetweenRows ==
    ASSUME WalkInv, pc' \in {"next", "saved", "saved with tier", "IndexError"},
           UNCHANGED <<kind, number, nodes, edges>>
    PROVE  WalkInv'
  <1>1. TypeInv'
    BY DEF WalkInv, TypeInv
  <1>2. NothingAhead'
    BY DEF WalkInv, NothingAhead
  <1> QED BY <1>1, <1>2 DEF WalkInv, RowInv

LEMMA WalkInit == Init => WalkInv
  <1> SUFFICES ASSUME Init PROVE WalkInv
    OBVIOUS
  <1>1. pc = "next" /\ kind \in Captures /\ number = 0 /\ edges = {} /\ DOMAIN nodes = {}
    BY DEF Init
  <1>2. 0 \in 0..Len(kind.heads)
    <2>1. kind.heads \in Seq(MeasurementHeads)
      BY <1>1, CapturesAssumption
    <2>2. Len(kind.heads) \in Nat
      BY <2>1
    <2> QED BY <2>2
  <1>3. TypeInv
    BY <1>1, <1>2, FS_EmptySet DEF TypeInv
  <1> QED BY <1>1, <1>3 DEF WalkInv, RowInv, NothingAhead

LEMMA WalkStutter ==
    ASSUME WalkInv, UNCHANGED vars
    PROVE  WalkInv'
  <1>1. UNCHANGED <<pc, kind, number, rows, replyForged, hop, index, repeat, previous, detected,
                    nodes, edges>>
    BY DEF vars, place, graph
  <1>2. dst' = dst
    BY <1>1, Steady
  <1>3. TypeInv'
    BY <1>1 DEF WalkInv, TypeInv
  <1>4. RowInv'
    BY <1>1, <1>2 DEF WalkInv, RowInv
  <1>5. NothingAhead'
    BY <1>1 DEF WalkInv, NothingAhead, Done
  <1> QED BY <1>3, <1>4, <1>5 DEF WalkInv

LEMMA WalkStep == WalkInv /\ [Next]_vars => WalkInv'
  <1> SUFFICES ASSUME WalkInv, [Next]_vars PROVE WalkInv'
    OBVIOUS
  <1>1. CASE BeginMeasurement
    BY <1>1, BeginStep
  <1>2. CASE Skip \/ Pass
    BY <1>2, PassingStep
  <1>3. CASE DrawStar \/ DrawAnswer
    BY <1>3, DrawStep
  <1>4. CASE NextHop
    BY <1>4, NextHopStep
  <1>5. CASE Overrun \/ EndMeasurement \/ Save
    BY <1>5, BetweenRows DEF Overrun, EndMeasurement, Save, graph
  <1>6. CASE UNCHANGED vars
    BY <1>6, WalkStutter
  <1> QED BY <1>1, <1>2, <1>3, <1>4, <1>5, <1>6 DEF Next, Finished

\* The invariant of the drawing, of any capture whatever: the tables are as long
\* as the first row, the place is in the rows, the flag is that of the capture,
\* and nothing is drawn ahead of the place.
THEOREM WalkHolds == Spec => []WalkInv
  BY WalkInit, WalkStep, PTL DEF Spec

-----------------------------------------------------------------------------
(* Where the drawing of an orderly capture stands *)

LEMMA RepeatsFit ==
    ASSUME RowInv, pc = "row", Orderly, NEW h \in 1..Len(rows)
    PROVE  /\ Repeats(h) \in Nat
           /\ \A g \in 1..h : Repeats(h) <= Repeats(g)
           /\ \A i \in 1..Repeats(h) : i \in DOMAIN previous /\ i \in Nat /\ i >= 1
  <1>1. /\ DOMAIN rows = 1..Len(rows) /\ Len(rows) \in Nat /\ 1 \in 1..Len(rows)
        /\ rows[h] \in Seq(Results) /\ rows[1] \in Seq(Results) /\ Len(rows[1]) \in Nat
        /\ DOMAIN previous = 1..Len(rows[1])
    BY InRow
  <1>2. Repeats(h) \in Nat /\ Repeats(1) \in Nat /\ Repeats(1) <= Len(rows[1])
    BY <1>1, HeadsInRow DEF Repeats
  <1>3. \A g \in 1..h : Repeats(h) <= Repeats(g)
    <2> SUFFICES ASSUME NEW g \in 1..h PROVE Repeats(h) <= Repeats(g)
      OBVIOUS
    <2>1. g = h \/ g \in 1..(h - 1)
      BY <1>1
    <2>2. g \in 1..(h - 1) => Repeats(h) <= Repeats(g)
      BY <1>1 DEF Orderly
    <2> QED BY <1>2, <2>1, <2>2
  <1>4. Repeats(h) <= Repeats(1)
    <2>1. 1 \in 1..h
      BY <1>1
    <2> QED BY <1>3, <2>1
  <1> QED BY <1>1, <1>2, <1>3, <1>4

\* A result that is not skipped is the one of the repeat that is counted.
LEMMA AtHead ==
    ASSUME RowInv, PlaceIsRight, Orderly, AtResult, ~skipNext
    PROVE  /\ Cardinality(HeadsUpTo(rows[hop], index)) = repeat
           /\ repeat \in 1..Repeats(hop) /\ repeat \in DOMAIN previous
           /\ Probe(hop, repeat) = result
  <1> DEFINE row == rows[hop]
  <1>1. /\ pc = "row" /\ row \in Seq(Results) /\ index \in 1..Len(row) /\ Len(row) \in Nat
        /\ hop \in 1..Len(rows)
    BY InRow, AtTheResult
  <1>2. index \in Heads(row)
    <2>1. index = 1 \/ index > 1
      BY <1>1
    <2>2. index > 1 => ~row[index - 1].late
      BY <1>1 DEF PlaceIsRight
    <2> QED BY <1>1, <2>1, <2>2 DEF Heads
  <1>3. Cardinality(HeadsUpTo(row, index)) = repeat
    <2>1. index - 1 \in Nat /\ (index - 1) + 1 = index
      BY <1>1
    <2>2. Cardinality(HeadsUpTo(row, index)) = Cardinality(HeadsUpTo(row, index - 1)) + 1
      BY <1>1, <1>2, <2>1, HeadStep
    <2>3. Cardinality(HeadsUpTo(row, index - 1)) = repeat - 1 /\ repeat \in Nat
      BY <1>1, InRow DEF PlaceIsRight
    <2> QED BY <2>2, <2>3
  <1>4. repeat \in 1..Repeats(hop)
    <2>1. HeadsUpTo(row, index) \in SUBSET Heads(row)
      BY DEF HeadsUpTo
    <2>2. Cardinality(HeadsUpTo(row, index)) <= Cardinality(Heads(row))
      BY <1>1, <2>1, HeadsInRow, FS_Subset
    <2>3. repeat \in Nat /\ repeat >= 1 /\ Repeats(hop) \in Nat
      BY <1>1, InRow, RepeatsFit
    <2> QED BY <1>3, <2>2, <2>3 DEF Repeats
  <1>5. Position(row, repeat) = index
    BY <1>1, <1>2, <1>3, PositionOfHead
  <1>6. Probe(hop, repeat) = result
    BY <1>5 DEF Probe, result
  <1> QED BY <1>1, <1>3, <1>4, <1>6, RepeatsFit

\* Nobody is late where a walk has ended.
LEMMA LateIsBeforeTheEnd ==
    ASSUME RowInv, PlaceIsRight, GoesOn, Orderly, AtResult, ~skipNext, Reached(previous[repeat])
    PROVE  Ended(hop, repeat) /\ ~result.late
  <1>1. /\ pc = "row" /\ hop \in 1..Len(rows) /\ hop \in Nat /\ index \in DOMAIN rows[hop]
        /\ DOMAIN rows = 1..Len(rows) /\ Len(rows) \in Nat /\ repeat \in Nat
    BY InRow, AtTheResult
  <1>2. repeat \in 1..Repeats(hop)
    BY AtHead
  <1>3. Ended(hop, repeat)
    <2>1. DoneOf(repeat) + 1 = hop
      BY <1>1 DEF DoneOf
    <2> QED BY <1>1, <1>2, <2>1 DEF GoesOn
  <1>4. ASSUME result.late PROVE FALSE
    <2>1. /\ measurement.src # dst
          /\ \A g \in 1..(hop - 1) : ~Reaches(rows[g], dst)
      BY <1>1, <1>4 DEF Orderly, result
    <2>2. PICK g \in 1..(hop - 1) : Probe(g, repeat).from = dst
      BY <1>3, <2>1 DEF Ended, SourceId
    <2>3. g \in 1..hop /\ g \in 1..Len(rows)
      BY <1>1
    <2>4. rows[g] \in Seq(Results) /\ repeat \in 1..Cardinality(Heads(rows[g]))
      <3>1. rows[g] \in Seq(Results) /\ Repeats(g) \in Nat /\ Repeats(hop) \in Nat
        BY <1>1, <2>3, InRow, RepeatsFit
      <3>2. Repeats(hop) <= Repeats(g)
        BY <1>1, <2>3, RepeatsFit
      <3> QED BY <1>2, <3>1, <3>2 DEF Repeats
    <2>5. Position(rows[g], repeat) \in DOMAIN rows[g]
      BY <2>4, PositionInRow
    <2> QED BY <2>1, <2>2, <2>5 DEF Probe, Reaches
  <1> QED BY <1>3, <1>4

\* A walk that has ended stays so.
LEMMA EndedStays ==
    ASSUME NEW h \in Nat \ {0}, NEW i, Ended(h, i)
    PROVE  Ended(h + 1, i)
  <1>1. \A g \in 1..(h - 1) : g \in 1..((h + 1) - 1)
    OBVIOUS
  <1> QED BY <1>1 DEF Ended

\* The place moves by one result, and by one repeat if that was a head.
LEMMA PlaceStaysRight ==
    ASSUME RowInv, PlaceIsRight, Orderly, AtResult,
           UNCHANGED <<pc, kind, number, rows, hop>>, index' = index + 1,
           \/ skipNext /\ skipNext' = FALSE /\ repeat' = repeat
           \/ ~skipNext /\ skipNext' = result.late /\ repeat' = repeat + 1
    PROVE  PlaceIsRight'
  <1> DEFINE row == rows[hop]
  <1>1. /\ pc = "row" /\ row \in Seq(Results) /\ Len(row) \in Nat /\ DOMAIN row = 1..Len(row)
        /\ index \in 1..Len(row) /\ index \in Nat /\ repeat \in Nat /\ hop \in DOMAIN rows
    BY InRow, AtTheResult
  <1>2. index' - 1 = index /\ index' > 1
    BY <1>1
  <1>3. skipNext' = row[index].late /\ skipNext' \in BOOLEAN
    <2>0. row[index] \in Results
      BY <1>1
    <2>1. row[index].late \in BOOLEAN
      BY <2>0, ResultTypes
    <2>2. CASE skipNext
      <3>1. index > 1 /\ row[index - 1].late
        BY <1>1, <2>2 DEF PlaceIsRight
      <3>2. index - 1 \in DOMAIN row /\ (index - 1) + 1 = index
        BY <1>1, <3>1
      <3>3. ~row[index].late
        <4>1. ~rows[hop][(index - 1) + 1].late
          BY <1>1, <3>1, <3>2 DEF Orderly
        <4> QED BY <3>2, <4>1
      <3> QED BY <2>1, <2>2, <3>3
    <2>3. CASE ~skipNext
      BY <2>1, <2>3 DEF result
    <2> QED BY <2>2, <2>3
  <1>4. Cardinality(HeadsUpTo(row, index)) = repeat' - 1
    <2>1. CASE skipNext
      <3>1. index > 1 /\ row[index - 1].late
        BY <1>1, <2>1 DEF PlaceIsRight
      <3>2. index \notin Heads(row)
        BY <1>1, <3>1 DEF Heads
      <3>3. index - 1 \in Nat /\ (index - 1) + 1 = index
        BY <1>1
      <3>4. HeadsUpTo(row, index) = HeadsUpTo(row, index - 1)
        BY <1>1, <3>2, <3>3, HeadStep
      <3>5. Cardinality(HeadsUpTo(row, index - 1)) = repeat - 1
        BY <1>1 DEF PlaceIsRight
      <3> QED BY <2>1, <3>4, <3>5
    <2>2. CASE ~skipNext
      <3>1. Cardinality(HeadsUpTo(row, index)) = repeat /\ repeat' = repeat + 1
        BY <2>2, AtHead
      <3> QED BY <1>1, <3>1
    <2> QED BY <2>1, <2>2
  <1> QED BY <1>2, <1>3, <1>4 DEF PlaceIsRight

-----------------------------------------------------------------------------
(* The steps of an orderly capture *)

LEMMA SkipInOrder ==
    ASSUME WalkInv, OrderInv, Skip, Orderly
    PROVE  OrderInv'
  <1>1. UNCHANGED <<pc, kind, number, rows, hop, repeat, previous, edges>> /\ AtResult
        /\ pc = "row" /\ pc # "IndexError"
    BY DEF Skip, graph, AtResult
  <1>2. UNCHANGED <<measurement, dst>> /\ (\A h, i : Probe(h, i)' = Probe(h, i))
        /\ (\A h, i : Ended(h, i)' <=> Ended(h, i)) /\ (\A x : Reached(x)' <=> Reached(x))
        /\ (\A h : Repeats(h)' = Repeats(h)) /\ (Orderly' <=> Orderly)
    BY <1>1, Steady
  <1>3. PlaceIsRight'
    BY <1>1, PlaceStaysRight DEF Skip, WalkInv, OrderInv
  <1>4. \A h, i : Took(h, i)' = Took(h, i) /\ Before(h, i)' = Before(h, i)
    BY <1>1, <1>2 DEF Took, Before, Walk
  <1>5. \A e, h, i : Arrives(e, h, i)' <=> Arrives(e, h, i)
    BY <1>2 DEF Arrives
  <1>6. OneEdgeEach'
    BY <1>1, <1>2, <1>4, <1>5 DEF OrderInv, OneEdgeEach, Done
  <1>7. GoesOn'
    BY <1>1, <1>2, <1>4 DEF OrderInv, GoesOn, DoneOf
  <1> QED BY <1>1, <1>3, <1>6, <1>7 DEF OrderInv, OrderlyIsDrawn

\* Nothing is drawn yet for the result being looked at.
LEMMA NothingHere ==
    ASSUME WalkInv, pc = "row"
    PROVE  Took(hop, repeat) = {}
  <1> SUFFICES ASSUME NEW e \in Took(hop, repeat) PROVE FALSE
    OBVIOUS
  <1>1. e \in edges /\ e.number = number /\ e.hop = hop /\ e.repeat = repeat
    BY DEF Took, Walk
  <1>2. Done(hop, repeat)
    BY <1>1 DEF WalkInv, NothingAhead
  <1>3. hop \in Nat /\ repeat \in Nat
    BY InRow DEF WalkInv
  <1> QED BY <1>2, <1>3 DEF Done

LEMMA PassInOrder ==
    ASSUME WalkInv, OrderInv, Pass, Orderly
    PROVE  OrderInv'
  <1>1. UNCHANGED <<pc, kind, number, rows, hop, previous, edges>> /\ repeat' = repeat + 1
        /\ ~skipNext /\ AtResult /\ Reached(previous[repeat]) /\ pc = "row" /\ pc # "IndexError"
    BY DEF Pass, graph, AtResult
  <1>2. UNCHANGED <<measurement, dst>> /\ (\A h, i : Probe(h, i)' = Probe(h, i))
        /\ (\A h, i : Ended(h, i)' <=> Ended(h, i)) /\ (\A x : Reached(x)' <=> Reached(x))
        /\ (\A h : Repeats(h)' = Repeats(h)) /\ (Orderly' <=> Orderly)
    BY <1>1, Steady
  <1>3. /\ hop \in Nat /\ hop >= 1 /\ hop \in 1..Len(rows) /\ repeat \in Nat
        /\ \A i \in DOMAIN previous : i \in Nat
        /\ Repeats(hop) \in Nat
    BY <1>1, InRow, RepeatsFit DEF WalkInv
  <1>4. repeat \in 1..Repeats(hop) /\ Ended(hop, repeat) /\ ~result.late
    BY <1>1, AtHead, LateIsBeforeTheEnd DEF WalkInv, OrderInv
  <1>5. PlaceIsRight'
    <2>1. result.late = FALSE /\ skipNext' = FALSE
      <3>1. result.late \in BOOLEAN
        BY <1>1, AtTheResult, ResultTypes DEF WalkInv
      <3>2. skipNext \in BOOLEAN
        BY <1>1 DEF OrderInv, PlaceIsRight
      <3> QED BY <1>1, <1>4, <3>1, <3>2 DEF Pass
    <2> QED BY <1>1, <2>1, PlaceStaysRight DEF Pass, WalkInv, OrderInv
  <1>6. \A h, i : Took(h, i)' = Took(h, i) /\ Before(h, i)' = Before(h, i)
    BY <1>1, <1>2 DEF Took, Before, Walk
  <1>7. \A e, h, i : Arrives(e, h, i)' <=> Arrives(e, h, i)
    BY <1>2 DEF Arrives
  <1>8. \A h \in Nat : \A i \in Nat : Done(h, i)' <=> (Done(h, i) \/ (h = hop /\ i = repeat))
    BY <1>1, <1>3 DEF Done
  <1>9. OneEdgeEach'
    <2> SUFFICES ASSUME NEW i \in DOMAIN previous, NEW h \in 1..hop, Done(h, i)'
                 PROVE  IF i > Repeats(h) \/ Ended(h, i) THEN Took(h, i) = {}
                        ELSE \E e : Took(h, i) = {e} /\ e.from \in Before(h, i) /\ Arrives(e, h, i)
      BY <1>1, <1>2, <1>6, <1>7 DEF OneEdgeEach
    <2>1. h \in Nat /\ i \in Nat
      BY <1>3
    <2>2. CASE Done(h, i)
      BY <1>1, <2>2 DEF OrderInv, OneEdgeEach
    <2>3. CASE h = hop /\ i = repeat
      BY <1>1, <1>4, <2>3, NothingHere
    <2> QED BY <1>8, <2>1, <2>2, <2>3
  <1>10. GoesOn'
    <2> SUFFICES ASSUME NEW i \in 1..Repeats(hop)
                 PROVE  /\ Reached(previous[i]) <=> Ended(DoneOf(i)' + 1, i)
                        /\ ~Ended(DoneOf(i)' + 1, i) => previous[i] \in Before(DoneOf(i)' + 1, i)
      BY <1>1, <1>2, <1>6 DEF GoesOn
    <2>0. i \in Nat
      BY <1>3
    <2>1. CASE i # repeat
      <3>1. DoneOf(i)' = DoneOf(i)
        BY <1>1, <1>3, <2>0, <2>1 DEF DoneOf
      <3> QED BY <1>1, <3>1 DEF OrderInv, GoesOn
    <2>2. CASE i = repeat
      <3>1. DoneOf(i)' = hop
        BY <1>1, <1>3, <2>2 DEF DoneOf
      <3>2. Ended(hop + 1, i)
        BY <1>3, <1>4, <2>2, EndedStays
      <3> QED BY <1>1, <2>2, <3>1, <3>2
    <2> QED BY <2>1, <2>2
  <1> QED BY <1>1, <1>5, <1>9, <1>10 DEF OrderInv, OrderlyIsDrawn

LEMMA VisualizeInOrder ==
    ASSUME WalkInv, OrderInv, Ready, Orderly, NEW id \in NodeIds, NEW device, NEW ipid,
           Visualize(id, device, ipid),
           id.addr = IF IsStar(result) THEN previous[repeat].addr ELSE result.from,
           UNCHANGED <<pc, kind, number, rows, hop>>
    PROVE  OrderInv'
  <1> DEFINE new == NewEdge(id, ipid)
  <1>1. /\ pc = "row" /\ AtResult /\ ~skipNext /\ ~Reached(previous[repeat]) /\ pc # "IndexError"
        /\ edges' = edges \cup {new} /\ repeat' = repeat + 1
        /\ previous' = [previous EXCEPT ![repeat] = id] /\ repeat \in DOMAIN previous
    BY DEF Ready, Visualize, AtResult, NewEdge
  <1>2. /\ hop \in Nat /\ hop >= 1 /\ hop \in 1..Len(rows) /\ repeat \in Nat /\ number \in Nat
        /\ \A i \in DOMAIN previous : i \in Nat
        /\ Repeats(hop) \in Nat /\ \A i \in 1..Repeats(hop) : i \in DOMAIN previous
    BY <1>1, InRow, RepeatsFit, NumberType DEF WalkInv
  <1>3. repeat \in 1..Repeats(hop) /\ Probe(hop, repeat) = result
    BY <1>1, AtHead DEF WalkInv, OrderInv
  <1>4. /\ new.from = previous[repeat] /\ new.to = id /\ new.number = number
        /\ new.repeat = repeat /\ new.hop = hop
    BY DEF NewEdge
  <1> HIDE DEF new
  <1>5. DOMAIN previous' = DOMAIN previous /\ previous'[repeat] = id
        /\ \A i \in DOMAIN previous : i # repeat => previous'[i] = previous[i]
    BY <1>1, InRow DEF WalkInv, RowInv
  <1>6. PlaceIsRight'
    BY <1>1, PlaceStaysRight DEF WalkInv, OrderInv, Ready, Visualize
  <1>7. UNCHANGED <<measurement, dst>> /\ (\A h, i : Probe(h, i)' = Probe(h, i))
        /\ (\A h, i : Ended(h, i)' <=> Ended(h, i)) /\ (\A x : Reached(x)' <=> Reached(x))
        /\ (\A h : Repeats(h)' = Repeats(h)) /\ (Orderly' <=> Orderly)
    BY Steady
  <1>8. \A h \in Nat : \A i \in Nat : Done(h, i)' <=> (Done(h, i) \/ (h = hop /\ i = repeat))
    BY <1>1, <1>2 DEF Done
  <1>9. \A h, i : (h # hop \/ i # repeat) => Took(h, i)' = Took(h, i)
    BY <1>1, <1>4 DEF Took, Walk
  <1>10. \A h, i : (h = hop /\ i = repeat) => Took(h, i)' = {new}
    <2> SUFFICES ASSUME NEW h, NEW i, h = hop, i = repeat PROVE Took(h, i)' = {new}
      OBVIOUS
    <2>1. Took(hop, repeat) = {}
      BY <1>1, NothingHere
    <2> QED BY <1>1, <1>4, <2>1 DEF Took, Walk
  <1>11. \A h \in 1..hop : \A i : Before(h, i)' = Before(h, i)
    <2> SUFFICES ASSUME NEW h \in 1..hop, NEW i PROVE Before(h, i)' = Before(h, i)
      OBVIOUS
    <2>1. h - 1 # hop
      BY <1>2
    <2> QED BY <1>7, <1>9, <2>1 DEF Before
  <1>12. \A e, h, i : Arrives(e, h, i)' <=> Arrives(e, h, i)
    BY <1>7 DEF Arrives
  <1>13. ~Ended(hop, repeat) /\ previous[repeat] \in Before(hop, repeat)
    <2>1. DoneOf(repeat) + 1 = hop
      BY <1>2 DEF DoneOf
    <2> QED BY <1>1, <1>3, <2>1 DEF OrderInv, GoesOn
  <1>14. OneEdgeEach'
    <2> SUFFICES ASSUME NEW i \in DOMAIN previous, NEW h \in 1..hop, Done(h, i)'
                 PROVE  IF i > Repeats(h) \/ Ended(h, i) THEN Took(h, i)' = {}
                        ELSE \E e : Took(h, i)' = {e} /\ e.from \in Before(h, i) /\ Arrives(e, h, i)
      BY <1>1, <1>5, <1>7, <1>11, <1>12 DEF OneEdgeEach
    <2>1. h \in Nat /\ i \in Nat
      BY <1>2
    <2>2. CASE h # hop \/ i # repeat
      <3>1. Done(h, i) /\ Took(h, i)' = Took(h, i)
        BY <1>8, <1>9, <2>1, <2>2
      <3> QED BY <1>1, <3>1 DEF OrderInv, OneEdgeEach
    <2>3. CASE h = hop /\ i = repeat
      <3>1. Arrives(new, hop, repeat)
        BY <1>3, <1>4 DEF Arrives
      <3>2. ~(i > Repeats(h))
        BY <1>2, <1>3, <2>3
      <3> QED BY <1>4, <1>10, <1>13, <2>3, <3>1, <3>2
    <2> QED BY <2>2, <2>3
  <1>15. GoesOn'
    <2> SUFFICES ASSUME NEW i \in 1..Repeats(hop), NEW d, d = DoneOf(i)'
                 PROVE  /\ Reached(previous'[i]) <=> Ended(d + 1, i)
                        /\ ~Ended(d + 1, i) => previous'[i] \in Before(d + 1, i)'
      BY <1>1, <1>7 DEF GoesOn
    <2>0. i \in Nat /\ i \in DOMAIN previous
      BY <1>2
    <2>1. CASE i # repeat
      <3>1. d = DoneOf(i)
        BY <1>1, <1>2, <2>0, <2>1 DEF DoneOf
      <3>2. Before(d + 1, i)' = Before(d + 1, i)
        BY <1>7, <1>9, <2>1, <3>1 DEF Before
      <3> QED BY <1>1, <1>5, <2>0, <2>1, <3>1, <3>2 DEF OrderInv, GoesOn
    <2>2. CASE i = repeat
      <3>1. d = hop
        BY <1>1, <1>2, <2>2 DEF DoneOf
      <3>2. Ended(hop + 1, i) <=> Probe(hop, i).from = dst
        <4>1. \A g : g \in 1..((hop + 1) - 1) <=> g \in 1..(hop - 1) \/ g = hop
          BY <1>2
        <4> QED BY <1>13, <2>2, <4>1 DEF Ended
      <3>3. Reached(id) <=> Probe(hop, i).from = dst
        <4>1. CASE IsStar(result)
          <5>1. ~Reached(id)
            BY <1>1, <4>1 DEF Reached
          <5>2. dst # "***"
            <6>1. number \in 1..Len(kind.heads)
              BY <1>1 DEF WalkInv, TypeInv, RowInv
            <6> QED BY <6>1, KindFacts DEF dst, measurement, WalkInv
          <5> QED BY <1>3, <2>2, <4>1, <5>1, <5>2 DEF IsStar
        <4>2. CASE ~IsStar(result)
          BY <1>3, <2>2, <4>2 DEF Reached
        <4> QED BY <4>1, <4>2
      <3>4. id \in Before(d + 1, i)'
        <4>1. d + 1 # 1 /\ (d + 1) - 1 = d
          BY <1>2, <3>1
        <4>2. Took(d, i)' = {new}
          BY <1>10, <2>2, <3>1
        <4> QED BY <1>4, <4>1, <4>2 DEF Before
      <3> QED BY <1>5, <2>2, <3>1, <3>2, <3>3, <3>4
    <2> QED BY <2>1, <2>2
  <1> QED BY <1>1, <1>6, <1>14, <1>15 DEF OrderInv, OrderlyIsDrawn

LEMMA NextHopInOrder ==
    ASSUME WalkInv, OrderInv, NextHop, Orderly
    PROVE  OrderInv'
  <1>1. /\ pc = "row" /\ index > Len(rows[hop]) /\ hop < Len(rows)
        /\ hop' = hop + 1 /\ index' = 1 /\ repeat' = 1 /\ skipNext' = FALSE
        /\ UNCHANGED <<pc, kind, number, rows, previous, edges>> /\ pc # "IndexError"
    BY DEF NextHop, graph
  <1>2. /\ hop \in Nat /\ hop >= 1 /\ hop \in 1..Len(rows) /\ repeat \in Nat /\ Len(rows) \in Nat
        /\ \A i \in DOMAIN previous : i \in Nat /\ i >= 1
        /\ hop + 1 \in 1..Len(rows) /\ hop \in 1..(hop + 1)
    BY <1>1, InRow DEF WalkInv
  <1>3. /\ Repeats(hop) \in Nat /\ Repeats(hop + 1) \in Nat /\ Repeats(hop + 1) <= Repeats(hop)
        /\ \A i \in 1..Repeats(hop + 1) : i \in DOMAIN previous /\ i \in Nat
    BY <1>1, <1>2, RepeatsFit DEF WalkInv
  <1>4. repeat = Repeats(hop) + 1
    <2>1. rows[hop] \in Seq(Results) /\ Len(rows[hop]) \in Nat /\ index = Len(rows[hop]) + 1
      BY <1>1, InRow DEF WalkInv
    <2>2. index - 1 = Len(rows[hop])
      BY <2>1
    <2>3. Repeats(hop) = repeat - 1
      BY <1>1, <2>1, <2>2, HeadsInRow DEF OrderInv, PlaceIsRight, Repeats
    <2> QED BY <1>2, <1>3, <2>3
  <1>5. UNCHANGED <<measurement, dst>> /\ (\A h, i : Probe(h, i)' = Probe(h, i))
        /\ (\A h, i : Ended(h, i)' <=> Ended(h, i)) /\ (\A x : Reached(x)' <=> Reached(x))
        /\ (\A h : Repeats(h)' = Repeats(h)) /\ (Orderly' <=> Orderly)
    BY <1>1, Steady
  <1>6. PlaceIsRight'
    <2>1. rows[hop'] \in Seq(Results)
      BY <1>1, <1>2, InRow DEF WalkInv
    <2>2. index' - 1 = 0 /\ repeat' - 1 = 0 /\ ~(index' > 1)
      BY <1>1
    <2>3. Cardinality(HeadsUpTo(rows[hop'], index' - 1)) = repeat' - 1
      BY <2>1, <2>2, HeadsInRow, FS_EmptySet
    <2> QED BY <1>1, <2>2, <2>3 DEF PlaceIsRight
  <1>7. \A h, i : Took(h, i)' = Took(h, i) /\ Before(h, i)' = Before(h, i)
    BY <1>1, <1>5 DEF Took, Before, Walk
  <1>8. \A e, h, i : Arrives(e, h, i)' <=> Arrives(e, h, i)
    BY <1>5 DEF Arrives
  <1>9. OneEdgeEach'
    <2> SUFFICES ASSUME NEW i \in DOMAIN previous, NEW h \in 1..hop', Done(h, i)'
                 PROVE  IF i > Repeats(h) \/ Ended(h, i) THEN Took(h, i) = {}
                        ELSE \E e : Took(h, i) = {e} /\ e.from \in Before(h, i) /\ Arrives(e, h, i)
      BY <1>1, <1>5, <1>7, <1>8 DEF OneEdgeEach
    <2>1. h \in 1..hop /\ i \in Nat
      BY <1>1, <1>2 DEF Done
    <2>2. CASE Done(h, i)
      BY <1>1, <2>1, <2>2 DEF OrderInv, OneEdgeEach
    <2>3. CASE ~Done(h, i)
      <3>1. h = hop /\ i > Repeats(h)
        BY <1>2, <1>3, <1>4, <2>1, <2>3 DEF Done
      <3>2. ASSUME NEW e \in Took(h, i) PROVE FALSE
        <4>1. e \in edges /\ e.number = number /\ e.hop = h /\ e.repeat = i
          BY <3>2 DEF Took, Walk
        <4>2. Done(h, i)
          BY <1>1, <4>1 DEF WalkInv, NothingAhead
        <4> QED BY <2>3, <4>2
      <3> QED BY <3>1, <3>2
    <2> QED BY <2>2, <2>3
  <1>10. GoesOn'
    <2> SUFFICES ASSUME NEW i \in 1..Repeats(hop + 1), NEW d, d = DoneOf(i)'
                 PROVE  /\ Reached(previous[i]) <=> Ended(d + 1, i)
                        /\ ~Ended(d + 1, i) => previous[i] \in Before(d + 1, i)
      BY <1>1, <1>5, <1>7 DEF GoesOn
    <2>1. i \in 1..Repeats(hop) /\ i \in Nat /\ i >= 1
      BY <1>3
    <2>2. d = hop /\ DoneOf(i) = hop
      BY <1>1, <1>2, <1>3, <1>4, <2>1 DEF DoneOf
    <2> QED BY <1>1, <2>1, <2>2 DEF OrderInv, GoesOn
  <1> QED BY <1>1, <1>6, <1>9, <1>10 DEF OrderInv, OrderlyIsDrawn

LEMMA BeginInOrder ==
    ASSUME WalkInv, BeginMeasurement, Orderly'
    PROVE  OrderInv'
  <1> DEFINE start == SourceId(kind.heads[number + 1])
  <1>1. /\ pc' = "row" /\ hop' = 1 /\ index' = 1 /\ repeat' = 1 /\ skipNext' = FALSE
    BY DEF BeginMeasurement
  <1>2. /\ measurement' = kind.heads[number + 1]
        /\ rows'[1] \in Seq(Results) /\ Len(rows'[1]) \in Nat
        /\ DOMAIN previous' = 1..Len(rows'[1])
        /\ \A i \in DOMAIN previous' : previous'[i] = start
    BY Beginning DEF Begins
  <1>3. PlaceIsRight'
    <2>1. index' - 1 = 0 /\ repeat' - 1 = 0 /\ ~(index' > 1)
      BY <1>1
    <2>2. Cardinality(HeadsUpTo(rows'[hop'], index' - 1)) = repeat' - 1
      BY <1>1, <1>2, <2>1, HeadsInRow, FS_EmptySet
    <2> QED BY <1>1, <2>1, <2>2 DEF PlaceIsRight
  <1>4. OneEdgeEach'
    <2>1. \A i \in DOMAIN previous' : \A h \in 1..1 : ~Done(h, i)'
      BY <1>1, <1>2 DEF Done
    <2> QED BY <1>1, <2>1 DEF OneEdgeEach
  <1>5. ASSUME NEW i \in 1..Repeats(1)' PROVE i \in DOMAIN previous' /\ i \in Nat /\ i >= 1
    <2>1. Repeats(1)' \in Nat /\ Repeats(1)' <= Len(rows'[1])
      BY <1>2, HeadsInRow DEF Repeats
    <2> QED BY <1>2, <2>1
  <1>6. GoesOn'
    <2>0. SourceId(measurement)' = start
      BY <1>2
    <2> HIDE DEF start
    <2> SUFFICES ASSUME NEW i \in 1..Repeats(1)', NEW d, d = DoneOf(i)',
                        NEW x, x = previous'[i]
                 PROVE  /\ Reached(x)' <=> Ended(d + 1, i)'
                        /\ x \in Before(d + 1, i)'
      BY <1>1 DEF GoesOn
    <2>1. d = 0 /\ d + 1 = 1
      BY <1>1, <1>5 DEF DoneOf
    <2>2. Before(d + 1, i)' = {start}
      BY <2>0, <2>1 DEF Before
    <2>3. Ended(d + 1, i)' <=> start.addr = dst'
      <3>1. 1..((d + 1) - 1) = {}
        BY <2>1
      <3> QED BY <2>0, <3>1 DEF Ended
    <2>4. x = start
      BY <1>2, <1>5
    <2> QED BY <2>2, <2>3, <2>4 DEF Reached
  <1> QED BY <1>1, <1>3, <1>4, <1>6 DEF OrderInv, OrderlyIsDrawn

LEMMA OrderStep == WalkInv /\ OrderInv /\ [Next]_vars => OrderInv'
  <1> SUFFICES ASSUME WalkInv, OrderInv, [Next]_vars PROVE OrderInv'
    OBVIOUS
  <1> USE DEF OrderInv
  <1>1. CASE ~Orderly' /\ pc' = "row"
    BY <1>1 DEF PlaceIsRight, OneEdgeEach, GoesOn, OrderlyIsDrawn
  <1>2. CASE BeginMeasurement
    <2>1. pc' = "row"
      BY <1>2 DEF BeginMeasurement
    <2> QED BY <1>1, <1>2, <2>1, BeginInOrder
  <1>3. ASSUME UNCHANGED <<kind, number, rows>> PROVE Orderly' <=> Orderly
    BY <1>3, Steady
  <1>4. CASE Skip \/ Pass \/ NextHop
    <2>1. UNCHANGED <<kind, number, rows>> /\ pc' = "row"
      BY <1>4 DEF Skip, Pass, NextHop, AtResult
    <2> QED BY <1>1, <1>3, <1>4, <2>1, SkipInOrder, PassInOrder, NextHopInOrder
  <1>5. CASE DrawStar \/ DrawAnswer
    <2>1. UNCHANGED <<pc, kind, number, rows, hop>> /\ Ready /\ pc' = "row"
      BY <1>5, Drawing DEF Ready, AtResult
    <2>2. PICK id \in NodeIds, ipid \in Patterns : \E device :
              /\ Visualize(id, device, ipid)
              /\ id.addr = IF IsStar(result) THEN previous[repeat].addr ELSE result.from
      BY <1>5, Drawing
    <2> QED BY <1>1, <1>3, <2>1, <2>2, VisualizeInOrder
  <1>6. CASE Overrun
    <2>1. /\ UNCHANGED <<kind, number, rows>> /\ pc' = "IndexError" /\ AtResult /\ ~skipNext
          /\ repeat \notin DOMAIN previous
      BY <1>6 DEF Overrun
    <2>2. ~Orderly
      BY <2>1, AtHead DEF WalkInv
    <2> QED BY <1>3, <2>1, <2>2 DEF PlaceIsRight, OneEdgeEach, GoesOn, OrderlyIsDrawn
  <1>7. CASE EndMeasurement \/ Save
    BY <1>7 DEF EndMeasurement, Save, PlaceIsRight, OneEdgeEach, GoesOn, OrderlyIsDrawn
  <1>8. CASE UNCHANGED vars
    <2>1. UNCHANGED <<pc, kind, number, rows, hop, index, repeat, skipNext, previous, edges>>
      BY <1>8 DEF vars, place, graph
    <2>2. (\A h, i : Probe(h, i)' = Probe(h, i)) /\ UNCHANGED <<measurement, dst>>
          /\ (\A h, i : Ended(h, i)' <=> Ended(h, i)) /\ (\A x : Reached(x)' <=> Reached(x))
          /\ (\A h : Repeats(h)' = Repeats(h)) /\ (Orderly' <=> Orderly)
      BY <2>1, Steady
    <2>3. \A h, i : Took(h, i)' = Took(h, i) /\ Before(h, i)' = Before(h, i)
      BY <2>1, <2>2 DEF Took, Before, Walk
    <2>4. \A e, h, i : Arrives(e, h, i)' <=> Arrives(e, h, i)
      BY <2>2 DEF Arrives
    <2>5. PlaceIsRight' /\ OrderlyIsDrawn'
      BY <2>1, <2>2 DEF PlaceIsRight, OrderlyIsDrawn
    <2>6. OneEdgeEach'
      BY <2>1, <2>2, <2>3, <2>4 DEF OneEdgeEach, Done
    <2>7. GoesOn'
      BY <2>1, <2>2, <2>3 DEF GoesOn, DoneOf
    <2> QED BY <2>5, <2>6, <2>7
  <1> QED BY <1>2, <1>4, <1>5, <1>6, <1>7, <1>8 DEF Next, Finished

\* The invariant of an orderly capture: its place is that of the repeats counted
\* so far, every repeat has one edge for each hop behind it, and goes on from
\* where the last led.
LEMMA OrderHolds == Spec => []OrderInv
  <1>1. Init => OrderInv
    BY DEF Init, OrderInv, PlaceIsRight, OneEdgeEach, GoesOn, OrderlyIsDrawn
  <1> QED BY <1>1, WalkHolds, OrderStep, PTL DEF Spec

LEMMA OrderImpliesFollows == WalkInv /\ OrderInv => WalksFollowTheRows
  <1> SUFFICES ASSUME WalkInv, OrderInv, pc = "row", Orderly,
                      NEW i \in DOMAIN previous, NEW h \in 1..hop, h < hop \/ i < repeat
               PROVE  LET here == {e \in Walk(i) : e.hop = h}
                          before == {e \in Walk(i) : e.hop = h - 1}
                      IN  /\ Cardinality(here) = (IF i > Repeats(h) \/ Ended(h, i) THEN 0 ELSE 1)
                          /\ \A e \in here :
                                /\ e.from \in (IF h = 1 THEN {SourceId(measurement)}
                                               ELSE {f.to : f \in before})
                                /\ e.to.addr = IF IsStar(Probe(h, i)) THEN e.from.addr
                                               ELSE Probe(h, i).from
    BY DEF WalksFollowTheRows
  <1>1. Done(h, i)
    <2>1. hop \in Nat
      BY InRow DEF WalkInv
    <2> QED BY <2>1 DEF Done
  <1>2. IF i > Repeats(h) \/ Ended(h, i) THEN Took(h, i) = {}
        ELSE \E e : Took(h, i) = {e} /\ e.from \in Before(h, i) /\ Arrives(e, h, i)
    BY <1>1 DEF OrderInv, OneEdgeEach
  <1>3. Cardinality(Took(h, i)) = (IF i > Repeats(h) \/ Ended(h, i) THEN 0 ELSE 1)
    BY <1>2, FS_EmptySet, FS_Singleton
  <1>4. \A e \in Took(h, i) : e.from \in Before(h, i) /\ Arrives(e, h, i)
    BY <1>2
  <1> QED BY <1>3, <1>4 DEF Took, Before, Arrives

\* In an orderly capture the edges of every repeat are a walk over what answered
\* it, from its own source, a step for each hop it has, to the first answer in
\* the destination's name and not beyond, whatever was found on the way, with any
\* number of late answers and of rows that are missing their last repeats.
THEOREM FollowsTheRows == Spec => []WalksFollowTheRows
  BY WalkHolds, OrderHolds, OrderImpliesFollows, PTL

\* An orderly capture is drawn to its end: only a late answer that is last,
\* follows another or comes from behind the destination, or a repeat that begins
\* at a later hop, makes the loop ask for a repeat the first row does not have.
THEOREM EveryResultHasItsRepeat == Spec => []OrderlyIsDrawn
  <1>1. OrderInv => OrderlyIsDrawn
    BY DEF OrderInv
  <1> QED BY <1>1, OrderHolds, PTL

-----------------------------------------------------------------------------
(* Edges of the measurement being drawn *)

\* Beside what is there, the measurement being drawn gets at most the edge of the
\* result being looked at.
Drew(e) ==
    /\ e.hop = hop /\ e.index = index /\ e.repeat = repeat
    /\ Current' = Current \cup {e}

LEMMA CurrentSteps ==
    ASSUME WalkInv, [Next]_vars
    PROVE  \/ Current' = {}
           \/ /\ pc = "row" /\ UNCHANGED <<pc, kind, number, rows, replyForged>>
              /\ \/ Current' = Current
                 \/ \E e : Drew(e) /\ IsStar(ResultOf(e))
                 \/ /\ DrawAnswer
                    /\ Drew(NewEdge(AnswerId, IF Analysed
                                              THEN IpIdPattern(HopPackets(rows[hop], result.from))
                                              ELSE "unknown"))
  <1>1. CASE BeginMeasurement
    <2>1. \A e \in edges : e.number \in Nat /\ e.number <= number
      BY NumberType DEF WalkInv, NothingAhead
    <2>2. number \in Nat
      BY NumberType DEF WalkInv
    <2>3. Current' = {}
      BY <1>1, <2>1, <2>2 DEF BeginMeasurement, Current
    <2> QED BY <2>3
  <1>2. CASE Skip \/ Pass \/ NextHop \/ UNCHANGED vars
    <2>1. UNCHANGED <<pc, kind, number, rows, replyForged, edges>>
      BY <1>2 DEF Skip, Pass, NextHop, vars, graph
    <2> QED BY <2>1 DEF Current
  <1>3. CASE EndMeasurement \/ Save \/ Overrun
    BY <1>3 DEF EndMeasurement, Save, Overrun, Current
  <1>4. ASSUME NEW id, NEW device, NEW ipid, Visualize(id, device, ipid), pc = "row",
               UNCHANGED <<pc, number>>
        PROVE  Drew(NewEdge(id, ipid))
    <2>1. edges' = edges \cup {NewEdge(id, ipid)}
      BY <1>4 DEF Visualize, NewEdge
    <2>2. /\ NewEdge(id, ipid).number = number /\ NewEdge(id, ipid).hop = hop
          /\ NewEdge(id, ipid).index = index /\ NewEdge(id, ipid).repeat = repeat
      BY DEF NewEdge
    <2>3. Current' = {e \in edges \cup {NewEdge(id, ipid)} : e.number = number}
      BY <1>4, <2>1 DEF Current
    <2>4. Current = {e \in edges : e.number = number}
      BY <1>4 DEF Current
    <2> QED BY <2>2, <2>3, <2>4 DEF Drew
  <1>5. CASE DrawStar
    <2>1. /\ pc = "row" /\ UNCHANGED <<pc, kind, number, rows, replyForged>> /\ IsStar(result)
          /\ Visualize(Wrap("unknown", previous[repeat]), "unknown", "unknown")
      BY <1>5 DEF DrawStar, Ready, AtResult
    <2> DEFINE e == NewEdge(Wrap("unknown", previous[repeat]), "unknown")
    <2>2. Drew(e)
      BY <1>4, <2>1
    <2> HIDE DEF e
    <2>3. IsStar(ResultOf(e))
      BY <2>1, <2>2 DEF Drew, ResultOf, result
    <2> QED BY <2>1, <2>2, <2>3
  <1>6. CASE DrawAnswer
    BY <1>4, <1>6 DEF DrawAnswer, Ready, AtResult
  <1> QED BY <1>1, <1>2, <1>3, <1>5, <1>6 DEF Next, Finished

\* What the property says of one edge.
Honest(e) ==
    LET forged(q, h) == q.from = dst /\ q.received # <<>> /\ IsForged(q, h)
        shown == "forged" \in ToSet(e.to.tags)
    IN  /\ shown => replyForged
        /\ kind.written =>
              /\ forged(ResultOf(e), e.hop) => e.to # NodeId(dst)
              /\ shown => \E h \in DOMAIN rows : \E q \in ToSet(rows[h]) : forged(q, h)

LEMMA AnswerIsHonest ==
    ASSUME WalkInv, DrawAnswer, NEW ipid
    PROVE  Honest(NewEdge(AnswerId, ipid))
  <1> DEFINE e == NewEdge(AnswerId, ipid)
  <1>1. AtResult /\ RowInv
    BY DEF DrawAnswer, Ready, WalkInv
  <1>2. /\ hop \in DOMAIN rows /\ index \in DOMAIN rows[hop] /\ rows[hop][index] = result
        /\ pc = "row"
    BY <1>1, AtTheResult
  <1>3. e.hop = hop /\ e.to = AnswerId /\ ResultOf(e) = result
    BY <1>2 DEF NewEdge, ResultOf
  <1> HIDE DEF e
  <1>4. /\ ForgedHere <=> "forged" \in ToSet(AnswerId.tags)
        /\ ForgedHere => AnswerId.tags # <<>>
    BY <1>1, AnswerIdType
  <1>5. ForgedHere => replyForged
    BY DEF ForgedHere
  <1>6. kind.written => (replyForged <=> ForgedDestinationReply(rows, dst))
    BY <1>1, <1>2 DEF RowInv
  <1>7. ASSUME kind.written, result.from = dst, result.received # <<>>, IsForged(result, hop)
        PROVE  AnswerId # NodeId(dst)
    <2>1. ForgedHere
      BY <1>2, <1>6, <1>7 DEF ForgedHere, Analysed, ForgedDestinationReply
    <2>2. NodeId(dst).tags = <<>>
      BY DEF NodeId
    <2> QED BY <1>4, <2>1, <2>2
  <1>8. ASSUME kind.written, "forged" \in ToSet(AnswerId.tags)
        PROVE  \E h \in DOMAIN rows : \E q \in ToSet(rows[h]) :
                  q.from = dst /\ q.received # <<>> /\ IsForged(q, h)
    BY <1>4, <1>5, <1>6, <1>8 DEF ForgedDestinationReply, ToSet
  <1>9. Honest(e)
    BY <1>3, <1>4, <1>5, <1>7, <1>8 DEF Honest
  <1> QED BY <1>9 DEF e

LEMMA ForgeryStep ==
    WalkInv /\ ForgeryNeverWearsDestination /\ [Next]_vars => ForgeryNeverWearsDestination'
  <1> SUFFICES ASSUME WalkInv, ForgeryNeverWearsDestination, [Next]_vars,
                      NEW e, e \in Current', Answered(e)'
               PROVE  Honest(e)'
    BY DEF ForgeryNeverWearsDestination, Honest
  <1>1. UNCHANGED <<kind, number, rows, replyForged>>
    BY CurrentSteps
  <1>2. dst' = dst /\ ResultOf(e)' = ResultOf(e)
    BY <1>1, Steady
  <1>3. Answered(e) /\ (Honest(e)' <=> Honest(e))
    BY <1>1, <1>2 DEF Answered, Honest
  <1>4. CASE e \in Current
    BY <1>3, <1>4 DEF ForgeryNeverWearsDestination, Honest
  <1>5. CASE e \notin Current
    <2>1. DrawAnswer /\ \E ipid : e = NewEdge(AnswerId, ipid)
      BY <1>3, <1>5, CurrentSteps DEF Drew, Answered
    <2> QED BY <1>3, <2>1, AnswerIsHonest
  <1> QED BY <1>4, <1>5

\* Only a capture that says so has a reply drawn as forged.  In one of
\* tracevis's own writing, a reply written in the destination's name by something
\* else never sits on the destination's node, and where every answer in its name
\* is its own, nothing is drawn as forged.
THEOREM ForgeryIsShown == Spec => []ForgeryNeverWearsDestination
  <1>1. Init => ForgeryNeverWearsDestination
    BY DEF Init, ForgeryNeverWearsDestination, Current
  <1> QED BY <1>1, WalkHolds, ForgeryStep, PTL DEF Spec

-----------------------------------------------------------------------------
(* The header checksum *)

LEMMA WordMaxIsNatural == WordMax \in Nat
  BY DEF WordMax

\* A sum of a header folds by at most one carry.
LEMMA FoldIs ==
    ASSUME NEW n \in Nat, n >= 1, n <= 2 * WordMax
    PROVE  /\ Fold(n) = IF n > WordMax THEN n - WordMax ELSE n
           /\ Fold(n) \in Nat /\ Fold(n) >= 1 /\ Fold(n) <= WordMax
  <1>1. CASE n > WordMax
    <2>1. n \div (WordMax + 1) = 1
      BY <1>1 DEF WordMax
    <2>2. n % (WordMax + 1) = n - (WordMax + 1)
      BY <1>1 DEF WordMax
    <2>3. Fold(n) = (n - (WordMax + 1)) + 1
      BY <1>1, <2>1, <2>2 DEF Fold
    <2> QED BY <1>1, <2>3 DEF WordMax
  <1>2. CASE ~(n > WordMax)
    BY <1>2 DEF Fold, WordMax
  <1> QED BY <1>1, <1>2

\* Two sums of a header that differ by less than a round fold to two words.
LEMMA FoldApart ==
    ASSUME NEW m \in Nat, NEW n \in Nat, m >= 1, n >= 1, m <= 2 * WordMax, n <= 2 * WordMax,
           m - n < WordMax, n - m < WordMax
    PROVE  Fold(m) = Fold(n) <=> m = n
  BY FoldIs DEF WordMax

\* Putting the TTL back puts the carry back: the sum is folded as it was when
\* the header left.
LEMMA FoldBack ==
    ASSUME NEW hops \in Nat, hops >= 1, hops <= MaxHops,
           NEW rest \in Nat, rest >= 1, rest <= WordMax
    PROVE  Fold(Fold(Fold(1 * 256 + rest) + (hops - 1) * 256)) = Fold(hops * 256 + rest)
  <1> DEFINE sum == 256 + rest
             more == (hops - 1) * 256
             all == sum + more
  <1>1. /\ sum \in Nat /\ sum >= 1 /\ sum <= 256 + WordMax
        /\ more \in Nat /\ more >= 0 /\ more <= 254 * 256
    BY DEF MaxHops, WordMax
  <1>2. 1 * 256 + rest = sum /\ hops * 256 + rest = all /\ all \in Nat
    <2>1. hops * 256 = (hops - 1) * 256 + 256
      OBVIOUS
    <2> QED BY <2>1 DEF WordMax
  <1> HIDE DEF sum, more
  <1>3. all <= 2 * WordMax /\ all >= 1
    BY <1>1 DEF WordMax
  <1>4. Fold(sum) = IF sum > WordMax THEN sum - WordMax ELSE sum
    <2>1. sum <= 2 * WordMax
      BY <1>1 DEF WordMax
    <2> QED BY <1>1, <2>1, FoldIs
  <1>5. Fold(all) = IF all > WordMax THEN all - WordMax ELSE all
    BY <1>3, <1>1, FoldIs
  <1>6. Fold(all) \in Nat /\ Fold(all) >= 1 /\ Fold(all) <= WordMax
    BY <1>1, <1>3, FoldIs
  <1>7. Fold(Fold(all)) = Fold(all)
    BY <1>6, FoldIs DEF WordMax
  <1>8. Fold(Fold(sum) + more) = Fold(all)
    <2>1. CASE sum > WordMax
      <3>1. Fold(sum) + more = all - WordMax /\ all > WordMax
        BY <1>1, <1>4, <2>1 DEF WordMax
      <3>2. all - WordMax \in Nat /\ all - WordMax >= 1 /\ all - WordMax <= WordMax
        BY <1>1, <1>3, <3>1 DEF WordMax
      <3>3. Fold(all - WordMax) = all - WordMax
        BY <3>2, FoldIs DEF WordMax
      <3> QED BY <1>5, <3>1, <3>3
    <2>2. CASE ~(sum > WordMax)
      BY <1>4, <2>2
    <2> QED BY <2>1, <2>2
  <1>9. Fold(Fold(Fold(sum) + more)) = Fold(all)
    BY <1>7, <1>8
  <1> QED BY <1>2, <1>9 DEF more

\* A header that comes back with the TTL of its last hop is found rewritten
\* exactly when it is.
LEMMA ChecksumTells ==
    ASSUME NEW hops \in Nat, hops >= 1, hops <= MaxHops,
           NEW rest \in Nat, rest >= 1, rest <= WordMax, NEW id,
           NEW quote, quote.ttl = 1, quote.rest \in Nat, quote.rest >= 1, quote.rest <= WordMax
    PROVE  CalculateChksum(quote, hops) # Checksum([ttl |-> hops, id |-> id, rest |-> rest])
           <=> quote.rest # rest
  <1> DEFINE q == quote.rest
             sent == [ttl |-> hops, id |-> id, rest |-> rest]
  <1>1. q \in Nat /\ q >= 1 /\ q <= WordMax
    OBVIOUS
  <1> HIDE DEF q
  <1>3. Checksum(sent) = WordMax - Fold(hops * 256 + rest)
    BY DEF Checksum, Complement
  <1>4. Checksum(quote) = WordMax - Fold(1 * 256 + q)
    BY DEF Checksum, Complement, q
  <1> DEFINE there == hops * 256 + rest
             back == hops * 256 + q
             near == 1 * 256 + q
  <1>5. /\ there \in Nat /\ there >= 1 /\ there <= 2 * WordMax
        /\ back \in Nat /\ back >= 1 /\ back <= 2 * WordMax
        /\ near \in Nat /\ near >= 1 /\ near <= 2 * WordMax
        /\ there - back < WordMax /\ back - there < WordMax
        /\ (there = back <=> rest = q)
    <2>1. hops * 256 \in Nat /\ hops * 256 <= 255 * 256
      BY DEF MaxHops
    <2> QED BY <1>1, <2>1 DEF WordMax
  <1>6. CalculateChksum(quote, hops) = WordMax - Fold(back)
    <2>1. CASE hops = 1
      BY <1>4, <2>1 DEF CalculateChksum
    <2>2. CASE hops > 1
      <3>1. CalculateChksum(quote, hops)
              = WordMax - Fold(Fold((WordMax - Checksum(quote)) + (hops - 1) * 256))
        BY <2>2 DEF CalculateChksum, Complement
      <3>2. Fold(near) \in Nat
        BY <1>5, FoldIs
      <3>3. WordMax - (WordMax - Fold(near)) = Fold(near)
        BY <3>2 DEF WordMax
      <3>4. Fold(Fold(Fold(near) + (hops - 1) * 256)) = Fold(back)
        BY <1>1, FoldBack
      <3> QED BY <1>4, <3>1, <3>3, <3>4
    <2> QED BY <2>1, <2>2
  <1> HIDE DEF there, back, near, sent
  <1>7. Fold(back) \in Nat /\ Fold(there) \in Nat
    BY <1>5, FoldIs
  <1>8. Fold(there) = Fold(back) <=> there = back
    BY <1>5, FoldApart
  <1>9. Checksum(sent) = WordMax - Fold(there)
    BY <1>3 DEF there
  <1>10. CalculateChksum(quote, hops) # Checksum(sent) <=> Fold(back) # Fold(there)
    BY <1>6, <1>7, <1>9 DEF WordMax
  <1> QED BY <1>5, <1>8, <1>10 DEF q, sent

-----------------------------------------------------------------------------
(* NAT *)

LEMMA HeaderTells ==
    ASSUME NEW r \in Results, NEW hops \in Nat, hops >= 1, hops <= MaxHops,
           NEW p \in Packets, p.quote.ttl = 1
    PROVE  HeaderRewritten(Sent(hops, r), p)
           <=> (p.quote.id = r.sentId /\ p.quote.rest # r.sentRest)
  <1>1. p.quote.rest \in Nat /\ p.quote.rest >= 1 /\ p.quote.rest <= WordMax
    BY WordMaxIsNatural DEF Packets, Headers
  <1>2. r.sentRest \in Nat /\ r.sentRest >= 1 /\ r.sentRest <= WordMax
    BY WordMaxIsNatural DEF Results
  <1>3. CalculateChksum(p.quote, hops)
          # Checksum([ttl |-> hops, id |-> r.sentId, rest |-> r.sentRest])
        <=> p.quote.rest # r.sentRest
    BY <1>1, <1>2, ChecksumTells
  <1> QED BY <1>3 DEF HeaderRewritten, SameId, Sent

LEMMA NatFound ==
    ASSUME NEW r \in Results, NEW hops \in Nat, hops >= 1, hops <= MaxHops,
           Shape(r), r.received # <<>>
    PROVE  /\ Detect(Sent(hops, r), r.received).nat <=> Rewritten(r)
           /\ r.received[1].layer = "ICMP" =>
                /\ ~Detect(Sent(hops, r), r.received).middlebox
                /\ Detect(Sent(hops, r), r.received).pep <=> r.received[1].quote.id # r.sentId
  <1> DEFINE all == r.received
             one == all[1]
             two == all[2]
             sent == Sent(hops, r)
             found == Detect(sent, all)
  <1>1. all \in Seq(Packets) /\ all # <<>>
    BY ResultTypes
  <1>2. Len(all) \in Nat /\ Len(all) >= 1 /\ DOMAIN all = 1..Len(all) /\ 1 \in DOMAIN all
    BY <1>1
  <1>3. one \in Packets /\ one.layer \in {"ICMP", "TCP", "UDP"}
    <2>1. one \in Packets
      BY <1>1, <1>2
    <2> HIDE DEF one
    <2> QED BY <2>1 DEF Packets
  <1>4. \A j \in DOMAIN all : all[j].layer = "ICMP" =>
          /\ all[j].quote.ttl = 1
          /\ j = 1 \/ (j = 2 /\ one.layer = "TCP" /\ one.flags \in {"A"} \cup Closing)
    BY DEF Shape
  <1>5. Rewritten(r) <=> \E j \in DOMAIN all : /\ all[j].layer = "ICMP"
                                            /\ all[j].quote.id = r.sentId
                                            /\ all[j].quote.rest # r.sentRest
    BY DEF Rewritten, ToSet
  <1>6. sent.id = r.sentId
    BY DEF Sent
  <1>7. CASE one.layer = "ICMP"
    <2>1. found = Found(HeaderRewritten(sent, one), FALSE, ~SameId(sent, one))
      BY <1>7 DEF Detect
    <2>2. HeaderRewritten(sent, one) <=> (one.quote.id = r.sentId /\ one.quote.rest # r.sentRest)
      <3>1. one.quote.ttl = 1
        BY <1>2, <1>4, <1>7
      <3> QED BY <1>3, <3>1, HeaderTells
    <2>3. Rewritten(r) <=> (one.quote.id = r.sentId /\ one.quote.rest # r.sentRest)
      BY <1>2, <1>4, <1>5, <1>7
    <2>4. found.nat = HeaderRewritten(sent, one) /\ found.middlebox = FALSE
          /\ found.pep = (one.quote.id # r.sentId)
      <3> HIDE DEF one, sent, found
      <3> QED BY <1>6, <2>1 DEF Found, SameId
    <2> HIDE DEF one, found, sent
    <2>5. (found.nat <=> Rewritten(r)) /\ ~found.middlebox /\ (found.pep <=> one.quote.id # r.sentId)
      BY <2>2, <2>3, <2>4
    <2> QED BY <2>5 DEF found, sent, one
  <1>8. CASE one.layer = "UDP"
    <2>1. found.nat = FALSE
      BY <1>8 DEF Detect, Found
    <2>2. ~Rewritten(r)
      BY <1>4, <1>5, <1>8
    <2> QED BY <1>8, <2>1, <2>2
  <1>9. CASE one.layer = "TCP" /\ Len(all) > 1
    <2>0. 2 \in DOMAIN all /\ two \in Packets
      BY <1>1, <1>2, <1>9
    <2>1. CASE one.flags \in {"A"} \cup Closing /\ two.layer = "ICMP"
      <3>1. found.nat = HeaderRewritten(sent, two)
        BY <1>9, <2>1 DEF Detect, Found
      <3>2. HeaderRewritten(sent, two) <=> (two.quote.id = r.sentId /\ two.quote.rest # r.sentRest)
        <4>1. two.quote.ttl = 1
          BY <1>4, <2>0, <2>1
        <4> QED BY <2>0, <4>1, HeaderTells
      <3>3. Rewritten(r) <=> (two.quote.id = r.sentId /\ two.quote.rest # r.sentRest)
        BY <1>4, <1>5, <1>9, <2>0, <2>1
      <3> HIDE DEF one, two, found, sent
      <3> QED BY <1>9, <3>1, <3>2, <3>3 DEF found, sent, one
    <2>2. CASE ~(one.flags \in {"A"} \cup Closing /\ two.layer = "ICMP")
      <3>1. found.nat = FALSE
        BY <1>9, <2>2 DEF Detect, Found
      <3>2. ~Rewritten(r)
        BY <1>4, <1>5, <1>9, <2>2
      <3> QED BY <1>9, <3>1, <3>2
    <2> QED BY <2>1, <2>2
  <1>10. CASE one.layer = "TCP" /\ ~(Len(all) > 1)
    <2>1. found.nat = FALSE
      BY <1>10 DEF Detect, Found
    <2>2. ~Rewritten(r)
      <3>1. \A j \in DOMAIN all : j = 1
        BY <1>2, <1>10
      <3> QED BY <1>5, <1>10, <3>1
    <2> QED BY <1>10, <2>1, <2>2
  <1> QED BY <1>3, <1>7, <1>8, <1>9, <1>10
\* The rows are such replies.
Shapes ==
    pc = "row" => \A h \in 1..Len(rows) : \A i \in DOMAIN rows[h] : Shape(rows[h][i])

\* What a repeat has detected tells whether an edge of it was drawn for a header
\* that was rewritten.
NatSeen ==
    pc = "row" =>
        \A i \in DOMAIN detected :
            "nat" \in detected[i] <=> \E e \in Walk(i) : Rewritten(ResultOf(e))

NatInv == Shapes /\ NatSeen /\ NatIsTheFirstRewrite

LEMMA ShapesStep ==
    ASSUME AsRoutersQuote, WalkInv, Shapes, [Next]_vars
    PROVE  Shapes'
  <1>1. CASE BeginMeasurement
    <2> DEFINE to == kind.heads[number + 1].dst
    <2>0. PICK hops, some : Begins(hops, some)
      BY <1>1, Beginning
    <2>1. /\ some \in [1..hops -> Seq(Results)] /\ Len(rows') = hops
          /\ \A h \in 1..hops : \A i \in DOMAIN some[h] : some[h][i] \in kind.results
          /\ to # "***" /\ rows' = [h \in 1..hops |-> Addressed(some[h], to)]
      BY <2>0 DEF Begins
    <2> HIDE DEF to
    <2>2. ASSUME NEW h \in 1..hops, NEW i \in DOMAIN rows'[h] PROVE Shape(rows'[h][i])
      <3>1. rows'[h] = Addressed(some[h], to) /\ DOMAIN rows'[h] = DOMAIN some[h]
        BY <2>1 DEF Addressed
      <3>2. some[h][i] \in kind.results /\ some[h][i] \in Results
        BY <2>1, <3>1, KindFacts DEF WalkInv
      <3>3. Shape(some[h][i])
        BY <3>2 DEF AsRoutersQuote, WalkInv, TypeInv
      <3>4. rows'[h][i] = some[h][i]
            \/ rows'[h][i] = [some[h][i] EXCEPT !.from = to]
        BY <3>1 DEF Addressed
      <3>5. CASE rows'[h][i] = [some[h][i] EXCEPT !.from = to]
        <4>1. rows'[h][i].from = to /\ rows'[h][i].received = some[h][i].received
          BY <3>2, <3>5 DEF Results
        <4>2. ~IsStar(rows'[h][i])
          BY <2>1, <4>1 DEF IsStar
        <4> QED BY <3>3, <4>1, <4>2 DEF Shape
      <3> QED BY <3>3, <3>4, <3>5
    <2> QED BY <2>1, <2>2 DEF Shapes
  <1>2. CASE UNCHANGED <<pc, rows>>
    BY <1>2 DEF Shapes
  <1>3. CASE pc' # "row"
    BY <1>3 DEF Shapes
  <1> QED BY <1>1, <1>2, <1>3
    DEF Next, Skip, Pass, Overrun, DrawStar, DrawAnswer, NextHop, EndMeasurement, Save, Finished, vars

\* Where a result is drawn.
LEMMA AtDrawing ==
    ASSUME WalkInv, Ready
    PROVE  /\ pc = "row" /\ AtResult /\ ~skipNext /\ result \in Results
           /\ hop \in DOMAIN rows /\ hop \in 1..Len(rows) /\ index \in DOMAIN rows[hop]
           /\ rows[hop] \in Seq(Results) /\ rows[hop][index] = result
           /\ hop \in Nat /\ hop >= 1 /\ hop <= MaxHops
           /\ repeat \in Nat /\ repeat \in DOMAIN previous /\ repeat \in DOMAIN detected
  <1>1. pc = "row" /\ AtResult /\ ~skipNext /\ repeat \in DOMAIN previous
    BY DEF Ready, AtResult
  <1>2. /\ hop \in 1..Len(rows) /\ hop \in Nat /\ hop >= 1 /\ Len(rows) \in Nat
        /\ Len(rows) <= MaxHops /\ DOMAIN detected = DOMAIN previous /\ repeat \in Nat
        /\ rows[hop] \in Seq(Results)
    BY <1>1, InRow DEF WalkInv
  <1>3. hop <= MaxHops
    <2>1. MaxHops \in Nat
      BY DEF MaxHops
    <2> QED BY <1>2, <2>1
  <1> QED BY <1>1, <1>2, <1>3, AtTheResult DEF WalkInv

LEMMA AnswerFinds ==
    ASSUME WalkInv, Shapes, DrawAnswer
    PROVE  /\ FoundHere.nat <=> Rewritten(result)
           /\ Rewritten(result) => Analysed
           /\ (Analysed /\ result.received[1].layer = "ICMP"
               /\ result.received[1].quote.id = result.sentId) =>
                 ~FoundHere.middlebox /\ ~FoundHere.pep
  <1>1. Ready
    BY DEF DrawAnswer
  <1>2. Shape(result)
    BY <1>1, AtDrawing DEF Shapes
  <1>3. CASE Analysed
    <2>1. FoundHere = Detect(Sent(hop, result), result.received) /\ result.received # <<>>
      BY <1>3 DEF FoundHere, Analysed
    <2> QED BY <1>1, <1>2, <1>3, <2>1, AtDrawing, NatFound
  <1>4. CASE ~Analysed
    <2>1. FoundHere.nat = FALSE
      BY <1>4 DEF FoundHere, Found
    <2>2. ToSet(result.received) = {}
      BY <1>4 DEF Analysed, ToSet
    <2> QED BY <1>4, <2>1, <2>2 DEF Rewritten
  <1> QED BY <1>3, <1>4

LEMMA DetectsNat ==
    ASSUME WalkInv, DrawAnswer
    PROVE  /\ DOMAIN detected' = DOMAIN detected
           /\ \A i \in DOMAIN detected : i # repeat => detected'[i] = detected[i]
           /\ \A i \in DOMAIN detected : i = repeat =>
                ("nat" \in detected'[i] <=> ("nat" \in detected[i] \/ FoundHere.nat))
  <1>1. repeat \in DOMAIN detected
    BY AtDrawing DEF DrawAnswer
  <1>2. detected' = [detected EXCEPT ![repeat] = @
          \cup Which("middlebox", MarkHere = "sni" \/ ForgedHere \/ BoxHere)
          \cup Which("pep", FoundHere.pep) \cup Which("nat", FoundHere.nat)
          \cup Which("cgnat", Analysed /\ result.from \in CgnatAddresses)]
    BY DEF DrawAnswer
  <1>3. detected'[repeat] = detected[repeat]
          \cup Which("middlebox", MarkHere = "sni" \/ ForgedHere \/ BoxHere)
          \cup Which("pep", FoundHere.pep) \cup Which("nat", FoundHere.nat)
          \cup Which("cgnat", Analysed /\ result.from \in CgnatAddresses)
    BY <1>1, <1>2
  <1>4. /\ \A holds : "nat" \notin Which("middlebox", holds)
        /\ \A holds : "nat" \notin Which("pep", holds)
        /\ \A holds : "nat" \notin Which("cgnat", holds)
        /\ "nat" \in Which("nat", FoundHere.nat) <=> FoundHere.nat
    BY DEF Which
  <1>5. "nat" \in detected'[repeat] <=> ("nat" \in detected[repeat] \/ FoundHere.nat)
    BY <1>3, <1>4
  <1> QED BY <1>2, <1>5

\* The edges of a repeat are those of the measurement, one by one.
LEMMA WalkIs == pc = "row" => \A i : Walk(i) = {e \in Current : e.repeat = i}
  BY DEF Walk, Current

LEMMA WalkIsNext == (pc = "row" => \A i : Walk(i) = {e \in Current : e.repeat = i})'
  BY WalkIs, PTL

LEMMA NatSeenStep ==
    ASSUME AsRoutersQuote, WalkInv, Shapes, NatSeen, [Next]_vars
    PROVE  NatSeen'
  <1>1. CASE pc' # "row"
    BY <1>1 DEF NatSeen
  <1>2. CASE BeginMeasurement
    <2>1. \A i \in DOMAIN detected' : detected'[i] = {}
      BY <1>2, Beginning DEF Begins
    <2>2. \A i : Walk(i)' = {}
      <3>1. \A e \in edges : e.number \in Nat /\ e.number <= number
        BY NumberType DEF WalkInv, NothingAhead
      <3>2. number \in Nat
        BY NumberType DEF WalkInv
      <3> QED BY <1>2, <3>1, <3>2 DEF BeginMeasurement, Walk
    <2> QED BY <2>1, <2>2 DEF NatSeen
  <1>3. CASE UNCHANGED <<pc, number, rows, detected, edges>>
    BY <1>3 DEF NatSeen, Walk, ResultOf
  <1>4. CASE Ready /\ (DrawStar \/ DrawAnswer)
    <2>1. PICK id, ipid : edges' = edges \cup {NewEdge(id, ipid)}
      BY <1>4 DEF DrawStar, DrawAnswer, Visualize, NewEdge
    <2> DEFINE new == NewEdge(id, ipid)
    <2>2. /\ new.number = number /\ new.hop = hop /\ new.index = index /\ new.repeat = repeat
      BY DEF NewEdge
    <2> HIDE DEF new
    <2>3. /\ \A e : ResultOf(e)' = ResultOf(e)
          /\ UNCHANGED <<pc, number, rows>> /\ pc = "row"
      BY <1>4, Steady DEF DrawStar, DrawAnswer, Ready, AtResult
    <2>4. ResultOf(new) = result
      BY <2>2 DEF ResultOf, result
    <2>5. \A i : Walk(i)' = IF i = repeat THEN Walk(i) \cup {new} ELSE Walk(i)
      BY <2>1, <2>2, <2>3 DEF Walk, new
    <2>6. /\ DOMAIN detected' = DOMAIN detected
          /\ \A i \in DOMAIN detected : i # repeat => detected'[i] = detected[i]
          /\ \A i \in DOMAIN detected : i = repeat =>
               ("nat" \in detected'[i] <=> ("nat" \in detected[i] \/ Rewritten(result)))
      <3>1. CASE DrawStar
        <4>1. Shape(result)
          BY <1>4, AtDrawing DEF Shapes
        <4>2. ToSet(result.received) = {}
          BY <3>1, <4>1 DEF DrawStar, Shape, ToSet
        <4> QED BY <3>1, <4>2 DEF DrawStar, Rewritten
      <3>2. CASE DrawAnswer
        BY <3>2, DetectsNat, AnswerFinds
      <3> QED BY <1>4, <3>1, <3>2
    <2> SUFFICES ASSUME NEW i \in DOMAIN detected
                 PROVE  "nat" \in detected'[i] <=> \E e \in Walk(i)' : Rewritten(ResultOf(e))
      BY <2>3, <2>6 DEF NatSeen
    <2>7. "nat" \in detected[i] <=> \E e \in Walk(i) : Rewritten(ResultOf(e))
      BY <2>3 DEF NatSeen
    <2> QED BY <2>4, <2>5, <2>6, <2>7
  <1> QED BY <1>1, <1>2, <1>3, <1>4
    DEF Next, Skip, Pass, Overrun, DrawStar, DrawAnswer, NextHop, EndMeasurement, Save, Finished,
        vars, place, graph

\* What NatIsTheFirstRewrite says of an edge.
Earlier(e) == {f \in Walk(e.repeat) : f.hop < e.hop}
NatTrue(e) ==
    LET r == ResultOf(e)
        first == Rewritten(r) /\ \A f \in Earlier(e) : ~Rewritten(ResultOf(f))
        plain == /\ r.received[1].layer = "ICMP"
                 /\ r.received[1].quote.id = r.sentId
                 /\ DeviceOfTtl(r.ttl) # "middlebox"
                 /\ r.from \notin CgnatAddresses \cup {dst}
    IN  /\ "nat" \in ToSet(e.to.tags) => first
        /\ first => (plain => "nat" \in ToSet(e.to.tags))

LEMMA NatTrueIs ==
    NatIsTheFirstRewrite <=> \A e \in Current : Answered(e) => NatTrue(e)
  BY DEF NatIsTheFirstRewrite, NatTrue, Earlier

LEMMA NatTrueNext ==
    (NatIsTheFirstRewrite <=> \A e \in Current : Answered(e) => NatTrue(e))'
  BY NatTrueIs, PTL

\* What comes behind an edge is drawn at its hop or behind.
LEMMA EarlierStays ==
    ASSUME WalkInv, [Next]_vars, NEW e \in Current'
    PROVE  Earlier(e)' = Earlier(e)
  <1>1. pc = "row" /\ UNCHANGED <<pc, number, rows>>
    BY CurrentSteps
  <1>2. hop \in Nat /\ \A d \in Current : d.hop \in Nat /\ d.hop <= hop
    <2>1. hop \in Nat
      BY <1>1, InRow DEF WalkInv
    <2>2. \A d \in Current : d.hop \in 1..hop
      BY DEF WalkInv, NothingAhead, Current
    <2> QED BY <2>1, <2>2
  <1>3. Current' = Current \/ \E d : Drew(d)
    BY CurrentSteps
  <1>4. \A i : Walk(i) = {d \in Current : d.repeat = i} /\ Walk(i)' = {d \in Current' : d.repeat = i}
    BY <1>1, WalkIs, WalkIsNext
  <1>5. \A d \in Current' : d \in Current \/ d.hop = hop
    BY <1>3 DEF Drew
  <1>6. \A d \in Current' : d.hop < e.hop => d \in Current
    BY <1>2, <1>5
  <1>7. Current \subseteq Current'
    BY <1>3 DEF Drew
  <1> QED BY <1>4, <1>6, <1>7 DEF Earlier

LEMMA AnswerNamesNat ==
    ASSUME WalkInv, Shapes, NatSeen, DrawAnswer, NEW ipid
    PROVE  NatTrue(NewEdge(AnswerId, ipid))
  <1> DEFINE e == NewEdge(AnswerId, ipid)
             first == Rewritten(result) /\ \A f \in Walk(repeat) : ~Rewritten(ResultOf(f))
             plain == /\ result.received[1].layer = "ICMP"
                      /\ result.received[1].quote.id = result.sentId
                      /\ DeviceOfTtl(result.ttl) # "middlebox"
                      /\ result.from \notin CgnatAddresses \cup {dst}
  <1>1. /\ pc = "row" /\ AtResult /\ repeat \in DOMAIN detected /\ repeat \in DOMAIN previous
        /\ hop \in Nat /\ repeat \in Nat /\ rows[hop][index] = result
    BY AtDrawing DEF DrawAnswer
  <1>2. e.hop = hop /\ e.repeat = repeat /\ e.to = AnswerId /\ ResultOf(e) = result
    BY <1>1 DEF NewEdge, ResultOf
  <1> HIDE DEF e
  <1>3. Earlier(e) = Walk(repeat)
    <2>1. ASSUME NEW f \in Walk(repeat) PROVE f.hop < hop
      <3>1. f \in edges /\ f.number = number /\ f.repeat = repeat
        BY DEF Walk
      <3>2. f.hop \in 1..hop /\ Done(f.hop, repeat)
        BY <1>1, <3>1 DEF WalkInv, NothingAhead
      <3> QED BY <1>1, <3>2 DEF Done
    <2> QED BY <1>2, <2>1 DEF Earlier
  <1>4. "nat" \in detected[repeat] <=> \E f \in Walk(repeat) : Rewritten(ResultOf(f))
    BY <1>1 DEF NatSeen
  <1>5. "nat" \in ToSet(AnswerId.tags) <=> (MarkHere = "nat" /\ result.from # dst)
    BY <1>1, AnswerIdType DEF WalkInv
  <1>6. MarkHere = "nat" => FoundHere.nat /\ "nat" \notin detected[repeat]
    BY DEF MarkHere, Mark
  <1>7. MarkHere = "nat" => first
    BY <1>4, <1>6, AnswerFinds
  <1>8. ASSUME first, plain PROVE MarkHere = "nat"
    <2>1. Analysed /\ FoundHere.nat /\ ~FoundHere.middlebox /\ ~FoundHere.pep
      BY <1>8, AnswerFinds
    <2>2. "nat" \notin detected[repeat]
      BY <1>4, <1>8
    <2>3. ~Boxed
      BY <1>8, <2>1 DEF Boxed
    <2> QED BY <1>8, <2>1, <2>2, <2>3 DEF MarkHere, Mark
  <1>9. ("nat" \in ToSet(AnswerId.tags) => first) /\ (first => (plain => "nat" \in ToSet(AnswerId.tags)))
    BY <1>5, <1>7, <1>8
  <1>10. NatTrue(e)
    BY <1>2, <1>3, <1>9 DEF NatTrue
  <1> QED BY <1>10 DEF e

LEMMA NatStep ==
    AsRoutersQuote /\ WalkInv /\ NatInv /\ [Next]_vars => NatInv'
  <1> SUFFICES ASSUME AsRoutersQuote, WalkInv, NatInv, [Next]_vars
               PROVE  NatInv'
    OBVIOUS
  <1>1. Shapes' /\ NatSeen'
    BY ShapesStep, NatSeenStep DEF NatInv
  <1>2. ASSUME NEW e, e \in Current', Answered(e)' PROVE NatTrue(e)'
    <2>1. UNCHANGED <<kind, number, rows>>
      BY <1>2, CurrentSteps
    <2>2. dst' = dst /\ \A f : ResultOf(f)' = ResultOf(f)
      BY <2>1, Steady
    <2>3. Earlier(e)' = Earlier(e)
      BY <1>2, EarlierStays
    <2>4. Answered(e) /\ (NatTrue(e)' <=> NatTrue(e))
      BY <1>2, <2>2, <2>3 DEF Answered, NatTrue
    <2>5. CASE e \in Current
      BY <2>4, <2>5, NatTrueIs DEF NatInv
    <2>6. CASE e \notin Current
      <3>1. DrawAnswer /\ \E ipid : e = NewEdge(AnswerId, ipid)
        BY <1>2, <2>4, <2>6, CurrentSteps DEF Drew, Answered
      <3> QED BY <2>4, <3>1, AnswerNamesNat DEF NatInv
    <2> QED BY <2>5, <2>6
  <1>3. NatIsTheFirstRewrite'
    BY <1>2, NatTrueNext
  <1> QED BY <1>1, <1>3 DEF NatInv

\* A repeat meets its NAT once: at the first hop drawn of it that quotes a header
\* rewritten on the way.  The TTL is put back over up to 254 hops with whatever
\* carries there were, so neither a decrement nor two rewritings look like another.
THEOREM NatIsMetOnce == AsRoutersQuote => (Spec => []NatIsTheFirstRewrite)
  <1> SUFFICES ASSUME AsRoutersQuote PROVE Spec => []NatIsTheFirstRewrite
    OBVIOUS
  <1>1. Init => NatInv
    BY DEF Init, NatInv, Shapes, NatSeen, NatIsTheFirstRewrite, Current
  <1>2. WalkInv /\ NatInv /\ [Next]_vars => NatInv'
    BY NatStep
  <1>3. NatInv => NatIsTheFirstRewrite
    BY DEF NatInv
  <1> QED BY <1>1, <1>2, <1>3, WalkHolds, PTL DEF Spec

-----------------------------------------------------------------------------
(* The replies of one responder *)

\* The prefixes that FlattenSeq goes through.
Flattening(flat, q, D) ==
    /\ flat \in [0..Len(q) -> Seq(D)]
    /\ flat[0] = <<>>
    /\ \A n \in 1..Len(q) : flat[n] = flat[n - 1] \o q[n]
    /\ FlattenSeq(q) = flat[Len(q)]

HasFlattening(q, D) == \E flat : Flattening(flat, q, D)

LEMMA FlattenSeqFlattens ==
    ASSUME NEW D, NEW q \in Seq(Seq(D))
    PROVE  HasFlattening(q, D)
  <1> DEFINE N == Len(q)
             V == Seq(D)
             Rec(f) == [i \in 1..N |-> IF i = 1 THEN q[i] ELSE f[i - 1] \o q[i]]
             flatten == CHOOSE f : f = Rec(f)
             step == [n \in 1..N |-> [p \in V |-> p \o q[n]]]
  <1>1. FlattenSeq(q) = IF N = 0 THEN q ELSE flatten[N]
    BY DEF FlattenSeq
  <1>2. N \in Nat /\ step \in [1..N -> [V -> V]] /\ <<>> \in V
    <2>1. N \in Nat /\ \A n \in 1..N : q[n] \in V
      OBVIOUS
    <2>2. \A n \in 1..N : \A p \in V : p \o q[n] \in V
      BY <2>1, ConcatProperties
    <2>3. <<>> \in V
      OBVIOUS
    <2> HIDE DEF V, N
    <2> QED BY <2>1, <2>2, <2>3
  <1>3. PICK f : /\ f \in [0..N -> V]
                 /\ f[0] = <<>> /\ \A i \in 1..N : f[i] = step[i][f[i - 1]]
    <2> HIDE DEF V, step, N
    <2>1. HasRun(N, V, <<>>, step)
      BY <1>2, RunExists
    <2> QED BY <2>1 DEF HasRun, IsRun
  <1>4. \A n \in 1..N : f[n] = f[n - 1] \o q[n]
    <2> SUFFICES ASSUME NEW n \in 1..N PROVE f[n] = f[n - 1] \o q[n]
      OBVIOUS
    <2>1. n - 1 \in 0..N
      <3> HIDE DEF N
      <3> QED BY <1>2
    <2>2. f[n - 1] \in V
      <3> HIDE DEF V, N
      <3> QED BY <2>1, <1>3
    <2> HIDE DEF V, N
    <2> QED BY <2>2, <1>3
  <1> DEFINE g == [n \in 1..N |-> f[n]]
  <1>5. g = Rec(g)
    <2>1. ASSUME NEW n \in 1..N PROVE g[n] = IF n = 1 THEN q[n] ELSE g[n - 1] \o q[n]
      <3>1. g[n] = f[n - 1] \o q[n]
        <4> HIDE DEF V, step, N
        <4> QED BY <1>4
      <3>2. CASE n = 1
        <4>1. f[0] = <<>> /\ n - 1 = 0
          BY <1>3, <3>2
        <4>2. q[n] \in V
          OBVIOUS
        <4>3. <<>> \o q[n] = q[n]
          BY <4>2, ConcatEmptySeq
        <4> HIDE DEF V, step, N, g
        <4> QED BY <3>1, <3>2, <4>1, <4>3
      <3>3. CASE n # 1
        <4>1. n - 1 \in 1..N
          BY <1>2, <3>3
        <4>2. g[n - 1] = f[n - 1]
          BY <4>1
        <4> HIDE DEF V, step, N, g
        <4> QED BY <3>1, <3>3, <4>2
      <3> QED BY <3>2, <3>3
    <2>2. g = [n \in 1..N |-> g[n]]
      OBVIOUS
    <2> HIDE DEF g, V, step, N
    <2> QED BY <2>1, <2>2
  <1>6. flatten = Rec(flatten)
    <2> HIDE DEF Rec, g
    <2> QED BY <1>5
  <1>7. \A n \in 1..N : flatten[n] = f[n]
    <2> DEFINE T == {n \in Nat : n + 1 <= N => flatten[n + 1] = f[n + 1]}
    <2>0. /\ \A n \in 1..N : flatten[n] = IF n = 1 THEN q[n] ELSE flatten[n - 1] \o q[n]
          /\ \A n \in 1..N : g[n] = IF n = 1 THEN q[n] ELSE g[n - 1] \o q[n]
          /\ \A n \in 1..N : g[n] = f[n]
      <3>1. \A n \in 1..N : g[n] = f[n]
        OBVIOUS
      <3> HIDE DEF flatten, g, N, V, step
      <3> QED BY <1>5, <1>6, <3>1
    <2> HIDE DEF flatten, Rec, V, step, N, g
    <2>1. 0 \in T
      <3>1. 1 <= N => 1 \in 1..N
        BY <1>2
      <3>2. 0 + 1 = 1
        OBVIOUS
      <3> QED BY <2>0, <3>1, <3>2
    <2>2. ASSUME NEW n \in T PROVE n + 1 \in T
      <3> SUFFICES ASSUME (n + 1) + 1 <= N PROVE flatten[(n + 1) + 1] = f[(n + 1) + 1]
        OBVIOUS
      <3>1. /\ (n + 1) + 1 \in 1..N /\ (n + 1) + 1 # 1 /\ ((n + 1) + 1) - 1 = n + 1
            /\ n + 1 \in 1..N /\ flatten[n + 1] = f[n + 1]
        BY <1>2
      <3> QED BY <2>0, <3>1
    <2>3. T = Nat
      <3> HIDE DEF T
      <3>1. T \in SUBSET Nat
        BY DEF T
      <3> QED BY <2>1, <2>2, <3>1, SetInduction
    <2> SUFFICES ASSUME NEW n \in 1..N PROVE flatten[n] = f[n]
      OBVIOUS
    <2>4. n - 1 \in Nat /\ (n - 1) + 1 = n /\ n <= N
      BY <1>2
    <2>5. n - 1 \in T
      BY <2>3, <2>4
    <2> QED BY <2>4, <2>5
  <1>8. FlattenSeq(q) = f[N]
    <2>1. CASE N = 0
      <3>1. q = <<>>
        BY <2>1
      <3> HIDE DEF V, step, flatten, N
      <3> QED BY <1>1, <1>3, <2>1, <3>1
    <2>2. CASE N # 0
      <3>1. N \in 1..N
        <4> HIDE DEF N
        <4> QED BY <1>2, <2>2
      <3> HIDE DEF V, step, flatten, N
      <3> QED BY <1>1, <1>7, <2>2, <3>1
    <2> QED BY <2>1, <2>2
  <1>9. Flattening(f, q, D)
    <2> HIDE DEF step, flatten, Rec, g
    <2> QED BY <1>3, <1>4, <1>8 DEF Flattening
  <1> QED BY <1>9 DEF HasFlattening

Rank(S, k) == Cardinality({m \in S : m <= k})

LEMMA RankIs ==
    ASSUME NEW S \in SUBSET Nat, IsFiniteSet(S), NEW k \in S
    PROVE  Rank(S, k) \in 1..Cardinality(S)
  <1> DEFINE low == {m \in S : m <= k}
  <1>1. k \in low /\ low \in SUBSET S
    OBVIOUS
  <1> HIDE DEF low
  <1>2. IsFiniteSet(low) /\ Cardinality(low) <= Cardinality(S)
    BY <1>1, FS_Subset
  <1>3. Cardinality(low) \in Nat /\ Cardinality(low) # 0 /\ Cardinality(S) \in Nat
    BY <1>1, <1>2, FS_CardinalityType, FS_EmptySet
  <1>4. Cardinality(low) \in 1..Cardinality(S)
    BY <1>2, <1>3
  <1> QED BY <1>4 DEF Rank, low

\* The next one of a finite set of naturals has the next rank; the greatest has
\* none.
LEMMA NextRank ==
    ASSUME NEW S \in SUBSET Nat, IsFiniteSet(S), S # {}
    PROVE  /\ Max(S) \in S /\ Rank(S, Max(S)) = Cardinality(S)
           /\ \A k \in S \ {Max(S)} :
                 /\ Min({j \in S : j > k}) \in S
                 /\ Rank(S, Min({j \in S : j > k})) = Rank(S, k) + 1
                 /\ Rank(S, k) \in 1..(Cardinality(S) - 1)
  <1>1. Max(S) \in S /\ \A y \in S : Max(S) >= y
    <2>1. \E x \in S : \A y \in S : y <= x
      BY GreatestNatural DEF HasGreatest
    <2>2. \E x \in S : \A y \in S : x >= y
      BY <2>1
    <2> QED BY <2>2 DEF Max
  <1>2. Rank(S, Max(S)) = Cardinality(S)
    <2>1. \A m \in S : m <= Max(S)
      BY <1>1
    <2>2. {m \in S : m <= Max(S)} = S
      BY <2>1
    <2> QED BY <2>2 DEF Rank
  <1>3. ASSUME NEW k \in S \ {Max(S)}
        PROVE  /\ Min({j \in S : j > k}) \in S
               /\ Rank(S, Min({j \in S : j > k})) = Rank(S, k) + 1
               /\ Rank(S, k) \in 1..(Cardinality(S) - 1)
    <2> DEFINE above == {j \in S : j > k}
               low == {m \in S : m <= k}
    <2>1. above \in SUBSET Nat /\ Max(S) \in above
      <3>1. Max(S) # k /\ Max(S) >= k /\ Max(S) \in Nat /\ k \in Nat
        BY <1>1
      <3>2. Max(S) > k
        BY <3>1
      <3> QED BY <1>1, <3>2
    <2>2. Min(above) \in above /\ \A j \in above : Min(above) <= j
      <3> HIDE DEF above
      <3> QED BY <2>1, LeastNatural DEF Min
    <2> DEFINE n == Min(above)
    <2>3. n \in S /\ n > k
      BY <2>2
    <2> HIDE DEF n
    <2>4. {m \in S : m <= n} = low \cup {n}
      <3>1. \A m \in S : m <= n <=> (m <= k \/ m = n)
        <4> TAKE m \in S
        <4>1. m > k => n <= m
          BY <2>2 DEF n
        <4>2. m \in Nat /\ k \in Nat /\ n \in Nat
          BY <2>3
        <4> QED BY <2>3, <4>1, <4>2
      <3> QED BY <2>3, <3>1
    <2>5. IsFiniteSet(low) /\ n \notin low
      <3>1. n \notin low
        BY <2>3
      <3>2. low \in SUBSET S
        OBVIOUS
      <3> HIDE DEF low
      <3> QED BY <3>1, <3>2, FS_Subset
    <2>6. Cardinality(low \cup {n}) = Cardinality(low) + 1
      <3> HIDE DEF low
      <3> QED BY <2>5, FS_AddElement
    <2>7. Rank(S, n) = Rank(S, k) + 1
      BY <2>4, <2>6 DEF Rank
    <2>8. Rank(S, k) \in 1..(Cardinality(S) - 1)
      <3>1. Rank(S, n) \in 1..Cardinality(S) /\ Rank(S, k) \in 1..Cardinality(S)
            /\ Cardinality(S) \in Nat
        BY <2>3, RankIs, FS_CardinalityType
      <3> QED BY <2>7, <3>1
    <2> QED BY <2>3, <2>7, <2>8 DEF n
  <1> QED BY <1>1, <1>2, <1>3

\* The results of a row that are one address's and have something received.
Mine(row, from) == {k \in DOMAIN row : row[k].from = from /\ row[k].received # <<>>}

\* The packets of a responder that answers every probe with one are in the
\* order of its answers.
LEMMA HopPacketsAre ==
    ASSUME NEW row \in Seq(Results), NEW from,
           \A k \in Mine(row, from) : Len(row[k].received) = 1
    PROVE  /\ Mine(row, from) \in SUBSET Nat /\ IsFiniteSet(Mine(row, from))
           /\ HopPackets(row, from) \in Seq(Packets)
           /\ Len(HopPackets(row, from)) = Cardinality(Mine(row, from))
           /\ \A k \in Mine(row, from) :
                 HopPackets(row, from)[Rank(Mine(row, from), k)] = row[k].received[1]
  <1> DEFINE S == Mine(row, from)
             part == [i \in DOMAIN row |-> IF row[i].from = from THEN row[i].received ELSE <<>>]
             L == Len(row)
  <1>1. L \in Nat /\ DOMAIN row = 1..L /\ \A i \in 1..L : row[i] \in Results
    OBVIOUS
  <1>2. S \in SUBSET (1..L) /\ S \in SUBSET Nat /\ IsFiniteSet(S)
    <2>1. S \in SUBSET (1..L)
      BY <1>1 DEF Mine
    <2>2. \A i \in 1..L : i \in Nat
      BY <1>1
    <2>3. IsFiniteSet(1..L)
      BY <1>1, FS_Interval
    <2> HIDE DEF S, L
    <2> QED BY <2>1, <2>2, <2>3, FS_Subset
  <1>3. part \in Seq(Seq(Packets)) /\ Len(part) = L
    <2>1. \A i \in 1..L : part[i] \in Seq(Packets)
      <3> TAKE i \in 1..L
      <3>1. row[i].received \in Seq(Packets)
        BY <1>1, ResultTypes
      <3>2. <<>> \in Seq(Packets)
        OBVIOUS
      <3>3. part[i] = IF row[i].from = from THEN row[i].received ELSE <<>>
        BY <1>1
      <3> QED BY <3>1, <3>2, <3>3
    <2>2. part \in [1..L -> Seq(Packets)]
      BY <1>1, <2>1
    <2> HIDE DEF part, L
    <2> QED BY <1>1, <2>2
  <1>4. \A i \in 1..L : /\ i \in S => part[i] = row[i].received /\ Len(part[i]) = 1
                        /\ i \notin S => part[i] = <<>>
    BY <1>1 DEF Mine
  <1>5. HopPackets(row, from) = FlattenSeq(part)
    BY DEF HopPackets
  <1> HIDE DEF part, S, L
  <1>6. PICK flat : Flattening(flat, part, Packets)
    BY <1>3, FlattenSeqFlattens DEF HasFlattening
  <1> DEFINE upTo(n) == {m \in S : m <= n}
             T == {n \in Nat : n <= L =>
                     /\ Len(flat[n]) = Cardinality(upTo(n))
                     /\ \A k \in upTo(n) : flat[n][Rank(S, k)] = row[k].received[1]}
  <1>7. 0 \in T
    <2>1. upTo(0) = {}
      <3>1. \A m \in S : ~(m <= 0)
        BY <1>1, <1>2
      <3> QED BY <3>1
    <2>2. flat[0] = <<>>
      BY <1>6 DEF Flattening
    <2> QED BY <2>1, <2>2, FS_EmptySet
  <1>8. ASSUME NEW n \in T PROVE n + 1 \in T
    <2> SUFFICES ASSUME n + 1 <= L
                 PROVE  /\ Len(flat[n + 1]) = Cardinality(upTo(n + 1))
                        /\ \A k \in upTo(n + 1) : flat[n + 1][Rank(S, k)] = row[k].received[1]
      OBVIOUS
    <2>1. /\ n \in Nat /\ n \in 0..L /\ n + 1 \in 0..L /\ n + 1 \in 1..L /\ (n + 1) - 1 = n
          /\ Len(flat[n]) = Cardinality(upTo(n))
          /\ \A k \in upTo(n) : flat[n][Rank(S, k)] = row[k].received[1]
      BY <1>1
    <2>2. flat[n] \in Seq(Packets) /\ flat[n + 1] = flat[n] \o part[n + 1]
          /\ part[n + 1] \in Seq(Packets)
      <3>1. flat[n + 1] = flat[(n + 1) - 1] \o part[n + 1]
        BY <1>3, <1>6, <2>1 DEF Flattening
      <3>2. flat[n] \in Seq(Packets)
        BY <1>3, <1>6, <2>1 DEF Flattening
      <3>3. part[n + 1] \in Seq(Packets)
        BY <1>1, <1>3, <2>1
      <3> QED BY <2>1, <3>1, <3>2, <3>3
    <2>3. /\ IsFiniteSet(upTo(n)) /\ Cardinality(upTo(n)) \in Nat
          /\ n + 1 \in S => Cardinality(upTo(n + 1)) = Cardinality(upTo(n)) + 1
          /\ n + 1 \notin S => upTo(n + 1) = upTo(n)
      BY <1>2, <2>1, CountStep
    <2>4. CASE n + 1 \notin S
      <3>1. part[n + 1] = <<>>
        BY <1>4, <2>1, <2>4
      <3>2. flat[n + 1] = flat[n]
        BY <2>2, <3>1, ConcatEmptySeq
      <3> HIDE DEF upTo
      <3> QED BY <2>1, <2>3, <2>4, <3>2
    <2>5. CASE n + 1 \in S
      <3>1. part[n + 1] = row[n + 1].received /\ Len(part[n + 1]) = 1
        BY <1>4, <2>1, <2>5
      <3>2. /\ Len(flat[n + 1]) = Len(flat[n]) + 1
            /\ \A i \in 1..(Len(flat[n]) + 1) :
                  flat[n + 1][i] = IF i <= Len(flat[n]) THEN flat[n][i]
                                   ELSE part[n + 1][i - Len(flat[n])]
        <4> DEFINE one == flat[n]
                   two == part[n + 1]
        <4>1. one \in Seq(Packets) /\ two \in Seq(Packets) /\ Len(two) = 1
              /\ flat[n + 1] = one \o two
          BY <2>2, <3>1
        <4> HIDE DEF one, two, upTo
        <4>2. /\ Len(one \o two) = Len(one) + Len(two)
              /\ \A i \in 1..Len(one) + Len(two) :
                    (one \o two)[i] = IF i <= Len(one) THEN one[i] ELSE two[i - Len(one)]
          BY <4>1, ConcatProperties
        <4> QED BY <4>1, <4>2 DEF one, two
      <3>3. Len(flat[n]) \in Nat
        <4> QED BY ONLY <2>2
      <3>4. ASSUME NEW k \in upTo(n)
            PROVE  flat[n + 1][Rank(S, k)] = row[k].received[1]
        <4>1. Rank(S, k) \in 1..Len(flat[n])
          <5>1. upTo(k) \subseteq upTo(n) /\ k \in upTo(k)
            <6>1. k \in S /\ k \in Nat /\ k <= n
              BY <1>2
            <6>2. \A m \in S : m <= k => m <= n
              <7> TAKE m \in S
              <7>1. m \in Nat /\ n \in Nat
                BY <1>2, <2>1
              <7> QED BY ONLY <6>1, <7>1
            <6>3. k \in upTo(k)
              BY <6>1
            <6>4. upTo(k) \subseteq upTo(n)
              BY ONLY <6>2
            <6> QED BY <6>3, <6>4
          <5> DEFINE mid == upTo(n)
                     low == upTo(k)
          <5>2. low \in SUBSET mid /\ k \in low /\ IsFiniteSet(mid) /\ Len(flat[n]) = Cardinality(mid)
            BY <5>1, <2>1, <2>3
          <5>3. Rank(S, k) = Cardinality(low)
            BY DEF Rank
          <5> HIDE DEF low, mid
          <5>4. IsFiniteSet(low) /\ Cardinality(low) <= Cardinality(mid)
            BY <5>2, FS_Subset
          <5>5. Cardinality(low) \in Nat /\ Cardinality(low) # 0
            BY <5>2, <5>4, FS_CardinalityType, FS_EmptySet
          <5> QED BY <3>3, <5>2, <5>3, <5>4, <5>5
        <4>2. Rank(S, k) \in 1..(Len(flat[n]) + 1) /\ Rank(S, k) <= Len(flat[n])
          BY ONLY <3>3, <4>1
        <4>3. flat[n + 1][Rank(S, k)] = flat[n][Rank(S, k)]
          BY <3>2, <4>2
        <4> QED BY <2>1, <4>3
      <3>5. flat[n + 1][Rank(S, n + 1)] = row[n + 1].received[1]
        <4>1. Rank(S, n + 1) = Len(flat[n]) + 1
          BY <2>1, <2>3, <2>5 DEF Rank
        <4>2. Len(flat[n]) + 1 \in 1..(Len(flat[n]) + 1) /\ ~(Len(flat[n]) + 1 <= Len(flat[n]))
              /\ (Len(flat[n]) + 1) - Len(flat[n]) = 1
          BY ONLY <3>3
        <4>3. flat[n + 1][Len(flat[n]) + 1] = part[n + 1][1]
          BY <3>2, <4>2
        <4> QED BY <3>1, <4>1, <4>3
      <3>6. \A k \in upTo(n + 1) : k \in upTo(n) \/ k = n + 1
        BY <1>2, <2>1
      <3>7. Len(flat[n + 1]) = Cardinality(upTo(n + 1))
        BY <2>1, <2>3, <2>5, <3>2
      <3> HIDE DEF upTo
      <3> QED BY <3>4, <3>5, <3>6, <3>7
    <2> QED BY <2>4, <2>5
  <1>9. L \in T
    <2>1. T \in SUBSET Nat
      BY DEF T
    <2> HIDE DEF T
    <2>2. T = Nat
      BY <1>7, <1>8, <2>1, SetInduction
    <2> QED BY <1>1, <2>2
  <1>10. upTo(L) = S /\ L <= L
    <2>1. \A m \in S : m <= L
      BY <1>1, <1>2
    <2> QED BY <1>1, <2>1
  <1>11. HopPackets(row, from) = flat[L] /\ flat[L] \in Seq(Packets)
    <2>1. L \in 0..L
      BY <1>1
    <2> QED BY <1>3, <1>5, <1>6, <2>1 DEF Flattening
  <1>12. /\ Len(flat[L]) = Cardinality(S)
         /\ \A k \in S : flat[L][Rank(S, k)] = row[k].received[1]
    BY <1>9, <1>10
  <1> QED BY <1>2, <1>11, <1>12 DEF S

\* A step of a 16-bit counter, with its wrap.
Ahead(a, b) ==
    \E ahead \in {b, b + IpIdModulus} : ahead > a /\ ahead <= a + SequentialMaxDelta
Delta(a, b) == (b - a) % IpIdModulus

LEMMA DeltaIs ==
    ASSUME NEW a \in Nat, NEW b \in Nat, a <= WordMax, b <= WordMax
    PROVE  /\ Delta(a, b) \in 1..SequentialMaxDelta <=> Ahead(a, b)
           /\ a = b => Delta(a, b) \notin 1..SequentialMaxDelta
  <1>2. SequentialMaxDelta \in Nat
    BY DEF SequentialMaxDelta
  <1>3. Ahead(a, b) <=> \/ b > a /\ b <= a + SequentialMaxDelta
                        \/ b + IpIdModulus > a /\ b + IpIdModulus <= a + SequentialMaxDelta
    BY DEF Ahead
  <1>4. CASE b >= a
    <2>1. Delta(a, b) = b - a
      BY <1>4 DEF Delta, WordMax, IpIdModulus
    <2>2. ~(b + IpIdModulus <= a + SequentialMaxDelta)
      BY <1>4 DEF SequentialMaxDelta, IpIdModulus
    <2>3. b - a \in 1..SequentialMaxDelta <=> (b > a /\ b <= a + SequentialMaxDelta)
      BY <1>2, <1>4
    <2>4. a = b => ~(b > a)
      OBVIOUS
    <2> QED BY <1>3, <2>1, <2>2, <2>3, <2>4
  <1>5. CASE b < a
    <2>1. Delta(a, b) = (b - a) + IpIdModulus
      BY <1>5 DEF Delta, WordMax, IpIdModulus
    <2>2. b + IpIdModulus > a /\ IpIdModulus \in Nat
      BY <1>5 DEF WordMax, IpIdModulus
    <2>3. (b - a) + IpIdModulus \in 1..SequentialMaxDelta
            <=> b + IpIdModulus <= a + SequentialMaxDelta
      BY <1>2, <2>2
    <2>4. ~(b > a) /\ a # b
      BY <1>5
    <2> QED BY <1>3, <2>1, <2>2, <2>3, <2>4
  <1> QED BY <1>4, <1>5

LEMMA SequentialIs ==
    ASSUME NEW p \in Seq(Packets)
    PROVE  IpIdPattern(p) = "sequential"
             <=> /\ Len(p) > 1
                 /\ \A i \in 1..(Len(p) - 1) : Ahead(p[i].id, p[i + 1].id)
  <1>1. /\ Len(p) \in Nat
        /\ \A i \in 1..Len(p) : p[i].id \in Nat /\ p[i].id <= WordMax
    <2>1. \A q \in Packets : q.id \in 0..WordMax
      BY DEF Packets
    <2>2. \A n \in 0..WordMax : n \in Nat /\ n <= WordMax
      BY WordMaxIsNatural
    <2> QED BY <2>1, <2>2
  <1> DEFINE constant == \A q \in ToSet(p) : q.id = p[1].id
             steady == \A i \in 1..(Len(p) - 1) :
                          Delta(p[i].id, p[i + 1].id) \in 1..SequentialMaxDelta
  <1>2. IpIdPattern(p) = IF Len(p) < 2 THEN "unknown" ELSE IF constant THEN "constant"
                         ELSE IF steady THEN "sequential" ELSE "random"
    BY DEF IpIdPattern, Delta
  <1>3. \A i \in 1..(Len(p) - 1) : i \in 1..Len(p) /\ i + 1 \in 1..Len(p)
    BY <1>1
  <1>4. steady <=> \A i \in 1..(Len(p) - 1) : Ahead(p[i].id, p[i + 1].id)
    BY <1>1, <1>3, DeltaIs
  <1>5. ASSUME Len(p) > 1, steady PROVE ~constant
    <2>1. 1 \in 1..(Len(p) - 1) /\ 1 + 1 = 2 /\ 1 \in 1..Len(p) /\ 2 \in 1..Len(p)
      BY <1>1, <1>5
    <2>2. Delta(p[1].id, p[2].id) \in 1..SequentialMaxDelta
      BY <1>5, <2>1
    <2>3. p[1].id # p[2].id
      BY <1>1, <2>1, <2>2, DeltaIs
    <2>4. p[2] \in ToSet(p)
      BY <2>1 DEF ToSet
    <2> QED BY <2>3, <2>4
  <1>6. Len(p) < 2 <=> ~(Len(p) > 1)
    BY <1>1
  <1> HIDE DEF constant, steady
  <1> QED BY <1>2, <1>4, <1>5, <1>6

\* What IpIdIsTheResponders says of the replies of an address to a hop.
OffOneCounter(row, from) ==
    LET mine == Mine(row, from)
        id(k) == row[k].received[1].id
        next(k) == Min({j \in mine : j > k})
        last == Max(mine)
    IN  /\ Cardinality(mine) > 1
        /\ \A k \in mine \ {last} :
              \E ahead \in {id(next(k)), id(next(k)) + IpIdModulus} :
                  ahead > id(k) /\ ahead <= id(k) + SequentialMaxDelta

LEMMA PatternTells ==
    ASSUME NEW row \in Seq(Results), NEW from,
           \A k \in Mine(row, from) : Len(row[k].received) = 1
    PROVE  IpIdPattern(HopPackets(row, from)) = "sequential" <=> OffOneCounter(row, from)
  <1> DEFINE S == Mine(row, from)
             p == HopPackets(row, from)
             N == Cardinality(S)
             id(k) == row[k].received[1].id
             next(k) == Min({j \in S : j > k})
             last == Max(S)
  <1>1. /\ S \in SUBSET Nat /\ IsFiniteSet(S) /\ p \in Seq(Packets) /\ Len(p) = N
        /\ \A k \in S : p[Rank(S, k)] = row[k].received[1]
    BY HopPacketsAre
  <1>2. OffOneCounter(row, from) <=> (N > 1 /\ \A k \in S \ {last} : Ahead(id(k), id(next(k))))
    BY DEF OffOneCounter, Ahead
  <1>3. p \in Seq(Packets) =>
          (IpIdPattern(p) = "sequential"
             <=> (Len(p) > 1 /\ \A i \in 1..(Len(p) - 1) : Ahead(p[i].id, p[i + 1].id)))
    BY SequentialIs
  <1> HIDE DEF S, p
  <1>4. N \in Nat
    BY <1>1, FS_CardinalityType
  <1>5. ASSUME N > 1
        PROVE  (\A i \in 1..(N - 1) : Ahead(p[i].id, p[i + 1].id))
               <=> (\A k \in S \ {last} : Ahead(id(k), id(next(k))))
    <2>1. S # {}
      <3>1. S = {} => N = 0
        BY FS_EmptySet
      <3> QED BY <1>5, <3>1
    <2>2. ASSUME NEW k \in S \ {last}
          PROVE  /\ Rank(S, k) \in 1..(N - 1)
                 /\ id(k) = p[Rank(S, k)].id /\ id(next(k)) = p[Rank(S, k) + 1].id
      <3>1. next(k) \in S /\ Rank(S, next(k)) = Rank(S, k) + 1 /\ Rank(S, k) \in 1..(N - 1)
        BY <1>1, <2>1, NextRank
      <3> QED BY <1>1, <3>1
    <2>3. ASSUME NEW i \in 1..(N - 1)
          PROVE  \E k \in S \ {last} : Rank(S, k) = i
      <3>1. i \in 1..N /\ i # N
        BY <1>4
      <3>2. PICK k \in S : Rank(S, k) = i
        BY <1>1, <3>1, RankOnto DEF Rank
      <3>3. Rank(S, last) = N
        BY <1>1, <2>1, NextRank
      <3> QED BY <3>1, <3>2, <3>3
    <2>4. ASSUME \A i \in 1..(N - 1) : Ahead(p[i].id, p[i + 1].id), NEW k \in S \ {last}
          PROVE  Ahead(id(k), id(next(k)))
      BY <2>2, <2>4
    <2>5. ASSUME \A k \in S \ {last} : Ahead(id(k), id(next(k))), NEW i \in 1..(N - 1)
          PROVE  Ahead(p[i].id, p[i + 1].id)
      <3>1. PICK k \in S \ {last} : Rank(S, k) = i
        BY <2>3
      <3>2. Ahead(id(k), id(next(k)))
        BY <2>5
      <3> QED BY <2>2, <3>1, <3>2
    <2> HIDE DEF id, next, last
    <2> QED BY <2>4, <2>5
  <1>6. p \in Seq(Packets) /\ Len(p) = N
    BY <1>1
  <1>7. IpIdPattern(p) = "sequential"
          <=> (N > 1 /\ \A i \in 1..(N - 1) : Ahead(p[i].id, p[i + 1].id))
    BY <1>3, <1>6
  <1> HIDE DEF id, next, last, N
  <1>8. IpIdPattern(p) = "sequential" <=> OffOneCounter(row, from)
    BY <1>2, <1>5, <1>7
  <1> QED BY <1>8 DEF p

\* What IpIdIsTheResponders says of an edge.
IpIdTrue(e) ==
    (/\ ResultOf(e).received # <<>>
     /\ \A k \in Mine(rows[e.hop], e.to.addr) : Len(rows[e.hop][k].received) = 1)
    => (e.ipid = "sequential" <=> OffOneCounter(rows[e.hop], e.to.addr))

LEMMA IpIdTrueIs ==
    IpIdIsTheResponders <=> \A e \in Current : Answered(e) => IpIdTrue(e)
  BY DEF IpIdIsTheResponders, IpIdTrue, OffOneCounter, Mine

LEMMA IpIdTrueNext ==
    (IpIdIsTheResponders <=> \A e \in Current : Answered(e) => IpIdTrue(e))'
  BY IpIdTrueIs, PTL

LEMMA AnswerTellsIpId ==
    ASSUME WalkInv, DrawAnswer
    PROVE  IpIdTrue(NewEdge(AnswerId, IF Analysed
                                      THEN IpIdPattern(HopPackets(rows[hop], result.from))
                                      ELSE "unknown"))
  <1> DEFINE ipid == IF Analysed THEN IpIdPattern(HopPackets(rows[hop], result.from))
                     ELSE "unknown"
             e == NewEdge(AnswerId, ipid)
  <1>1. AtResult /\ rows[hop] \in Seq(Results) /\ rows[hop][index] = result
    BY AtDrawing DEF DrawAnswer
  <1>2. AnswerId.addr = result.from
    BY <1>1, AnswerIdType DEF WalkInv
  <1>3. e.hop = hop /\ e.to = AnswerId /\ e.ipid = ipid /\ ResultOf(e) = result
    BY <1>1 DEF NewEdge, ResultOf
  <1> HIDE DEF e
  <1>4. ASSUME result.received # <<>>,
               \A k \in Mine(rows[hop], result.from) : Len(rows[hop][k].received) = 1
        PROVE  ipid = "sequential" <=> OffOneCounter(rows[hop], result.from)
    <2>1. Analysed
      BY <1>4 DEF Analysed
    <2> QED BY <1>1, <1>4, <2>1, PatternTells
  <1> HIDE DEF ipid
  <1>5. IpIdTrue(e)
    BY <1>2, <1>3, <1>4 DEF IpIdTrue
  <1> QED BY <1>5 DEF e, ipid

LEMMA IpIdStep == WalkInv /\ IpIdIsTheResponders /\ [Next]_vars => IpIdIsTheResponders'
  <1> SUFFICES ASSUME WalkInv, IpIdIsTheResponders, [Next]_vars PROVE IpIdIsTheResponders'
    OBVIOUS
  <1>1. ASSUME NEW e, e \in Current', Answered(e)' PROVE IpIdTrue(e)'
    <2>1. UNCHANGED <<kind, number, rows>>
      BY <1>1, CurrentSteps
    <2>2. ResultOf(e)' = ResultOf(e)
      BY <2>1, Steady
    <2>3. Answered(e) /\ (IpIdTrue(e)' <=> IpIdTrue(e))
      BY <1>1, <2>1, <2>2 DEF Answered, IpIdTrue
    <2>4. CASE e \in Current
      BY <2>3, <2>4, IpIdTrueIs
    <2>5. CASE e \notin Current
      <3>1. DrawAnswer /\ e = NewEdge(AnswerId, IF Analysed
                                THEN IpIdPattern(HopPackets(rows[hop], result.from))
                                ELSE "unknown")
        <4>1. ~IsStar(ResultOf(e)) /\ Current' # {} /\ Current' # Current
          BY <1>1, <2>3, <2>5 DEF Answered
        <4>2. ASSUME NEW d, Drew(d) PROVE e = d
          BY <1>1, <2>5, <4>2 DEF Drew
        <4> QED BY <4>1, <4>2, CurrentSteps
      <3> QED BY <2>3, <3>1, AnswerTellsIpId
    <2> QED BY <2>4, <2>5
  <1>2. (IpIdIsTheResponders <=> \A e \in Current : Answered(e) => IpIdTrue(e))'
    BY IpIdTrueNext
  <1> QED BY <1>1, <1>2

\* A responder is called sequential exactly when its own replies to the hop
\* came off one counter, wrap or no wrap, whoever else answered in between and
\* however many replies there are.
THEOREM IpIdTellsOneCounter == Spec => []IpIdIsTheResponders
  <1>1. Init => IpIdIsTheResponders
    BY DEF Init, IpIdIsTheResponders, Current
  <1> QED BY <1>1, WalkHolds, IpIdStep, PTL DEF Spec

-----------------------------------------------------------------------------
(* The tier *)

LEMMA SuccessorsFacts ==
    ASSUME TypeInv
    PROVE  /\ \A ids : Successors(ids) \subseteq DOMAIN nodes
           /\ \A ids, more : ids \subseteq more => Successors(ids) \subseteq Successors(more)
  BY DEF Successors, TypeInv

\* The sets that AllowlistedTier goes through.
Spreads(within, last) ==
    /\ within \in [0..last -> SUBSET DOMAIN nodes]
    /\ within[0] = Successors(Boundaries)
    /\ \A k \in 1..last : within[k] = within[k - 1] \cup Successors(within[k - 1])

TierSpreads ==
    \E within : /\ Spreads(within, Cardinality(DOMAIN nodes))
                /\ AllowlistedTier = within[Cardinality(DOMAIN nodes)] \ Boundaries

LEMMA TierIsASpread ==
    ASSUME TypeInv
    PROVE  TierSpreads
  <1> DEFINE N == Cardinality(DOMAIN nodes)
             V == SUBSET DOMAIN nodes
             start == Successors(Boundaries)
             Rec(f) == [k \in 0..N |-> IF k = 0 THEN start ELSE f[k - 1] \cup Successors(f[k - 1])]
             within == CHOOSE f : f = Rec(f)
             step == [n \in 1..N |-> [s \in V |-> s \cup Successors(s)]]
  <1>1. AllowlistedTier = within[N] \ Boundaries
    BY DEF AllowlistedTier
  <1>2. step \in [1..N -> [V -> V]] /\ start \in V /\ N \in Nat
    <2>1. N \in Nat
      BY FS_CardinalityType DEF TypeInv
    <2>2. \A s \in V : s \cup Successors(s) \in V
      BY SuccessorsFacts
    <2>3. start \in V
      BY SuccessorsFacts
    <2> HIDE DEF V, N, start
    <2> QED BY <2>1, <2>2, <2>3
  <1>3. PICK f : /\ f \in [0..N -> V]
                 /\ f[0] = start /\ \A i \in 1..N : f[i] = step[i][f[i - 1]]
    <2> HIDE DEF V, step, N, start
    <2>1. HasRun(N, V, start, step)
      BY <1>2, RunExists
    <2> QED BY <2>1 DEF HasRun, IsRun
  <1>4. \A n \in 1..N : f[n] = f[n - 1] \cup Successors(f[n - 1])
    <2> SUFFICES ASSUME NEW n \in 1..N PROVE f[n] = f[n - 1] \cup Successors(f[n - 1])
      OBVIOUS
    <2>1. n - 1 \in 0..N
      <3> HIDE DEF N
      <3> QED BY <1>2
    <2>2. f[n - 1] \in V
      <3> HIDE DEF V, N
      <3> QED BY <2>1, <1>3
    <2> HIDE DEF V, N
    <2> QED BY <2>2, <1>3
  <1>5. f = Rec(f)
    <2> HIDE DEF V, step, N, start
    <2>1. f = [n \in 0..N |-> f[n]]
      BY <1>3
    <2>2. \A n \in 0..N : n # 0 => n \in 1..N
      BY <1>2
    <2> QED BY <1>3, <1>4, <2>1, <2>2
  <1>6. within = Rec(within)
    <2> HIDE DEF Rec
    <2> QED BY <1>5
  <1>7. \A n \in 0..N : within[n] = f[n]
    <2> DEFINE T == {n \in Nat : n <= N => within[n] = f[n]}
    <2>0. \A n \in 0..N : within[n] =
              IF n = 0 THEN start ELSE within[n - 1] \cup Successors(within[n - 1])
      <3> HIDE DEF within
      <3> QED BY <1>6
    <2> HIDE DEF within, Rec, V, step, N, start
    <2>1. 0 \in T
      <3>1. 0 \in 0..N /\ f[0] = start
        BY <1>2, <1>3
      <3>2. within[0] = start
        BY <2>0, <3>1
      <3> QED BY <3>1, <3>2
    <2>2. ASSUME NEW n \in T PROVE n + 1 \in T
      <3> SUFFICES ASSUME n + 1 <= N PROVE within[n + 1] = f[n + 1]
        OBVIOUS
      <3>1. n + 1 \in 1..N /\ n + 1 \in 0..N /\ n + 1 # 0
            /\ (n + 1) - 1 = n /\ within[n] = f[n]
        BY <1>2
      <3>2. within[n + 1] = within[n] \cup Successors(within[n])
        BY <2>0, <3>1
      <3>3. f[n + 1] = f[n] \cup Successors(f[n])
        BY <1>4, <3>1
      <3> QED BY <3>1, <3>2, <3>3
    <2>3. T = Nat
      <3> HIDE DEF T
      <3>1. T \in SUBSET Nat
        BY DEF T
      <3> QED BY <2>1, <2>2, <3>1, SetInduction
    <2> SUFFICES ASSUME NEW n \in 0..N PROVE within[n] = f[n]
      OBVIOUS
    <2>4. n \in Nat /\ n <= N
      BY <1>2
    <2>5. n \in T
      BY <2>3, <2>4
    <2> QED BY <2>4, <2>5
  <1>8. AllowlistedTier = f[N] \ Boundaries
    <2>1. N \in 0..N
      <3> HIDE DEF N
      <3> QED BY <1>2
    <2> HIDE DEF within, N
    <2> QED BY <1>1, <1>7, <2>1
  <1>9. Spreads(f, N)
    <2> HIDE DEF step, within, Rec, N
    <2> QED BY <1>3, <1>4 DEF Spreads
  <1> QED BY <1>8, <1>9 DEF TierSpreads

\* With a step for each node the spread comes to an end: as long as it has not,
\* every step takes in one node more.
LEMMA SpreadIsDone ==
    ASSUME TypeInv, NEW within, NEW last \in Nat, last = Cardinality(DOMAIN nodes),
           Spreads(within, last)
    PROVE  /\ Successors(Boundaries) \subseteq within[last]
           /\ Successors(within[last]) \subseteq within[last]
  <1> DEFINE closed(s) == Successors(s) \subseteq s
             spread(k) == /\ Successors(Boundaries) \subseteq within[k]
                          /\ closed(within[k]) \/ Cardinality(within[k]) >= k
             T == {k \in Nat : k <= last => spread(k)}
  <1>1. IsFiniteSet(DOMAIN nodes)
    BY DEF TypeInv
  <1>2. ASSUME NEW k \in Nat, k <= last
        PROVE  /\ within[k] \subseteq DOMAIN nodes
               /\ IsFiniteSet(within[k]) /\ Cardinality(within[k]) \in Nat
    <2>1. k \in 0..last
      BY <1>2
    <2>2. within[k] \subseteq DOMAIN nodes
      BY <2>1 DEF Spreads
    <2> QED BY <1>1, <2>2, FS_Subset, FS_CardinalityType
  <1>3. 0 \in T
    <2>1. 0 <= last
      OBVIOUS
    <2>2. within[0] = Successors(Boundaries)
      BY DEF Spreads
    <2>3. Cardinality(within[0]) >= 0
      BY <1>2, <2>1
    <2>4. spread(0)
      BY <2>2, <2>3
    <2> HIDE DEF spread
    <2> QED BY <2>4
  <1>4. ASSUME NEW k \in T PROVE k + 1 \in T
    <2> HIDE DEF spread
    <2> SUFFICES ASSUME k + 1 <= last PROVE spread(k + 1)
      OBVIOUS
    <2>1. k \in Nat /\ k <= last /\ k + 1 \in 1..last /\ (k + 1) - 1 = k /\ k + 1 \in Nat
      OBVIOUS
    <2>9. spread(k)
      BY <2>1
    <2> HIDE DEF T
    <2> USE DEF spread
    <2>2. within[k + 1] = within[k] \cup Successors(within[k])
      BY <2>1 DEF Spreads
    <2>3. /\ Successors(Boundaries) \subseteq within[k]
          /\ closed(within[k]) \/ Cardinality(within[k]) >= k
      BY <2>9
    <2>4. Successors(Boundaries) \subseteq within[k + 1]
      BY <2>2, <2>3
    <2>5. closed(within[k + 1]) \/ Cardinality(within[k + 1]) >= k + 1
      <3>1. CASE closed(within[k])
        <4>1. within[k + 1] = within[k]
          BY <2>2, <3>1
        <4> QED BY <3>1, <4>1
      <3>2. CASE ~closed(within[k])
        <4>1. within[k] \subseteq within[k + 1] /\ within[k] # within[k + 1]
          BY <2>2, <3>2
        <4>2. /\ IsFiniteSet(within[k]) /\ Cardinality(within[k]) \in Nat
              /\ IsFiniteSet(within[k + 1]) /\ Cardinality(within[k + 1]) \in Nat
          BY <1>2, <2>1
        <4>3. Cardinality(within[k]) < Cardinality(within[k + 1])
          <5>1. /\ Cardinality(within[k]) <= Cardinality(within[k + 1])
                /\ Cardinality(within[k]) = Cardinality(within[k + 1]) => within[k] = within[k + 1]
            BY <4>1, <4>2, FS_Subset
          <5> QED BY <4>1, <4>2, <5>1
        <4>4. Cardinality(within[k]) >= k
          BY <2>3, <3>2
        <4> HIDE DEF closed
        <4>5. Cardinality(within[k + 1]) >= k + 1
          BY <2>1, <4>2, <4>3, <4>4
        <4> QED BY <4>5
      <3> QED BY <3>1, <3>2
    <2> QED BY <2>4, <2>5
  <1>5. last \in T
    <2>1. T \in SUBSET Nat
      BY DEF T
    <2> HIDE DEF T
    <2>2. T = Nat
      BY <1>3, <1>4, <2>1, SetInduction
    <2> QED BY <2>2
  <1>6. /\ Successors(Boundaries) \subseteq within[last]
        /\ closed(within[last]) \/ Cardinality(within[last]) >= last
    <2>1. spread(last)
      <3> HIDE DEF spread
      <3> QED BY <1>5
    <2> QED BY <2>1
  <1>7. CASE Cardinality(within[last]) >= last
    <2>1. within[last] \subseteq DOMAIN nodes /\ Cardinality(within[last]) \in Nat
      BY <1>2
    <2>2. /\ Cardinality(within[last]) <= Cardinality(DOMAIN nodes)
          /\ Cardinality(within[last]) = Cardinality(DOMAIN nodes) => within[last] = DOMAIN nodes
      BY <1>1, <2>1, FS_Subset
    <2>3. within[last] = DOMAIN nodes
      BY <1>7, <2>1, <2>2
    <2> QED BY <1>6, <2>3, SuccessorsFacts
  <1> QED BY <1>6, <1>7

\* Every step of the spread stays in whatever holds what the boundaries lead to
\* and what it leads to itself.
LEMMA SpreadIsLeast ==
    ASSUME NEW within, NEW last \in Nat, Spreads(within, last), TypeInv,
           NEW S, Successors(Boundaries) \subseteq S, Successors(S) \subseteq S
    PROVE  within[last] \subseteq S
  <1> DEFINE T == {k \in Nat : k <= last => within[k] \subseteq S}
  <1>1. 0 \in T
    BY DEF Spreads
  <1>2. ASSUME NEW k \in T PROVE k + 1 \in T
    <2> SUFFICES ASSUME k + 1 <= last PROVE within[k + 1] \subseteq S
      OBVIOUS
    <2>1. k + 1 \in 1..last /\ (k + 1) - 1 = k /\ within[k] \subseteq S
      OBVIOUS
    <2>2. within[k + 1] = within[k] \cup Successors(within[k])
      BY <2>1 DEF Spreads
    <2>3. Successors(within[k]) \subseteq Successors(S)
      BY <2>1, SuccessorsFacts
    <2> QED BY <2>1, <2>2, <2>3
  <1>3. T = Nat
    <2>1. T \in SUBSET Nat
      BY DEF T
    <2> HIDE DEF T
    <2> QED BY <1>1, <1>2, <2>1, SetInduction
  <1>4. last \in T
    BY <1>3
  <1> QED BY <1>4

\* What lies behind the boundaries is closed, and no part of it that holds what
\* they lead to is closed but all of it.
LEMMA TierIsClosed ==
    ASSUME TypeInv
    PROVE  /\ Successors(AllowlistedTier \cup Boundaries) \subseteq AllowlistedTier \cup Boundaries
           /\ AllowlistedTier \cap Boundaries = {}
           /\ \A part \in SUBSET AllowlistedTier :
                (Successors(Boundaries) \cup Successors(part)) \cap AllowlistedTier \subseteq part
                => part = AllowlistedTier
  <1> DEFINE N == Cardinality(DOMAIN nodes)
  <1>1. PICK within : Spreads(within, N) /\ AllowlistedTier = within[N] \ Boundaries
    BY TierIsASpread DEF TierSpreads
  <1>2. N \in Nat
    BY FS_CardinalityType DEF TypeInv
  <1>3. /\ Successors(Boundaries) \subseteq within[N]
        /\ Successors(within[N]) \subseteq within[N]
    BY <1>1, <1>2, SpreadIsDone
  <1>4. AllowlistedTier \cup Boundaries = within[N] \cup Boundaries
    BY <1>1
  <1>5. \A s : Successors(s \cup Boundaries) = Successors(s) \cup Successors(Boundaries)
    BY DEF Successors
  <1>6. Successors(AllowlistedTier \cup Boundaries) \subseteq AllowlistedTier \cup Boundaries
    BY <1>3, <1>4, <1>5
  <1>7. ASSUME NEW part \in SUBSET AllowlistedTier,
               (Successors(Boundaries) \cup Successors(part)) \cap AllowlistedTier \subseteq part
        PROVE  part = AllowlistedTier
    <2> DEFINE S == part \cup Boundaries
    <2>1. Successors(S) = Successors(part) \cup Successors(Boundaries)
      BY <1>5
    <2>2. Successors(S) \subseteq AllowlistedTier \cup Boundaries
      <3>1. S \subseteq AllowlistedTier \cup Boundaries
        OBVIOUS
      <3> HIDE DEF S
      <3>2. Successors(S) \subseteq Successors(AllowlistedTier \cup Boundaries)
        BY <3>1, SuccessorsFacts
      <3> QED BY <1>6, <3>2
    <2>3. Successors(S) \subseteq S /\ Successors(Boundaries) \subseteq S
      BY <1>7, <2>1, <2>2
    <2> HIDE DEF S
    <2>4. within[N] \subseteq S
      BY <1>1, <1>2, <2>3, SpreadIsLeast
    <2> QED BY <1>1, <2>4 DEF S
  <1> QED BY <1>1, <1>6, <1>7

\* Over all measurements: a repeat draws at most one edge a hop, and goes on from
\* where its last edge led, were it hops before.
OneEdgeAHop ==
    \A e, f \in edges :
        e.number = f.number /\ e.repeat = f.repeat /\ e.hop = f.hop => e = f
Linked ==
    \A e, f \in edges :
        e.number = f.number /\ e.repeat = f.repeat /\ e.hop < f.hop =>
            \E b \in edges : /\ b.number = f.number /\ b.repeat = f.repeat
                             /\ e.hop <= b.hop /\ b.hop < f.hop /\ b.to = f.from
LastIsKept ==
    pc = "row" => \A i \in DOMAIN previous : \A e \in Walk(i) :
                    \E b \in Walk(i) : e.hop <= b.hop /\ b.to = previous[i]

ChainInv == OneEdgeAHop /\ Linked /\ LastIsKept
TierInv == ChainInv /\ TierIsWhatFollows

\* A walk that has come into a set of nodes that is closed stays in it.
LEMMA WalksStay ==
    ASSUME TypeInv, OneEdgeAHop, Linked, NEW S, Successors(S) \subseteq S,
           NEW e \in edges, NEW f \in edges,
           e.number = f.number, e.repeat = f.repeat, e.hop < f.hop, e.to \in S
    PROVE  f.to \in S
  <1> DEFINE T == {n \in Nat : \A g \in edges :
                      g.number = e.number /\ g.repeat = e.repeat /\ e.hop <= g.hop
                      /\ g.hop <= e.hop + n => g.to \in S}
  <1>1. \A g \in edges : g.hop \in Nat
    BY DEF TypeInv, Edges
  <1>2. 0 \in T
    <2>1. \A g \in edges : e.hop <= g.hop /\ g.hop <= e.hop + 0 => g.hop = e.hop
      BY <1>1
    <2> QED BY <2>1 DEF OneEdgeAHop
  <1>3. ASSUME NEW n \in T PROVE n + 1 \in T
    <2> SUFFICES ASSUME NEW g \in edges, g.number = e.number, g.repeat = e.repeat,
                        e.hop <= g.hop, g.hop <= e.hop + (n + 1)
                 PROVE  g.to \in S
      OBVIOUS
    <2>1. CASE g.hop = e.hop
      BY <2>1 DEF OneEdgeAHop
    <2>2. CASE e.hop < g.hop
      <3>1. PICK b \in edges : /\ b.number = g.number /\ b.repeat = g.repeat
                               /\ e.hop <= b.hop /\ b.hop < g.hop /\ b.to = g.from
        BY <2>2 DEF Linked
      <3>2. b.hop <= e.hop + n
        BY <1>1, <3>1
      <3>3. b.to \in S
        BY <3>1, <3>2
      <3>4. g.to \in Successors(S)
        BY <3>1, <3>3 DEF Successors
      <3> QED BY <3>4
    <2> QED BY <1>1, <2>1, <2>2
  <1>4. T = Nat
    <2>1. T \in SUBSET Nat
      BY DEF T
    <2> HIDE DEF T
    <2> QED BY <1>2, <1>3, <2>1, SetInduction
  <1>5. f.hop - e.hop \in T /\ e.hop <= f.hop /\ f.hop <= e.hop + (f.hop - e.hop)
    BY <1>1, <1>4
  <1> QED BY <1>5

LEMMA DrawChains ==
    ASSUME WalkInv, ChainInv, Ready, NEW id, NEW ipid,
           edges' = edges \cup {NewEdge(id, ipid)},
           previous' = [previous EXCEPT ![repeat] = id], UNCHANGED <<pc, number>>
    PROVE  ChainInv'
  <1> DEFINE new == NewEdge(id, ipid)
  <1>1. /\ new.number = number /\ new.repeat = repeat /\ new.hop = hop
        /\ new.from = previous[repeat] /\ new.to = id
    BY DEF NewEdge
  <1> HIDE DEF new
  <1>2. /\ pc = "row" /\ hop \in Nat /\ repeat \in DOMAIN previous /\ repeat \in Nat
        /\ edges' = edges \cup {new}
    BY AtDrawing DEF new
  <1>3. \A e \in edges : e.hop \in Nat /\ e.number \in Nat
    BY NumberType DEF WalkInv
  <1>4. ASSUME NEW e \in edges, e.number = number, e.repeat = repeat
        PROVE  e.hop < hop /\ e \in Walk(repeat)
    <2>1. e.hop \in 1..hop /\ Done(e.hop, repeat)
      BY <1>2, <1>4 DEF WalkInv, NothingAhead
    <2> QED BY <1>2, <1>4, <2>1 DEF Done, Walk
  <1>5. OneEdgeAHop'
    <2> SUFFICES ASSUME NEW e \in edges', NEW f \in edges', e.number = f.number,
                        e.repeat = f.repeat, e.hop = f.hop
                 PROVE  e = f
      BY DEF OneEdgeAHop
    <2>1. e \in edges /\ f \in edges => e = f
      BY DEF ChainInv, OneEdgeAHop
    <2>2. ~(e \in edges /\ f = new) /\ ~(f \in edges /\ e = new)
      BY <1>1, <1>2, <1>3, <1>4
    <2> QED BY <1>2, <2>1, <2>2
  <1>6. Linked'
    <2> SUFFICES ASSUME NEW e \in edges', NEW f \in edges', e.number = f.number,
                        e.repeat = f.repeat, e.hop < f.hop
                 PROVE  \E b \in edges' : /\ b.number = f.number /\ b.repeat = f.repeat
                                          /\ e.hop <= b.hop /\ b.hop < f.hop /\ b.to = f.from
      BY DEF Linked
    <2>1. CASE e \in edges /\ f \in edges
      <3>1. \E b \in edges : /\ b.number = f.number /\ b.repeat = f.repeat
                             /\ e.hop <= b.hop /\ b.hop < f.hop /\ b.to = f.from
        BY <2>1 DEF ChainInv, Linked
      <3> QED BY <1>2, <3>1
    <2>2. CASE e \in edges /\ f = new
      <3>1. e \in Walk(repeat)
        BY <1>1, <1>4, <2>2
      <3>2. PICK b \in Walk(repeat) : e.hop <= b.hop /\ b.to = previous[repeat]
        BY <1>2, <3>1 DEF ChainInv, LastIsKept
      <3>3. b \in edges /\ b.number = number /\ b.repeat = repeat
        BY DEF Walk
      <3>4. b.hop < hop
        BY <1>4, <3>3
      <3> QED BY <1>1, <1>2, <2>2, <3>2, <3>3, <3>4
    <2>3. ~(e = new)
      <3>1. ASSUME e = new, f = new PROVE FALSE
        BY <1>1, <1>2, <3>1
      <3>2. ASSUME e = new, f \in edges PROVE FALSE
        <4>1. f.hop < hop
          BY <1>1, <1>4, <3>2
        <4> QED BY <1>1, <1>2, <1>3, <3>2, <4>1
      <3> QED BY <1>2, <3>1, <3>2
    <2> QED BY <1>2, <2>1, <2>2, <2>3
  <1>7. LastIsKept'
    <2>1. \A i : Walk(i)' = IF i = repeat THEN Walk(i) \cup {new} ELSE Walk(i)
      BY <1>1, <1>2 DEF Walk
    <2> SUFFICES ASSUME NEW i \in DOMAIN previous, NEW e \in Walk(i)'
                 PROVE  \E b \in Walk(i)' : e.hop <= b.hop /\ b.to = previous'[i]
      BY DEF LastIsKept
    <2>2. CASE i = repeat
      <3>1. new \in Walk(i)' /\ new.to = previous'[i]
        BY <1>1, <1>2, <2>1, <2>2
      <3>2. e = new \/ e \in Walk(i)
        BY <2>1
      <3>3. e \in Walk(i) => e.hop < hop /\ e.hop \in Nat
        BY <1>3, <1>4, <2>2 DEF Walk
      <3>4. e.hop <= new.hop
        BY <1>1, <1>2, <3>2, <3>3
      <3> QED BY <3>1, <3>4
    <2>3. CASE i # repeat
      <3>1. Walk(i)' = Walk(i) /\ previous'[i] = previous[i]
        BY <2>1, <2>3
      <3> QED BY <1>2, <3>1 DEF ChainInv, LastIsKept
    <2> QED BY <2>2, <2>3
  <1> QED BY <1>5, <1>6, <1>7 DEF ChainInv

LEMMA ChainStep ==
    ASSUME WalkInv, ChainInv, [Next]_vars
    PROVE  ChainInv'
  <1>1. CASE BeginMeasurement
    <2>1. edges' = edges /\ number' = number + 1
      BY <1>1 DEF BeginMeasurement
    <2>2. \A i : Walk(i)' = {}
      <3>1. number \in Nat /\ \A e \in edges : e.number \in Nat /\ e.number <= number
        BY NumberType DEF WalkInv, NothingAhead
      <3> QED BY <2>1, <3>1 DEF Walk
    <2>3. LastIsKept'
      BY <2>2 DEF LastIsKept
    <2> QED BY <2>1, <2>3 DEF ChainInv, OneEdgeAHop, Linked
  <1>2. CASE UNCHANGED <<pc, number, previous, edges>>
    BY <1>2 DEF ChainInv, OneEdgeAHop, Linked, LastIsKept, Walk
  <1>3. CASE edges' = edges /\ pc' # "row"
    BY <1>3 DEF ChainInv, OneEdgeAHop, Linked, LastIsKept
  <1>4. CASE DrawStar \/ DrawAnswer
    <2>1. Ready /\ UNCHANGED <<pc, number>>
      BY <1>4 DEF DrawStar, DrawAnswer
    <2>2. PICK id, ipid : /\ edges' = edges \cup {NewEdge(id, ipid)}
                          /\ previous' = [previous EXCEPT ![repeat] = id]
      BY <1>4 DEF DrawStar, DrawAnswer, Visualize, NewEdge
    <2> QED BY <2>1, <2>2, DrawChains
  <1> QED BY <1>1, <1>2, <1>3, <1>4
    DEF Next, Skip, Pass, Overrun, NextHop, EndMeasurement, Save, Finished, vars, graph

LEMMA TierStep == WalkInv /\ TierInv /\ [Next]_vars => TierInv'
  <1> SUFFICES ASSUME WalkInv, TierInv, [Next]_vars PROVE TierInv'
    OBVIOUS
  <1>1. ChainInv'
    BY ChainStep DEF TierInv
  <1>2. CASE Save /\ pc' = "saved with tier"
    <2>1. tier' = AllowlistedTier /\ edges' = edges /\ nodes' = nodes
      BY <1>2 DEF Save, graph
    <2>2. Boundaries' = Boundaries /\ \A ids : Successors(ids)' = Successors(ids)
      BY <2>1 DEF Boundaries, Successors
    <2>3. /\ Successors(tier' \cup Boundaries) \subseteq tier' \cup Boundaries
          /\ tier' \cap Boundaries = {}
          /\ \A part \in SUBSET tier' :
               (Successors(Boundaries) \cup Successors(part)) \cap tier' \subseteq part
               => part = tier'
      BY <2>1, TierIsClosed DEF WalkInv
    <2>4. ASSUME NEW e \in edges, NEW f \in edges, e.number = f.number, e.repeat = f.repeat,
                 e.hop < f.hop, e.to \in Boundaries
          PROVE  f.to \in tier' \cup Boundaries
      <3> DEFINE S == tier' \cup Boundaries
      <3>1. e.to \in S /\ Successors(S) \subseteq S
        BY <2>3, <2>4
      <3> HIDE DEF S
      <3>2. f.to \in S
        BY <2>4, <3>1, WalksStay DEF TierInv, ChainInv, WalkInv
      <3> QED BY <3>2 DEF S
    <2>5. TierIsWhatFollows'
      BY <2>1, <2>2, <2>3, <2>4 DEF TierIsWhatFollows
    <2> QED BY <1>1, <2>5 DEF TierInv
  <1>3. CASE pc' # "saved with tier"
    BY <1>1, <1>3 DEF TierInv, TierIsWhatFollows
  <1>4. CASE UNCHANGED vars
    <2>1. pc' = pc /\ edges' = edges /\ nodes' = nodes /\ tier' = tier
      BY <1>4 DEF vars, graph
    <2>2. Boundaries' = Boundaries /\ \A ids : Successors(ids)' = Successors(ids)
      BY <2>1 DEF Boundaries, Successors
    <2>3. TierIsWhatFollows'
      BY <2>1, <2>2 DEF TierInv, TierIsWhatFollows
    <2> QED BY <1>1, <2>3 DEF TierInv
  <1>5. (Save /\ pc' = "saved with tier") \/ pc' # "saved with tier" \/ UNCHANGED vars
    BY DEF Next, BeginMeasurement, Skip, Pass, Overrun, AtResult, Ready, DrawStar, DrawAnswer,
           NextHop, EndMeasurement, Finished
  <1> QED BY <1>2, <1>3, <1>4, <1>5

\* The band behind the boundary: what any repeat was drawn through after a
\* CGNAT hop is in it, boundaries never are, and it is the least such band: a part
\* of it that holds what the boundaries lead to, and with a node what that leads
\* to, is all of it.  So every node of it can be reached from a boundary, in graphs
\* of any size, with whatever loops.
THEOREM TierIsTheBand == Spec => []TierIsWhatFollows
  <1>1. Init => TierInv
    BY DEF Init, TierInv, ChainInv, OneEdgeAHop, Linked, LastIsKept, TierIsWhatFollows
  <1>2. TierInv => TierIsWhatFollows
    BY DEF TierInv
  <1> QED BY <1>1, <1>2, WalkHolds, TierStep, PTL DEF Spec

-----------------------------------------------------------------------------
(* What the vantage points share *)

\* The measurements kept for --reverse-path are tables of results.
Tables == Seq(Seq(Results))
KeptInv == drawn \in Seq(Tables) /\ (pc = "row" => rows \in Tables)

MetAt(n, h) == {r.from : r \in ToSet(drawn[n][h])} \ {"***"}
Met(n) == {MetAt(n, h) : h \in DOMAIN drawn[n]}

\* The hops of a measurement end with its destination.
LEMMA HopSequenceIs ==
    ASSUME KeptInv, NEW n \in DOMAIN drawn
    PROVE  /\ HopSequence(n) \in Seq(Met(n) \cup {{kind.heads[n].dst}})
           /\ HopSequence(n) # <<>>
           /\ kind.heads[n].dst \in HopSequence(n)[Len(HopSequence(n))]
  <1> DEFINE hops == [h \in DOMAIN drawn[n] |-> MetAt(n, h)]
             answered == Without(hops, {})
             last == {kind.heads[n].dst}
             D == Met(n)
  <1>1. hops \in Seq(D)
    <2>1. drawn[n] \in Tables
      BY DEF KeptInv
    <2>2. Len(drawn[n]) \in Nat /\ DOMAIN drawn[n] = 1..Len(drawn[n])
      BY <2>1 DEF Tables
    <2>3. \A h \in 1..Len(drawn[n]) : MetAt(n, h) \in D
      BY <2>2 DEF Met
    <2> HIDE DEF D
    <2>4. hops \in [1..Len(drawn[n]) -> D]
      BY <2>2, <2>3
    <2> QED BY <2>2, <2>4
  <1>2. answered \in Seq(D)
    <2> HIDE DEF D, hops
    <2>1. answered \in Seq(D \ {{}})
      BY <1>1, WithoutType
    <2> QED BY <2>1
  <1>3. HopSequence(n) = IF answered # <<>> /\ last \subseteq answered[Len(answered)]
                         THEN answered ELSE Append(answered, last)
    BY DEF HopSequence, MetAt
  <1> HIDE DEF answered, last, D
  <1>4. CASE answered # <<>> /\ last \subseteq answered[Len(answered)]
    <2>1. answered \in Seq(D \cup {last})
      BY <1>2
    <2> QED BY <1>3, <1>4, <2>1 DEF last, D
  <1>5. CASE ~(answered # <<>> /\ last \subseteq answered[Len(answered)])
    <2>1. answered \in Seq(D \cup {last}) /\ last \in D \cup {last}
      BY <1>2
    <2>2. /\ Append(answered, last) \in Seq(D \cup {last})
          /\ Len(Append(answered, last)) = Len(answered) + 1
          /\ Append(answered, last)[Len(answered) + 1] = last
          /\ Append(answered, last) # <<>>
      BY <2>1, AppendProperties
    <2> QED BY <1>3, <1>5, <2>2 DEF last, D
  <1> QED BY <1>4, <1>5

At(n, i) == HopSequence(n)[Len(HopSequence(n)) + 1 - i]
Shared(group, i) == {a \in UNION {At(n, i) : n \in group} : \A n \in group : a \in At(n, i)}
Shortest(group) == Min({Len(HopSequence(n)) : n \in group})

LEMMA SharedSuffixIs ==
    ASSUME NEW group
    PROVE  SharedSuffix(group) =
             UNION {Shared(group, i) :
                    i \in {j \in 1..Shortest(group) : \A k \in 1..j : Shared(group, k) # {}}}
  BY DEF SharedSuffix, Shared, At, Shortest

LEMMA ShortestIs ==
    ASSUME KeptInv, NEW group, group \subseteq DOMAIN drawn, group # {}
    PROVE  /\ Shortest(group) \in Nat /\ Shortest(group) >= 1
           /\ \A n \in group : Shortest(group) <= Len(HopSequence(n))
  <1> DEFINE lengths == {Len(HopSequence(n)) : n \in group}
  <1>1. \A n \in group : Len(HopSequence(n)) \in Nat /\ Len(HopSequence(n)) >= 1
    <2> TAKE n \in group
    <2>1. HopSequence(n) \in Seq(Met(n) \cup {{kind.heads[n].dst}}) /\ HopSequence(n) # <<>>
      BY HopSequenceIs
    <2> QED BY <2>1
  <1>2. lengths \in SUBSET Nat /\ lengths # {}
    BY <1>1
  <1>3. \A x \in lengths : x >= 1
    BY <1>1
  <1>4. Shortest(group) = Min(lengths)
    BY DEF Shortest
  <1>5. \A n \in group : Len(HopSequence(n)) \in lengths
    OBVIOUS
  <1> HIDE DEF lengths
  <1>6. Min(lengths) \in lengths /\ \A y \in lengths : Min(lengths) <= y
    BY <1>2, LeastNatural DEF Min
  <1> QED BY <1>2, <1>3, <1>4, <1>5, <1>6

\* What is shared by a group has been met, or is the destination, in each of it.
LEMMA SharedIsMet ==
    ASSUME KeptInv, NEW group, group \subseteq DOMAIN drawn, group # {},
           NEW a \in SharedSuffix(group), NEW g \in group
    PROVE  a = kind.heads[g].dst
           \/ \E h \in DOMAIN drawn[g] : \E r \in ToSet(drawn[g][h]) : r.from = a
  <1>1. PICK i \in 1..Shortest(group) : a \in Shared(group, i)
    BY SharedSuffixIs
  <1>2. a \in At(g, i)
    BY <1>1 DEF Shared
  <1>3. HopSequence(g) \in Seq(Met(g) \cup {{kind.heads[g].dst}})
    BY HopSequenceIs
  <1>4. Len(HopSequence(g)) + 1 - i \in 1..Len(HopSequence(g))
    <2>1. Shortest(group) \in Nat /\ Shortest(group) <= Len(HopSequence(g))
      BY ShortestIs
    <2>2. Len(HopSequence(g)) \in Nat
      BY <1>3
    <2> QED BY <2>1, <2>2
  <1>5. At(g, i) \in Met(g) \cup {{kind.heads[g].dst}}
    BY <1>3, <1>4 DEF At
  <1>6. CASE At(g, i) = {kind.heads[g].dst}
    BY <1>2, <1>6
  <1>7. CASE At(g, i) \in Met(g)
    BY <1>2, <1>7 DEF Met, MetAt
  <1> QED BY <1>5, <1>6, <1>7

\* The destination of a group is shared by it.
LEMMA DestinationIsShared ==
    ASSUME KeptInv, NEW group, group \subseteq DOMAIN drawn, group # {},
           NEW to, \A g \in group : kind.heads[g].dst = to
    PROVE  to \in SharedSuffix(group)
  <1>1. \A g \in group : to \in At(g, 1)
    <2> TAKE g \in group
    <2>1. /\ HopSequence(g) \in Seq(Met(g) \cup {{kind.heads[g].dst}})
          /\ kind.heads[g].dst \in HopSequence(g)[Len(HopSequence(g))]
          /\ g \in DOMAIN drawn
      BY HopSequenceIs
    <2>2. Len(HopSequence(g)) + 1 - 1 = Len(HopSequence(g))
      BY <2>1
    <2> QED BY <2>1, <2>2 DEF At
  <1>2. to \in Shared(group, 1)
    BY <1>1 DEF Shared
  <1>3. 1 \in 1..Shortest(group) /\ \A k \in 1..1 : Shared(group, k) # {}
    BY <1>2, ShortestIs
  <1> QED BY <1>2, <1>3, SharedSuffixIs

LEMMA IdentitiesCount ==
    ASSUME KeptInv, NEW group, group \subseteq DOMAIN drawn
    PROVE  Cardinality(Identities(group)) > 1 <=> Cardinality(Identities(group)) >= 2
  <1> DEFINE f == [n \in group |-> VpIdentity(kind.heads[n])]
  <1>1. IsFiniteSet(DOMAIN drawn)
    <2>1. Len(drawn) \in Nat /\ DOMAIN drawn = 1..Len(drawn)
      BY DEF KeptInv
    <2> QED BY <2>1, FS_Interval
  <1>2. IsFiniteSet(group)
    BY <1>1, FS_Subset
  <1>3. DOMAIN f = group /\ f = [n \in group |-> f[n]]
    OBVIOUS
  <1>4. Identities(group) = {f[n] : n \in group}
    BY DEF Identities
  <1> HIDE DEF f
  <1>5. IsFiniteSet(Identities(group))
    BY <1>2, <1>3, <1>4, FiniteImage
  <1>6. Cardinality(Identities(group)) \in Nat
    BY <1>5, FS_CardinalityType
  <1> QED BY <1>6

\* What MarkedHopsAreShared says of the marks `marks` in the measurements
\* `kept` of a capture `capture`.
SharesRight(marks, capture, kept) ==
    LET sameEnd(n) == {m \in DOMAIN kept : capture.heads[m].dst = capture.heads[n].dst}
        several(n) == Cardinality({VpIdentity(capture.heads[m]) : m \in sameEnd(n)}) > 1
    IN  /\ \A n \in DOMAIN kept : several(n) => capture.heads[n].dst \in marks
        /\ \A a \in marks : \E n \in DOMAIN kept :
              /\ several(n)
              /\ \A g \in sameEnd(n) :
                    a = capture.heads[g].dst
                    \/ \E h \in DOMAIN kept[g] : \E r \in ToSet(kept[g][h]) : r.from = a

Marked == pc \in {"saved", "saved with tier"} /\ kind.reverse

LEMMA MarkedIs ==
    /\ MarkedHopsAreShared <=> (Marked => SharesRight(converged, kind, drawn))
    /\ MarkedHopsAreShared' <=> (Marked' => SharesRight(converged', kind', drawn'))
  BY DEF MarkedHopsAreShared, Marked, SharesRight, Identities, TracesTo

\* What _find_vp_convergence returns is right.
LEMMA ConvergenceIsShared ==
    ASSUME KeptInv
    PROVE  SharesRight(VpConvergence, kind, drawn)
  <1>1. ASSUME NEW n \in DOMAIN drawn
        PROVE  /\ TracesTo(kind.heads[n].dst) \subseteq DOMAIN drawn
               /\ TracesTo(kind.heads[n].dst) # {}
               /\ \A g \in TracesTo(kind.heads[n].dst) : kind.heads[g].dst = kind.heads[n].dst
    BY DEF TracesTo
  <1>2. ASSUME NEW n \in DOMAIN drawn,
               Cardinality(Identities(TracesTo(kind.heads[n].dst))) > 1
        PROVE  kind.heads[n].dst \in VpConvergence
    <2>1. kind.heads[n].dst \in SharedSuffix(TracesTo(kind.heads[n].dst))
      BY <1>1, DestinationIsShared
    <2>2. Cardinality(Identities(TracesTo(kind.heads[n].dst))) >= 2
      BY <1>1, <1>2, IdentitiesCount
    <2> QED BY <2>1, <2>2 DEF VpConvergence
  <1>3. ASSUME NEW a \in VpConvergence
        PROVE  \E n \in DOMAIN drawn :
                 /\ Cardinality(Identities(TracesTo(kind.heads[n].dst))) > 1
                 /\ \A g \in TracesTo(kind.heads[n].dst) :
                       a = kind.heads[g].dst
                       \/ \E h \in DOMAIN drawn[g] : \E r \in ToSet(drawn[g][h]) : r.from = a
    <2>1. PICK n \in DOMAIN drawn :
              /\ Cardinality(Identities(TracesTo(kind.heads[n].dst))) >= 2
              /\ a \in SharedSuffix(TracesTo(kind.heads[n].dst))
      BY <1>3 DEF VpConvergence
    <2>2. Cardinality(Identities(TracesTo(kind.heads[n].dst))) > 1
      BY <1>1, <2>1, IdentitiesCount
    <2>3. \A g \in TracesTo(kind.heads[n].dst) :
              a = kind.heads[g].dst
              \/ \E h \in DOMAIN drawn[g] : \E r \in ToSet(drawn[g][h]) : r.from = a
      BY <1>1, <2>1, SharedIsMet
    <2> QED BY <2>2, <2>3
  <1> QED BY <1>2, <1>3 DEF SharesRight, Identities, TracesTo

LEMMA KeptStep == WalkInv /\ KeptInv /\ [Next]_vars => KeptInv'
  <1> SUFFICES ASSUME WalkInv, KeptInv, [Next]_vars PROVE KeptInv'
    OBVIOUS
  <1>1. CASE BeginMeasurement
    <2>1. drawn' = drawn /\ pc' = "row"
      BY <1>1 DEF BeginMeasurement
    <2>2. PICK hops, some : Begins(hops, some)
      BY <1>1, Beginning
    <2>3. rows' \in Tables
      <3>1. rows' \in [1..hops -> Seq(Results)]
        BY <2>2 DEF Begins
      <3>2. hops \in Nat
        <4>1. MaxHops \in Nat /\ hops \in 1..MaxHops
          BY <2>2 DEF MaxHops, Begins
        <4> QED BY <4>1
      <3> QED BY <3>1, <3>2 DEF Tables
    <2> QED BY <2>1, <2>3 DEF KeptInv
  <1>2. CASE EndMeasurement
    <2>1. drawn' \in Seq(Tables)
      BY <1>2, AppendProperties DEF EndMeasurement, KeptInv
    <2> QED BY <1>2, <2>1 DEF EndMeasurement, KeptInv
  <1>3. CASE UNCHANGED <<rows, drawn>> /\ (pc' = pc \/ pc' # "row")
    BY <1>3 DEF KeptInv
  <1>4. CASE Save
    BY <1>4 DEF Save, KeptInv
  <1> QED BY <1>1, <1>2, <1>3, <1>4
    DEF Next, Skip, Pass, Overrun, DrawStar, DrawAnswer, NextHop, Finished, vars

ShareInv == KeptInv /\ MarkedHopsAreShared

LEMMA ShareStep == WalkInv /\ ShareInv /\ [Next]_vars => ShareInv'
  <1> SUFFICES ASSUME WalkInv, ShareInv, [Next]_vars PROVE ShareInv'
    OBVIOUS
  <1>1. KeptInv /\ KeptInv'
    BY KeptStep DEF ShareInv
  <1>2. CASE Save
    <2>1. kind' = kind /\ drawn' = drawn /\ (kind.reverse => converged' = VpConvergence)
      BY <1>2 DEF Save
    <2>2. Marked' => SharesRight(converged', kind', drawn')
      BY <1>1, <2>1, ConvergenceIsShared DEF Marked
    <2> QED BY <1>1, <2>2, MarkedIs DEF ShareInv
  <1>3. CASE pc' \notin {"saved", "saved with tier"}
    BY <1>1, <1>3 DEF ShareInv, MarkedHopsAreShared
  <1>4. CASE UNCHANGED vars
    <2>1. pc' = pc /\ kind' = kind /\ drawn' = drawn /\ converged' = converged
      BY <1>4 DEF vars
    <2>2. Marked' => SharesRight(converged', kind', drawn')
      BY <2>1, MarkedIs DEF ShareInv, Marked
    <2> QED BY <1>1, <2>2, MarkedIs DEF ShareInv
  <1>5. Save \/ pc' \notin {"saved", "saved with tier"} \/ UNCHANGED vars
    BY DEF Next, BeginMeasurement, Skip, Pass, Overrun, AtResult, Ready, DrawStar, DrawAnswer,
           NextHop, EndMeasurement, Finished
  <1> QED BY <1>2, <1>3, <1>4, <1>5

\* A destination seen from two vantage points is marked, however many others
\* are in the capture, and only hops that all of one destination's vantage
\* points have met are.
THEOREM MarksAreShared == Spec => []MarkedHopsAreShared
  <1>1. Init => ShareInv
    BY DEF Init, ShareInv, KeptInv, MarkedHopsAreShared
  <1>2. ShareInv => MarkedHopsAreShared
    BY DEF ShareInv
  <1> QED BY <1>1, <1>2, WalkHolds, ShareStep, PTL DEF Spec
=============================================================================
