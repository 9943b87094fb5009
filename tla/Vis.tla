--------------------------------- MODULE Vis ---------------------------------
(***************************************************************************)
(* utils/vis.py: a capture drawn as a graph, result by result, one repeat of *)
(* a measurement continuing where its own previous hop was drawn.            *)
(*                                                                          *)
(* The id of a node is text in the code: the address as a number between x's,*)
(* with the words for what was found there (and an x each) around it.  Here   *)
(* it is the record of the words and the address; an id contains that of the *)
(* destination exactly when its address is the destination's.  Labels,       *)
(* tooltips, colours of edges and the offline assets are left out; of a      *)
(* node's colour, the device it stands for is kept.                          *)
(***************************************************************************)
EXTENDS Evidence, Sieve, FiniteSets, FiniteSetsExt

CONSTANTS
    Captures,           \* the kinds of capture drawn: see Kinds
    CgnatAddresses      \* the addresses in 100.64.0.0/10

MaxHops == 255
MeasurementHeads == [src : STRING, vp : STRING, dst : STRING, sni : BOOLEAN]

\* The measurements of a capture are `heads`, in order, each with one of `hops`
\* as its number of rows, each row with one of `widths` as its number of results,
\* any of `results`; `reverse` is the option --reverse-path.  A result whose
\* `from` is "dst" is the destination's.  The capture's reply_forged is what
\* trace.py writes of these rows if it is `written`; otherwise whatever some
\* other writer left there, nothing being false.
ASSUME CapturesAssumption ==
    \A kind \in Captures :
        /\ kind.heads \in Seq(MeasurementHeads) /\ kind.heads # <<>>
        /\ kind.hops \subseteq 1..MaxHops /\ kind.widths \subseteq Nat
        /\ kind.reverse \in BOOLEAN /\ kind.written \in BOOLEAN
        /\ kind.results \subseteq Results
        /\ \A r \in kind.results : r.received # <<>> => r.saved
        /\ \A n \in DOMAIN kind.heads : kind.heads[n].dst # "***"

VARIABLES
    pc,         \* "next", "row" or, at the end, "saved", "saved with tier" or "IndexError"
    kind,       \* the capture
    number,     \* measurement_steps: which measurement is being drawn
    rows,       \* its rows
    replyForged,  \* its reply_forged
    hop,        \* the row being drawn
    index,      \* the next result in it
    repeat,     \* repeat_steps
    skipNext,   \* skip_next
    previous,   \* previous_node_ids
    detected,   \* already_detected
    nodes,      \* the graph: the device drawn at each node,
    edges,      \* and the edges, each with the probe it is for
    drawn,      \* the measurements drawn, kept for --reverse-path
    tier,       \* the nodes marked allowlisted_tier
    converged   \* reverse_path_ips

place == <<hop, index, repeat, skipNext>>
graph == <<nodes, edges>>
vars == <<pc, kind, number, rows, replyForged, place, previous, detected, graph,
          drawn, tier, converged>>

measurement == kind.heads[number]
dst == measurement.dst
SourceId(head) == [tags |-> <<>>, addr |-> head.src, vp |-> head.vp]
NodeId(addr) == [tags |-> <<>>, addr |-> addr, vp |-> ""]
Wrap(tag, id) == [id EXCEPT !.tags = <<tag>> \o @]

\* A node that is there stays as it was drawn first.
AddNode(id, device) ==
    [n \in DOMAIN nodes \cup {id} |-> IF n \in DOMAIN nodes THEN nodes[n] ELSE device]

Init ==
    /\ pc = "next"
    /\ kind \in Captures
    /\ number = 0 /\ rows = <<>> /\ replyForged = FALSE
    /\ hop = 1 /\ index = 1 /\ repeat = 1 /\ skipNext = FALSE
    /\ previous = <<>> /\ detected = <<>>
    /\ nodes = <<>> /\ edges = {}
    /\ drawn = <<>> /\ tier = {} /\ converged = {}

-----------------------------------------------------------------------------
(* Measurements and their rows *)

IsStar(r) == r.from = "***"

\* A row is a list of any of its widths: a late answer comes on top of the result
\* of its own repeat, and a trace that was cut short leaves its last row unfilled.
Rows(widths, results) == UNION {[1..n -> results] : n \in widths}

Addressed(row, destination) ==
    [i \in DOMAIN row |->
        IF row[i].from = "dst" THEN [row[i] EXCEPT !.from = destination] ELSE row[i]]

BeginMeasurement ==
    /\ pc = "next"
    /\ number < Len(kind.heads)
    /\ number' = number + 1
    /\ \E hops \in kind.hops : \E some \in [1..hops -> Rows(kind.widths, kind.results)] :
          /\ rows' = [h \in 1..hops |-> Addressed(some[h], kind.heads[number + 1].dst)]
          /\ replyForged' \in
                IF kind.written THEN {ForgedDestinationReply(rows', kind.heads[number + 1].dst)}
                ELSE BOOLEAN
          /\ previous' = [i \in DOMAIN some[1] |-> SourceId(kind.heads[number + 1])]
          /\ detected' = [i \in DOMAIN some[1] |-> {}]
    /\ nodes' = AddNode(SourceId(kind.heads[number + 1]), "source")
    /\ hop' = 1 /\ index' = 1 /\ repeat' = 1 /\ skipNext' = FALSE
    /\ pc' = "row"
    /\ UNCHANGED <<kind, edges, drawn, tier, converged>>

-----------------------------------------------------------------------------
(* One result of a row *)

\* Mutant: only the destination's own node is the end of a path.
ReachedItself(id) == id = NodeId(dst)

\* already_reached_destination_str
Reached(id) == id.addr = dst

AtResult == pc = "row" /\ index <= Len(rows[hop])
result == rows[hop][index]

\* The result after a late one.
Skip ==
    /\ AtResult
    /\ skipNext
    /\ skipNext' = FALSE
    /\ index' = index + 1
    /\ UNCHANGED <<pc, kind, number, rows, replyForged, hop, repeat, previous, detected, graph,
                   drawn, tier, converged>>

\* Nothing is drawn behind the destination.
Pass ==
    /\ AtResult
    /\ ~skipNext
    /\ repeat \in DOMAIN previous
    /\ Reached(previous[repeat])
    /\ index' = index + 1
    /\ repeat' = repeat + 1
    /\ UNCHANGED <<pc, kind, number, rows, replyForged, hop, skipNext, previous, detected, graph,
                   drawn, tier, converged>>

\* A repeat the first row does not have: nothing catches the IndexError, and no
\* graph is saved.
Overrun ==
    /\ AtResult
    /\ ~skipNext
    /\ repeat \notin DOMAIN previous
    /\ pc' = "IndexError"
    /\ UNCHANGED <<kind, number, rows, replyForged, place, previous, detected, graph,
                   drawn, tier, converged>>

\* visualize, and the end of the loop over the results.
Visualize(id, device, ipid) ==
    /\ nodes' = AddNode(id, device)
    /\ edges' = edges \cup
          {[from |-> previous[repeat], to |-> id, number |-> number, repeat |-> repeat,
            hop |-> hop, index |-> index, ipid |-> ipid]}
    /\ previous' = [previous EXCEPT ![repeat] = id]
    /\ index' = index + 1
    /\ repeat' = repeat + 1

\* Mutant: the result that a late one stands for is drawn as well.
ReadyNeverSkips ==
    /\ AtResult
    /\ ~skipNext
    /\ repeat \in DOMAIN previous
    /\ ~Reached(previous[repeat])
    /\ skipNext' = FALSE

\* A result is drawn; a late one stands for the next as well.
Ready ==
    /\ AtResult
    /\ ~skipNext
    /\ repeat \in DOMAIN previous
    /\ ~Reached(previous[repeat])
    /\ skipNext' = result.late

DrawStar ==
    /\ Ready
    /\ IsStar(result)
    /\ Visualize(Wrap("unknown", previous[repeat]), "unknown", "unknown")
    /\ UNCHANGED <<pc, kind, number, rows, replyForged, hop, detected, drawn, tier, converged>>

\* What one repeat says of a hop the first time it meets it there.
Mark(r, found, boxed, seen) ==
    IF boxed /\ "middlebox" \notin seen THEN "none"
    ELSE IF r.from \in CgnatAddresses /\ "cgnat" \notin seen THEN "cgnat"
    ELSE IF found.pep /\ "pep" \notin seen THEN "pep"
    ELSE IF found.nat /\ "nat" \notin seen THEN "nat"
    ELSE IF measurement.sni /\ ~(found.pep \/ found.nat \/ boxed) /\ "middlebox" \notin seen
         THEN "sni"
    ELSE "none"

Which(word, holds) == IF holds THEN {word} ELSE {}

\* What is found in the answer being drawn.
Analysed == result.received # <<>>
FoundHere ==
    IF Analysed THEN Detect(Sent(hop, result), result.received) ELSE Found(FALSE, FALSE, FALSE)
Boxed == DeviceOfTtl(result.ttl) = "middlebox" \/ FoundHere.middlebox
BoxHere == result.saved /\ Boxed
MarkHere == IF Analysed THEN Mark(result, FoundHere, Boxed, detected[repeat]) ELSE "none"
ForgedHere == Analysed /\ replyForged /\ result.from = dst

AnswerId ==
    LET tagged == IF MarkHere \in {"cgnat", "pep", "nat"} /\ result.from # dst
                  THEN Wrap(MarkHere, NodeId(result.from)) ELSE NodeId(result.from)
    IN  IF ForgedHere THEN Wrap("forged", tagged)
        ELSE IF BoxHere THEN Wrap("middlebox", tagged) ELSE tagged

AnswerDevice ==
    IF ForgedHere THEN "forged" ELSE IF BoxHere THEN "middlebox"
    ELSE IF MarkHere # "none" THEN MarkHere ELSE DeviceOfTtl(result.ttl)

DrawAnswer ==
    /\ Ready
    /\ ~IsStar(result)
    /\ Visualize(AnswerId, AnswerDevice,
                 IF Analysed THEN IpIdPattern(HopPackets(rows[hop], result.from)) ELSE "unknown")
    /\ detected' = [detected EXCEPT ![repeat] = @
          \cup Which("middlebox", MarkHere = "sni" \/ ForgedHere \/ BoxHere)
          \cup Which("pep", FoundHere.pep) \cup Which("nat", FoundHere.nat)
          \cup Which("cgnat", Analysed /\ result.from \in CgnatAddresses)]
    /\ UNCHANGED <<pc, kind, number, rows, replyForged, hop, drawn, tier, converged>>

NextHop ==
    /\ pc = "row"
    /\ index > Len(rows[hop])
    /\ hop < Len(rows)
    /\ hop' = hop + 1 /\ index' = 1 /\ repeat' = 1 /\ skipNext' = FALSE
    /\ UNCHANGED <<pc, kind, number, rows, replyForged, previous, detected, graph,
                   drawn, tier, converged>>

EndMeasurement ==
    /\ pc = "row"
    /\ index > Len(rows[hop])
    /\ hop = Len(rows)
    /\ pc' = "next"
    /\ drawn' = IF kind.reverse THEN Append(drawn, rows) ELSE drawn
    /\ UNCHANGED <<kind, number, rows, replyForged, place, previous, detected, graph, tier, converged>>

-----------------------------------------------------------------------------
(* The tier behind a CGNAT, and what the vantage points share *)

Successors(ids) == {e.to : e \in {f \in edges : f.from \in ids}}
Boundaries == {id \in DOMAIN nodes : nodes[id] = "cgnat"}

\* Mutant: only the next hop is behind the boundary.
TierNextHop == Successors(Boundaries) \ Boundaries

\* mark_allowlisted_tier: the descendants of the boundaries but for themselves.
AllowlistedTier ==
    LET within[k \in 0..Cardinality(DOMAIN nodes)] ==
            IF k = 0 THEN Successors(Boundaries)
            ELSE within[k - 1] \cup Successors(within[k - 1])
    IN  within[Cardinality(DOMAIN nodes)] \ Boundaries

VpIdentity(head) == IF head.vp # "" THEN head.vp ELSE head.src

\* _extract_vp_hop_sequence: who answered at each hop, and the destination.
HopSequence(n) ==
    LET answered == Without([h \in DOMAIN drawn[n] |->
                                {r.from : r \in ToSet(drawn[n][h])} \ {"***"}], {})
        last == {kind.heads[n].dst}
    IN  IF answered # <<>> /\ last \subseteq answered[Len(answered)] THEN answered
        ELSE Append(answered, last)

\* What a group of measurements shares, hop by hop back from its end.
SharedSuffix(group) ==
    LET at(n, i) == HopSequence(n)[Len(HopSequence(n)) + 1 - i]
        shared(i) == {a \in UNION {at(n, i) : n \in group} : \A n \in group : a \in at(n, i)}
        shortest == Min({Len(HopSequence(n)) : n \in group})
    IN  UNION {shared(i) : i \in {j \in 1..shortest : \A k \in 1..j : shared(k) # {}}}

Identities(group) == {VpIdentity(kind.heads[n]) : n \in group}
TracesTo(destination) == {n \in DOMAIN drawn : kind.heads[n].dst = destination}

\* Mutant: the measurements are not grouped by destination.
PooledConvergence ==
    IF Cardinality(Identities(DOMAIN drawn)) < 2 THEN {} ELSE SharedSuffix(DOMAIN drawn)

\* _find_vp_convergence
VpConvergence ==
    LET groups == {TracesTo(kind.heads[n].dst) : n \in DOMAIN drawn}
    IN  UNION {SharedSuffix(g) : g \in {h \in groups : Cardinality(Identities(h)) >= 2}}

Save ==
    /\ pc = "next"
    /\ number = Len(kind.heads)
    /\ \E overlay \in BOOLEAN :
          /\ tier' = IF overlay THEN AllowlistedTier ELSE {}
          /\ pc' = IF overlay THEN "saved with tier" ELSE "saved"
    /\ converged' = IF kind.reverse THEN VpConvergence ELSE {}
    /\ UNCHANGED <<kind, number, rows, replyForged, place, previous, detected, graph, drawn>>

\* Stopping anywhere else would be an exception nobody foresaw.
Finished ==
    /\ pc \in {"saved", "saved with tier", "IndexError"}
    /\ UNCHANGED vars

Next ==
    \/ BeginMeasurement \/ Skip \/ Pass \/ Overrun \/ DrawStar \/ DrawAnswer
    \/ NextHop \/ EndMeasurement \/ Save \/ Finished

Spec == Init /\ [][Next]_vars
-----------------------------------------------------------------------------
(* Properties *)

\* A result heads its repeat unless a late answer precedes it, which then stands
\* for that repeat: position k belongs to the repeat that counts the heads to it.
Heads(row) == {k \in DOMAIN row : k = 1 \/ ~row[k - 1].late}
HeadsUpTo(row, n) == {k \in Heads(row) : k <= n}
Position(row, i) == CHOOSE k \in Heads(row) : Cardinality(HeadsUpTo(row, k)) = i
Probe(h, i) == rows[h][Position(rows[h], i)]
Repeats(h) == Cardinality(Heads(rows[h]))

Reaches(row, destination) == \E i \in DOMAIN row : row[i].from = destination

\* The captures whose results can be told apart: no hop has a repeat that the
\* one before lacks, a late answer comes before a timely one, and RIPE Atlas is
\* late at no hop behind the destination.
Orderly ==
    \A h \in DOMAIN rows :
        /\ \A g \in 1..(h - 1) : Repeats(h) <= Repeats(g)
        /\ \A k \in DOMAIN rows[h] : rows[h][k].late =>
              /\ k < Len(rows[h]) /\ ~rows[h][k + 1].late
              /\ measurement.src # dst
              /\ \A g \in 1..(h - 1) : ~Reaches(rows[g], dst)

Walk(i) == {e \in edges : e.number = number /\ e.repeat = i}
Ended(h, i) == SourceId(measurement).addr = dst \/ \E g \in 1..(h - 1) : Probe(g, i).from = dst

\* In an orderly capture the edges of every repeat are a walk over what answered
\* it, from its own source, a step for each hop it has, to the first answer in
\* the destination's name and not beyond, whatever was found on the way, with
\* late answers and with rows that are missing their last repeats.
WalksFollowTheRows ==
    pc = "row" /\ Orderly =>
        \A i \in DOMAIN previous : \A h \in 1..hop :
            LET here == {e \in Walk(i) : e.hop = h}
                before == {e \in Walk(i) : e.hop = h - 1}
            IN  h < hop \/ i < repeat =>
                /\ Cardinality(here) = (IF i > Repeats(h) \/ Ended(h, i) THEN 0 ELSE 1)
                /\ \A e \in here :
                      /\ e.from \in (IF h = 1 THEN {SourceId(measurement)} ELSE {f.to : f \in before})
                      /\ e.to.addr = IF IsStar(Probe(h, i)) THEN e.from.addr ELSE Probe(h, i).from

\* An orderly capture is drawn to its end: nothing short of a late answer that
\* is last, follows another or comes from behind the destination, or of a repeat
\* that begins at a later hop, makes the loop ask for a repeat that the first
\* row does not have.
OrderlyIsDrawn == pc = "IndexError" => ~Orderly

ResultOf(e) == rows[e.hop][e.index]
Answered(e) == ~IsStar(ResultOf(e))
Current == {e \in edges : pc = "row" /\ e.number = number}

\* Only a capture that says so has a reply drawn as forged.  In one that is of
\* tracevis's own writing, a reply written in the destination's name by something
\* else never sits on the destination's node, and where every answer in its name
\* is its own, nothing is drawn as forged.
ForgeryNeverWearsDestination ==
    \A e \in Current : Answered(e) =>
        LET forged(q, h) == q.from = dst /\ q.received # <<>> /\ IsForged(q, h)
            shown == "forged" \in ToSet(e.to.tags)
        IN  /\ shown => replyForged
            /\ kind.written =>
                  /\ forged(ResultOf(e), e.hop) => e.to # NodeId(dst)
                  /\ shown => \E h \in DOMAIN rows : \E q \in ToSet(rows[h]) : forged(q, h)

\* A router quoted the probe with another header than it was sent with.
Rewritten(r) ==
    \E p \in ToSet(r.received) :
        p.layer = "ICMP" /\ p.quote.id = r.sentId /\ p.quote.rest # r.sentRest

\* A repeat meets its NAT once: at the first hop drawn of it that quotes a header
\* rewritten on the way.  There it is drawn, unless that hop is known by something
\* else; a mere decrement of the TTL, with whatever carry, is none.
NatIsTheFirstRewrite ==
    \A e \in Current : Answered(e) =>
        LET r == ResultOf(e)
            first == /\ Rewritten(r)
                     /\ \A f \in Walk(e.repeat) : f.hop < e.hop => ~Rewritten(ResultOf(f))
            plain == /\ r.received[1].layer = "ICMP"
                     /\ r.received[1].quote.id = r.sentId
                     /\ DeviceOfTtl(r.ttl) # "middlebox"
                     /\ r.from \notin CgnatAddresses \cup {dst}
        IN  /\ "nat" \in ToSet(e.to.tags) => first
            /\ first => (plain => "nat" \in ToSet(e.to.tags))

\* Routers quote a probe with the TTL of 1 it reached them with, and what an
\* ICMP error comes with is at most one segment before it, of a box that
\* acknowledges or closes in the name of the server; a star is silence.
Shape(r) ==
    /\ IsStar(r) => r.received = <<>>
    /\ \A j \in DOMAIN r.received : r.received[j].layer = "ICMP" =>
          /\ r.received[j].quote.ttl = 1
          /\ \/ j = 1
             \/ j = 2 /\ r.received[1].layer = "TCP" /\ r.received[1].flags \in {"A"} \cup Closing

AsRoutersQuote == \A k \in Captures : \A r \in k.results : Shape(r)

\* A responder whose answers are kept is called sequential exactly when its own
\* replies to the hop came off one counter, wrap or no wrap, whoever else
\* answered in between.
IpIdIsTheResponders ==
    \A e \in Current : Answered(e) =>
        LET row == rows[e.hop]
            mine == {k \in DOMAIN row : row[k].from = e.to.addr /\ row[k].received # <<>>}
            id(k) == row[k].received[1].id
            next(k) == Min({j \in mine : j > k})
            last == Max(mine)
        IN  (ResultOf(e).received # <<>> /\ \A k \in mine : Len(row[k].received) = 1)
            => ( e.ipid = "sequential" <=>
                    /\ Cardinality(mine) > 1
                    /\ \A k \in mine \ {last} :
                          \E ahead \in {id(next(k)), id(next(k)) + IpIdModulus} :
                              ahead > id(k) /\ ahead <= id(k) + SequentialMaxDelta )

\* The band behind the boundary: what any repeat was drawn through after a
\* CGNAT hop is in it, boundaries never are, and all of it can be reached from
\* them: a part of it that holds what they lead to leads on to the rest, so that
\* not even a loop is in it that no boundary leads into.
TierIsWhatFollows ==
    pc = "saved with tier" =>
        /\ \A e, f \in edges :
              /\ e.number = f.number /\ e.repeat = f.repeat /\ e.hop < f.hop
              /\ e.to \in Boundaries
              => f.to \in tier \cup Boundaries
        /\ tier \cap Boundaries = {}
        /\ \A part \in SUBSET tier :
              (Successors(Boundaries) \cup Successors(part)) \cap tier \subseteq part => part = tier

\* A destination seen from two vantage points is marked, however many others
\* are in the capture, and only hops that all of one destination's vantage
\* points have met are.
MarkedHopsAreShared ==
    pc \in {"saved", "saved with tier"} /\ kind.reverse =>
        /\ \A n \in DOMAIN drawn :
              Cardinality(Identities(TracesTo(kind.heads[n].dst))) > 1
                  => kind.heads[n].dst \in converged
        /\ \A a \in converged : \E n \in DOMAIN drawn :
              LET group == TracesTo(kind.heads[n].dst)
              IN  /\ Cardinality(Identities(group)) > 1
                  /\ \A g \in group :
                        a = kind.heads[g].dst
                        \/ \E h \in DOMAIN drawn[g] : \E r \in ToSet(drawn[g][h]) : r.from = a
=============================================================================
