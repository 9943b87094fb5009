------------------------------- MODULE Trace -------------------------------
(***************************************************************************)
(* One run of the tracer: Tracer.run of utils/trace.py with the             *)
(* traceroute_data it fills (utils/traceroute_struct.py), and the part of   *)
(* main in tracevis.py that starts it, catches Ctrl-C, saves what was        *)
(* collected and renders the capture.                                       *)
(*                                                                          *)
(* The trace loop is four nested loops (repeat, TTL, packet, destination)    *)
(* over a shared structure: every arm (packet, destination) owns a list of   *)
(* hops and every hop a list with one result per repeat.  Nothing in that    *)
(* structure says which repeat a result belongs to but its position.         *)
(***************************************************************************)
EXTENDS Integers, Sequences, FiniteSets, Dpi

CONSTANTS
    Destinations,   \* request_ips: the destination addresses, in order
    Packets,        \* 1, or 2 when have_2_packet
    MaxTtl,
    Repeats,        \* repeat_requests
    Continue,       \* continue_to_max_ttl
    Paris,          \* trace_with_retransmission
    SourceIp,
    Routers,        \* addresses that may answer on the way
    CgnatAddrs,     \* the addresses in 100.64.0.0/10
    RstCounts,      \* RSTs one probe may draw
    Forgeries,      \* whether an answer in the destination's name is forged
    NetworkState,   \* what utils.geolocate concluded
    Proto,          \* proto of each packet
    Dport,          \* destination port of each packet
    MaxInterrupts   \* how often the operator presses Ctrl-C

Blocks == 1..Packets
Targets == 1..Len(Destinations)
Arms == Blocks \X Targets
Silence == "***"
Addresses == {Destinations[i] : i \in Targets} \cup Routers \cup {SourceIp}
Dst(a) == Destinations[a[2]]

ASSUME PacketsAssumption == Packets \in {1, 2}
ASSUME LoopAssumption == MaxTtl \in Nat \ {0} /\ Repeats \in Nat \ {0}
ASSUME FlagAssumption == Continue \in BOOLEAN /\ Paris \in BOOLEAN
ASSUME AddressAssumption ==
    /\ Destinations \in Seq(Addresses)
    /\ Len(Destinations) > 0
    /\ Silence \notin Addresses /\ "-" \notin Addresses
ASSUME ReplyAssumption == RstCounts \subseteq Nat /\ Forgeries \subseteq BOOLEAN
ASSUME NetworkStateAssumption == NetworkState \in NetworkStates
ASSUME PacketAssumption ==
    /\ Proto \in [Blocks -> {"IP", "ICMP", "UDP", "TCP"}]
    /\ Dport \in [Blocks -> Int]
ASSUME InterruptAssumption == MaxInterrupts \in Nat

-----------------------------------------------------------------------------
(* Results, hops and postures *)

Dash == [from |-> "-", rst |-> 0, forged |-> FALSE]

\* What one probe towards the destination of an arm may bring back.
Outcomes(a) ==
    [from : Routers \cup {Silence}, rst : RstCounts, forged : {FALSE}]
    \cup [from : {Dst(a)}, rst : RstCounts, forged : Forgeries]

Results == [from : Addresses \cup {Silence, "-"}, rst : Nat, forged : BOOLEAN]

\* Mutant: the result goes to the last hop of the list.
AddHopToLast(hops, hop, result) ==
    LET grown == IF Len(hops) < hop THEN Append(hops, <<>>) ELSE hops
    IN  [grown EXCEPT ![Len(grown)] = Append(@, result)]

AddHop(hops, hop, result) ==
    LET grown == IF Len(hops) < hop THEN Append(hops, <<>>) ELSE hops
    IN  [grown EXCEPT ![hop] = Append(@, result)]

Indices(s) == 1..Len(s)
AllDash(results) == \A r \in Indices(results) : results[r].from = "-"

\* Mutant: only the first repeat is looked at.
CleanByFirstRepeat(hops) ==
    LET live == {k \in 0..Len(hops) : \A j \in 1..k : hops[j][1].from # "-"}
    IN  SubSeq(hops, 1, CHOOSE k \in live : \A j \in live : j <= k)

\* Keeps the hops before the first hop no repeat had a probe for.
CleanExtraResult(hops) ==
    LET live == {k \in 0..Len(hops) : \A j \in 1..k : ~AllDash(hops[j])}
    IN  SubSeq(hops, 1, CHOOSE k \in live : \A j \in live : j <= k)

\* The results an arm has collected, over all hops and repeats.
Collected(hops) == UNION {{hops[k][r] : r \in Indices(hops[k])} : k \in Indices(hops)}

MaxRst(hops) ==
    LET counts == {c.rst : c \in Collected(hops)} \cup {0}
    IN  CHOOSE m \in counts : \A n \in counts : n <= m

Posture(signals, forged) ==
    [path |-> ClassifyDpiPath(signals), reply_forged |-> forged]

\* Before the first probe both packets are classified as packet 1.
PreTracePosture ==
    Posture([DefaultSignals EXCEPT !.network_state = NetworkState,
                                   !.sent_proto = Proto[1],
                                   !.sent_dport = Dport[1]], FALSE)

BlankPosture ==
    [ path |-> [ dpi_cleared |-> FALSE, cgnat_hop |-> FALSE,
                 sni_inspected |-> FALSE, rst_flood |-> FALSE,
                 tcp_silently_dropped |-> FALSE ],
      reply_forged |-> FALSE ]

Postures ==
    [ path : [ dpi_cleared : BOOLEAN, cgnat_hop : BOOLEAN,
               sni_inspected : BOOLEAN, rst_flood : BOOLEAN,
               tcp_silently_dropped : BOOLEAN ],
      reply_forged : BOOLEAN ]

FromDestination(a, hops) == {c \in Collected(hops) : c.from = Dst(a)}

PostTracePosture(a, hops) ==
    LET forged == \E c \in FromDestination(a, hops) : c.forged
    IN  Posture([DefaultSignals EXCEPT
                    !.network_state = NetworkState,
                    !.sent_proto = Proto[a[1]],
                    !.sent_dport = Dport[a[1]],
                    !.rst_count = MaxRst(hops),
                    !.dst_reached = FromDestination(a, hops) # {},
                    !.cgnat_observed = \E c \in Collected(hops) : c.from \in CgnatAddrs,
                    !.reply_forged = forged], forged)

-----------------------------------------------------------------------------
VARIABLES
    pc,         \* where the run is
    made,       \* made[b]: entries of measurement_data[b] created so far
    hops,       \* hops[a]: the `result` list of arm a's entry
    posture,    \* the classification flags of arm a's entry
    noted,      \* the preflight note is in arm a's annotation
    prev,       \* previous_node_ids
    rep,        \* repeat_all_steps
    ttl,        \* current_ttl
    arm,        \* <<access_block_steps, ip_steps>> of the next turn
    skip,       \* this row found every destination reached
    success,    \* was_successful
    context,    \* classification_context is set
    files,      \* the capture files of this run
    interrupts  \* Ctrl-C presses so far

loop == <<prev, rep, ttl, arm, skip, success>>
entries == <<made, hops, posture, noted>>
vars == <<pc, entries, loop, context, files, interrupts>>

\* A file that does not exist, one that was created but not written to, and
\* one that holds a document.
NoFile == [status |-> "absent", doc |-> <<>>]
Truncated == [status |-> "empty", doc |-> <<>>]
Holding(doc) == [status |-> "written", doc |-> doc]

\* The entries that reach a file: request_ips is the whole list on the normal
\* path and the destinations of the first block's entries on the partial one.
Document(n) ==
    [a \in {x \in Arms : x[2] <= n} |->
        [ hops |-> IF Continue THEN hops[a] ELSE CleanExtraResult(hops[a]),
          posture |-> posture[a], noted |-> noted[a] ]]

\* The shape load_measurements insists on before vis draws anything.
Renderable(doc) ==
    \A a \in DOMAIN doc : doc[a].hops # <<>> /\ doc[a].hops[1] # <<>>

Running == {"init", "classify", "repeat", "preflight", "row", "arm",
            "finalise", "open", "write", "saved"}
Handling == {"handler", "partial open", "partial write"}
Stopped == {"rendered", "rejected", "nothing saved", "error", "crashed", "killed"}

Init ==
    /\ pc = "init"
    /\ made = [b \in Blocks |-> 0]
    /\ hops = [a \in Arms |-> <<>>]
    /\ posture = [a \in Arms |-> BlankPosture]
    /\ noted = [a \in Arms |-> FALSE]
    /\ prev = [a \in Arms |-> SourceIp]
    /\ rep = 0 /\ ttl = 1 /\ arm = <<1, 1>>
    /\ skip = FALSE /\ success = FALSE /\ context = FALSE
    /\ files = [kind \in {"full", "partial"} |-> NoFile]
    /\ interrupts = 0

-----------------------------------------------------------------------------
(* Preparation *)

\* initialize_json_first_nodes: one entry per packet for each destination.
NextBlock == IF made[Packets] = made[1] THEN 1 ELSE Packets

AppendEntry ==
    /\ pc = "init"
    /\ made[Packets] < Len(Destinations)
    /\ made' = [made EXCEPT ![NextBlock] = @ + 1]
    /\ pc' = IF made'[Packets] = Len(Destinations) THEN "classify" ELSE "init"
    /\ UNCHANGED <<hops, posture, noted, loop, context, files, interrupts>>

ClassifyBeforeTrace ==
    /\ pc = "classify"
    /\ context' = TRUE
    /\ posture' = [a \in Arms |-> PreTracePosture]
    /\ pc' = "repeat"
    /\ UNCHANGED <<made, hops, noted, loop, files, interrupts>>

\* Mutant: the nodes of the last repeat are kept.
StartRepeatOnOldNodes ==
    /\ pc = "repeat"
    /\ rep < Repeats
    /\ rep' = rep + 1
    /\ ttl' = 1 /\ arm' = <<1, 1>>
    /\ pc' = IF Paris THEN "preflight" ELSE "row"
    /\ UNCHANGED <<entries, prev, skip, success, context, files, interrupts>>

StartRepeat ==
    /\ pc = "repeat"
    /\ rep < Repeats
    /\ rep' = rep + 1
    /\ prev' = [a \in Arms |-> SourceIp]
    /\ ttl' = 1 /\ arm' = <<1, 1>>
    /\ pc' = IF Paris THEN "preflight" ELSE "row"
    /\ UNCHANGED <<entries, skip, success, context, files, interrupts>>

LastArm == arm = <<Packets, Len(Destinations)>>
FollowingArm ==
    IF LastArm THEN <<1, 1>>
    ELSE IF arm[2] < Len(Destinations) THEN <<arm[1], arm[2] + 1>>
    ELSE <<arm[1] + 1, 1>>

\* generate_packets_for_each_ip: one exchange per arm before the TTL loop.
Preflight ==
    /\ pc = "preflight"
    /\ \E answered \in BOOLEAN :
          noted' = [noted EXCEPT ![arm] = @ \/ ~answered]
    /\ arm' = FollowingArm
    /\ pc' = IF LastArm THEN "row" ELSE "preflight"
    /\ UNCHANGED <<made, hops, posture, prev, rep, ttl, skip, success,
                   context, files, interrupts>>

-----------------------------------------------------------------------------
(* The trace loop *)

\* Mutant: compares with the first destination.
ReachedFirst(a) == prev[a] = Destinations[1]

\* are_equal, and already_reached_destination_int for one arm.
Reached(a) == prev[a] = Dst(a)
AllReached == \A a \in Arms : Reached(a)

StartRow ==
    /\ pc = "row"
    /\ skip' = (~Continue /\ AllReached)
    /\ pc' = "arm"
    /\ UNCHANGED <<entries, prev, rep, ttl, arm, success, context, files, interrupts>>

\* Mutant: one TTL too many.
EndTurnLate(result) ==
    /\ hops' = [hops EXCEPT ![arm] = AddHop(@, ttl, result)]
    /\ arm' = FollowingArm
    /\ ttl' = IF LastArm /\ ttl <= MaxTtl THEN ttl + 1 ELSE ttl
    /\ pc' = IF ~LastArm THEN "arm" ELSE IF ttl <= MaxTtl THEN "row" ELSE "repeat"
    /\ UNCHANGED <<made, posture, noted, rep, skip, context, files, interrupts>>

\* The arm whose turn it was has its result; on to the next turn.
EndTurn(result) ==
    /\ hops' = [hops EXCEPT ![arm] = AddHop(@, ttl, result)]
    /\ arm' = FollowingArm
    /\ ttl' = IF LastArm /\ ttl < MaxTtl THEN ttl + 1 ELSE ttl
    /\ pc' = IF ~LastArm THEN "arm" ELSE IF ttl < MaxTtl THEN "row" ELSE "repeat"
    /\ UNCHANGED <<made, posture, noted, rep, skip, context, files, interrupts>>

\* The row no probe is sent in, because every arm has reached its destination.
SkipTurn ==
    /\ pc = "arm"
    /\ skip
    /\ EndTurn(Dash)
    /\ UNCHANGED <<prev, success>>

\* A turn of an arm that reached its destination while another one has not.
ReachedTurn ==
    /\ pc = "arm"
    /\ ~skip /\ ~Continue /\ Reached(arm)
    /\ EndTurn(Dash)
    /\ success' = TRUE
    /\ UNCHANGED prev

\* Mutant: only an answer makes the trace successful.
ProbeTurnNeedsAnswer ==
    /\ pc = "arm"
    /\ ~skip
    /\ Continue \/ ~Reached(arm)
    /\ \E result \in Outcomes(arm) :
          /\ EndTurn(result)
          /\ prev' = IF Reached(arm) THEN prev ELSE [prev EXCEPT ![arm] = result.from]
          /\ success' = (success \/ result.from # Silence)

ProbeTurn ==
    /\ pc = "arm"
    /\ ~skip
    /\ Continue \/ ~Reached(arm)
    /\ \E result \in Outcomes(arm) :
          /\ EndTurn(result)
          /\ prev' = IF Reached(arm) THEN prev ELSE [prev EXCEPT ![arm] = result.from]
    /\ success' = TRUE

\* sr() or the port reservation raised: main prints the error and exits 2.
ProbeError ==
    /\ pc \in {"preflight", "arm"}
    /\ pc = "arm" => ~skip /\ (Continue \/ ~Reached(arm))
    /\ pc' = "error"
    /\ UNCHANGED <<entries, loop, context, files, interrupts>>

-----------------------------------------------------------------------------
(* Saving and rendering *)

\* Mutant: the repeat loop ends one repeat later than it starts one.
EndTraceLate ==
    /\ pc = "repeat"
    /\ rep > Repeats
    /\ pc' = IF success THEN "finalise" ELSE "nothing saved"
    /\ UNCHANGED <<entries, loop, context, files, interrupts>>

EndTrace ==
    /\ pc = "repeat"
    /\ rep = Repeats
    /\ pc' = IF success THEN "finalise" ELSE "nothing saved"
    /\ UNCHANGED <<entries, loop, context, files, interrupts>>

FinaliseMeasurements ==
    posture' = IF context THEN [a \in Arms |-> PostTracePosture(a, hops[a])]
               ELSE posture

Finalise ==
    /\ pc = "finalise"
    /\ FinaliseMeasurements
    /\ pc' = "open"
    /\ UNCHANGED <<made, hops, noted, loop, context, files, interrupts>>

\* The exclusive open creates the file; its content is written afterwards.
OpenFile(kind, at, next) ==
    /\ pc = at
    /\ files' = [files EXCEPT ![kind] = Truncated]
    /\ pc' = next
    /\ UNCHANGED <<entries, loop, context, interrupts>>

WriteFile(kind, at, next, n) ==
    /\ pc = at
    /\ files' = [files EXCEPT ![kind] = Holding(Document(n))]
    /\ pc' = next
    /\ UNCHANGED <<entries, loop, context, interrupts>>

OpenMeasurement == OpenFile("full", "open", "write")
WriteMeasurement == WriteFile("full", "write", "saved", Len(Destinations))
OpenPartial == OpenFile("partial", "partial open", "partial write")
WritePartial == WriteFile("partial", "partial write", "render", made[1])

ReturnPath ==
    /\ pc = "saved"
    /\ pc' = "render"
    /\ UNCHANGED <<entries, loop, context, files, interrupts>>

\* measurement_path after the try statement of main.
MeasurementPath == IF interrupts = 0 THEN "full" ELSE "partial"

Render ==
    /\ pc = "render"
    /\ pc' = IF Renderable(files[MeasurementPath].doc) THEN "rendered" ELSE "rejected"
    /\ UNCHANGED <<entries, loop, context, files, interrupts>>

-----------------------------------------------------------------------------
(* Ctrl-C *)

\* KeyboardInterrupt leaves trace_route for main's handler.
Interrupt ==
    /\ pc \in Running
    /\ interrupts < MaxInterrupts
    /\ interrupts' = interrupts + 1
    /\ pc' = "handler"
    /\ UNCHANGED <<entries, loop, context, files>>

\* A second one, inside the handler, or one while rendering, is not caught.
InterruptHandler ==
    /\ pc \in Handling \cup {"render"}
    /\ interrupts < MaxInterrupts
    /\ interrupts' = interrupts + 1
    /\ pc' = "killed"
    /\ UNCHANGED <<entries, loop, context, files>>

\* Mutants: an interrupted trace keeps the flags it started with (as the code
\* once did); it is saved only in its last repeat.
SavePartialUnclassified ==
    /\ pc = "handler"
    /\ pc' = IF made[1] = 0 THEN "nothing saved"
             ELSE IF made[Packets] < made[1] THEN "crashed" ELSE "partial open"
    /\ UNCHANGED <<entries, loop, context, files, interrupts>>
SavePartialInLastRepeat ==
    /\ pc = "handler"
    /\ IF rep < Repeats
       THEN pc' = "nothing saved" /\ UNCHANGED posture
       ELSE FinaliseMeasurements /\ pc' = "partial open"
    /\ UNCHANGED <<made, hops, noted, loop, context, files, interrupts>>

\* save_partial_measurement up to the point where the file is opened.
SavePartialMeasurement ==
    /\ pc = "handler"
    /\ IF made[1] = 0
       THEN pc' = "nothing saved" /\ UNCHANGED posture
       ELSE /\ FinaliseMeasurements
            \* measurement_data_save[1][ip_steps] is out of range otherwise
            /\ pc' = IF made[Packets] < made[1] THEN "crashed" ELSE "partial open"
    /\ UNCHANGED <<made, hops, noted, loop, context, files, interrupts>>

-----------------------------------------------------------------------------
Progress ==
    \/ AppendEntry \/ ClassifyBeforeTrace \/ StartRepeat \/ Preflight
    \/ StartRow \/ SkipTurn \/ ReachedTurn \/ ProbeTurn
    \/ EndTrace \/ Finalise \/ OpenMeasurement \/ WriteMeasurement \/ ReturnPath
    \/ SavePartialMeasurement \/ OpenPartial \/ WritePartial
    \/ Render

Next == Progress \/ ProbeError \/ Interrupt \/ InterruptHandler

Spec == Init /\ [][Next]_vars

\* The process keeps running: sr() always returns within its timeout.
FairSpec == Spec /\ WF_vars(Progress)
-----------------------------------------------------------------------------
(* Properties *)

\* The answers of repeat r, in TTL order, without the padding.
Path(h, r) ==
    LET answered[k \in 0..Len(h)] ==
            IF k = 0 THEN <<>>
            ELSE IF r > Len(h[k]) \/ h[k][r].from = "-" THEN answered[k - 1]
            ELSE Append(answered[k - 1], h[k][r])
    IN  answered[Len(h)]

Froms(path) == [k \in Indices(path) |-> path[k].from]

Written == {f.doc : f \in {files[kind] : kind \in {"full", "partial"}} \ {NoFile, Truncated}}

\* The state of the loops and of the collected data has the shape the code
\* gives it.
TypeOK ==
    /\ pc \in Running \cup Handling \cup Stopped \cup {"render"}
    /\ made \in [Blocks -> 0..Len(Destinations)]
    /\ hops \in [Arms -> Seq(Seq(Results))]
    /\ posture \in [Arms -> Postures]
    /\ noted \in [Arms -> BOOLEAN]
    /\ prev \in [Arms -> Addresses \cup {Silence}]
    /\ rep \in 0..Repeats /\ ttl \in 1..MaxTtl /\ arm \in Arms
    /\ skip \in BOOLEAN /\ success \in BOOLEAN /\ context \in BOOLEAN
    /\ interrupts \in 0..MaxInterrupts

\* The hops of arm a that already have their result of the current repeat.
Taken(a) == pc = "arm" /\ (a[1] < arm[1] \/ (a[1] = arm[1] /\ a[2] < arm[2]))
Filled(a) == IF pc = "repeat" THEN MaxTtl ELSE IF Taken(a) THEN ttl ELSE ttl - 1

Looping == {"init", "classify", "repeat", "preflight", "row", "arm"}

\* Position is repeat: while the loops run, a hop has one result per repeat
\* that passed it, for every arm, so the r-th result of every hop belongs to
\* repeat r.  vis joins the results of one position into one path.
RepeatsAligned ==
    pc \in Looping =>
        \A a \in Arms :
            /\ rep = 0 => hops[a] = <<>>
            /\ rep > 0 => Len(hops[a]) = (IF rep = 1 THEN Filled(a) ELSE MaxTtl)
            /\ rep > 0 => \A k \in Indices(hops[a]) :
                  Len(hops[a][k]) = (IF k <= Filled(a) THEN rep ELSE rep - 1)

\* Without --continue, the results after the one in which the destination
\* answered are padding in that repeat, whatever the other arms did meanwhile:
\* nothing is ever sent past an answering destination.
StopsAtDestination ==
    ~Continue =>
        \A a \in Arms : \A j, k \in Indices(hops[a]) :
            \A r \in Indices(hops[a][k]) :
                (j < k /\ r \in Indices(hops[a][j]) /\ hops[a][j][r].from = Dst(a))
                    => hops[a][k][r].from = "-"

\* A hop is padded only where the destination answered earlier in that same
\* repeat, or is the probing host itself: "-" never hides a hop that was owed
\* a probe.
PaddingIsEarned ==
    \A a \in Arms : \A k \in Indices(hops[a]) : \A r \in Indices(hops[a][k]) :
        hops[a][k][r].from = "-" =>
            \/ Dst(a) = SourceIp
            \/ \E j \in 1..(k - 1) : hops[a][j][r].from = Dst(a)

\* No hop has more results than the first, in memory and in every written
\* capture: vis sizes its per-repeat state from the first hop and indexes it
\* with the position of the result in every later one.
FirstHopIsWidest ==
    /\ \A a \in Arms : \A k \in Indices(hops[a]) : Len(hops[a][k]) <= Len(hops[a][1])
    /\ \A doc \in Written : \A a \in DOMAIN doc : \A k \in Indices(doc[a].hops) :
          Len(doc[a].hops[k]) <= Len(doc[a].hops[1])

\* The flags of a written capture follow from the hops in that same capture,
\* on the normal and on the interrupted path: "cleared" only over an answer of
\* the destination, none of them forged, and no RST flood; "silently dropped"
\* only where nothing in the destination's name is shown; a CGNAT hop that is
\* shown is flagged.
PostureMatchesHops ==
    \A doc \in Written : \A a \in DOMAIN doc :
        LET h == doc[a].hops
            p == doc[a].posture
            home == FromDestination(a, h)
        IN  /\ p.path.dpi_cleared =>
                  /\ home # {} /\ \A c \in home : ~c.forged
                  /\ \A c \in Collected(h) : c.rst < RstThreshold
            /\ p.path.tcp_silently_dropped => home = {}
            /\ (\E c \in Collected(h) : c.from \in CgnatAddrs) => p.path.cgnat_hop
            /\ (\E c \in home : c.forged) => p.reply_forged

\* Where the trace, or the handler of a Ctrl-C, returns without a file, there was
\* nothing to write: no probe had been sent.  (Not so where it raises, which is
\* exit code 2, or where a second Ctrl-C ends the process.)
NothingLostSilently ==
    pc = "nothing saved" =>
        \A a \in Arms : \A c \in Collected(hops[a]) : c.from = "-"

\* main: "Don't let Ctrl-C silently discard an in-progress trace".  Once a
\* result is in memory, a Ctrl-C leads to a partial capture in which every
\* collected path is present, unless a second Ctrl-C ends the process.
InterruptSaves ==
    (pc = "handler" /\ \E a \in Arms : hops[a] # <<>>)
        ~> \/ pc = "killed"
           \/ \E doc \in Written : \A a \in Arms :
                 /\ a \in DOMAIN doc
                 /\ \A r \in 1..Repeats : Path(doc[a].hops, r) = Path(hops[a], r)

\* Every trace comes to an end.
Terminates == <>(pc \in Stopped)

\* The detailed trace is a Traceroute: the columns of the hop lists, without
\* their padding, are the paths, and the cleaned hop lists in the files show
\* the same paths.
PathsOf(h) == [a \in Arms |-> [r \in 1..Repeats |->
                  IF a \in DOMAIN h THEN Froms(Path(h[a], r)) ELSE <<>>]]
HopsIn(doc) == [a \in DOMAIN doc |-> doc[a].hops]

Promise == INSTANCE Traceroute WITH
    Walkers <- Arms, Target <- Dst, Replies <- Addresses \cup {Silence},
    Longest <- MaxTtl, Rounds <- Repeats, Past <- Continue, Home <- SourceIp,
    paths <- PathsOf(hops), round <- rep,
    captures <- {PathsOf(HopsIn(doc)) : doc \in Written}

TraceroutePromise == Promise!TSpec
=============================================================================
