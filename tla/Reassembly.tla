------------------------------ MODULE Reassembly ------------------------------
(***************************************************************************)
(* --reassembly-probe: one ClientHello sent whole, then cut into segments    *)
(* with growing pauses between them, until the block that reads its SNI      *)
(* stops firing (utils/reassembly.py, driven by tracevis.run_reassembly_probe).*)
(* Every probe is a connection of its own.                                   *)
(*                                                                          *)
(* The middlebox is the environment: it blocks nothing, or a payload it sees *)
(* whole in one packet, or one it sees whole in the stream it keeps for as   *)
(* long as no pause reaches `hold`.  An answer can get lost, which the probe *)
(* cannot tell from a block that drops silently; `lost` remembers where.     *)
(* Which bytes the payload holds plays no part: a segment is its place in it.*)
(***************************************************************************)
EXTENDS Integers, Sequences, FiniteSets

CONSTANTS
    Delays,         \* delays_ms of sweep_plan, DEFAULT_DELAYS_MS in the program
    SegmentCount,   \* segment_count, 4 in the program
    PayloadLength,  \* bytes of the ClientHello
    Holds           \* how long a middlebox may keep a partial stream

ASSUME DelaysAssumption == Delays \in Seq(Nat) /\ Len(Delays) > 0 /\ Delays[1] = 0
ASSUME SegmentAssumption == SegmentCount \in Nat \ {0, 1}
ASSUME PayloadAssumption == PayloadLength \in Nat \ {0, 1}
ASSUME HoldsAssumption == Holds \subseteq Nat \ {0}

Boxes == {"none", "packet", "stream"}
Answers == {"blocked", "delivered", "unknown"}
Verdicts == {"reassembles", "no reassembly", "buffer measured",
             "not stream based", "inconclusive"}

VARIABLES
    box,        \* what blocks on the path
    hold,       \* the pause after which a stream box forgets
    step,       \* where the sweep is
    probe,      \* index into the plan of the probe under way
    sent,       \* segments of it that have been sent
    kept,       \* first byte of the stretch up to the last segment the box holds
    fired,      \* the block fired on this probe
    outcomes,   \* control_outcome and results, in the order of the plan
    lost,       \* history: the probes whose answer was lost
    verdict,    \* SweepResult.verdict, "none" before it is known
    bufferMs    \* SweepResult.buffer_ms, -1 for None

pathVars == <<box, hold>>
connVars == <<sent, kept, fired>>
sweepVars == <<box, hold, step, probe, sent, kept, fired, outcomes, lost, verdict, bufferMs>>

ReassemblyInit ==
    /\ box = "none" /\ hold = 0
    /\ step = "idle"
    /\ probe = 1 /\ sent = 0 /\ kept = 0 /\ fired = FALSE
    /\ outcomes = <<>> /\ lost = {}
    /\ verdict = "none" /\ bufferMs = -1

-----------------------------------------------------------------------------
\* sweep_plan: the whole payload first, then every pause with all segments.
Plan == <<[count |-> 1, delay |-> 0]>>
        \o [i \in DOMAIN Delays |-> [count |-> SegmentCount, delay |-> Delays[i]]]

\* Mutant: the remainder of the division is in no segment.
SegmentsDropRemainder(count, delay) ==
    LET n == IF count < PayloadLength THEN count ELSE PayloadLength
    IN  [i \in 1..n |->
           [seq |-> (i - 1) * (PayloadLength \div n), size |-> PayloadLength \div n,
            delay |-> IF i = 1 THEN 0 ELSE delay]]

\* segment_payload: equal parts, one byte more for the first `extra` of them; no pause
\* before the first.
Segments(count, delay) ==
    LET n == IF count < PayloadLength THEN count ELSE PayloadLength
        base == PayloadLength \div n
        extra == PayloadLength % n
        first(i) == (i - 1) * base + (IF i - 1 < extra THEN i - 1 ELSE extra)
    IN  [i \in 1..n |-> [seq |-> first(i), size |-> first(i + 1) - first(i),
                         delay |-> IF i = 1 THEN 0 ELSE delay]]

Current == Segments(Plan[probe].count, Plan[probe].delay)

\* The outcome of a probe is noted; a pause follows unless it was the last.
Record(outcome) ==
    /\ outcomes' = Append(outcomes, outcome)
    /\ step' = IF probe < Len(Plan) THEN "pause" ELSE "classify"

\* A path is found as it is; the target parsed and the ClientHello was built.
BeginSweep ==
    /\ step = "idle"
    /\ step' = "syn"
    /\ \/ box' \in {"none", "packet"} /\ UNCHANGED hold
       \/ box' = "stream" /\ hold' \in Holds
    /\ UNCHANGED <<probe, connVars, outcomes, lost, verdict, bufferMs>>

\* No answer to the SYN, or one that is no SYN-ACK, says nothing about the box.
SynFails ==
    /\ step = "syn"
    /\ Record("unknown")
    /\ UNCHANGED <<pathVars, probe, connVars, lost, verdict, bufferMs>>

SynAnswered ==
    /\ step = "syn"
    /\ step' = "send"
    /\ sent' = 0 /\ kept' = 0 /\ fired' = FALSE
    /\ UNCHANGED <<pathVars, probe, outcomes, lost, verdict, bufferMs>>

\* A segment leaves after its pause.  A stream box that has waited `hold` has
\* let go of what came before; it fires once it holds the whole payload.
SendSegment ==
    /\ step = "send"
    /\ sent < Len(Current)
    /\ LET s == Current[sent + 1] IN
          /\ kept' = IF box # "stream" \/ s.delay >= hold THEN s.seq ELSE kept
          /\ fired' = (fired \/ /\ box # "none"
                                /\ kept' = 0
                                /\ s.seq + s.size = PayloadLength)
    /\ sent' = sent + 1
    /\ UNCHANGED <<pathVars, step, probe, outcomes, lost, verdict, bufferMs>>

\* The last ACK asks for an answer: a reset or silence is a block, bytes are a
\* delivery.  Silence because the answer was lost is a block as well.
FinalAck ==
    /\ step = "send"
    /\ sent = Len(Current)
    /\ \/ /\ Record(IF fired THEN "blocked" ELSE "delivered")
          /\ UNCHANGED lost
       \/ /\ ~fired
          /\ Record("blocked")
          /\ lost' = lost \cup {probe}
    /\ UNCHANGED <<pathVars, probe, connVars, verdict, bufferMs>>

NextProbe ==
    /\ step = "pause"
    /\ step' = "syn"
    /\ probe' = probe + 1
    /\ UNCHANGED <<pathVars, connVars, outcomes, lost, verdict, bufferMs>>

-----------------------------------------------------------------------------
\* classify_sweep.  Pauses(o): the pauses whose probe had outcome o.
Pauses(o) == {Delays[i] : i \in {j \in DOMAIN Delays : outcomes[j + 1] = o}}
LastBlocked == CHOOSE d \in Pauses("blocked") : \A e \in Pauses("blocked") : e <= d
Above == {d \in Pauses("delivered") : d > LastBlocked}
\* Mutant: the last pause the block survived is reported as the buffer's end.
LastBlockedAsBuffer == LastBlocked
FirstDelivered == CHOOSE d \in Above : \A e \in Above : d <= e

Verdict ==
    IF outcomes[1] = "unknown" \/ Pauses("blocked") \cup Pauses("delivered") = {}
    THEN "inconclusive"
    ELSE IF outcomes[1] = "delivered" THEN "not stream based"
    ELSE IF Pauses("blocked") = {} THEN "no reassembly"
    ELSE IF Pauses("delivered") = {} THEN "reassembles"
    ELSE IF Above = {} THEN "inconclusive" ELSE "buffer measured"

Classify ==
    /\ step = "classify"
    /\ step' = "done"
    /\ verdict' = Verdict
    /\ bufferMs' = IF Verdict = "buffer measured" THEN FirstDelivered ELSE -1
    /\ UNCHANGED <<pathVars, probe, connVars, outcomes, lost>>

Sweep == SynFails \/ SynAnswered \/ SendSegment \/ FinalAck \/ NextProbe \/ Classify
ReassemblyNext == BeginSweep \/ Sweep
ReassemblySpec == ReassemblyInit /\ [][ReassemblyNext]_sweepVars
-----------------------------------------------------------------------------
(* Properties *)

\* The sweep keeps its types and has one outcome per probe that has ended.
SweepTypes ==
    /\ box \in Boxes /\ hold \in Holds \cup {0}
    /\ step \in {"idle", "syn", "send", "pause", "classify", "done"}
    /\ probe \in 1..Len(Plan) /\ sent \in 0..SegmentCount
    /\ kept \in 0..PayloadLength /\ fired \in BOOLEAN
    /\ outcomes \in Seq(Answers) /\ lost \subseteq 1..Len(Plan)
    /\ Len(outcomes) = probe - (IF step \in {"idle", "syn", "send"} THEN 1 ELSE 0)
    /\ verdict \in Verdicts \cup {"none"}
    /\ bufferMs \in Nat \cup {-1}

\* classify_sweep judges the middlebox that is on the path, whichever probes
\* failed, as long as no answer was lost: the segments of a probe make up the
\* payload, the pauses reach the box, and the threshold is read off the right
\* outcomes.
VerdictIsTrue ==
    (step = "done" /\ lost = {}) =>
        /\ verdict = "not stream based" => box = "none"
        /\ verdict = "no reassembly" =>
               box = "packet" \/ (box = "stream" /\ outcomes[2] = "unknown")
        /\ verdict = "reassembles" => box = "stream" /\ hold > LastBlocked
        /\ verdict = "buffer measured" =>
               box = "stream" /\ LastBlocked < hold /\ hold <= bufferMs
        /\ verdict = "inconclusive" =>
               outcomes[1] = "unknown" \/ \A i \in 2..Len(Plan) : outcomes[i] = "unknown"

\* Lost answers make a block of a delivery, so they can raise the measured
\* pause and never push it below the one after which the box really forgets.
BufferHasExpired ==
    (step = "done" /\ box = "stream" /\ verdict = "buffer measured") => bufferMs >= hold
=============================================================================
