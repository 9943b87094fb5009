-------------------------------- MODULE Atlas --------------------------------
(***************************************************************************)
(* --vps and --ripe: measurements downloaded from RIPE Atlas (utils/ripe_    *)
(* atlas.py), and for --vps the outages IODA knows of written onto each of   *)
(* them (utils/ioda.py).                                                     *)
(*                                                                          *)
(* Atlas, IODA and the disk are the environment: a request is answered with  *)
(* a result, with nothing, or fails; IODA answers a span of time with every  *)
(* outage, ended or not, that began before its end and no longer before its   *)
(* start than the query looks back, or not at all.  Times are small numbers, *)
(* 0 a missing one; an outage that is still going on has `until` 0.  Hops,    *)
(* countries and data sources play no part.                                  *)
(***************************************************************************)
EXTENDS Integers, Sequences, FiniteSets, SequencesExt, FiniteSetsExt

CONSTANTS
    Requests,       \* how many probe and measurement ids there are to ask for
    Times,          \* the instants a result may carry
    Gap,            \* SPAN_MERGE_GAP
    LookBack,       \* EXTEND_WINDOW
    OutageSets      \* what may have happened in the country

ASSUME AtlasAssumption ==
    Requests \in Nat \ {0} /\ Times \subseteq Nat \ {0} /\ Gap \in Nat /\ LookBack \in Nat
ASSUME OutageAssumption ==
    \A O \in OutageSets : \A o \in O : o.from \in Nat /\ o.until \in Nat

\* A downloaded result, as far as it matters: its `timestamp` and `endtime`.
Downloads == [timestamp : Times \cup {0}, endtime : Times \cup {0}]

VARIABLES
    job,            \* where the download and the annotation are
    multi,          \* download_multi_from_atlas, not download_from_atlas
    outages,        \* the outages there really were
    asked,          \* requests made so far
    measurements,   \* all_measurements
    answered,       \* events_by_span: the spans IODA answered
    refused,        \* the spans it did not answer
    verdicts,       \* ioda_status["outage"] of each measurement, or "none"
    disk            \* the capture: "absent", "cut" or what was written last

atlasVars == <<job, multi, outages, asked, measurements, answered, refused, verdicts, disk>>
annotation == <<answered, refused, verdicts>>

AtlasInit ==
    /\ job = "idle" /\ multi = FALSE /\ outages = {}
    /\ asked = 0 /\ measurements = <<>>
    /\ answered = {} /\ refused = {} /\ verdicts = <<>>
    /\ disk = "absent"

-----------------------------------------------------------------------------
(* The download *)

\* --ripe follows --vps in one run of main and starts over.
BeginDownload(several) ==
    /\ job' = "download"
    /\ multi' = several
    /\ outages' \in OutageSets
    /\ asked' = 0 /\ measurements' = <<>>
    /\ answered' = {} /\ refused' = {} /\ verdicts' = <<>>
    /\ disk' = "absent"

Asking == job = "download" /\ asked < Requests

ResultArrives ==
    /\ Asking
    /\ \E m \in Downloads : measurements' = Append(measurements, m)
    /\ asked' = asked + 1
    /\ UNCHANGED <<job, multi, outages, annotation, disk>>

\* Both skip a null.  An empty list the one skips as well; in the other it is
\* an IndexError.
NothingArrives ==
    /\ Asking
    /\ asked' = asked + 1
    /\ UNCHANGED <<job, multi, outages, measurements, annotation, disk>>

EmptyListArrives ==
    /\ Asking
    /\ ~multi
    /\ job' = "raised"
    /\ UNCHANGED <<multi, outages, asked, measurements, annotation, disk>>

\* urlopen, which has no timeout here, raises: nobody catches it and what was
\* downloaded is gone.
RequestRaises ==
    /\ Asking
    /\ job' = "raised"
    /\ UNCHANGED <<multi, outages, asked, measurements, annotation, disk>>

\* Nothing to save ends the program with exit code 1.
SaveDownload ==
    /\ job = "download"
    /\ asked = Requests
    /\ \/ measurements = <<>> /\ job' = "raised" /\ UNCHANGED <<verdicts, disk>>
       \/ /\ measurements # <<>>
          /\ disk' = "downloaded"
          /\ verdicts' = [i \in DOMAIN measurements |-> "none"]
          /\ job' = IF multi THEN "annotate" ELSE "ready"
    /\ UNCHANGED <<multi, outages, asked, measurements, answered, refused>>

\* An OSError of the open or of the dump is caught by nobody.
SaveFails ==
    /\ job = "download"
    /\ asked = Requests
    /\ measurements # <<>>
    /\ job' = "raised"
    /\ disk' \in {"absent", "cut"}
    /\ UNCHANGED <<multi, outages, asked, measurements, annotation>>

-----------------------------------------------------------------------------
(* The annotation *)

\* The capture that was just saved cannot be read: it is left as it is.
Unread ==
    /\ job = "annotate"
    /\ answered = {} /\ refused = {}
    /\ job' = "ready"
    /\ UNCHANGED <<multi, outages, asked, measurements, annotation, disk>>

\* measurement_window: an end before the start, or none, makes it an instant.
HasWindow(m) == m.timestamp > 0
Start(m) == m.timestamp
End(m) == IF m.endtime < m.timestamp THEN m.timestamp ELSE m.endtime
Timed == {m \in ToSet(measurements) : HasWindow(m)}

\* merge_spans: a span starts at a window that all earlier ones ended more
\* than Gap before, and lasts to the last end before the next span.
SpanStarts == {s \in {Start(m) : m \in Timed} :
                  \A m \in Timed : Start(m) < s => s - End(m) > Gap}

Span(s) ==
    LET here == {m \in Timed : Start(m) >= s
                    /\ \A t \in SpanStarts : t > s => Start(m) < t}
    IN  <<s, Max({End(m) : m \in here})>>
Spans == {Span(s) : s \in SpanStarts}

\* Spans are asked for in the order of time.
NextSpan ==
    CHOOSE sp \in Spans \ (answered \cup refused) :
        \A other \in Spans \ (answered \cup refused) : sp[1] <= other[1]

FetchEvents ==
    /\ job = "annotate"
    /\ Spans \ (answered \cup refused) # {}
    /\ \/ answered' = answered \cup {NextSpan} /\ UNCHANGED refused
       \/ refused' = refused \cup {NextSpan} /\ UNCHANGED answered
    /\ UNCHANGED <<job, multi, outages, asked, measurements, verdicts, disk>>

\* What IODA returns for a span: it looks back from the start for where an
\* outage began, so ended ones come too, and older ones do not.
Events(span) == {o \in outages : o.from >= span[1] - LookBack /\ o.from <= span[2]}

\* events_overlapping with the measurement's own window.
Overlapping(events, m) ==
    {o \in events : o.from <= End(m) /\ (o.until = 0 \/ o.until >= Start(m))}

Covering(m) == {sp \in answered : sp[1] <= Start(m) /\ End(m) <= sp[2]}

\* Mutant: no answer for a measurement reads as no outage.
JudgeUnanswered(m) ==
    IF ~HasWindow(m) THEN "none"
    ELSE IF \E sp \in Covering(m) : Overlapping(Events(sp), m) # {} THEN "outage" ELSE "clear"

Judge(m) ==
    IF ~HasWindow(m) \/ Covering(m) = {} THEN "none"
    ELSE IF \E sp \in Covering(m) : Overlapping(Events(sp), m) # {} THEN "outage" ELSE "clear"

\* Without a usable window the capture is left as it is.
Annotate ==
    /\ job = "annotate"
    /\ Spans \ (answered \cup refused) = {}
    /\ \/ Spans = {} /\ job' = "ready" /\ UNCHANGED verdicts
       \/ /\ Spans # {}
          /\ verdicts' = [i \in DOMAIN measurements |-> Judge(measurements[i])]
          /\ job' = "reopen"
    /\ UNCHANGED <<multi, outages, asked, measurements, answered, refused, disk>>

\* open(..., "w") empties the capture, the dump fills it again; an OSError of
\* either is caught.
Reopen ==
    /\ job = "reopen"
    /\ \/ disk' = "cut" /\ job' = "dump"
       \/ job' = "ready" /\ UNCHANGED disk
    /\ UNCHANGED <<multi, outages, asked, measurements, annotation>>

Dump ==
    /\ job = "dump"
    /\ job' = "ready"
    /\ \/ disk' = "annotated"
       \/ UNCHANGED disk
    /\ UNCHANGED <<multi, outages, asked, measurements, annotation>>

Download ==
    \/ ResultArrives \/ NothingArrives \/ EmptyListArrives \/ RequestRaises
    \/ SaveDownload \/ SaveFails \/ Unread \/ FetchEvents \/ Annotate \/ Reopen \/ Dump

\* The download and the annotation by themselves.
AtlasNext ==
    \/ job = "idle" /\ \E several \in BOOLEAN : BeginDownload(several)
    \/ Download
AtlasSpec == AtlasInit /\ [][AtlasNext]_atlasVars
-----------------------------------------------------------------------------
(* Properties *)

\* Whichever spans were merged and whichever requests failed: an "outage" is one
\* there was while the measurement itself ran; where it says there was none, there
\* was none but such as began longer before the measurement than the query looks
\* back; and without a verdict stays only what has no time, or what lies in a
\* span that was asked for in vain.
JudgedTruly ==
    job \in {"reopen", "dump"} =>
        \A i \in DOMAIN measurements :
            LET m == measurements[i]
                during == {o \in outages : o.from <= End(m)
                                            /\ (o.until = 0 \/ o.until >= Start(m))}
            IN  /\ verdicts[i] = "outage" => during # {}
                /\ verdicts[i] = "clear" => \A o \in during : o.from < Start(m) - LookBack
                /\ HasWindow(m) /\ verdicts[i] = "none" =>
                      \E sp \in refused : sp[1] <= Start(m) /\ End(m) <= sp[2]

\* ioda.py, annotate_measurements: "A failure here never loses the capture".
FailureKeepsCapture == job = "ready" => disk # "cut"
=============================================================================
