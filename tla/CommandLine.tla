----------------------------- MODULE CommandLine -----------------------------
(***************************************************************************)
(* main of tracevis.py from the checked targets to the exit code: which of   *)
(* the sources it was asked for it goes through, in which order, and which   *)
(* capture it draws in the end.  The reassembly probe, the downloads and the *)
(* comparison of arms are the modules Reassembly, Atlas and Arms, whose      *)
(* steps happen while main waits in the call; a trace is one step here and   *)
(* module Trace by itself, a monitored session is module Session.            *)
(***************************************************************************)
EXTENDS Reassembly, Atlas, Arms

CONSTANT Commands       \* the command lines, as records of the options below

Options == [reassembly : BOOLEAN, trace : BOOLEAN, monitor : BOOLEAN, vps : BOOLEAN,
            ripe : BOOLEAN, file : BOOLEAN, csv : BOOLEAN, arms : BOOLEAN]

ASSUME CommandsAssumption == Commands \subseteq Options /\ Commands # {}

VARIABLES
    command,    \* args
    place,      \* the step of main under way
    success,    \* was_successful
    path,       \* measurement_path
    drawn,      \* the capture a graph was drawn of
    exit        \* the exit code, -1 while main runs

mainVars == <<command, place, success, path, drawn, exit>>
componentVars == <<sweepVars, atlasVars, pairing>>
vars == <<mainVars, componentVars>>

Init ==
    /\ ReassemblyInit /\ AtlasInit /\ ArmsInit
    /\ command \in Commands
    /\ place = "targets"
    /\ success = FALSE /\ path = "none" /\ drawn = "none" /\ exit = -1

Go(next) == place' = next /\ UNCHANGED <<command, success, path, drawn, exit>>
Exit(code) ==
    /\ place' = "exit"
    /\ exit' = code
    /\ UNCHANGED <<command, success, path, drawn>>
\* A source has had its turn.
Took(ok, source, next) ==
    /\ success' = ok
    /\ path' = source
    /\ place' = next
    /\ UNCHANGED <<command, drawn, exit>>

-----------------------------------------------------------------------------
(* Before the trace *)

\* --ipv4 with another target, or an IPv6 target of a trace.
RejectTargets ==
    /\ place = "targets"
    /\ Exit(1)
    /\ UNCHANGED componentVars

AcceptTargets ==
    /\ place = "targets"
    /\ Go(IF command.reassembly THEN "reassembly" ELSE "trace")
    /\ UNCHANGED componentVars

\* run_reassembly_probe: nothing is sent to a target that does not parse.
BadProbeTarget ==
    /\ place = "reassembly"
    /\ step = "idle"
    /\ Exit(0)
    /\ UNCHANGED componentVars

ProbeReassembly ==
    /\ place = "reassembly"
    /\ ReassemblyNext
    /\ UNCHANGED <<mainVars, atlasVars, pairing>>

ReassemblyEnds ==
    /\ place = "reassembly"
    /\ step = "done"
    /\ Exit(0)
    /\ UNCHANGED componentVars

-----------------------------------------------------------------------------
(* The sources of the capture, one after the other *)

SkipTrace ==
    /\ place = "trace"
    /\ ~command.trace
    /\ Go("vps")
    /\ UNCHANGED componentVars

\* trace_route returned; without a probe it has no capture to its name.
TraceReturns ==
    /\ place = "trace"
    /\ command.trace /\ ~command.monitor
    /\ \/ Took(TRUE, "trace", "vps")
       \/ Took(FALSE, "none", "vps")
    /\ UNCHANGED componentVars

\* Ctrl-C: what has been collected is saved, if anything was.
TraceInterrupted ==
    /\ place = "trace"
    /\ command.trace
    /\ \/ Took(TRUE, "partial", "vps")
       \/ Took(FALSE, "none", "vps")
    /\ UNCHANGED componentVars

TraceRaises ==
    /\ place = "trace"
    /\ command.trace
    /\ Exit(2)
    /\ UNCHANGED componentVars

\* A monitored session draws its own graphs and is the end of main.  Without a
\* number of runs it goes on until it is interrupted, which it takes itself.
MonitorReturns ==
    /\ place = "trace"
    /\ command.trace /\ command.monitor
    /\ Exit(0)
    /\ UNCHANGED componentVars

SkipDownload ==
    \/ place = "vps" /\ ~command.vps /\ Go("ripe") /\ UNCHANGED componentVars
    \/ place = "ripe" /\ ~command.ripe /\ Go("file") /\ UNCHANGED componentVars

StartDownload ==
    /\ \/ place = "vps" /\ command.vps /\ Go("vps download")
       \/ place = "ripe" /\ command.ripe /\ Go("ripe download")
    /\ BeginDownload(place = "vps")
    /\ UNCHANGED <<sweepVars, pairing>>

\* --vps without a number in it.
NoProbeIds ==
    /\ place = "vps"
    /\ command.vps
    /\ Took(FALSE, "none", "ripe")
    /\ UNCHANGED componentVars

DownloadGoesOn ==
    /\ place \in {"vps download", "ripe download"}
    /\ Download
    /\ UNCHANGED <<mainVars, sweepVars, pairing>>

\* Mutant: the path of an earlier source is kept.
DownloadEndsKeepingPath ==
    /\ job = "ready"
    /\ \/ /\ place = "vps download"
          /\ Took(TRUE, IF success THEN path ELSE "vps", "ripe")
       \/ place = "ripe download" /\ Took(TRUE, "ripe", "file")
    /\ UNCHANGED componentVars

DownloadEnds ==
    /\ job = "ready"
    /\ \/ place = "vps download" /\ Took(TRUE, "vps", "ripe")
       \/ place = "ripe download" /\ Took(TRUE, "ripe", "file")
    /\ UNCHANGED componentVars

\* Mutant: a failed download is tried again.
DownloadRetries ==
    /\ place \in {"vps download", "ripe download"}
    /\ job = "raised"
    /\ BeginDownload(multi)
    /\ UNCHANGED <<mainVars, sweepVars, pairing>>

\* What a download raises, main does not catch.
DownloadRaises ==
    /\ place \in {"vps download", "ripe download"}
    /\ job = "raised"
    /\ Exit(1)
    /\ UNCHANGED componentVars

SkipFile ==
    /\ place = "file"
    /\ ~command.file
    /\ Go("compare")
    /\ UNCHANGED componentVars

\* A table instead of a graph: was_successful stays what it was.
TakeFile ==
    /\ place = "file"
    /\ command.file
    /\ Took(success \/ ~command.csv, "file", "compare")
    /\ UNCHANGED componentVars

\* The files to be combined could not be read or written.
FileRaises ==
    /\ place = "file"
    /\ command.file
    /\ Exit(1)
    /\ UNCHANGED componentVars

-----------------------------------------------------------------------------
(* Comparing and drawing *)

SkipComparison ==
    /\ place = "compare"
    /\ Go("render")
    /\ UNCHANGED componentVars

Compare ==
    /\ place = "compare"
    /\ success /\ command.arms
    /\ CompareArms
    /\ Go("render")
    /\ UNCHANGED <<sweepVars, atlasVars>>

NothingToRender ==
    /\ place = "render"
    /\ ~success
    /\ Exit(0)
    /\ UNCHANGED componentVars

\* The reader takes the capture, or finds something missing in it.
Readable == path \in {"vps", "ripe"} => disk \in {"downloaded", "annotated"}

Render ==
    /\ place = "render"
    /\ success
    /\ Readable
    /\ drawn' = path
    /\ exit' = 0
    /\ place' = "exit"
    /\ UNCHANGED <<command, success, path, componentVars>>

RenderRejects ==
    /\ place = "render"
    /\ success
    /\ Exit(1)
    /\ UNCHANGED componentVars

Sourcing ==
    \/ SkipTrace \/ TraceReturns \/ TraceInterrupted \/ TraceRaises \/ MonitorReturns
    \/ SkipDownload \/ StartDownload \/ NoProbeIds \/ DownloadGoesOn
    \/ DownloadEnds \/ DownloadRaises \/ SkipFile \/ TakeFile \/ FileRaises

Next ==
    \/ RejectTargets \/ AcceptTargets
    \/ BadProbeTarget \/ ProbeReassembly \/ ReassemblyEnds
    \/ Sourcing
    \/ SkipComparison \/ Compare \/ NothingToRender \/ Render \/ RenderRejects

Spec == Init /\ [][Next]_vars
\* main is one thread, and the calls it makes come back: sweeps, traces and the
\* requests to IODA have timeouts.  A request to RIPE Atlas has none, and a
\* monitored session without a number of runs has no end of its own.
Awaiting == place \in {"vps download", "ripe download"} /\ Asking
Monitoring == place = "trace" /\ command.trace /\ command.monitor
FairSpec == Spec /\ WF_vars(~Awaiting /\ ~Monitoring /\ Next)
-----------------------------------------------------------------------------
(* Properties *)

\* What a script can read from the exit code.  0 without a graph is left to a
\* sweep or a monitored session, which draw none here, to a file put into a table,
\* and to a source that made no capture, where no other was named behind it: then
\* a capture that an earlier source did make stays undrawn.  Where there is a
\* graph, it is of the last source asked for, and of a capture that was whole on
\* disk at the time.
ExitTellsTheGraph ==
    /\ exit = 0 /\ drawn = "none" =>
        \/ /\ path = "none"
           /\ \/ command.reassembly
              \/ command.trace /\ command.monitor
              \/ ~command.ripe /\ ~command.file
        \/ path = "file" /\ command.csv
    /\ drawn # "none" =>
        /\ drawn = "file" <=> command.file
        /\ drawn = "ripe" <=> command.ripe /\ ~command.file
        /\ drawn = "vps" => command.vps /\ ~command.ripe /\ ~command.file
        /\ drawn \in {"trace", "partial"} => ~command.vps /\ ~command.ripe /\ ~command.file
        /\ drawn \in {"vps", "ripe"} => disk # "cut"

\* Whatever the network answers, main comes to its end, unless RIPE Atlas leaves
\* one request without an answer for good, or a monitored session is left to go
\* on (one with a number of runs ends: Session, SessionEnds).
MainEnds == <>(exit # -1) \/ <>[]Awaiting \/ <>[]Monitoring
=============================================================================
