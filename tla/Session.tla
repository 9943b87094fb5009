------------------------------- MODULE Session -------------------------------
(***************************************************************************)
(* --monitor: tracevis.run_monitored_session over run_monitor, summarise_    *)
(* measurement and build_trend of utils/monitor.py, and the capture files of *)
(* utils/trace.py that the runs leave behind.  Several processes share one   *)
(* output directory; any of them may be interrupted at any step.             *)
(*                                                                          *)
(* A run is one trace, whose steps Trace has; here it picks what it found.   *)
(* A capture holds, for each destination it probed, whether it was reached,  *)
(* which stands for the whole posture the trend compares; one arm per        *)
(* destination.  Names are stamped to the minute, and all of them in the     *)
(* same minute here: only then can two runs want one name.                   *)
(***************************************************************************)
EXTENDS Integers, Sequences, FiniteSets, Sieve

CONSTANTS
    Sessions,       \* the processes
    Runs,           \* --monitor-runs of each, 0 for "until interrupted"
    IpList,         \* -i of each, empty when the packets name the targets
    PacketDst,      \* the addresses in IP.dst of the packets each was given
    Packets,        \* how many packets that is, one or two
    Addresses,
    MaxPresses,     \* bound on the presses of Ctrl-C
    MaxRuns         \* bound on the runs of a session without --monitor-runs

ASSUME RunsAssumption ==
    /\ Runs \in [Sessions -> Nat]
    /\ MaxRuns \in Nat /\ MaxPresses \in Nat
ASSUME AddressAssumption ==
    /\ IpList \in [Sessions -> SUBSET Addresses]
    /\ Packets \in [Sessions -> {1, 2}]
    /\ PacketDst \in [Sessions -> (SUBSET Addresses) \ {{}}]

Names == [partial : BOOLEAN, counter : Nat \ {0}]
NoName == [partial |-> FALSE, counter |-> 0]
Marks == {"reached", "unreached"}
Captures == UNION {[S -> Marks] : S \in SUBSET Addresses}

VARIABLES
    files,      \* the captures in output_dir by name; a created one is <<>>
    pc,         \* where each session is
    index,      \* run_monitor's index
    dst,        \* the addresses in IP.dst of each session's packet objects
    found,      \* the entries in memory: what the run has measured so far
    name,       \* the name the session tries or holds
    records,    \* RunRecords: the name of the capture, NoName if the run failed
    trend,      \* the trend the session printed, <<>> before
    presses,    \* Ctrl-C presses so far
    measured    \* history: what each recorded run measured

ownVars == <<pc, index, dst, found, name, records, trend, measured>>
sessionVars == <<files, ownVars, presses>>

Init ==
    /\ files = [n \in {} |-> <<>>]
    /\ pc = [s \in Sessions |-> "begin"]
    /\ index = [s \in Sessions |-> 0]
    /\ dst = PacketDst
    /\ found = [s \in Sessions |-> <<>>]
    /\ name = [s \in Sessions |-> NoName]
    /\ records = [s \in Sessions |-> <<>>]
    /\ trend = [s \in Sessions |-> <<>>]
    /\ presses = 0
    /\ measured = [s \in Sessions |-> <<>>]

Goto(s, place) == pc' = [pc EXCEPT ![s] = place]
Stamped(part) == [partial |-> part, counter |-> 1]

-----------------------------------------------------------------------------
(* One run *)

\* Tracer.run: the list that was given, or the addresses in the packets.
RequestIps(s) ==
    IF IpList[s] # {} THEN IpList[s] ELSE dst[s]

\* A run names its capture before the first probe; no entry has a hop yet.
BeginRun(s) ==
    /\ pc[s] = "begin"
    /\ Runs[s] # 0 \/ index[s] < MaxRuns
    /\ index' = [index EXCEPT ![s] = @ + 1]
    /\ found' = [found EXCEPT ![s] = [d \in RequestIps(s) |-> "unreached"]]
    /\ name' = [name EXCEPT ![s] = Stamped(FALSE)]
    /\ Goto(s, "trace")
    /\ UNCHANGED <<files, dst, records, trend, measured, presses>>

\* send_packet writes the destination into the packet it was handed; where
\* each packet object was sent to last depends on who answered when.
TraceRoute(s) ==
    /\ pc[s] = "trace"
    /\ \E reached \in [DOMAIN found[s] -> Marks] :
          found' = [found EXCEPT ![s] = reached]
    /\ \E last \in (SUBSET DOMAIN found[s]) \ {{}} :
          /\ Cardinality(last) <= Packets[s]
          /\ dst' = [dst EXCEPT ![s] = last]
    /\ Goto(s, "open")
    /\ UNCHANGED <<files, index, name, records, trend, measured, presses>>

\* Mutant: the counter starts over with every try.
NameTakenAgain(s) ==
    /\ pc[s] \in {"open", "partial open"}
    /\ name[s] \in DOMAIN files
    /\ name' = [name EXCEPT ![s] = Stamped(@.partial)]
    /\ UNCHANGED <<files, pc, index, dst, found, records, trend, measured, presses>>

\* _open_new_measurement_file: an exclusive creation, and the next counter
\* when the name is taken.
NameTaken(s) ==
    /\ pc[s] \in {"open", "partial open"}
    /\ name[s] \in DOMAIN files
    /\ name' = [name EXCEPT ![s].counter = @ + 1]
    /\ UNCHANGED <<files, pc, index, dst, found, records, trend, measured, presses>>

\* Mutant: creation is not exclusive.
ClaimAnyName(s) ==
    /\ pc[s] \in {"open", "partial open"}
    /\ files' = [n \in DOMAIN files \cup {name[s]} |->
                    IF n = name[s] THEN <<>> ELSE files[n]]
    /\ Goto(s, IF pc[s] = "open" THEN "write" ELSE "partial write")
    /\ UNCHANGED <<index, dst, found, name, records, trend, measured, presses>>

ClaimName(s) ==
    /\ pc[s] \in {"open", "partial open"}
    /\ name[s] \notin DOMAIN files
    /\ files' = [n \in DOMAIN files \cup {name[s]} |->
                    IF n = name[s] THEN <<>> ELSE files[n]]
    /\ Goto(s, IF pc[s] = "open" THEN "write" ELSE "partial write")
    /\ UNCHANGED <<index, dst, found, name, records, trend, measured, presses>>

WriteCapture(s) ==
    /\ pc[s] \in {"write", "partial write"}
    /\ files' = [files EXCEPT ![name[s]] = found[s]]
    /\ Goto(s, IF pc[s] = "write" THEN "render" ELSE "done")
    /\ UNCHANGED <<index, dst, found, name, records, trend, measured, presses>>

\* The loop has made its last run, or sleeps for --monitor-interval.
AfterRun(s) ==
    Goto(s, IF Runs[s] # 0 /\ index[s] >= Runs[s] THEN "report" ELSE "begin")

\* one_run returns the path once the graph is drawn.
Render(s) ==
    /\ pc[s] = "render"
    /\ records' = [records EXCEPT ![s] = Append(@, name[s])]
    /\ measured' = [measured EXCEPT ![s] = Append(@, found[s])]
    /\ name' = [name EXCEPT ![s] = NoName]
    /\ AfterRun(s)
    /\ UNCHANGED <<files, index, dst, found, trend, presses>>

\* A run that raises at any step, or sends no probe, is recorded as failed;
\* so is one whose graph could not be drawn, whose capture stays on disk.  An
\* open that is refused for another reason than the name is a failed trace.
FailRun(s) ==
    /\ pc[s] \in {"trace", "write", "render"}
    /\ records' = [records EXCEPT ![s] = Append(@, NoName)]
    /\ measured' = [measured EXCEPT ![s] = Append(@, <<>>)]
    /\ name' = [name EXCEPT ![s] = NoName]
    /\ AfterRun(s)
    /\ UNCHANGED <<files, index, dst, found, trend, presses>>

-----------------------------------------------------------------------------
(* The trend *)

\* The paths of the completed runs, in the order of the runs.
Paths(s) == Without(records[s], NoName)

\* summarise_measurement has nothing to say about a file without a document.
Summaries(s) ==
    Without([i \in DOMAIN Paths(s) |-> files[Paths(s)[i]]], <<>>)

\* Mutant: a destination missing from a run is left out of the series.
SeriesSkippingAbsent(d, columns) ==
    LET probed == SelectSeq(columns, LAMBDA c : d \in DOMAIN c)
    IN  [i \in DOMAIN probed |-> probed[i][d]]

Series(d, columns) ==
    [i \in DOMAIN columns |->
        IF d \in DOMAIN columns[i] THEN columns[i][d] ELSE "absent"]

\* build_trend: one series per destination any run has seen, with its holes.
BuildTrend(columns) ==
    [d \in UNION {DOMAIN columns[i] : i \in DOMAIN columns} |->
        [series |-> Series(d, columns),
         changed |-> Marks \subseteq
                        {Series(d, columns)[i] : i \in DOMAIN Series(d, columns)}]]

Report(s) ==
    /\ pc[s] = "report"
    /\ IF Len(Paths(s)) < 2
       THEN Goto(s, "done") /\ UNCHANGED trend
       ELSE Goto(s, "save trend") /\ trend' = [trend EXCEPT ![s] = BuildTrend(Summaries(s))]
    /\ UNCHANGED <<files, index, dst, found, name, records, measured, presses>>

\* monitor-trend.txt is written, or the error printed; nobody reads it back.
SaveTrend(s) ==
    /\ pc[s] = "save trend"
    /\ Goto(s, "done")
    /\ UNCHANGED <<files, index, dst, found, name, records, trend, measured, presses>>

-----------------------------------------------------------------------------
(* Ctrl-C *)

\* run_monitor swallows it and returns the records it has.
InterruptRuns(s) ==
    /\ pc[s] \in {"begin", "trace", "open", "write", "render"}
    /\ Goto(s, "report")
    /\ UNCHANGED <<files, index, dst, found, name, records, trend, measured>>

\* Behind the loop it reaches main, which saves what the last run left in
\* memory as a partial capture, in a file of its own.
InterruptReport(s) ==
    /\ pc[s] \in {"report", "save trend"}
    /\ IF found[s] = <<>> THEN Goto(s, "done") /\ UNCHANGED name
       ELSE Goto(s, "partial open") /\ name' = [name EXCEPT ![s] = Stamped(TRUE)]
    /\ UNCHANGED <<files, index, dst, found, records, trend, measured>>

\* One more, inside main's handler, ends the program: module Trace has that.
Interrupt(s) ==
    /\ presses < MaxPresses
    /\ presses' = presses + 1
    /\ InterruptRuns(s) \/ InterruptReport(s)

Step(s) ==
    \/ BeginRun(s) \/ TraceRoute(s) \/ NameTaken(s) \/ ClaimName(s)
    \/ WriteCapture(s) \/ Render(s) \/ FailRun(s)
    \/ Report(s) \/ SaveTrend(s)

Next == \E s \in Sessions : Step(s) \/ Interrupt(s)

Spec == Init /\ [][Next]_sessionVars
\* Every call a session makes returns; nobody has to press Ctrl-C.
FairSpec == Spec /\ \A s \in Sessions : WF_sessionVars(Step(s))
-----------------------------------------------------------------------------
(* Properties *)

\* The sessions keep their types, have a record per run that has ended, and
\* write only to a name they have claimed.
TypeOK ==
    /\ DOMAIN files \subseteq Names /\ \A n \in DOMAIN files : files[n] \in Captures
    /\ pc \in [Sessions -> {"begin", "trace", "open", "write", "render", "report",
                           "save trend", "partial open", "partial write", "done"}]
    /\ index \in [Sessions -> Nat]
    /\ dst \in [Sessions -> (SUBSET Addresses) \ {{}}]
    /\ found \in [Sessions -> Captures]
    /\ name \in [Sessions -> Names \cup {NoName}]
    /\ records \in [Sessions -> Seq(Names \cup {NoName})]
    /\ measured \in [Sessions -> Seq(Captures)]
    /\ presses \in 0..MaxPresses
    /\ \A s \in Sessions : Len(records[s]) = Len(measured[s]) /\ Len(records[s]) <= index[s]

\* However many processes write into the directory in one minute, a capture
\* that has been written stays what it is.
CapturesSurvive ==
    [][\A n \in DOMAIN files :
          n \in DOMAIN files' /\ (files[n] # <<>> => files'[n] = files[n])]_sessionVars

\* The path in a RunRecord leads to what that very run measured.
RecordsAreOnDisk ==
    \A s \in Sessions : \A i \in DOMAIN records[s] :
        records[s][i] # NoName =>
            records[s][i] \in DOMAIN files /\ files[records[s][i]] = measured[s][i]

\* The trend has one column per completed run of this session and in it what
\* that run measured; a destination that was not probed leaves a hole, and a
\* change is called out exactly when two runs disagree.
TrendTellsOwnRuns ==
    \A s \in Sessions : trend[s] # <<>> =>
        LET runs == Without(measured[s], <<>>)
        IN  /\ DOMAIN trend[s] = UNION {DOMAIN runs[i] : i \in DOMAIN runs}
            /\ \A d \in DOMAIN trend[s] :
                  /\ DOMAIN trend[s][d].series = DOMAIN runs
                  /\ \A i \in DOMAIN runs : trend[s][d].series[i] =
                         IF d \in DOMAIN runs[i] THEN runs[i][d] ELSE "absent"
                  /\ trend[s][d].changed <=>
                         \E i, j \in {k \in DOMAIN runs : d \in DOMAIN runs[k]} :
                             runs[i][d] # runs[j][d]

\* A session with a number of runs ends, whatever its runs do.
SessionEnds == \A s \in Sessions : Runs[s] > 0 => <>(pc[s] = "done")

\* monitor.py: "what makes a change legible is the same probe repeated and
\* compared".  The runs of one session probe the same destinations.
EveryRunSameDestinations ==
    \A s \in Sessions : \A i, j \in DOMAIN measured[s] :
        (measured[s][i] # <<>> /\ measured[s][j] # <<>>) =>
            DOMAIN measured[s][i] = DOMAIN measured[s][j]
=============================================================================
