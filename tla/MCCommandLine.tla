---------------------------- MODULE MCCommandLine ----------------------------
(* Instances of CommandLine for TLC. *)
EXTENDS CommandLine

FourDelays == <<0, 10, 50, 100>>

\* Nothing, one that is over, two that go on, the first of them for longer than
\* the query looks back, and two at the end.
Histories ==
    { {}, {[from |-> 1, until |-> 1]}, {[from |-> 1, until |-> 0]}, {[from |-> 4, until |-> 0]},
      {[from |-> 1, until |-> 2], [from |-> 5, until |-> 6]} }

Nothing == [reassembly |-> FALSE, trace |-> FALSE, monitor |-> FALSE, vps |-> FALSE,
            ripe |-> FALSE, file |-> FALSE, csv |-> FALSE, arms |-> FALSE]
\* A sweep; a monitored trace; a source after another, and by itself; arms
\* compared; a table of a file, with and without a trace before it.
SomeCommands ==
    {[Nothing EXCEPT !.reassembly = TRUE],
     [Nothing EXCEPT !.trace = TRUE, !.monitor = TRUE],
     [Nothing EXCEPT !.trace = TRUE, !.vps = TRUE],
     [Nothing EXCEPT !.ripe = TRUE],
     [Nothing EXCEPT !.ripe = TRUE, !.file = TRUE],
     [Nothing EXCEPT !.file = TRUE, !.arms = TRUE],
     [Nothing EXCEPT !.trace = TRUE, !.arms = TRUE],
     [Nothing EXCEPT !.file = TRUE, !.csv = TRUE],
     [Nothing EXCEPT !.trace = TRUE, !.file = TRUE, !.csv = TRUE]}
JustVps == {[Nothing EXCEPT !.vps = TRUE]}
=============================================================================
