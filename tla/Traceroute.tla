----------------------------- MODULE Traceroute -----------------------------
(***************************************************************************)
(* What a trace promises, with no loop, no shared rows and no padding: in    *)
(* every repeat each arm walks its own path, one answer (an address or       *)
(* silence) per TTL, until its destination has answered or the TTLs are      *)
(* used up; no arm starts a repeat before all have ended the previous one.   *)
(* A capture shows exactly the paths walked when it was taken.  An           *)
(* unfinished trace may be captured too (Ctrl-C), and any trace may end      *)
(* without a capture.                                                        *)
(***************************************************************************)
EXTENDS Naturals, Sequences

CONSTANTS
    Walkers,         \* the arms
    Target(_),       \* the destination address of an arm
    Replies,         \* what a TTL may bring
    Longest,         \* TTLs in a path
    Rounds,          \* repeats
    Past             \* walk on after the destination has answered

VARIABLES
    paths,           \* paths[a][r]: the answers arm a drew in repeat r, in order
    round,           \* the current repeat, 0 before the first
    captures         \* the captures taken

tvars == <<paths, round, captures>>

Arrived(a, path) == \E k \in 1..Len(path) : path[k] = Target(a)

\* Nothing to walk to: the destination is where the trace starts from.
CONSTANT Home
Walked(a, path) ==
    \/ Len(path) = Longest
    \/ ~Past /\ (Arrived(a, path) \/ Target(a) = Home)

TInit ==
    /\ paths = [a \in Walkers |-> [r \in 1..Rounds |-> <<>>]]
    /\ round = 0
    /\ captures = {}

Walk(a) ==
    /\ round > 0
    /\ ~Walked(a, paths[a][round])
    /\ \E reply \in Replies :
          paths' = [paths EXCEPT ![a][round] = Append(@, reply)]
    /\ UNCHANGED <<round, captures>>

NextRound ==
    /\ round < Rounds
    /\ round > 0 => \A a \in Walkers : Walked(a, paths[a][round])
    /\ round' = round + 1
    /\ UNCHANGED <<paths, captures>>

Capture ==
    /\ captures' = captures \cup {paths}
    /\ UNCHANGED <<paths, round>>

TNext == (\E a \in Walkers : Walk(a)) \/ NextRound \/ Capture

TSpec == TInit /\ [][TNext]_tvars
=============================================================================
