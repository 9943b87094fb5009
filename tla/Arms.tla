--------------------------------- MODULE Arms ---------------------------------
(***************************************************************************)
(* --compare-arms: a control and a treatment sent to one destination, read   *)
(* back from the capture and compared (utils/arms.py, called by tracevis.    *)
(* report_arm_comparison).                                                   *)
(*                                                                          *)
(* The path is the environment: how far the payload of each arm gets, which  *)
(* hops stay silent, per probe whether the TCP handshake that precedes it    *)
(* completed, and which probes a box on the way answers in the destination's *)
(* name.  A trace goes no further behind such an answer, which changes       *)
(* nothing here: of an arm that was answered nothing else counts.  Reading   *)
(* the file, pairing the arms by destination and the wording are left out: a *)
(* pair is one control and one treatment.                                    *)
(***************************************************************************)
EXTENDS Integers, Sequences, FiniteSets, FiniteSetsExt

CONSTANT PathLength     \* the hop at which the destination answers

ASSUME PathAssumption == PathLength \in Nat \ {0}

Ttls == 1..PathLength

\* What the path does to an arm: the last hop its payload gets to, whether a
\* handshake precedes each probe, the probes whose handshake completed, and those
\* whose payload meets a box that answers as the destination would.
Fates == [stops : 0..PathLength, tcp : BOOLEAN, connects : SUBSET Ttls, injected : SUBSET Ttls]

VARIABLE pairing        \* the pair that was compared, its path and verdict

NoPairing == [verdict |-> "none"]
ArmsInit == pairing = NoPairing

\* The payload leaves with TTL h, and gets to hop h.
Sent(fate, h) == fate.tcp => h \in fate.connects
Gets(fate, h) == h <= fate.stops /\ Sent(fate, h)
Named(fate, h) == (Sent(fate, h) /\ h \in fate.injected) \/ (Gets(fate, h) /\ h = PathLength)

\* One hop of the capture: who answered, by its address, and the `handshake` field.
Hop(fate, silent, h) ==
    [ from |-> IF Named(fate, h) THEN "destination"
               ELSE IF Gets(fate, h) /\ h \notin silent THEN "router" ELSE "nobody",
      handshake |-> IF ~fate.tcp THEN "none" ELSE IF h \in fate.connects THEN "yes" ELSE "no" ]

Capture(fate, silent) == [h \in Ttls |-> Hop(fate, silent, h)]

\* Mutant: the last probe's handshake counts.
HandshakeOfLast(hops) == hops[PathLength].handshake

\* summarise_arm: once a handshake completed, a later failure does not undo it.
Handshake(hops) ==
    LET seen == {hops[h].handshake : h \in Ttls} \ {"none"}
    IN  IF "yes" \in seen THEN "yes" ELSE IF "no" \in seen THEN "no" ELSE "none"

SummariseArm(hops) ==
    [ reached |-> \E h \in Ttls : hops[h].from = "destination",
      last |-> Max({0} \cup {h \in Ttls : hops[h].from # "nobody"}),
      handshake |-> Handshake(hops) ]

\* _classify
ClassifyArms(control, treatment) ==
    IF ~control.reached /\ treatment.reached THEN "control failed"
    ELSE IF control.reached /\ treatment.reached THEN "both delivered"
    ELSE IF ~control.reached
         THEN IF control.last = treatment.last THEN "port blocked" ELSE "inconclusive"
    ELSE IF treatment.handshake = "yes" THEN "payload dropped"
    ELSE IF treatment.handshake = "no" THEN "treatment unreachable"
    ELSE "payload probably dropped"

ArmVerdicts == {"control failed", "both delivered", "port blocked", "inconclusive",
                "payload dropped", "treatment unreachable", "payload probably dropped"}

\* Whatever pair it is, on whatever path.
CompareArms ==
    /\ pairing = NoPairing
    /\ pairing' \in [ control : Fates, treatment : Fates,
                      silent : SUBSET (Ttls \ {PathLength}), verdict : ArmVerdicts ]
    /\ pairing'.control.tcp = pairing'.treatment.tcp
    /\ pairing'.verdict = ClassifyArms(SummariseArm(Capture(pairing'.control, pairing'.silent)),
                                      SummariseArm(Capture(pairing'.treatment, pairing'.silent)))

-----------------------------------------------------------------------------
(* Properties *)

Delivers(fate) == Gets(fate, PathLength)
Impersonated(fate) == \E h \in fate.injected : Sent(fate, h)

\* A verdict says of the path what is so, whichever hops keep silent, whichever
\* handshakes fail and whoever answers in the destination's name: the address is
\* all that is looked at, so "delivered" may be the word of a box on the way.
\* "Dropped" means that the destination could be reached, and that the payload did
\* not get there if it was sent that far at all.  "The same hop" means that no hop
\* that answers got one payload past where the other was stopped; "different
\* hops", that one that answers got only one of them.
ArmVerdictFitsPath ==
    pairing # NoPairing =>
        LET c == pairing.control
            t == pairing.treatment
            answering == Ttls \ pairing.silent
        IN  CASE pairing.verdict = "both delivered" ->
                    \A fate \in {c, t} : Delivers(fate) \/ Impersonated(fate)
              [] pairing.verdict = "control failed" -> ~Delivers(c) /\ ~Impersonated(c)
              [] pairing.verdict = "treatment unreachable" -> t.tcp /\ t.connects = {}
              [] pairing.verdict \in {"payload dropped", "payload probably dropped"} ->
                    /\ Delivers(c) \/ Impersonated(c)
                    /\ t.tcp <=> pairing.verdict = "payload dropped"
                    /\ t.tcp => t.connects # {}
                    /\ Sent(t, PathLength) => t.stops < PathLength
              [] pairing.verdict = "port blocked" ->
                    /\ ~Delivers(c) /\ ~Delivers(t)
                    /\ \A h \in answering :
                          (Gets(c, h) => h <= t.stops) /\ (Gets(t, h) => h <= c.stops)
              [] pairing.verdict = "inconclusive" ->
                    /\ ~Delivers(c) /\ ~Delivers(t)
                    /\ \E h \in answering : Gets(c, h) # Gets(t, h)
=============================================================================
