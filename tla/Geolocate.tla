----------------------------- MODULE Geolocate -----------------------------
(***************************************************************************)
(* run_geolocate of utils/geolocate.py: the parent polls values shared with  *)
(* a child (a process on POSIX, a thread on Windows) that probes the         *)
(* metadata providers and the resolver in two threads of its own, waits for  *)
(* them with timeouts, classifies the network and stores its eight results   *)
(* one after the other.  Nothing in it takes a lock.                         *)
(*                                                                          *)
(* One tick of now is a second.  Steps between two ticks take no time and    *)
(* interleave freely; a timeout expires at its tick, not after it.           *)
(***************************************************************************)
EXTENDS Integers, Sequences, FiniteSets

CONSTANTS
    Providers,      \* how many metadata providers there are
    Modes,          \* the values of --network-mode to consider
    MaxStart,       \* seconds until the child runs
    ParentWait,     \* user_meta_info_timeout
    JoinTimeout,    \* DETECT_JOIN_TIMEOUT
    MetaTimeout,    \* META_TIMEOUT, of one provider
    DnsTimeout,     \* DNS_TIMEOUT
    Overruns        \* whether a provider may take longer than META_TIMEOUT:
                    \* urlopen applies it to each socket operation, and not to
                    \* the resolution of the provider's name

ASSUME ProvidersAssumption == Providers \in Nat \ {0}
ASSUME ModesAssumption == Modes \subseteq {"auto", "open", "allowlisted", "shutdown"}
ASSUME TimeAssumption ==
    /\ {MaxStart, ParentWait, JoinTimeout, MetaTimeout, DnsTimeout} \subseteq Nat
    /\ Overruns \subseteq BOOLEAN

\* ProviderProbe: metadata, an answer without usable metadata, or silence.
Outcomes == {"usable", "answered", "silent"}
DnsAnswers == {"clean", "blackhole", "failed"}

\* The shared values in the order they are stored and read.  "metadata" stands
\* for the four values between public_ip and network_state.
Fields == <<"no_internet", "public_ip", "metadata", "network_state", "provider_status">>
FieldNames == {Fields[i] : i \in DOMAIN Fields}

Placeholder ==
    [ no_internet |-> TRUE, public_ip |-> "placeholder", metadata |-> "placeholder",
      network_state |-> "unknown", provider_status |-> <<>> ]

VARIABLES
    mode,       \* network_mode
    overrun,    \* a provider may overrun its timeout in this run
    now,        \* seconds since p.start()
    parent,     \* where run_geolocate is
    polled,     \* the parent has evaluated its loop condition in this second
    nread,      \* shared values read so far
    answer,     \* the tuple run_geolocate returns
    child,      \* where get_meta_vars is
    since,      \* when the child began to wait for the thread it waits for
    seen,       \* the child's reads of meta_box
    result,     \* what get_meta_vars returned
    nstored,    \* shared values the child has stored
    meta,       \* where _fetch_meta is
    outcomes,   \* the probes it has finished
    began,      \* when its current probe began
    box,        \* meta_box
    asked,      \* when the resolver was asked
    dns         \* dns_box, "pending" while it is None

parentVars == <<parent, polled, nread, answer>>
childVars == <<child, since, seen, result, nstored>>
metaVars == <<meta, outcomes, began, box>>
dnsVars == <<asked, dns>>
env == <<mode, overrun>>
vars == <<env, now, parentVars, childVars, metaVars, dnsVars>>

Empty == [value |-> FALSE, probes |-> <<>>]

Init ==
    /\ mode \in Modes /\ overrun \in Overruns
    /\ now = 0
    /\ parent = "start" /\ polled = FALSE /\ nread = 0 /\ answer = Placeholder
    /\ child = "off" /\ since = 0 /\ seen = Empty /\ result = Placeholder /\ nstored = 0
    /\ meta = "off" /\ outcomes = <<>> /\ began = 0 /\ box = Empty
    /\ asked = 0 /\ dns = "off"

-----------------------------------------------------------------------------
(* Classification *)

Usable(probes) == \E i \in DOMAIN probes : probes[i] = "usable"
Silent(probes) == {i \in DOMAIN probes : probes[i] = "silent"}

\* is_reachability_differential: a strict majority was silent.
Differential(probes) == 2 * Cardinality(Silent(probes)) > Len(probes)

ClassifyNetworkState(value, blackhole, probes) ==
    IF ~value THEN (IF blackhole THEN "shutdown" ELSE "unknown")
    ELSE IF blackhole \/ Differential(probes) THEN "allowlisted"
    ELSE "open"

Resolved == dns \in {"clean", "blackhole"}

\* Mutant: online until proved otherwise by a blackholed name.
MetaVarsTrusting(value, probes) ==
    [ no_internet |-> dns = "blackhole" /\ ~value,
      public_ip |-> IF value THEN "client" ELSE "placeholder",
      metadata |-> IF value THEN "known" ELSE "placeholder",
      network_state |-> ClassifyNetworkState(value, dns = "blackhole", probes),
      provider_status |-> [i \in DOMAIN probes |-> probes[i] # "silent"] ]

MetaVars(value, probes) ==
    [ no_internet |-> ~(Resolved \/ value),
      public_ip |-> IF value THEN "client" ELSE "placeholder",
      metadata |-> IF value THEN "known" ELSE "placeholder",
      network_state |-> ClassifyNetworkState(value, dns = "blackhole", probes),
      provider_status |-> [i \in DOMAIN probes |-> probes[i] # "silent"] ]

-----------------------------------------------------------------------------
(* The parent *)

Start ==
    /\ parent = "start"
    /\ IF mode = "shutdown"
       THEN /\ parent' = "done" /\ child' = child
            /\ answer' = [Placeholder EXCEPT !.network_state = "shutdown"]
       ELSE parent' = "wait" /\ child' = "start" /\ UNCHANGED answer
    /\ UNCHANGED <<env, now, polled, nread, since, seen, result, nstored, metaVars, dnsVars>>

\* The value of a shared field at this moment.
Shared(i) == IF i <= nstored THEN result[Fields[i]] ELSE Placeholder[Fields[i]]

Poll ==
    /\ parent = "wait" /\ ~polled
    /\ IF now < ParentWait /\ Shared(1) THEN polled' = TRUE /\ UNCHANGED parent
       ELSE parent' = "read" /\ UNCHANGED polled
    /\ UNCHANGED <<env, now, nread, answer, childVars, metaVars, dnsVars>>

\* Mutant: a tuple without a classified state is read again.
ReadUntilClassified ==
    /\ parent = "read"
    /\ answer' = [answer EXCEPT ![Fields[nread + 1]] = Shared(nread + 1)]
    /\ LET all == nread + 1 = Len(Fields)
       IN  /\ nread' = IF all /\ answer'.network_state = "unknown" THEN 0 ELSE nread + 1
           /\ parent' = IF all /\ nread' # 0 THEN "return" ELSE "read"
    /\ UNCHANGED <<env, now, polled, childVars, metaVars, dnsVars>>

Read ==
    /\ parent = "read"
    /\ nread' = nread + 1
    /\ answer' = [answer EXCEPT ![Fields[nread + 1]] = Shared(nread + 1)]
    /\ parent' = IF nread + 1 = Len(Fields) THEN "return" ELSE "read"
    /\ UNCHANGED <<env, now, polled, childVars, metaVars, dnsVars>>

Return ==
    /\ parent = "return"
    /\ parent' = "done"
    /\ answer' = IF mode = "auto" THEN answer ELSE [answer EXCEPT !.network_state = mode]
    /\ UNCHANGED <<env, now, polled, nread, childVars, metaVars, dnsVars>>

-----------------------------------------------------------------------------
(* The child *)

\* Both threads are started before either is waited for.
StartChild ==
    /\ child = "start"
    /\ child' = "join meta" /\ since' = now
    /\ meta' = "probing" /\ began' = now
    /\ asked' = now /\ dns' = "pending"
    /\ UNCHANGED <<env, now, parentVars, seen, result, nstored, outcomes, box>>

\* Mutant: the resolver is asked once the providers have answered.
JoinMetaThenAskDns ==
    /\ child = "join meta"
    /\ meta \in {"done", "dead"} \/ now >= since + JoinTimeout
    /\ child' = "join dns" /\ since' = now
    /\ asked' = now /\ dns' = "pending"
    /\ UNCHANGED <<env, now, parentVars, seen, result, nstored, metaVars>>

\* Mutant: waits for the budget of one provider.
JoinMetaOneProvider ==
    /\ child = "join meta"
    /\ meta \in {"done", "dead"} \/ now >= since + MetaTimeout
    /\ child' = "join dns" /\ since' = now
    /\ UNCHANGED <<env, now, parentVars, seen, result, nstored, metaVars, dnsVars>>

JoinMeta ==
    /\ child = "join meta"
    /\ meta \in {"done", "dead"} \/ now >= since + JoinTimeout
    /\ child' = "join dns" /\ since' = now
    /\ UNCHANGED <<env, now, parentVars, seen, result, nstored, metaVars, dnsVars>>

JoinDns ==
    /\ child = "join dns"
    /\ dns # "pending" \/ now >= since + JoinTimeout
    /\ child' = "read value"
    /\ UNCHANGED <<env, now, parentVars, since, seen, result, nstored, metaVars, dnsVars>>

ReadValue ==
    /\ child = "read value"
    /\ seen' = [seen EXCEPT !.value = box.value]
    /\ child' = "read probes"
    /\ UNCHANGED <<env, now, parentVars, since, result, nstored, metaVars, dnsVars>>

ReadProbes ==
    /\ child = "read probes"
    /\ seen' = [seen EXCEPT !.probes = box.probes]
    /\ child' = "classify"
    /\ UNCHANGED <<env, now, parentVars, since, result, nstored, metaVars, dnsVars>>

Classify ==
    /\ child = "classify"
    /\ result' = MetaVars(seen.value, seen.probes)
    /\ child' = "store"
    /\ UNCHANGED <<env, now, parentVars, since, seen, nstored, metaVars, dnsVars>>

Store ==
    /\ child = "store"
    /\ nstored' = nstored + 1
    /\ child' = IF nstored + 1 = Len(Fields) THEN "done" ELSE "store"
    /\ UNCHANGED <<env, now, parentVars, since, seen, result, metaVars, dnsVars>>

-----------------------------------------------------------------------------
(* Its threads *)

ProbeProvider ==
    /\ meta = "probing"
    /\ \E outcome \in Outcomes : outcomes' = Append(outcomes, outcome)
    /\ began' = now
    /\ meta' = IF Len(outcomes) + 1 = Providers THEN "store value" ELSE "probing"
    /\ UNCHANGED <<env, now, parentVars, childVars, box, dnsVars>>

\* An error the provider does not catch (a body that is JSON but not an object)
\* ends the thread with nothing in the box.
ProbeRaises ==
    /\ meta = "probing"
    /\ meta' = "dead"
    /\ UNCHANGED <<env, now, parentVars, childVars, outcomes, began, box, dnsVars>>

\* The two stores of one assignment statement.
StoreValue ==
    /\ meta = "store value"
    /\ box' = [box EXCEPT !.value = Usable(outcomes)]
    /\ meta' = "store probes"
    /\ UNCHANGED <<env, now, parentVars, childVars, outcomes, began, dnsVars>>

StoreProbes ==
    /\ meta = "store probes"
    /\ box' = [box EXCEPT !.probes = outcomes]
    /\ meta' = "done"
    /\ UNCHANGED <<env, now, parentVars, childVars, outcomes, began, dnsVars>>

\* "failed" is also the answer after DNS_TIMEOUT.
AnswerDns ==
    /\ dns = "pending"
    /\ dns' \in DnsAnswers
    /\ UNCHANGED <<env, now, parentVars, childVars, metaVars, asked>>

-----------------------------------------------------------------------------
\* A second passes only when nothing is due in this one.
Tick ==
    /\ parent = "wait" /\ polled
    /\ child = "start" => now < MaxStart
    /\ child \in {"join meta", "join dns"} => now < since + JoinTimeout
    /\ child = "join meta" => meta \notin {"done", "dead"}
    /\ child = "join dns" => dns = "pending"
    /\ child \notin {"read value", "read probes", "classify", "store"}
    /\ meta \notin {"store value", "store probes"}
    /\ (meta = "probing" /\ ~overrun) => now < began + MetaTimeout
    /\ dns = "pending" => now < asked + DnsTimeout
    /\ now' = now + 1
    /\ polled' = FALSE
    /\ UNCHANGED <<env, parent, nread, answer, childVars, metaVars, dnsVars>>

Next ==
    \/ Start \/ Poll \/ Read \/ Return
    \/ StartChild \/ JoinMeta \/ JoinDns \/ ReadValue \/ ReadProbes \/ Classify \/ Store
    \/ ProbeProvider \/ ProbeRaises \/ StoreValue \/ StoreProbes \/ AnswerDns
    \/ Tick

Spec == Init /\ [][Next]_vars

\* Time passes and the processes are scheduled.
FairSpec == Spec /\ WF_vars(Next)
-----------------------------------------------------------------------------
(* Properties *)

NetworkStates == {"open", "allowlisted", "shutdown", "unknown"}
Answers == [ no_internet : BOOLEAN, public_ip : {"placeholder", "client"},
             metadata : {"placeholder", "known"}, network_state : NetworkStates,
             provider_status : Seq(BOOLEAN) ]

ParentTypes ==
    /\ parent \in {"start", "wait", "read", "return", "done"} /\ polled \in BOOLEAN
    /\ nread \in 0..Len(Fields)
    /\ answer \in Answers

ChildTypes ==
    /\ child \in {"off", "start", "join meta", "join dns", "read value", "read probes",
                  "classify", "store", "done"}
    /\ since \in 0..ParentWait
    /\ seen \in [value : BOOLEAN, probes : Seq(Outcomes)]
    /\ result \in Answers
    /\ nstored \in 0..Len(Fields)

ThreadTypes ==
    /\ meta \in {"off", "probing", "store value", "store probes", "done", "dead"}
    /\ outcomes \in Seq(Outcomes) /\ Len(outcomes) <= Providers
    /\ began \in 0..ParentWait
    /\ box \in [value : BOOLEAN, probes : Seq(Outcomes)]
    /\ asked \in 0..ParentWait
    /\ dns \in DnsAnswers \cup {"off", "pending"}

\* Every variable has the type the code gives it, and nobody waits past the
\* parent's deadline.
TypeOK ==
    /\ mode \in Modes /\ overrun \in Overruns
    /\ now \in 0..ParentWait
    /\ ParentTypes
    /\ ChildTypes
    /\ ThreadTypes

\* The network is reported up only on positive proof, however the reads and
\* stores interleave: a provider gave metadata, or the resolver answered.
OnlineIsProved ==
    ~answer.no_internet => Usable(outcomes) \/ Resolved

\* A parent that saw no sign of the network returns the child's own verdict and
\* not the placeholders: the timeouts of the child fit inside the wait of the
\* parent ("classified even in a total shutdown rather than stalling until the
\* parent gives up with a stale 'unknown'").
OfflineIsClassified ==
    (parent = "done" /\ answer.no_internet /\ mode # "shutdown") =>
        /\ child = "done"
        /\ \A f \in FieldNames \ {"network_state"} : answer[f] = result[f]
        /\ mode = "auto" => answer.network_state = result.network_state

\* What _fetch_meta leaves behind: nothing, if one of the providers raised.
Evidence == IF meta = "dead" THEN <<>> ELSE outcomes

\* With providers that keep to META_TIMEOUT, a state other than "unknown" is
\* the one the whole evidence leads to, never one read off half of it or before
\* the resolver had its say.
StateFollowsEvidence ==
    (parent = "done" /\ mode = "auto" /\ ~overrun /\ answer.network_state # "unknown") =>
        answer.network_state =
            ClassifyNetworkState(Usable(Evidence), dns = "blackhole", Evidence)

\* run_geolocate always returns.
Terminates == <>(parent = "done")

\* "Probe budgets kept well inside the 10s parent wait window in run_geolocate
\* so state is classified before the parent gives up."  A parent that leaves
\* its loop because the network is up returns all the child found.
OnlineIsClassified ==
    (parent = "done" /\ ~answer.no_internet) =>
        /\ \A f \in FieldNames \ {"network_state"} : answer[f] = result[f]
        /\ mode = "auto" => answer.network_state = result.network_state
=============================================================================
