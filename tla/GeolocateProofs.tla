-------------------------- MODULE GeolocateProofs --------------------------
(***************************************************************************)
(* Proofs about Geolocate for any number of providers and any timeouts: the  *)
(* network is never reported up without proof, and, when the budgets of the  *)
(* threads fit into the join timeout, a classified state is the one all the  *)
(* evidence leads to.                                                        *)
(***************************************************************************)
EXTENDS Geolocate, TLAPS

\* What the places of the four processes say about each other.
Control ==
    /\ polled => now < ParentWait
    /\ parent = "start" => child = "off"
    /\ parent \in {"start", "wait"} => nread = 0
    /\ parent = "read" => nread < Len(Fields)
    /\ child = "store" => nstored < Len(Fields)
    /\ nstored > 0 => child \in {"store", "done"}
    /\ child \in {"off", "start"} => meta = "off" /\ dns = "off"
    /\ meta \in {"off", "probing"} => Len(outcomes) < Providers

\* Every claim that the network is up, from the box to the parent's answer, has
\* its proof.
Online == Usable(outcomes) \/ Resolved
Honest ==
    /\ box.value => Usable(outcomes)
    /\ seen.value => Usable(outcomes)
    /\ ~result.no_internet => Online
    /\ ~answer.no_internet => Online

GeoInv == TypeOK /\ Control /\ Honest

LEMMA FieldFacts ==
    /\ Len(Fields) = 5
    /\ Fields[1] = "no_internet" /\ Fields[2] = "public_ip" /\ Fields[3] = "metadata"
    /\ Fields[4] = "network_state" /\ Fields[5] = "provider_status"
    /\ FieldNames = {"no_internet", "public_ip", "metadata", "network_state", "provider_status"}
  BY DEF Fields, FieldNames

LEMMA Constants ==
    /\ Providers \in Nat /\ Providers > 0
    /\ MaxStart \in Nat /\ ParentWait \in Nat /\ JoinTimeout \in Nat
    /\ MetaTimeout \in Nat /\ DnsTimeout \in Nat
  BY ProvidersAssumption, TimeAssumption

LEMMA PlaceholderType == Placeholder \in Answers /\ Placeholder.no_internet
  BY DEF Placeholder, Answers, NetworkStates

\* get_meta_vars returns a well-formed tuple, and no_internet = FALSE only with
\* a provider's metadata or an answer of the resolver.
LEMMA MetaVarsResult ==
    ASSUME NEW value \in BOOLEAN, NEW probes \in Seq(Outcomes)
    PROVE  /\ MetaVars(value, probes) \in Answers
           /\ ~MetaVars(value, probes).no_internet => (value \/ Resolved)
           /\ MetaVars(value, probes).network_state =
                 ClassifyNetworkState(value, dns = "blackhole", probes)
  <1>1. ClassifyNetworkState(value, dns = "blackhole", probes) \in NetworkStates
    BY DEF ClassifyNetworkState, NetworkStates
  <1>2. [i \in DOMAIN probes |-> probes[i] # "silent"] \in Seq(BOOLEAN)
    <2>1. DOMAIN probes = 1..Len(probes) /\ Len(probes) \in Nat
      OBVIOUS
    <2>2. [i \in 1..Len(probes) |-> probes[i] # "silent"] \in Seq(BOOLEAN)
      BY <2>1
    <2> QED BY <2>1, <2>2
  <1>3. (~(Resolved \/ value)) \in BOOLEAN
    BY DEF Resolved
  <1> QED BY <1>1, <1>2, <1>3 DEF MetaVars, Answers

\* A finished probe takes no proof away.
LEMMA UsableGrows ==
    ASSUME NEW s \in Seq(Outcomes), NEW outcome \in Outcomes, Usable(s)
    PROVE  Usable(Append(s, outcome))
  <1>1. PICK i \in 1..Len(s) : s[i] = "usable"
    BY DEF Usable
  <1>2. i \in 1..Len(Append(s, outcome)) /\ Append(s, outcome)[i] = s[i]
    OBVIOUS
  <1> QED BY <1>1, <1>2 DEF Usable

\* A shared value, stored or not, has its type, and no_internet is as honest as
\* the result.
LEMMA SharedValue ==
    ASSUME TypeOK, Honest, NEW i \in 1..5
    PROVE  /\ [answer EXCEPT ![Fields[i]] = Shared(i)] \in Answers
           /\ ~[answer EXCEPT ![Fields[i]] = Shared(i)].no_internet => Online
  <1>1. /\ result \in Answers /\ answer \in Answers /\ Placeholder \in Answers
        /\ Placeholder.no_internet
        /\ ~result.no_internet => Online
        /\ ~answer.no_internet => Online
    BY PlaceholderType DEF TypeOK, ParentTypes, ChildTypes, Honest
  <1>2. Shared(i) = result[Fields[i]] \/ Shared(i) = Placeholder[Fields[i]]
    BY DEF Shared
  <1>3. CASE i = 1
    BY <1>1, <1>2, <1>3, FieldFacts DEF Answers
  <1>4. CASE i = 2
    BY <1>1, <1>2, <1>4, FieldFacts DEF Answers
  <1>5. CASE i = 3
    BY <1>1, <1>2, <1>5, FieldFacts DEF Answers
  <1>6. CASE i = 4
    BY <1>1, <1>2, <1>6, FieldFacts DEF Answers
  <1>7. CASE i = 5
    BY <1>1, <1>2, <1>7, FieldFacts DEF Answers
  <1> QED BY <1>3, <1>4, <1>5, <1>6, <1>7

\* Whoever changes only one actor's state leaves the types of the others.
LEMMA Unchanged ==
    ASSUME TypeOK, UNCHANGED <<env, now>>
    PROVE  /\ UNCHANGED parentVars => ParentTypes'
           /\ UNCHANGED childVars => ChildTypes'
           /\ UNCHANGED <<metaVars, dnsVars>> => ThreadTypes'
           /\ (ParentTypes' /\ ChildTypes' /\ ThreadTypes') => TypeOK'
  <1>1. UNCHANGED parentVars => ParentTypes'
    BY DEF TypeOK, ParentTypes, parentVars
  <1>2. UNCHANGED childVars => ChildTypes'
    BY DEF TypeOK, ChildTypes, childVars
  <1>3. UNCHANGED <<metaVars, dnsVars>> => ThreadTypes'
    BY DEF TypeOK, ThreadTypes, metaVars, dnsVars
  <1>4. (ParentTypes' /\ ChildTypes' /\ ThreadTypes') => TypeOK'
    BY DEF TypeOK, env
  <1> QED BY <1>1, <1>2, <1>3, <1>4

\* Nothing has been stored before the child has a result.
LEMMA NothingStored ==
    ASSUME GeoInv, child \notin {"store", "done"}
    PROVE  nstored = 0
  <1>1. nstored \in 0..5
    BY FieldFacts DEF GeoInv, TypeOK, ChildTypes
  <1>2. ~(nstored > 0)
    BY DEF GeoInv, Control
  <1> QED BY <1>1, <1>2

LEMMA InitGeoInv == Init => GeoInv
  <1> SUFFICES ASSUME Init PROVE GeoInv
    OBVIOUS
  <1>1. <<>> \in Seq(Outcomes) /\ Len(<<>>) = 0 /\ Empty.value = FALSE
    BY DEF Empty
  <1>2. Empty \in [value : BOOLEAN, probes : Seq(Outcomes)]
    BY <1>1 DEF Empty
  <1>3. ParentTypes
    <2>1. nread \in 0..Len(Fields) /\ answer \in Answers
      BY PlaceholderType, FieldFacts DEF Init
    <2> QED BY <2>1 DEF Init, ParentTypes
  <1>4. ChildTypes
    BY <1>2, PlaceholderType, FieldFacts, Constants DEF Init, ChildTypes
  <1>5. ThreadTypes
    BY <1>1, <1>2, Constants DEF Init, ThreadTypes
  <1>6. TypeOK
    BY <1>3, <1>4, <1>5, Constants DEF Init, TypeOK
  <1>7. Control
    BY <1>1, FieldFacts, Constants DEF Init, Control
  <1>8. Honest
    BY <1>1, PlaceholderType DEF Init, Honest
  <1> QED BY <1>6, <1>7, <1>8 DEF GeoInv

-----------------------------------------------------------------------------
(* The parent *)

LEMMA StartGeoInv == GeoInv /\ Start => GeoInv'
  <1> SUFFICES ASSUME GeoInv, Start PROVE GeoInv'
    OBVIOUS
  <1>1. /\ parent = "start" /\ parent' \in {"done", "wait"}
        /\ answer' \in {answer, [Placeholder EXCEPT !.network_state = "shutdown"]}
        /\ child' \in {child, "start"}
        /\ UNCHANGED <<env, now, polled, nread, since, seen, result, nstored, metaVars, dnsVars>>
    BY DEF Start
  <1>2. child = "off" /\ meta = "off" /\ dns = "off"
    BY <1>1 DEF GeoInv, Control
  <1>3. LET a == [Placeholder EXCEPT !.network_state = "shutdown"]
        IN  a \in Answers /\ a.no_internet
    <2>1. Placeholder \in Answers /\ "shutdown" \in NetworkStates /\ Placeholder.no_internet
      BY PlaceholderType DEF NetworkStates
    <2> QED BY <2>1 DEF Answers
  <1>4. ParentTypes'
    BY <1>1, <1>3 DEF GeoInv, TypeOK, ParentTypes
  <1>5. ChildTypes'
    BY <1>1 DEF GeoInv, TypeOK, ChildTypes
  <1>6. TypeOK'
    BY <1>1, <1>4, <1>5, Unchanged DEF GeoInv
  <1>7. Control'
    <2>1. nstored = 0
      BY <1>2, FieldFacts DEF GeoInv, Control, TypeOK, ChildTypes
    <2>2. meta' = "off" /\ dns' = "off" /\ nstored' = 0 /\ child' \in {"off", "start"}
      BY <1>1, <1>2, <2>1 DEF metaVars, dnsVars
    <2>3. /\ polled' => now' < ParentWait
          /\ nread' = 0 /\ nread' < Len(Fields) /\ parent' # "start"
          /\ meta \in {"off", "probing"} => Len(outcomes) < Providers
      BY <1>1, FieldFacts DEF GeoInv, Control, env
    <2> QED BY <1>1, <2>2, <2>3 DEF Control, metaVars
  <1>8. Honest'
    BY <1>1, <1>3 DEF GeoInv, Honest, Online, Resolved, metaVars, dnsVars
  <1> QED BY <1>6, <1>7, <1>8 DEF GeoInv

LEMMA PollGeoInv == GeoInv /\ Poll => GeoInv'
  <1> SUFFICES ASSUME GeoInv, Poll PROVE GeoInv'
    OBVIOUS
  <1>1. /\ UNCHANGED <<env, now, nread, answer, childVars, metaVars, dnsVars>>
        /\ parent = "wait" /\ parent' \in {"wait", "read"} /\ polled' \in BOOLEAN
        /\ polled' => now < ParentWait
    BY DEF Poll, GeoInv, TypeOK, ParentTypes
  <1>2. ParentTypes'
    BY <1>1 DEF GeoInv, TypeOK, ParentTypes
  <1>3. TypeOK'
    BY <1>1, <1>2, Unchanged DEF GeoInv
  <1>4. Honest'
    BY <1>1 DEF GeoInv, Honest, Online, Resolved, childVars, metaVars, dnsVars
  <1>5. nread' = 0 /\ nread' < Len(Fields)
    BY <1>1, FieldFacts DEF GeoInv, Control
  <1>6. Control'
    BY <1>1, <1>5 DEF GeoInv, Control, childVars, metaVars, dnsVars
  <1> QED BY <1>3, <1>4, <1>6 DEF GeoInv

LEMMA ReadGeoInv == GeoInv /\ Read => GeoInv'
  <1> SUFFICES ASSUME GeoInv, Read PROVE GeoInv'
    OBVIOUS
  <1>1. /\ parent = "read" /\ nread' = nread + 1
        /\ answer' = [answer EXCEPT ![Fields[nread + 1]] = Shared(nread + 1)]
        /\ parent' = IF nread + 1 = Len(Fields) THEN "return" ELSE "read"
        /\ UNCHANGED <<env, now, polled, childVars, metaVars, dnsVars>>
    BY DEF Read
  <1>2. nread \in 0..4 /\ nread + 1 \in 1..5
    <2>1. nread \in 0..5 /\ nread < 5
      BY <1>1, FieldFacts DEF GeoInv, Control, TypeOK, ParentTypes
    <2> QED BY <2>1
  <1>3. answer' \in Answers /\ (~answer'.no_internet => Online)
    BY <1>1, <1>2, SharedValue DEF GeoInv
  <1>4. parent' \in {"read", "return"} /\ nread' \in 0..5 /\ (parent' = "read" => nread' < 5)
    BY <1>1, <1>2, FieldFacts
  <1>5. ParentTypes'
    BY <1>1, <1>3, <1>4, FieldFacts DEF GeoInv, TypeOK, ParentTypes
  <1>6. TypeOK'
    BY <1>1, <1>5, Unchanged DEF GeoInv
  <1>7. Honest'
    BY <1>1, <1>3 DEF GeoInv, Honest, Online, Resolved, childVars, metaVars, dnsVars
  <1>8. Control'
    BY <1>1, <1>4, FieldFacts DEF GeoInv, Control, childVars, metaVars, dnsVars
  <1> QED BY <1>6, <1>7, <1>8 DEF GeoInv

LEMMA ReturnGeoInv == GeoInv /\ Return => GeoInv'
  <1> SUFFICES ASSUME GeoInv, Return PROVE GeoInv'
    OBVIOUS
  <1>1. /\ parent' = "done"
        /\ answer' = IF mode = "auto" THEN answer ELSE [answer EXCEPT !.network_state = mode]
        /\ UNCHANGED <<env, now, polled, nread, childVars, metaVars, dnsVars>>
    BY DEF Return
  <1>2. mode \in NetworkStates \cup {"auto"}
    BY ModesAssumption DEF GeoInv, TypeOK, NetworkStates
  <1>3. answer' \in Answers /\ answer'.no_internet = answer.no_internet
    BY <1>1, <1>2 DEF GeoInv, TypeOK, ParentTypes, Answers
  <1>4. ParentTypes'
    BY <1>1, <1>3 DEF GeoInv, TypeOK, ParentTypes
  <1>5. TypeOK'
    BY <1>1, <1>4, Unchanged DEF GeoInv
  <1>6. Honest'
    BY <1>1, <1>3 DEF GeoInv, Honest, Online, Resolved, childVars, metaVars, dnsVars
  <1>7. Control'
    BY <1>1 DEF GeoInv, Control, childVars, metaVars, dnsVars
  <1> QED BY <1>5, <1>6, <1>7 DEF GeoInv

-----------------------------------------------------------------------------
(* The child *)

LEMMA StartChildGeoInv == GeoInv /\ StartChild => GeoInv'
  <1> SUFFICES ASSUME GeoInv, StartChild PROVE GeoInv'
    OBVIOUS
  <1>1. /\ child = "start" /\ child' = "join meta" /\ since' = now
        /\ meta' = "probing" /\ began' = now /\ asked' = now /\ dns' = "pending"
        /\ UNCHANGED <<env, now, parentVars, seen, result, nstored, outcomes, box>>
    BY DEF StartChild
  <1>2. dns = "off" /\ nstored = 0 /\ parent # "start" /\ Len(outcomes) < Providers
    <2>1. nstored = 0
      BY <1>1, NothingStored
    <2>2. dns = "off" /\ parent # "start" /\ meta = "off"
      BY <1>1 DEF GeoInv, Control
    <2>3. Len(outcomes) < Providers
      BY <2>2 DEF GeoInv, Control
    <2> QED BY <2>1, <2>2, <2>3
  <1>3. ChildTypes'
    BY <1>1 DEF GeoInv, TypeOK, ChildTypes
  <1>4. ThreadTypes'
    BY <1>1 DEF GeoInv, TypeOK, ThreadTypes
  <1>5. TypeOK'
    BY <1>1, <1>3, <1>4, Unchanged DEF GeoInv
  <1>6. Honest'
    BY <1>1, <1>2 DEF GeoInv, Honest, Online, Resolved, parentVars
  <1>7. Control'
    BY <1>1, <1>2 DEF GeoInv, Control, parentVars, env
  <1> QED BY <1>5, <1>6, <1>7 DEF GeoInv

LEMMA JoinGeoInv == GeoInv /\ (JoinMeta \/ JoinDns) => GeoInv'
  <1> SUFFICES ASSUME GeoInv, JoinMeta \/ JoinDns PROVE GeoInv'
    OBVIOUS
  <1>1. /\ child \in {"join meta", "join dns"} /\ child' \in {"join dns", "read value"}
        /\ since' \in {since, now}
        /\ UNCHANGED <<env, now, parentVars, seen, result, nstored, metaVars, dnsVars>>
    BY DEF JoinMeta, JoinDns
  <1>2. nstored = 0 /\ parent # "start"
    <2>1. parent # "start"
      BY <1>1 DEF GeoInv, Control
    <2> QED BY <1>1, <2>1, NothingStored
  <1>3. ChildTypes'
    BY <1>1 DEF GeoInv, TypeOK, ChildTypes
  <1>4. TypeOK'
    BY <1>1, <1>3, Unchanged DEF GeoInv
  <1>5. Honest'
    BY <1>1 DEF GeoInv, Honest, Online, Resolved, parentVars, metaVars, dnsVars
  <1>6. Control'
    BY <1>1, <1>2 DEF GeoInv, Control, parentVars, metaVars, dnsVars, env
  <1> QED BY <1>4, <1>5, <1>6 DEF GeoInv

LEMMA ReadBoxGeoInv == GeoInv /\ (ReadValue \/ ReadProbes) => GeoInv'
  <1> SUFFICES ASSUME GeoInv, ReadValue \/ ReadProbes PROVE GeoInv'
    OBVIOUS
  <1>1. /\ child \in {"read value", "read probes"} /\ child' \in {"read probes", "classify"}
        /\ seen' \in {[seen EXCEPT !.value = box.value], [seen EXCEPT !.probes = box.probes]}
        /\ UNCHANGED <<env, now, parentVars, since, result, nstored, metaVars, dnsVars>>
    BY DEF ReadValue, ReadProbes
  <1>2. nstored = 0 /\ parent # "start"
    <2>1. parent # "start"
      BY <1>1 DEF GeoInv, Control
    <2> QED BY <1>1, <2>1, NothingStored
  <1>3. /\ seen \in [value : BOOLEAN, probes : Seq(Outcomes)]
        /\ box \in [value : BOOLEAN, probes : Seq(Outcomes)]
    BY DEF GeoInv, TypeOK, ChildTypes, ThreadTypes
  <1>4. /\ seen' \in [value : BOOLEAN, probes : Seq(Outcomes)]
        /\ seen'.value \in {seen.value, box.value}
    BY <1>1, <1>3
  <1>5. ChildTypes'
    BY <1>1, <1>4 DEF GeoInv, TypeOK, ChildTypes
  <1>6. TypeOK'
    BY <1>1, <1>5, Unchanged DEF GeoInv
  <1>7. Honest'
    BY <1>1, <1>4 DEF GeoInv, Honest, Online, Resolved, parentVars, metaVars, dnsVars
  <1>8. Control'
    BY <1>1, <1>2 DEF GeoInv, Control, parentVars, metaVars, dnsVars, env
  <1> QED BY <1>6, <1>7, <1>8 DEF GeoInv

LEMMA ClassifyGeoInv == GeoInv /\ Classify => GeoInv'
  <1> SUFFICES ASSUME GeoInv, Classify PROVE GeoInv'
    OBVIOUS
  <1>1. /\ child = "classify" /\ child' = "store"
        /\ result' = MetaVars(seen.value, seen.probes)
        /\ UNCHANGED <<env, now, parentVars, since, seen, nstored, metaVars, dnsVars>>
    BY DEF Classify
  <1>2. nstored = 0 /\ parent # "start"
    <2>1. parent # "start"
      BY <1>1 DEF GeoInv, Control
    <2> QED BY <1>1, <2>1, NothingStored
  <1>3. seen.value \in BOOLEAN /\ seen.probes \in Seq(Outcomes)
    BY DEF GeoInv, TypeOK, ChildTypes
  <1>4. result' \in Answers /\ (~result'.no_internet => seen.value \/ Resolved)
    BY <1>1, <1>3, MetaVarsResult
  <1>5. ChildTypes'
    BY <1>1, <1>4 DEF GeoInv, TypeOK, ChildTypes
  <1>6. TypeOK'
    BY <1>1, <1>5, Unchanged DEF GeoInv
  <1>7. Honest'
    BY <1>1, <1>4 DEF GeoInv, Honest, Online, Resolved, parentVars, metaVars, dnsVars
  <1>8. Control'
    BY <1>1, <1>2, FieldFacts DEF GeoInv, Control, parentVars, metaVars, dnsVars, env
  <1> QED BY <1>6, <1>7, <1>8 DEF GeoInv

LEMMA StoreGeoInv == GeoInv /\ Store => GeoInv'
  <1> SUFFICES ASSUME GeoInv, Store PROVE GeoInv'
    OBVIOUS
  <1>1. /\ child = "store" /\ nstored' = nstored + 1
        /\ child' = IF nstored + 1 = Len(Fields) THEN "done" ELSE "store"
        /\ UNCHANGED <<env, now, parentVars, since, seen, result, metaVars, dnsVars>>
    BY DEF Store
  <1>2. nstored \in 0..4 /\ parent # "start"
    <2>1. nstored \in 0..5 /\ nstored < 5
      BY <1>1, FieldFacts DEF GeoInv, Control, TypeOK, ChildTypes
    <2> QED BY <2>1, <1>1 DEF GeoInv, Control
  <1>3. /\ nstored' \in 0..5 /\ child' \in {"store", "done"}
        /\ child' = "store" => nstored' < 5
    BY <1>1, <1>2, FieldFacts
  <1>4. ChildTypes'
    BY <1>1, <1>3, FieldFacts DEF GeoInv, TypeOK, ChildTypes
  <1>5. TypeOK'
    BY <1>1, <1>4, Unchanged DEF GeoInv
  <1>6. Honest'
    BY <1>1 DEF GeoInv, Honest, Online, Resolved, parentVars, metaVars, dnsVars
  <1>7. Control'
    BY <1>1, <1>2, <1>3, FieldFacts DEF GeoInv, Control, parentVars, metaVars, dnsVars, env
  <1> QED BY <1>5, <1>6, <1>7 DEF GeoInv

-----------------------------------------------------------------------------
(* The threads and time *)

LEMMA ProbeProviderGeoInv == GeoInv /\ ProbeProvider => GeoInv'
  <1> SUFFICES ASSUME GeoInv, ProbeProvider PROVE GeoInv'
    OBVIOUS
  <1>1. PICK outcome \in Outcomes : outcomes' = Append(outcomes, outcome)
    BY DEF ProbeProvider
  <1>2. /\ meta = "probing" /\ began' = now
        /\ meta' = IF Len(outcomes) + 1 = Providers THEN "store value" ELSE "probing"
        /\ UNCHANGED <<env, now, parentVars, childVars, box, dnsVars>>
    BY DEF ProbeProvider
  <1>3. outcomes \in Seq(Outcomes) /\ Len(outcomes) \in Nat /\ Len(outcomes) < Providers
    <2>1. outcomes \in Seq(Outcomes)
      BY DEF GeoInv, TypeOK, ThreadTypes
    <2>2. Len(outcomes) < Providers
      BY <1>2 DEF GeoInv, Control
    <2> QED BY <2>1, <2>2
  <1>4. outcomes' \in Seq(Outcomes) /\ Len(outcomes') = Len(outcomes) + 1
    BY <1>1, <1>3
  <1>5. Len(outcomes') <= Providers /\ (meta' = "probing" => Len(outcomes') < Providers)
    <2>1. Len(outcomes) \in Nat /\ Len(outcomes) < Providers /\ Providers \in Nat
      BY <1>3, Constants
    <2>2. meta' = "probing" => Len(outcomes) + 1 # Providers
      BY <1>2
    <2> QED BY <1>4, <2>1, <2>2
  <1>6. Usable(outcomes) => Usable(outcomes')
    BY <1>1, <1>3, UsableGrows
  <1>7. ThreadTypes'
    BY <1>2, <1>4, <1>5 DEF GeoInv, TypeOK, ThreadTypes, dnsVars
  <1>8. TypeOK'
    BY <1>2, <1>7, Unchanged DEF GeoInv
  <1>9. Honest'
    BY <1>2, <1>6 DEF GeoInv, Honest, Online, Resolved, parentVars, childVars, dnsVars
  <1>10. Control'
    BY <1>2, <1>5 DEF GeoInv, Control, parentVars, childVars, dnsVars, env
  <1> QED BY <1>8, <1>9, <1>10 DEF GeoInv

LEMMA ProbeRaisesGeoInv == GeoInv /\ ProbeRaises => GeoInv'
  <1> SUFFICES ASSUME GeoInv, ProbeRaises PROVE GeoInv'
    OBVIOUS
  <1>1. /\ meta = "probing" /\ meta' = "dead"
        /\ UNCHANGED <<env, now, parentVars, childVars, outcomes, began, box, dnsVars>>
    BY DEF ProbeRaises
  <1>2. ThreadTypes'
    BY <1>1 DEF GeoInv, TypeOK, ThreadTypes, dnsVars
  <1>3. TypeOK'
    BY <1>1, <1>2, Unchanged DEF GeoInv
  <1>4. Honest'
    BY <1>1 DEF GeoInv, Honest, Online, Resolved, parentVars, childVars, dnsVars
  <1>5. Control'
    BY <1>1 DEF GeoInv, Control, parentVars, childVars, dnsVars, env
  <1> QED BY <1>3, <1>4, <1>5 DEF GeoInv

LEMMA StoreBoxGeoInv == GeoInv /\ (StoreValue \/ StoreProbes) => GeoInv'
  <1> SUFFICES ASSUME GeoInv, StoreValue \/ StoreProbes PROVE GeoInv'
    OBVIOUS
  <1>1. /\ meta \in {"store value", "store probes"} /\ meta' \in {"store probes", "done"}
        /\ box' \in {[box EXCEPT !.value = Usable(outcomes)], [box EXCEPT !.probes = outcomes]}
        /\ UNCHANGED <<env, now, parentVars, childVars, outcomes, began, dnsVars>>
    BY DEF StoreValue, StoreProbes
  <1>2. /\ box \in [value : BOOLEAN, probes : Seq(Outcomes)]
        /\ outcomes \in Seq(Outcomes) /\ Usable(outcomes) \in BOOLEAN
    BY DEF GeoInv, TypeOK, ThreadTypes, Usable
  <1>3. box' \in [value : BOOLEAN, probes : Seq(Outcomes)]
    BY <1>1, <1>2
  <1>4. box'.value => Usable(outcomes)
    BY <1>1, <1>2 DEF GeoInv, Honest
  <1>5. ThreadTypes'
    BY <1>1, <1>3 DEF GeoInv, TypeOK, ThreadTypes, dnsVars
  <1>6. TypeOK'
    BY <1>1, <1>5, Unchanged DEF GeoInv
  <1>7. Honest'
    BY <1>1, <1>4 DEF GeoInv, Honest, Online, Resolved, parentVars, childVars, dnsVars
  <1>8. Control'
    BY <1>1 DEF GeoInv, Control, parentVars, childVars, dnsVars, env
  <1> QED BY <1>6, <1>7, <1>8 DEF GeoInv

LEMMA AnswerDnsGeoInv == GeoInv /\ AnswerDns => GeoInv'
  <1> SUFFICES ASSUME GeoInv, AnswerDns PROVE GeoInv'
    OBVIOUS
  <1>1. /\ dns = "pending" /\ dns' \in DnsAnswers
        /\ UNCHANGED <<env, now, parentVars, childVars, metaVars, asked>>
    BY DEF AnswerDns
  <1>2. ThreadTypes'
    BY <1>1 DEF GeoInv, TypeOK, ThreadTypes, metaVars
  <1>3. TypeOK'
    BY <1>1, <1>2, Unchanged DEF GeoInv
  <1>4. ~Resolved
    BY <1>1 DEF Resolved
  <1>5. Honest'
    BY <1>1, <1>4 DEF GeoInv, Honest, Online, parentVars, childVars, metaVars
  <1>6. Control'
    BY <1>1 DEF GeoInv, Control, parentVars, childVars, metaVars, env
  <1> QED BY <1>3, <1>5, <1>6 DEF GeoInv

LEMMA TickGeoInv == GeoInv /\ Tick => GeoInv'
  <1> SUFFICES ASSUME GeoInv, Tick PROVE GeoInv'
    OBVIOUS
  <1>1. /\ polled /\ now' = now + 1 /\ polled' = FALSE
        /\ UNCHANGED <<env, parent, nread, answer, childVars, metaVars, dnsVars>>
    BY DEF Tick
  <1>2. now \in 0..ParentWait /\ now < ParentWait
    BY <1>1 DEF GeoInv, Control, TypeOK
  <1>3. now' \in 0..ParentWait
    BY <1>1, <1>2, Constants
  <1>4. ParentTypes' /\ ChildTypes' /\ ThreadTypes'
    <2>1. ParentTypes'
      BY <1>1 DEF GeoInv, TypeOK, ParentTypes
    <2>2. ChildTypes'
      BY <1>1 DEF GeoInv, TypeOK, ChildTypes, childVars
    <2>3. ThreadTypes'
      BY <1>1 DEF GeoInv, TypeOK, ThreadTypes, metaVars, dnsVars
    <2> QED BY <2>1, <2>2, <2>3
  <1>5. TypeOK'
    BY <1>1, <1>3, <1>4 DEF GeoInv, TypeOK, env
  <1>6. Honest'
    BY <1>1 DEF GeoInv, Honest, Online, Resolved, childVars, metaVars, dnsVars
  <1>7. Control'
    BY <1>1 DEF GeoInv, Control, childVars, metaVars, dnsVars, env
  <1> QED BY <1>5, <1>6, <1>7 DEF GeoInv

THEOREM GeoInvariant == Spec => []GeoInv
  <1>1. GeoInv /\ [Next]_vars => GeoInv'
    <2> SUFFICES ASSUME GeoInv, [Next]_vars PROVE GeoInv'
      OBVIOUS
    <2>1. CASE Start \/ Poll \/ Read \/ Return
      BY <2>1, StartGeoInv, PollGeoInv, ReadGeoInv, ReturnGeoInv
    <2>2. CASE StartChild \/ JoinMeta \/ JoinDns \/ ReadValue \/ ReadProbes
      BY <2>2, StartChildGeoInv, JoinGeoInv, ReadBoxGeoInv
    <2>3. CASE Classify \/ Store
      BY <2>3, ClassifyGeoInv, StoreGeoInv
    <2>4. CASE ProbeProvider \/ ProbeRaises \/ StoreValue \/ StoreProbes
      BY <2>4, ProbeProviderGeoInv, ProbeRaisesGeoInv, StoreBoxGeoInv
    <2>5. CASE AnswerDns \/ Tick
      BY <2>5, AnswerDnsGeoInv, TickGeoInv
    <2>6. CASE UNCHANGED vars
      <3>1. UNCHANGED <<env, now, parentVars, childVars, metaVars, dnsVars>>
        BY <2>6 DEF vars
      <3>2. TypeOK'
        BY <3>1, Unchanged DEF GeoInv
      <3>3. Honest' /\ Control'
        BY <3>1 DEF GeoInv, Honest, Control, Online, Resolved, parentVars, childVars,
                    metaVars, dnsVars
      <3> QED BY <3>2, <3>3 DEF GeoInv
    <2> QED BY <2>1, <2>2, <2>3, <2>4, <2>5, <2>6 DEF Next
  <1> QED BY <1>1, InitGeoInv, PTL DEF Spec

-----------------------------------------------------------------------------
(* The budgets *)

\* The arithmetic of the code's timeouts: 3 * 2 < 8 and 3 < 8.
Budgets == Providers * MetaTimeout < JoinTimeout /\ DnsTimeout < JoinTimeout

Unstarted == {"off", "start"}
Informed == {"read value", "read probes", "classify", "store", "done"}

\* No thread is still at work when its join could time out.
Timely ==
    /\ asked <= now
    /\ meta = "off" => outcomes = <<>>
    /\ child \notin Unstarted => meta # "off" /\ dns # "off"
    /\ dns = "pending" => now <= asked + DnsTimeout
    /\ child = "join meta" => since = asked
    /\ child = "join dns" => asked <= since
    /\ child \in Informed => dns \in DnsAnswers

\* The time the first n providers may take.
Budget(n) == n * MetaTimeout

MetaTimely ==
    ~overrun =>
        /\ meta = "probing" =>
              now <= began + MetaTimeout /\ began <= asked + Budget(Len(outcomes))
        /\ meta \in {"store value", "store probes"} => now <= asked + Budget(Providers)
        /\ child \notin Unstarted \cup {"join meta"} => meta \in {"done", "dead"}

LEMMA BudgetGrows ==
    ASSUME NEW n \in Nat, n < Providers
    PROVE  /\ Budget(n) \in Nat /\ Budget(Providers) \in Nat
           /\ Budget(n + 1) = Budget(n) + MetaTimeout
           /\ Budget(n + 1) <= Budget(Providers)
  <1>1. Providers \in Nat /\ MetaTimeout \in Nat
    BY Constants
  <1>2. (n + 1) * MetaTimeout = n * MetaTimeout + MetaTimeout
    BY <1>1
  <1>3. n * MetaTimeout \in Nat /\ Providers * MetaTimeout \in Nat
    BY <1>1
  <1>4. PICK m \in Nat : Providers = (n + 1) + m
    <2>1. Providers - (n + 1) \in Nat /\ Providers = (n + 1) + (Providers - (n + 1))
      BY <1>1
    <2> QED BY <2>1
  <1>5. Providers * MetaTimeout = (n + 1) * MetaTimeout + m * MetaTimeout
    BY <1>1, <1>4
  <1>6. m * MetaTimeout \in Nat /\ (n + 1) * MetaTimeout \in Nat
    BY <1>1
  <1> QED BY <1>2, <1>3, <1>5, <1>6 DEF Budget

LEMMA NoBudget == Budget(0) = 0
  BY Constants DEF Budget

LEMMA Clocks ==
    ASSUME TypeOK
    PROVE  now \in Nat /\ asked \in Nat /\ began \in Nat /\ since \in Nat
  <1>1. /\ now \in 0..ParentWait /\ since \in 0..ParentWait
        /\ asked \in 0..ParentWait /\ began \in 0..ParentWait
    BY Zenon DEF TypeOK, ChildTypes, ThreadTypes
  <1> QED BY <1>1, Constants

LEMMA Places ==
    ASSUME TypeOK
    PROVE  /\ dns \in DnsAnswers \cup {"off", "pending"}
           /\ meta \in {"off", "probing", "store value", "store probes", "done", "dead"}
  BY Zenon DEF TypeOK, ThreadTypes

LEMMA ProbesFinished ==
    ASSUME TypeOK
    PROVE  outcomes \in Seq(Outcomes) /\ Len(outcomes) \in Nat
  <1>1. outcomes \in Seq(Outcomes)
    BY Zenon DEF TypeOK, ThreadTypes
  <1> QED BY <1>1

LEMMA InitTimely == Init => Timely /\ MetaTimely
  BY DEF Init, Timely, MetaTimely, Unstarted, Informed

LEMMA NextTimely ==
    ASSUME Budgets, GeoInv, Timely, [Next]_vars
    PROVE  Timely'
  <1>1. now \in Nat /\ asked \in Nat /\ since \in Nat /\ JoinTimeout \in Nat /\ DnsTimeout \in Nat
        /\ DnsTimeout < JoinTimeout
    BY Clocks, Constants DEF GeoInv, Budgets
  <1>2. CASE Start
    BY <1>2 DEF Start, GeoInv, Control, Timely, Unstarted, Informed, metaVars, dnsVars
  <1>3. CASE Poll \/ Read \/ Return
    BY <1>3 DEF Poll, Read, Return, Timely, Unstarted, Informed, childVars, metaVars, dnsVars
  <1>4. CASE StartChild
    <2>1. /\ child' = "join meta" /\ meta' = "probing" /\ dns' = "pending"
          /\ since' = now /\ asked' = now /\ now' = now
      BY <1>4 DEF StartChild
    <2>2. now <= now + DnsTimeout /\ now <= now
      BY <1>1
    <2>3. now' <= asked' + DnsTimeout /\ asked' <= now'
      BY <2>1, <2>2, Zenon
    <2> QED BY <2>1, <2>3 DEF Timely, Unstarted, Informed
  <1>5. CASE JoinMeta
    BY <1>5 DEF JoinMeta, Timely, Unstarted, Informed, metaVars, dnsVars
  <1>6. CASE JoinDns
    <2>1. dns # "pending"
      <3>1. SUFFICES ASSUME dns = "pending" PROVE FALSE
        OBVIOUS
      <3>2. now >= since + JoinTimeout /\ asked <= since /\ now <= asked + DnsTimeout
        BY <1>6, <3>1 DEF JoinDns, Timely
      <3> QED BY <1>1, <3>2
    <2>2. dns \in DnsAnswers
      BY <1>6, <2>1, Places DEF JoinDns, Timely, Unstarted, GeoInv
    <2> QED BY <1>6, <2>2 DEF JoinDns, Timely, Unstarted, Informed, metaVars, dnsVars
  <1>7. CASE ReadValue \/ ReadProbes \/ Classify \/ Store
    BY <1>7 DEF ReadValue, ReadProbes, Classify, Store, Timely, Unstarted, Informed, metaVars,
                dnsVars
  <1>8. CASE ProbeProvider \/ ProbeRaises \/ StoreValue \/ StoreProbes
    BY <1>8 DEF ProbeProvider, ProbeRaises, StoreValue, StoreProbes, Timely, Unstarted, Informed,
                childVars, dnsVars
  <1>9. CASE AnswerDns
    BY <1>9 DEF AnswerDns, DnsAnswers, Timely, Unstarted, Informed, childVars, metaVars
  <1>10. CASE Tick
    <2>1. /\ dns = "pending" => now < asked + DnsTimeout
          /\ now' = now + 1 /\ UNCHANGED <<childVars, metaVars, dnsVars>>
      BY <1>10 DEF Tick
    <2>2. asked' = asked /\ dns' = dns
      BY <2>1 DEF dnsVars
    <2>3. asked' <= now'
      <3>1. asked <= now
        BY DEF Timely
      <3>2. asked <= now + 1
        BY <1>1, <3>1
      <3> QED BY <2>1, <2>2, <3>2, Zenon
    <2>4. dns' = "pending" => now' <= asked' + DnsTimeout
      BY <1>1, <2>1, <2>2
    <2> QED BY <2>1, <2>3, <2>4 DEF Timely, Unstarted, Informed, childVars, metaVars, dnsVars
  <1>11. CASE UNCHANGED vars
    BY <1>11 DEF vars, Timely, Unstarted, Informed, childVars, metaVars, dnsVars
  <1> QED BY <1>2, <1>3, <1>4, <1>5, <1>6, <1>7, <1>8, <1>9, <1>10, <1>11 DEF Next

LEMMA NextMetaTimely ==
    ASSUME Budgets, GeoInv, Timely, MetaTimely, [Next]_vars
    PROVE  MetaTimely'
  <1>1. /\ now \in Nat /\ asked \in Nat /\ began \in Nat
        /\ JoinTimeout \in Nat /\ MetaTimeout \in Nat
        /\ Budget(Providers) \in Nat /\ Budget(Providers) < JoinTimeout
    BY Clocks, Constants DEF GeoInv, Budgets, Budget
  <1>2. outcomes \in Seq(Outcomes) /\ Len(outcomes) \in Nat
    BY ProbesFinished DEF GeoInv
  <1>3. meta = "probing" => /\ Budget(Len(outcomes)) \in Nat
                            /\ Budget(Len(outcomes) + 1) = Budget(Len(outcomes)) + MetaTimeout
                            /\ Budget(Len(outcomes) + 1) <= Budget(Providers)
    <2>1. SUFFICES ASSUME meta = "probing" PROVE Len(outcomes) < Providers
      BY <1>2, BudgetGrows
    <2> QED BY <2>1 DEF GeoInv, Control
  <1>4. CASE Start
    BY <1>4 DEF Start, GeoInv, Control, MetaTimely, Unstarted, env, metaVars, dnsVars
  <1>5. CASE Poll \/ Read \/ Return
    BY <1>5 DEF Poll, Read, Return, MetaTimely, Unstarted, env, childVars, metaVars, dnsVars
  <1>6. CASE StartChild
    <2>1. outcomes = <<>>
      BY <1>6 DEF StartChild, GeoInv, Control, Timely
    <2>2. Len(outcomes) = 0
      BY <2>1
    <2>3. /\ child' = "join meta" /\ meta' = "probing" /\ outcomes' = outcomes
          /\ asked' = now /\ began' = now /\ now' = now
      BY <1>6 DEF StartChild
    <2>4. Budget(Len(outcomes')) = 0
      BY <2>2, <2>3, NoBudget
    <2>5. now' <= began' + MetaTimeout /\ began' <= asked' + 0
      <3>1. now <= now + MetaTimeout /\ now <= now + 0
        BY <1>1
      <3> QED BY <2>3, <3>1, Zenon
    <2> QED BY <2>3, <2>4, <2>5 DEF MetaTimely, Unstarted
  <1>7. CASE JoinMeta
    <2>1. ~overrun => meta \in {"done", "dead"}
      <3>1. SUFFICES ASSUME ~overrun, meta \notin {"done", "dead"} PROVE FALSE
        OBVIOUS
      <3>2. now >= asked + JoinTimeout /\ meta \in {"probing", "store value", "store probes"}
        BY <1>7, <3>1, Places DEF JoinMeta, Timely, Unstarted, GeoInv
      <3>3. CASE meta = "probing"
        <4>1. now <= began + MetaTimeout /\ began <= asked + Budget(Len(outcomes))
          BY <3>1, <3>3 DEF MetaTimely
        <4>2. now <= asked + Budget(Len(outcomes) + 1)
          BY <1>1, <1>3, <3>3, <4>1
        <4>3. Budget(Len(outcomes) + 1) \in Nat
          BY <1>1, <1>3, <3>3
        <4>4. Budget(Len(outcomes) + 1) <= Budget(Providers)
          BY <1>3, <3>3
        <4>5. now >= asked + JoinTimeout
          BY <3>2
        <4> QED BY <1>1, <4>2, <4>3, <4>4, <4>5
      <3>4. CASE meta # "probing"
        <4>1. now <= asked + Budget(Providers)
          BY <3>1, <3>2, <3>4 DEF MetaTimely
        <4>2. now >= asked + JoinTimeout
          BY <3>2
        <4> QED BY <1>1, <4>1, <4>2
      <3> QED BY <3>3, <3>4
    <2> QED BY <1>7, <2>1 DEF JoinMeta, MetaTimely, Unstarted, env, metaVars, dnsVars
  <1>8. CASE JoinDns \/ ReadValue \/ ReadProbes \/ Classify \/ Store
    BY <1>8 DEF JoinDns, ReadValue, ReadProbes, Classify, Store, MetaTimely, Unstarted, env,
                metaVars, dnsVars
  <1>9. CASE ProbeProvider
    <2>1. PICK outcome \in Outcomes : outcomes' = Append(outcomes, outcome)
      BY <1>9 DEF ProbeProvider
    <2>2. /\ meta = "probing" /\ began' = now
          /\ meta' = IF Len(outcomes) + 1 = Providers THEN "store value" ELSE "probing"
          /\ UNCHANGED <<overrun, now, child, asked>>
      BY <1>9 DEF ProbeProvider, env, childVars, dnsVars
    <2>3. Len(outcomes') = Len(outcomes) + 1
      BY <1>2, <2>1
    <2>4. SUFFICES ASSUME ~overrun PROVE MetaTimely'
      BY <2>2 DEF MetaTimely
    <2>5. /\ now <= began + MetaTimeout /\ began <= asked + Budget(Len(outcomes))
          /\ child \in Unstarted \cup {"join meta"}
      BY <2>2, <2>4 DEF MetaTimely
    <2>6. now <= asked + Budget(Len(outcomes) + 1)
      <3>1. now <= began + MetaTimeout /\ began <= asked + Budget(Len(outcomes))
        BY <2>5
      <3>2. /\ Budget(Len(outcomes)) \in Nat
            /\ Budget(Len(outcomes) + 1) = Budget(Len(outcomes)) + MetaTimeout
        BY <1>3, <2>2
      <3> QED BY <1>1, <3>1, <3>2
    <2>7. now' <= asked' + Budget(Len(outcomes'))
      BY <2>2, <2>3, <2>6
    <2>8. now' <= began' + MetaTimeout /\ began' = now'
      <3>1. began' = now /\ now' = now
        BY <2>2
      <3> QED BY <1>1, <3>1
    <2>9. CASE Len(outcomes) + 1 = Providers
      <3>1. meta' = "store value" /\ now' <= asked' + Budget(Providers)
        BY <2>2, <2>6, <2>9
      <3> QED BY <2>2, <2>5, <3>1 DEF MetaTimely
    <2>10. CASE Len(outcomes) + 1 # Providers
      <3>1. meta' = "probing"
        BY <2>2, <2>10
      <3> QED BY <2>2, <2>5, <2>7, <2>8, <3>1 DEF MetaTimely
    <2> QED BY <2>9, <2>10
  <1>10. CASE ProbeRaises \/ StoreValue \/ StoreProbes
    BY <1>10 DEF ProbeRaises, StoreValue, StoreProbes, MetaTimely, Unstarted, env, childVars,
                 dnsVars
  <1>11. CASE AnswerDns
    BY <1>11 DEF AnswerDns, MetaTimely, Unstarted, env, childVars, metaVars
  <1>12. CASE Tick
    <2>1. /\ meta \notin {"store value", "store probes"}
          /\ (meta = "probing" /\ ~overrun) => now < began + MetaTimeout
          /\ now' = now + 1
          /\ UNCHANGED <<overrun, child, meta, outcomes, began, asked>>
      BY <1>12 DEF Tick, env, childVars, metaVars, dnsVars
    <2>2. (meta = "probing" /\ ~overrun) => now' <= began' + MetaTimeout
      BY <1>1, <2>1
    <2> QED BY <2>1, <2>2 DEF MetaTimely
  <1>13. CASE UNCHANGED vars
    BY <1>13 DEF vars, MetaTimely, Unstarted, env, childVars, metaVars, dnsVars
  <1> QED BY <1>4, <1>5, <1>6, <1>7, <1>8, <1>9, <1>10, <1>11, <1>12, <1>13 DEF Next

-----------------------------------------------------------------------------
(* The data *)

Ended == {"done", "dead"}
Verdict == ClassifyNetworkState(Usable(Evidence), dns = "blackhole", Evidence)

\* The box holds what _fetch_meta has stored so far.
BoxFilled ==
    /\ meta \in {"off", "probing", "store value", "dead"} => ~box.value /\ box.probes = <<>>
    /\ meta \in {"store probes", "done"} => box.value = Usable(outcomes)
    /\ meta = "done" => box.probes = outcomes

\* Within the budgets the child reads all the evidence and classifies it.
EvidenceRead ==
    ~overrun =>
        /\ child \in {"read probes", "classify", "store", "done"} =>
              seen.value = Usable(Evidence)
        /\ child \in {"classify", "store", "done"} => seen.probes = Evidence
        /\ child \in {"store", "done"} => result.network_state = Verdict

\* A classified state in the answer is a copy of the child's.
AnswerCopied ==
    (mode = "auto" /\ answer.network_state # "unknown") =>
        child \in {"store", "done"} /\ answer.network_state = result.network_state

DataInv == Timely /\ MetaTimely /\ BoxFilled /\ EvidenceRead /\ AnswerCopied

LEMMA InitData == Init => BoxFilled /\ EvidenceRead /\ AnswerCopied
  BY DEF Init, Empty, Placeholder, BoxFilled, EvidenceRead, AnswerCopied

\* A thread that has ended leaves its evidence alone.
LEMMA EvidenceFrozen ==
    ASSUME GeoInv, [Next]_vars, meta \in Ended
    PROVE  UNCHANGED <<meta, outcomes, box, Evidence>>
  <1>1. child # "start"
    BY DEF GeoInv, Control, Ended
  <1>2. UNCHANGED <<meta, outcomes, box>>
    <2>1. CASE UNCHANGED metaVars
      BY <2>1 DEF metaVars
    <2>2. CASE StartChild \/ ProbeProvider \/ ProbeRaises \/ StoreValue \/ StoreProbes
      BY <1>1, <2>2 DEF StartChild, ProbeProvider, ProbeRaises, StoreValue, StoreProbes, Ended
    <2>3. CASE Start \/ Poll \/ Read \/ Return
      BY <2>1, <2>3 DEF Start, Poll, Read, Return
    <2>4. CASE JoinMeta \/ JoinDns \/ ReadValue \/ ReadProbes \/ Classify \/ Store
      BY <2>1, <2>4 DEF JoinMeta, JoinDns, ReadValue, ReadProbes, Classify, Store
    <2>5. CASE AnswerDns \/ Tick \/ UNCHANGED vars
      BY <2>1, <2>5 DEF AnswerDns, Tick, vars
    <2> QED BY <2>2, <2>3, <2>4, <2>5 DEF Next
  <1> QED BY <1>2 DEF Evidence

\* The resolver answers once.
LEMMA AnswerFrozen ==
    ASSUME GeoInv, [Next]_vars, dns \in DnsAnswers
    PROVE  dns' = dns
  <1>1. dns # "pending" /\ dns # "off"
    BY DEF DnsAnswers
  <1>2. child # "start"
    BY <1>1 DEF GeoInv, Control
  <1>3. CASE UNCHANGED dnsVars
    BY <1>3 DEF dnsVars
  <1>4. CASE StartChild \/ AnswerDns
    BY <1>1, <1>2, <1>4 DEF StartChild, AnswerDns
  <1>5. CASE Start \/ Poll \/ Read \/ Return
    BY <1>3, <1>5 DEF Start, Poll, Read, Return
  <1>6. CASE JoinMeta \/ JoinDns \/ ReadValue \/ ReadProbes \/ Classify \/ Store
    BY <1>3, <1>6 DEF JoinMeta, JoinDns, ReadValue, ReadProbes, Classify, Store
  <1>7. CASE ProbeProvider \/ ProbeRaises \/ StoreValue \/ StoreProbes
    BY <1>3, <1>7 DEF ProbeProvider, ProbeRaises, StoreValue, StoreProbes
  <1>8. CASE Tick \/ UNCHANGED vars
    BY <1>3, <1>8 DEF Tick, vars
  <1> QED BY <1>4, <1>5, <1>6, <1>7, <1>8 DEF Next

LEMMA NextBoxFilled ==
    ASSUME GeoInv, BoxFilled, [Next]_vars
    PROVE  BoxFilled'
  <1>1. CASE UNCHANGED metaVars
    BY <1>1 DEF BoxFilled, metaVars
  <1>2. CASE StartChild
    <2>1. meta = "off" /\ meta' = "probing" /\ box' = box
      BY <1>2 DEF StartChild, GeoInv, Control
    <2> QED BY <2>1 DEF BoxFilled
  <1>3. CASE ProbeProvider \/ ProbeRaises
    <2>1. /\ meta = "probing" /\ meta' \in {"probing", "store value", "dead"}
          /\ box' = box
      BY <1>3 DEF ProbeProvider, ProbeRaises
    <2> QED BY <2>1 DEF BoxFilled
  <1>4. CASE StoreValue
    <2>1. box'.value = Usable(outcomes)
      BY <1>4 DEF StoreValue, GeoInv, TypeOK, ThreadTypes
    <2> QED BY <1>4, <2>1 DEF StoreValue, BoxFilled
  <1>5. CASE StoreProbes
    <2>1. box'.value = box.value /\ box'.probes = outcomes
      BY <1>5 DEF StoreProbes, GeoInv, TypeOK, ThreadTypes
    <2> QED BY <1>5, <2>1 DEF StoreProbes, BoxFilled
  <1>6. CASE Start \/ Poll \/ Read \/ Return
    BY <1>1, <1>6 DEF Start, Poll, Read, Return
  <1>7. CASE JoinMeta \/ JoinDns \/ ReadValue \/ ReadProbes \/ Classify \/ Store
    BY <1>1, <1>7 DEF JoinMeta, JoinDns, ReadValue, ReadProbes, Classify, Store
  <1>8. CASE AnswerDns \/ Tick \/ UNCHANGED vars
    BY <1>1, <1>8 DEF AnswerDns, Tick, vars
  <1> QED BY <1>2, <1>3, <1>4, <1>5, <1>6, <1>7, <1>8 DEF Next

LEMMA NextEvidenceRead ==
    ASSUME GeoInv, DataInv, [Next]_vars
    PROVE  EvidenceRead'
  <1>1. CASE overrun
    <2>1. overrun' = overrun
      BY DEF Next, vars, env, Start, Poll, Read, Return, StartChild, JoinMeta, JoinDns,
             ReadValue, ReadProbes, Classify, Store, ProbeProvider, ProbeRaises, StoreValue,
             StoreProbes, AnswerDns, Tick
    <2> QED BY <1>1, <2>1 DEF EvidenceRead
  <1>2. CASE ~overrun /\ child \notin Informed
    <2>1. child' \notin {"read probes", "classify", "store", "done"}
      BY <1>2 DEF Informed, Next, vars, Start, Poll, Read, Return, StartChild, JoinMeta, JoinDns,
                  ReadValue, ReadProbes, Classify, Store, ProbeProvider, ProbeRaises, StoreValue,
                  StoreProbes, AnswerDns, Tick, childVars
    <2> QED BY <2>1 DEF EvidenceRead
  <1>3. CASE ~overrun /\ child \in Informed
    <2>1. /\ meta \in Ended /\ dns \in DnsAnswers
          /\ child \notin {"off", "start", "join meta", "join dns"}
      BY <1>3 DEF DataInv, Timely, MetaTimely, Informed, Unstarted, Ended
    <2>2. /\ UNCHANGED <<meta, outcomes, box, Evidence>> /\ UNCHANGED dns
          /\ UNCHANGED Verdict
      BY <2>1, EvidenceFrozen, AnswerFrozen DEF Verdict
    <2>3. box.value = Usable(Evidence) /\ box.probes = Evidence
      <3>1. box.value \in BOOLEAN
        <4>1. box \in [value : BOOLEAN, probes : Seq(Outcomes)]
          BY Zenon DEF GeoInv, TypeOK, ThreadTypes
        <4> QED BY <4>1
      <3>2. CASE meta = "dead"
        <4>1. Evidence = <<>> /\ ~box.value /\ box.probes = <<>>
          BY <3>2 DEF Evidence, DataInv, BoxFilled
        <4>2. Usable(Evidence) = FALSE
          BY <4>1 DEF Usable
        <4> QED BY <3>1, <4>1, <4>2
      <3>3. CASE meta = "done"
        BY <3>3 DEF Evidence, DataInv, BoxFilled
      <3> QED BY <2>1, <3>2, <3>3 DEF Ended
    <2>4. CASE UNCHANGED childVars
      BY <1>3, <2>2, <2>4 DEF DataInv, EvidenceRead, childVars
    <2>5. CASE ReadValue
      <3>1. seen'.value = box.value /\ child' = "read probes"
        BY <2>5 DEF ReadValue, GeoInv, TypeOK, ChildTypes
      <3> QED BY <2>2, <2>3, <3>1 DEF EvidenceRead
    <2>6. CASE ReadProbes
      <3>1. /\ child = "read probes" /\ child' = "classify"
            /\ seen'.probes = box.probes /\ seen'.value = seen.value
        BY <2>6 DEF ReadProbes, GeoInv, TypeOK, ChildTypes
      <3>2. seen.value = Usable(Evidence)
        BY <1>3, <3>1 DEF DataInv, EvidenceRead
      <3> QED BY <2>2, <2>3, <3>1, <3>2 DEF EvidenceRead
    <2>7. CASE Classify
      <3>1. /\ child = "classify" /\ child' = "store" /\ seen' = seen
            /\ result' = MetaVars(seen.value, seen.probes)
        BY <2>7 DEF Classify
      <3>2. seen.value = Usable(Evidence) /\ seen.probes = Evidence
        BY <1>3, <3>1 DEF DataInv, EvidenceRead
      <3>3. result'.network_state = Verdict
        BY <3>1, <3>2 DEF MetaVars, Verdict
      <3> QED BY <2>2, <3>1, <3>2, <3>3 DEF EvidenceRead
    <2>8. CASE Store
      <3>1. child = "store" /\ child' \in {"store", "done"} /\ UNCHANGED <<seen, result>>
        BY <2>8 DEF Store
      <3> QED BY <1>3, <2>2, <3>1 DEF DataInv, EvidenceRead
    <2>9. CASE Start \/ StartChild \/ JoinMeta \/ JoinDns
      BY <2>1, <2>9 DEF Start, StartChild, JoinMeta, JoinDns, GeoInv, Control
    <2>10. CASE Poll \/ Read \/ Return \/ AnswerDns \/ Tick \/ UNCHANGED vars
      BY <2>4, <2>10 DEF Poll, Read, Return, AnswerDns, Tick, vars
    <2>11. CASE ProbeProvider \/ ProbeRaises \/ StoreValue \/ StoreProbes
      BY <2>4, <2>11 DEF ProbeProvider, ProbeRaises, StoreValue, StoreProbes
    <2> QED BY <2>5, <2>6, <2>7, <2>8, <2>9, <2>10, <2>11 DEF Next
  <1> QED BY <1>1, <1>2, <1>3

LEMMA NextAnswerCopied ==
    ASSUME GeoInv, AnswerCopied, [Next]_vars
    PROVE  AnswerCopied'
  <1>0. mode' = mode
    BY DEF Next, vars, env, Start, Poll, Read, Return, StartChild, JoinMeta, JoinDns, ReadValue,
           ReadProbes, Classify, Store, ProbeProvider, ProbeRaises, StoreValue, StoreProbes,
           AnswerDns, Tick
  <1>1. SUFFICES ASSUME mode = "auto" PROVE AnswerCopied'
    BY <1>0 DEF AnswerCopied
  <1>2. CASE UNCHANGED <<child, result, answer>>
    BY <1>1, <1>2 DEF AnswerCopied
  <1>3. CASE Start
    <2>1. child = "off" /\ answer' = answer
      BY <1>1, <1>3 DEF Start, GeoInv, Control
    <2> QED BY <1>1, <2>1 DEF AnswerCopied
  <1>4. CASE Read
    <2>1. /\ answer' = [answer EXCEPT ![Fields[nread + 1]] = Shared(nread + 1)]
          /\ UNCHANGED <<child, result>>
      BY <1>4 DEF Read, childVars
    <2>2. answer \in Answers
      BY Zenon DEF GeoInv, TypeOK, ParentTypes
    <2>3. CASE Fields[nread + 1] # "network_state"
      <3>1. answer'.network_state = answer.network_state
        BY <2>1, <2>2, <2>3 DEF Answers
      <3> QED BY <1>1, <2>1, <3>1 DEF AnswerCopied
    <2>4. CASE Fields[nread + 1] = "network_state"
      <3>1. answer'.network_state = Shared(nread + 1)
        BY <2>1, <2>2, <2>4 DEF Answers
      <3>2. CASE nread + 1 <= nstored
        <4>1. Shared(nread + 1) = result.network_state
          BY <2>4, <3>2 DEF Shared
        <4>2. nstored > 0
          <5>1. nread \in Nat /\ nstored \in Nat
            <6>1. nread \in 0..Len(Fields) /\ nstored \in 0..Len(Fields)
              BY Zenon DEF GeoInv, TypeOK, ParentTypes, ChildTypes
            <6> QED BY <6>1, FieldFacts
          <5> QED BY <3>2, <5>1
        <4>3. child \in {"store", "done"}
          BY <4>2 DEF GeoInv, Control
        <4> QED BY <2>1, <3>1, <4>1, <4>3 DEF AnswerCopied
      <3>3. CASE ~(nread + 1 <= nstored)
        <4>1. Shared(nread + 1) = "unknown"
          BY <2>4, <3>3 DEF Shared, Placeholder
        <4> QED BY <3>1, <4>1 DEF AnswerCopied
      <3> QED BY <3>2, <3>3
    <2> QED BY <2>3, <2>4
  <1>5. CASE Return
    BY <1>1, <1>2, <1>5 DEF Return, childVars
  <1>6. CASE StartChild \/ JoinMeta \/ JoinDns \/ ReadValue \/ ReadProbes \/ Classify
    <2>1. child \notin {"store", "done"} /\ answer' = answer
      BY <1>6 DEF StartChild, JoinMeta, JoinDns, ReadValue, ReadProbes, Classify, parentVars
    <2> QED BY <1>1, <2>1 DEF AnswerCopied
  <1>7. CASE Store
    <2>1. child = "store" /\ child' \in {"store", "done"} /\ UNCHANGED <<answer, result>>
      BY <1>7 DEF Store, parentVars
    <2> QED BY <1>1, <2>1 DEF AnswerCopied
  <1>8. CASE ProbeProvider \/ ProbeRaises \/ StoreValue \/ StoreProbes
    BY <1>2, <1>8 DEF ProbeProvider, ProbeRaises, StoreValue, StoreProbes, parentVars, childVars
  <1>9. CASE Poll \/ AnswerDns \/ Tick \/ UNCHANGED vars
    BY <1>2, <1>9 DEF Poll, AnswerDns, Tick, vars, parentVars, childVars
  <1> QED BY <1>3, <1>4, <1>5, <1>6, <1>7, <1>8, <1>9 DEF Next

-----------------------------------------------------------------------------
(* The deadline *)

\* The arithmetic of the parent's wait, with a child that runs within a second:
\* 1 + 8 < 10 and 3 <= 8.
Window == MaxStart + JoinTimeout < ParentWait /\ DnsTimeout <= JoinTimeout

\* A child that has started is done before the parent gives up, whatever the
\* providers do: both joins end within one JoinTimeout of its start.
InTime ==
    /\ child = "off" => now = 0 /\ parent \in {"start", "done"}
    /\ child = "start" => now <= MaxStart
    /\ child \notin Unstarted => asked <= MaxStart
    /\ child = "join meta" => since = asked
    /\ dns = "pending" => now <= asked + DnsTimeout
    /\ child \notin Unstarted \cup {"done"} => now <= asked + JoinTimeout

\* The parent reads values that are all stored, or it stopped waiting because
\* the first of them shows the network up, and reads that one first.
AllRead == child = "done" /\ \A i \in 1..nread : answer[Fields[i]] = result[Fields[i]]
NetworkSeen ==
    /\ child \in {"store", "done"} /\ nstored > 0 /\ ~result.no_internet
    /\ nread > 0 => ~answer.no_internet

Gathered ==
    /\ child = "done" => nstored = Len(Fields)
    /\ parent \in {"read", "return"} => AllRead \/ NetworkSeen
    /\ parent = "return" => nread = Len(Fields)
    /\ OfflineIsClassified

LEMMA InitGathered == Init => InTime /\ Gathered
  <1> SUFFICES ASSUME Init PROVE InTime /\ Gathered
    OBVIOUS
  <1>1. child = "off" /\ now = 0 /\ parent = "start" /\ dns = "off"
    BY DEF Init
  <1> QED BY <1>1 DEF InTime, Unstarted, Gathered, OfflineIsClassified

\* Nobody is still at work at the deadline.
LEMMA DoneByDeadline ==
    ASSUME Window, TypeOK, InTime, child \notin {"off", "done"}
    PROVE  now < ParentWait
  <1>1. now \in Nat /\ asked \in Nat
    BY Clocks
  <1>2. MaxStart \in Nat /\ JoinTimeout \in Nat /\ ParentWait \in Nat
    BY Constants
  <1>3. MaxStart + JoinTimeout < ParentWait
    BY DEF Window
  <1>4. CASE child = "start"
    <2>1. now <= MaxStart
      BY <1>4 DEF InTime
    <2> QED BY <1>1, <1>2, <1>3, <2>1
  <1>5. CASE child # "start"
    <2>1. asked <= MaxStart /\ now <= asked + JoinTimeout
      BY <1>5 DEF InTime, Unstarted
    <2> QED BY <1>1, <1>2, <1>3, <2>1
  <1> QED BY <1>4, <1>5

LEMMA NextInTime ==
    ASSUME Window, GeoInv, InTime, [Next]_vars
    PROVE  InTime'
  <1>1. /\ now \in Nat /\ asked \in Nat /\ since \in Nat /\ MaxStart \in Nat
        /\ JoinTimeout \in Nat /\ DnsTimeout \in Nat /\ DnsTimeout <= JoinTimeout
    BY Clocks, Constants DEF GeoInv, Window
  <1>2. CASE Start
    <2>1. child = "off" /\ dns = "off" /\ now = 0
      BY <1>2 DEF Start, GeoInv, Control, InTime
    <2>2. 0 <= MaxStart
      BY <1>1
    <2>3. /\ now' = 0 /\ dns' = "off"
          /\ \/ child' = "off" /\ parent' = "done"
             \/ child' = "start"
      BY <1>2, <2>1 DEF Start, dnsVars
    <2> QED BY <2>2, <2>3 DEF InTime, Unstarted
  <1>3. CASE Poll \/ Read \/ Return
    <2>1. /\ UNCHANGED <<now, childVars, dnsVars>>
          /\ parent \notin {"start", "done"}
      BY <1>3 DEF Poll, Read, Return
    <2> QED BY <2>1 DEF InTime, childVars, dnsVars
  <1>4. CASE StartChild
    <2>1. /\ child = "start" /\ child' = "join meta" /\ dns' = "pending"
          /\ since' = now /\ asked' = now /\ now' = now
      BY <1>4 DEF StartChild
    <2>2. now <= MaxStart
      BY <2>1 DEF InTime
    <2>3. now <= now + DnsTimeout /\ now <= now + JoinTimeout
      BY <1>1
    <2>4. asked' <= MaxStart /\ now' <= asked' + DnsTimeout /\ now' <= asked' + JoinTimeout
      BY <2>1, <2>2, <2>3, Zenon
    <2> QED BY <2>1, <2>4 DEF InTime, Unstarted
  <1>5. CASE JoinMeta \/ JoinDns
    <2>1. /\ child \in {"join meta", "join dns"} /\ child' \in {"join dns", "read value"}
          /\ UNCHANGED <<now, dnsVars>>
      BY <1>5 DEF JoinMeta, JoinDns
    <2> QED BY <2>1 DEF InTime, Unstarted, dnsVars
  <1>6. CASE ReadValue \/ ReadProbes \/ Classify \/ Store
    <2>1. /\ child \in {"read value", "read probes", "classify", "store"}
          /\ child' \in {"read probes", "classify", "store", "done"}
          /\ UNCHANGED <<now, dnsVars>>
      BY <1>6 DEF ReadValue, ReadProbes, Classify, Store
    <2> QED BY <2>1 DEF InTime, Unstarted, dnsVars
  <1>7. CASE ProbeProvider \/ ProbeRaises \/ StoreValue \/ StoreProbes
    BY <1>7 DEF ProbeProvider, ProbeRaises, StoreValue, StoreProbes, InTime, Unstarted,
                parentVars, childVars, dnsVars
  <1>8. CASE AnswerDns
    BY <1>8 DEF AnswerDns, DnsAnswers, InTime, Unstarted, parentVars, childVars
  <1>9. CASE Tick
    <2>1. /\ parent = "wait" /\ now' = now + 1
          /\ UNCHANGED <<parent, childVars, dnsVars>>
          /\ child = "start" => now < MaxStart
          /\ child = "join meta" => now < since + JoinTimeout
          /\ child = "join dns" => dns = "pending"
          /\ child \notin {"read value", "read probes", "classify", "store"}
          /\ dns = "pending" => now < asked + DnsTimeout
      BY <1>9 DEF Tick
    <2>2. UNCHANGED <<child, since, asked, dns>>
      BY <2>1 DEF childVars, dnsVars
    <2>3. child' # "off"
      BY <2>1, <2>2 DEF InTime
    <2>4. child' = "start" => now' <= MaxStart
      BY <1>1, <2>1, <2>2
    <2>5. ASSUME dns = "pending"
          PROVE  now + 1 <= asked + DnsTimeout /\ now + 1 <= asked + JoinTimeout
      <3>1. now < asked + DnsTimeout
        BY <2>1, <2>5
      <3> QED BY <1>1, <3>1
    <2>6. ASSUME child = "join meta" PROVE now + 1 <= asked + JoinTimeout
      <3>1. since = asked /\ now < since + JoinTimeout
        BY <2>1, <2>6 DEF InTime
      <3> QED BY <1>1, <3>1
    <2>7. child \in {"start", "join meta", "join dns", "done"}
      <3>1. child \in {"off", "start", "join meta", "join dns", "read value", "read probes",
                       "classify", "store", "done"}
        BY Zenon DEF GeoInv, TypeOK, ChildTypes
      <3> QED BY <2>1, <2>2, <2>3, <3>1
    <2>8. child' \notin Unstarted \cup {"done"} => now' <= asked' + JoinTimeout
      <3>1. child = "join dns" => now + 1 <= asked + JoinTimeout
        BY <2>1, <2>5
      <3> QED BY <2>1, <2>2, <2>6, <2>7, <3>1, Zenon DEF Unstarted
    <2>9. dns' = "pending" => now' <= asked' + DnsTimeout
      BY <2>1, <2>2, <2>5, Zenon
    <2>10. /\ child' \notin Unstarted => asked' <= MaxStart
           /\ child' = "join meta" => since' = asked'
      BY <2>2 DEF InTime
    <2> QED BY <2>3, <2>4, <2>8, <2>9, <2>10 DEF InTime
  <1>10. CASE UNCHANGED vars
    BY <1>10 DEF vars, InTime, Unstarted, parentVars, childVars, dnsVars
  <1> QED BY <1>2, <1>3, <1>4, <1>5, <1>6, <1>7, <1>8, <1>9, <1>10 DEF Next

\* Reading a stored value copies the child's.
LEMMA ReadCopies ==
    ASSUME GeoInv, Gathered, Read
    PROVE  Gathered'
  <1>1. /\ parent = "read" /\ nread' = nread + 1
        /\ answer' = [answer EXCEPT ![Fields[nread + 1]] = Shared(nread + 1)]
        /\ parent' = IF nread + 1 = Len(Fields) THEN "return" ELSE "read"
        /\ UNCHANGED <<child, result, nstored>>
    BY DEF Read, childVars
  <1>2. nread \in 0..4
    <2>1. nread \in 0..Len(Fields)
      BY Zenon DEF GeoInv, TypeOK, ParentTypes
    <2>2. nread < Len(Fields)
      BY <1>1 DEF GeoInv, Control
    <2> QED BY <2>1, <2>2, FieldFacts
  <1>3. answer \in Answers
    BY Zenon DEF GeoInv, TypeOK, ParentTypes
  <1>4. nstored \in 0..5
    <2>1. nstored \in 0..Len(Fields)
      BY Zenon DEF GeoInv, TypeOK, ChildTypes
    <2> QED BY <2>1, FieldFacts
  <1>5. nread + 1 \in 1..5 /\ nread + 1 >= 1
    BY <1>2
  <1>6. DOMAIN answer = FieldNames
    BY <1>3, FieldFacts DEF Answers
  <1>7. \A i \in 1..5 : Fields[i] \in FieldNames
    BY DEF FieldNames, Fields
  <1>8. answer'[Fields[nread + 1]] = Shared(nread + 1)
    BY <1>1, <1>5, <1>6, <1>7
  <1>9. CASE AllRead
    <2>1. nstored = 5
      BY <1>9, FieldFacts DEF AllRead, Gathered
    <2>2. Shared(nread + 1) = result[Fields[nread + 1]]
      <3>1. nread + 1 <= nstored
        BY <1>2, <2>1
      <3> QED BY <3>1 DEF Shared
    <2>3. SUFFICES ASSUME NEW i \in 1..nread' PROVE answer'[Fields[i]] = result[Fields[i]]
      BY <1>1, <1>9, <2>1 DEF Gathered, AllRead, OfflineIsClassified
    <2>4. CASE i = nread + 1
      BY <1>8, <2>2, <2>4
    <2>5. CASE i # nread + 1
      <3>1. i \in 1..nread /\ i \in 1..5
        BY <1>1, <1>2, <2>5
      <3>2. Fields[i] # Fields[nread + 1]
        <4>1. \A k \in 1..5, m \in 1..5 : k # m => Fields[k] # Fields[m]
          BY FieldFacts
        <4> QED BY <1>5, <2>5, <3>1, <4>1
      <3>3. answer'[Fields[i]] = answer[Fields[i]]
        BY <1>1, <1>6, <1>7, <3>1, <3>2
      <3>4. answer[Fields[i]] = result[Fields[i]]
        BY <1>9, <3>1 DEF AllRead
      <3> QED BY <3>3, <3>4
    <2> QED BY <2>4, <2>5
  <1>10. CASE NetworkSeen
    <2>1. ~answer'.no_internet
      <3>1. CASE nread = 0
        <4>1. Shared(1) = result.no_internet
          <5>1. 1 <= nstored
            BY <1>4, <1>10 DEF NetworkSeen
          <5> QED BY <5>1, FieldFacts DEF Shared
        <4>2. ~result.no_internet
          BY <1>10 DEF NetworkSeen
        <4> QED BY <1>8, <3>1, <4>1, <4>2, FieldFacts
      <3>2. CASE nread # 0
        <4>1. nread > 0 /\ nread + 1 # 1
          BY <1>2, <3>2
        <4>2. Fields[nread + 1] # "no_internet"
          BY <1>5, <4>1, FieldFacts
        <4>3. answer'.no_internet = answer.no_internet
          BY <1>1, <1>3, <4>2 DEF Answers
        <4> QED BY <1>10, <4>1, <4>3 DEF NetworkSeen
      <3> QED BY <3>1, <3>2
    <2> QED BY <1>1, <1>10, <2>1 DEF Gathered, NetworkSeen, OfflineIsClassified
  <1> QED BY <1>1, <1>9, <1>10 DEF Gathered

LEMMA NextGathered ==
    ASSUME Window, GeoInv, InTime, Gathered, [Next]_vars
    PROVE  Gathered'
  <1>1. CASE Start
    <2>1. child = "off" /\ child' # "done" /\ parent' \in {"done", "wait"}
      BY <1>1 DEF Start, GeoInv, Control
    <2>2. parent' = "done" => mode' = "shutdown"
      BY <1>1 DEF Start, env
    <2> QED BY <2>1, <2>2 DEF Gathered, OfflineIsClassified
  <1>2. CASE Poll
    <2>1. /\ parent = "wait" /\ parent' \in {"wait", "read"}
          /\ UNCHANGED <<now, nread, answer, childVars>>
          /\ parent' = "read" => ~(now < ParentWait /\ Shared(1))
      BY <1>2 DEF Poll
    <2>2. nread = 0 /\ child # "off"
      BY <2>1 DEF GeoInv, Control, InTime
    <2>3. parent' = "read" => AllRead' \/ NetworkSeen'
      <3>1. SUFFICES ASSUME parent' = "read" PROVE AllRead' \/ NetworkSeen'
        OBVIOUS
      <3>2. nread' = 0 /\ UNCHANGED <<child, result, nstored, answer>>
        BY <2>1, <2>2 DEF childVars
      <3>3. CASE child = "done"
        <4>1. 1..nread' = {}
          BY <3>2
        <4> QED BY <3>2, <3>3, <4>1 DEF AllRead
      <3>4. CASE child # "done"
        <4>1. ~Shared(1)
          BY <2>1, <2>2, <3>1, <3>4, DoneByDeadline DEF GeoInv
        <4>2. 1 <= nstored /\ ~result.no_internet
          BY <4>1, FieldFacts, PlaceholderType DEF Shared
        <4>3. nstored > 0
          <5>1. nstored \in 0..Len(Fields)
            BY Zenon DEF GeoInv, TypeOK, ChildTypes
          <5> QED BY <4>2, <5>1, FieldFacts
        <4>4. child \in {"store", "done"}
          BY <4>3 DEF GeoInv, Control
        <4> QED BY <3>2, <4>2, <4>3, <4>4 DEF NetworkSeen
      <3> QED BY <3>3, <3>4
    <2> QED BY <2>1, <2>3 DEF Gathered, OfflineIsClassified, childVars
  <1>3. CASE Read
    BY <1>3, ReadCopies
  <1>4. CASE Return
    <2>1. /\ parent = "return" /\ parent' = "done"
          /\ answer' = IF mode = "auto" THEN answer ELSE [answer EXCEPT !.network_state = mode]
          /\ UNCHANGED <<mode, child, result, nstored>>
      BY <1>4 DEF Return, env, childVars
    <2>2. answer \in Answers
      BY Zenon DEF GeoInv, TypeOK, ParentTypes
    <2>3. CASE AllRead
      <3>1. nread = 5
        BY <2>1, FieldFacts DEF Gathered
      <3>2. \A i \in 1..5 : answer[Fields[i]] = result[Fields[i]]
        BY <2>3, <3>1 DEF AllRead
      <3>3. \A f \in FieldNames : answer[f] = result[f]
        BY <3>2, FieldFacts DEF FieldNames
      <3>4. \A f \in FieldNames \ {"network_state"} : answer'[f] = answer[f]
        <4>1. DOMAIN answer = FieldNames
          BY <2>2, FieldFacts DEF Answers
        <4> QED BY <2>1, <4>1
      <3>5. "network_state" \in FieldNames
        BY DEF FieldNames, Fields
      <3>6. mode = "auto" => answer'.network_state = result.network_state
        BY <2>1, <3>3, <3>5
      <3> QED BY <2>1, <2>3, <3>3, <3>4, <3>6 DEF Gathered, AllRead, OfflineIsClassified
    <2>4. CASE NetworkSeen
      <3>1. nread > 0
        BY <2>1, FieldFacts DEF Gathered
      <3>2. ~answer'.no_internet
        BY <2>1, <2>2, <2>4, <3>1 DEF NetworkSeen, Answers
      <3> QED BY <2>1, <3>2 DEF Gathered, OfflineIsClassified
    <2> QED BY <2>1, <2>3, <2>4 DEF Gathered
  <1>5. CASE StartChild \/ JoinMeta \/ JoinDns \/ ReadValue \/ ReadProbes \/ Classify
    <2>1. /\ child \notin {"off", "done", "store"} /\ child' # "done"
          /\ UNCHANGED <<env, parentVars>>
      BY <1>5 DEF StartChild, JoinMeta, JoinDns, ReadValue, ReadProbes, Classify
    <2>2. parent \notin {"read", "return"}
      BY <2>1 DEF Gathered, AllRead, NetworkSeen
    <2>3. parent = "done" => mode = "shutdown" \/ ~answer.no_internet
      BY <2>1 DEF Gathered, OfflineIsClassified
    <2> QED BY <2>1, <2>2, <2>3 DEF Gathered, OfflineIsClassified, env, parentVars
  <1>6. CASE Store
    <2>1. /\ child = "store" /\ nstored' = nstored + 1
          /\ child' = IF nstored + 1 = Len(Fields) THEN "done" ELSE "store"
          /\ UNCHANGED <<env, parentVars, result>>
      BY <1>6 DEF Store
    <2>2. nstored \in Nat
      <3>1. nstored \in 0..Len(Fields)
        BY Zenon DEF GeoInv, TypeOK, ChildTypes
      <3> QED BY <3>1, FieldFacts
    <2>3. child' = "done" => nstored' = Len(Fields)
      BY <2>1
    <2>4. parent \in {"read", "return"} => NetworkSeen
      BY <2>1 DEF Gathered, AllRead
    <2>5. NetworkSeen => NetworkSeen'
      <3>1. nstored' > 0 /\ child' \in {"store", "done"}
        BY <2>1, <2>2
      <3> QED BY <2>1, <3>1 DEF NetworkSeen, parentVars
    <2>6. parent = "done" => mode = "shutdown" \/ ~answer.no_internet
      BY <2>1 DEF Gathered, OfflineIsClassified
    <2> QED BY <2>1, <2>3, <2>4, <2>5, <2>6 DEF Gathered, OfflineIsClassified, env, parentVars
  <1>7. CASE UNCHANGED <<env, parent, nread, answer, childVars>>
    BY <1>7 DEF Gathered, AllRead, NetworkSeen, OfflineIsClassified, env, childVars
  <1>8. CASE ProbeProvider \/ ProbeRaises \/ StoreValue \/ StoreProbes
    BY <1>7, <1>8 DEF ProbeProvider, ProbeRaises, StoreValue, StoreProbes, parentVars
  <1>9. CASE AnswerDns \/ Tick \/ UNCHANGED vars
    BY <1>7, <1>9 DEF AnswerDns, Tick, vars, parentVars
  <1> QED BY <1>1, <1>2, <1>3, <1>4, <1>5, <1>6, <1>8, <1>9 DEF Next

-----------------------------------------------------------------------------
(* The theorems *)

\* The shared values, the boxes and the clocks keep their types, and nobody
\* waits past the parent's deadline, for any timeouts.
THEOREM GeoTypes == Spec => []TypeOK
  <1>1. GeoInv => TypeOK
    BY DEF GeoInv
  <1> QED BY <1>1, GeoInvariant, PTL

\* The network is reported up only with proof, for any number of providers and
\* any interleaving of reads and stores.
THEOREM OnlineNeedsProof == Spec => []OnlineIsProved
  <1>1. GeoInv => OnlineIsProved
    BY DEF GeoInv, Honest, Online, OnlineIsProved
  <1> QED BY <1>1, GeoInvariant, PTL

\* When the budgets of the providers and of the resolver fit into the join
\* timeouts, a classified state is the one the whole evidence leads to, for any
\* number of providers, any interleaving and any values of the timeouts.
THEOREM ClassifiedFromAllEvidence ==
    ASSUME Budgets
    PROVE  Spec => []StateFollowsEvidence
  <1>1. Init => DataInv
    BY InitTimely, InitData DEF DataInv
  <1>2. GeoInv /\ DataInv /\ [Next]_vars => DataInv'
    BY NextTimely, NextMetaTimely, NextBoxFilled, NextEvidenceRead, NextAnswerCopied DEF DataInv
  <1>3. DataInv => StateFollowsEvidence
    BY DEF DataInv, EvidenceRead, AnswerCopied, StateFollowsEvidence, Verdict
  <1> QED BY <1>1, <1>2, <1>3, GeoInvariant, PTL DEF Spec

\* When the start of the child and one join timeout fit into the parent's wait,
\* a parent that saw no sign of the network returns the child's own verdict, for
\* any number of providers, any interleaving and providers that overrun too.
THEOREM NoStaleVerdict ==
    ASSUME Window
    PROVE  Spec => []OfflineIsClassified
  <1>1. GeoInv /\ InTime /\ Gathered /\ [Next]_vars => (InTime /\ Gathered)'
    BY NextInTime, NextGathered
  <1>2. Gathered => OfflineIsClassified
    BY DEF Gathered
  <1> QED BY <1>1, <1>2, InitGathered, GeoInvariant, PTL DEF Spec
=============================================================================
