# TLA+ models and proofs for TraceVis

TraceVis sends probes with growing TTLs (`utils/trace.py`, over scapy), collects
what answers in a RIPE-Atlas-shaped document, saves it and draws it as a graph.
This directory models the parts of it that keep state, checks them with TLC on
small instances and proves the invariants that matter most with TLAPS.

## 1. Inventory

| component | state | operations | talks to | what makes it correct |
|---|---|---|---|---|
| trace loop, `Tracer.run` (`utils/trace.py:919-1166`) | loop indices, `previous_node_ids`, `was_successful` | prepare entries, classify, preflight, probe or pad one turn, save | sends through scapy, writes the structure, asks geolocation and port pool | every result lands at its hop and repeat; nothing is sent past a destination; a trace ends and is saved |
| measurement structure (`utils/traceroute_struct.py`) | hop list of every arm, flags, annotation | `add_hop`, `clean_extra_result`, `set_endtime` | filled by the loop, read by vis, csv, monitor | position in a hop is the repeat; cleaning loses no path |
| command line (`tracevis.py:600-793`) | which file to render | start, catch Ctrl-C, save, render, exit code | owns the tracer, packet input, monitor | an interrupt loses nothing that was collected |
| DPI classifier (`utils/dpi.py`) | none | `classify_dpi_path` | called before and after the trace and per hop in vis | flags follow from the hops, on every save path |
| port pool (`utils/portpool.py`) | shuffled order, index, RST counts, cooling times; the tracer's port | `register_rst`, `reset_rst`, `next_port` | fed by each probe | floods move probes to clean ports; fresh ports go first |
| geolocation (`utils/geolocate.py`) | eight values shared with a child, two boxes its threads fill | poll, read, join, classify, store | child process or thread, two worker threads | no network without proof; the verdict follows from the evidence; it returns in time |
| probe and handshake (`trace.py:338-567`) | handshake verdict, RST count, packet fields | up to five SYNs, ACK, data; retransmission | scapy `sr`, ephemeral ports | data only after a SYN-ACK; retries only on silence |
| packet input and firewall (`utils/packet_input.py`) | one rule in the OUTPUT chain | add, check, remove | iptables, shared with the host | the rule covers the trace and is gone afterwards |
| monitor (`utils/monitor.py`, `tracevis.py:416-458`) | run records | run, sleep, summarise, trend | repeats the whole trace with the same packets | runs are comparable; one failure does not end the session |
| capture files (`trace.py:680-784`) | files of a directory | exclusive create, write | concurrent processes | no capture is overwritten |
| reply forgery (`utils/forgery.py`) | none | `classify_reply`, `find_forged_destination_reply` | trace, vis | a reply is not called the destination's when it was not |
| reassembly sweep (`utils/reassembly.py`, `tracevis.py:359-391`) | outcomes of the probes | plan, cut, send, classify | one connection per probe | the verdict is true of the middlebox |
| arm comparison (`utils/arms.py`) | none | summarise, classify | reads a capture back | a verdict is true of the path |
| RIPE Atlas (`utils/ripe_atlas.py`) | downloads in memory, a capture file | ask, skip, save | HTTP | a failure is not taken for a capture |
| IODA (`utils/ioda.py`) | spans asked for, the capture in place | windows, spans, judge, rewrite | HTTP, the file of RIPE Atlas | a verdict is about the measurement's own time; a failure loses no capture |
| graph (`utils/vis.py`) | last node and detections of every repeat; nodes and edges | draw a result, mark tier and convergence | reads captures, forgery, DPI classifier | the graph shows the paths of the capture, and only what was found |
| timing (`utils/timing.py`) | none | `adaptive_timeout`, `adaptive_interval` | trace | numbers, see section 7 |
| anonymisation (`utils/anonymize.py`) | pseudonym table | replace addresses | save path | one address, one pseudonym |
| renderers, csv, packet builders, interfaces | output only | draw, format, look up | files | not state; see section 7 |

Hard behaviours: Ctrl-C at any point; lists whose position carries meaning,
filled by nested loops with hand-kept indices; a parent, a child and two threads
that share memory without a lock and with nested timeouts; ports recovering
while nobody looks; one configured packet rewritten by every probe; files and
firewall rules shared with other processes; outcomes of many probes, some failed
and some falsely silent, read as one threshold; a file rewritten in place; routes
of several repeats drawn into one graph in which nodes are found by their text.

## 2. Modules

| module | models | theorems |
|---|---|---|
| `Dpi` | `classify_dpi_path` as an operator on a record of signals | |
| `Trace` | one run of the tracer: loop, structure, save, interrupt, reader's checks | |
| `Traceroute` | abstract: what a trace promises, paths instead of columns | |
| `TraceProofs` | proofs about `Trace` | types, six invariants, the refinement of `Traceroute` |
| `PortPool` | `PortRandomizer` and `_register_rst_feedback` | |
| `PortPoolProofs` | proofs about `PortPool` | types, an invariant, an action property |
| `Geolocate` | `run_geolocate` with its child and threads | |
| `GeolocateProofs` | proofs about `Geolocate` | types, three invariants |
| `Firewall` | the RST DROP rule as a context manager over a shared chain | |
| `Handshake` | the probes of one destination over TCP, composed with `Firewall` and with a path, a server and the host's kernel | |
| `HandshakeProofs` | proofs about `Firewall` and `Handshake` | types, six invariants, an action property |
| `Session` | `--monitor`: several processes that trace into one directory, and the trend | |
| `SessionProofs` | proofs about `Session` | types, two invariants, an action property |
| `Reassembly` | `--reassembly-probe` against a middlebox that forgets | |
| `Arms` | `--compare-arms` over a path that drops and refuses | |
| `Atlas` | the downloads from RIPE Atlas and the IODA annotation | |
| `CommandLine` | `main`, composed with `Reassembly`, `Atlas` and `Arms` | |
| `VerdictProofs` | proofs about `Reassembly`, `Arms`, `Atlas` and `CommandLine` | types, five invariants, and that `main` keeps what its components promise |
| `Evidence` | what one saved reply says: `utils/forgery.py` and the detectors of vis, as operators | |
| `Vis` | the graph drawn from a capture, over `Evidence` | |
| `VisProofs` | proofs about `Vis` | eight invariants |
| `Sieve` | dropping an element from a sequence, as `Session` and `Vis` do | |
| `NaturalFacts` | what the proofs need of naturals, finite sets and sequences | lemmas |
| `MCTrace`, `MCPortPool`, `MCGeolocate`, `MCHandshake`, `MCSession`, `MCCommandLine`, `MCVis` | instances for TLC | |

### Trace

An *arm* is a pair (packet, destination). `hops[a]` is the `result` list of the
arm's entry, a sequence of hops, each a sequence of results; `prev` is
`previous_node_ids`, `arm` the pair `<<access_block_steps, ip_steps>>`, `rep` and
`ttl` the two outer loops. `pc` says where the run is. One action is one turn of
the inner loop with everything the turn does (`add_hop`, the last node,
`was_successful`, the step of all four loops):

- `AppendEntry`, `ClassifyBeforeTrace`, `StartRepeat`, `Preflight` prepare;
- `StartRow` evaluates `are_equal`; `SkipTurn` is a turn of a row in which every
  arm has reached its destination, `ReachedTurn` a turn of an arm that has while
  others have not, `ProbeTurn` a turn with a probe, `ProbeError` the exception
  that ends in exit code 2;
- `EndTrace`, `Finalise`, `OpenMeasurement`, `WriteMeasurement` save (creating the
  file and writing it are two steps), `ReturnPath` and `Render` go on to the graph;
- `Interrupt` is Ctrl-C wherever `main` catches it, `SavePartialMeasurement`,
  `OpenPartial`, `WritePartial` are its handler, `InterruptHandler` a second press
  that nobody catches.

What a probe brings back is nondeterministic: a router, silence or the
destination, with an RST count and, for the destination, a verdict on forgery.
A probe whose address is the destination of *another* arm is an ordinary answer
(put that address into `Routers`). RTTs, sizes, packet lists, texts and times
are not modelled. A result with `rtt == 0` is padding in the code; a probe never
takes zero milliseconds, so only padding is `Dash`. Addresses are not
pseudonymised (`--anonymize` is off).

`Traceroute` states the promise without loops, rows or padding: in each repeat
each arm walks one answer per TTL until its destination has answered; no arm
starts a repeat before all have finished the previous one; a capture shows
exactly the paths walked so far. `TraceroutePromise` is the refinement: position
r of the hops, without padding, is the path of repeat r, and the *cleaned* hop
lists in the files show the same paths.

### PortPool

`order`, `idx`, `rst`, `cool` are `_order`, `_idx`, `_rst_counts` and
`_cooling_until`, the last one as the time that is left, so that `Tick` (time
passing at any moment) decreases it. `QuietProbe`, `CountedProbe` and
`TrippingProbe` are `send_packet` followed by `_register_rst_feedback`, for a
probe that draws no RST, some below the threshold, or reaches it; the last calls
`next_port` (`Rotate`). `own` is the port the configured packet carries:
`send_packet` rewrites that packet, so the pool's port stays in it. `burned` is a
history variable.

### Geolocate

The parent (`Start`, `Poll`, `Read`, `Return`), the child (`StartChild`,
`JoinMeta`, `JoinDns`, `ReadValue`, `ReadProbes`, `Classify`, `Store`) and its two
threads (`ProbeProvider`, `ProbeRaises`, `StoreValue`, `StoreProbes`,
`AnswerDns`) interleave freely; each read and each store of a shared value is a
step. `now` counts seconds since `p.start()`: `Tick` lets a second pass when
nothing is due in this one, so a timeout expires at its second. `overrun` says
whether, in this run, a provider may take longer than `META_TIMEOUT`: `urlopen`
applies it to every socket operation and not to name resolution. The four values
between `public_ip` and `network_state` are one field; a value is read and written in
one piece.

### Firewall and Handshake

`Firewall` is `InputPacketInfo` as `main` uses it: `AddRule`, `VerifyAdd`,
`TakeBack` are `__enter__`, `RemoveRule` and `VerifyRemoved` are `__exit__`, one call
of iptables each, any of which may fail. `rules` counts the copies in the chain:
its own, the operator's (`operator`) and another process's (`other`).

`Handshake` extends it with one packet sent to one destination. The tracer starts
once the `with` block is left, as in `main`. `SendPacket` clears the evidence of the
last probe; `SendSyn`, `HearSyn`, `SynTimeout`, `HandshakeFailed`, `SendAck`,
`SendData` are `send_packet_with_tcphandshake`; `Retransmit` is
`retransmission_single_packet`; `HearData` and `DataTimeout` are the `sr()` calls
for payload; `NotePreflight` is the end of `generate_packets_for_each_ip` and `Parse`
that of `send_packet`. `mode` is a handshake per probe, a replayed preflight
(`--paris`) or a stored packet (`--rexmit`).

`net` holds segments in flight, in no order. `PathKeeps` loses one, lets its TTL
expire or answers it with a forged reset; `ServerTakes` is the destination's TCP, which
may be joined by a forged reset; `Stray` is a segment `sr()` is not waiting for, which
only the kernel sees. The kernel knows none of these connections:
`KernelResets` answers a SYN-ACK or data with a reset unless a copy of the rule is
in the chain.

Each SYN has a port of its own, so connections are numbered within a handshake and
forgotten with it (`ephemeral_port_reserve` leaves the port in TIME_WAIT). The
preflight's payload leaves with TTL 0 and reaches nobody but a router or a box. A
stored packet's connection (number 0) is one the server does not know. Time is not
modelled: a timeout may strike at any moment. `IP.id` is kept only for packets that
will be replayed; where it does not fit into 16 bits building the packet raises
(`pc = "error"`). `wire` and `heard` are history variables.

### Session

Each member of `Sessions` is a process in `run_monitored_session`; a plain trace is
one with a single run. `BeginRun`, `TraceRoute`, `NameTaken`, `ClaimName`,
`WriteCapture`, `Render` are one `one_run`, `FailRun` its failure wherever it may
raise, `Report` and `SaveTrend` what follows the loop. Creating a file and writing
it are two steps, and a created file is empty until it is written. All of it
happens within one minute, so every run wants the same name. A trace is a single
step that picks what it found, a mark per destination: this stands for the posture
that `build_trend` compares. `dst` is what the packets carry in `IP.dst`, which a
trace overwrites. `InterruptRuns` is Ctrl-C inside `run_monitor`, which returns the
records it has; `InterruptReport` is Ctrl-C behind it, which reaches `main` and its
partial capture. `measured` is a history variable.

### Reassembly, Arms, Atlas and CommandLine

`Reassembly` runs `sweep_plan` probe by probe. The middlebox (`box`, `hold`) reads
nothing, single packets or a stream that it drops when a pause reaches `hold`;
`kept` is the first byte it still holds. A segment is its place in the payload, so
`segment_payload` is modelled with its remainder and the bytes are left out. A lost
answer looks like a block and is remembered in `lost`.

`Arms` draws, in one step, how far each arm's payload gets, which handshakes
complete and which probes a box answers in the destination's name (`injected`), and
runs `summarise_arm` and `_classify` on the capture that follows. The code looks at
the address alone (`utils/arms.py:80`), so "delivered" may be the word of such a box,
and `ArmVerdictFitsPath` says so.

`Atlas` is `download_from_atlas`, `download_multi_from_atlas` and
`annotate_measurements`: a request brings a result, nothing, an empty list or an
exception; saving may fail (`SaveFails`, caught by nobody), and the capture may not be
readable again (`Unread`). Windows are merged into spans, each span is answered or
not, with the outages that began no longer before it than `LookBack`
(`EXTEND_WINDOW`, a year), every measurement is judged by the outages of its span that
overlap its own window, and the capture is emptied (`Reopen`) and rewritten (`Dump`),
each of which may fail. An outage that began earlier and is still on is not reported
for all the code knows, and reads as none: the module's own docstring calls this a
limit (`utils/ioda.py:18-24`), and `JudgedTruly` promises no more.

`CommandLine` is `main` from the checked targets to the exit code. Its own state is
`was_successful`, `measurement_path`, the graph drawn and the exit code; the other
three modules take their steps while `main` waits in the call. A trace is one step
with every outcome it may have; `Trace` and `Session` have the inside.

### Evidence and Vis

`Evidence` holds a header as its TTL, its IP ID and the sum of its other words, so
that `calculate_chksum` is what the code computes: the checksum of the quoted header
with the TTL added back, with both end-around carries.

`Vis` is the walk of `vis()` over the rows of every measurement: `Skip`, `Pass`,
`DrawStar` and `DrawAnswer` are one turn of the inner loop each, `NextHop` and
`EndMeasurement` the loops around it, `Save` the tier overlay and the convergence. A
node's id is text in the code; here it is the record of the words wrapped around an
address, and "contains the destination's id" is equality of the address (one address
as the decimal substring of another is not modelled). A *kind* of capture gives the
results its rows are made of and how many a row may have, so that each kind in `MCVis`
is small and brings one difficulty; a row is any list of them. A late answer makes the
code skip the next result, whatever that is, unless the repeat is behind its
destination. So two late answers in a row, or one behind the destination, shift the
rest of the row into other repeats, and the walk may ask for a repeat that the first
row does not have: `Overrun`, the IndexError of the code. `Orderly` names the captures
whose results can be told apart, and `OrderlyIsDrawn` says that only others end so.

`replyForged` is the field the capture has, which the code trusts: what `trace.py`
writes of the rows where the capture is its own (`written`), and anything, a missing
field being false, where it is not.

## 3. Runs

Bounds are small sets named in the `.cfg`; the loops make every hazard appear
within two repeats and four TTLs.

| run | instance | checks |
|---|---|---|
| `TraceDestinations` | three destinations, one of them the probing host, 4 TTLs, 2 repeats, d1 may also answer on the way to d2 | `TypeOK`, `RepeatsAligned`, `StopsAtDestination`, `PaddingIsEarned`, `FirstHopIsWidest`, `TraceroutePromise` |
| `TraceInterrupted` | two packets (TCP 443, UDP 53), `--paris`, `--continue`, 1 TTL, 2 repeats, RST counts 0 and 3, a CGNAT router, forged answers, up to 2 Ctrl-C | `PostureMatchesHops`, `NothingLostSilently`, `InterruptSaves`, `Terminates` |
| `PortPoolRotation` | pool of three, packets on 443 (not in the pool) and 80 (in it), threshold 3, counts 0, 1, 4, cooling-off 2 ticks | `WholePoolBeforeBurned`, `RotatesToClean` |
| `GeolocateRun` | the code's timeouts, three providers, modes auto, open and shutdown, with and without overruns | `OnlineIsProved`, `OfflineIsClassified`, `StateFollowsEvidence`, `Terminates` |
| `GeolocateTornAnswer` | no overruns | `OnlineIsClassified`, violated |
| `HandshakeRun` | the three modes, 2 SYNs per handshake, 1 repeat, 2 TTLs, `IP.id` below 4, the rule asked for or not, set by the operator or not | `TypeOK`, `ChainIsRestored`, `DataMeetsConnection`, `VerdictIsOwn`, `RstsCountedOnce`, `OperatorsRuleProtects`, `Terminates` |
| `HandshakeAddedRule` | a handshake per probe, the rule added by tracevis | `AddedRuleProtects`, violated |
| `SessionRun` | two processes, one with two packets and two runs, one with a packet and a run, two addresses, up to 2 Ctrl-C | `RecordsAreOnDisk`, `TrendTellsOwnRuns`, `CapturesSurvive`, `SessionEnds` |
| `SessionDestinations` | the same without Ctrl-C | `EveryRunSameDestinations`, violated |
| `MainRun` | nine command lines; a sweep with pauses 0, 10, 50, 100, four segments of 6 bytes and a box that forgets after 5, 50 or 1000; three requests to RIPE Atlas, results at two instants or none, a query that looks back 2, five histories of outages; arms over two hops | `VerdictIsTrue`, `BufferHasExpired`, `JudgedTruly`, `ArmVerdictFitsPath`, `ExitTellsTheGraph`, `MainEnds` |
| `AtlasWriteFails` | `--vps` with two requests | `FailureKeepsCapture`, violated |
| `GraphRun` | eight kinds of capture: rewritten headers, crossing routes behind a CGNAT, an impersonated destination with and without a flag of tracevis's own, wrapping IP IDs, late answers in rows of any width (two kinds), vantage points | `WalksFollowTheRows`, `OrderlyIsDrawn`, `ForgeryNeverWearsDestination`, `NatIsTheFirstRewrite`, `IpIdIsTheResponders`, `TierIsWhatFollows`, `MarkedHopsAreShared` |

Why the bounds are enough. Two arms and two repeats are the least for results to
be swapped between arms or repeats; a third TTL is the least for an arm to be
padded behind its destination while another goes on and then for both to be, and
the fourth gives that room in either order. Two presses of Ctrl-C are one in the
trace and one in the handler; a third finds the process gone. A pool of three is
the least with a port that is neither the current nor the next one; a count of 4
reaches the threshold of 3 and leaves a remainder. The timeouts of `Geolocate` are
the code's; `MaxStart = 1` gives the child at most one second to start. Two SYNs are the least
for a late answer to an earlier one; two probes the least for evidence to leak from
one to the next; ids below 4 let the payload of a preflight (an id of at least 2) be
replayed once and overflow at the second replay. One TTL is enough for what an
interrupt finds, since `TraceDestinations` has the rows, and two arms over two repeats
still give it every half-filled hop.

Two processes are the least to race for a name, and two runs the least to be compared;
two packets are what lets a run over two addresses leave both packets with one of
them. 6 bytes in four segments leave a remainder of 2. A box that forgets after 5 is
below every pause but the first, after 50 exactly at one of them, after 1000 above
all; four pauses give a failed, a blocked and a delivered probe in any order. Three
results in two spans, of which one request fails, is the least for a verdict to be
read off the wrong span; a query that looks back 2 from an instant of 4 misses the
outage that is on since 1, and one from 1 does not. In `MCVis` a capture has at most three hops, three repeats and
three measurements: a NAT needs a hop before it and one behind it, a counter that wraps
a reply between two others, and a convergence a pair of vantage points and a third
measurement that must not count.

A run of the trace has an end, so deadlock is not checked where it stops by
itself (`CHECK_DEADLOCK FALSE`); that it stops only there is `Terminates`. The same
holds of a session (`SessionEnds`) and of `main` (`MainEnds`). `GraphRun` checks
deadlock: the only place a walk may stay is `Finished`, at a saved graph or at the
IndexError of `Overrun`. `MCVis` has the assumption `QuotesAssumption`: the captures
of the instance are such as `NatIsMetOnce` (section 5) asks for.

### What the violated runs show

- `GeolocateTornAnswer`: `no_internet` is stored first of eight and is what the
  parent polls (`utils/geolocate.py:437`): it may return placeholders and "unknown"
  for a network that is up.
- `HandshakeAddedRule`: the `with` block in `main` (`tracevis.py:681`) only unpacks the
  packets, so the rule is deleted before the first SYN. The kernel answers the SYN-ACK
  with a reset, the server closes, and its reset to the data is counted against the
  path. The same rule set by the operator does protect the trace
  (`OperatorsRuleProtects`), which is what `FIREWALL_COMMANDS_HELP` recommends.

- `SessionDestinations`: `send_packet` writes each destination into the packet it was
  configured with (`utils/trace.py:519`). Without `-i` the next run reads its
  destinations from there: after a run over a and b both packets carry the address
  probed last, the second run probes one destination and its trend shows a hole.
- `AtlasWriteFails`: `open(..., "w")` empties the downloaded capture before the
  annotated one is dumped (`utils/ioda.py:194`), and the `OSError` of a dump that
  fails is swallowed with the file cut; the docstring says a failure never loses the
  capture.

Four more things the models do, without a run that claims otherwise: a capture saved
by Ctrl-C before every arm has a hop is rejected as a whole by `load_measurements`
(`utils/vis.py:1061`); a lap over a pool that is cooling entirely hands out the flooded
port again (`utils/portpool.py:96`); a provider whose JSON is not an object ends the
thread with all answers (`Geolocate!ProbeRaises`); and when the probe without a pause
fails, a stream box that forgets early is called "no reassembly"
(`utils/reassembly.py:138`, excepted in `VerdictIsTrue`). And three that the properties
name as exceptions: `--vps` without a probe id, named behind a trace, ends with exit code
0 and leaves the trace's capture undrawn (`tracevis.py:727`, `ExitTellsTheGraph`); a
capture with two late answers in a row may not be drawn at all (`OrderlyIsDrawn`); and
one whose `reply_forged` is missing shows a forged reply on the destination's own node
(`utils/vis.py:1221`, `ForgeryNeverWearsDestination`).

## 4. Fairness

`Trace!FairSpec` assumes weak fairness of the program's own steps (`Progress`),
not of errors and interrupts: `sr()` is always called with a timeout and returns,
and nothing else in the loop waits. `Geolocate!FairSpec` assumes that time passes
and the processes are scheduled: weak fairness of the whole next-state relation
suffices because a second cannot pass while a step is due. `Handshake!FairSpec` assumes weak fairness of the tracer's and the
context manager's steps and none of the network, the server or other processes:
every `sr()` has a timeout and iptables returns. `PortPool` has no
liveness property: nothing obliges the network to answer. `Session!FairSpec` assumes
weak fairness of every process's own steps and none of Ctrl-C. `CommandLine!FairSpec`
assumes weak fairness of `main` except in two places. `urlopen` has no timeout while it
waits for RIPE Atlas (`utils/ripe_atlas.py:59`), and `--monitor` without
`--monitor-runs` goes on until it is interrupted (`utils/monitor.py:219-233`): `MainEnds`
allows `main` to stay in either for ever, and nowhere else. `Vis` is a finite loop over a capture and is
checked for safety only.

## 5. Proofs

`TraceProofs` proves, for all values of the constants that satisfy the named
assumptions of `Trace`:

- `TypeCorrectness`: `Spec => []TypeOK`;
- `PositionIsRepeat`: `Spec => []RepeatsAligned`;
- `NothingPastDestination`: `Spec => []StopsAtDestination`;
- `PaddingOnlyPastDestination`: `Spec => []PaddingIsEarned`;
- `FirstHopSizesTheRest`: `Spec => []FirstHopIsWidest`;
- `ReturnsWithoutFileUnsent`: `Spec => []NothingLostSilently`;
- `FlagsFollowHops`: `Spec => []PostureMatchesHops`;
- `TraceImplementsTraceroute`: `Spec => TraceroutePromise`, the refinement.

None of these is inductive. The loop invariant (`LoopInv`) is their conjunction
with what the indices mean: `LoopPosition` (where each place of the program can
stand in the loops) and `NodesKnown` (`previous_node_ids` says exactly which arms
have met their destination in the current repeat, and a row is skipped only when
all have). `RepeatsAligned` itself counts the results of each hop as a function of
`rep`, `ttl` and the turns taken in the row. The work is in one lemma per kind of
turn: `AddHop` changes one hop of one arm, by one result, at the end.

Two more invariants stand on `LoopInv`. `ShapeInv` is about what has been collected:
hops get no wider from one TTL to the next (`Narrowing`), the probing host itself is
only padded, nothing is padded under `--continue`, and a run without success has sent
nothing. `CaptureInv` is about the files: nothing is collected before every entry
exists (`Prepared`), the flags are those of the hops whenever a file is about to be
written (`Settled`), and a written file shows the hops in memory, which nothing adds to
any more (`FilesTrue`). For the refinement every turn is mapped to a step of one path or to
a stutter: a probe appends an answer to the path of its arm and repeat and changes
no other, padding appends to none, and a new repeat begins when every path has ended.
`clean_extra_result` drops hops of nothing but padding, which is on no path, so a cleaned
document shows the same paths. `Path` is a recursive function; that it computes what it should
comes from `RunExists` of `NaturalFacts`, which builds the function first.

`PortPoolProofs` proves `PoolTypes` (`TypeOK`), `FreshPortsFirst`
(`WholePoolBeforeBurned`) and `RotationFindsClean` (`RotatesToClean`). The
strengthening (`PoolInv`) adds that a port that is cooling has been burned and that
the shuffled order covers the whole pool: then a lap that finds no clean port has
met only burned ones, and every slot is visited by a lap.

`GeolocateProofs` proves `GeoTypes` (`TypeOK`), `OnlineNeedsProof`
(`OnlineIsProved`), `ClassifiedFromAllEvidence` (`StateFollowsEvidence`) and
`NoStaleVerdict` (`OfflineIsClassified`) for any number of providers and any timeouts. The parent's answer is four copies away from the evidence, so the invariant (`GeoInv`) carries the proof
along: `Honest` says of the box, of what the child read, of the result and of the
answer that a claim to be online has a usable probe or a resolved name behind it,
`Control` says which places of the four processes exclude each other (nothing is
stored before there is a result, no probe follows the last provider).
`ClassifiedFromAllEvidence` has one assumption, `Budgets`: the providers' timeouts
together, and the resolver's, are shorter than `DETECT_JOIN_TIMEOUT` (in the code
3 * 2 < 8 and 3 < 8). Its invariant (`DataInv`) says that no thread is still at work
when its join could time out (`Timely`, `MetaTimely`: the n-th probe began at most n
timeouts after the first), so the box the child reads is complete (`BoxFilled`,
`EvidenceRead`) and the parent's state is a copy of the child's (`AnswerCopied`).
A child that starts late, a parent that gives up and a provider that raises are
all covered; only an overrun is not: then the child may read the box between its two
stores. `NoStaleVerdict` does cover overruns. It assumes `Window`: the child's start and one
`DETECT_JOIN_TIMEOUT` fit into the parent's wait (in the code's units 1 + 8 < 10), and the
resolver's timeout into the join's. Both joins end within one timeout of the child's start
(`InTime`), so a parent that saw no sign of the network reads values that are all stored
(`Gathered`).

`HandshakeProofs` proves the types and seven properties, for any number of SYNs, probes, repeats and
rules in the chain. `ChainRestored` (`ChainIsRestored`) keeps the account of the
chain (`ChainInv`: every copy has an owner until somebody is warned).
`DataNeedsSynAck` (`DataMeetsConnection`) needs that a SYN-ACK in flight speaks the
truth about the server, and so do the segments that follow from it
(`ConnectionInv`, `Endpoints`). `OwnVerdict` (`VerdictIsOwn`) and `RetriesOnSilence`
(`NoSynAfterRefusal`) rest on what each place of the program knows (`Places`,
`Verdict`), `SynReplayNoted` (`SynReplayIsNoted`) on the same and on `PreflightInv`.
`EachRstOnce` (`RstsCountedOnce`) adds that `CountRst` grows by one for a reset
appended and by nothing for another answer. `OperatorShielded`
(`OperatorsRuleProtects`) says of a shielded trace (`ShieldInv`) that every ACK and
every payload in flight belongs to a connection of its own probe, that no reset of the
host's is in flight and that the server has closed no connection: only the kernel
would make it do so, and a copy of the rule is in the chain as long as the operator's is.
`HandshakeTypes` (`TypeOK`) needs what is known of the segments in flight and that a SYN is owed
only as long as attempts are left and none was answered (`Attempts`, in `TypeInv`). The assumptions are the named ones of
`Firewall` and `Handshake`; path, server and other processes are unconstrained.

`PoolTypes`, `GeoTypes`, `RetriesOnSilence`, `SynReplayNoted`, `SessionTypes`,
`SweepsAreTyped` and `WalkHolds` state properties that no run checks.

`SessionProofs` proves `SessionTypes` (`TypeOK`), `RecordedOnDisk` (`RecordsAreOnDisk`),
`CapturesStay` (`CapturesSurvive`) and `TrendIsTrue` (`TrendTellsOwnRuns`) for any number of processes, runs and addresses.
The invariant (`SessionInv`) says what a session has at each place (`OwnState`: whoever
writes has claimed its name, and the file under it is still empty), that two writers
never share a name (`WritersApart`) and that no recorded capture is empty
(`RecordedIsWritten`): so the one file a step may change is nobody else's. All of it
rests on exclusive creation: no lock is needed. For the trend, `TrendInv` keeps it equal
to `build_trend` of the session's own completed runs from the moment it is made. What
that function computes is a matter of dropping the failed runs from a sequence:
`WithoutThins` says that `Without` keeps everything else and its order
(`Thinning`), so a column of the trend is one completed run.

`VerdictProofs` proves of the sweep `SweepsAreTyped` (`SweepTypes`),
`MeasuredBufferHasExpired` (`BufferHasExpired`) and `SweepJudgesTruly` (`VerdictIsTrue`) for every list of pauses, number of
segments and length of payload. The argument: segments start at the first byte and end
at the last (`SegmentFacts`, the arithmetic of quotient and remainder), so a box whose
patience outlasts the pauses of a probe holds the whole payload when the last segment is
out (`Sending`); a delivery is therefore one after a long enough pause
(`DeliveredIsExpired`), and the least of them above the last block is what is reported
(`LeastNatural`). The verdict needs the converse as well (`TruthInv`): a control that is not
blocked, and a probe whose answer was not lost, ends as the box it met decides (`Fires`,
`OutcomesTrue`).

For the arms and the outages it proves `ArmVerdictHolds` (`ArmVerdictFitsPath`) and `OutagesJudgedTruly`
(`JudgedTruly`). For the arms, whatever the length of the path and whichever hops keep
silent: an arm is read as having reached the destination exactly when it delivers or is
answered for (`ReachedIsNamed`), its handshake is that of its probes, and two arms nobody
answers for died at the same hop exactly when no hop that answers tells them apart
(`LastThatAnswered`, `WhereTheyDied`), so each verdict can be traced back to the path. For the outages, whatever the number of results, instants and
failed requests: every window lies in a span that is fetched (`SpansCover`, from the
least and the greatest element of a finite set of instants), so the events of the span
that meet the window are the outages during it, all but such as began before the query
looks back (`OverlapIsDuring`), and a span that failed judges nothing. This one is about `AtlasSpec`, the download by itself.

`main` does not implement `AtlasSpec`: with `--vps` and `--ripe` a second download starts
where the first has ended. `VerdictsUnderMain` therefore carries the inductive invariants over
instead of the specifications: each component takes its own steps while `main` waits in the call,
nobody else touches its variables, and a second start re-establishes `AtlasInv`
(`DownloadBegins`), so `ComponentInv` holds of `main` (`ComponentStep`). `ExitCodeIsTrue`
(`ExitTellsTheGraph`) adds what `main` knows at each place (`MainInv`): the path in hand
is that of the last source that had its turn, and only a table leaves one without success
(`PathIsLast`), and a source is only gone through that the command line asks for (`Asked`).

`VisProofs` proves eight invariants of the walk and the graph it draws, for any number
of measurements, hops, repeats and results:

- `WalkHolds` (`WalkInv`) is what all others rest on and holds of any capture whatever. It
  says that the tables are as long as the first row and the place is in the rows (`RowInv`),
  that the flag is that of the capture, and that nothing is drawn ahead of the place
  (`NothingAhead`).
- `FollowsTheRows` (`WalksFollowTheRows`) and `EveryResultHasItsRepeat` (`OrderlyIsDrawn`)
  follow from `OrderInv`, which is about orderly captures: the repeat is one more than the
  number of results before the place that head a repeat, every hop of a repeat behind the
  place is exactly one edge, from where the hop before led, and the table of last nodes
  says where each repeat goes on. The result of a repeat is found by rank among the heads
  of its row.
- `ForgeryIsShown` (`ForgeryNeverWearsDestination`), `NatIsMetOnce` (`NatIsTheFirstRewrite`)
  and `IpIdTellsOneCounter` (`IpIdIsTheResponders`) are about single edges, and `CurrentSteps`
  says once which edges a step can add. For the NAT, `ChecksumTells` is the arithmetic: putting the TTL
  back with both end-around carries gives the checksum of the packet as sent exactly when the
  other words are the same, for any sum of 16 bits and up to 255 hops; `NatSeen` ties what a
  repeat has detected to the hops behind it. For the IP IDs, the packets of a responder
  are in the order of its results (`HopPacketsAre`), and a difference modulo 2^16 is a step forward,
  with or without a wrap (`DeltaIs`).
- `TierIsTheBand` (`TierIsWhatFollows`): the overlay goes on for as many rounds as there are nodes, and a
  round that adds nothing is the last that matters (a pigeonhole over the sizes of `within`),
  so the tier is closed (`TierIsClosed`). That it is the *least* closed set, so that no loop is in it that
  no boundary leads into, is an induction over the rounds (`SpreadIsLeast`): a part of the
  tier that holds what the boundaries lead to, and what it leads to itself, holds every round. What a
  route was drawn through behind a boundary is reached because every edge of a repeat
  leads on from the one before (`ChainInv`).
- `MarksAreShared` (`MarkedHopsAreShared`): the measurements kept are the rows as drawn
  (`KeptInv`), and the marks follow from the sets of addresses met at each hop.

`NatIsMetOnce` has the one hypothesis about the network, `AsRoutersQuote`. A router quotes the probe with
the TTL it arrived with, which is 1 at the last hop of the TTL sent: one that quotes another
value would look like a NAT to the code. And the code looks for an ICMP error
in the first packet of a result, or in the second when the first acknowledges or closes a
connection, so the hypothesis says that it is there. `MCVis` assumes the same of its
captures and TLC evaluates it.

`NaturalFacts` has what these proofs share: least and greatest elements, induction over a
set of naturals (the library's induction takes an operator, which the provers cannot
instantiate), ranks in a finite set, the existence of a recursive function, and `Without`.

Every invariant and every safety property of steps that a passing run checks is now also a theorem. Only
model-checked is liveness, which needs fairness and ENABLED: `Terminates` (of a
trace, of `Geolocate` and of `Handshake`), `InterruptSaves`, `SessionEnds` and `MainEnds`.

## 6. Plan

1. `Trace`, `Dpi`, `Traceroute`, `TraceProofs` (done).
2. `PortPool`, `PortPoolProofs` (done).
3. `Geolocate`, `GeolocateProofs` (done).
4. `Firewall`, `Handshake`, `HandshakeProofs` (done).
5. `Session`, `SessionProofs` (done): does every run own its file, are the runs of a
   session comparable?
6. `Reassembly`, `Arms`, `Atlas`, `CommandLine`, `VerdictProofs` (done): are the verdicts
   true of the network, does the exit code tell what was drawn?
7. `Evidence`, `Vis`, `VisProofs` (done): does the graph show the paths of the capture?
8. Theorems about every safety property of the runs, with `NaturalFacts` (done).
9. `Vis` composed with the documents of `Trace`: does the graph of an interrupted
   trace show the paths of `Traceroute`?

## 7. Not modelled

- Adaptive timeouts (`utils/timing.py`): two functions of numbers; the models let a
  timeout strike at any moment. Reading them shows that a base timeout above the cap is
  cut down to the cap as soon as an RTT is known (`utils/timing.py:54-57`), although the
  docstring promises never less than the base.
- Renderers (HTML and Plotly output), csv, the packet builders of DNS, TLS and QUIC,
  interface look-up, the interactive packet editor and the parsing of arguments:
  they transform data and keep no state.
- Anonymisation: a rewriting of strings on the copy that is saved.
- In `Vis`: labels, tooltips, colours of edges, TCP option fingerprints, the per-hop
  call of the DPI classifier and ids of which one is part of another.
- In `Trace`: creating a hop and appending its result are one step (`AddHop`), so a Ctrl-C
  between the two lines (`utils/traceroute_struct.py:94`), which would save a hop without
  results, is not modelled.
- In `Atlas` and `CommandLine`: Ctrl-C during a download, which ends the program.
- In `Trace` and `Handshake`: RTTs, sizes, packet lists, times, checksums of replayed
  packets, probes over UDP but for what the loop sees of them.
- In `Geolocate`: torn reads inside one `c_wchar` array, and a child that takes more than
  `MaxStart` seconds to start, which would make even `OfflineIsClassified` depend on the
  scheduler.
- Liveness and what a definition by recursion over data computes are out of the
  prover's reach.
