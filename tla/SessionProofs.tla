---------------------------- MODULE SessionProofs ----------------------------
(***************************************************************************)
(* Proofs about Session for any number of processes, runs, addresses and     *)
(* presses of Ctrl-C: what is in the shared directory stays there, and every *)
(* record leads to the capture of its own run.                               *)
(***************************************************************************)
EXTENDS Session, NaturalFacts, SequenceTheorems, TLAPS

Running == {"trace", "open", "write", "render"}
Named == {"trace", "open", "write", "render", "partial open", "partial write"}
Writing == {"write", "partial write"}

\* What a session at a given place has: a run that is not recorded yet, a name
\* to try and entries to write, and its own file once it has claimed it.
OwnState(s) ==
    /\ pc[s] \in Running => Len(records[s]) < index[s]
    /\ pc[s] \in Named => name[s] \in Names /\ found[s] # <<>>
    /\ pc[s] \in Writing => name[s] \in DOMAIN files /\ files[name[s]] = <<>>
    /\ pc[s] = "render" => name[s] \in DOMAIN files /\ files[name[s]] = found[s]

\* Two sessions never write to one name.
WritersApart ==
    \A s, t \in Sessions :
        (s # t /\ pc[s] \in Writing /\ pc[t] \in Writing) => name[s] # name[t]

\* A recorded capture is no empty one, so that nobody is still writing to it;
\* a run that failed has measured nothing.
RecordedIsWritten ==
    \A s \in Sessions : \A i \in DOMAIN records[s] :
        records[s][i] # NoName <=> measured[s][i] # <<>>

SessionInv ==
    /\ TypeOK
    /\ \A s \in Sessions : OwnState(s)
    /\ WritersApart
    /\ RecordedIsWritten
    /\ RecordsAreOnDisk

-----------------------------------------------------------------------------
LEMMA EmptyIsCapture == <<>> \in Captures /\ DOMAIN <<>> = {}
  <1>1. <<>> \in [{} -> Marks] /\ DOMAIN <<>> = {}
    OBVIOUS
  <1> QED BY <1>1 DEF Captures

LEMMA MarkedIsCapture ==
    ASSUME NEW S \in (SUBSET Addresses) \ {{}}, NEW c \in [S -> Marks]
    PROVE  c \in Captures /\ c # <<>>
  <1>1. c \in Captures
    BY DEF Captures
  <1>2. DOMAIN c # {}
    OBVIOUS
  <1> QED BY <1>1, <1>2, EmptyIsCapture

LEMMA CaptureDomain ==
    ASSUME NEW c \in Captures, c # <<>>
    PROVE  DOMAIN c \in (SUBSET Addresses) \ {{}}
  <1>1. PICK S \in SUBSET Addresses : c \in [S -> Marks]
    BY DEF Captures
  <1>2. DOMAIN c = S
    BY <1>1
  <1>3. S # {}
    <2>1. SUFFICES ASSUME S = {} PROVE FALSE
      OBVIOUS
    <2>2. c = <<>>
      BY <1>1, <2>1
    <2> QED BY <2>2
  <1> QED BY <1>2, <1>3

LEMMA StampedIsName == Stamped(FALSE) \in Names /\ Stamped(TRUE) \in Names
  BY DEF Stamped, Names

LEMMA NoNameIsNone == NoName \notin Names
  BY DEF NoName, Names

LEMMA SessionInit == Init => SessionInv
  <1> SUFFICES ASSUME Init PROVE SessionInv
    OBVIOUS
  <1>1. TypeOK
    BY EmptyIsCapture, AddressAssumption, RunsAssumption DEF Init, TypeOK
  <1>2. \A s \in Sessions : OwnState(s)
    BY DEF Init, OwnState, Running, Named, Writing
  <1>3. WritersApart
    BY DEF Init, WritersApart, Writing
  <1>4. RecordedIsWritten /\ RecordsAreOnDisk
    BY DEF Init, RecordedIsWritten, RecordsAreOnDisk
  <1> QED BY <1>1, <1>2, <1>3, <1>4 DEF SessionInv

-----------------------------------------------------------------------------
(* Types *)

LEMMA RequestIpsAreSome ==
    ASSUME TypeOK, NEW s \in Sessions
    PROVE  RequestIps(s) \in (SUBSET Addresses) \ {{}}
  BY AddressAssumption DEF TypeOK, RequestIps

\* Only ClaimName adds a name and only WriteCapture a document; both leave the
\* other captures alone.
FilesTyped == DOMAIN files \subseteq Names /\ \A n \in DOMAIN files : files[n] \in Captures
LastRecords ==
    \A s \in Sessions : Len(records[s]) = Len(measured[s]) /\ Len(records[s]) <= index[s]

\* A record and what it measured are appended together.
LEMMA RecordAppended ==
    ASSUME TypeOK, NEW s \in Sessions, Len(records[s]) < index[s],
           NEW r \in Names \cup {NoName}, NEW c \in Captures,
           records' = [records EXCEPT ![s] = Append(@, r)],
           measured' = [measured EXCEPT ![s] = Append(@, c)],
           index' = index
    PROVE  /\ records' \in [Sessions -> Seq(Names \cup {NoName})]
           /\ measured' \in [Sessions -> Seq(Captures)]
           /\ LastRecords'
  <1>1. /\ records \in [Sessions -> Seq(Names \cup {NoName})]
        /\ measured \in [Sessions -> Seq(Captures)]
        /\ index \in [Sessions -> Nat]
        /\ LastRecords
    BY DEF TypeOK, LastRecords
  <1>2. /\ Append(records[s], r) \in Seq(Names \cup {NoName})
        /\ Len(Append(records[s], r)) = Len(records[s]) + 1
    BY <1>1, AppendProperties
  <1>3. /\ Append(measured[s], c) \in Seq(Captures)
        /\ Len(Append(measured[s], c)) = Len(measured[s]) + 1
    BY <1>1, AppendProperties
  <1>4. \A t \in Sessions :
            /\ records'[t] = IF t = s THEN Append(records[s], r) ELSE records[t]
            /\ measured'[t] = IF t = s THEN Append(measured[s], c) ELSE measured[t]
    BY <1>1
  <1>5. \A t \in Sessions : Len(records[t]) \in Nat /\ Len(measured[t]) \in Nat /\ index[t] \in Nat
    BY <1>1, LenProperties
  <1>6. ASSUME NEW t \in Sessions
        PROVE  Len(records'[t]) = Len(measured'[t]) /\ Len(records'[t]) <= index'[t]
    <2>1. Len(records[t]) = Len(measured[t]) /\ Len(records[t]) <= index[t]
      BY <1>1 DEF LastRecords
    <2>2. Len(records[s]) = Len(measured[s]) /\ Len(records[s]) + 1 <= index[s]
      BY <1>1, <1>5 DEF LastRecords
    <2>3. CASE t = s
      BY <1>2, <1>3, <1>4, <2>2, <2>3
    <2>4. CASE t # s
      BY <1>4, <2>1, <2>4
    <2> QED BY <2>3, <2>4
  <1> QED BY <1>1, <1>2, <1>3, <1>6 DEF LastRecords

LEMMA NextCounter ==
    ASSUME NEW n \in Names
    PROVE  [n EXCEPT !.counter = @ + 1] \in Names
  BY DEF Names

LEMMA PressCounted ==
    ASSUME presses \in 0..MaxPresses, presses < MaxPresses, presses' = presses + 1
    PROVE  presses' \in 0..MaxPresses
  BY RunsAssumption

LEMMA RunCounted ==
    ASSUME TypeOK, NEW s \in Sessions, index' = [index EXCEPT ![s] = @ + 1],
           records' = records, measured' = measured
    PROVE  /\ index' \in [Sessions -> Nat]
           /\ LastRecords'
           /\ Len(records'[s]) < index'[s]
  <1>1. index \in [Sessions -> Nat] /\ LastRecords
    BY DEF TypeOK, LastRecords
  <1>2. \A t \in Sessions : Len(records[t]) \in Nat
    BY LenProperties DEF TypeOK
  <1>3. \A t \in Sessions : index[t] \in Nat /\ index'[t] = IF t = s THEN index[t] + 1 ELSE index[t]
    BY <1>1
  <1>4. index' \in [Sessions -> Nat]
    BY <1>1
  <1>5. ASSUME NEW t \in Sessions PROVE Len(records'[t]) <= index'[t]
    BY <1>1, <1>2, <1>3 DEF LastRecords
  <1>6. Len(records'[s]) < index'[s]
    BY <1>1, <1>2, <1>3 DEF LastRecords
  <1> QED BY <1>1, <1>4, <1>5, <1>6 DEF LastRecords

LEMMA TypeStep ==
    ASSUME SessionInv, NEW s \in Sessions, Step(s) \/ Interrupt(s)
    PROVE  TypeOK'
  <1> USE DEF TypeOK, SessionInv
  <1>1. CASE BeginRun(s)
    <2>1. [d \in RequestIps(s) |-> "unreached"] \in Captures
      BY RequestIpsAreSome, MarkedIsCapture DEF Marks
    <2>2. Stamped(FALSE) \in Names
      BY StampedIsName
    <2>3. index' \in [Sessions -> Nat] /\ LastRecords'
      BY <1>1, RunCounted DEF BeginRun
    <2> QED BY <1>1, <2>1, <2>2, <2>3 DEF BeginRun, Goto, LastRecords
  <1>2. CASE TraceRoute(s)
    <2>1. found[s] \in Captures /\ found[s] # <<>>
      BY <1>2 DEF TraceRoute, OwnState, Named
    <2>2. DOMAIN found[s] \in (SUBSET Addresses) \ {{}}
      BY <2>1, CaptureDomain
    <2>3. \A reached \in [DOMAIN found[s] -> Marks] : reached \in Captures
      BY <2>2, MarkedIsCapture
    <2>4. found' \in [Sessions -> Captures]
      BY <1>2, <2>3 DEF TraceRoute
    <2>5. dst' \in [Sessions -> (SUBSET Addresses) \ {{}}]
      <3>1. PICK last \in (SUBSET DOMAIN found[s]) \ {{}} : dst' = [dst EXCEPT ![s] = last]
        BY <1>2 DEF TraceRoute
      <3>2. last \in (SUBSET Addresses) \ {{}}
        BY <2>2, <3>1
      <3> QED BY <3>1, <3>2
    <2> QED BY <1>2, <2>4, <2>5 DEF TraceRoute, Goto
  <1>3. CASE NameTaken(s)
    <2>1. name[s] \in Names
      BY <1>3 DEF NameTaken, OwnState, Named
    <2>2. [name[s] EXCEPT !.counter = @ + 1] \in Names
      BY <2>1, NextCounter
    <2> QED BY <1>3, <2>2 DEF NameTaken
  <1>4. CASE ClaimName(s)
    <2>1. name[s] \in Names
      BY <1>4 DEF ClaimName, OwnState, Named
    <2>2. FilesTyped'
      BY <1>4, <2>1, EmptyIsCapture DEF ClaimName, FilesTyped
    <2>3. pc' \in [Sessions -> {"begin", "trace", "open", "write", "render", "report",
                               "save trend", "partial open", "partial write", "done"}]
      BY <1>4 DEF ClaimName, Goto
    <2> QED BY <1>4, <2>2, <2>3 DEF ClaimName, FilesTyped
  <1>5. CASE WriteCapture(s)
    <2>1. FilesTyped'
      BY <1>5 DEF WriteCapture, FilesTyped
    <2>2. pc' \in [Sessions -> {"begin", "trace", "open", "write", "render", "report",
                               "save trend", "partial open", "partial write", "done"}]
      BY <1>5 DEF WriteCapture, Goto
    <2> QED BY <1>5, <2>1, <2>2 DEF WriteCapture, FilesTyped
  <1>6. CASE Render(s)
    <2>1. Len(records[s]) < index[s] /\ name[s] \in Names
      BY <1>6 DEF Render, OwnState, Running, Named
    <2>2. /\ records' \in [Sessions -> Seq(Names \cup {NoName})]
          /\ measured' \in [Sessions -> Seq(Captures)]
          /\ LastRecords'
      BY <1>6, <2>1, RecordAppended DEF Render
    <2> QED BY <1>6, <2>2 DEF Render, AfterRun, Goto, LastRecords
  <1>7. CASE FailRun(s)
    <2>1. Len(records[s]) < index[s]
      BY <1>7 DEF FailRun, OwnState, Running
    <2>2. /\ records' \in [Sessions -> Seq(Names \cup {NoName})]
          /\ measured' \in [Sessions -> Seq(Captures)]
          /\ LastRecords'
      BY <1>7, <2>1, RecordAppended, EmptyIsCapture DEF FailRun
    <2> QED BY <1>7, <2>2 DEF FailRun, AfterRun, Goto, LastRecords
  <1>8. CASE Report(s)
    BY <1>8 DEF Report, Goto
  <1>9. CASE SaveTrend(s)
    BY <1>9 DEF SaveTrend, Goto
  <1>10. CASE Interrupt(s)
    <2>1. presses' \in 0..MaxPresses
      BY <1>10, PressCounted DEF Interrupt
    <2>2. CASE InterruptRuns(s)
      BY <2>1, <2>2 DEF InterruptRuns, Goto
    <2>3. CASE InterruptReport(s)
      <3>1. name' \in [Sessions -> Names \cup {NoName}]
        BY <2>3, StampedIsName DEF InterruptReport
      <3>2. pc' = [pc EXCEPT ![s] = "done"] \/ pc' = [pc EXCEPT ![s] = "partial open"]
        BY <2>3 DEF InterruptReport, Goto
      <3> QED BY <2>1, <2>3, <3>1, <3>2 DEF InterruptReport
    <2> QED BY <1>10, <2>2, <2>3 DEF Interrupt
  <1> QED BY <1>1, <1>2, <1>3, <1>4, <1>5, <1>6, <1>7, <1>8, <1>9, <1>10 DEF Step

-----------------------------------------------------------------------------
(* The directory *)

Kept ==
    \A n \in DOMAIN files :
        n \in DOMAIN files' /\ (files[n] # <<>> => files'[n] = files[n])

\* A step of s touches at most the name s holds, which is empty until then.
LEMMA FilesKept ==
    ASSUME SessionInv, NEW s \in Sessions, Step(s) \/ Interrupt(s)
    PROVE  /\ Kept
           /\ \A t \in Sessions \ {s} :
                  pc[t] \in Writing => files'[name[t]] = <<>>
  <1>1. \A t \in Sessions :
            pc[t] \in Writing => name[t] \in DOMAIN files /\ files[name[t]] = <<>>
    BY DEF SessionInv, OwnState
  <1>2. CASE files' = files
    BY <1>1, <1>2 DEF Kept
  <1>3. CASE ClaimName(s)
    BY <1>1, <1>3 DEF ClaimName, Kept
  <1>4. CASE WriteCapture(s)
    <2>1. pc[s] \in Writing /\ files' = [files EXCEPT ![name[s]] = found[s]]
      BY <1>4 DEF WriteCapture, Writing
    <2>2. \A t \in Sessions \ {s} : pc[t] \in Writing => name[t] # name[s]
      BY <2>1 DEF SessionInv, WritersApart
    <2> QED BY <1>1, <2>1, <2>2 DEF Kept
  <1>5. files' = files \/ ClaimName(s) \/ WriteCapture(s)
    BY DEF Step, Interrupt, InterruptRuns, InterruptReport, BeginRun, TraceRoute,
           NameTaken, Render, FailRun, Report, SaveTrend
  <1> QED BY <1>2, <1>3, <1>4, <1>5

LEMMA OthersAlone ==
    ASSUME SessionInv, NEW s \in Sessions, Step(s) \/ Interrupt(s), NEW t \in Sessions \ {s}
    PROVE  /\ pc'[t] = pc[t] /\ index'[t] = index[t] /\ found'[t] = found[t]
           /\ name'[t] = name[t] /\ records'[t] = records[t] /\ measured'[t] = measured[t]
  <1> USE DEF SessionInv, TypeOK
  <1>1. CASE BeginRun(s) BY <1>1 DEF BeginRun, Goto
  <1>2. CASE TraceRoute(s) BY <1>2 DEF TraceRoute, Goto
  <1>3. CASE NameTaken(s) BY <1>3 DEF NameTaken
  <1>4. CASE ClaimName(s) BY <1>4 DEF ClaimName, Goto
  <1>5. CASE WriteCapture(s) BY <1>5 DEF WriteCapture, Goto
  <1>6. CASE Render(s) BY <1>6 DEF Render, AfterRun, Goto
  <1>7. CASE FailRun(s) BY <1>7 DEF FailRun, AfterRun, Goto
  <1>8. CASE Report(s) BY <1>8 DEF Report, Goto
  <1>9. CASE SaveTrend(s) BY <1>9 DEF SaveTrend, Goto
  <1>10. CASE Interrupt(s)
    BY <1>10 DEF Interrupt, InterruptRuns, InterruptReport, Goto
  <1> QED BY <1>1, <1>2, <1>3, <1>4, <1>5, <1>6, <1>7, <1>8, <1>9, <1>10 DEF Step

LEMMA OthersOwnState ==
    ASSUME SessionInv, NEW s \in Sessions, Step(s) \/ Interrupt(s), NEW t \in Sessions \ {s}
    PROVE  OwnState(t)'
  <1>1. /\ pc'[t] = pc[t] /\ index'[t] = index[t] /\ found'[t] = found[t]
        /\ name'[t] = name[t] /\ records'[t] = records[t]
    BY OthersAlone
  <1>2. OwnState(t)
    BY DEF SessionInv
  <1>3. Kept /\ (pc[t] \in Writing => files'[name[t]] = <<>>)
    BY FilesKept
  <1>4. pc[t] = "render" => found[t] # <<>>
    BY <1>2 DEF OwnState, Named
  <1> QED BY <1>1, <1>2, <1>3, <1>4 DEF OwnState, Kept

\* The session that takes the step has at its new place what it needs there.
LEMMA ActorsOwnState ==
    ASSUME SessionInv, NEW s \in Sessions, Step(s) \/ Interrupt(s)
    PROVE  OwnState(s)'
  <1>1. TypeOK /\ OwnState(s)
    BY DEF SessionInv
  <1>2. CASE BeginRun(s)
    <2>1. [d \in RequestIps(s) |-> "unreached"] # <<>>
      BY <1>1, RequestIpsAreSome, MarkedIsCapture DEF Marks
    <2>2. name'[s] \in Names /\ found'[s] # <<>> /\ pc'[s] = "trace"
      BY <1>1, <1>2, <2>1, StampedIsName DEF BeginRun, Goto, TypeOK
    <2>3. Len(records'[s]) < index'[s]
      BY <1>1, <1>2, RunCounted DEF BeginRun
    <2> QED BY <2>2, <2>3 DEF OwnState, Writing
  <1>3. CASE TraceRoute(s)
    <2>1. found[s] \in Captures /\ found[s] # <<>> /\ pc[s] = "trace"
      BY <1>1, <1>3 DEF TraceRoute, OwnState, Named, TypeOK
    <2>2. DOMAIN found[s] \in (SUBSET Addresses) \ {{}}
      BY <2>1, CaptureDomain
    <2>3. \A reached \in [DOMAIN found[s] -> Marks] : reached # <<>>
      BY <2>2, MarkedIsCapture
    <2>4. found'[s] # <<>> /\ pc'[s] = "open" /\ name' = name
          /\ records' = records /\ index' = index
      BY <1>1, <1>3, <2>3 DEF TraceRoute, Goto, TypeOK
    <2> QED BY <1>1, <2>1, <2>4 DEF OwnState, Running, Named, Writing
  <1>4. CASE NameTaken(s)
    <2>1. name[s] \in Names /\ found[s] # <<>> /\ pc[s] \notin Writing /\ pc[s] # "render"
      BY <1>1, <1>4 DEF NameTaken, OwnState, Named, Writing
    <2>2. name'[s] \in Names
      BY <1>1, <1>4, <2>1, NextCounter DEF NameTaken, TypeOK
    <2>3. pc' = pc /\ found' = found /\ records' = records /\ index' = index
      BY <1>4 DEF NameTaken
    <2> QED BY <1>1, <2>1, <2>2, <2>3 DEF OwnState
  <1>5. CASE ClaimName(s)
    <2>1. /\ pc'[s] = IF pc[s] = "open" THEN "write" ELSE "partial write"
          /\ pc[s] \in {"open", "partial open"}
      BY <1>1, <1>5 DEF ClaimName, Goto, TypeOK
    <2>2. name[s] \in DOMAIN files' /\ files'[name[s]] = <<>>
      BY <1>5 DEF ClaimName
    <2>3. name' = name /\ found' = found /\ records' = records /\ index' = index
      BY <1>5 DEF ClaimName
    <2> QED BY <1>1, <2>1, <2>2, <2>3 DEF OwnState, Running, Named, Writing
  <1>6. CASE WriteCapture(s)
    <2>1. /\ pc'[s] = IF pc[s] = "write" THEN "render" ELSE "done"
          /\ pc[s] \in {"write", "partial write"}
      BY <1>1, <1>6 DEF WriteCapture, Goto, TypeOK
    <2>2. name[s] \in DOMAIN files' /\ files'[name[s]] = found[s]
      BY <1>1, <1>6 DEF WriteCapture, OwnState, Writing
    <2>3. name' = name /\ found' = found /\ records' = records /\ index' = index
      BY <1>6 DEF WriteCapture
    <2> QED BY <1>1, <2>1, <2>2, <2>3 DEF OwnState, Running, Named, Writing
  <1>7. CASE Render(s) \/ FailRun(s)
    <2>1. pc'[s] \in {"begin", "report"}
      BY <1>1, <1>7 DEF Render, FailRun, AfterRun, Goto, TypeOK
    <2> QED BY <2>1 DEF OwnState, Running, Named, Writing
  <1>8. CASE Report(s) \/ SaveTrend(s)
    <2>1. pc'[s] \in {"save trend", "done"}
      BY <1>1, <1>8 DEF Report, SaveTrend, Goto, TypeOK
    <2> QED BY <2>1 DEF OwnState, Running, Named, Writing
  <1>9. CASE Interrupt(s)
    <2>1. CASE InterruptRuns(s)
      <3>1. pc'[s] = "report"
        BY <1>1, <2>1 DEF InterruptRuns, Goto, TypeOK
      <3> QED BY <3>1 DEF OwnState, Running, Named, Writing
    <2>2. CASE InterruptReport(s)
      <3>1. \/ pc'[s] = "done"
            \/ /\ pc'[s] = "partial open" /\ name'[s] \in Names
               /\ found'[s] # <<>>
        BY <1>1, <2>2, StampedIsName DEF InterruptReport, Goto, TypeOK
      <3> QED BY <3>1 DEF OwnState, Running, Named, Writing
    <2> QED BY <1>9, <2>1, <2>2 DEF Interrupt
  <1> QED BY <1>2, <1>3, <1>4, <1>5, <1>6, <1>7, <1>8, <1>9 DEF Step

\* Whoever starts to write has claimed a name that no file had.
LEMMA WritersStayApart ==
    ASSUME SessionInv, NEW s \in Sessions, Step(s) \/ Interrupt(s)
    PROVE  WritersApart'
  <1>1. \A t \in Sessions \ {s} : pc'[t] = pc[t] /\ name'[t] = name[t]
    BY OthersAlone
  <1>2. TypeOK /\ WritersApart
    BY DEF SessionInv
  <1>3. CASE pc'[s] \in Writing
    <2>1. ClaimName(s) \/ NameTaken(s)
      <3>1. CASE Interrupt(s)
        BY <1>2, <1>3, <3>1 DEF Interrupt, InterruptRuns, InterruptReport, Goto, TypeOK, Writing
      <3>2. CASE Step(s)
        BY <1>2, <1>3, <3>2 DEF Step, BeginRun, TraceRoute, WriteCapture, Render, FailRun,
             Report, SaveTrend, AfterRun, Goto, TypeOK, Writing
      <3> QED BY <3>1, <3>2
    <2>2. ~ NameTaken(s)
      BY <1>3 DEF NameTaken, Writing
    <2>3. name'[s] = name[s] /\ name[s] \notin DOMAIN files
      BY <2>1, <2>2 DEF ClaimName
    <2>4. \A t \in Sessions : pc[t] \in Writing => name[t] \in DOMAIN files
      BY DEF SessionInv, OwnState
    <2> QED BY <1>1, <1>2, <2>3, <2>4 DEF WritersApart
  <1>4. CASE pc'[s] \notin Writing
    BY <1>1, <1>2, <1>4 DEF WritersApart
  <1> QED BY <1>3, <1>4

-----------------------------------------------------------------------------
(* The records *)

\* A step either leaves the records of s alone or appends one: that of a run
\* whose capture is on disk, or of one that failed.
LEMMA RecordStep ==
    ASSUME SessionInv, NEW s \in Sessions, Step(s) \/ Interrupt(s)
    PROVE  \/ records'[s] = records[s] /\ measured'[s] = measured[s]
           \/ \E r \in Names \cup {NoName}, c \in Captures :
                 /\ records'[s] = Append(records[s], r)
                 /\ measured'[s] = Append(measured[s], c)
                 /\ r # NoName => r \in DOMAIN files /\ files[r] = c
                 /\ r # NoName <=> c # <<>>
  <1>1. TypeOK /\ OwnState(s)
    BY DEF SessionInv
  <1>2. CASE Render(s)
    <2>1. name[s] \in Names /\ found[s] \in Captures /\ found[s] # <<>>
          /\ name[s] \in DOMAIN files /\ files[name[s]] = found[s]
      BY <1>1, <1>2 DEF Render, OwnState, Named, TypeOK
    <2>2. /\ records'[s] = Append(records[s], name[s])
          /\ measured'[s] = Append(measured[s], found[s])
      BY <1>1, <1>2 DEF Render, TypeOK
    <2> QED BY <2>1, <2>2, NoNameIsNone
  <1>3. CASE FailRun(s)
    <2>1. /\ records'[s] = Append(records[s], NoName)
          /\ measured'[s] = Append(measured[s], <<>>)
      BY <1>1, <1>3 DEF FailRun, TypeOK
    <2> QED BY <2>1, EmptyIsCapture
  <1>4. (records' = records /\ measured' = measured) \/ Render(s) \/ FailRun(s)
    BY DEF Step, Interrupt, InterruptRuns, InterruptReport, BeginRun, TraceRoute,
           NameTaken, ClaimName, WriteCapture, Report, SaveTrend
  <1> QED BY <1>2, <1>3, <1>4

RecordHolds(t, i) ==
    /\ records[t][i] # NoName =>
          /\ records[t][i] \in DOMAIN files
          /\ files[records[t][i]] = measured[t][i]
    /\ records[t][i] # NoName <=> measured[t][i] # <<>>

LEMMA RecordsHold ==
    ASSUME SessionInv, NEW s \in Sessions, Step(s) \/ Interrupt(s)
    PROVE  (RecordsAreOnDisk /\ RecordedIsWritten)'
  <1>1. TypeOK /\ Kept
    BY FilesKept DEF SessionInv
  <1>2. \A t \in Sessions : \A i \in DOMAIN records[t] : RecordHolds(t, i)
    BY DEF SessionInv, RecordsAreOnDisk, RecordedIsWritten, RecordHolds
  <1>3. ASSUME NEW t \in Sessions, NEW i \in DOMAIN records'[t] PROVE RecordHolds(t, i)'
    <2>1. CASE records'[t] = records[t] /\ measured'[t] = measured[t]
      BY <1>1, <1>2, <1>3, <2>1 DEF RecordHolds, Kept
    <2>2. ASSUME t = s,
                 NEW r \in Names \cup {NoName}, NEW c \in Captures,
                 records'[s] = Append(records[s], r),
                 measured'[s] = Append(measured[s], c),
                 r # NoName => r \in DOMAIN files /\ files[r] = c,
                 r # NoName <=> c # <<>>
          PROVE  RecordHolds(t, i)'
      <3>1. /\ records[s] \in Seq(Names \cup {NoName}) /\ measured[s] \in Seq(Captures)
            /\ Len(records[s]) = Len(measured[s])
        BY <1>1 DEF TypeOK
      <3>2. /\ DOMAIN records[s] = 1..Len(records[s])
            /\ DOMAIN Append(records[s], r) = 1..(Len(records[s]) + 1)
            /\ \A k \in 1..Len(records[s]) : Append(records[s], r)[k] = records[s][k]
            /\ Append(records[s], r)[Len(records[s]) + 1] = r
        BY <3>1, AppendProperties
      <3>3. /\ \A k \in 1..Len(records[s]) : Append(measured[s], c)[k] = measured[s][k]
            /\ Append(measured[s], c)[Len(records[s]) + 1] = c
        BY <3>1, AppendProperties
      <3>4. Len(records[s]) \in Nat
        BY <3>1, LenProperties
      <3>5. i \in 1..Len(records[s]) \/ i = Len(records[s]) + 1
        BY <1>3, <2>2, <3>2, <3>4
      <3>6. CASE i \in 1..Len(records[s])
        <4>1. records'[t][i] = records[t][i] /\ measured'[t][i] = measured[t][i]
          BY <2>2, <3>2, <3>3, <3>6
        <4>2. i \in DOMAIN records[t]
          BY <2>2, <3>2, <3>6
        <4>3. RecordHolds(t, i)
          BY <1>2, <4>2
        <4> QED BY <1>1, <4>1, <4>3 DEF RecordHolds, Kept
      <3>7. CASE i = Len(records[s]) + 1
        <4>1. records'[t][i] = r /\ measured'[t][i] = c
          BY <2>2, <3>2, <3>3, <3>7
        <4> QED BY <1>1, <2>2, <4>1 DEF RecordHolds, Kept
      <3> QED BY <3>5, <3>6, <3>7
    <2>3. CASE t # s
      BY <2>1, <2>3, OthersAlone
    <2> QED BY <2>1, <2>2, <2>3, RecordStep
  <1> QED BY <1>3 DEF RecordsAreOnDisk, RecordedIsWritten, RecordHolds

-----------------------------------------------------------------------------
(* Sequences without a value *)

\* p has a y where q has an x, and elsewhere the image of q under f.
Mirrors(p, y, q, x, f) ==
    /\ Len(p) = Len(q)
    /\ \A n \in 1..Len(q) : (q[n] = x <=> p[n] = y) /\ (q[n] # x => f[q[n]] = p[n])

LEMMA WithoutMaps ==
    ASSUME NEW D, NEW q \in Seq(D), NEW x, NEW E, NEW p \in Seq(E), NEW y, NEW f,
           Mirrors(p, y, q, x, f)
    PROVE  Without(p, y) = [i \in DOMAIN Without(q, x) |-> f[Without(q, x)[i]]]
  <1> USE DEF Mirrors
  <1> DEFINE Image(r) == [i \in 1..Len(r) |-> f[r[i]]]
  <1>1. PICK kq : Thinning(kq, q, x, D)
    BY WithoutThins DEF HasThinning
  <1>2. PICK kp : Thinning(kp, p, y, E)
    BY WithoutThins DEF HasThinning
  <1>3. Len(q) \in Nat /\ \A n \in 0..Len(q) : kq[n] \in Seq(D \ {x})
    BY <1>1 DEF Thinning
  <1> DEFINE T == {n \in Nat : n <= Len(q) => kp[n] = Image(kq[n])}
  <1>4. 0 \in T
    <2>1. kq[0] = <<>> /\ kp[0] = <<>>
      BY <1>1, <1>2 DEF Thinning
    <2> QED BY <2>1
  <1>5. ASSUME NEW n \in T PROVE n + 1 \in T
    <2> SUFFICES ASSUME n + 1 <= Len(q) PROVE kp[n + 1] = Image(kq[n + 1])
      OBVIOUS
    <2>1. n + 1 \in 1..Len(q) /\ (n + 1) - 1 = n /\ n \in 0..Len(q) /\ kp[n] = Image(kq[n])
      BY <1>3
    <2>2. kq[n + 1] = IF q[n + 1] = x THEN kq[n] ELSE Append(kq[n], q[n + 1])
      BY <1>1, <2>1 DEF Thinning
    <2>3. kp[n + 1] = IF p[n + 1] = y THEN kp[n] ELSE Append(kp[n], p[n + 1])
      BY <1>2, <2>1 DEF Thinning
    <2>4. CASE q[n + 1] = x
      BY <2>1, <2>2, <2>3, <2>4
    <2>5. CASE q[n + 1] # x
      <3>1. kp[n + 1] = Append(Image(kq[n]), f[q[n + 1]])
        BY <2>1, <2>3, <2>5
      <3>2. kq[n + 1] = Append(kq[n], q[n + 1])
        BY <2>2, <2>5
      <3>3. kq[n] \in Seq(D) /\ q[n + 1] \in D
        <4>1. kq[n] \in Seq(D \ {x})
          BY <1>3, <2>1
        <4> QED BY <4>1, <2>1
      <3>4. \A r \in Seq(D) : \A d \in D : Image(Append(r, d)) = Append(Image(r), f[d])
        OBVIOUS
      <3> HIDE DEF Image
      <3> QED BY <3>1, <3>2, <3>3, <3>4
    <2> QED BY <2>4, <2>5
  <1>6. T = Nat
    <2> HIDE DEF T
    <2>1. T \in SUBSET Nat
      BY DEF T
    <2> QED BY <1>4, <1>5, <2>1, SetInduction
  <1>7. kp[Len(q)] = Image(kq[Len(q)])
    <2>1. Len(q) \in T /\ Len(q) <= Len(q)
      <3> HIDE DEF T
      <3> QED BY <1>3, <1>6
    <2> QED BY <2>1
  <1>8. Without(q, x) = kq[Len(q)] /\ Without(p, y) = kp[Len(q)]
    BY <1>1, <1>2 DEF Thinning
  <1>9. DOMAIN Without(q, x) = 1..Len(Without(q, x))
    <2>1. Without(q, x) \in Seq(D \ {x})
      BY WithoutType
    <2> QED BY <2>1
  <1> QED BY <1>7, <1>8, <1>9

\* Nothing is taken from a sequence that does not have the value.
LEMMA WithoutNothing ==
    ASSUME NEW D, NEW q \in Seq(D), NEW x, x \notin D
    PROVE  Without(q, x) = q
  <1>1. PICK kept : Thinning(kept, q, x, D)
    BY WithoutThins DEF HasThinning
  <1> DEFINE Prefix(n) == [i \in 1..n |-> q[i]]
             T == {n \in Nat : n <= Len(q) => kept[n] = Prefix(n)}
  <1>2. Len(q) \in Nat /\ \A n \in 1..Len(q) : q[n] # x
    OBVIOUS
  <1>3. 0 \in T
    <2>1. kept[0] = <<>>
      BY <1>1 DEF Thinning
    <2> QED BY <2>1
  <1>4. ASSUME NEW n \in T PROVE n + 1 \in T
    <2> SUFFICES ASSUME n + 1 <= Len(q) PROVE kept[n + 1] = Prefix(n + 1)
      OBVIOUS
    <2>1. n + 1 \in 1..Len(q) /\ (n + 1) - 1 = n /\ kept[n] = Prefix(n)
      BY <1>2
    <2>2. kept[n + 1] = Append(Prefix(n), q[n + 1])
      BY <1>1, <1>2, <2>1 DEF Thinning
    <2>3. Append(Prefix(n), q[n + 1]) = Prefix(n + 1)
      <3>1. Prefix(n) \in Seq(D) /\ q[n + 1] \in D /\ Len(Prefix(n)) = n
        <4>1. n \in Nat /\ \A i \in 1..(n + 1) : q[i] \in D
          BY <1>2
        <4> QED BY <4>1
      <3>2. /\ Append(Prefix(n), q[n + 1]) \in Seq(D)
            /\ Len(Append(Prefix(n), q[n + 1])) = n + 1
            /\ \A i \in 1..n : Append(Prefix(n), q[n + 1])[i] = q[i]
            /\ Append(Prefix(n), q[n + 1])[n + 1] = q[n + 1]
        BY <3>1, AppendProperties
      <3>3. \A i \in 1..(n + 1) : i \in 1..n \/ i = n + 1
        OBVIOUS
      <3>4. Append(Prefix(n), q[n + 1]) =
                [i \in 1..(n + 1) |-> Append(Prefix(n), q[n + 1])[i]]
        BY <3>2
      <3> DEFINE a == Append(Prefix(n), q[n + 1])
      <3> HIDE DEF a
      <3>5. \A i \in 1..(n + 1) : a[i] = q[i]
        BY <3>2, <3>3 DEF a
      <3> QED BY <3>4, <3>5 DEF a
    <2> QED BY <2>2, <2>3
  <1>5. T = Nat
    <2> HIDE DEF T
    <2>1. T \in SUBSET Nat
      BY DEF T
    <2> QED BY <1>3, <1>4, <2>1, SetInduction
  <1>6. kept[Len(q)] = Prefix(Len(q))
    <2>1. Len(q) \in T /\ Len(q) <= Len(q)
      <3> HIDE DEF T
      <3> QED BY <1>2, <1>5
    <2> QED BY <2>1
  <1>7. Prefix(Len(q)) = q
    OBVIOUS
  <1> QED BY <1>1, <1>6, <1>7 DEF Thinning

-----------------------------------------------------------------------------
LEMMA SessionStep == SessionInv /\ [Next]_sessionVars => SessionInv'
  <1> SUFFICES ASSUME SessionInv, [Next]_sessionVars PROVE SessionInv'
    OBVIOUS
  <1>1. CASE UNCHANGED sessionVars
    <2>1. TypeOK' /\ WritersApart'
      BY <1>1 DEF SessionInv, sessionVars, ownVars, TypeOK, WritersApart
    <2>2. (RecordsAreOnDisk /\ RecordedIsWritten)'
      BY <1>1 DEF SessionInv, sessionVars, ownVars, RecordedIsWritten, RecordsAreOnDisk
    <2>3. (\A s \in Sessions : OwnState(s))'
      BY <1>1 DEF SessionInv, sessionVars, ownVars, OwnState
    <2> QED BY <2>1, <2>2, <2>3 DEF SessionInv
  <1>2. ASSUME NEW s \in Sessions, Step(s) \/ Interrupt(s)
        PROVE  SessionInv'
    <2>1. TypeOK' /\ WritersApart' /\ (RecordsAreOnDisk /\ RecordedIsWritten)'
      BY <1>2, TypeStep, WritersStayApart, RecordsHold
    <2>2. ASSUME NEW t \in Sessions PROVE OwnState(t)'
      BY <1>2, OthersOwnState, ActorsOwnState
    <2> QED BY <2>1, <2>2 DEF SessionInv
  <1> QED BY <1>1, <1>2 DEF Next

-----------------------------------------------------------------------------
(* The trend *)

Reported == {"save trend", "partial open", "partial write", "done"}

OwnRuns(s) == Without(measured[s], <<>>)

\* A trend is that of the session's own runs, and behind the report it makes no
\* further one.
TrendIsOwn(s) ==
    trend[s] # <<>> => pc[s] \in Reported /\ trend[s] = BuildTrend(OwnRuns(s))

TrendInv ==
    /\ SessionInv
    /\ DOMAIN trend = Sessions
    /\ \A s \in Sessions : TrendIsOwn(s)

\* What the property asks of a trend of these runs.
Tells(t, runs) ==
    /\ DOMAIN t = UNION {DOMAIN runs[i] : i \in DOMAIN runs}
    /\ \A d \in DOMAIN t :
          /\ DOMAIN t[d].series = DOMAIN runs
          /\ \A i \in DOMAIN runs :
                t[d].series[i] = IF d \in DOMAIN runs[i] THEN runs[i][d] ELSE "absent"
          /\ t[d].changed <=>
                \E i, j \in {k \in DOMAIN runs : d \in DOMAIN runs[k]} :
                    runs[i][d] # runs[j][d]

\* A hole is no mark, so that both marks in a series are two runs that disagree.
LEMMA BuiltTrendTells ==
    ASSUME NEW runs \in Seq(Captures)
    PROVE  Tells(BuildTrend(runs), runs)
  <1> DEFINE t == BuildTrend(runs)
  <1>1. /\ DOMAIN t = UNION {DOMAIN runs[i] : i \in DOMAIN runs}
        /\ \A d \in DOMAIN t :
              /\ t[d].series = Series(d, runs)
              /\ t[d].changed = (Marks \subseteq {Series(d, runs)[i] : i \in DOMAIN Series(d, runs)})
    BY DEF BuildTrend
  <1> HIDE DEF t
  <1>2. ASSUME NEW d
        PROVE  /\ DOMAIN Series(d, runs) = DOMAIN runs
               /\ \A i \in DOMAIN runs : Series(d, runs)[i] =
                      IF d \in DOMAIN runs[i] THEN runs[i][d] ELSE "absent"
    BY DEF Series
  <1>3. \A i \in DOMAIN runs : \A d \in DOMAIN runs[i] : runs[i][d] \in Marks
    <2> SUFFICES ASSUME NEW i \in DOMAIN runs, NEW d \in DOMAIN runs[i]
                 PROVE  runs[i][d] \in Marks
      OBVIOUS
    <2>1. runs[i] \in Captures
      OBVIOUS
    <2>2. PICK S \in SUBSET Addresses : runs[i] \in [S -> Marks]
      BY <2>1 DEF Captures
    <2> QED BY <2>2
  <1>4. ASSUME NEW d \in DOMAIN t
        PROVE  t[d].changed <=>
                  \E i, j \in {k \in DOMAIN runs : d \in DOMAIN runs[k]} :
                      runs[i][d] # runs[j][d]
    <2> DEFINE seen == {Series(d, runs)[i] : i \in DOMAIN runs}
               probed == {k \in DOMAIN runs : d \in DOMAIN runs[k]}
    <2>1. t[d].changed <=> Marks \subseteq seen
      BY <1>1, <1>2
    <2>2. \A k \in probed : Series(d, runs)[k] = runs[k][d] /\ runs[k][d] \in Marks
      BY <1>2, <1>3
    <2>3. ASSUME Marks \subseteq seen
          PROVE  \E i, j \in probed : runs[i][d] # runs[j][d]
      <3>1. "reached" \in seen /\ "unreached" \in seen
        BY <2>3 DEF Marks
      <3>2. PICK i \in DOMAIN runs : Series(d, runs)[i] = "reached"
        BY <3>1
      <3>3. PICK j \in DOMAIN runs : Series(d, runs)[j] = "unreached"
        BY <3>1
      <3>4. i \in probed /\ j \in probed
        BY <1>2, <3>2, <3>3
      <3> QED BY <2>2, <3>2, <3>3, <3>4
    <2>4. ASSUME NEW i \in probed, NEW j \in probed, runs[i][d] # runs[j][d]
          PROVE  Marks \subseteq seen
      <3>1. runs[i][d] \in seen /\ runs[j][d] \in seen
        BY <2>2
      <3>2. Marks = {runs[i][d], runs[j][d]}
        BY <2>2, <2>4 DEF Marks
      <3> QED BY <3>1, <3>2
    <2> QED BY <2>1, <2>3, <2>4
  <1>5. Tells(t, runs)
    BY <1>1, <1>2, <1>4 DEF Tells
  <1> QED BY <1>5 DEF t

\* The summaries of the captures on disk are what the runs measured.
LEMMA SummariesAreRuns ==
    ASSUME SessionInv, NEW s \in Sessions
    PROVE  Summaries(s) = OwnRuns(s)
  <1>1. /\ records[s] \in Seq(Names \cup {NoName}) /\ measured[s] \in Seq(Captures)
        /\ Len(measured[s]) = Len(records[s])
    BY DEF SessionInv, TypeOK
  <1>2. \A n \in 1..Len(records[s]) :
            /\ records[s][n] = NoName <=> measured[s][n] = <<>>
            /\ records[s][n] # NoName => files[records[s][n]] = measured[s][n]
    <2>1. DOMAIN records[s] = 1..Len(records[s])
      BY <1>1
    <2> QED BY <2>1 DEF SessionInv, RecordedIsWritten, RecordsAreOnDisk
  <1>3. OwnRuns(s) = [i \in DOMAIN Paths(s) |-> files[Paths(s)[i]]]
    <2>1. Mirrors(measured[s], <<>>, records[s], NoName, files)
      BY <1>1, <1>2 DEF Mirrors
    <2> QED BY <1>1, <2>1, WithoutMaps DEF OwnRuns, Paths
  <1>4. OwnRuns(s) \in Seq(Captures \ {<<>>})
    BY <1>1, WithoutType DEF OwnRuns
  <1>5. Summaries(s) = Without(OwnRuns(s), <<>>)
    BY <1>3 DEF Summaries
  <1> QED BY <1>4, <1>5, WithoutNothing

LEMMA TrendInit == Init => TrendInv
  <1> SUFFICES ASSUME Init PROVE TrendInv
    OBVIOUS
  <1>1. SessionInv
    BY SessionInit
  <1> QED BY <1>1 DEF Init, TrendInv, TrendIsOwn

LEMMA TrendStep == TrendInv /\ [Next]_sessionVars => TrendInv'
  <1> SUFFICES ASSUME TrendInv, [Next]_sessionVars PROVE TrendInv'
    OBVIOUS
  <1>1. SessionInv /\ TypeOK /\ SessionInv'
    BY SessionStep DEF TrendInv, SessionInv
  <1>2. CASE UNCHANGED sessionVars
    BY <1>1, <1>2 DEF TrendInv, TrendIsOwn, OwnRuns, sessionVars, ownVars
  <1>3. ASSUME NEW s \in Sessions, Step(s) \/ Interrupt(s)
        PROVE  DOMAIN trend' = Sessions /\ \A t \in Sessions : TrendIsOwn(t)'
    <2>1. CASE Report(s)
      <3>1. DOMAIN trend' = Sessions
        BY <2>1 DEF Report, TrendInv
      <3>2. measured' = measured
        BY <2>1 DEF Report
      <3>3. TrendIsOwn(s)'
        <4>1. pc'[s] \in {"save trend", "done"}
          BY <1>1, <2>1 DEF Report, Goto, TypeOK
        <4>2. trend'[s] = trend[s] \/ trend'[s] = BuildTrend(Summaries(s))
          BY <2>1 DEF Report, TrendInv
        <4>3. trend[s] = <<>>
          BY <2>1 DEF Report, TrendInv, TrendIsOwn, Reported
        <4>4. Summaries(s) = OwnRuns(s)
          BY <1>1, SummariesAreRuns
        <4> QED BY <3>2, <4>1, <4>2, <4>3, <4>4 DEF TrendIsOwn, Reported, OwnRuns
      <3>4. ASSUME NEW t \in Sessions \ {s} PROVE TrendIsOwn(t)'
        <4>1. trend'[t] = trend[t]
          BY <2>1 DEF Report, TrendInv
        <4>2. pc'[t] = pc[t]
          BY <1>1, <1>3, OthersAlone
        <4>3. TrendIsOwn(t)
          BY DEF TrendInv
        <4> QED BY <3>2, <4>1, <4>2, <4>3 DEF TrendIsOwn, OwnRuns
      <3> QED BY <3>1, <3>3, <3>4
    <2>2. CASE ~Report(s)
      <3>1. trend' = trend
        BY <1>3, <2>2 DEF Step, Interrupt, InterruptRuns, InterruptReport, BeginRun, TraceRoute,
           NameTaken, ClaimName, WriteCapture, Render, FailRun, SaveTrend
      <3>2. ASSUME pc[s] \in Reported
            PROVE  pc'[s] \in Reported /\ measured'[s] = measured[s]
        <4>1. CASE SaveTrend(s) \/ InterruptReport(s)
          BY <1>1, <4>1 DEF SaveTrend, InterruptReport, Goto, TypeOK, Reported
        <4>2. CASE NameTaken(s)
          BY <3>2, <4>2 DEF NameTaken
        <4>3. CASE ClaimName(s) \/ WriteCapture(s)
          BY <1>1, <3>2, <4>3 DEF ClaimName, WriteCapture, Goto, TypeOK, Reported
        <4>4. SaveTrend(s) \/ InterruptReport(s) \/ NameTaken(s) \/ ClaimName(s)
              \/ WriteCapture(s)
          BY <1>3, <2>2, <3>2 DEF Step, Interrupt, InterruptRuns, BeginRun, TraceRoute,
             Render, FailRun, Reported
        <4> QED BY <4>1, <4>2, <4>3, <4>4
      <3>3. TrendIsOwn(s)'
        BY <3>1, <3>2 DEF TrendInv, TrendIsOwn, OwnRuns
      <3>4. ASSUME NEW t \in Sessions \ {s} PROVE TrendIsOwn(t)'
        <4>1. pc'[t] = pc[t] /\ measured'[t] = measured[t]
          BY <1>1, <1>3, OthersAlone
        <4>2. TrendIsOwn(t)
          BY DEF TrendInv
        <4> QED BY <3>1, <4>1, <4>2 DEF TrendIsOwn, OwnRuns
      <3>5. DOMAIN trend' = Sessions
        BY <3>1 DEF TrendInv
      <3> QED BY <3>3, <3>4, <3>5
    <2> QED BY <2>1, <2>2
  <1>4. DOMAIN trend' = Sessions /\ \A t \in Sessions : TrendIsOwn(t)'
    BY <1>2, <1>3 DEF Next, TrendInv, sessionVars, ownVars, TrendIsOwn, OwnRuns
  <1> QED BY <1>1, <1>4 DEF TrendInv

LEMMA TrendTells == TrendInv => TrendTellsOwnRuns
  <1> SUFFICES ASSUME TrendInv, NEW s \in Sessions, trend[s] # <<>>
               PROVE  Tells(trend[s], Without(measured[s], <<>>))
    BY DEF TrendTellsOwnRuns, Tells
  <1>1. measured[s] \in Seq(Captures)
    BY DEF TrendInv, SessionInv, TypeOK
  <1>2. OwnRuns(s) \in Seq(Captures)
    <2>1. OwnRuns(s) \in Seq(Captures \ {<<>>})
      BY <1>1, WithoutType DEF OwnRuns
    <2> QED BY <2>1
  <1>3. trend[s] = BuildTrend(OwnRuns(s))
    BY DEF TrendInv, TrendIsOwn
  <1> QED BY <1>2, <1>3, BuiltTrendTells DEF OwnRuns

-----------------------------------------------------------------------------
\* The sessions keep their types whatever the processes do: pc, names, files
\* and records of tracevis.run_monitored_session.
THEOREM SessionTypes == Spec => []TypeOK
  <1>1. SessionInv => TypeOK
    BY DEF SessionInv
  <1> QED BY <1>1, SessionInit, SessionStep, PTL DEF Spec

\* The path in a RunRecord leads to what that run measured, for any number of
\* processes in one directory: no later run and no other process overwrites it.
THEOREM RecordedOnDisk == Spec => []RecordsAreOnDisk
  <1>1. SessionInv => RecordsAreOnDisk
    BY DEF SessionInv
  <1> QED BY <1>1, SessionInit, SessionStep, PTL DEF Spec

\* A capture that has been written stays what it is: the exclusive creation of
\* _open_new_measurement_file and its counter are enough, without a lock.
THEOREM CapturesStay == Spec => CapturesSurvive
  <1>1. SessionInv /\ [Next]_sessionVars =>
            [\A n \in DOMAIN files :
                n \in DOMAIN files' /\ (files[n] # <<>> => files'[n] = files[n])]_sessionVars
    <2>1. ASSUME SessionInv, NEW s \in Sessions, Step(s) \/ Interrupt(s)
          PROVE  Kept
      BY <2>1, FilesKept
    <2> QED BY <2>1 DEF Next, Kept
  <1> QED BY <1>1, SessionInit, SessionStep, PTL DEF Spec, CapturesSurvive

\* The trend of a session has a column for each of its own completed runs with
\* what that run measured, whoever else writes into the directory between the
\* runs and the report (run_monitored_session, build_trend of monitor.py).
THEOREM TrendIsTrue == Spec => []TrendTellsOwnRuns
  <1> QED BY TrendTells, TrendInit, TrendStep, PTL DEF Spec
=============================================================================
