--------------------------- MODULE HandshakeProofs ---------------------------
(***************************************************************************)
(* Proofs about Handshake and Firewall for every number of SYNs, repeats and *)
(* probes, whatever the path, the server and other processes do.             *)
(***************************************************************************)
EXTENDS Handshake, FiniteSetTheorems, TLAPS

\* What each place of the program knows of the probe in hand.
InHandshake == pc \in {"syn", "syn sent", "failed", "ack", "data"}

Places ==
    /\ pc \notin {"repeat", "end", "error"} => sending # "none"
    /\ InHandshake => sending # "replay"
    /\ pc = "retransmit" => sending = "replay"
    /\ pc \in {"syn", "syn sent"} => ok = "none"
    /\ pc \in {"ack", "data"} => ok = "yes"
    /\ InHandshake => answered = <<>> /\ "data" \notin wire

\* Every copy of the rule in the chain has an owner as long as nobody was warned.
OwnRules == IF block \in {"verify add", "take back", "exit"} THEN 1 ELSE 0

Balanced == rules = operator + OthersRules + OwnRules

ChainInv ==
    /\ warned = FALSE => Balanced
    /\ warned = TRUE => block = "raised"

Endpoints ==
    /\ conn \in Conns
    /\ packet \in [kind : {"syn", "data"}, conn : Conns, id : Int]
    /\ \A m \in net : m.conn \in Conns
    /\ server \in [Conns -> {"none", "half", "open", "closed"}]

\* A SYN-ACK, and what follows from one, speaks of a connection the server has.
Promising == {"synack", "ack", "data", "expiring data"}
Known(c) == c # 0 => server[c] # "none"

ConnectionInv ==
    /\ \A m \in net : m.kind \in Promising => Known(m.conn)
    /\ pc = "syn sent" => conn # 0
    /\ pc \in {"ack", "data"} => Known(conn)
    /\ packet.kind = "data" => Known(packet.conn)

\* The verdict on the probe in hand, before it is written down.
Verdict ==
    /\ (sending = "handshake" /\ pc \notin {"repeat", "end", "error"}) => ttl # 0
    /\ (sending = "handshake" /\ pc = "waiting") => ok = "yes" /\ "data" \in wire
    /\ (sending = "handshake" /\ pc = "answered")
          => ok \in {"yes", "no"} /\ (ok = "yes" <=> "data" \in wire)
    /\ (sending = "replay" /\ pc \in {"retransmit", "waiting", "answered"}) => ok = "none"

\* No answer is counted twice: those of the handshake in rsts, the others in answered.
Kinds == SynAnswers \cup DataAnswers

RstInv ==
    /\ rsts \in Nat /\ answered \in Seq(Kinds)
    /\ heard = rsts + CountRst(answered)
    /\ RstsCountedOnce

\* A preflight that ends with a SYN in hand has heard no answer to it.
PreflightInv ==
    /\ mode = "rexmit" => packet.kind = "data" /\ sending \in {"none", "replay"}
    /\ (sending = "preflight" /\ packet.kind = "syn" /\ pc # "send") => answered = <<>>
    /\ (sending = "preflight" /\ pc = "waiting") => packet.kind = "data"

-----------------------------------------------------------------------------
(* The firewall *)

\* The probes leave the rule alone.
LEMMA ProbesLeaveChain ==
    ASSUME Tracer \/ Network
    PROVE  UNCHANGED fwVars
  BY DEF Tracer, BeginRepeat, SendPacket, SendSyn, SynTimeout, HandshakeFailed, SendAck, SendData,
         Retransmit, DataTimeout, NotePreflight, FirstReplay, Parse, Network, HearSyn, HearData,
         Stray, PathKeeps, ServerTakes, Server

LEMMA FirewallTypes ==
    ASSUME FirewallTypeOK
    PROVE  operator \in Nat /\ rules \in Nat /\ OthersRules \in Nat /\ OwnRules \in Nat
  BY FirewallAssumption DEF FirewallTypeOK, OthersRules, OwnRules

LEMMA WithOwnRule ==
    ASSUME FirewallTypeOK, Balanced, UNCHANGED <<operator, other>>, OwnRules' \in {0, 1},
           rules' = rules - OwnRules + OwnRules'
    PROVE  rules' \in Nat /\ Balanced'
  <1>1. UNCHANGED OthersRules
    BY DEF OthersRules
  <1> QED
    BY <1>1, FirewallTypes DEF Balanced

LEMMA WithOthersRule ==
    ASSUME FirewallTypeOK, Balanced, UNCHANGED <<operator, OwnRules>>, OthersRules' \in {0, 1},
           rules' = rules - OthersRules + OthersRules'
    PROVE  rules' \in Nat /\ Balanced'
  BY FirewallTypes DEF Balanced

\* What the account of the chain says after an action of the with block that
\* warns nobody: own copies before and after it, and copies in the chain.
LEMMA BlockAccount ==
    ASSUME FirewallTypeOK, ChainInv, warned = FALSE, UNCHANGED <<wanted, operator, other, warned>>,
           block' \in {"verify add", "take back", "exit", "verify removed", "left", "raised"},
           rules' = rules - OwnRules + OwnRules'
    PROVE  FirewallTypeOK' /\ ChainInv'
  <1>1. OwnRules' \in {0, 1} /\ Balanced
    BY DEF OwnRules, ChainInv
  <1>2. rules' \in Nat /\ Balanced'
    BY <1>1, WithOwnRule
  <1> QED
    BY <1>2 DEF FirewallTypeOK, ChainInv

LEMMA Warning ==
    ASSUME FirewallTypeOK, UNCHANGED <<wanted, operator, other, rules>>, warned' = TRUE,
           block' = "raised"
    PROVE  FirewallTypeOK' /\ ChainInv'
  BY DEF FirewallTypeOK, ChainInv

LEMMA BlockStep ==
    ASSUME FirewallTypeOK, ChainInv, Block
    PROVE  FirewallTypeOK' /\ ChainInv'
  <1>0. block # "raised" => warned = FALSE
    BY DEF FirewallTypeOK, ChainInv
  <1> USE FirewallTypes DEF Goto
  <1>1. CASE SkipRule
    <2>1. OwnRules = 0 /\ OwnRules' = 0 /\ warned = FALSE /\ rules' = rules
      BY <1>0, <1>1 DEF SkipRule, OwnRules
    <2>2. rules' = rules - OwnRules + OwnRules'
      BY <2>1
    <2> QED
      BY <1>1, <2>1, <2>2, BlockAccount DEF SkipRule
  <1>2. CASE AddRule
    <2>0. OwnRules = 0 /\ warned = FALSE
      BY <1>0, <1>2 DEF AddRule, OwnRules
    <2>1. CASE rules' = rules + 1 /\ Goto("verify add")
      <3>1. OwnRules' = 1 /\ rules' = rules + 1
        BY <2>1 DEF OwnRules
      <3>2. rules' = rules - OwnRules + OwnRules'
        BY <2>0, <3>1
      <3> QED
        BY <1>2, <2>0, <2>1, <3>2, BlockAccount DEF AddRule
    <2>2. CASE rules' = rules /\ Goto("raised")
      <3>1. OwnRules' = 0 /\ rules' = rules
        BY <2>2 DEF OwnRules
      <3>2. rules' = rules - OwnRules + OwnRules'
        BY <2>0, <3>1
      <3> QED
        BY <1>2, <2>0, <2>2, <3>2, BlockAccount DEF AddRule
    <2> QED
      BY <1>2, <2>1, <2>2 DEF AddRule
  <1>3. CASE VerifyAdd
    <2>1. OwnRules = 1 /\ OwnRules' = 1 /\ warned = FALSE /\ rules' = rules
      BY <1>0, <1>3 DEF VerifyAdd, OwnRules
    <2>2. rules' = rules - OwnRules + OwnRules'
      BY <2>1
    <2> QED
      BY <1>3, <2>1, <2>2, BlockAccount DEF VerifyAdd
  <1>4. CASE TakeBack
    <2>1. CASE rules' = rules - 1 /\ UNCHANGED warned
      <3>1. OwnRules = 1 /\ OwnRules' = 0 /\ warned = FALSE /\ rules' = rules - 1
        BY <1>0, <1>4, <2>1 DEF TakeBack, OwnRules
      <3>2. rules' = rules - OwnRules + OwnRules'
        BY <3>1
      <3> QED
        BY <1>4, <2>1, <3>1, <3>2, BlockAccount DEF TakeBack
    <2>2. CASE warned' = TRUE /\ UNCHANGED rules
      BY <1>4, <2>2, Warning DEF TakeBack
    <2> QED
      BY <1>4, <2>1, <2>2 DEF TakeBack
  <1>5. CASE RemoveRule
    <2>1. CASE rules' = rules - 1 /\ Goto("verify removed") /\ UNCHANGED warned
      <3>1. OwnRules = 1 /\ OwnRules' = 0 /\ warned = FALSE /\ rules' = rules - 1
        BY <1>0, <1>5, <2>1 DEF RemoveRule, OwnRules
      <3>2. rules' = rules - OwnRules + OwnRules'
        BY <3>1
      <3> QED
        BY <1>5, <2>1, <3>1, <3>2, BlockAccount DEF RemoveRule
    <2>2. CASE warned' = TRUE /\ Goto("raised") /\ UNCHANGED rules
      BY <1>5, <2>2, Warning DEF RemoveRule
    <2> QED
      BY <1>5, <2>1, <2>2 DEF RemoveRule
  <1>6. CASE VerifyRemoved
    <2>1. CASE warned' = TRUE /\ Goto("raised")
      BY <1>6, <2>1, Warning DEF VerifyRemoved
    <2>2. CASE Goto("left") /\ UNCHANGED warned
      <3>1. OwnRules = 0 /\ OwnRules' = 0 /\ warned = FALSE /\ rules' = rules
        BY <1>0, <1>6, <2>2 DEF VerifyRemoved, OwnRules
      <3>2. rules' = rules - OwnRules + OwnRules'
        BY <3>1
      <3> QED
        BY <1>6, <2>2, <3>1, <3>2, BlockAccount DEF VerifyRemoved
    <2> QED
      BY <1>6, <2>1, <2>2 DEF VerifyRemoved
  <1> QED
    BY <1>1, <1>2, <1>3, <1>4, <1>5, <1>6 DEF Block

LEMMA OthersStep ==
    ASSUME FirewallTypeOK, ChainInv, Others
    PROVE  FirewallTypeOK' /\ ChainInv'
  <1>1. UNCHANGED <<wanted, operator, block, warned, OwnRules>>
    BY DEF Others, OtherAdds, OtherRemoves, OwnRules
  <1>2. OthersRules' \in {0, 1} /\ other' \in {"in", "after"}
    BY DEF Others, OtherAdds, OtherRemoves, OthersRules
  <1>3. rules' = rules - OthersRules + OthersRules' /\ rules' \in Nat
    <2>1. CASE OtherAdds
      <3>1. OthersRules = 0 /\ OthersRules' = 1 /\ rules' = rules + 1
        BY <2>1 DEF OtherAdds, OthersRules
      <3> QED
        BY <3>1, FirewallTypes
    <2>2. CASE OtherRemoves
      <3>1. OthersRules = 1 /\ OthersRules' = 0 /\ rules' = rules - 1 /\ rules > 0
        BY <2>2 DEF OtherRemoves, OthersRules
      <3> QED
        BY <3>1, FirewallTypes
    <2> QED
      BY <2>1, <2>2 DEF Others
  <1>4. warned = FALSE => Balanced'
    BY <1>1, <1>2, <1>3, WithOthersRule DEF ChainInv
  <1> QED
    BY <1>1, <1>2, <1>3, <1>4 DEF FirewallTypeOK, ChainInv

LEMMA ChainStep ==
    ASSUME FirewallTypeOK, ChainInv, [Next]_vars
    PROVE  FirewallTypeOK' /\ ChainInv'
  <1>1. CASE UNCHANGED fwVars
    BY <1>1 DEF fwVars, FirewallTypeOK, ChainInv, Balanced, OthersRules, OwnRules
  <1>2. CASE Firewall
    BY <1>2, BlockStep, OthersStep DEF Firewall
  <1> QED
    BY <1>1, <1>2, ProbesLeaveChain DEF Next, vars

LEMMA ChainInit == Init => FirewallTypeOK /\ ChainInv
  <1> SUFFICES ASSUME FirewallInit
               PROVE  FirewallTypeOK /\ ChainInv
    BY DEF Init
  <1>1. operator \in Nat /\ OthersRules = 0 /\ OwnRules = 0
    BY FirewallAssumption DEF FirewallInit, OthersRules, OwnRules
  <1>2. Balanced
    BY <1>1 DEF FirewallInit, Balanced
  <1> QED
    BY <1>1, <1>2 DEF FirewallInit, FirewallTypeOK, ChainInv

\* Whatever iptables answers and other processes do, the chain is left as it
\* was found or the operator is told where to look.
THEOREM ChainRestored == Spec => []ChainIsRestored
  <1>1. Init => FirewallTypeOK /\ ChainInv
    BY ChainInit
  <1>2. FirewallTypeOK /\ ChainInv => ChainIsRestored
    <2> SUFFICES ASSUME FirewallTypeOK, ChainInv, block \in {"left", "raised"}, ~warned
                 PROVE  rules = operator + OthersRules
      BY DEF ChainIsRestored
    <2>1. warned = FALSE /\ OwnRules = 0
      BY DEF FirewallTypeOK, OwnRules
    <2> QED
      BY <2>1, FirewallTypes DEF ChainInv, Balanced
  <1> QED
    BY <1>1, <1>2, ChainStep, PTL DEF Spec

-----------------------------------------------------------------------------
(* The verdict on a probe *)

VerdictInv == ttl \in Nat /\ Places /\ Verdict /\ VerdictIsOwn

LEMMA VerdictUnchanged ==
    ASSUME VerdictInv, UNCHANGED <<loopVars, tracerVars>>
    PROVE  VerdictInv'
  <1>1. ttl' \in Nat /\ Places'
    BY DEF VerdictInv, Places, InHandshake, loopVars, tracerVars
  <1>2. Verdict'
    BY DEF VerdictInv, Verdict, loopVars, tracerVars
  <1>3. VerdictIsOwn'
    BY DEF VerdictInv, VerdictIsOwn, loopVars, tracerVars
  <1> QED BY <1>1, <1>2, <1>3 DEF VerdictInv

LEMMA FirstTtl ==
    ASSUME ttl \in Nat, BeginRepeat
    PROVE  ttl' \in Nat /\ (pc' = "send" /\ sending' = "handshake" => ttl' # 0)
  <1>1. CASE rep = Repeats
    BY <1>1 DEF BeginRepeat
  <1>2. CASE rep # Repeats
    <2>1. ttl' \in {0, 1} /\ (mode # "paris" => ttl' = 1)
      BY <1>2 DEF BeginRepeat
    <2>2. sending' = "handshake" => mode # "paris"
      BY <1>2 DEF BeginRepeat
    <2>3. ttl' \in Nat /\ (mode # "paris" => ttl' # 0)
      BY <2>1
    <2> QED
      BY <2>2, <2>3
  <1> QED
    BY <1>1, <1>2

LEMMA NextTtl ==
    ASSUME ttl \in Nat, Parse
    PROVE  ttl' \in Nat /\ (pc' = "send" => ttl' # 0)
  <1>1. CASE ttl' = ttl + 1
    BY <1>1
  <1>2. CASE ttl' = 0 /\ pc' = "repeat"
    BY <1>2
  <1> QED
    BY <1>1, <1>2 DEF Parse

LEMMA VerdictStep ==
    ASSUME VerdictInv, [Next]_vars
    PROVE  VerdictInv'
  <1> USE DEF VerdictInv, Places, InHandshake, Verdict, VerdictIsOwn, loopVars, Send, Raise
  <1>1. CASE BeginRepeat
    <2>1. ttl' \in Nat /\ (pc' = "send" /\ sending' = "handshake" => ttl' # 0)
      BY <1>1, FirstTtl
    <2>2. /\ pc' \in {"send", "end"} /\ UNCHANGED <<ok, wire, answered, result>>
          /\ pc' = "send" => sending' # "none"
      BY <1>1 DEF BeginRepeat
    <2> QED
      BY <2>1, <2>2
  <1>2. CASE SendPacket
    BY <1>2 DEF SendPacket, NewHandshake
  <1>3. CASE SendSyn
    BY <1>3 DEF SendSyn
  <1>4. CASE SynTimeout
    BY <1>4 DEF SynTimeout
  <1>5. CASE HandshakeFailed
    BY <1>5 DEF HandshakeFailed
  <1>6. CASE SendAck
    BY <1>6 DEF SendAck
  <1>7. CASE SendData
    <2>1. CASE pc' = "error" /\ UNCHANGED wire
      BY <1>7, <2>1 DEF SendData
    <2>2. CASE pc' = "waiting" /\ wire' = wire \cup {IF ttl = 0 THEN "expiring data" ELSE "data"}
      BY <1>7, <2>2 DEF SendData
    <2> QED
      BY <1>7, <2>1, <2>2 DEF SendData
  <1>8. CASE Retransmit
    BY <1>8 DEF Retransmit
  <1>9. CASE DataTimeout
    BY <1>9 DEF DataTimeout
  <1>10. CASE NotePreflight
    BY <1>10 DEF NotePreflight, FirstReplay
  <1>11. CASE Parse
    <2>1. ttl' \in Nat /\ (pc' = "send" => ttl' # 0)
      BY <1>11, NextTtl
    <2>2. pc' \in {"send", "repeat"} /\ sending # "preflight" /\ pc = "answered"
      BY <1>11 DEF Parse
    <2>3. /\ result'.ok = ok /\ result'.sending = sending /\ result'.wire = wire
          /\ UNCHANGED <<mode, sending, ok, wire, answered>>
      BY <1>11 DEF Parse
    <2> QED
      BY <2>1, <2>2, <2>3
  <1>12. ASSUME NEW m \in net, HearSyn(m) PROVE VerdictInv'
    BY <1>12 DEF HearSyn
  <1>13. ASSUME NEW m \in net, HearData(m) PROVE VerdictInv'
    BY <1>13 DEF HearData
  <1>14. ASSUME NEW m \in net, Stray(m) \/ PathKeeps(m) \/ ServerTakes(m) PROVE VerdictInv'
    BY <1>14, VerdictUnchanged DEF Stray, PathKeeps, ServerTakes, Server
  <1>15. CASE Firewall \/ UNCHANGED vars
    BY <1>15, VerdictUnchanged DEF Firewall, vars
  <1> QED
    BY <1>1, <1>2, <1>3, <1>4, <1>5, <1>6, <1>7, <1>8, <1>9, <1>10, <1>11, <1>12, <1>13, <1>14, <1>15 DEF Next, Tracer, Network

LEMMA VerdictInit == Init => VerdictInv
  <1> SUFFICES ASSUME Init
             PROVE  VerdictInv
    OBVIOUS
  <1>1. pc = "repeat" /\ ttl \in Nat /\ sending = "none"
    BY DEF Init
  <1>2. result.sending = "none"
    BY DEF Init, NoResult
  <1> QED
    BY <1>1, <1>2 DEF VerdictInv, Places, InHandshake, Verdict, VerdictIsOwn

\* Every hop of a handshake says whether its own payload went out, and a replay
\* claims no handshake.
THEOREM OwnVerdict == Spec => []VerdictIsOwn
  <1> QED
    BY VerdictInit, VerdictStep, PTL DEF Spec, VerdictInv

-----------------------------------------------------------------------------
(* The connections *)

\* What is new in the network must be true of the server, which forgets nothing.
LEMMA NetworkKnows ==
    ASSUME Endpoints, ConnectionInv,
           server' \in [Conns -> {"none", "half", "open", "closed"}],
           \A c \in Conns : server[c] # "none" => server'[c] # "none",
           \A n \in net' : n \in net \/ (n.conn \in Conns /\ (n.kind \in Promising => Known(n.conn)'))
    PROVE  /\ \A n \in net' : n.conn \in Conns
           /\ \A n \in net' : n.kind \in Promising => Known(n.conn)'
           /\ \A c \in Conns : Known(c) => Known(c)'
  BY DEF Endpoints, ConnectionInv, Known

LEMMA Sent ==
    ASSUME NEW kind, NEW c, Send(kind, c)
    PROVE  \A n \in net' : n \in net \/ (n.kind = kind /\ n.conn = c)
  BY DEF Send, Msg

LEMMA Replaced ==
    ASSUME NEW m \in net, NEW kinds, Replace(m, kinds)
    PROVE  \A n \in net' : n \in net \/ (n.kind \in kinds /\ n.conn = m.conn)
  BY DEF Replace, Msg

LEMMA SendKnows ==
    ASSUME Endpoints, ConnectionInv, NEW kind, NEW c \in Conns, Send(kind, c),
           kind \in Promising => Known(c)
    PROVE  /\ UNCHANGED server
           /\ \A n \in net' : n.conn \in Conns
           /\ \A n \in net' : n.kind \in Promising => Known(n.conn)'
  <1>1. UNCHANGED server
    BY DEF Send
  <1>2. \A n \in net' : n \in net \/ (n.kind = kind /\ n.conn = c)
    BY Sent
  <1>3. Known(c)' <=> Known(c)
    BY <1>1 DEF Known
  <1> QED
    BY <1>1, <1>2, <1>3, NetworkKnows DEF Endpoints

LEMMA DeliverKnows ==
    ASSUME Endpoints, ConnectionInv, NEW m \in net, Deliver(m)
    PROVE  /\ UNCHANGED server
           /\ \A n \in net' : n.conn \in Conns
           /\ \A n \in net' : n.kind \in Promising => Known(n.conn)'
  <1>1. UNCHANGED server
    BY DEF Deliver
  <1>2. \A n \in net' : n \in net \/ (n.conn = m.conn /\ n.kind = "rst")
    BY DEF Deliver, KernelResets, Msg
  <1> QED
    BY <1>1, <1>2, NetworkKnows DEF Endpoints, Promising

LEMMA ReplaceKnows ==
    ASSUME Endpoints, ConnectionInv, NEW m \in net, NEW kinds, Replace(m, kinds),
           server' \in [Conns -> {"none", "half", "open", "closed"}],
           \A c \in Conns : server[c] # "none" => server'[c] # "none",
           \A k \in kinds : k \in Promising => Known(m.conn)'
    PROVE  /\ \A n \in net' : n.conn \in Conns
           /\ \A n \in net' : n.kind \in Promising => Known(n.conn)'
           /\ \A c \in Conns : Known(c) => Known(c)'
  <1>1. \A n \in net' : n \in net \/ (n.kind \in kinds /\ n.conn = m.conn)
    BY Replaced
  <1> QED
    BY <1>1, NetworkKnows DEF Endpoints

LEMMA ServerKnows ==
    ASSUME Endpoints, ConnectionInv, NEW m \in net, ServerTakes(m)
    PROVE  /\ server' \in [Conns -> {"none", "half", "open", "closed"}]
           /\ \A n \in net' : n.conn \in Conns
           /\ \A n \in net' : n.kind \in Promising => Known(n.conn)'
           /\ \A c \in Conns : Known(c) => Known(c)'
  <1> DEFINE States == {"none", "half", "open", "closed"}
             Takes(next, kinds) ==
                /\ server' = [server EXCEPT ![m.conn] = next]
                /\ Replace(m, kinds)
                /\ server[m.conn] # "none" => next # "none"
                /\ "synack" \in kinds => next # "none"
                /\ kinds \subseteq ToHost
  <1>0. m.conn \in Conns /\ server \in [Conns -> States] /\ server[m.conn] \in States
    BY DEF Endpoints
  <1>1. \E next \in States, kinds \in SUBSET ToHost : Takes(next, kinds)
    <2>1. CASE m.kind = "syn" /\ Server(m, {"none", "half", "closed"}, "half", {"synack"})
      <3>1. Takes("half", {"synack"})
        BY <2>1 DEF Server, ToHost
      <3> QED
        BY <3>1
    <2>2. CASE m.kind = "ack" /\ Server(m, {"half", "open"}, "open", {})
      <3>1. Takes("open", {})
        BY <2>2 DEF Server, ToHost
      <3> QED
        BY <3>1
    <2>3. ASSUME NEW injected \in {{}, {"injected"}},
                 Server(m, {"half", "open"}, "open", {"reply"} \cup injected)
          PROVE  \E next \in States, kinds \in SUBSET ToHost : Takes(next, kinds)
      <3>1. Takes("open", {"reply"} \cup injected)
        BY <2>3 DEF Server, ToHost
      <3> QED
        BY <3>1
    <2>4. CASE Server(m, {"none", "closed"}, server[m.conn], {"reset"})
      <3>1. Takes(server[m.conn], {"reset"})
        BY <2>4 DEF Server, ToHost
      <3> QED
        BY <3>1, <1>0
    <2>5. CASE Server(m, {"half", "open", "closed"}, "closed", {})
      <3>1. Takes("closed", {})
        BY <2>5 DEF Server, ToHost
      <3> QED
        BY <3>1
    <2> QED
      BY <2>1, <2>2, <2>3, <2>4, <2>5 DEF ServerTakes
  <1>2. PICK next \in States, kinds \in SUBSET ToHost : Takes(next, kinds)
    BY <1>1
  <1>3. /\ server' \in [Conns -> States] /\ server'[m.conn] = next
        /\ \A c \in Conns : server[c] # "none" => server'[c] # "none"
    BY <1>0, <1>2
  <1>4. \A k \in kinds : k \in Promising => Known(m.conn)'
    BY <1>2, <1>3 DEF Known, Promising, ToHost
  <1> QED
    BY <1>2, <1>3, <1>4, ReplaceKnows

\* What every step has to show: its part of the network, and its own claims.
LEMMA QuietStep ==
    ASSUME Endpoints, ConnectionInv, UNCHANGED <<netVars, conn, packet>>,
           pc' = pc \/ pc' \notin {"syn sent", "ack", "data"}
    PROVE  Endpoints' /\ ConnectionInv'
  BY DEF Endpoints, ConnectionInv, Known, netVars

LEMMA UnansweredIsSyn ==
    ASSUME Endpoints, NEW c \in Conns, Unanswered(c)
    PROVE  packet' \in [kind : {"syn", "data"}, conn : Conns, id : Int] /\ packet'.kind = "syn"
  <1>1. PICK id \in Drawn(0 .. IdLimit - 1) :
           packet' = [packet EXCEPT !.kind = "syn", !.conn = c, !.id = id]
    BY DEF Unanswered
  <1>2. id \in Int
    BY ProbeAssumption DEF Drawn
  <1> QED
    BY <1>1, <1>2 DEF Endpoints

LEMMA ConnectionStep ==
    ASSUME Endpoints, ConnectionInv, [Next]_vars
    PROVE  Endpoints' /\ ConnectionInv'
  <1>0. 0 \in Conns /\ 1 \in Conns
    BY ProbeAssumption DEF Conns
  <1>1. CASE BeginRepeat \/ HandshakeFailed \/ DataTimeout \/ NotePreflight \/ Parse
    BY <1>1, QuietStep DEF BeginRepeat, HandshakeFailed, DataTimeout, NotePreflight, FirstReplay, Parse
  <1>2. CASE SendPacket
    <2>1. CASE UNCHANGED <<conn, packet, netVars>>
      BY <1>2, <2>1, QuietStep DEF SendPacket
    <2>2. CASE NewHandshake
      <3>1. packet' \in [kind : {"syn", "data"}, conn : Conns, id : Int] /\ packet'.conn = 0
        BY <2>2, <1>0 DEF NewHandshake
      <3> QED
        BY <1>2, <2>2, <3>1, <1>0 DEF SendPacket, NewHandshake, Endpoints, ConnectionInv, Known
    <2> QED
      BY <1>2, <2>1, <2>2 DEF SendPacket
  <1>3. CASE SendSyn
    <2>1. conn' \in Conns /\ conn' # 0
      <3>1. conn' = conn + 1 /\ conn \in Conns /\ conn + 1 \in Conns
        BY <1>3 DEF SendSyn, Endpoints
      <3> QED
        BY <3>1, ProbeAssumption DEF Conns
    <2>2. Send("syn", conn') /\ pc' = "syn sent" /\ UNCHANGED packet
      BY <1>3 DEF SendSyn
    <2>3. /\ UNCHANGED server
          /\ \A n \in net' : n.conn \in Conns
          /\ \A n \in net' : n.kind \in Promising => Known(n.conn)'
      BY <2>1, <2>2, SendKnows DEF Promising
    <2> QED
      BY <2>1, <2>2, <2>3 DEF Endpoints, ConnectionInv, Known
  <1>4. CASE SynTimeout
    <2>1. packet' \in [kind : {"syn", "data"}, conn : Conns, id : Int] /\ packet'.kind = "syn"
      BY <1>4, UnansweredIsSyn DEF SynTimeout, Endpoints
    <2>2. pc' \in {"syn", "failed"} /\ UNCHANGED <<netVars, conn>>
      BY <1>4 DEF SynTimeout
    <2> QED
      BY <2>1, <2>2 DEF Endpoints, ConnectionInv, Known, netVars
  <1>5. CASE SendAck
    <2>1. CASE Send("ack", conn) /\ pc' = "data"
      <3>1. /\ UNCHANGED server
            /\ \A n \in net' : n.conn \in Conns
            /\ \A n \in net' : n.kind \in Promising => Known(n.conn)'
        BY <1>5, <2>1, SendKnows DEF SendAck, Endpoints, ConnectionInv
      <3> QED
        BY <1>5, <2>1, <3>1 DEF SendAck, Endpoints, ConnectionInv, Known
    <2>2. CASE pc' = "error" /\ UNCHANGED netVars
      BY <1>5, <2>2, QuietStep DEF SendAck
    <2> QED
      BY <1>5, <2>1, <2>2 DEF SendAck, Raise
  <1>6. CASE SendData
    <2>1. CASE pc' = "error" /\ UNCHANGED <<packet, netVars>>
      BY <1>6, <2>1, QuietStep DEF SendData
    <2>2. ASSUME NEW id \in 2 .. IdLimit + 1,
                 packet' = [kind |-> "data", conn |-> conn,
                            id |-> IF mode = "paris" THEN id ELSE 0],
                 Send(IF ttl = 0 THEN "expiring data" ELSE "data", conn), pc' = "waiting"
          PROVE  Endpoints' /\ ConnectionInv'
      <3>1. conn \in Conns /\ Known(conn) /\ UNCHANGED conn
        BY <1>6 DEF SendData, Endpoints, ConnectionInv
      <3>2. /\ UNCHANGED server
            /\ \A n \in net' : n.conn \in Conns
            /\ \A n \in net' : n.kind \in Promising => Known(n.conn)'
        BY <2>2, <3>1, SendKnows
      <3>3. (IF mode = "paris" THEN id ELSE 0) \in Int
        <4>1. id \in Int
          BY ProbeAssumption
        <4> QED
          BY <4>1
      <3>4. packet' \in [kind : {"syn", "data"}, conn : Conns, id : Int] /\ packet'.conn = conn
        BY <2>2, <3>1, <3>3
      <3> QED
        BY <2>2, <3>1, <3>2, <3>4 DEF Endpoints, ConnectionInv, Known
    <2> QED
      BY <1>6, <2>1, <2>2 DEF SendData, Raise
  <1>7. CASE Retransmit
    <2>1. CASE pc' = "error" /\ UNCHANGED <<packet, netVars>>
      BY <1>7, <2>1, QuietStep DEF Retransmit
    <2>2. CASE pc' = "waiting"
      <3>1. Send(packet.kind, packet.conn) /\ UNCHANGED conn
        BY <1>7, <2>2 DEF Retransmit, Raise
      <3>2. packet' = [packet EXCEPT !.id = @ + 1]
        BY <1>7, <2>2 DEF Retransmit, Raise
      <3>3. /\ packet' \in [kind : {"syn", "data"}, conn : Conns, id : Int]
            /\ packet'.kind = packet.kind /\ packet'.conn = packet.conn
        <4>1. packet.id \in Int /\ packet \in [kind : {"syn", "data"}, conn : Conns, id : Int]
          BY DEF Endpoints
        <4>2. packet.id + 1 \in Int
          BY <4>1
        <4> QED
          BY <3>2, <4>1, <4>2
      <3>4. packet.conn \in Conns /\ (packet.kind \in Promising => Known(packet.conn))
        BY DEF Endpoints, ConnectionInv, Promising
      <3>5. /\ UNCHANGED server
            /\ \A n \in net' : n.conn \in Conns
            /\ \A n \in net' : n.kind \in Promising => Known(n.conn)'
        BY <3>1, <3>4, SendKnows
      <3> QED
        BY <2>2, <3>1, <3>3, <3>5 DEF Endpoints, ConnectionInv, Known
    <2> QED
      BY <1>7, <2>1, <2>2 DEF Retransmit, Raise
  <1>8. ASSUME NEW m \in net, HearSyn(m) \/ HearData(m) \/ Stray(m)
        PROVE  Endpoints' /\ ConnectionInv'
    <2>1. /\ UNCHANGED server
          /\ \A n \in net' : n.conn \in Conns
          /\ \A n \in net' : n.kind \in Promising => Known(n.conn)'
      BY <1>8, DeliverKnows DEF HearSyn, HearData, Stray
    <2>2. CASE HearSyn(m) /\ m.kind = "synack"
      <3>1. Known(conn)
        BY <2>2 DEF HearSyn, ConnectionInv, Promising
      <3> QED
        BY <2>1, <2>2, <3>1 DEF HearSyn, Endpoints, ConnectionInv, Known
    <2>3. CASE HearSyn(m) /\ m.kind # "synack"
      <3>1. packet' \in [kind : {"syn", "data"}, conn : Conns, id : Int] /\ packet'.kind = "syn"
        BY <1>0, <2>3, UnansweredIsSyn DEF HearSyn
      <3>2. pc' = "failed" /\ UNCHANGED conn
        BY <2>3 DEF HearSyn
      <3> QED
        BY <2>1, <3>1, <3>2 DEF Endpoints, ConnectionInv
    <2>4. CASE HearData(m) \/ Stray(m)
      <3>1. UNCHANGED <<conn, packet>> /\ (pc' = pc \/ pc' \in {"answered", "waiting"})
        BY <2>4 DEF HearData, Stray, tracerVars
      <3> QED
        BY <2>1, <3>1 DEF Endpoints, ConnectionInv, Known
    <2> QED
      BY <1>8, <2>2, <2>3, <2>4
  <1>9. ASSUME NEW m \in net, PathKeeps(m) \/ ServerTakes(m)
        PROVE  Endpoints' /\ ConnectionInv'
    <2>1. UNCHANGED <<pc, conn, packet>>
      BY <1>9 DEF PathKeeps, ServerTakes, Server, tracerVars
    <2>2. /\ server' \in [Conns -> {"none", "half", "open", "closed"}]
          /\ \A n \in net' : n.conn \in Conns
          /\ \A n \in net' : n.kind \in Promising => Known(n.conn)'
          /\ \A c \in Conns : Known(c) => Known(c)'
      <3>1. CASE PathKeeps(m)
        <4>1. UNCHANGED server /\ \E kinds \in SUBSET {"icmp", "injected"} : Replace(m, kinds)
          BY <3>1 DEF PathKeeps
        <4> QED
          BY <4>1, ReplaceKnows DEF Promising, Endpoints
      <3> QED
        BY <1>9, <3>1, ServerKnows
    <2> QED
      BY <2>1, <2>2 DEF Endpoints, ConnectionInv
  <1>10. CASE Firewall \/ UNCHANGED vars
    BY <1>10, QuietStep DEF Firewall, vars, tracerVars
  <1> QED
    BY <1>1, <1>2, <1>3, <1>4, <1>5, <1>6, <1>7, <1>8, <1>9, <1>10 DEF Next, Tracer, Network

LEMMA EndpointsInit == Init => Endpoints /\ ConnectionInv
  <1> SUFFICES ASSUME Init
             PROVE  Endpoints /\ ConnectionInv
    OBVIOUS
  <1>1. 0 \in Conns
    BY ProbeAssumption DEF Conns
  <1>2. PICK id \in IF mode = "rexmit" THEN 0 .. IdLimit - 1 ELSE {0} :
         packet = [kind |-> "data", conn |-> 0, id |-> id]
    BY DEF Init
  <1>3. id \in Int
    BY ProbeAssumption
  <1>4. packet \in [kind : {"syn", "data"}, conn : Conns, id : Int] /\ packet.conn = 0
    BY <1>1, <1>2, <1>3
  <1> QED
    BY <1>1, <1>4 DEF Init, Endpoints, ConnectionInv, Known

\* No payload is sent, or replayed, on a connection the server has not answered.
THEOREM DataNeedsSynAck == Spec => []DataMeetsConnection
  <1>1. Endpoints /\ ConnectionInv => DataMeetsConnection
    <2>1. \A c \in Conns : c > 0 => c # 0
      BY ProbeAssumption DEF Conns
    <2> QED
      BY <2>1 DEF DataMeetsConnection, Endpoints, ConnectionInv, Promising, Known
  <1> QED
    BY EndpointsInit, <1>1, ConnectionStep, PTL DEF Spec

LEMMA SynStep ==
    ASSUME Endpoints, Places, [Next]_vars, conn' > conn
    PROVE  ok = "none"
  <1>1. conn \in Nat
    BY ProbeAssumption DEF Endpoints, Conns
  <1>2. conn' # conn
    BY <1>1
  <1>3. conn' # 0
    BY <1>1
  <1>4. SendSyn
    BY <1>2, <1>3
    DEF Next, vars, tracerVars, Firewall, Tracer, BeginRepeat, SendPacket, NewHandshake, SynTimeout,
        HandshakeFailed, SendAck, SendData, Retransmit, DataTimeout, NotePreflight, Parse, Network,
        HearSyn, HearData, Stray, PathKeeps, ServerTakes, Server
  <1> QED
    BY <1>4 DEF SendSyn, Places

\* Only silence is retried: a SYN leaves while nothing has answered the probe.
THEOREM RetriesOnSilence == Spec => NoSynAfterRefusal
  <1>1. VerdictInv => Places
    BY DEF VerdictInv
  <1>2. Endpoints /\ Places /\ [Next]_vars => [conn' > conn => ok = "none"]_vars
    BY SynStep
  <1> QED
    BY EndpointsInit, VerdictInit, ConnectionStep, VerdictStep, <1>1, <1>2, PTL
    DEF Spec, NoSynAfterRefusal

-----------------------------------------------------------------------------
(* The resets *)

LEMMA CountIsNat ==
    ASSUME NEW s \in Seq(Kinds)
    PROVE  CountRst(s) \in Nat
  <1>1. IsFiniteSet(1 .. Len(s))
    BY FS_Interval
  <1>2. {i \in DOMAIN s : s[i] \in Rsts} \subseteq 1 .. Len(s)
    OBVIOUS
  <1> QED
    BY <1>1, <1>2, FS_Subset, FS_CardinalityType DEF CountRst

LEMMA CountAppend ==
    ASSUME NEW s \in Seq(Kinds), NEW k \in Kinds
    PROVE  /\ Append(s, k) \in Seq(Kinds)
           /\ CountRst(Append(s, k)) = CountRst(s) + IF k \in Rsts THEN 1 ELSE 0
  <1> DEFINE t == Append(s, k)
             S == {i \in DOMAIN s : s[i] \in Rsts}
             T == {i \in DOMAIN t : t[i] \in Rsts}
             last == Len(s) + 1
  <1>1. /\ t \in Seq(Kinds) /\ DOMAIN t = DOMAIN s \cup {last} /\ last \notin DOMAIN s
        /\ t[last] = k /\ \A i \in DOMAIN s : t[i] = s[i]
    OBVIOUS
  <1>2. IsFiniteSet(S)
    <2>1. IsFiniteSet(1 .. Len(s)) /\ S \subseteq 1 .. Len(s)
      BY FS_Interval
    <2> QED
      BY <2>1, FS_Subset
  <1>3. Cardinality(S) \in Nat
    BY <1>2, FS_CardinalityType
  <1> HIDE DEF t, S, T, last
  <1>4. CountRst(s) = Cardinality(S) /\ CountRst(t) = Cardinality(T)
    BY DEF CountRst, S, T
  <1>5. CASE k \in Rsts
    <2>1. T = S \cup {last} /\ last \notin S
      BY <1>1, <1>5 DEF S, T
    <2>2. Cardinality(T) = Cardinality(S) + 1
      BY <1>2, <2>1, FS_AddElement
    <2> QED
      BY <1>1, <1>5, <1>4, <2>2 DEF t
  <1>6. CASE k \notin Rsts
    <2>1. T = S
      BY <1>1, <1>6 DEF S, T
    <2>2. Cardinality(T) = Cardinality(S) + 0
      BY <1>3, <2>1
    <2> QED
      BY <1>1, <1>6, <1>4, <2>2 DEF t
  <1> QED
    BY <1>5, <1>6

LEMMA CountEmpty == <<>> \in Seq(Kinds) /\ CountRst(<<>>) = 0
  <1>1. {i \in DOMAIN <<>> : <<>>[i] \in Rsts} = {}
    OBVIOUS
  <1>2. Cardinality({}) = 0
    BY FS_EmptySet
  <1>3. CountRst(<<>>) = 0
    BY <1>1, <1>2 DEF CountRst
  <1> QED
    BY <1>3

LEMMA RstStep ==
    ASSUME RstInv, [Next]_vars
    PROVE  RstInv'
  <1>0. rsts \in Nat /\ CountRst(answered) \in Nat /\ heard = rsts + CountRst(answered)
    BY CountIsNat DEF RstInv
  <1>1. ASSUME UNCHANGED <<rsts, answered, heard, result>>
        PROVE  RstInv'
    BY <1>1 DEF RstInv, RstsCountedOnce, CountRst
  <1>2. CASE SendPacket
    <2>1. rsts' = 0 /\ answered' = <<>> /\ heard' = 0 /\ UNCHANGED result
      BY <1>2 DEF SendPacket
    <2>2. heard' = rsts' + CountRst(answered')
      BY <2>1, CountEmpty
    <2> QED
      BY <2>1, <2>2, CountEmpty DEF RstInv, RstsCountedOnce, CountRst
  <1>3. CASE Parse
    <2>1. result'.rst = rsts + CountRst(answered) /\ result'.heard = heard
      BY <1>3 DEF Parse
    <2>2. UNCHANGED <<rsts, answered, heard>>
      BY <1>3 DEF Parse
    <2> QED
      BY <2>1, <2>2 DEF RstInv, RstsCountedOnce, CountRst
  <1>4. ASSUME NEW m \in net, HearSyn(m)
        PROVE  RstInv'
    <2>1. rsts' = rsts + RstIn(m) /\ heard' = heard + RstIn(m) /\ RstIn(m) \in Nat
      BY <1>4 DEF HearSyn, RstIn
    <2>2. UNCHANGED <<answered, result, CountRst(answered)>>
      BY <1>4 DEF HearSyn, CountRst
    <2>3. rsts' \in Nat /\ heard' = rsts' + CountRst(answered)'
      BY <1>0, <2>1, <2>2
    <2> QED
      BY <2>2, <2>3 DEF RstInv, RstsCountedOnce
  <1>5. ASSUME NEW m \in net, HearData(m)
        PROVE  RstInv'
    <2>1. m.kind \in Kinds /\ answered \in Seq(Kinds)
      BY <1>5 DEF HearData, AnswersTo, Kinds, RstInv
    <2>2. answered' = Append(answered, m.kind) /\ heard' = heard + RstIn(m) /\ UNCHANGED <<rsts, result>>
      BY <1>5 DEF HearData
    <2>3. answered' \in Seq(Kinds) /\ CountRst(answered') = CountRst(answered) + RstIn(m)
      BY <2>1, <2>2, CountAppend DEF RstIn
    <2>4. RstIn(m) \in Nat
      BY DEF RstIn
    <2>5. heard' = rsts' + CountRst(answered')
      BY <1>0, <2>2, <2>3, <2>4
    <2> QED
      BY <2>2, <2>3, <2>5 DEF RstInv, RstsCountedOnce, CountRst
  <1>6. CASE \/ BeginRepeat \/ SendSyn \/ SynTimeout \/ HandshakeFailed \/ SendAck
             \/ SendData \/ Retransmit \/ DataTimeout \/ NotePreflight
    BY <1>1, <1>6 DEF BeginRepeat, SendSyn, SynTimeout, HandshakeFailed, SendAck, SendData, Retransmit,
                      DataTimeout, NotePreflight
  <1>7. ASSUME NEW m \in net, Stray(m) \/ PathKeeps(m) \/ ServerTakes(m)
        PROVE  RstInv'
    BY <1>1, <1>7 DEF Stray, PathKeeps, ServerTakes, Server, tracerVars
  <1>8. CASE Firewall \/ UNCHANGED vars
    BY <1>1, <1>8 DEF Firewall, vars, tracerVars
  <1> QED
    BY <1>2, <1>3, <1>4, <1>5, <1>6, <1>7, <1>8 DEF Next, Tracer, Network

LEMMA RstInit == Init => RstInv
  <1> SUFFICES ASSUME Init
               PROVE  RstInv
    OBVIOUS
  <1>1. rsts = 0 /\ answered = <<>> /\ heard = 0 /\ result = NoResult
    BY DEF Init
  <1>2. heard = rsts + CountRst(answered)
    BY <1>1, CountEmpty
  <1> QED
    BY <1>1, <1>2, CountEmpty DEF RstInv, RstsCountedOnce, NoResult

\* Every reset a probe is handed is counted once, in its own result.
THEOREM EachRstOnce == Spec => []RstsCountedOnce
  BY RstInit, RstStep, PTL DEF Spec, RstInv

-----------------------------------------------------------------------------
(* The preflight *)

LEMMA DataInHand ==
    ASSUME SendData
    PROVE  packet'.kind = "data" \/ (UNCHANGED packet /\ pc' = "error")
  <1>1. PICK id \in 2 .. IdLimit + 1 :
           \/ pc' = "error" /\ UNCHANGED packet
           \/ packet' = [kind |-> "data", conn |-> conn, id |-> IF mode = "paris" THEN id ELSE 0]
    BY DEF SendData, Raise
  <1>2. ASSUME NEW i, packet' = [kind |-> "data", conn |-> conn, id |-> i]
        PROVE  packet'.kind = "data"
    BY <1>2
  <1> QED
    BY <1>1, <1>2

LEMMA ReplayStep ==
    ASSUME Endpoints, Endpoints', Places, PreflightInv, SynReplayIsNoted, [Next]_vars
    PROVE  PreflightInv' /\ SynReplayIsNoted'
  <1> USE DEF Places, InHandshake, PreflightInv, SynReplayIsNoted, Raise
  <1>1. CASE BeginRepeat
    BY <1>1 DEF BeginRepeat
  <1>2. CASE SendPacket
    BY <1>2 DEF SendPacket, NewHandshake, loopVars
  <1>3. CASE SendSyn \/ HandshakeFailed \/ SendAck \/ DataTimeout
    BY <1>3 DEF SendSyn, HandshakeFailed, SendAck, DataTimeout, loopVars
  <1>4. CASE SynTimeout
    <2>1. packet'.kind = "syn"
      BY <1>4, UnansweredIsSyn DEF SynTimeout, Endpoints
    <2> QED
      BY <1>4, <2>1 DEF SynTimeout, loopVars
  <1>5. CASE SendData
    <2>1. packet'.kind = "data" \/ UNCHANGED packet
      BY <1>5, DataInHand
    <2>2. pc' \in {"waiting", "error"} /\ UNCHANGED <<mode, sending, answered, noted>>
      BY <1>5 DEF SendData, loopVars
    <2>3. pc' = "waiting" => packet'.kind = "data"
      BY <1>5, DataInHand
    <2>4. sending \notin {"none", "replay"} /\ answered = <<>>
      BY <1>5 DEF SendData
    <2> QED
      BY <2>1, <2>2, <2>3, <2>4
  <1>6. CASE Retransmit
    <2>1. packet'.kind = packet.kind
      BY <1>6 DEF Retransmit, Endpoints
    <2> QED
      BY <1>6, <2>1 DEF Retransmit, loopVars
  <1>7. CASE NotePreflight
    BY <1>7 DEF NotePreflight, FirstReplay
  <1>8. CASE Parse
    BY <1>8 DEF Parse
  <1>9. ASSUME NEW m \in net, HearSyn(m)
        PROVE  PreflightInv' /\ SynReplayIsNoted'
    BY <1>9 DEF HearSyn, loopVars
  <1>10. ASSUME NEW m \in net, HearData(m)
         PROVE  PreflightInv' /\ SynReplayIsNoted'
    BY <1>10 DEF HearData, loopVars
  <1>11. CASE UNCHANGED <<loopVars, tracerVars>>
    BY <1>11 DEF loopVars, tracerVars
  <1>12. (Firewall \/ UNCHANGED vars) => UNCHANGED <<loopVars, tracerVars>>
    BY DEF Firewall, vars
  <1>13. ASSUME NEW m \in net, Stray(m) \/ PathKeeps(m) \/ ServerTakes(m)
         PROVE  UNCHANGED <<loopVars, tracerVars>>
    BY <1>13 DEF Stray, PathKeeps, ServerTakes, Server
  <1> QED
    BY <1>1, <1>2, <1>3, <1>4, <1>5, <1>6, <1>7, <1>8, <1>9, <1>10, <1>11, <1>12, <1>13
    DEF Next, Tracer, Network

\* Every replayed SYN stands in a measurement that says so.
THEOREM SynReplayNoted == Spec => []SynReplayIsNoted
  <1>1. Init => PreflightInv /\ SynReplayIsNoted
    <2> SUFFICES ASSUME Init
                 PROVE  PreflightInv /\ SynReplayIsNoted
      OBVIOUS
    <2>1. packet.kind = "data" /\ sending = "none" /\ pc = "repeat" /\ answered = <<>>
      BY DEF Init
    <2> QED
      BY <2>1 DEF PreflightInv, SynReplayIsNoted
  <1>2. Init => Endpoints /\ ConnectionInv /\ VerdictInv
    BY EndpointsInit, VerdictInit
  <1>3. VerdictInv => Places
    BY DEF VerdictInv
  <1> QED
    BY <1>1, <1>2, <1>3, ConnectionStep, VerdictStep, ReplayStep, PTL DEF Spec

-----------------------------------------------------------------------------
(* Types *)

Loops ==
    /\ mode \in Modes
    /\ pc \in {"repeat", "send", "syn", "syn sent", "failed", "ack", "data", "retransmit",
               "waiting", "answered", "end", "error"}
    /\ sending \in {"none", "preflight", "handshake", "replay"}
    /\ rep \in 0..Repeats /\ ttl \in 0..MaxTtl
    /\ noted \in BOOLEAN

\* A SYN is owed only as long as attempts are left, and none of them was answered.
Attempts ==
    /\ attempt \in 0..MaxSyn /\ rsts \in 0..1
    /\ ok \in {"none", "yes", "no"}
    /\ pc \in {"syn", "syn sent"} => attempt < MaxSyn /\ rsts = 0

Messages == [kind : ToServer \cup ToHost, conn : Conns]

Traffic ==
    /\ packet.id \in 0 .. IdLimit - 1
    /\ wire \subseteq ToServer
    /\ net \subseteq Messages

LEMMA ProbeTypes ==
    /\ MaxSyn \in Nat /\ MaxSyn >= 1
    /\ Repeats \in Nat /\ Repeats >= 1
    /\ MaxTtl \in Nat /\ MaxTtl >= 1
    /\ IdLimit \in Nat /\ IdLimit >= 1
  <1>1. \A n \in Nat \ {0} : n \in Nat /\ n >= 1
    OBVIOUS
  <1> QED BY <1>1, ProbeAssumption

LEMMA LoopsStep ==
    ASSUME Loops, [Next]_vars
    PROVE  Loops'
  <1>0. Repeats \in Nat /\ MaxTtl \in Nat /\ MaxTtl >= 1 /\ rep \in Nat /\ ttl \in Nat
    <2>1. rep \in 0..Repeats /\ ttl \in 0..MaxTtl
      BY DEF Loops
    <2> QED BY <2>1, ProbeTypes
  <1>1. CASE BeginRepeat
    <2>1. CASE rep = Repeats
      BY <1>1, <2>1 DEF BeginRepeat, Loops
    <2>2. CASE rep # Repeats
      <3>1. rep' = rep + 1 /\ ttl' \in {0, 1} /\ pc' = "send"
            /\ sending' \in {"preflight", "replay", "handshake"} /\ UNCHANGED <<mode, noted>>
        BY <1>1, <2>2 DEF BeginRepeat
      <3>2. rep' \in 0..Repeats
        <4>1. rep \in 0..Repeats
          BY DEF Loops
        <4> QED BY <1>0, <2>2, <3>1, <4>1
      <3>3. ttl' \in 0..MaxTtl
        BY <1>0, <3>1
      <3> QED BY <3>1, <3>2, <3>3 DEF Loops
    <2> QED BY <2>1, <2>2
  <1>2. CASE SendPacket \/ SendSyn \/ SynTimeout \/ HandshakeFailed \/ SendAck \/ SendData
             \/ Retransmit \/ DataTimeout
    BY <1>2 DEF SendPacket, SendSyn, SynTimeout, HandshakeFailed, SendAck, SendData, Retransmit,
                DataTimeout, Raise, Loops, loopVars
  <1>3. CASE NotePreflight
    <2>1. ttl' = 1 /\ ttl' \in 0..MaxTtl
      BY <1>0, <1>3 DEF NotePreflight, FirstReplay
    <2> QED BY <1>3, <2>1 DEF NotePreflight, FirstReplay, Loops
  <1>4. CASE Parse
    <2>1. ttl' \in 0..MaxTtl
      BY <1>0, <1>4 DEF Parse
    <2> QED BY <1>4, <2>1 DEF Parse, Loops
  <1>5. ASSUME NEW m \in net, HearSyn(m) \/ HearData(m)
        PROVE  Loops'
    BY <1>5 DEF HearSyn, HearData, Loops, loopVars
  <1>6. ASSUME NEW m \in net, Stray(m) \/ PathKeeps(m) \/ ServerTakes(m)
        PROVE  Loops'
    BY <1>6 DEF Stray, PathKeeps, ServerTakes, Server, Loops, loopVars, tracerVars
  <1>7. CASE Firewall \/ UNCHANGED vars
    BY <1>7 DEF Firewall, vars, Loops, loopVars, tracerVars
  <1> QED
    BY <1>1, <1>2, <1>3, <1>4, <1>5, <1>6, <1>7 DEF Next, Tracer, Network

LEMMA AttemptsStep ==
    ASSUME Attempts, [Next]_vars
    PROVE  Attempts'
  <1>0. MaxSyn \in Nat /\ MaxSyn >= 1 /\ attempt \in Nat
    <2>1. attempt \in 0..MaxSyn
      BY DEF Attempts
    <2> QED BY <2>1, ProbeTypes
  <1>1. CASE BeginRepeat \/ SendSyn \/ HandshakeFailed \/ SendAck \/ SendData \/ Retransmit
             \/ DataTimeout \/ NotePreflight \/ Parse
    BY <1>1 DEF BeginRepeat, SendSyn, HandshakeFailed, SendAck, SendData, Retransmit, DataTimeout,
                NotePreflight, FirstReplay, Parse, Raise, Attempts
  <1>2. CASE SendPacket
    <2>1. attempt' = 0 /\ rsts' = 0 /\ ok' = "none"
      BY <1>2 DEF SendPacket
    <2>2. attempt' \in 0..MaxSyn /\ attempt' < MaxSyn /\ rsts' \in 0..1
      BY <1>0, <2>1
    <2> QED BY <2>1, <2>2 DEF Attempts
  <1>3. CASE SynTimeout
    <2>1. /\ attempt' = attempt + 1 /\ attempt < MaxSyn /\ rsts = 0 /\ UNCHANGED <<ok, rsts>>
          /\ pc' \in {"syn", "failed"} /\ (pc' = "syn" => attempt + 1 < MaxSyn)
      BY <1>3 DEF SynTimeout, Attempts
    <2>2. attempt' \in 0..MaxSyn
      BY <1>0, <2>1
    <2> QED BY <2>1, <2>2 DEF Attempts
  <1>4. ASSUME NEW m \in net, HearSyn(m)
        PROVE  Attempts'
    <2>1. /\ attempt' = attempt + 1 /\ attempt < MaxSyn /\ rsts = 0 /\ rsts' = rsts + RstIn(m)
          /\ pc' \in {"ack", "failed"} /\ ok' \in {"yes", "no"}
      BY <1>4 DEF HearSyn, Attempts
    <2>2. attempt' \in 0..MaxSyn /\ rsts' \in 0..1
      BY <1>0, <2>1 DEF RstIn
    <2> QED BY <2>1, <2>2 DEF Attempts
  <1>5. ASSUME NEW m \in net, HearData(m)
        PROVE  Attempts'
    BY <1>5 DEF HearData, Attempts
  <1>6. ASSUME NEW m \in net, Stray(m) \/ PathKeeps(m) \/ ServerTakes(m)
        PROVE  Attempts'
    BY <1>6 DEF Stray, PathKeeps, ServerTakes, Server, Attempts, tracerVars
  <1>7. CASE Firewall \/ UNCHANGED vars
    BY <1>7 DEF Firewall, vars, Attempts, tracerVars
  <1> QED
    BY <1>1, <1>2, <1>3, <1>4, <1>5, <1>6, <1>7 DEF Next, Tracer, Network

LEMMA SendTraffic ==
    ASSUME Traffic, NEW kind \in ToServer, NEW c \in Conns, Send(kind, c)
    PROVE  wire' \subseteq ToServer /\ net' \subseteq Messages
  BY DEF Send, Msg, Traffic, Messages

LEMMA DeliverTraffic ==
    ASSUME Traffic, NEW m \in net, Deliver(m)
    PROVE  net' \subseteq Messages
  <1>1. m.conn \in Conns /\ net \subseteq Messages
    BY DEF Traffic, Messages
  <1>2. Msg("rst", m.conn) \in Messages
    BY <1>1 DEF Msg, Messages, ToServer
  <1>3. KernelResets(m) \subseteq {Msg("rst", m.conn)}
    BY DEF KernelResets
  <1> QED BY <1>1, <1>2, <1>3 DEF Deliver

LEMMA ReplaceTraffic ==
    ASSUME Traffic, NEW m \in net, NEW kinds \in SUBSET ToHost, Replace(m, kinds)
    PROVE  net' \subseteq Messages
  BY DEF Replace, Msg, Traffic, Messages

LEMMA DrawnId ==
    ASSUME Endpoints, Traffic, NEW c, Unanswered(c)
    PROVE  packet'.id \in 0 .. IdLimit - 1
  <1>1. PICK id \in Drawn(0 .. IdLimit - 1) :
           packet' = [packet EXCEPT !.kind = "syn", !.conn = c, !.id = id]
    BY DEF Unanswered
  <1>2. id \in 0 .. IdLimit - 1
    BY ProbeAssumption DEF Drawn
  <1>3. packet'.id = id
    BY <1>1 DEF Endpoints
  <1> QED BY <1>2, <1>3

LEMMA TrafficStep ==
    ASSUME Traffic, Endpoints, Endpoints', [Next]_vars
    PROVE  Traffic'
  <1>0. IdLimit \in Nat /\ IdLimit >= 1 /\ 0 \in 0 .. IdLimit - 1
    BY ProbeTypes
  <1>1. CASE BeginRepeat \/ HandshakeFailed \/ DataTimeout \/ NotePreflight \/ Parse
    BY <1>1 DEF BeginRepeat, HandshakeFailed, DataTimeout, NotePreflight, Parse, Traffic, netVars
  <1>2. CASE SendPacket
    <2>1. packet'.id \in 0 .. IdLimit - 1 /\ net' \subseteq Messages
      BY <1>0, <1>2 DEF SendPacket, NewHandshake, Traffic, netVars
    <2> QED BY <1>2, <2>1 DEF SendPacket, Traffic
  <1>3. CASE SendSyn
    <2>1. conn + 1 \in Conns /\ Send("syn", conn + 1) /\ UNCHANGED packet
      BY <1>3 DEF SendSyn
    <2> QED BY <2>1, SendTraffic DEF Traffic, ToServer
  <1>4. CASE SynTimeout
    BY <1>4, DrawnId DEF SynTimeout, Endpoints, Traffic, netVars
  <1>5. CASE SendAck
    <2>1. CASE Send("ack", conn)
      BY <1>5, <2>1, SendTraffic DEF SendAck, Traffic, Endpoints, ToServer
    <2>2. CASE UNCHANGED <<wire, netVars>>
      BY <1>5, <2>2 DEF SendAck, Traffic, netVars
    <2> QED BY <1>5, <2>1, <2>2 DEF SendAck
  <1>6. CASE SendData
    <2>1. PICK id \in 2 .. IdLimit + 1 :
             \/ UNCHANGED <<packet, wire, netVars>>
             \/ /\ ~(id >= IdLimit)
                /\ packet' = [kind |-> "data", conn |-> conn, id |-> IF mode = "paris" THEN id ELSE 0]
                /\ Send(IF ttl = 0 THEN "expiring data" ELSE "data", conn)
      BY <1>6 DEF SendData
    <2>2. CASE UNCHANGED <<packet, wire, netVars>>
      BY <2>2 DEF Traffic, netVars
    <2>3. CASE /\ ~(id >= IdLimit)
               /\ packet' = [kind |-> "data", conn |-> conn, id |-> IF mode = "paris" THEN id ELSE 0]
               /\ Send(IF ttl = 0 THEN "expiring data" ELSE "data", conn)
      <3>1. packet'.id = IF mode = "paris" THEN id ELSE 0
        BY <2>3
      <3>2. id \in 0 .. IdLimit - 1
        <4>1. id \in 2 .. IdLimit + 1 /\ ~(id >= IdLimit)
          BY <2>3
        <4> QED BY <1>0, <4>1
      <3>3. packet'.id \in 0 .. IdLimit - 1
        BY <1>0, <3>1, <3>2
      <3>4. wire' \subseteq ToServer /\ net' \subseteq Messages
        BY <2>3, SendTraffic DEF Endpoints, ToServer
      <3> QED BY <3>3, <3>4 DEF Traffic
    <2> QED BY <2>1, <2>2, <2>3
  <1>7. CASE Retransmit
    <2>1. CASE UNCHANGED <<packet, wire, netVars>>
      BY <2>1 DEF Traffic, netVars
    <2>2. CASE /\ ~(packet.id + 1 >= IdLimit) /\ packet' = [packet EXCEPT !.id = @ + 1]
               /\ Send(packet.kind, packet.conn)
      <3>1. packet'.id = packet.id + 1
        BY <2>2 DEF Endpoints
      <3>2. packet'.id \in 0 .. IdLimit - 1
        BY <1>0, <2>2, <3>1 DEF Traffic
      <3>3. packet.kind \in ToServer /\ packet.conn \in Conns
        BY DEF Endpoints, ToServer
      <3> QED BY <2>2, <3>2, <3>3, SendTraffic DEF Traffic
    <2> QED BY <1>7, <2>1, <2>2 DEF Retransmit
  <1>8. ASSUME NEW m \in net, HearSyn(m) \/ HearData(m) \/ Stray(m)
        PROVE  Traffic'
    <2>1. net' \subseteq Messages /\ wire' = wire
      BY <1>8, DeliverTraffic DEF HearSyn, HearData, Stray, tracerVars
    <2>2. CASE UNCHANGED packet
      BY <2>1, <2>2 DEF Traffic
    <2>3. CASE Unanswered(1)
      <3>1. 1 \in Conns
        BY ProbeAssumption DEF Conns
      <3> QED BY <2>1, <2>3, <3>1, DrawnId DEF Traffic
    <2> QED BY <1>8, <2>2, <2>3 DEF HearSyn, HearData, Stray, tracerVars
  <1>9. ASSUME NEW m \in net, PathKeeps(m) \/ ServerTakes(m)
        PROVE  Traffic'
    <2>1. UNCHANGED <<packet, wire>> /\ \E kinds \in SUBSET ToHost : Replace(m, kinds)
      BY <1>9 DEF PathKeeps, ServerTakes, Server, tracerVars, ToHost
    <2> QED BY <2>1, ReplaceTraffic DEF Traffic
  <1>10. CASE Firewall \/ UNCHANGED vars
    BY <1>10 DEF Firewall, vars, Traffic, netVars, tracerVars
  <1> QED
    BY <1>1, <1>2, <1>3, <1>4, <1>5, <1>6, <1>7, <1>8, <1>9, <1>10 DEF Next, Tracer, Network

LEMMA TypesInit == Init => Loops /\ Attempts /\ Traffic
  <1> SUFFICES ASSUME Init
      PROVE  Loops /\ Attempts /\ Traffic
    OBVIOUS
  <1>1. 0 \in 0..Repeats /\ 0 \in 0..MaxTtl /\ 0 \in 0..MaxSyn /\ 0 \in 0..1 /\ 0 \in 0 .. IdLimit - 1
    BY ProbeTypes
  <1>2. PICK id \in IF mode = "rexmit" THEN 0 .. IdLimit - 1 ELSE {0} :
           packet = [kind |-> "data", conn |-> 0, id |-> id]
    BY DEF Init
  <1>3. id \in 0 .. IdLimit - 1
    BY <1>1
  <1>4. packet.id \in 0 .. IdLimit - 1
    BY <1>2, <1>3
  <1> QED BY <1>1, <1>4 DEF Init, Loops, Attempts, Traffic

TypeInv ==
    /\ FirewallTypeOK /\ ChainInv
    /\ Endpoints /\ ConnectionInv /\ RstInv
    /\ Loops /\ Attempts /\ Traffic

LEMMA TypeInvInit == Init => TypeInv
  BY ChainInit, EndpointsInit, RstInit, TypesInit DEF TypeInv

LEMMA TypeInvStep == TypeInv /\ [Next]_vars => TypeInv'
  <1> SUFFICES ASSUME TypeInv, [Next]_vars PROVE TypeInv'
    OBVIOUS
  <1>1. (FirewallTypeOK /\ ChainInv)'
    BY ChainStep DEF TypeInv
  <1>2. (Endpoints /\ ConnectionInv)'
    BY ConnectionStep DEF TypeInv
  <1>3. RstInv'
    BY RstStep DEF TypeInv
  <1>4. Loops' /\ Attempts'
    BY LoopsStep, AttemptsStep DEF TypeInv
  <1>5. Traffic'
    BY <1>2, TrafficStep DEF TypeInv
  <1> QED BY <1>1, <1>2, <1>3, <1>4, <1>5 DEF TypeInv

\* The tracer, its connections and the chain keep their types.
THEOREM HandshakeTypes == Spec => []TypeOK
  <1>1. TypeInv => TypeOK
    <2> SUFFICES ASSUME TypeInv PROVE TypeOK
      OBVIOUS
    <2>1. packet \in [kind : {"syn", "data"}, conn : Conns, id : 0 .. IdLimit - 1]
      <3>1. packet \in [kind : {"syn", "data"}, conn : Conns, id : Int]
            /\ packet.id \in 0 .. IdLimit - 1
        BY DEF TypeInv, Endpoints, Traffic
      <3> QED BY <3>1
    <2>2. heard \in Nat /\ answered \in Seq(SynAnswers \cup DataAnswers)
      <3>1. heard = rsts + CountRst(answered) /\ rsts \in Nat /\ answered \in Seq(Kinds)
        BY DEF TypeInv, RstInv
      <3>2. CountRst(answered) \in Nat
        BY <3>1, CountIsNat
      <3>3. heard \in Nat
        BY <3>1, <3>2
      <3> QED BY <3>1, <3>3 DEF Kinds
    <2> QED BY <2>1, <2>2 DEF TypeInv, Endpoints, Loops, Attempts, Traffic, Messages, TypeOK
  <1> QED BY <1>1, TypeInvInit, TypeInvStep, PTL DEF Spec

-----------------------------------------------------------------------------
(* The operator's rule *)

\* The tracer starts when the with block has been left; nothing is on the wire
\* before.
Begun == pc # "repeat" \/ net # {} => block = "left"

Shielded == operator > 0 /\ mode # "rexmit"

\* A probe of a shielded trace has a connection of its own, the host resets
\* none of them, and the server closes none.
ShieldInv ==
    Shielded =>
        /\ \A m \in net : m.kind \notin {"rst", "reset"}
        /\ \A m \in net : m.kind \in {"ack", "data"} => m.conn # 0
        /\ \A c \in Conns : server[c] # "closed"
        /\ sending = "replay" \/ pc \in {"failed", "waiting", "answered"}
              => packet.kind = "syn" \/ packet.conn # 0
        /\ pc \in {"syn sent", "ack", "data"} => conn # 0
        /\ pc = "failed" => packet.kind = "syn"
        /\ \A i \in DOMAIN answered : answered[i] # "reset"
        /\ \A i \in DOMAIN result.from : result.from[i] # "reset"

LEMMA BegunStep ==
    ASSUME Begun, [Next]_vars
    PROVE  Begun'
  <1>1. CASE Firewall
    <2>1. UNCHANGED <<pc, net>> /\ (block = "left" => block' = "left")
      BY <1>1 DEF Firewall, tracerVars, netVars, Block, Others, SkipRule, AddRule, VerifyAdd,
                  TakeBack, RemoveRule, VerifyRemoved, OtherAdds, OtherRemoves
    <2> QED BY <2>1 DEF Begun
  <1>2. CASE Tracer \/ Network
    <2>1. UNCHANGED block
      BY <1>2, ProbesLeaveChain DEF fwVars
    <2>2. CASE block = "left"
      BY <2>1, <2>2 DEF Begun
    <2>3. CASE block # "left"
      <3>1. pc = "repeat" /\ net = {}
        BY <2>3 DEF Begun
      <3> QED BY <1>2, <2>3, <3>1 DEF Tracer, Network, BeginRepeat, SendPacket, SendSyn, SynTimeout,
                 HandshakeFailed, SendAck, SendData, Retransmit, DataTimeout, NotePreflight, Parse
    <2> QED BY <2>2, <2>3
  <1>3. CASE UNCHANGED vars
    BY <1>3 DEF vars, fwVars, tracerVars, netVars, Begun
  <1> QED BY <1>1, <1>2, <1>3 DEF Next

\* As long as the trace runs, the operator's rule is in the chain.
LEMMA RuleInForce ==
    ASSUME TypeInv, Begun, operator > 0, net # {}
    PROVE  rules # 0
  <1>1. block = "left" /\ warned = FALSE /\ OwnRules = 0
    BY DEF TypeInv, ChainInv, FirewallTypeOK, Begun, OwnRules
  <1>2. rules = operator + OthersRules + OwnRules /\ operator \in Nat /\ OthersRules \in Nat
    BY <1>1, FirewallTypes DEF TypeInv, ChainInv, Balanced
  <1> QED BY <1>1, <1>2

LEMMA ShieldedDelivery ==
    ASSUME TypeInv, Begun, Shielded, NEW m \in net, Deliver(m)
    PROVE  net' \subseteq net /\ UNCHANGED server
  BY RuleInForce DEF Deliver, KernelResets, Shielded

LEMMA ShieldKept ==
    ASSUME ShieldInv, UNCHANGED <<operator, mode, sending, pc, packet, conn, answered, result>>,
           Shielded =>
             /\ \A m \in net' : m.kind \notin {"rst", "reset"}
             /\ \A m \in net' : m.kind \in {"ack", "data"} => m.conn # 0
             /\ \A c \in Conns : server'[c] # "closed"
    PROVE  ShieldInv'
  BY DEF ShieldInv, Shielded

LEMMA ShieldedServer ==
    ASSUME TypeInv, ShieldInv, Shielded, NEW m \in net, ServerTakes(m)
    PROVE  /\ \A n \in net' : n.kind \notin {"rst", "reset"}
           /\ \A n \in net' : n.kind \in {"ack", "data"} => n.conn # 0
           /\ \A c \in Conns : server'[c] # "closed"
  <1>1. /\ m.conn \in Conns /\ server[m.conn] # "closed" /\ m.kind \notin {"rst", "reset"}
        /\ m.kind \in {"ack", "data"} => m.conn # 0 /\ server[m.conn] # "none"
        /\ DOMAIN server = Conns
    BY DEF TypeInv, Endpoints, ConnectionInv, Promising, Known, ShieldInv
  <1>2. PICK next \in {"half", "open"}, kinds \in SUBSET {"synack", "reply", "injected"} :
           server' = [server EXCEPT ![m.conn] = next] /\ Replace(m, kinds)
    <2>1. CASE m.kind = "syn" /\ Server(m, {"none", "half", "closed"}, "half", {"synack"})
      BY <2>1 DEF Server
    <2>2. CASE m.kind = "ack" /\ Server(m, {"half", "open"}, "open", {})
      BY <2>2 DEF Server
    <2>3. ASSUME m.kind = "data",
                 NEW injected \in {{}, {"injected"}},
                 Server(m, {"half", "open"}, "open", {"reply"} \cup injected)
          PROVE  \E next \in {"half", "open"}, kinds \in SUBSET {"synack", "reply", "injected"} :
                    server' = [server EXCEPT ![m.conn] = next] /\ Replace(m, kinds)
      BY <2>3 DEF Server
    <2>4. ~(m.kind \in {"ack", "data"} /\ Server(m, {"none", "closed"}, server[m.conn], {"reset"}))
      BY <1>1 DEF Server
    <2> QED BY <1>1, <2>1, <2>2, <2>3, <2>4 DEF ServerTakes
  <1>3. \A n \in net' : n \in net \/ n.kind \in {"synack", "reply", "injected"}
    BY <1>2, Replaced
  <1>4. \A c \in Conns : server'[c] # "closed"
    BY <1>1, <1>2 DEF ShieldInv
  <1> QED BY <1>3, <1>4 DEF ShieldInv

LEMMA ShieldStep ==
    ASSUME TypeInv, Places, Begun, ShieldInv, [Next]_vars
    PROVE  ShieldInv'
  <1>0. UNCHANGED <<operator, mode>> \/ Tracer \/ Network
    BY DEF Next, vars, fwVars, loopVars, Firewall, Block, Others, SkipRule, AddRule, VerifyAdd,
           TakeBack, RemoveRule, VerifyRemoved, Goto, OtherAdds, OtherRemoves
  <1>1. UNCHANGED <<operator, mode>>
    <2>1. Tracer \/ Network => UNCHANGED operator
      BY ProbesLeaveChain DEF fwVars
    <2>2. Tracer \/ Network => UNCHANGED mode
      BY DEF Tracer, BeginRepeat, SendPacket, SendSyn, SynTimeout, HandshakeFailed, SendAck, SendData,
             Retransmit, DataTimeout, NotePreflight, FirstReplay, Parse, Network, HearSyn, HearData,
             Stray, PathKeeps, ServerTakes, Server, loopVars
    <2> QED BY <1>0, <2>1, <2>2
  <1> SUFFICES ASSUME Shielded
      PROVE  ShieldInv'
    BY <1>1 DEF ShieldInv, Shielded
  <1>2. /\ \A m \in net : m.kind \notin {"rst", "reset"}
        /\ \A m \in net : m.kind \in {"ack", "data"} => m.conn # 0
        /\ \A c \in Conns : server[c] # "closed"
        /\ sending = "replay" \/ pc \in {"failed", "waiting", "answered"}
              => packet.kind = "syn" \/ packet.conn # 0
        /\ pc \in {"syn sent", "ack", "data"} => conn # 0
        /\ pc = "failed" => packet.kind = "syn"
        /\ \A i \in DOMAIN answered : answered[i] # "reset"
        /\ \A i \in DOMAIN result.from : result.from[i] # "reset"
    BY DEF ShieldInv
  <1>3. mode # "rexmit"
    BY DEF Shielded
  <1>4. CASE BeginRepeat
    BY <1>2, <1>3, <1>4 DEF BeginRepeat, ShieldInv, netVars
  <1>5. CASE SendPacket
    <2>1. CASE sending = "replay"
      BY <1>2, <1>5, <2>1 DEF SendPacket, ShieldInv, netVars, loopVars
    <2>2. CASE sending # "replay"
      BY <1>2, <1>5, <2>2 DEF SendPacket, NewHandshake, ShieldInv, loopVars
    <2> QED BY <2>1, <2>2
  <1>6. CASE SendSyn
    <2>1. conn' # 0
      <3>1. conn' = conn + 1 /\ conn \in Conns
        BY <1>6 DEF SendSyn, TypeInv, Endpoints
      <3> QED BY <3>1, ProbeTypes DEF Conns
    <2>2. \A m \in net' : m \in net \/ m.kind = "syn"
      BY <1>6, Sent DEF SendSyn
    <2>3. UNCHANGED <<server, packet, sending, answered, result>> /\ pc' = "syn sent"
          /\ sending # "replay"
      BY <1>6 DEF SendSyn, Send, Places, InHandshake, loopVars
    <2> QED BY <1>2, <2>1, <2>2, <2>3 DEF ShieldInv
  <1>7. CASE SynTimeout
    <2>1. packet'.kind = "syn"
      BY <1>7, UnansweredIsSyn DEF SynTimeout, TypeInv, Endpoints
    <2>2. UNCHANGED <<netVars, answered, result>> /\ pc' \in {"syn", "failed"}
      BY <1>7 DEF SynTimeout
    <2> QED BY <1>2, <2>1, <2>2 DEF ShieldInv, netVars
  <1>8. CASE HandshakeFailed \/ DataTimeout
    <2>1. pc \in {"failed", "waiting"} /\ pc' = "answered"
          /\ UNCHANGED <<netVars, sending, packet, answered, result>>
      BY <1>8 DEF HandshakeFailed, DataTimeout, loopVars
    <2> QED BY <1>2, <2>1 DEF ShieldInv, netVars
  <1>9. CASE SendAck
    <2>1. \A m \in net' : m \in net \/ (m.kind = "ack" /\ m.conn = conn)
      BY <1>9 DEF SendAck, Send, Msg, netVars
    <2>2. /\ UNCHANGED <<server, packet, conn, sending, answered, result>>
          /\ pc = "ack" /\ pc' \in {"data", "error"}
      BY <1>9 DEF SendAck, Send, Raise, netVars, loopVars
    <2>3. sending # "replay"
      BY <2>2 DEF Places, InHandshake
    <2> QED BY <1>2, <2>1, <2>2, <2>3 DEF ShieldInv
  <1>10. CASE SendData
    <2>1. \A m \in net' : m \in net \/ (m.kind \in {"data", "expiring data"} /\ m.conn = conn)
      BY <1>10, Sent DEF SendData, netVars
    <2>2. /\ UNCHANGED <<server, conn, sending, answered, result>>
          /\ pc = "data" /\ pc' \in {"waiting", "error"}
      BY <1>10 DEF SendData, Send, Raise, netVars, loopVars
    <2>3. sending # "replay"
      BY <2>2 DEF Places, InHandshake
    <2>4. pc' = "waiting" => packet'.conn = conn
      <3>1. PICK id \in 2 .. IdLimit + 1 :
               \/ pc' = "error"
               \/ packet' = [kind |-> "data", conn |-> conn, id |-> IF mode = "paris" THEN id ELSE 0]
        BY <1>10 DEF SendData, Raise
      <3>2. ASSUME NEW i, packet' = [kind |-> "data", conn |-> conn, id |-> i]
            PROVE  packet'.conn = conn
        BY <3>2
      <3> QED BY <3>1, <3>2
    <2> QED BY <1>2, <2>1, <2>2, <2>3, <2>4 DEF ShieldInv
  <1>11. CASE Retransmit
    <2>1. packet'.kind = packet.kind /\ packet'.conn = packet.conn
      BY <1>11 DEF Retransmit, TypeInv, Endpoints
    <2>2. sending = "replay" /\ packet.kind \in {"syn", "data"}
      BY <1>11 DEF Retransmit, Places, TypeInv, Endpoints
    <2>3. \A m \in net' : m \in net \/ (m.kind = packet.kind /\ m.conn = packet.conn)
      BY <1>11 DEF Retransmit, Send, Msg, netVars
    <2>4. /\ UNCHANGED <<server, sending, answered, result>> /\ pc' \in {"waiting", "error"}
      BY <1>11 DEF Retransmit, Send, Raise, netVars, loopVars
    <2> QED BY <1>2, <2>1, <2>2, <2>3, <2>4 DEF ShieldInv
  <1>12. CASE NotePreflight
    <2>1. pc = "answered" /\ pc' = "send"
          /\ UNCHANGED <<netVars, packet, answered, result>>
      BY <1>12 DEF NotePreflight, FirstReplay
    <2> QED BY <1>2, <2>1 DEF ShieldInv, netVars
  <1>13. CASE Parse
    <2>1. /\ pc = "answered" /\ pc' \in {"send", "repeat"} /\ result'.from = answered
          /\ UNCHANGED <<netVars, packet, sending, answered>>
      BY <1>13 DEF Parse
    <2> QED BY <1>2, <2>1 DEF ShieldInv, netVars
  <1>14. ASSUME NEW m \in net, HearSyn(m)
         PROVE  ShieldInv'
    <2>1. net' \subseteq net /\ UNCHANGED server
      BY <1>14, ShieldedDelivery DEF HearSyn
    <2>2. /\ UNCHANGED <<conn, sending, answered, result>> /\ pc = "syn sent"
          /\ pc' \in {"ack", "failed"}
      BY <1>14 DEF HearSyn, loopVars
    <2>3. pc' = "failed" => packet'.kind = "syn"
      <3>1. 1 \in Conns
        BY ProbeTypes DEF Conns
      <3>2. pc' = "failed" => Unanswered(1)
        BY <1>14 DEF HearSyn
      <3> QED BY <3>1, <3>2, UnansweredIsSyn DEF TypeInv
    <2>4. sending # "replay"
      BY <2>2 DEF Places, InHandshake
    <2> QED BY <1>2, <2>1, <2>2, <2>3, <2>4 DEF ShieldInv
  <1>15. ASSUME NEW m \in net, HearData(m)
         PROVE  ShieldInv'
    <2>1. net' \subseteq net /\ UNCHANGED server
      BY <1>15, ShieldedDelivery DEF HearData
    <2>2. /\ UNCHANGED <<conn, packet, sending, result>> /\ pc = "waiting"
          /\ pc' \in {"answered", "waiting"} /\ answered' = Append(answered, m.kind)
      BY <1>15 DEF HearData, loopVars
    <2>3. \A i \in DOMAIN answered' : answered'[i] # "reset"
      <3>1. answered \in Seq(Kinds) /\ m.kind # "reset"
        BY <1>2 DEF TypeInv, RstInv
      <3> QED BY <1>2, <2>2, <3>1
    <2> QED BY <1>2, <2>1, <2>2, <2>3 DEF ShieldInv
  <1>16. ASSUME NEW m \in net, Stray(m)
         PROVE  ShieldInv'
    <2>1. net' \subseteq net /\ UNCHANGED server
      BY <1>16, ShieldedDelivery DEF Stray
    <2>2. UNCHANGED <<sending, pc, packet, conn, answered, result>>
      BY <1>16 DEF Stray, loopVars, tracerVars
    <2> QED BY <1>1, <1>2, <2>1, <2>2, ShieldKept
  <1>17. ASSUME NEW m \in net, PathKeeps(m)
         PROVE  ShieldInv'
    <2>1. UNCHANGED <<server, sending, pc, packet, conn, answered, result>>
      BY <1>17 DEF PathKeeps, loopVars, tracerVars
    <2>2. \E kinds \in SUBSET {"icmp", "injected"} : Replace(m, kinds)
      BY <1>17 DEF PathKeeps
    <2>3. \A n \in net' : n \in net \/ n.kind \in {"icmp", "injected"}
      BY <2>2, Replaced
    <2> QED BY <1>1, <1>2, <2>1, <2>3, ShieldKept
  <1>18. ASSUME NEW m \in net, ServerTakes(m)
         PROVE  ShieldInv'
    <2>1. UNCHANGED <<sending, pc, packet, conn, answered, result>>
      BY <1>18 DEF ServerTakes, Server, loopVars, tracerVars
    <2> QED BY <1>1, <1>18, <2>1, ShieldedServer, ShieldKept
  <1>19. CASE Firewall \/ UNCHANGED vars
    <2>1. UNCHANGED <<netVars, sending, pc, packet, conn, answered, result>>
      BY <1>19 DEF Firewall, vars, loopVars, tracerVars
    <2> QED BY <1>1, <1>2, <2>1, ShieldKept DEF netVars
  <1> QED
    BY <1>4, <1>5, <1>6, <1>7, <1>8, <1>9, <1>10, <1>11, <1>12, <1>13, <1>14, <1>15, <1>16, <1>17,
       <1>18, <1>19 DEF Next, Tracer, Network

LEMMA ShieldInit == Init => Begun /\ ShieldInv
  <1> SUFFICES ASSUME Init PROVE Begun /\ ShieldInv
    OBVIOUS
  <1>1. pc = "repeat" /\ net = {} /\ sending = "none" /\ answered = <<>>
        /\ server = [c \in Conns |-> "none"] /\ result.from = <<>>
    BY DEF Init, NoResult
  <1> QED BY <1>1 DEF Begun, ShieldInv

\* Where the operator keeps the rule in the chain, no reset that the host itself
\* provoked is ever counted, whatever tracevis and others do with their copies.
THEOREM OperatorShielded == Spec => []OperatorsRuleProtects
  <1> DEFINE Inv == TypeInv /\ Places /\ Begun /\ ShieldInv
  <1>1. Inv => OperatorsRuleProtects
    BY DEF ShieldInv, Shielded, OperatorsRuleProtects
  <1>2. VerdictInv => Places
    BY DEF VerdictInv
  <1> QED
    BY <1>1, <1>2, TypeInvInit, VerdictInit, ShieldInit, TypeInvStep, VerdictStep, BegunStep,
       ShieldStep, PTL
    DEF Spec
=============================================================================
