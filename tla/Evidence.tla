------------------------------- MODULE Evidence -------------------------------
(***************************************************************************)
(* What one saved reply says about the box that sent it: utils/forgery.py    *)
(* and the detectors of utils/vis.py.  All of it is computed from a packet   *)
(* and the replies it drew; nothing here has state.                          *)
(*                                                                          *)
(* An IPv4 header is its TTL, its IP ID and `rest`, the sum of all its words *)
(* but for the TTL byte and the checksum: 16 bits, never 0.  The code sees   *)
(* no `rest`, only the checksum a router computed over it.  TCP options are  *)
(* left out.                                                                 *)
(***************************************************************************)
EXTENDS Integers, Sequences, SequencesExt

WordMax == 65535

Headers == [ttl : 0..255, id : 0..WordMax, rest : 1..WordMax]
\* A received packet, with the header it quotes if it is an ICMP error.
Packets == [layer : {"ICMP", "TCP", "UDP"}, flags : STRING, raw : BOOLEAN,
            id : 0..WordMax, quote : Headers]
\* One result of a row, with the packet it is the result of.
Results == [late : BOOLEAN, from : STRING, ttl : 0..255, saved : BOOLEAN,
            sentId : 0..WordMax, sentRest : 1..WordMax, received : Seq(Packets)]

Fold(n) == IF n > WordMax THEN (n % (WordMax + 1)) + (n \div (WordMax + 1)) ELSE n
Complement(w) == WordMax - w

\* The header checksum, as the sender and every router on the way compute it.
Checksum(header) == Complement(Fold(header.ttl * 256 + header.rest))

\* The packet a hop of the capture was asked with.
Sent(hop, r) == [ttl |-> hop, id |-> r.sentId, rest |-> r.sentRest]

-----------------------------------------------------------------------------
(* NAT, middlebox, PEP *)

\* Mutant: no end-around carry.
CalculateChksumNoCarry(quote, sentTtl) ==
    IF sentTtl > 1 /\ sentTtl > quote.ttl
    THEN Complement((Complement(Checksum(quote)) + (sentTtl - quote.ttl) * 256) % (WordMax + 1))
    ELSE Checksum(quote)

\* The checksum the quoted header had with the TTL it was sent with.
CalculateChksum(quote, sentTtl) ==
    IF sentTtl > 1 /\ sentTtl > quote.ttl
    THEN Complement(Fold(Fold(Complement(Checksum(quote)) + (sentTtl - quote.ttl) * 256)))
    ELSE Checksum(quote)

SameId(sent, p) == p.quote.id = sent.id
HeaderRewritten(sent, p) ==
    SameId(sent, p) /\ CalculateChksum(p.quote, sent.ttl) # Checksum(sent)
Reflected(sent, p) == p.id = sent.id

Found(nat, middlebox, pep) == [nat |-> nat, middlebox |-> middlebox, pep |-> pep]
Closing == {"R", "RA", "F", "FA"}

\* detect_nat_pep_middlebox
Detect(sent, received) ==
    LET one == received[1]
        two == received[2]
        several == Len(received) > 1
    IN  CASE one.layer = "ICMP" ->
                Found(HeaderRewritten(sent, one), FALSE, ~SameId(sent, one))
          [] one.layer = "UDP" -> Found(FALSE, Reflected(sent, one), FALSE)
          [] one.layer = "TCP" /\ several ->
                IF one.flags \in {"A"} \cup Closing /\ two.layer = "ICMP"
                THEN Found(HeaderRewritten(sent, two), one.flags # "A", TRUE)
                ELSE Found(FALSE, Reflected(sent, IF one.flags \in Closing THEN one ELSE two), FALSE)
          [] one.layer = "TCP" /\ ~several ->
                IF one.flags # "A" \/ one.raw
                THEN Found(FALSE, Reflected(sent, one), FALSE)
                ELSE Found(FALSE, FALSE, TRUE)

\* parse_ttl: what the TTL of the reply says of its sender.
DeviceOfTtl(ttl) ==
    CASE ttl <= 20 -> "middlebox" [] ttl > 20 /\ ttl <= 64 -> "linux"
      [] ttl > 64 /\ ttl <= 128 -> "windows" [] ttl > 128 -> "router"

-----------------------------------------------------------------------------
(* The IP IDs of one responder *)

IpIdModulus == 65536
SequentialMaxDelta == 2048

\* Mutant: every reply to the hop counts, whoever sent it.
HopPacketsOfAll(row, from) == FlattenSeq([i \in DOMAIN row |-> row[i].received])

\* collect_hop_ipid_packets
HopPackets(row, from) ==
    FlattenSeq([i \in DOMAIN row |-> IF row[i].from = from THEN row[i].received ELSE <<>>])

\* _classify_ipid_pattern
IpIdPattern(packets) ==
    LET delta(i) == (packets[i + 1].id - packets[i].id) % IpIdModulus
    IN  IF Len(packets) < 2 THEN "unknown"
        ELSE IF \A p \in ToSet(packets) : p.id = packets[1].id THEN "constant"
        ELSE IF \A i \in 1..(Len(packets) - 1) : delta(i) \in 1..SequentialMaxDelta
             THEN "sequential"
        ELSE "random"

-----------------------------------------------------------------------------
(* Replies in the name of the destination *)

MinPlausibleInitialTtl == 32

IsIpIdReflected(sentId, receivedId) == sentId # 0 /\ receivedId # 0 /\ sentId = receivedId
IsReplyTtlImplausible(ttl, distance) == ttl > 0 /\ ttl + distance < MinPlausibleInitialTtl

\* classify_reply
IsForged(r, hop) ==
    IsIpIdReflected(r.sentId, r.received[1].id) \/ IsReplyTtlImplausible(r.ttl, hop)

\* Mutant: the first answer of the destination speaks for the others.
FirstDestinationReplyForged(rows, dst) ==
    \E h \in DOMAIN rows : \E i \in DOMAIN rows[h] :
        /\ rows[h][i].from = dst /\ rows[h][i].received # <<>> /\ IsForged(rows[h][i], h)
        /\ \A g \in DOMAIN rows : \A j \in DOMAIN rows[g] :
              g < h \/ (g = h /\ j < i) => rows[g][j].from # dst

\* find_forged_destination_reply
ForgedDestinationReply(rows, dst) ==
    \E h \in DOMAIN rows : \E i \in DOMAIN rows[h] :
        rows[h][i].from = dst /\ rows[h][i].received # <<>> /\ IsForged(rows[h][i], h)
=============================================================================
