-------------------------------- MODULE MCVis --------------------------------
(* Instances of Vis for TLC: captures that each bring one difficulty.        *)
EXTENDS Vis

\* A header sum that carries when the TTL byte is added back, and one that
\* does not.
High == 65200
Low == 4000

Quote(id, rest) == [ttl |-> 1, id |-> id, rest |-> rest]
Exceeded(id, quote) == [layer |-> "ICMP", flags |-> "", raw |-> FALSE, id |-> id, quote |-> quote]
Tcp(flags, raw, id) ==
    [layer |-> "TCP", flags |-> flags, raw |-> raw, id |-> id, quote |-> Quote(0, Low)]
Udp(id) == [Tcp("", FALSE, id) EXCEPT !.layer = "UDP"]

Result(from, ttl, rest, received) ==
    [late |-> FALSE, from |-> from, ttl |-> ttl, saved |-> received # <<>>,
     sentId |-> 7, sentRest |-> rest, received |-> received]
Star == Result("***", 0, Low, <<>>)
Router(a, rest, quoted) == Result(a, 250, rest, <<Exceeded(9, Quote(7, quoted))>>)
Server(ttl, id) == Result("dst", ttl, Low, <<Udp(id)>>)
Bare(a) == Result(a, 60, Low, <<>>)

Head0 == [src |-> "s", vp |-> "", dst |-> "d", sni |-> FALSE]

\* Who rewrites headers: plain routers, a NAT, a CGNAT, a PEP, a middlebox.
Rewriting ==
    [ heads |-> <<Head0>>, hops |-> {3}, widths |-> {1}, reverse |-> FALSE, written |-> TRUE,
      results |->
        { Star, Router("a", High, High), Router("a", High, Low), Router("b", Low, High),
          Router("c", Low, High), [Router("b", Low, Low) EXCEPT !.ttl = 12],
          Result("a", 60, Low, <<Tcp("A", FALSE, 9), Exceeded(9, Quote(7, High))>>),
          Result("b", 60, Low, <<Tcp("R", FALSE, 9), Exceeded(9, Quote(7, High))>>),
          Result("b", 120, Low, <<Tcp("RA", FALSE, 9), Tcp("RA", FALSE, 7)>>),
          Result("b", 60, Low, <<Tcp("SA", FALSE, 9), Tcp("RA", FALSE, 7)>>),
          Result("dst", 60, Low, <<Tcp("A", FALSE, 9)>>),
          Result("dst", 60, Low, <<Tcp("A", TRUE, 9)>>),
          Router("a", Low, Low), [Router("a", Low, Low) EXCEPT !.received[1].quote.id = 8] } ]

\* Routes that cross, part and loop behind a CGNAT; the second over port 443.
Crossing ==
    [ heads |-> <<Head0, [Head0 EXCEPT !.sni = TRUE, !.dst = "e"]>>,
      hops |-> {2, 3}, widths |-> {1}, reverse |-> FALSE, written |-> TRUE,
      results |-> {Star, Router("a", Low, Low), Router("c", Low, Low), Router("e", Low, Low),
                   Server(55, 9)} ]

\* A destination answers, or something in its name, near and far, until the trace
\* is cut short.
Impersonated ==
    [ heads |-> <<Head0>>, hops |-> {2}, widths |-> {1, 2}, reverse |-> FALSE, written |-> TRUE,
      results |-> {Star, Router("a", Low, Low), Server(55, 9), Server(55, 7), Server(22, 9),
                   Server(8, 9), [Server(55, 0) EXCEPT !.sentId = 0],
                   [Server(8, 9) EXCEPT !.received = <<>>]} ]

\* The same, in a capture whose reply_forged is missing or of another writer.
Claimed ==
    [Impersonated EXCEPT !.written = FALSE, !.widths = {1},
                         !.results = {Star, Router("a", Low, Low), Server(55, 9), Server(8, 9)}]

\* Two responders behind a load balancer, their counters about to wrap.
Counting ==
    [ heads |-> <<Head0>>, hops |-> {1}, widths |-> {3}, reverse |-> FALSE, written |-> TRUE,
      results |-> {Star} \cup {Result(a, 250, Low, <<Exceeded(id, Quote(7, Low))>>) :
                               a \in {"a", "b"}, id \in {65530, 4, 2052, 30000}} ]

\* Answers that RIPE Atlas got after the next probe had left, in whatever order,
\* in rows of whatever width.
Late ==
    [ heads |-> <<[Head0 EXCEPT !.vp = "p1"]>>, hops |-> {1, 2}, widths |-> 0..3,
      reverse |-> FALSE, written |-> TRUE,
      results |-> {Star, Bare("a"), Bare("dst"), [Bare("b") EXCEPT !.late = TRUE],
                   [Star EXCEPT !.late = TRUE]} ]

\* The same over three hops.
LateAgain ==
    [Late EXCEPT !.hops = {3}, !.widths = {1, 2, 3},
                 !.results = {Bare("a"), Bare("dst"), [Bare("b") EXCEPT !.late = TRUE]}]

\* Two vantage points with the same private address, two destinations.
Vantage ==
    [ heads |-> << [Head0 EXCEPT !.vp = "p1"], [Head0 EXCEPT !.vp = "p2"],
                   [Head0 EXCEPT !.vp = "p1", !.dst = "e"] >>,
      hops |-> {1, 2}, widths |-> {1}, reverse |-> TRUE, written |-> TRUE,
      results |-> {Star, Bare("a"), Bare("b"), Bare("dst")} ]

AllCaptures ==
    {Rewriting, Crossing, Impersonated, Claimed, Counting, Late, LateAgain, Vantage}

\* The routers of these captures are as NatIsMetOnce takes them to be.
ASSUME QuotesAssumption == AsRoutersQuote
=============================================================================
