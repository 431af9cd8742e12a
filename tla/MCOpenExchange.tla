--------------------------- MODULE MCOpenExchange ---------------------------
(* Module OpenExchange for TLC: pairs of configurations. *)
EXTENDS OpenExchange

V4 == <<1, 1>>
V6 == <<2, 1>>
Ls == <<16388, 71>>

Base(asn, id) ==
    [asn |-> asn, id |-> id, hold |-> 90, expected |-> None, families |-> <<V4, V6>>, gr |-> TRUE, restart_time |-> 120,
     llgr |-> <<>>, stale_time |-> 0, send |-> FALSE, receive |-> FALSE]
Small == Base(100, 1)
Big == Base(70000, 2)
Pair(c, d) == [cfg |-> <<c, d>>, old |-> FALSE, max_events |-> 1]
WithOld(c, d) == [cfg |-> <<c, d>>, old |-> TRUE, max_events |-> 2]

\* Families, ADD-PATH in all directions, restart times at their limits.
FamilyPairs ==
    {Pair([Small EXCEPT !.families = f, !.send = send, !.receive = ~send],
          [Base(200, 2) EXCEPT !.families = g, !.receive = TRUE, !.send = ~send]) :
        f \in {<<>>, <<V4, V6>>}, g \in {<<V4>>, <<V6>>, <<V6, Ls>>}, send \in BOOLEAN}
RestartPairs ==
    {Pair([Small EXCEPT !.gr = gr, !.restart_time = time, !.llgr = <<V4>>, !.stale_time = 16777215], [Big EXCEPT !.gr = ~gr]) :
        gr \in BOOLEAN, time \in {0, 4095, 5000}}
\* AS numbers, identifiers and hold times; an AS number equal to AS_TRANS.
IdentityPairs ==
    {Pair([Base(a, i) EXCEPT !.hold = hold], [Base(b, 2) EXCEPT !.expected = e]) :
        a \in {100, 23456, 70000}, i \in {1, 2}, hold \in {0, 2, 30}, b \in {70000}, e \in {None, Some(100), Some(70000)}}
OldPairs == {WithOld(c, d) : c \in {Small, Base(70000, 1)}, d \in {Base(200, 2), Big}}

Busy == {[Pair([Small EXCEPT !.send = TRUE], [Big EXCEPT !.receive = TRUE]) EXCEPT !.max_events = 2]}

AllPairs == Busy \cup FamilyPairs \cup RestartPairs \cup IdentityPairs \cup OldPairs
Upgraded == {WithOld(Small, Base(200, 2))}
=============================================================================
