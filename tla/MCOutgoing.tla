---------------------------- MODULE MCOutgoing ----------------------------
(***************************************************************************)
(* Module Outgoing for TLC: sessions of every kind, each with the few      *)
(* Loc-RIBs that its rules tell apart.                                     *)
(***************************************************************************)
EXTENDS Outgoing

LocalAs == 65001
Large == 100000

Key(fam, net, octets, count) == [fam |-> fam, net |-> net, octets |-> octets, count |-> count]
A4 == Key("v4", "10/8", 2, 1)
B4 == Key("v4", "192.0.2/24", 4, 1)
A6 == Key("v6", "2001:db8::/32", 5, 1)
Ls == Key("ls", "node", 40, 1)
Vpn == Key("lsvpn", "node", 48, 1)
\* A block of routes that fills more than half of a message, and one too many for one.
Half(net) == Key("v4", net, 5, 450)
Many == Key("v4", "many", 5, 900)

V4(a) == [kind |-> "v4", addr |-> a]
V6(a) == [kind |-> "v6", addr |-> a]
Set(asns) == [type |-> "AS_SET", asns |-> asns]
Confed(asns) == [type |-> "AS_CONFED_SEQUENCE", asns |-> asns]
Long(n) == [i \in 1 .. n |-> 64512] \o <<>>

Plain(nh, as_path) ==
    [origin |-> "IGP", as_path |-> as_path, next_hop |-> nh, local_pref |-> None, med |-> None, atomic |-> FALSE,
     aggregator |-> None, communities |-> <<>>, ext |-> <<>>, large |-> <<>>, unknown |-> <<>>,
     originator_id |-> None, cluster_list |-> <<>>, ls_attr |-> None]
RawAttr(flags) == [type |-> "UNKNOWN", flags |-> flags, body |-> [octets |-> 300]]
\* Every optional attribute at once.
Rich(nh, as_path) ==
    [Plain(nh, as_path) EXCEPT !.local_pref = Some(200), !.med = Some(5), !.atomic = TRUE,
        !.aggregator = Some([asn |-> Large, id |-> "agg"]), !.communities = <<"65001:1">>,
        !.ext = <<[name |-> "rt", transitive |-> TRUE, rpki |-> FALSE], [name |-> "lb", transitive |-> FALSE, rpki |-> FALSE]>>,
        !.large = <<"65001:1:1">>, !.unknown = <<RawAttr({"opt", "trans"})>>]
Source(kind, peer) == [kind |-> kind, peer |-> peer, bgp_id |-> peer]
Path(id, kind, peer, attrs) == [id |-> Some(id), source |-> Source(kind, peer), rpki |-> "valid", attrs |-> attrs]

Session(peer_asn, families) ==
    [peer |-> "P", local_asn |-> LocalAs, peer_asn |-> peer_asn, next_hop |-> V4("192.0.2.1"), link_local |-> FALSE,
     rr_client |-> FALSE, rs_client |-> FALSE, cluster_id |-> "C", families |-> families, next_hop_self |-> FALSE,
     graceful_shutdown |-> FALSE, llgr |-> FALSE, send_rpki_community |-> FALSE,
     format |-> [four |-> TRUE, addpath |-> {}, ebgp |-> peer_asn # LocalAs]]
Everyone == {"none", "P", "X", "Y"}
Chain(c, policy) == [f \in c.families |-> policy]
AcceptAll == <<[of |-> Everyone, result |-> "accept"]>>
NotX == <<[of |-> {"X"}, result |-> "reject"], [of |-> Everyone, result |-> "accept"]>>
Setup(c, locs) == [ctx |-> c, locs |-> locs, policies |-> {Chain(c, AcceptAll), Chain(c, NotX)}, mrai |-> FALSE]
\* Loc-RIBs: for each key some alternatives.
Locs2(k, ks, l, ls) == {[x \in {k, l} |-> IF x = k THEN a ELSE b] : a \in ks, b \in ls}

FromX == <<Sequence(<<64512, Large>>)>>
FromY == <<Set(<<64513, 64514>>)>>
\* eBGP over IPv4: two routes that share or do not share attributes, and an IPv6
\* route with a next hop of its own, of the wrong family, or with none.
Ebgp ==
    LET c == [Session(64600, {"v4", "v6"}) EXCEPT !.graceful_shutdown = TRUE]
        x == Path(1, "ebgp", "X", Rich(V4("198.51.100.1"), FromX))
        y == Path(2, "ebgp", "Y", Plain(V4("198.51.100.2"), FromY))
        hidden == Path(3, "ebgp", "Y", [Plain(V4("198.51.100.2"), FromY) EXCEPT !.communities = <<"NO_EXPORT">>])
        six == Path(1, "local", "none", Plain(V6("2001:db8::1"), <<>>))
        none6 == Path(2, "local", "none", Plain(V6("::"), <<>>))
        wrong == Path(3, "local", "none", Plain(V4("192.0.2.9"), <<>>))
    IN {Setup(c, Locs2(A4, {<<>>, <<x>>, <<x, y>>, <<hidden, x>>}, B4, {<<>>, <<x>>, <<y>>})),
        Setup(c, Locs2(A4, {<<>>, <<y>>}, A6, {<<>>, <<six>>, <<none6>>, <<wrong>>}))}
EbgpV6 ==
    LET c == [Session(64600, {"v4", "v6"}) EXCEPT !.next_hop = V6("2001:db8::2"), !.link_local = TRUE]
        x == Path(1, "ibgp", "X", Rich(V6("2001:db8::1"), FromX))
        four == Path(1, "local", "none", Plain(V4("192.0.2.9"), <<>>))
    IN {Setup(c, Locs2(A6, {<<>>, <<x>>}, A4, {<<>>, <<four>>}))}
\* A reflector client with ADD-PATH, and a plain internal peer.
Ibgp ==
    LET c == [Session(LocalAs, {"v4", "v6"}) EXCEPT !.rr_client = TRUE, !.format.addpath = {"v4"},
                     !.send_rpki_community = TRUE]
        d == [Session(LocalAs, {"v4", "v6"}) EXCEPT !.next_hop_self = TRUE]
        x == Path(1, "ibgp", "X", Rich(V4("198.51.100.1"), FromX))
        y == Path(2, "ebgp", "Y", Rich(V4("198.51.100.2"), FromY))
        own == Path(3, "ibgp", "P", Plain(V4("198.51.100.3"), FromX))
        stale == Path(2, "ebgp", "Y", [Plain(V4("198.51.100.2"), FromY) EXCEPT !.communities = <<"LLGR_STALE">>])
        client == Path(1, "rr_client", "X", [Plain(V6("2001:db8::1"), FromX) EXCEPT
                      !.originator_id = Some("O"), !.cluster_list = <<"D">>])
    IN {Setup(c, Locs2(A4, {<<>>, <<x>>, <<x, y>>, <<y, x>>, <<own, stale>>}, B4, {<<>>, <<y>>})),
        Setup(d, Locs2(A4, {<<>>, <<x>>, <<y>>}, A6, {<<>>, <<client>>}))}
RouteServer ==
    LET c == [Session(64600, {"v4"}) EXCEPT !.rs_client = TRUE]
        x == Path(1, "ebgp", "X", Rich(V4("198.51.100.1"), FromX))
        y == Path(2, "ebgp", "Y", Rich(V4("198.51.100.2"), FromY))
    IN {Setup(c, Locs2(A4, {<<>>, <<x, y>>, <<y, x>>, <<y>>}, B4, {<<>>, <<x>>}))}
\* A speaker with two-octet AS numbers: large numbers in every place.
TwoOctet ==
    LET c == [Session(64600, {"v4"}) EXCEPT !.format.four = FALSE]
        x == Path(1, "ebgp", "X", Rich(V4("198.51.100.1"), FromX))
        y == Path(2, "ebgp", "Y", [Rich(V4("198.51.100.2"), <<Confed(<<64700>>), Sequence(<<Large>>)>>) EXCEPT
                 !.aggregator = Some([asn |-> 64512, id |-> "agg"])])
        z == Path(3, "ebgp", "Y", Plain(V4("198.51.100.2"), <<Set(<<64513, Large>>), Sequence(<<64512>>)>>))
    IN {Setup(c, Locs2(A4, {<<>>, <<x>>, <<y>>, <<z>>}, B4, {<<>>, <<z>>}))}
LinkState ==
    LET c == Session(64600, {"v4", "ls", "lsvpn"})
        x == Path(1, "ebgp", "X", Plain(V4("198.51.100.1"), FromX))
        l == Path(1, "ibgp", "X", [Plain(V6("2001:db8::1"), <<>>) EXCEPT !.ls_attr = Some([octets |-> 60])])
    IN {Setup(c, Locs2(A4, {<<>>, <<x>>}, Ls, {<<>>, <<l>>})), Setup(c, Locs2(Vpn, {<<>>, <<l>>}, Ls, {<<>>, <<l>>}))}
\* Segments of 254, 255 and 256 numbers after prepending.
LongPaths ==
    LET P(i, n) == Path(i, "ebgp", "X", Plain(V4("198.51.100.1"), <<Sequence(Long(n))>>))
    IN {Setup(Session(64600, {"v4"}), Locs2(A4, {<<>>, <<P(1, 253)>>, <<P(2, 254)>>, <<P(3, 255)>>}, B4, {<<>>, <<P(1, 253)>>}))}
Sizes ==
    LET x == Path(1, "ebgp", "X", Plain(V4("198.51.100.1"), FromX))
        y == Path(2, "ebgp", "Y", Plain(V4("198.51.100.2"), FromY))
    IN {Setup(Session(64600, {"v4"}), Locs2(Half("a"), {<<>>, <<x>>}, Half("b"), {<<>>, <<y>>, <<x>>})),
        Setup(Session(64600, {"v4"}), Locs2(Many, {<<>>, <<x>>, <<y>>}, A4, {<<>>, <<x>>}))}

\* A MinRouteAdvertisementInterval, without and with ADD-PATH.
Paced ==
    LET c == [Session(64600, {"v4"}) EXCEPT !.format.addpath = {"v4"}]
        x == Path(1, "ebgp", "X", Plain(V4("198.51.100.1"), FromX))
        y == Path(2, "ebgp", "Y", Plain(V4("198.51.100.2"), FromY))
        Of(d) == [Setup(d, {[k \in {A4} |-> paths] : paths \in {<<>>, <<x>>, <<y>>}}) EXCEPT
                     !.mrai = TRUE, !.policies = {Chain(d, AcceptAll)}]
    IN {Of(Session(64600, {"v4"})), Of(c)}

AllSetups == Ebgp \cup EbgpV6 \cup Ibgp \cup RouteServer \cup TwoOctet \cup LinkState \cup LongPaths \cup Sizes \cup Paced
=============================================================================
