----------------------------- MODULE MCDecisions ----------------------------
(* Module Decisions for TLC: statements with every kind of condition and   *)
(* action, communities of every type, routes that tell them apart.         *)
EXTENDS Decisions

Set(name, lines) == [name |-> name, lines |-> lines]
MCSets ==
    "prefix-list" :> <<Set("S", <<<<"10.1.0.0/16", None, "24">>, <<"10.2.0.0/16", "exact", "exact">>>>),
                       Set("T", <<<<"10.0.0.0/8", "16", None>>, <<"fd00::/32", None, None>>>>),
                       Set("D", <<<<"0.0.0.0/0", None, "32">>>>)>>
    @@ "neighbor-set" :> <<Set("N", <<<<"10.0.0.1">>>>)>>
    @@ "as-path-set" :> <<Set("A", <<<<"^100">>, <<"200$">>>>)>>
    @@ "community-set" :> <<Set("C", <<<<"0:7">>, <<"65000:1">>>>)>>
    @@ "ext-community-set" :> <<Set("E", <<<<"rt:65000:100">>>>)>>
    @@ "large-community-set" :> <<Set("L", <<<<"65000:1:2">>>>)>>

Refs == ("prefix-set" :> "S") @@ ("neighbor-set" :> "N") @@ ("as-path-set" :> "A") @@ ("community-set" :> "C")
        @@ ("ext-community-set" :> "E") @@ ("large-community-set" :> "L")
Values == ("prefix" :> "10.1.0.0/16") @@ ("neighbor" :> "10.0.0.1") @@ ("has-asn" :> "200") @@ ("route-type" :> "ebgp")
          @@ ("community" :> "7") @@ ("rpki" :> "invalid") @@ ("afi-safi" :> "bgp-ls") @@ ("ls-nlri-type" :> "link")
          @@ ("ls-protocol-id" :> "direct") @@ ("ls-instance-id" :> "7") @@ ("ls-node-as" :> "100")
          @@ ("ls-node-router-id" :> "10.0.0.1")
Conds == {<<>>, "prefix-set" :> <<"T", "any">>, "prefix-set" :> <<"D", "any">>} \cup {ref :> <<Refs[ref], o>> : ref \in SetRefs, o \in {"any", "all", "invert"}}
         \cup {key :> <<Values[key]>> : key \in DOMAIN Values}
Acts == {<<>>, "local-pref" :> <<"200">>, "local-pref" :> <<"force", "200">>, "med" :> <<"remove">>, "med" :> <<"8">>,
         "rpki-state" :> <<"valid">>, ("community" :> <<"add", "65000:2", "7">>) @@ ("med" :> <<"7">>)}
        \cup {"community" :> <<op, "0:7">> : op \in {"add", "remove", "replace"}}
        \cup {"ext-community" :> <<op, "rt:65000:100", "color:100">> : op \in {"add", "remove", "replace"}}
        \cup {"large-community" :> <<op, "65000:1:2">> : op \in {"add", "remove", "replace"}}
Statement(c, a, d) == [name |-> <<>>, conds |-> c, acts |-> a, disp |-> d]
MCDefinitions ==
    {[name |-> "P", statements |-> <<Statement(s[1], s[2], d), Statement("rpki" :> <<"valid">>, "med" :> <<"30">>, {"reject"})>>] :
        s \in Conds \X Acts, d \in {{}, {"accept"}, {"reject"}}}

Prefix(n) == [kind |-> "prefix", net |-> NetOf[n]]
Link == [kind |-> "ls", type |-> 2, body |-> TRUE, proto |-> "direct", id |-> 7, as |-> 100, rid |-> "10.0.0.1"]
Other == [Link EXCEPT !.type = 9, !.body = FALSE]
Path == [source |-> "ebgp", peer |-> "10.0.0.1", asns |-> <<100, 200>>] @@ ("lp" :> <<>>) @@ ("med" :> <<1>>)
        @@ ("community" :> <<<<0, 7>>>>) @@ ("ext-community" :> <<from_two_octet_as(2, 65000, <<0, 100>>)>>)
        @@ ("large-community" :> <<>>) @@ ("rpki" :> "invalid")
Bare2 == [Path EXCEPT !.source = "local", !.peer = "", !.asns = <<>>, !["lp"] = <<200>>, !["med"] = <<>>, !["community"] = <<>>,
                      !["ext-community"] = <<>>, !["large-community"] = <<<<<<0, 65000>>, <<0, 1>>, <<0, 2>>>>>>, !["rpki"] = "valid"]
Far == [Path EXCEPT !.source = "ibgp", !.peer = "10.0.0.2", !.asns = <<30, 200, 30>>, !["community"] = <<<<65000, 2>>, <<0, 7>>>>]
MCProbes == {Prefix(n) : n \in DOMAIN NetOf} \X {Path, Bare2, Far} \cup {Link, Other} \X {Path, Bare2}

MCOctets8 ==
    {<<t, s, 0, 0, 0, 100, 1, v>> : t \in {0, 1, 2, 3, 6, 64, 65, 66, 67, 70, 128}, s \in {0, 2, 3, 4, 9, 11, 12}, v \in {0, 1}}
    \cup {<<67, 0, 0, 0, 0, 0, 0, v>> : v \in 0..3} \cup {<<2, 2, 1, 1, 0, 100, 1, 1>>, <<3, 11, 7, 7, 0, 0, 0, 1>>, <<64, 4, 0, 1, 255, 160, 0, 1>>}
MCStarts ==
    {<<d, <<0, 2, 0, 0, 0, 100, 1, 1>>>> : d \in MCDefinitions}
    \cup {<<CHOOSE d \in MCDefinitions : TRUE, e>> : e \in MCOctets8}
=============================================================================
