------------------------------- MODULE Policy -------------------------------
(***************************************************************************)
(* The policy engine (policy, net): defined sets and policies compiled     *)
(* from a BgpConfig, their evaluation on a route, the way back to a config *)
(* that the API lists, and the gRPC form of a statement.                   *)
(* A route key is a network, or a link-state NLRI.  A path keeps the       *)
(* attributes that conditions read and actions write.                      *)
(***************************************************************************)
EXTENDS ConfModel, ExtCommunity

\* IpNetwork::from_str on the texts of the instances: the address is kept as it
\* is written, host bits included.  Addresses are in units of Unit(v) bits.
Unit(v) == IF v = 4 THEN 8 ELSE 32
MaxLen(v) == IF v = 4 THEN 32 ELSE 128
Net(v, address, len) == [v |-> v, address |-> address, len |-> len]
NetOf == ("0.0.0.0/0" :> Net(4, <<0, 0, 0, 0>>, 0)) @@ ("10.0.0.0/8" :> Net(4, <<10, 0, 0, 0>>, 8))
         @@ ("10.1.0.0/16" :> Net(4, <<10, 1, 0, 0>>, 16)) @@ ("10.2.0.0/16" :> Net(4, <<10, 2, 0, 0>>, 16))
         @@ ("10.1.7.0/16" :> Net(4, <<10, 1, 7, 0>>, 16)) @@ ("10.1.1.0/24" :> Net(4, <<10, 1, 1, 0>>, 24))
         @@ ("fd00::/32" :> Net(6, <<253, 0, 0, 0>>, 32)) @@ ("fd00:0:1::/64" :> Net(6, <<253, 1, 0, 0>>, 64))
\* IpNetwork::contains.  The mask of length 0 shifts by the whole width, which
\* an optimised build reduces to a shift by 0: nothing is masked.
Mask(net) == IF net.len = 0 THEN 4 ELSE net.len \div Unit(net.v)
NetContains(net, other) ==
    /\ net.v = other.v
    /\ SubSeq(net.address, 1, Mask(net)) = SubSeq(other.address, 1, Mask(net))
afi_safi(net) == IF net.v = 4 THEN <<"ipv4", "unicast">> ELSE <<"ipv6", "unicast">>

\* Texts of numbers, of communities (a u32 as its halves) and of extended and
\* large communities (their parts); a text outside a table does not parse.
NumberOf == ("0" :> 0) @@ ("1" :> 1) @@ ("7" :> 7) @@ ("8" :> 8) @@ ("16" :> 16) @@ ("24" :> 24)
            @@ ("30" :> 30) @@ ("32" :> 32) @@ ("100" :> 100) @@ ("200" :> 200)
CommunityOf == ("7" :> <<0, 7>>) @@ ("0:7" :> <<0, 7>>) @@ ("65000:1" :> <<65000, 1>>)
               @@ ("65000:2" :> <<65000, 2>>)
CommunityText == (<<0, 7>> :> "0:7") @@ (<<65000, 1>> :> "65000:1") @@ (<<65000, 2>> :> "65000:2")
ExtOf == ("rt:65000:100" :> <<"rt", <<0, 65000>>, <<0, 100>>>>)
         @@ ("ro:70000:1" :> <<"ro", <<1, 4464>>, <<0, 1>>>>) @@ ("rt:70000:70000" :> <<"rt", <<1, 4464>>, <<1, 4464>>>>)
         @@ ("rpki:valid" :> <<"rpki", "valid">>) @@ ("color:100" :> <<"color", <<0, 100>>>>)
LargeOf == "65000:1:2" :> <<<<0, 65000>>, <<0, 1>>, <<0, 2>>>>
\* AS path patterns (regex crate): the sequences of ASNs whose text, joined by
\* "_", each one matches; "(" is not a regular expression.
Patterns == {"^100", "_200_", "200$"}
RegexIsMatch(pattern, asns) ==
    CASE pattern = "^100" -> asns # <<>> /\ asns[1] = 100
      [] pattern = "_200_" -> \E i \in 2..Len(asns) - 1 : asns[i] = 200
      [] pattern = "200$" -> asns # <<>> /\ Last(asns) = 200

-----------------------------------------------------------------------------
(***************************************************************************)
(* Compiling.                                                              *)
(***************************************************************************)

\* PrefixMatch::new and parse_masklength_range on a line <<prefix, ge, le>>.
RangeOf_Below(l) ==
    LET net == NetOf[l[1]]
    IN IF l[2] = "exact" \/ <<l[2], l[3]>> = <<None, None>> THEN <<net.len, net.len>>
       ELSE <<IF l[2] = None THEN net.len ELSE NumberOf[l[2]], IF l[3] = None THEN MaxLen(net.v) ELSE NumberOf[l[3]] - 1>>
RangeOf(l) ==
    LET net == NetOf[l[1]]
    IN IF l[2] = "exact" \/ <<l[2], l[3]>> = <<None, None>> THEN <<net.len, net.len>>
       ELSE <<IF l[2] = None THEN net.len ELSE NumberOf[l[2]], IF l[3] = None THEN MaxLen(net.v) ELSE NumberOf[l[3]]>>
PrefixMatchOk(l) ==
    /\ l[1] \in DOMAIN NetOf
    /\ LET r == RangeOf(l) IN r[1] <= r[2] /\ r[1] >= NetOf[l[1]].len /\ r[2] <= MaxLen(NetOf[l[1]].v)
ExtOk(w) == w \in DOMAIN ExtOf /\ parse_extended_community(ExtOf[w]) # Invalid
ElementOk(kind, l) ==
    CASE kind = "prefix-list" -> PrefixMatchOk(l)
      [] kind = "neighbor-set" -> l[1] \in IpAddr
      [] kind = "as-path-set" -> l[1] \in Patterns
      [] kind = "community-set" -> l[1] \in DOMAIN CommunityOf
      [] kind = "ext-community-set" -> ExtOk(l[1])
      [] kind = "large-community-set" -> l[1] \in DOMAIN LargeOf
CommunityValue(kind, w) ==
    CASE kind = "community" -> CommunityOf[w]
      [] kind = "ext-community" -> parse_extended_community(ExtOf[w])
      [] kind = "large-community" -> parse_large_community(LargeOf[w])
Element(kind, l) ==
    CASE kind = "prefix-list" -> [net |-> NetOf[l[1]], min |-> RangeOf(l)[1], max |-> RangeOf(l)[2]]
      [] kind \in {"neighbor-set", "as-path-set"} -> l[1]
      [] kind = "community-set" -> CommunityValue("community", l[1])
      [] kind = "ext-community-set" -> CommunityValue("ext-community", l[1])
      [] kind = "large-community-set" -> CommunityValue("large-community", l[1])
SetOk(kind, s) == \A i \in DOMAIN s.lines : ElementOk(kind, s.lines[i])
Compiled(kind, s) == [name |-> s.name, elements |-> {Element(kind, s.lines[i]) : i \in DOMAIN s.lines}]
\* DefinedSets::new: a later set of the same name replaces the earlier.
DefinedSetsOk(sets) == \A kind \in Range(SetKinds) : \A s \in Range(sets[kind]) : SetOk(kind, s)
DefinedSetsNew(sets) ==
    [kind \in Range(SetKinds) |->
        LET names == {s.name : s \in Range(sets[kind])}
            last(n) == CHOOSE i \in DOMAIN sets[kind] :
                          /\ sets[kind][i].name = n
                          /\ \A j \in i + 1..Len(sets[kind]) : sets[kind][j].name # n
        IN [n \in names |-> Compiled(kind, sets[kind][last(n)])]]

SetKindOf(ref) == IF ref = "prefix-set" THEN "prefix-list" ELSE ref
NlriTypes == <<"node", "link", "prefix-v4", "prefix-v6">>
Protocols == {"isis-l1", "isis-l2", "ospfv2", "direct", "static", "ospfv3"}
\* add_conditions: each clause resolved against the sets as they are now.
ConditionOk(key, args, sets) ==
    CASE key \in SetRefs -> args[1] \in DOMAIN sets[SetKindOf(key)]
      [] key = "prefix" -> args[1] \in DOMAIN NetOf
      [] key \in {"neighbor", "ls-node-router-id"} -> args[1] \in IpAddr
      [] key = "route-type" -> args[1] \in {"ebgp", "ibgp", "local"}
      [] key = "community" -> args[1] \in DOMAIN CommunityOf
      [] key = "afi-safi" -> args[1] \in {"ipv4-unicast", "ipv6-unicast", "bgp-ls"}
      [] key = "ls-nlri-type" -> args[1] \in Range(NlriTypes)
      [] key = "ls-protocol-id" -> args[1] \in Protocols
      [] OTHER -> TRUE
Condition(key, args, sets) ==
    CASE key \in SetRefs -> [set |-> sets[SetKindOf(key)][args[1]], option |-> args[2]]
      [] key = "prefix" -> NetOf[args[1]]
      [] key \in {"has-asn", "ls-node-as", "ls-instance-id"} -> NumberOf[args[1]]
      [] key = "community" -> CommunityOf[args[1]]
      [] OTHER -> args[1]
\* add_actions.
CommunityTextOk(key, w) ==
    CASE key = "community" -> w \in DOMAIN CommunityOf [] key = "ext-community" -> ExtOk(w)
      [] key = "large-community" -> w \in DOMAIN LargeOf
ActionOk(key, args) ==
    key \in Communities => /\ args[1] \in {"add", "remove", "replace"}
                           /\ \A w \in Range(Tail(args)) : CommunityTextOk(key, w)
Action(key, args) ==
    CASE key = "local-pref" -> [value |-> NumberOf[Last(args)], force |-> args[1] = "force"]
      [] key = "med" -> IF args[1] = "remove" THEN <<>> ELSE <<NumberOf[args[1]]>>
      [] key \in Communities -> [op |-> args[1], values |-> [i \in 1..Len(args) - 1 |-> CommunityValue(key, args[i + 1])]]
      [] key = "rpki-state" -> args[1]
StatementOk(st, sets) ==
    /\ \A key \in DOMAIN st.conds : ConditionOk(key, st.conds[key], sets)
    /\ \A key \in DOMAIN st.acts : ActionOk(key, st.acts[key])
build_statement(st, sets) ==
    [conds |-> [key \in DOMAIN st.conds |-> Condition(key, st.conds[key], sets)],
     acts |-> [key \in DOMAIN st.acts |-> Action(key, st.acts[key])], disp |-> st.disp]

ReservedNames == {"default-permit-all", "default-deny-all"}
Always(disp) == <<[conds |-> <<>>, acts |-> <<>>, disp |-> {disp}]>>
permit_all == Always("accept")
deny_all == Always("reject")
DefinitionOk(def, sets) ==
    def.name \notin ReservedNames /\ \A st \in Range(def.statements) : StatementOk(st, sets)
PolicyFromConfig(def, sets) == [i \in DOMAIN def.statements |-> build_statement(def.statements[i], sets)]
\* PolicyContext::from_config: whether it succeeds, and what it builds.
ContextOk(config) ==
    /\ DefinedSetsOk(config.sets)
    /\ \A def \in Range(config.policies) : DefinitionOk(def, DefinedSetsNew(config.sets))
ContextFrom(config) ==
    LET sets == DefinedSetsNew(config.sets)
        names == {def.name : def \in Range(config.policies)}
        last(n) == CHOOSE i \in DOMAIN config.policies :
                      /\ config.policies[i].name = n
                      /\ \A j \in i + 1..Len(config.policies) : config.policies[j].name # n
    IN [sets |-> sets,
        policies |-> ("default-permit-all" :> permit_all) @@ ("default-deny-all" :> deny_all)
                     @@ [n \in names |-> PolicyFromConfig(config.policies[last(n)], sets)]]

-----------------------------------------------------------------------------
(***************************************************************************)
(* Evaluation.                                                             *)
(***************************************************************************)

\* PrefixMatch::contains.
PrefixMatches(pm, net) == net.len \in pm.min..pm.max /\ NetContains(pm.net, net)
\* any, all, invert over the elements of a set, or over what the path carries:
\* the outcomes of the test on each.
Holds(option, tests) ==
    CASE option = "any" -> TRUE \in tests [] option = "all" -> FALSE \notin tests
      [] option = "invert" -> TRUE \notin tests
\* The conditions on a link-state NLRI; an NLRI of unknown type has no body.
LsMatches(key, c, ls) ==
    IF key = "ls-nlri-type" THEN ls.type \in 1..4 /\ NlriTypes[ls.type] = c
    ELSE /\ ls.body
         /\ CASE key = "ls-protocol-id" -> ls.proto = c [] key = "ls-instance-id" -> ls.id = c
              [] key = "ls-node-as" -> ls.as = c [] key = "ls-node-router-id" -> ls.rid = c
ConditionMatches(key, c, route, path) ==
    LET isPrefix == route.kind = "prefix"
        carried == Range(path[IF key = "community" THEN key ELSE IF key = "community-set" THEN "community"
                              ELSE IF key = "ext-community-set" THEN "ext-community" ELSE "large-community"])
    IN CASE key = "prefix" -> isPrefix /\ route.net = c
         [] key = "prefix-set" -> isPrefix /\ Holds(c.option, {PrefixMatches(pm, route.net) : pm \in c.set.elements})
         [] key = "neighbor" -> path.source # "local" /\ path.peer = c
         [] key = "neighbor-set" -> path.source # "local" /\ Holds(c.option, {n = path.peer : n \in c.set.elements})
         [] key = "has-asn" -> c \in Range(path.asns)
         [] key = "as-path-set" -> Holds(c.option, {RegexIsMatch(p, path.asns) : p \in c.set.elements})
         [] key = "community" -> c \in carried
         [] key \in {"community-set", "ext-community-set", "large-community-set"} ->
                Holds(c.option, {(x \in c.set.elements) : x \in carried})
         [] key = "route-type" -> path.source = c
         [] key = "rpki" -> path.rpki = c
         [] key = "afi-safi" -> IF isPrefix THEN c = (IF route.net.v = 4 THEN "ipv4-unicast" ELSE "ipv6-unicast")
                                ELSE c = "bgp-ls"
         [] OTHER -> ~isPrefix /\ LsMatches(key, c, route)
StatementMatches(st, route, path) == \A key \in DOMAIN st.conds : ConditionMatches(key, st.conds[key], route, path)

\* Action::apply on a list of communities: add keeps the order and skips what
\* is there already.
Edited(op, values, list) ==
    CASE op = "add" -> FoldLeft(LAMBDA acc, v : IF v \in Range(acc) THEN acc ELSE Append(acc, v), list, values)
      [] op = "remove" -> SelectSeq(list, LAMBDA v : v \notin Range(values))
      [] op = "replace" -> values
ActionApply(acts, path) ==
    [path EXCEPT
        !["lp"] = IF "local-pref" \in DOMAIN acts /\ (acts["local-pref"].force \/ @ = <<>>)
                  THEN <<acts["local-pref"].value>> ELSE @,
        !["med"] = IF "med" \in DOMAIN acts THEN acts["med"] ELSE @,
        !["community"] = IF "community" \in DOMAIN acts
                         THEN Edited(acts["community"].op, acts["community"].values, @) ELSE @,
        !["ext-community"] = IF "ext-community" \in DOMAIN acts
                             THEN Edited(acts["ext-community"].op, acts["ext-community"].values, @) ELSE @,
        !["large-community"] = IF "large-community" \in DOMAIN acts
                               THEN Edited(acts["large-community"].op, acts["large-community"].values, @) ELSE @,
        !["rpki"] = IF "rpki-state" \in DOMAIN acts THEN acts["rpki-state"] ELSE @]
\* Policy::evaluate: the first statement that matches decides, and applies its
\* actions whether it accepts or rejects.
evaluate(policy, route, path) ==
    LET hits == {i \in DOMAIN policy : StatementMatches(policy[i], route, path)}
        st == policy[CHOOSE i \in hits : \A j \in hits : i <= j]
    IN IF hits = {} THEN [result |-> "continue", path |-> path]
       ELSE [result |-> IF "reject" \in st.disp THEN "reject" ELSE "accept", path |-> ActionApply(st.acts, path)]
\* The loop over the policies of a peer and family (apply_import): the first
\* that does not continue decides; after the last the route is rejected.
Chain(policies, route, path) ==
    FoldLeft(LAMBDA acc, p : IF acc.result # "continue" THEN acc ELSE evaluate(p, route, acc.path),
             [result |-> "continue", path |-> path], policies)
\* apply_import: LOCAL_PREF is 100 before the policies run.
apply_import(policies, route, path) ==
    LET r == Chain(policies, route, [path EXCEPT !["lp"] = IF @ = <<>> THEN <<100>> ELSE @])
    IN [accepted |-> r.result = "accept", path |-> r.path]
\* resolve_policies: the named ones that exist, then the fallback of the
\* session type.
resolve_policies_FirstUnknown(ctx, names, ebgp) ==
    LET known == SelectSeq(names, LAMBDA n : n \in DOMAIN ctx.policies)
    IN IF known # names THEN <<deny_all>>
       ELSE Map(known, LAMBDA n : ctx.policies[n]) \o <<IF ebgp THEN deny_all ELSE permit_all>>
resolve_policies(ctx, names, ebgp) ==
    LET known == SelectSeq(names, LAMBDA n : n \in DOMAIN ctx.policies)
    IN Map(known, LAMBDA n : ctx.policies[n])
       \o <<IF ebgp THEN deny_all ELSE permit_all>>

-----------------------------------------------------------------------------
(***************************************************************************)
(* Back to a config (Statement::to_config), and the gRPC messages          *)
(* (grpc::proto_policy).                                                   *)
(***************************************************************************)

\* The canonical text of a value, and of an extended or large community.
TextIn(table, value) == CHOOSE w \in DOMAIN table : table[w] = value
ValueText(key, v) ==
    CASE key = "community" -> CommunityText[v]
      [] key = "ext-community" -> TextIn(ExtOf, format_extended_community(v))
      [] key = "large-community" -> TextIn(LargeOf, v)
ConditionText_Any(key, c) ==
    CASE key \in SetRefs -> <<c.set.name, "any">>
      [] key = "prefix" -> <<TextIn(NetOf, c)>>
      [] key \in {"has-asn", "ls-node-as", "ls-instance-id"} -> <<TextIn(NumberOf, c)>>
      [] key = "community" -> <<CommunityText[c]>>
      [] OTHER -> <<c>>
ConditionText(key, c) ==
    CASE key \in SetRefs -> <<c.set.name, c.option>>
      [] key = "prefix" -> <<TextIn(NetOf, c)>>
      [] key \in {"has-asn", "ls-node-as", "ls-instance-id"} -> <<TextIn(NumberOf, c)>>
      [] key = "community" -> <<CommunityText[c]>>
      [] OTHER -> <<c>>
ActionText(key, a) ==
    CASE key = "local-pref" -> (IF a.force THEN <<"force">> ELSE <<>>) \o <<TextIn(NumberOf, a.value)>>
      [] key = "med" -> IF a = <<>> THEN <<"remove">> ELSE <<TextIn(NumberOf, a[1])>>
      [] key \in Communities -> <<a.op>> \o Map(a.values, LAMBDA v : ValueText(key, v))
      [] key = "rpki-state" -> <<a>>
to_config(st) ==
    [name |-> <<>>, conds |-> [key \in DOMAIN st.conds |-> ConditionText(key, st.conds[key])],
     acts |-> [key \in DOMAIN st.acts |-> ActionText(key, st.acts[key])], disp |-> st.disp]

\* policy_info_to_proto, proto_to_statement_config: the conditions and actions
\* the messages have no field for are lost; `force` becomes plain, `replace`
\* becomes remove, removing the MED is lost.
NoProtoConditions == {"has-asn", "route-type", "community"}
NoProtoActions == {"ext-community", "large-community"}
policy_info_to_proto(st) ==
    LET kept == {key \in DOMAIN st.acts \ NoProtoActions : ~(key = "med" /\ st.acts[key] = <<"remove">>)}
    IN [conds |-> [key \in DOMAIN st.conds \ NoProtoConditions |-> st.conds[key]],
        acts |-> [key \in kept |->
                    CASE key = "local-pref" -> <<Last(st.acts[key])>>
                      [] key = "community" -> <<IF st.acts[key][1] = "add" THEN "add" ELSE "remove">> \o Tail(st.acts[key])
                      [] OTHER -> st.acts[key]],
        disp |-> st.disp]
\* Empty lists of communities are no action; an unknown option is `any`.
proto_to_statement_config(p) ==
    [name |-> <<>>,
     conds |-> [key \in DOMAIN p.conds |->
                  IF key \in SetRefs /\ p.conds[key][2] \notin {"all", "invert"} THEN <<p.conds[key][1], "any">>
                  ELSE p.conds[key]],
     acts |-> [key \in {k \in DOMAIN p.acts : k = "community" => Len(p.acts[k]) > 1} |-> p.acts[key]],
     disp |-> p.disp]
\* What a statement must not use to come back unchanged.
ProtoExpressible(st) ==
    /\ DOMAIN st.conds \cap NoProtoConditions = {} /\ DOMAIN st.acts \cap NoProtoActions = {}
    /\ "local-pref" \in DOMAIN st.acts => st.acts["local-pref"][1] # "force"
    /\ "med" \in DOMAIN st.acts => st.acts["med"] # <<"remove">>
    /\ "community" \in DOMAIN st.acts => st.acts["community"][1] # "replace" /\ Len(st.acts["community"]) > 1
\* policy_references_set.
policy_references_set(policy, kind, name) ==
    \E st \in Range(policy) : \E key \in DOMAIN st.conds :
        key \in SetRefs /\ SetKindOf(key) = kind /\ st.conds[key].set.name = name
=============================================================================
