----------------------------- MODULE ConfModel ------------------------------
(***************************************************************************)
(* BgpConfig and its two conversions (conf::bgp): from_conf_str reads a    *)
(* text into a config, to_conf_str writes a config as a text.  Optional    *)
(* values that the text gives as `key value` are None or the value; other  *)
(* optional values are sequences of length 0 or 1.                         *)
(***************************************************************************)
EXTENDS ConfLanguage

DefaultPrometheusListen == "127.0.0.1:9273"

\* PeerConfig::default.  api stands for the fields no text can give: graceful
\* restart, long-lived graceful restart, add-path-receive, the peer-wide
\* max-prefix and add-path-send.
DefaultPeer(address) ==
    [address |-> address, set |-> [k \in Range(PeerKeys) |-> DefaultOf(k)],
     families |-> <<>>, api |-> "default"]
NewFamily(family) ==
    [family |-> family, max |-> <<>>, send |-> <<>>, import |-> <<>>, export |-> <<>>]
\* BgpConfig::default.
DefaultConfig ==
    [top |-> [k \in Range(TopKeys) |-> DefaultOf(k)], originate |-> <<>>, ls |-> "0",
     telemetry |-> <<>>, peers |-> <<>>, sets |-> [k \in Range(SetKinds) |-> <<>>],
     policies |-> <<>>, bmp |-> <<>>, rpki |-> <<>>]

-----------------------------------------------------------------------------
(***************************************************************************)
(* Tree to config.                                                         *)
(***************************************************************************)

Tail2(w) == SubSeq(w, 3, Len(w))

\* The last value each key has, the default for a key not given.
Settings(keys, items) == [k \in Range(keys) |-> Value(Lines(items), k, DefaultOf(k))]

\* One directive of a family block applied to its entry.
ApplyDirective(e, w) ==
    CASE w[1] = "import" -> [e EXCEPT !.import = Append(@, w[2])]
      [] w[1] = "export" -> [e EXCEPT !.export = Append(@, w[2])]
      [] w[1] = "max-prefix" -> [e EXCEPT !.max = <<w[2], w[3]>>]
      [] w[1] = "add-path-send" -> [e EXCEPT !.send = <<w[2]>>]
\* afi_safi_entry_mut: the entry of the family, a new one at the end if none.
afi_safi_entry_mut(entries, family) ==
    IF \E i \in DOMAIN entries : entries[i].family = family THEN entries
    ELSE Append(entries, NewFamily(family))
ApplyFamily(entries, block) ==
    LET family == Tail(block.words)
        with == afi_safi_entry_mut(entries, family)
        apply(e) == FoldLeft(LAMBDA acc, it : ApplyDirective(acc, it.words), e, block.body)
    IN [i \in DOMAIN with |-> IF with[i].family = family THEN apply(with[i]) ELSE with[i]]
peer_config_from_block(block) ==
    [DefaultPeer(block.words[2]) EXCEPT
        !.set = Settings(PeerKeys, block.body),
        !.families = FoldLeft(ApplyFamily, <<>>, Having(block.body, "family"))]

\* The clause that stands last for each key: a later clause replaces the earlier.
Clauses(items, verb, keys) ==
    LET of(k) == SelectSeq(items, LAMBDA it : it.words[1] = verb /\ it.words[2] = k)
    IN [k \in {k \in Range(keys) : of(k) # <<>>} |-> Tail2(of(k)[Len(of(k))].words)]
statement_block_to_config(block) ==
    [name |-> Tail(block.words), conds |-> Clauses(block.body, "match", MatchKeys),
     acts |-> Clauses(block.body, "set", SetKeys),
     disp |-> {it.words[1] : it \in Range(block.body)} \cap {"accept", "reject"}]
RuleToStatement(rule) ==
    IF rule.block THEN statement_block_to_config(rule)
    ELSE [name |-> <<>>,
          conds |-> IF rule.words[1] = "match" THEN "prefix-set" :> <<rule.words[2], "any">> ELSE <<>>,
          acts |-> <<>>, disp |-> {Last(rule.words)}]
policy_block_to_definition(block) ==
    [name |-> block.words[2], statements |-> Map(block.body, RuleToStatement)]
\* action_to_config: a shorthand rule accepts or rejects, nothing else.
PolicyOk(block) ==
    \A rule \in Range(block.body) : rule.block \/ Last(rule.words) \in {"accept", "reject"}

telemetry_config_from_block(block) ==
    LET emf == Having(block.body, "cloudwatch-emf")
        prom == Having(block.body, "prometheus")
    IN [sink |-> CASE Having(block.body, "json") # <<>> -> <<"json">>
                   [] emf # <<>> -> <<"cloudwatch-emf", Value(emf[1].body, "namespace", "")>>
                   [] OTHER -> <<>>,
        prom |-> Map(prom, LAMBDA b : Value(b.body, "listen", DefaultPrometheusListen))]
bmp_config_from_block(block) ==
    [address |-> block.words[2], timeout |-> Value(block.body, "statistics-timeout", None)]
rpki_config_from_block(block) ==
    [address |-> block.words[2],
     opts |-> [k \in Range(RpkiKeys) |-> Value(block.body, k, RpkiDefault(k))]]
SetFromBlock(block) == [name |-> block.words[2], lines |-> Map(block.body, LAMBDA it : it.words)]

\* insert_peer: the address is an IP address no other peer has.
insert_peer_ok(peers) ==
    /\ \A p \in Range(peers) : p.address \in IpAddr
    /\ \A i, j \in DOMAIN peers : peers[i].address = peers[j].address => i = j

FromBody(body) ==
    [top |-> Settings(TopKeys, body),
     originate |-> Map(Having(body, "originate"), LAMBDA it : Tail(it.words)),
     ls |-> LET b == Having(body, "bgp-ls") IN IF b = <<>> THEN "0" ELSE Value(b[1].body, "instance-id", "0"),
     telemetry |-> Map(Having(body, "telemetry"), telemetry_config_from_block),
     peers |-> Map(Having(body, "peer"), peer_config_from_block),
     sets |-> [k \in Range(SetKinds) |-> Map(Having(body, k), SetFromBlock)],
     policies |-> Map(Having(body, "policy"), policy_block_to_definition),
     bmp |-> Map(Having(body, "bmp-server"), bmp_config_from_block),
     rpki |-> Map(Having(body, "rpki-cache"), rpki_config_from_block)]
Accepted(body) ==
    /\ Having(body, "asn") # <<>> /\ Having(body, "router-id") # <<>>
    /\ Value(body, "router-id", None) # "0.0.0.0"
    /\ insert_peer_ok(Map(Having(body, "peer"), peer_config_from_block))
    /\ \A b \in Range(Having(body, "policy")) : PolicyOk(b)
from_conf_str(text) ==
    LET root == Parse("root", text)
        no == [ok |-> FALSE, config |-> DefaultConfig]
    IN IF root = <<>> \/ Failed(root) \/ ~Accepted(root[1].body) THEN no
       ELSE [ok |-> TRUE, config |-> FromBody(root[1].body)]

-----------------------------------------------------------------------------
(***************************************************************************)
(* Config to tree.                                                         *)
(***************************************************************************)

\* A setting is written when it has a value other than the default; the two
\* required ones always are.
SettingLines(keys, values) ==
    LET shown == SelectSeq(keys, LAMBDA k : \/ k \in {"asn", "router-id"}
                                            \/ values[k] \notin {DefaultOf(k), None})
    IN Map(shown, LAMBDA k : Line(<<k, values[k]>>))

families_from_peer_config(entries) ==
    LET kept == SelectSeq(entries, LAMBDA e : e # NewFamily(e.family))
        directives(e) ==
            (IF e.max = <<>> THEN <<>> ELSE <<Line(<<"max-prefix">> \o e.max)>>)
            \o (IF e.send = <<>> THEN <<>> ELSE <<Line(<<"add-path-send">> \o e.send)>>)
            \o Map(e.import, LAMBDA n : Line(<<"import", n>>))
            \o Map(e.export, LAMBDA n : Line(<<"export", n>>))
    IN Map(kept, LAMBDA e : Block(<<"family">> \o e.family, directives(e)))
PeerToBlock(p) ==
    Block(<<"peer", p.address>>, SettingLines(PeerKeys, p.set) \o families_from_peer_config(p.families))

\* shorthand_for: an unnamed statement that only accepts or only rejects, on one
\* prefix-set with `any` or on everything, is written on one line.
Shorthand(st) ==
    /\ st.name = <<>> /\ st.acts = <<>> /\ Cardinality(st.disp) = 1
    /\ \/ st.conds = <<>>
       \/ DOMAIN st.conds = {"prefix-set"} /\ st.conds["prefix-set"][2] = "any"
ClauseLines(verb, keys, values) ==
    Map(SelectSeq(keys, LAMBDA k : k \in DOMAIN values), LAMBDA k : Line(<<verb, k>> \o values[k]))
statement_config_to_block(st) ==
    Block(<<"statement">> \o st.name,
          ClauseLines("match", MatchKeys, st.conds) \o ClauseLines("set", SetKeys, st.acts)
          \o Map(SetToSeq(st.disp), LAMBDA d : Line(<<d>>)))
StatementToRule(st) ==
    IF ~Shorthand(st) THEN statement_config_to_block(st)
    ELSE LET action == CHOOSE d \in st.disp : TRUE
         IN IF st.conds = <<>> THEN Line(<<"default", action>>)
            ELSE Line(<<"match", st.conds["prefix-set"][1], action>>)
\* policy_definition_to_block gives None for what the grammar cannot say.
Expressible(def) ==
    \A st \in Range(def.statements) :
        /\ Cardinality(st.disp) < 2
        /\ \A k \in Communities \cap DOMAIN st.acts : st.acts[k][1] \in {"add", "remove", "replace"}

telemetry_block_from_config(t) ==
    Block(<<"telemetry">>,
          (CASE t.sink = <<>> -> <<>>
             [] t.sink = <<"json">> -> <<Block(<<"json">>, <<>>)>>
             [] OTHER -> <<Block(<<"cloudwatch-emf">>, <<Line(<<"namespace", t.sink[2]>>)>>)>>)
          \o Map(t.prom, LAMBDA l : Block(<<"prometheus">>,
                    IF l = DefaultPrometheusListen THEN <<>> ELSE <<Line(<<"listen", l>>)>>)))
bmp_block_from_config(b) ==
    Block(<<"bmp-server", b.address>>,
          IF b.timeout = None THEN <<>> ELSE <<Line(<<"statistics-timeout", b.timeout>>)>>)
rpki_block_from_config(r) ==
    LET shown == SelectSeq(RpkiKeys, LAMBDA k : r.opts[k] # RpkiDefault(k))
    IN Block(<<"rpki-cache", r.address>>, Map(shown, LAMBDA k : Line(<<k, r.opts[k]>>)))
SetToBlock(kind, s) == Block(<<kind, s.name>>, Map(s.lines, Line))

to_bgp_service_body(c) ==
    LET blocks(kind) == \* an empty prefix list is dropped
            Map(SelectSeq(c.sets[kind], LAMBDA s : kind # "prefix-list" \/ s.lines # <<>>),
                LAMBDA s : SetToBlock(kind, s))
    IN SettingLines(TopKeys, c.top) \o Map(c.originate, LAMBDA o : Line(<<"originate">> \o o))
       \o Map(c.peers, PeerToBlock) \o Map(c.bmp, bmp_block_from_config)
       \o Map(c.rpki, rpki_block_from_config)
       \o Map(SelectSeq(c.policies, Expressible),
              LAMBDA d : Block(<<"policy", d.name>>, Map(d.statements, StatementToRule)))
       \o FlattenSeq(Map(SetKinds, blocks))
       \o (IF c.ls = "0" THEN <<>> ELSE <<Block(<<"bgp-ls">>, <<Line(<<"instance-id", c.ls>>)>>)>>)
       \o Map(c.telemetry, telemetry_block_from_config)
to_conf_str(c) == Display("root", <<Block(<<"service", "bgp">>, to_bgp_service_body(c))>>)
=============================================================================
