---------------------------- MODULE ConfLanguage ----------------------------
(***************************************************************************)
(* The brace language of rogg.conf and its conversions: text to syntax     *)
(* tree (conf::language, conf::language_bgp), tree to BgpConfig and back   *)
(* (conf::bgp).  A text is a block: a sequence of items, each a line of    *)
(* words that may open a sub-block.  Layout (newlines, comments, brace     *)
(* placement) is left out; what is kept is which words a line has after    *)
(* tokenising, so a value with a blank in it is one word when quoted and   *)
(* several when it is not, and one with a `#` in it loses what follows.  A *)
(* syntax tree has the same shape: a line of a tree holds values, a line   *)
(* of a text holds tokens.                                                 *)
(***************************************************************************)
EXTENDS Integers, Sequences, SequencesExt, FiniteSets, TLC

\* Values with a blank, a `#` or a brace in them (or empty), with the tokens that
\* tokenize makes of them when they are written without quotes.  A `#` cuts the
\* line, so a value with one stands last on its line in the instances.
Parts == ("core one" :> <<"core", "one">>) @@ ("/etc/k y" :> <<"/etc/k", "y">>)
         @@ ("/k#y" :> <<"/k">>) @@ ("core#1" :> <<"core">>) @@ ("/k{y" :> <<"/k", "{", "y">>)
         @@ ("" :> <<>>)
\* Values with a double quote in them, with that quote removed.
Cleaned == "edge\"1" :> "edge1"

None == "-"

Line(ws) == [words |-> ws, block |-> FALSE, body |-> <<>>]
Block(ws, items) == [words |-> ws, block |-> TRUE, body |-> items]
Bad == Line(<<>>)

\* A sub-block or line that did not parse is Bad; so is every block around it.
Failed(items) == \E i \in DOMAIN items : items[i].words = <<>>

-----------------------------------------------------------------------------
(***************************************************************************)
(* The tables of the language.                                             *)
(***************************************************************************)

\* FromStr of the value types, on the values the instances use.
U8 == {"0", "1", "7", "8", "16", "24", "30", "32"}
U16 == U8 \cup {"100", "179", "200", "360", "1790"}
U32 == U16 \cup {"65000", "65001", "70000"}
U64 == U32 \cup {"5000000000"}
Ipv4Addr == {"0.0.0.0", "1.1.1.1", "2.2.2.2", "10.0.0.1", "10.0.0.2"}
IpAddr == Ipv4Addr \cup {"fd00::1"}
AddrPorts == {"0.0.0.0:179", "127.0.0.1:50051", "127.0.0.1:9273", "10.0.0.9:1790",
              "10.0.0.9:323", "10.0.0.9:9000"}
Fits(type, w) ==
    CASE type = "u8" -> w \in U8 [] type = "u16" -> w \in U16
      [] type = "u32" -> w \in U32 [] type = "u64" -> w \in U64
      [] type = "ipv4" -> w \in Ipv4Addr [] type = "bool" -> w \in {"true", "false"}
      [] type = "transport" -> w \in {"tcp", "ssh"} [] OTHER -> TRUE

TopKeys == <<"asn", "router-id", "listen-addr", "grpc-listen-addr", "log-level",
             "hold-time", "connect-retry", "cluster-id", "sys-name", "sys-descr",
             "enhanced-rr-stale-ttl">>
PeerKeys == <<"remote-as", "port", "interface", "md5-key-file", "ttl-min",
              "next-hop-self", "passive", "rr-client", "rs-client",
              "graceful-shutdown", "delay-open-time-secs", "idle-hold-time-secs",
              "damp-peer-oscillations", "allow-automatic-stop",
              "send-notification-without-open",
              "min-route-advertisement-interval-secs", "enforce-first-as",
              "send-rpki-community", "admin-down">>
\* Setting::parse: the type of each setting.  A key of either list is accepted
\* in the service block and in a peer block.
SettingType(key) ==
    CASE key \in {"asn", "remote-as"} -> "u32"
      [] key \in {"router-id", "cluster-id"} -> "ipv4"
      [] key \in {"listen-addr", "grpc-listen-addr", "log-level", "sys-name",
                  "sys-descr", "interface", "md5-key-file"} -> "string"
      [] key \in {"hold-time", "connect-retry", "enhanced-rr-stale-ttl",
                  "delay-open-time-secs", "idle-hold-time-secs",
                  "min-route-advertisement-interval-secs"} -> "u64"
      [] key = "port" -> "u16" [] key = "ttl-min" -> "u8" [] OTHER -> "bool"
\* The value a setting has when the file does not give it; None is Rust's None.
DefaultOf(key) ==
    CASE key = "asn" -> "65000" [] key = "router-id" -> "1.1.1.1"
      [] key = "listen-addr" -> "0.0.0.0:179"
      [] key = "grpc-listen-addr" -> "127.0.0.1:50051"
      [] key = "log-level" -> "info" [] key = "hold-time" -> "180"
      [] key \in {"connect-retry", "idle-hold-time-secs"} -> "30"
      [] key = "enhanced-rr-stale-ttl" -> "360" [] key = "port" -> "179"
      [] key \in {"damp-peer-oscillations", "allow-automatic-stop",
                  "enforce-first-as"} -> "true"
      [] key \in {"next-hop-self", "passive", "rr-client", "rs-client",
                  "graceful-shutdown", "send-notification-without-open",
                  "send-rpki-community", "admin-down"} -> "false"
      [] OTHER -> None

RpkiKeys == <<"preference", "transport", "ssh-username", "ssh-private-key-file",
              "ssh-known-hosts-file", "retry-interval", "refresh-interval",
              "expire-interval">>
RpkiDefault(key) ==
    CASE key = "preference" -> "0" [] key = "transport" -> "tcp" [] OTHER -> None
\* The blocks that hold only `key value` lines, with their keys.
ScalarKeys(kind) ==
    CASE kind = "bmp-server" -> <<"statistics-timeout">>
      [] kind = "bgp-ls" -> <<"instance-id">>
      [] kind = "cloudwatch-emf" -> <<"namespace">>
      [] kind = "prometheus" -> <<"listen">>
      [] kind = "rpki-cache" -> RpkiKeys [] OTHER -> <<>>
ScalarType(key) ==
    CASE key \in {"statistics-timeout", "instance-id", "retry-interval",
                  "refresh-interval", "expire-interval"} -> "u64"
      [] key = "preference" -> "u8" [] key = "transport" -> "transport"
      [] OTHER -> "string"

SetKinds == <<"prefix-list", "neighbor-set", "as-path-set", "community-set",
              "ext-community-set", "large-community-set">>
Afis == {"ipv4", "ipv6", "ls"}
Safis == {"unicast", "multicast"}
SetRefs == {"prefix-set", "neighbor-set", "as-path-set", "community-set",
            "ext-community-set", "large-community-set"}
MatchKeys == <<"prefix-set", "neighbor-set", "as-path-set", "community-set",
               "ext-community-set", "large-community-set", "prefix", "neighbor",
               "has-asn", "route-type", "community", "rpki", "afi-safi",
               "ls-nlri-type", "ls-protocol-id", "ls-instance-id", "ls-node-as",
               "ls-node-router-id">>
SetKeys == <<"local-pref", "med", "community", "ext-community",
             "large-community", "rpki-state">>
Communities == {"community", "ext-community", "large-community"}
RpkiStates == {"valid", "invalid", "not-found"}

-----------------------------------------------------------------------------
(***************************************************************************)
(* Parsing: a line of tokens to a line of the tree, Bad on an error.       *)
(***************************************************************************)

\* parse_match_clause, parse_match_set_ref, parse_rpki_validation: the option
\* is explicit in the tree, `any` when the line has none.
ParseMatch(w) ==
    CASE w[2] \in SetRefs /\ Len(w) = 3 -> Line(w \o <<"any">>)
      [] w[2] \in SetRefs /\ Len(w) = 4 /\ w[4] \in {"any", "all", "invert"} -> Line(w)
      [] w[2] = "rpki" /\ Len(w) = 3 /\ w[3] \in RpkiStates -> Line(w)
      [] w[2] \in {"has-asn", "ls-node-as"} /\ Len(w) = 3 /\ Fits("u32", w[3]) -> Line(w)
      [] w[2] = "ls-instance-id" /\ Len(w) = 3 /\ Fits("u64", w[3]) -> Line(w)
      [] w[2] \in Range(MatchKeys) \ (SetRefs \cup {"rpki", "has-asn", "ls-node-as",
                                                    "ls-instance-id"})
         /\ Len(w) = 3 -> Line(w)
      [] OTHER -> Bad

\* parse_set_clause, parse_community_op.
ParseSet(w) ==
    CASE w[2] = "local-pref" /\ Len(w) = 3 /\ Fits("u32", w[3]) -> Line(w)
      [] w[2] = "local-pref" /\ Len(w) = 4 /\ w[3] = "force" /\ Fits("u32", w[4]) -> Line(w)
      [] w[2] = "med" /\ Len(w) = 3 /\ (w[3] = "remove" \/ Fits("u32", w[3])) -> Line(w)
      [] w[2] \in Communities /\ Len(w) >= 3 /\ w[3] \in {"add", "remove", "replace"} -> Line(w)
      [] w[2] = "rpki-state" /\ Len(w) = 3 /\ w[3] \in RpkiStates -> Line(w)
      [] OTHER -> Bad

\* parse_optional_masklength_range: `exact`, or ge and le in either order and
\* at most once; the tree holds them as <<ge, le>>.
ParseRange(w) ==
    LET n == Len(w)
        at(k) == {i \in 2..n : w[i] = k /\ i % 2 = 0}
        value(k) == IF at(k) = {} THEN None ELSE w[(CHOOSE i \in at(k) : TRUE) + 1]
    IN CASE n = 1 -> Line(<<w[1], None, None>>)
         [] n = 2 /\ w[2] = "exact" -> Line(<<w[1], "exact", "exact">>)
         [] n \in {3, 5} /\ \A i \in {2, 4} \cap 2..n : w[i] \in {"ge", "le"} /\ Fits("u8", w[i + 1])
            /\ Cardinality(at("ge")) <= 1 /\ Cardinality(at("le")) <= 1
              -> Line(<<w[1], value("ge"), value("le")>>)
         [] OTHER -> Bad

\* parse_family_block: the action of max-prefix is explicit in the tree.
ParseFamilyLine(w) ==
    CASE w[1] \in {"export", "import"} /\ Len(w) = 3 /\ w[2] = "policy" -> Line(<<w[1], w[3]>>)
      [] w[1] = "max-prefix" /\ Len(w) = 2 /\ Fits("u32", w[2]) -> Line(w \o <<"terminate">>)
      [] w[1] = "max-prefix" /\ Len(w) = 4 /\ Fits("u32", w[2]) /\ w[3] = "action"
         /\ w[4] \in {"terminate", "discard"} -> Line(<<w[1], w[2], w[4]>>)
      [] w[1] = "add-path-send" /\ Len(w) = 2 /\ w[2] \in {"all", "disabled"} -> Line(w)
      [] OTHER -> Bad

\* Setting::parse after take_word and finish_statement.
ParseSetting(w) ==
    IF /\ Len(w) = 2 /\ w[1] \in Range(TopKeys) \cup Range(PeerKeys)
       /\ Fits(SettingType(w[1]), w[2])
    THEN Line(w) ELSE Bad

ParseLine(kind, w) ==
    CASE kind = "bgp" /\ w[1] = "originate" ->
            IF Len(w) = 4 /\ w[3] = "nexthop" THEN Line(<<w[1], w[2], w[4]>>) ELSE Bad
      [] kind \in {"bgp", "peer"} /\ w[1] # "originate" -> ParseSetting(w)
      [] kind = "family" -> ParseFamilyLine(w)
      [] kind = "policy" -> IF w[1] \in {"match", "default"} /\ Len(w) = (IF w[1] = "match" THEN 3 ELSE 2)
                            THEN Line(w) ELSE Bad
      [] kind = "statement" -> CASE w[1] = "match" /\ Len(w) > 1 -> ParseMatch(w)
                                 [] w[1] = "set" /\ Len(w) > 1 -> ParseSet(w)
                                 [] w \in {<<"accept">>, <<"reject">>} -> Line(w)
                                 [] OTHER -> Bad
      [] kind = "prefix-list" -> ParseRange(w)
      [] kind \in Range(SetKinds) \ {"prefix-list"} -> IF Len(w) = 1 THEN Line(w) ELSE Bad
      [] OTHER -> IF Len(w) = 2 /\ w[1] \in Range(ScalarKeys(kind)) /\ Fits(ScalarType(w[1]), w[2])
                  THEN Line(w) ELSE Bad

\* The blocks a block may hold, and whether the words before the brace are the
\* header the parser expects there.
HeaderOk(kind, w) ==
    CASE kind = "root" -> w = <<"service", "bgp">>
      [] kind = "bgp" -> \/ /\ w[1] \in {"peer", "policy", "bmp-server", "rpki-cache"}
                                        \cup Range(SetKinds)
                            /\ Len(w) = 2
                         \/ w \in {<<"bgp-ls">>, <<"telemetry">>}
      [] kind = "peer" -> w[1] = "family" /\ Len(w) = 3 /\ w[2] \in Afis /\ w[3] \in Safis
      [] kind = "policy" -> w[1] = "statement" /\ Len(w) <= 2
      [] kind = "telemetry" -> w \in {<<"json">>, <<"cloudwatch-emf">>, <<"prometheus">>}
      [] OTHER -> FALSE
KindOf(w) == IF w[1] = "service" THEN "bgp" ELSE w[1]

\* The sequence of the images, as a tuple.
Map(items, F(_)) == [i \in DOMAIN items |-> F(items[i])] \o <<>>
Lines(items) == SelectSeq(items, LAMBDA it : ~it.block)
Having(items, key) == SelectSeq(items, LAMBDA it : it.words[1] = key)
\* Some(value) of the last line with this key.
Value(items, key, dflt) ==
    LET l == Having(items, key) IN IF l = <<>> THEN dflt ELSE l[Len(l)].words[2]

\* Checks over a whole block: at most one bgp-ls, telemetry or sink of a kind,
\* one disposition, json against cloudwatch-emf, the required namespace.
BlockOk(kind, items) ==
    LET count(key) == Len(Having(items, key))
    IN /\ \A key \in {"bgp-ls", "telemetry"} : kind = "bgp" => count(key) <= 1
       /\ kind = "telemetry" => /\ \A i \in DOMAIN items : count(items[i].words[1]) = 1
                                /\ count("json") + count("cloudwatch-emf") <= 1
       /\ kind = "statement" => count("accept") + count("reject") <= 1
       /\ kind = "cloudwatch-emf" => items # <<>>

\* What the typed tree keeps of a block: the vectors of BgpServiceBody,
\* PeerBlock and StatementBlock in the order Display writes them, one value per
\* key of a scalar block.
Groups(kind) ==
    CASE kind = "bgp" -> <<"peer", "bmp-server", "rpki-cache", "policy">> \o SetKinds
                         \o <<"bgp-ls", "telemetry">>
      [] kind = "peer" -> <<"family">>
      [] kind = "telemetry" -> <<"json", "cloudwatch-emf", "prometheus">>
      [] kind = "statement" -> <<"match", "set", "accept", "reject">>
      [] OTHER -> <<>>
Typed(kind, items) ==
    LET group(g) == IF g = "" THEN SelectSeq(items, LAMBDA it : it.words[1] \notin Range(Groups(kind)))
                    ELSE Having(items, g)
        order == <<"">> \o Groups(kind)
        keys == SelectSeq(ScalarKeys(kind), LAMBDA k : Having(items, k) # <<>> \/ k = "instance-id")
    IN IF ScalarKeys(kind) # <<>>
       THEN Map(keys, LAMBDA k : Line(<<k, Value(items, k, "0")>>))
       ELSE FlattenSeq(Map(order, group))

RECURSIVE Parse(_, _)
\* language::parse and the parse_*_block functions: the tree of a text, with a
\* Bad item in it when the text is rejected.
Parse(kind, text) ==
    LET item(t) == IF ~t.block THEN (IF kind = "root" THEN Bad ELSE ParseLine(kind, t.words))
                   ELSE IF ~HeaderOk(kind, t.words) THEN Bad
                   ELSE LET sub == Parse(KindOf(t.words), t.body)
                        IN IF Failed(sub) THEN Bad ELSE Block(t.words, sub)
        items == Map(text, item)
    IN IF Failed(items) \/ ~BlockOk(kind, items) THEN <<Bad>> ELSE Typed(kind, items)

-----------------------------------------------------------------------------
(***************************************************************************)
(* Display: a line of the tree to the words the tokeniser reads back.      *)
(***************************************************************************)

\* A value written without quotes, and through quote_if_needed: blanks, `#` and
\* braces are kept, double quotes are lost, the empty value is written as nothing.
Bare(w) == IF w \in DOMAIN Parts THEN Parts[w] ELSE <<w>>
quote_if_needed(w) ==
    IF w = "" THEN <<>> ELSE IF w \in DOMAIN Cleaned THEN <<Cleaned[w]>> ELSE <<w>>
BareAll(ws) == FlattenSeq(Map(ws, Bare))
\* The lines whose value is written between quotes.
Quoted(kind, w) == kind = "as-path-set" \/ (w[1] \in {"sys-name", "sys-descr"} /\ kind \in {"bgp", "peer"})

\* Mutant: the two bounds change places.
DisplayRange_Swapped(ge, le) ==
    CASE ge = "exact" -> <<"exact">>
      [] OTHER -> (IF le = None THEN <<>> ELSE <<"ge", le>>) \o (IF ge = None THEN <<>> ELSE <<"le", ge>>)
DisplayRange(ge, le) ==
    CASE ge = "exact" -> <<"exact">>
      [] OTHER -> (IF ge = None THEN <<>> ELSE <<"ge", ge>>) \o (IF le = None THEN <<>> ELSE <<"le", le>>)
\* The words of a line as they are printed, a value being one word.
Printed(kind, w) ==
    CASE kind = "as-path-set" -> w
      [] kind # "as-path-set" /\ Quoted(kind, w) -> <<w[1]>> \o quote_if_needed(w[2])
      [] w[1] = "originate" /\ kind = "bgp" -> <<w[1], w[2], "nexthop", w[3]>>
      [] kind = "prefix-list" -> <<w[1]>> \o DisplayRange(w[2], w[3])
      [] kind = "family" /\ w[1] \in {"import", "export"} -> <<w[1], "policy", w[2]>>
      [] kind = "family" /\ w[1] = "max-prefix" ->
            IF w[3] = "terminate" THEN <<w[1], w[2]>> ELSE <<w[1], w[2], "action", w[3]>>
      [] kind = "statement" /\ w[1] = "match" /\ w[2] \in SetRefs ->
            <<w[1], w[2], w[3]>> \o (IF w[4] = "any" THEN <<>> ELSE <<w[4]>>)
      [] OTHER -> w
DisplayLine(kind, w) == IF Quoted(kind, w) THEN Printed(kind, w) ELSE BareAll(Printed(kind, w))

RECURSIVE Display(_, _)
\* Display of Root, of the service body and of its blocks.  A line that came out
\* empty is a blank line, which the parser skips.
Display(kind, items) ==
    SelectSeq(Map(items, LAMBDA it : IF it.block
                                     THEN Block(BareAll(it.words), Display(KindOf(it.words), it.body))
                                     ELSE Line(DisplayLine(kind, it.words))),
              LAMBDA t : t.words # <<>>)

=============================================================================
