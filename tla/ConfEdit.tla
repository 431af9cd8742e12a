------------------------------ MODULE ConfEdit ------------------------------
(***************************************************************************)
(* The configure mode of the shell (ggsh): which command lines its grammar *)
(* accepts at each level, and what each editing command does to the        *)
(* candidate.  The candidate is the syntax tree of the file, of which the  *)
(* commands edit the body of the first `service bgp` block.                *)
(***************************************************************************)
EXTENDS ConfLanguage

\* The prefixes the instances use (ValueKind::Prefix only asks for a slash).
Networks == {"10.1.0.0/16", "10.2.0.0/16"}

-----------------------------------------------------------------------------
(***************************************************************************)
(* The grammar.  The tree of a level is the set of its complete commands;  *)
(* a word in angle brackets stands for any token of that kind.             *)
(***************************************************************************)

ArgKinds == {"<asn>", "<ipv4>", "<ip>", "<addrport>", "<prefix>", "<afi>", "<safi>",
             "<string>", "<bool>", "<u8>", "<u16>", "<u64>", "<transport>"}
\* ValueKind::validate.
validate(kind, token) ==
    CASE kind = "<asn>" -> token \in U32 [] kind = "<ipv4>" -> token \in Ipv4Addr
      [] kind = "<ip>" -> token \in IpAddr [] kind = "<addrport>" -> token \in AddrPorts
      [] kind = "<prefix>" -> token \in Networks [] kind = "<afi>" -> token \in Afis
      [] kind = "<safi>" -> token \in Safis [] kind = "<string>" -> token # ""
      [] kind = "<bool>" -> token \in {"true", "false"} [] kind = "<u8>" -> token \in U8
      [] kind = "<u16>" -> token \in U16 [] kind = "<u64>" -> token \in U64
      [] kind = "<transport>" -> token \in {"tcp", "ssh"}
\* value_kind of TopKey, PeerKey, BmpServerKey, RpkiCacheKey and BgpLsKey.
value_kind(key) ==
    CASE key \in {"asn", "remote-as"} -> "<asn>"
      [] key \in {"router-id", "cluster-id"} -> "<ipv4>"
      [] key \in {"listen-addr", "grpc-listen-addr"} -> "<addrport>"
      [] key = "port" -> "<u16>" [] key \in {"ttl-min", "preference"} -> "<u8>"
      [] key = "transport" -> "<transport>"
      [] key \in {"log-level", "sys-name", "sys-descr", "interface", "md5-key-file",
                  "ssh-username", "ssh-private-key-file", "ssh-known-hosts-file"} -> "<string>"
      [] key \in {"hold-time", "connect-retry", "enhanced-rr-stale-ttl", "delay-open-time-secs",
                  "idle-hold-time-secs", "min-route-advertisement-interval-secs",
                  "statistics-timeout", "instance-id", "retry-interval", "refresh-interval",
                  "expire-interval"} -> "<u64>"
      [] OTHER -> "<bool>"
setting_leaves(keys) == {<<k, value_kind(k)>> : k \in Range(keys)}
Under(path, subtrees) == {path \o t : t \in subtrees}

tree_show ==
    Under(<<"bgp">>, {<<"summary">>, <<"info">>, <<"peers">>, <<"peers", "<ip>">>, <<"routes">>,
                      <<"routes", "<afi>">>, <<"routes", "<afi>", "<safi>">>, <<"routes", "<prefix>">>}
            \cup UNION {Under(<<"peers", "<ip>", way>>, {<<>>, <<"<afi>">>, <<"<afi>", "<safi>">>})
                          : way \in {"in", "out"}})
    \cup Under(<<"rpki">>, {<<"caches">>, <<"roa">>, <<"validate", "<prefix>", "origin", "<asn>">>})
    \cup {<<"config", "history">>, <<"version">>}
tree_root == Under(<<"show">>, tree_show) \cup {<<"configure">>, <<"exit">>, <<"quit">>}
tree_config == {<<"service", "bgp">>, <<"commit">>, <<"exit">>, <<"show", "diff">>,
                <<"show", "running-config">>}
family_directive == {<<"import", "policy">>, <<"export", "policy">>}
set_subtree ==
    setting_leaves(TopKeys) \cup {<<"originate", "<prefix>", "nexthop", "<ip>">>}
    \cup Under(<<"peer", "<ip>">>,
               setting_leaves(PeerKeys)
               \cup {<<"family", "<afi>", "<safi>">> \o d \o <<"<string>">> : d \in family_directive})
    \cup Under(<<"policy", "<string>">>, {<<"match", "<string>", "<string>">>, <<"default", "<string>">>})
    \cup {<<"prefix-list", "<string>", "<prefix>">>}
    \cup Under(<<"bmp-server", "<addrport>">>, setting_leaves(ScalarKeys("bmp-server")))
    \cup Under(<<"rpki-cache", "<addrport>">>, setting_leaves(RpkiKeys))
    \cup Under(<<"bgp-ls">>, setting_leaves(ScalarKeys("bgp-ls")))
    \cup Under(<<"telemetry">>, {<<"json">>, <<"cloudwatch-emf", "namespace", "<string>">>,
                                 <<"prometheus">>, <<"prometheus", "listen", "<addrport>">>})
unset_subtree ==
    {<<k>> : k \in Range(TopKeys)} \cup {<<"originate", "<prefix>">>, <<"policy", "<string>">>}
    \cup Under(<<"peer", "<ip>">>,
               {<<>>, <<"family", "<afi>", "<safi>">>} \cup {<<k>> : k \in Range(PeerKeys)}
               \cup Under(<<"family", "<afi>", "<safi>">>, family_directive))
    \cup {<<"prefix-list", "<string>">>, <<"prefix-list", "<string>", "<prefix>">>}
    \cup UNION {Under(<<kind, "<addrport>">>, {<<>>} \cup {<<k>> : k \in Range(ScalarKeys(kind))})
                  : kind \in {"bmp-server", "rpki-cache"}}
    \cup {<<"bgp-ls">>, <<"bgp-ls", "instance-id">>}
    \cup Under(<<"telemetry">>, {<<>>, <<"json">>, <<"cloudwatch-emf">>, <<"prometheus">>,
                                 <<"prometheus", "listen">>})
tree_config_bgp ==
    {<<"commit">>, <<"exit">>, <<"show", "diff">>, <<"show", "running-config">>,
     <<"show", "candidate">>}
    \cup set_subtree \cup Under(<<"unset">>, unset_subtree)
current_tree(level) ==
    CASE level = "root" -> tree_root [] level = "config" -> tree_config [] OTHER -> tree_config_bgp

\* parser::parse and find_match: keywords match themselves, arguments by kind.
find_match(pattern, tokens) ==
    \A i \in DOMAIN tokens : \/ tokens[i] = pattern[i]
                             \/ pattern[i] \in ArgKinds /\ validate(pattern[i], tokens[i])
parse(tree, tokens) ==
    LET fits == {p \in tree : Len(p) >= Len(tokens) /\ find_match(p, tokens)}
    IN CASE tokens = <<>> -> "error"
         [] tokens # <<>> /\ Last(tokens) \in {"?", "help", "--help"} -> "help"
         [] tokens # <<>> /\ \E p \in fits : Len(p) = Len(tokens) -> "execution"
         [] OTHER -> IF fits # {} THEN "help" ELSE "error"
\* completions: the keywords that may come next.
completions(tree, tokens) ==
    {p[Len(tokens) + 1] : p \in {q \in tree : Len(q) > Len(tokens) /\ find_match(q, tokens)}} \ ArgKinds

-----------------------------------------------------------------------------
(***************************************************************************)
(* The editing commands: the body afterwards, and whether the command      *)
(* reported an error.                                                      *)
(***************************************************************************)

Done(items) == [ok |-> TRUE, body |-> items]
\* peer_mut, family_mut, policy_mut, ...: the first block with this header, a
\* new empty one at the end of its kind if there is none.
WithBlock(kind, items, header) ==
    IF \E it \in Range(items) : it.block /\ it.words = header THEN items
    ELSE Typed(kind, Append(items, Block(header, <<>>)))
FirstBlock(items, header) ==
    CHOOSE i \in DOMAIN items : /\ items[i].block /\ items[i].words = header
                                /\ \A j \in 1..i - 1 : items[j].words # header
HasBlock(items, header) == \E it \in Range(items) : it.block /\ it.words = header
Body(items, header) == IF HasBlock(items, header) THEN items[FirstBlock(items, header)].body ELSE <<>>
PutBody(kind, items, header, body) ==
    LET with == WithBlock(kind, items, header)
    IN [with EXCEPT ![FirstBlock(with, header)].body = body]
\* retain: the items without the lines that start with these words.
Without(items, start) ==
    SelectSeq(items, LAMBDA it : it.block \/ SubSeq(it.words, 1, Len(start)) # start)
WithoutBlocks(items, header) == SelectSeq(items, LAMBDA it : it.words # header)
\* Mutant: every line with the same keyword is replaced.
Put_All(kind, items, start, line) == Typed(kind, Append(Without(items, <<line[1]>>), Line(line)))
Put(kind, items, start, line) == Typed(kind, Append(Without(items, start), Line(line)))

SetTelemetry(items, w) ==
    LET has(key) == HasBlock(items, <<key>>)
    IN CASE w[1] = "json" -> [ok |-> ~has("cloudwatch-emf"),
                              body |-> IF has("cloudwatch-emf") THEN items
                                       ELSE WithBlock("telemetry", items, <<"json">>)]
         [] w[1] = "cloudwatch-emf" ->
                [ok |-> ~has("json"),
                 body |-> IF has("json") THEN items
                          ELSE PutBody("telemetry", items, <<w[1]>>, <<Line(<<"namespace", w[3]>>)>>)]
         [] OTHER -> Done(IF Len(w) = 1 THEN WithBlock("telemetry", items, w)
                          ELSE PutBody("telemetry", items, <<w[1]>>, <<Line(<<"listen", w[3]>>)>>))
\* The apply_set_* functions.
Set(items, w) ==
    LET inner == Body(items, <<w[1], w[2]>>)
    IN CASE w[1] \in Range(TopKeys) -> Done(Put("bgp", items, <<w[1]>>, w))
         [] w[1] = "originate" ->
                Done(Put("bgp", items, <<w[1], w[2]>>, <<w[1], w[2], w[4]>>))
         [] w[1] = "peer" /\ w[3] # "family" ->
                Done(PutBody("bgp", items, <<w[1], w[2]>>, Put("peer", inner, <<w[3]>>, <<w[3], w[4]>>)))
         [] w[1] = "peer" /\ w[3] = "family" ->
                LET family == <<w[3], w[4], w[5]>>
                    directives == Put("family", Body(inner, family), <<w[6]>>, <<w[6], w[8]>>)
                IN Done(PutBody("bgp", items, <<w[1], w[2]>>, PutBody("peer", inner, family, directives)))
         [] w[1] = "policy" ->
                LET rule == SubSeq(w, 3, Len(w)) IN
                Done(PutBody("bgp", items, <<w[1], w[2]>>,
                             Put("policy", inner, SubSeq(rule, 1, Len(rule) - 1), rule)))
         [] w[1] = "prefix-list" ->
                Done(PutBody("bgp", items, <<w[1], w[2]>>,
                             IF Having(inner, w[3]) # <<>> THEN inner
                             ELSE Append(inner, Line(<<w[3], None, None>>))))
         [] w[1] \in {"bmp-server", "rpki-cache"} ->
                Done(PutBody("bgp", items, <<w[1], w[2]>>, Put(w[1], inner, <<w[3]>>, <<w[3], w[4]>>)))
         [] w[1] = "bgp-ls" -> Done(PutBody("bgp", items, <<w[1]>>, <<Line(<<w[2], w[3]>>)>>))
         [] w[1] = "telemetry" ->
                LET r == SetTelemetry(Body(items, <<w[1]>>), Tail(w))
                IN [ok |-> r.ok, body |-> PutBody("bgp", items, <<w[1]>>, r.body)]
\* The apply_unset_* functions: an error when there is nothing to remove.
Removed(items, left) == [ok |-> Len(left) < Len(items), body |-> left]
UnsetLine(kind, items, w) == Removed(items, Without(items, IF kind = "family" THEN <<w[1]>> ELSE w))
RECURSIVE Unset(_, _, _)
Unset(kind, items, w) ==
    LET depth == CASE w[1] = "family" -> 3 [] Len(w) = 1 \/ w[1] \in {"bgp-ls", "telemetry", "prometheus"} -> 1
                   [] OTHER -> 2
        header == SubSeq(w, 1, depth)
        rest == SubSeq(w, depth + 1, Len(w))
    IN CASE w = <<"bgp-ls", "instance-id">> -> [ok |-> FALSE, body |-> items]
         [] w # <<"bgp-ls", "instance-id">> /\ (w[1] = "originate" \/ kind \notin {"bgp", "telemetry", "peer"}) ->
                UnsetLine(kind, items, w)
         [] OTHER -> IF rest = <<>> THEN Removed(items, Without(WithoutBlocks(items, header), header))
                     ELSE IF ~HasBlock(items, header) THEN [ok |-> FALSE, body |-> items]
                     ELSE LET r == Unset(w[1], Body(items, header), rest)
                          IN [ok |-> r.ok, body |-> PutBody(kind, items, header, r.body)]

\* execute: the candidate and the error after an editing command of (config-bgp).
Edit(items, w) == IF w[1] = "unset" THEN Unset("bgp", items, Tail(w)) ELSE Set(items, w)
\* Nodes that only read: show, commit and exit are actions of the session.
Edits == set_subtree \cup Under(<<"unset">>, unset_subtree)

-----------------------------------------------------------------------------
RECURSIVE Words(_, _)
\* flatten: one line of words per leaf, as `show diff` compares them.  Sets other
\* than prefix lists are not listed, nor are blocks without a line.
Words(kind, it) == IF ~it.block THEN Printed(kind, it.words)
                   ELSE it.words \o FlattenSeq([i \in DOMAIN it.body |-> Words("statement", it.body[i])])
flatten(items) ==
    LET leaves(kind, header, body) == {header \o Words(kind, it) : it \in Range(body)}
        inside(it) ==
            CASE it.words[1] = "peer" ->
                    leaves("peer", it.words, Lines(it.body))
                    \cup UNION {leaves("family", it.words \o f.words, f.body) : f \in Range(Having(it.body, "family"))}
              [] it.words[1] = "telemetry" ->
                    {it.words \o b.words \o FlattenSeq([i \in DOMAIN b.body |-> b.body[i].words]) : b \in Range(it.body)}
              [] it.words[1] \in Range(SetKinds) \ {"prefix-list"} -> {}
              [] OTHER -> leaves(it.words[1], it.words, it.body)
    IN {Printed("bgp", it.words) : it \in Range(Lines(items))}
       \cup UNION {inside(it) : it \in {b \in Range(items) : b.block}}
=============================================================================
