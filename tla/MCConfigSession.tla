-------------------------- MODULE MCConfigSession ---------------------------
(***************************************************************************)
(* Instances of ConfigSession: two shells and a server with a peer, a      *)
(* policy and a BMP server.  A setup is one question: edits that race, a   *)
(* crash or a failed write in a commit, a killed shell, imperative         *)
(* requests and saves, rollbacks, sets that policies miss, values that the *)
(* printer does not protect.                                               *)
(***************************************************************************)
EXTENDS ConfigSession, Management, ConfEdit

CONSTANTS s1, s2

\* What the session is instantiated with.
EnterCandidate(text) == LET root == Parse("root", text)
                        IN [ok |-> ~Failed(root), body |-> IF Failed(root) \/ root = <<>> THEN <<>> ELSE root[1].body]
Text(body) == Display("root", <<Block(<<"service", "bgp">>, body)>>)
IsEdit(words) == parse(tree_config_bgp, words) = "execution"
EditedBody(body, words) == Edit(body, words).body
IsRouteRequest(op) == op[1] \in Unlocked
PeersToMeet(s) == {a \in DOMAIN s.peers \cap Addresses(s.config.peers) : s.peers[a].down = "false"}
Meet(s, a) == Handshake(s, a, {<<"ipv4", "unicast">>})

L(w) == Line(w)
BaseBody == <<L(<<"asn", "65000">>), L(<<"router-id", "1.1.1.1">>), L(<<"hold-time", "30">>),
              L(<<"originate", "10.1.0.0/16", "10.0.0.1">>),
              Block(<<"peer", "10.0.0.1">>, <<L(<<"remote-as", "65001">>),
                    Block(<<"family", "ipv4", "unicast">>, <<L(<<"import", "P">>)>>)>>),
              Block(<<"bmp-server", "10.0.0.9:1790">>, <<>>),
              Block(<<"policy", "P">>, <<L(<<"match", "S", "accept">>)>>),
              Block(<<"prefix-list", "S">>, <<L(<<"10.1.0.0/16", "24", None>>)>>)>>
NoFaults == [kills |-> 0, crashes |-> 0, writes |-> 0]
Scenario(n, edits, ops, kinds, versions, f) ==
    [text |-> Text(BaseBody), shells |-> n, edits |-> edits, requests |-> ops, kinds |-> kinds,
     versions |-> versions, faults |-> f]
Statement(name, disp) == [name |-> <<>>, conds |-> "prefix-set" :> <<name, "any">>, acts |-> <<>>, disp |-> {disp}]
Peer2 == [DefaultPeer("10.0.0.2") EXCEPT !.set["remote-as"] = "65000"]
OddPeer == [Peer2 EXCEPT !.set["md5-key-file"] = "/k{y"]
Rpki == [address |-> "10.0.0.9:323", opts |-> [k \in Range(RpkiKeys) |-> RpkiDefault(k)]]

ShellSymmetry == Permutations(Shells)
Scenarios ==
  <<Scenario(2, {}, {}, {"commit"}, 3, [NoFaults EXCEPT !.kills = 1]),
    Scenario(1, {<<"originate", "10.2.0.0/16", "nexthop", "10.0.0.2">>, <<"unset", "peer", "10.0.0.1">>, <<"asn", "65001">>,
                 <<"peer", "10.0.0.1", "family", "ipv4", "unicast", "import", "policy", "Q">>,
                 <<"prefix-list", "S", "10.2.0.0/16">>}, {}, {"commit"}, 2, NoFaults),
    Scenario(1, {<<"peer", "10.0.0.2", "remote-as", "65000">>, <<"telemetry", "prometheus">>},
             {}, {"commit", "rollback"}, 3, [kills |-> 0, crashes |-> 1, writes |-> 0]),
    Scenario(1, {<<"originate", "10.1.0.0/16", "nexthop", "10.0.0.2">>, <<"rpki-cache", "10.0.0.9:323", "preference", "7">>},
             {}, {"commit", "rollback"}, 3, [kills |-> 0, crashes |-> 0, writes |-> 1]),
    Scenario(1, {}, {<<"add-peer", Peer2>>, <<"disable-peer", "10.0.0.2">>, <<"remove-peer", "10.0.0.1">>},
             {"save"}, 2, NoFaults),
    Scenario(0, {}, {<<"add-set", "prefix-list", [name |-> "T", lines |-> <<<<"10.2.0.0/16", None, None>>>>]>>,
                     <<"add-policy", [name |-> "Q", statements |-> <<Statement("T", "reject")>>]>>,
                     <<"remove-set", "prefix-list", "T">>, <<"remove-policy", "Q">>,
                     <<"assign-policy", "10.0.0.1", <<"ipv4", "unicast">>, <<"Q">>>>}, {"save"}, 2, NoFaults),
    Scenario(1, {}, {<<"add-rpki", Rpki>>, <<"remove-rpki", Rpki.address>>, <<"remove-bmp", "10.0.0.9:1790">>,
                     <<"add-bmp", [address |-> "10.0.0.9:9000", timeout |-> None]>>}, {"save"}, 2, NoFaults),
    Scenario(1, {}, {<<"graceful-shutdown", "10.0.0.1", "true">>, <<"enable-peer", "10.0.0.1">>,
                     <<"disable-peer", "10.0.0.1">>}, {"save"}, 2, NoFaults),
    Scenario(1, {<<"unset", "prefix-list", "S">>, <<"unset", "prefix-list", "S", "10.1.0.0/16">>,
                 <<"prefix-list", "S", "10.1.0.0/16">>, <<"policy", "P", "match", "NoSet", "accept">>},
             {}, {"commit"}, 2, [NoFaults EXCEPT !.crashes = 1]),
    Scenario(1, {<<"sys-name", "edge\"1">>, <<"sys-name", "core#1">>, <<"peer", "10.0.0.1", "md5-key-file", "/k#y">>,
                 <<"peer", "10.0.0.1", "md5-key-file", "/k{y">>}, {}, {"commit"}, 2, NoFaults),
    Scenario(1, {}, {<<"add-peer", OddPeer>>, <<"add-policy", [name |-> "_Q", statements |-> <<Statement("S", "reject")>>]>>},
             {"save"}, 2, NoFaults),
    Scenario(1, {}, {<<"add-route", "10.2.0.0/16", "10.0.0.2">>, <<"remove-route", "10.1.0.0/16">>}, {"save"}, 2, NoFaults)>>
MCSetups == Range(Scenarios)

Quiet == up /\ job = Idle
RunsConfig(c) ==
    LET task(p) == [p EXCEPT !.families = <<>>, !.set["admin-down"] = "", !.set["graceful-shutdown"] = ""]
    IN /\ DOMAIN srv.peers = Addresses(c.peers)
       /\ \A a \in DOMAIN srv.peers : /\ task(srv.peers[a].cfg) = task(find_peer(c, a))
                                      /\ srv.peers[a].down = find_peer(c, a).set["admin-down"]
       /\ srv.bmp = [a \in Addresses(c.bmp) |-> LastWith(c.bmp, a).timeout]
       /\ DOMAIN srv.caches = Addresses(c.rpki)
       /\ \/ \E op \in setup.requests : op[1] \in Unlocked
          \/ srv.routes = [p \in {o[1] : o \in Range(c.originate)} |-> (CHOOSE o \in Range(c.originate) : o[1] = p)[2]]
       /\ srv.prom = PromOf(c) /\ srv.sink = SinkOf(c)
\* Between requests the server runs what its config says: the peers with their
\* settings and admin states, the BMP and RPKI tasks, the originated routes, the
\* prometheus listener and the sink (routes of the API aside), through commits, rollbacks and imperative
\* requests, unless a commit failed half-way.
RunsWhatItSays == Quiet /\ ~dirty => RunsConfig(srv.config)
\* Whatever is added and removed, a policy in the server's context decides with the
\* sets the context has under the names it uses.
PoliciesUseCurrentSets ==
    \A n \in DOMAIN srv.ctx.policies : \A st \in Range(srv.ctx.policies[n]) :
        \A key \in DOMAIN st.conds \cap SetRefs :
            LET set == st.conds[key].set IN set.name \in DOMAIN srv.ctx.sets[SetKindOf(key)]
                                            /\ srv.ctx.sets[SetKindOf(key)][set.name] = set
RECURSIVE Plain(_, _)
\* A tree whose values the tokeniser reads back as they are printed: none of those
\* written bare has a blank, a `#` or a brace, none of the quoted ones a quote.
Plain(kind, items) ==
    \A it \in Range(items) :
        Range(it.words) \cap (IF ~it.block /\ Quoted(kind, it.words) THEN DOMAIN Cleaned \cup {""} ELSE DOMAIN Parts) = {}
        /\ (it.block => Plain(KindOf(it.words), it.body))
\* A config that the language can say: no peer with fields that only the API sets,
\* no family without a directive, no policy the grammar lacks words for, no prefix
\* list without a line, and plain values.
Writable(c) ==
    /\ \A p \in Range(c.peers) : p.api = "default" /\ \A e \in Range(p.families) : e # NewFamily(e.family)
    /\ \A d \in Range(c.policies) : Expressible(d)
    /\ \A s \in Range(c.sets["prefix-list"]) : s.lines # <<>>
    /\ Plain("bgp", to_bgp_service_body(c))
\* At every moment, a crash or a failed commit included, rogg.conf loads to exactly
\* the config the server has or had when it died, unless requests changed that since
\* or the language cannot say it.  A daemon starts from it if the policies
\* of that config build from its sets, which a commit does not check.
FileHoldsConfig ==
    ~unsaved /\ Writable(srv.config) =>
        /\ from_conf_str(file.text) = [ok |-> TRUE, config |-> srv.config]
        /\ ContextOk(srv.config) => Loads
\* The text a shell sends reads back as its candidate when its values are plain.
CandidateReads ==
    \A s \in Shells : shells[s].at = "config" /\ Plain("bgp", shells[s].cand) =>
        Parse("root", Text(shells[s].cand)) = <<Block(<<"service", "bgp">>, shells[s].cand)>>
\* The line a set command is about, as the diff shows it: quote_if_needed takes the
\* double quotes out of a system name.
Shown(w) == IF w[1] \in {"sys-name", "sys-descr"} /\ w[2] \in DOMAIN Cleaned THEN <<w[1], Cleaned[w[2]]>> ELSE w
\* A set command changes the one line it names: the diff shows that line as added
\* and at most lines of the same key as removed, except that a prefix its list has
\* already, with whichever range, changes nothing; unset adds nothing.
EditIsLocal ==
    \A s \in Shells : \A w \in setup.edits :
        LET before == flatten(shells[s].cand)
            done == Edit(shells[s].cand, w)
            after == flatten(done.body)
        IN shells[s].at = "config" /\ done.ok =>
              CASE w[1] = "unset" -> after \subseteq before
                [] w[1] = "prefix-list" /\ (\E l \in before : IsPrefix(w, l)) -> done.body = shells[s].cand
                [] OTHER -> /\ Shown(w) \in after /\ after \ before \subseteq {Shown(w)}
                            /\ \A l \in before \ after : SubSeq(l, 1, Len(w) - 1) = SubSeq(w, 1, Len(w) - 1)

-----------------------------------------------------------------------------
(***************************************************************************)
(* Claims of the code's comments that it does not keep.                    *)
(***************************************************************************)

RefusedSetups == {Scenario(2, {}, {<<"add-peer", Peer2>>}, {"commit"}, 2, NoFaults)}
\* conf::fs: imperative handlers refuse to change the config while a shell is in
\* configure mode.
MutationsRefusedInSession ==
    [][\A s \in Shells : shells[s].at = "config" /\ requests' # requests => srv'.config = srv.config]_vars

RecoverSetups == {Scenario(1, {<<"peer", "10.0.0.2", "remote-as", "65000">>}, {}, {"commit", "rollback"}, 4,
                           [NoFaults EXCEPT !.writes = 1])}
\* commit_config: after a commit that failed half-way, RollbackConfig brings the
\* server back to running the config it then has.
RollbackRecovers == Quiet /\ Last(log).kind = "rollback" => RunsConfig(srv.config)

\* from_conf_str, BgpServer::new: a daemon that was committed to starts again.
EveryFileStarts == Loads
\* Whatever was edited, the text a shell sends reads back as its candidate.
EveryCandidateReads ==
    \A s \in Shells : shells[s].at = "config" => Parse("root", Text(shells[s].cand)) =
                                                  <<Block(<<"service", "bgp">>, shells[s].cand)>>

-----------------------------------------------------------------------------
\* A candidate of plain values reads back from its text, and an edit changes the one
\* line it names (Shell's set and unset commands, the printer and parser of
\* conf::language).
EditsAreFaithful == TypeOK /\ CandidateReads /\ EditIsLocal

\* The file holds the config the server has and the server runs what that config
\* says, through crashes and failed writes (conf::fs, server::config), with the
\* exceptions of the two parts: what the language cannot say, policies whose sets
\* are missing, and a commit that failed half-way.
ServerRunsItsConfig == FileHoldsConfig /\ RunsWhatItSays
=============================================================================
