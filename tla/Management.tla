----------------------------- MODULE Management -----------------------------
(***************************************************************************)
(* What the server task does to its configuration and to what runs from it *)
(* (server::config, server::mod, server::ops_mgmt, server::prometheus): it *)
(* starts from a BgpConfig, is reconfigured to another one, and answers    *)
(* the imperative requests of the API.  A server is a record:              *)
(*   config   self.config                                                  *)
(*   peers    address -> [cfg, down, local, import]: the task's config,    *)
(*            the admin state, the daemon-wide values it was spawned with, *)
(*            the import policies in use per family                        *)
(*   bmp, caches   address -> what the task was started with               *)
(*   rtr      is the RTR manager running                                   *)
(*   routes   prefix -> next hop of the local routes                       *)
(*   prom     the address of the prometheus listener, or nothing           *)
(*   sink, ctx  the telemetry sink and the policy context                  *)
(***************************************************************************)
EXTENDS Policy

Answer(ok, srv) == [ok |-> ok, srv |-> srv]
With(f, k, v) == (k :> v) @@ f
Without1(f, k) == [x \in DOMAIN f \ {k} |-> f[x]]
NoFun == <<>>

\* PeerConfig::validate; parse_prefix_and_nexthop; rpki_cache_to_transport.
validate_peer(p) == ~(p.set["rr-client"] = "true" /\ p.set["rs-client"] = "true") /\ p.api # "invalid"
parse_prefix_and_nexthop_ok(o) == o[1] \in DOMAIN NetOf /\ o[2] \in IpAddr
rpki_cache_to_transport_ok(r) ==
    r.opts["transport"] = "tcp" \/ (r.opts["ssh-username"] # None /\ r.opts["ssh-private-key-file"] # None)
PromOf(config) == IF config.telemetry = <<>> THEN <<>> ELSE config.telemetry[1].prom
SinkOf(config) == IF config.telemetry = <<>> THEN <<>> ELSE config.telemetry[1].sink
\* The entry with this address that stands last, as a HashMap filled in order keeps it.
LastWith(entries, address) ==
    entries[CHOOSE i \in DOMAIN entries : /\ entries[i].address = address
                                          /\ \A j \in i + 1..Len(entries) : entries[j].address # address]
Addresses(entries) == {e.address : e \in Range(entries)}
Parsed(entries) == SelectSeq(entries, LAMBDA e : e.address \in AddrPorts)
\* find_peer, find_peer_mut: the first entry with the address.
IndexOfPeer(config, a) == SelectInSeq(config.peers, LAMBDA p : p.address = a)
find_peer(config, a) == config.peers[IndexOfPeer(config, a)]
UpdatePeer(config, a, p) == [config EXCEPT !.peers[IndexOfPeer(config, a)] = p]

-----------------------------------------------------------------------------
(***************************************************************************)
(* Parts that run.                                                         *)
(***************************************************************************)

\* spawn_peer, spawn_and_start_peer: the task keeps the daemon-wide values of
\* the config the server has at that moment.
LocalConfig(config) == [k \in {"hold-time", "connect-retry", "cluster-id"} |-> config.top[k]]
spawn_and_start_peer(srv, p) ==
    [srv EXCEPT !.peers = With(@, p.address, [cfg |-> p, down |-> p.set["admin-down"],
                                              local |-> LocalConfig(srv.config), import |-> NoFun])]
shutdown_and_remove_peer(srv, a) == [srv EXCEPT !.peers = Without1(@, a)]
spawn_single_bmp_task(srv, a, timeout) == [srv EXCEPT !.bmp = With(@, a, timeout)]
stop_single_bmp_task(srv, a) == [srv EXCEPT !.bmp = Without1(@, a)]
spawn_single_rpki_cache(srv, r) == [srv EXCEPT !.rtr = TRUE, !.caches = With(@, r.address, r.opts)]
stop_single_rpki_cache(srv, a) ==
    IF srv.rtr THEN Answer(TRUE, [srv EXCEPT !.caches = Without1(@, a)]) ELSE Answer(FALSE, srv)
add_local_route(srv, prefix, nexthop) == [srv EXCEPT !.routes = With(@, prefix, nexthop)]
remove_local_route(srv, prefix) == [srv EXCEPT !.routes = Without1(@, prefix)]
\* handle_peer_handshake_complete: the policies of the session are those the
\* config names for each family, then the fallback of the session type.
Handshake(srv, a, families) ==
    LET p == find_peer(srv.config, a)
        ebgp == p.set["remote-as"] # srv.config.top["asn"]
        named(f) == LET e == SelectSeq(p.families, LAMBDA x : x.family = f)
                    IN IF e = <<>> THEN <<>> ELSE e[1].import
    IN [srv EXCEPT !.peers[a].import = [f \in families |-> resolve_policies(srv.ctx, named(f), ebgp)]]

-----------------------------------------------------------------------------
(***************************************************************************)
(* Start: BgpServer::new, the checks of bgpggd, the init_configured steps. *)
(***************************************************************************)

StartOk(config) ==
    /\ config.top["listen-addr"] \in AddrPorts /\ config.top["grpc-listen-addr"] \in AddrPorts
    /\ ContextOk(config) /\ \A p \in Range(config.peers) : validate_peer(p)
init_configured_peers(srv) == FoldLeft(spawn_and_start_peer, srv, srv.config.peers)
init_configured_bmp_servers(srv) ==
    FoldLeft(LAMBDA s, b : spawn_single_bmp_task(s, b.address, b.timeout), srv, Parsed(srv.config.bmp))
init_configured_rpki_caches(srv) ==
    IF srv.config.rpki = <<>> THEN srv
    ELSE FoldLeft(spawn_single_rpki_cache, [srv EXCEPT !.rtr = TRUE],
                  SelectSeq(Parsed(srv.config.rpki), rpki_cache_to_transport_ok))
init_configured_originate_routes(srv) ==
    FoldLeft(LAMBDA s, o : add_local_route(s, o[1], o[2]), srv,
             SelectSeq(srv.config.originate, parse_prefix_and_nexthop_ok))
init_configured_prometheus(srv) ==
    [srv EXCEPT !.prom = SelectSeq(PromOf(srv.config), LAMBDA l : l \in AddrPorts)]
New(config) ==
    [config |-> config, peers |-> NoFun, bmp |-> NoFun, rtr |-> FALSE, caches |-> NoFun, routes |-> NoFun,
     prom |-> <<>>, sink |-> SinkOf(config), ctx |-> ContextFrom(config)]
Started(config) ==
    init_configured_prometheus(init_configured_originate_routes(init_configured_rpki_caches(
        init_configured_bmp_servers(init_configured_peers(New(config))))))

-----------------------------------------------------------------------------
(***************************************************************************)
(* Reconfiguration: the difference between srv.config and new is applied   *)
(* part by part; the first part that fails leaves what is done.            *)
(***************************************************************************)

reconfigure_peers(srv, new) ==
    LET old == srv.config
        gone == SelectSeq(old.peers, LAMBDA p : p.address \notin Addresses(new.peers))
        stopped == FoldLeft(LAMBDA s, p : shutdown_and_remove_peer(s, p.address), srv, gone)
        changed == SelectSeq(new.peers, LAMBDA p : \/ p.address \notin Addresses(old.peers)
                                                   \/ find_peer(old, p.address) # p)
    IN FoldLeft(spawn_and_start_peer, stopped, changed)
reconfigure_originate_routes(srv, new) ==
    LET by(entries) == [p \in {o[1] : o \in Range(entries)} |->
                          (CHOOSE i \in DOMAIN entries : /\ entries[i][1] = p
                                                         /\ \A j \in i + 1..Len(entries) : entries[j][1] # p)]
        differs(o, entries) == o[1] \notin DOMAIN by(entries) \/ entries[by(entries)[o[1]]][2] # o[2]
        old == srv.config.originate
        removed == FoldLeft(LAMBDA s, o : IF differs(o, new.originate) /\ parse_prefix_and_nexthop_ok(o)
                                          THEN remove_local_route(s, o[1]) ELSE s, srv, old)
    IN FoldLeft(LAMBDA s, o : IF differs(o, old) THEN add_local_route(s, o[1], o[2]) ELSE s,
                removed, new.originate)
reconfigure_bmp_servers(srv, new) ==
    LET old == Parsed(srv.config.bmp)
        stopped == [srv EXCEPT !.bmp = [a \in DOMAIN @ \ (Addresses(old) \ Addresses(new.bmp)) |-> @[a]]]
        spawns(a) == a \notin Addresses(old) \/ LastWith(old, a).timeout # LastWith(new.bmp, a).timeout
    IN IF \E b \in Range(new.bmp) : b.address \notin AddrPorts THEN Answer(FALSE, srv)
       ELSE Answer(TRUE, FoldLeft(LAMBDA s, b : IF spawns(b.address)
                                                THEN spawn_single_bmp_task(s, b.address, LastWith(new.bmp, b.address).timeout)
                                                ELSE s, stopped, new.bmp))
reconfigure_rpki_caches(srv, new) ==
    LET old == Parsed(srv.config.rpki)
        gone == Addresses(old) \ Addresses(new.rpki)
        stopped == [srv EXCEPT !.caches = [a \in DOMAIN @ \ gone |-> @[a]]]
    IN IF \E r \in Range(new.rpki) : r.address \notin AddrPorts \/ ~rpki_cache_to_transport_ok(r)
       THEN Answer(FALSE, srv)
       ELSE IF gone # {} /\ ~srv.rtr THEN Answer(FALSE, srv)
       ELSE Answer(TRUE, FoldLeft(LAMBDA s, r : IF r.address \in Addresses(old) THEN s
                                                ELSE spawn_single_rpki_cache(s, LastWith(new.rpki, r.address)),
                                  stopped, new.rpki))
reconfigure_prometheus(srv, new) ==
    IF \E l \in Range(PromOf(new)) : l \notin AddrPorts THEN Answer(FALSE, srv)
    ELSE Answer(TRUE, [srv EXCEPT !.prom = PromOf(new)])
reconfigure_all(srv, new) ==
    LET bmp == reconfigure_bmp_servers(reconfigure_originate_routes(reconfigure_peers(srv, new), new), new)
        rpki == IF bmp.ok THEN reconfigure_rpki_caches(bmp.srv, new) ELSE bmp
    IN IF rpki.ok THEN reconfigure_prometheus(rpki.srv, new) ELSE rpki
reject_unsupported_changes(old, new) ==
    \E k \in {"asn", "router-id", "listen-addr", "grpc-listen-addr"} : old.top[k] # new.top[k]
\* apply_config up to the write of the file: ok when the file is to be written.
apply_config(srv, new) ==
    LET done == reconfigure_all(srv, new)
    IN IF \/ \E p \in Range(new.peers) : ~validate_peer(p)
          \/ \E o \in Range(new.originate) : ~parse_prefix_and_nexthop_ok(o)
          \/ reject_unsupported_changes(srv.config, new)
       THEN Answer(FALSE, srv)
       ELSE Answer(done.ok, IF done.ok THEN [done.srv EXCEPT !.sink = SinkOf(new)] ELSE done.srv)

-----------------------------------------------------------------------------
(***************************************************************************)
(* The imperative requests.  All but the route requests run under a shared *)
(* lock on the configure session's lock file.                              *)
(***************************************************************************)

handle_add_peer(srv, p) ==
    IF p.address \notin IpAddr \/ p.address \in DOMAIN srv.peers \/ ~validate_peer(p) THEN Answer(FALSE, srv)
    ELSE Answer(TRUE, spawn_and_start_peer([srv EXCEPT !.config.peers = Append(@, p)], p))
handle_remove_peer(srv, a) ==
    IF a \notin DOMAIN srv.peers THEN Answer(FALSE, srv)
    ELSE Answer(TRUE, [shutdown_and_remove_peer(srv, a) EXCEPT
                          !.config.peers = SelectSeq(@, LAMBDA p : p.address # a)])
\* A setting of the peer's entry in self.config, if there is one.
ConfigSetting(srv, a, key, value) ==
    IF a \notin Addresses(srv.config.peers) THEN srv
    ELSE [srv EXCEPT !.config = UpdatePeer(@, a, [find_peer(@, a) EXCEPT !.set[key] = value])]
\* Mutant: the config is not told.
handle_disable_peer_RuntimeOnly(srv, a) ==
    IF a \notin DOMAIN srv.peers THEN Answer(FALSE, srv) ELSE Answer(TRUE, [srv EXCEPT !.peers[a].down = "true"])
handle_disable_peer(srv, a) ==
    IF a \notin DOMAIN srv.peers THEN Answer(FALSE, srv)
    ELSE Answer(TRUE, [ConfigSetting(srv, a, "admin-down", "true") EXCEPT !.peers[a].down = "true"])
handle_enable_peer(srv, a) ==
    IF a \notin DOMAIN srv.peers THEN Answer(FALSE, srv)
    ELSE Answer(TRUE, [ConfigSetting(srv, a, "admin-down", "false") EXCEPT !.peers[a].down = "false"])
handle_set_peer_graceful_shutdown(srv, a, on) ==
    IF a \notin DOMAIN srv.peers THEN Answer(FALSE, srv)
    ELSE Answer(TRUE, ConfigSetting(srv, a, "graceful-shutdown", on))
handle_add_route(srv, prefix, nexthop) == Answer(TRUE, add_local_route(srv, prefix, nexthop))
handle_remove_route(srv, prefix) == Answer(TRUE, remove_local_route(srv, prefix))
handle_add_bmp_server(srv, b) ==
    IF b.address \in DOMAIN srv.bmp THEN Answer(FALSE, srv)
    ELSE Answer(TRUE, spawn_single_bmp_task([srv EXCEPT !.config.bmp = Append(@, b)], b.address, b.timeout))
handle_remove_bmp_server(srv, a) ==
    IF a \notin DOMAIN srv.bmp THEN Answer(FALSE, srv)
    ELSE Answer(TRUE, stop_single_bmp_task([srv EXCEPT !.config.bmp = SelectSeq(@, LAMBDA b : b.address # a)], a))
handle_add_rpki_cache(srv, r) ==
    IF \/ r.address \notin AddrPorts \/ r.address \in Addresses(srv.config.rpki) \/ ~rpki_cache_to_transport_ok(r)
    THEN Answer(FALSE, srv)
    ELSE Answer(TRUE, [spawn_single_rpki_cache(srv, r) EXCEPT !.config.rpki = Append(@, r)])
handle_remove_rpki_cache(srv, a) ==
    IF a \notin Addresses(srv.config.rpki) THEN Answer(FALSE, srv)
    ELSE stop_single_rpki_cache([srv EXCEPT !.config.rpki = SelectSeq(@, LAMBDA r : r.address # a)], a)
handle_add_defined_set(srv, kind, s) ==
    IF s.name \in DOMAIN srv.ctx.sets[kind] \/ ~SetOk(kind, s) THEN Answer(FALSE, srv)
    ELSE Answer(TRUE, [srv EXCEPT !.ctx.sets[kind] = With(@, s.name, Compiled(kind, s)),
                                  !.config.sets[kind] = Append(@, s)])
\* Mutant: a set in use may be removed.
handle_remove_defined_set_Unchecked(srv, kind, name) ==
    Answer(TRUE, [srv EXCEPT !.ctx.sets[kind] = Without1(@, name),
                             !.config.sets[kind] = SelectSeq(@, LAMBDA s : s.name # name)])
handle_remove_defined_set(srv, kind, name) ==
    IF \E n \in DOMAIN srv.ctx.policies : policy_references_set(srv.ctx.policies[n], kind, name)
    THEN Answer(FALSE, srv)
    ELSE Answer(TRUE, [srv EXCEPT !.ctx.sets[kind] = Without1(@, name),
                                  !.config.sets[kind] = SelectSeq(@, LAMBDA s : s.name # name)])
\* The names the instances use that begin with an underscore.
BuiltInNames == {"_Q"}
handle_add_policy(srv, def) ==
    IF def.name \in BuiltInNames \/ ~DefinitionOk(def, srv.ctx.sets) THEN Answer(FALSE, srv)
    ELSE Answer(TRUE, [srv EXCEPT !.ctx.policies = With(@, def.name, PolicyFromConfig(def, srv.ctx.sets)),
                                  !.config.policies =
                                     IF def.name \in {d.name : d \in Range(@)}
                                     THEN [i \in DOMAIN @ |-> IF @[i].name = def.name THEN def ELSE @[i]]
                                     ELSE Append(@, def)])
handle_remove_policy(srv, name) ==
    Answer(TRUE, [srv EXCEPT !.ctx.policies = Without1(@, name),
                             !.config.policies = SelectSeq(@, LAMBDA d : d.name # name)])
\* The chain put in use has no fallback; the config gets the names.
handle_set_policy_assignment(srv, a, family, names) ==
    LET p == find_peer(srv.config, a)
        entries == afi_safi_entry_mut(p.families, family)
        assigned == [i \in DOMAIN entries |-> IF entries[i].family = family
                                              THEN [entries[i] EXCEPT !.import = names] ELSE entries[i]]
    IN IF ~(Range(names) \subseteq DOMAIN srv.ctx.policies) \/ a \notin DOMAIN srv.peers THEN Answer(FALSE, srv)
       ELSE Answer(TRUE, [srv EXCEPT
                !.peers[a].import = With(@, family, Map(names, LAMBDA n : srv.ctx.policies[n])),
                !.config = IF a \in Addresses(@.peers) THEN UpdatePeer(@, a, [p EXCEPT !.families = assigned]) ELSE @])
\* handle_mgmt_op: a request is its name and its arguments.
handle_mgmt_op(srv, op) ==
    CASE op[1] = "add-peer" -> handle_add_peer(srv, op[2])
      [] op[1] = "remove-peer" -> handle_remove_peer(srv, op[2])
      [] op[1] = "disable-peer" -> handle_disable_peer(srv, op[2])
      [] op[1] = "enable-peer" -> handle_enable_peer(srv, op[2])
      [] op[1] = "graceful-shutdown" -> handle_set_peer_graceful_shutdown(srv, op[2], op[3])
      [] op[1] = "add-route" -> handle_add_route(srv, op[2], op[3])
      [] op[1] = "remove-route" -> handle_remove_route(srv, op[2])
      [] op[1] = "add-bmp" -> handle_add_bmp_server(srv, op[2])
      [] op[1] = "remove-bmp" -> handle_remove_bmp_server(srv, op[2])
      [] op[1] = "add-rpki" -> handle_add_rpki_cache(srv, op[2])
      [] op[1] = "remove-rpki" -> handle_remove_rpki_cache(srv, op[2])
      [] op[1] = "add-set" -> handle_add_defined_set(srv, op[2], op[3])
      [] op[1] = "remove-set" -> handle_remove_defined_set(srv, op[2], op[3])
      [] op[1] = "add-policy" -> handle_add_policy(srv, op[2])
      [] op[1] = "remove-policy" -> handle_remove_policy(srv, op[2])
      [] op[1] = "assign-policy" -> handle_set_policy_assignment(srv, op[2], op[3], op[4])
Unlocked == {"add-route", "remove-route"}
=============================================================================
