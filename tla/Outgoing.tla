------------------------------ MODULE Outgoing ------------------------------
(***************************************************************************)
(* What one peer is sent (peer/outgoing.rs, rib/rib_out.rs) and what a     *)
(* peer running the same code reads from it (peer/incoming.rs): export     *)
(* rules, attribute rewriting, the diff against the Adj-RIB-Out, batching  *)
(* and the size limit, over the messages of UpdateCodec.                   *)
(* The channel is reliable and ordered and nobody else writes to either    *)
(* table, so a change is read before the next one is made; unless the peer *)
(* task paces its UPDATEs (peer/state_established.rs), when changes and    *)
(* disconnections meet updates that wait.                                  *)
(* A path is [id, source, rpki, attrs], a source [kind, peer, bgp_id].     *)
(***************************************************************************)
EXTENDS UpdateCodec

CONSTANTS Setups       \* [ctx, locs, policies, mrai]: a session, Loc-RIBs, export policies, is it paced

VARIABLES
    setup,             \* the instance, chosen once
    policies,          \* the export policies of the peer
    loc,               \* Loc-RIB: key -> its paths, best first
    out,               \* Adj-RIB-Out: a set of [key, id, attrs]
    wire,              \* messages under way
    known,             \* the peer's Adj-RIB-In: a set of [key, pid, attrs]
    up,                \* the session is established
    unsent,            \* keys of batches dropped for their size, not sent since
    pace,              \* the peer task's queues, see the section on the task
    fault              \* None, or [kind, type]: what is wrong with a message of this session;
                       \* kind "panic": the peer's task has ended over it

vars == <<setup, policies, loc, out, wire, known, up, unsent, pace, fault>>

-----------------------------------------------------------------------------
(***************************************************************************)
(* Export of one path.                                                     *)
(***************************************************************************)

IsEbgp(c) == c.local_asn # c.peer_asn
IsIbgpSource(s) == s.kind \in {"ibgp", "rr_client"}
has(communities, c) == \E i \in DOMAIN communities : communities[i] = c

should_filter_by_community(communities, ebgp) ==
    \/ has(communities, "NO_ADVERTISE")
    \/ ebgp /\ (has(communities, "NO_EXPORT") \/ has(communities, "NO_EXPORT_SUBCONFED"))
should_export_to_peer(p, c) ==
    /\ ~(~IsEbgp(c) /\ p.source.kind = "ibgp" /\ ~c.rr_client)
    /\ p.source.peer # c.peer
    /\ ~should_filter_by_community(p.attrs.communities, IsEbgp(c))
    /\ has(p.attrs.communities, "LLGR_STALE") => c.llgr

Sequence(asns) == [type |-> "AS_SEQUENCE", asns |-> asns]
prepend_local_asn(path, asn) ==
    IF path # <<>> /\ path[1].type = "AS_SEQUENCE" THEN <<Sequence(<<asn>> \o path[1].asns)>> \o Tail(path)
    ELSE <<Sequence(<<asn>>)>> \o path
build_export_as_path(p, c) ==
    IF c.rs_client \/ ~IsEbgp(c) THEN p.attrs.as_path ELSE prepend_local_asn(p.attrs.as_path, c.local_asn)

build_export_local_pref(p, c) == IF IsEbgp(c) THEN None ELSE p.attrs.local_pref
build_export_med(p, c) ==
    LET first == p.attrs.as_path[1]
        ours == \/ p.source.kind = "local"
                \/ p.attrs.as_path = <<>>
                \/ first.asns # <<>> /\ first.asns[1] = c.local_asn /\ first.type # "AS_SET"
    IN IF c.rs_client \/ ~IsEbgp(c) \/ ours THEN p.attrs.med ELSE None
RpkiCommunity(state) == [name |-> state, transitive |-> FALSE, rpki |-> TRUE]
build_export_extended_communities(p, c) ==
    CASE c.rs_client -> p.attrs.ext
      [] ~c.rs_client /\ IsEbgp(c) -> SelectSeq(p.attrs.ext, LAMBDA e : e.transitive)
      [] ~c.rs_client /\ ~IsEbgp(c) ->
             IF c.send_rpki_community
             THEN Append(SelectSeq(p.attrs.ext, LAMBDA e : ~e.rpki), RpkiCommunity(p.rpki)) ELSE p.attrs.ext
build_export_communities(p, c) ==
    IF c.graceful_shutdown /\ ~has(p.attrs.communities, "GRACEFUL_SHUTDOWN")
    THEN Append(p.attrs.communities, "GRACEFUL_SHUTDOWN") ELSE p.attrs.communities
build_export_unknown_attrs(p, c) ==
    IF c.rs_client \/ ~IsEbgp(c) THEN p.attrs.unknown ELSE SelectSeq(p.attrs.unknown, LAMBDA a : "trans" \in a.flags)

address_families_match(nh, addr) == (nh.kind = "v4") = (addr.kind = "v4")
is_unspecified(nh) == nh.addr \in {"0.0.0.0", "::"}
build_ebgp_next_hop(nh, here) ==
    CASE address_families_match(nh, here) -> Some(here)
      [] ~address_families_match(nh, here) -> IF is_unspecified(nh) THEN None ELSE Some(nh)
build_ibgp_next_hop(nh, here, local) ==
    CASE ~local \/ ~is_unspecified(nh) -> Some(nh)
      [] local /\ is_unspecified(nh) -> IF address_families_match(nh, here) THEN Some(here) ELSE None
WithLinkLocal(option, c) ==
    IF option # None /\ c.link_local /\ IsEbgp(c) /\ option[1].kind = "v6"
    THEN Some([option[1] EXCEPT !.kind = "v6ll"]) ELSE option
build_export_next_hop(p, c, key) ==
    LET nh == p.attrs.next_hop
    IN CASE c.rs_client -> Some(nh)
         [] ~c.rs_client /\ key.fam \in {"ls", "lsvpn"} -> Some(IF IsEbgp(c) \/ c.next_hop_self THEN c.next_hop ELSE nh)
         [] ~c.rs_client /\ key.fam \in {"v4", "v6"} ->
                WithLinkLocal(CASE IsEbgp(c) -> build_ebgp_next_hop(nh, c.next_hop)
                                [] ~IsEbgp(c) /\ c.next_hop_self -> Some(c.next_hop)
                                [] ~IsEbgp(c) /\ ~c.next_hop_self ->
                                       build_ibgp_next_hop(nh, c.next_hop, p.source.kind = "local"), c)

build_export_rr_attrs(p, c) ==
    CASE c.rs_client \/ IsEbgp(c) -> [originator_id |-> None, cluster_list |-> <<>>]
      [] ~c.rs_client /\ ~IsEbgp(c) /\ IsIbgpSource(p.source) ->
             [originator_id |-> IF p.attrs.originator_id # None THEN p.attrs.originator_id ELSE Some(p.source.bgp_id),
              cluster_list |-> <<c.cluster_id>> \o p.attrs.cluster_list]
      [] ~c.rs_client /\ ~IsEbgp(c) /\ ~IsIbgpSource(p.source) ->
             IF p.attrs.originator_id = None THEN [originator_id |-> None, cluster_list |-> <<>>]
             ELSE [originator_id |-> p.attrs.originator_id, cluster_list |-> p.attrs.cluster_list]
build_export_attrs(p, c, nh, rr) ==
    [p.attrs EXCEPT !.as_path = build_export_as_path(p, c), !.next_hop = nh, !.local_pref = build_export_local_pref(p, c),
        !.med = build_export_med(p, c), !.communities = build_export_communities(p, c),
        !.ext = build_export_extended_communities(p, c), !.unknown = build_export_unknown_attrs(p, c),
        !.originator_id = rr.originator_id, !.cluster_list = rr.cluster_list]

\* A policy here is [of, result]: it decides the paths of some sources.
evaluate_export_policy(chain, p) ==
    LET decided == SelectSeq(chain, LAMBDA q : p.source.peer \in q.of)
    IN decided # <<>> /\ decided[1].result = "accept"
Exported(p, c, nh) ==
    ForAll(nh, LAMBDA n : [id |-> p.id, source |-> p.source, attrs |-> build_export_attrs(p, c, n, build_export_rr_attrs(p, c))])
compute_export_path(key, p, c, chain) ==
    IF should_export_to_peer(p, c) /\ evaluate_export_policy(chain, p)
    THEN Exported(p, c, build_export_next_hop(p, c, key)) ELSE None

-----------------------------------------------------------------------------
(***************************************************************************)
(* Export of changed routes.                                               *)
(***************************************************************************)

select_paths_for_export(key, c, paths, chain) ==
    LET all == Joined(paths, LAMBDA p : compute_export_path(key, p, c, chain))
    IN CASE key.fam \in c.format.addpath -> all
         [] key.fam \notin c.format.addpath /\ c.rs_client -> SubSeq(all, 1, Min({1, Len(all)}))
         [] key.fam \notin c.format.addpath /\ ~c.rs_client ->
                IF paths = <<>> THEN <<>> ELSE compute_export_path(key, paths[1], c, chain)

stale_paths(rib, key, ids) == {r \in rib : r.key = key /\ r.id \notin ids}
build_withdrawals_for_route(key, stale, exports, addpath) ==
    IF addpath THEN {Entry(key, r.id) : r \in stale}
    ELSE IF exports = <<>> /\ stale # {} THEN {Entry(key, None)} ELSE {}

\* split_withdrawals and send_withdrawals.
send_withdrawals(entries, c) ==
    LET ip == Ip(entries)
        Ls(fam) == OfFamily(entries, fam)
        ms == (IF ip = <<>> THEN <<>> ELSE <<new_withdraw(ip)>>)
              \o Joined(<<"ls", "lsvpn">>, LAMBDA f : IF Ls(f) = <<>> THEN <<>> ELSE <<new_ls_withdraw(Ls(f), f)>>)
    IN ForAll(ms, LAMBDA m : serialize(m, c.format.four))

\* One batch per family, attributes (with the source) and path identifier.
BatchingKey(rp) == [fam |-> rp.key.fam, path |-> rp.path]
batch_announcements(rps) ==
    {[path |-> b.path, fam |-> b.fam, keys |-> SetToSeq({rp.key : rp \in {x \in rps : BatchingKey(x) = b}})] :
        b \in {BatchingKey(rp) : rp \in rps}}
to_update(b, format) ==
    IF b.fam \in {"v4", "v6"} THEN new(b.path, b.keys, format) ELSE new_ls(b.path, b.keys, b.fam)
Batches(rps, c) ==
    {[keys |-> ToSet(b.keys), bytes |-> serialize(to_update(b, c.format), c.format.four)] : b \in batch_announcements(rps)}
Fits_Always(b) == TRUE
Fits(b) == b.bytes.size <= MAX_MESSAGE_SIZE
BytesOf(batches) == ForAll(SetToSeq(batches), LAMBDA b : b.bytes)
KeysOf(batches) == UNION {b.keys : b \in batches}

\* AdjRibOut::insert.
Inserted(rib, rps) ==
    {r \in rib : \A rp \in rps : ~(rp.key = r.key /\ rp.path.id = r.id)}
    \cup {[key |-> rp.key, id |-> rp.path.id, attrs |-> rp.path.attrs] : rp \in rps}

\* propagate_routes_to_peer for one family: withdrawals, then the batches.
Diff(c, acc, exports) ==
    LET Stale(k) == stale_paths(acc.out, k, {exports[k][i].id : i \in DOMAIN exports[k]})
    IN [stale |-> UNION {Stale(k) : k \in DOMAIN exports},
        withdrawals |-> UNION {build_withdrawals_for_route(k, Stale(k), exports[k], k.fam \in c.format.addpath) :
                               k \in DOMAIN exports},
        announcements |-> UNION {{[key |-> k, path |-> exports[k][i]] : i \in DOMAIN exports[k]} : k \in DOMAIN exports}]
Apply(c, acc, diff, batches) ==
    [out |-> Inserted(acc.out \ diff.stale, diff.announcements),
     messages |-> acc.messages \o send_withdrawals(SetToSeq(diff.withdrawals), c)
                  \o BytesOf({b \in batches : Fits(b)}),
     unsent |-> ((acc.unsent \ {e.key : e \in diff.withdrawals}) \ KeysOf({b \in batches : Fits(b)}))
                \cup KeysOf({b \in batches : ~Fits(b)})]
WithBatches(c, acc, diff) == Apply(c, acc, diff, Batches(diff.announcements, c))
PropagateFamily(c, acc, fam, changed, best_changed, tables, chain) ==
    LET keys == {k \in IF fam \in c.format.addpath \/ c.rs_client THEN changed ELSE best_changed : k.fam = fam}
    IN WithBatches(c, acc, Diff(c, acc, [k \in keys |-> select_paths_for_export(k, c, tables[k], chain[fam])]))
propagate_routes_to_peer(c, rib, changed, best_changed, tables, chain) ==
    FoldLeft(LAMBDA acc, fam : PropagateFamily(c, acc, fam, changed, best_changed, tables, chain),
             [out |-> rib, messages |-> <<>>, unsent |-> unsent], SetToSeq(c.families))

-----------------------------------------------------------------------------
(***************************************************************************)
(* The server's side.                                                      *)
(***************************************************************************)

ctx == setup.ctx
Keys == DOMAIN loc
\* Tables change when what was sent is read or waits for the interval; a bound on
\* the updates that wait when tables change or the connection is lost.
MaxWaiting == 2
Room == Len(pace.queue) + Len(pace.pending) <= MaxWaiting
Ready == up /\ wire = <<>> /\ Room
Send(result) ==
    /\ out' = result.out
    /\ IF setup.mrai THEN wire' = wire /\ pace' = [pace EXCEPT !.queue = @ \o result.messages]
       ELSE wire' = wire \o result.messages /\ pace' = pace
    /\ unsent' = result.unsent

best(paths) == IF paths = <<>> THEN None ELSE Some(paths[1])

\* propagate_routes: the Loc-RIB has changed for some keys at once.
propagate_routes(new_loc) ==
    LET changed == {k \in Keys : new_loc[k] # loc[k]}
    IN /\ Ready
       /\ changed # {}
       /\ loc' = new_loc
       /\ Send(propagate_routes_to_peer(ctx, out, changed, {k \in changed : best(new_loc[k]) # best(loc[k])},
                                        new_loc, policies))
       /\ UNCHANGED <<setup, policies, known, up, fault>>

\* resend_routes_to_peer: a ROUTE-REFRESH, or a soft reset after a new policy.
resend_routes_to_peer(fam) ==
    LET keys == {k \in Keys : k.fam = fam /\ loc[k] # <<>>}
    IN /\ Ready
       /\ fam \in ctx.families
       /\ Send(propagate_routes_to_peer(ctx, out, keys, keys, loc, policies))
       /\ UNCHANGED <<setup, policies, loc, known, up, fault>>
SetPolicies ==
    /\ Ready
    /\ policies' \in setup.policies \ {policies}
    /\ UNCHANGED <<setup, loc, out, wire, known, up, unsent, pace, fault>>

\* A new session: the tables are empty, every family is sent, then the markers
\* of send_eor_markers.
Markers == ForAll(SetToSeq(ctx.families), LAMBDA f : serialize(new_eor(f), ctx.format.four))
TaskGone == fault # None /\ fault[1].kind = "panic"
Establish ==
    LET keys == {k \in Keys : loc[k] # <<>>}
        all == propagate_routes_to_peer(ctx, {}, keys, keys, loc, policies)
    IN /\ ~up /\ ~TaskGone
       /\ up' = TRUE
       /\ Send([all EXCEPT !.messages = @ \o Markers])
       /\ known' = {} /\ fault' = None
       /\ UNCHANGED <<setup, policies, loc>>

\* The Loc-RIB changes and there is no session to tell.
ChangesUnheard ==
    /\ ~up
    /\ loc' \in setup.locs \ {loc}
    /\ UNCHANGED <<setup, policies, out, wire, known, up, unsent, pace, fault>>

-----------------------------------------------------------------------------
(***************************************************************************)
(* The peer task of a session with a MinRouteAdvertisementInterval: `queue`*)
(* is peer_rx, `pending` pending_updates, and `due` says that the interval *)
(* since last_update_sent is over.  `mixed` records that an update was     *)
(* sent ahead of an older one, or that some wait from an earlier session.  *)
(***************************************************************************)

IsMarker(w) == w \in ToSet(Markers)
\* PeerOp::SendUpdate, or LocalRibSent, whose marker never waits.
TakeOp ==
    /\ up /\ pace.queue # <<>>
    /\ LET w == pace.queue[1]
           rest == [pace EXCEPT !.queue = Tail(@)]
       IN \/ IsMarker(w) /\ wire' = Append(wire, w) /\ pace' = rest
          \/ /\ ~IsMarker(w) /\ pace.due
             /\ wire' = Append(wire, w)
             /\ pace' = [rest EXCEPT !.due = FALSE, !.mixed = @ \/ pace.pending # <<>>]
          \/ /\ ~IsMarker(w) /\ ~pace.due
             /\ wire' = wire
             /\ pace' = [rest EXCEPT !.pending = Append(@, w)]
    /\ UNCHANGED <<setup, policies, loc, out, known, up, unsent, fault>>
MraiTimer ==
    /\ up /\ pace.pending # <<>> /\ pace.due
    /\ wire' = wire \o pace.pending
    /\ pace' = [pace EXCEPT !.pending = <<>>, !.due = FALSE]
    /\ UNCHANGED <<setup, policies, loc, out, known, up, unsent, fault>>
IntervalElapses ==
    /\ ~pace.due
    /\ pace' = [pace EXCEPT !.due = TRUE]
    /\ UNCHANGED <<setup, policies, loc, out, wire, known, up, unsent, fault>>

-----------------------------------------------------------------------------
(***************************************************************************)
(* The wire.  A two-octet session leads to a speaker without four-octet AS *)
(* numbers, which prepends its own number and passes the rest on.  Another *)
(* implementation may put a withdrawal and an announcement in one UPDATE,  *)
(* and may encode one thing wrongly.                                       *)
(***************************************************************************)

OLD_AS == 64999
Relay(w) ==
    IF ctx.format.four THEN w
    ELSE [w EXCEPT !.attrs = ForAll(@, LAMBDA a :
             IF a.type # "AS_PATH" THEN a
             ELSE [a EXCEPT !.body = ForAll(prepend_local_asn(Value(a), OLD_AS), LAMBDA s :
                      [type |-> s.type, len |-> Len(s.asns), asns |-> s.asns])])]

HasAttr(w, t) == \E i \in DOMAIN w.attrs : w.attrs[i].type = t
Combine ==
    /\ up /\ fault = None /\ ~setup.mrai
    /\ Len(wire) >= 2
    /\ LET w == wire[1]
           a == wire[2]
       IN /\ w.nlri.list = <<>> /\ ~HasAttr(w, "MP_REACH_NLRI")
          /\ w.withdrawn.list # <<>> \/ (HasAttr(w, "MP_UNREACH_NLRI") /\ w.attrs[1].body.nlri # <<>>)
          /\ HasAttr(a, "ORIGIN") /\ ~HasAttr(a, "MP_UNREACH_NLRI")
          /\ w.size + a.size <= MAX_MESSAGE_SIZE
          /\ wire' = <<[a EXCEPT !.withdrawn = w.withdrawn, !.attrs = a.attrs \o w.attrs,
                                !.size = a.size + w.size - BGP_HEADER_SIZE_BYTES - 4]>> \o SubSeq(wire, 3, Len(wire))
    /\ UNCHANGED <<setup, policies, loc, out, known, up, unsent, pace, fault>>

FixedSize == {"ORIGIN", "NEXT_HOP", "MULTI_EXIT_DISC", "LOCAL_PREF", "COMMUNITIES", "EXTENDED_COMMUNITIES",
              "LARGE_COMMUNITIES", "ORIGINATOR_ID", "CLUSTER_LIST", "AGGREGATOR", "ATOMIC_AGGREGATE"}
CanBeBad == {"ORIGIN", "AS_PATH", "AS4_PATH", "MP_REACH_NLRI", "MP_UNREACH_NLRI", "LINK_STATE"}
Mandatory == {"ORIGIN", "AS_PATH", "NEXT_HOP"}
Toggled(flags, f) == IF f \in flags THEN flags \ {f} ELSE flags \cup {f}
Unknown(flags) == [type |-> "UNKNOWN", flags |-> flags, size |-> 4, body |-> [octets |-> 4], bad |-> FALSE, cut |-> FALSE]
\* The ways attribute i of message w may be wrong.
FaultyAttr(w, i) ==
    {[kind |-> "flags", w |-> [w EXCEPT !.attrs[i].flags = Toggled(@, f)]] : f \in {"opt", "trans"}}
    \cup {[kind |-> "length", w |-> [w EXCEPT !.attrs[i].size = @ + 1]] : t \in {w.attrs[i].type} \cap FixedSize}
    \cup {[kind |-> "value", w |-> [w EXCEPT !.attrs[i].bad = TRUE]] : t \in {w.attrs[i].type} \cap CanBeBad}
    \cup {[kind |-> "cut", w |-> [w EXCEPT !.attrs[i].cut = TRUE]] : n \in {i} \cap {Len(w.attrs)}}
    \cup {[kind |-> "missing", w |-> [w EXCEPT !.attrs = RemoveAt(@, i)]] : t \in {w.attrs[i].type} \cap Mandatory}
    \cup {[kind |-> "twice", w |-> [w EXCEPT !.attrs = Append(@, w.attrs[i])]]}
FaultyMessage(w) ==
    {[kind |-> "withdrawn", w |-> [w EXCEPT !.withdrawn.bad = TRUE]],
     [kind |-> "nlri", w |-> [w EXCEPT !.nlri.bad = TRUE]],
     [kind |-> "short", w |-> [w EXCEPT !.short = TRUE]],
     [kind |-> "torn", w |-> [w EXCEPT !.torn = TRUE]]}
    \cup {[kind |-> "extra", w |-> [w EXCEPT !.attrs = Append(@, Unknown(f))]] : f \in {{"trans"}, {"opt", "trans"}}}

Damage ==
    /\ up /\ fault = None /\ ~setup.mrai
    /\ wire # <<>>
    /\ LET w == wire[1]
       IN \/ \E f \in FaultyMessage(w) :
                 wire' = <<f.w>> \o Tail(wire) /\ fault' = Some([kind |-> f.kind, type |-> "none"])
          \/ \E i \in DOMAIN w.attrs : \E f \in FaultyAttr(w, i) :
                 wire' = <<f.w>> \o Tail(wire) /\ fault' = Some([kind |-> f.kind, type |-> w.attrs[i].type])
    /\ UNCHANGED <<setup, policies, loc, out, known, up, unsent, pace>>

-----------------------------------------------------------------------------
(***************************************************************************)
(* The peer's side: read_bgp_message checks the length, from_bytes the     *)
(* rest; withdrawals leave the Adj-RIB-In before announcements enter it.   *)
(***************************************************************************)

Rows(changes) == {[key |-> e.key, pid |-> e.pid, attrs |-> changes.path[1]] : e \in changes.announced}
Names(entries) == {<<e.key, e.pid>> : e \in entries}
AdjRibIn(rib, changes) ==
    {r \in rib : <<r.key, r.pid>> \notin Names(changes.withdrawn) \cup Names(changes.announced)} \cup Rows(changes)
Accept(m) ==
    /\ known' = AdjRibIn(known, handle_update(m, ctx.format.four))
    /\ wire' = Tail(wire)
    /\ UNCHANGED <<out, up, unsent, pace>>
\* A NOTIFICATION ends the session; both sides drop what it carried, but not the
\* updates that wait for the interval.
SessionReset ==
    /\ up' = FALSE
    /\ pace' = [pace EXCEPT !.queue = <<>>, !.mixed = pace.pending # <<>>]
    /\ wire' = <<>> /\ known' = {} /\ out' = {} /\ unsent' = {}
Received(w) == IF w.size > MAX_MESSAGE_SIZE THEN None ELSE from_bytes(Relay(w), ctx.format)
Receive ==
    /\ up /\ wire # <<>>
    /\ Panics(wire[1]) => wire[1].size > MAX_MESSAGE_SIZE
    /\ LET m == Received(wire[1])
       IN IF m = None THEN SessionReset ELSE Accept(m[1])
    /\ UNCHANGED <<setup, policies, loc, fault>>

\* The peer's task ends in a panic: its connection closes without a NOTIFICATION,
\* its server is not told and keeps the routes, and nothing starts the task again.
TaskPanics ==
    /\ up /\ wire # <<>> /\ Panics(wire[1]) /\ wire[1].size <= MAX_MESSAGE_SIZE
    /\ up' = FALSE /\ wire' = <<>> /\ out' = {} /\ unsent' = {}
    /\ fault' = Some([kind |-> "panic", type |-> "none"])
    /\ UNCHANGED <<setup, policies, loc, known, pace>>
\* We dial again, and nobody takes the connection.
DialsInVain == TaskGone /\ UNCHANGED vars

\* The connection of a paced session is lost.
Disconnect ==
    /\ up /\ setup.mrai /\ Room
    /\ SessionReset
    /\ UNCHANGED <<setup, policies, loc, fault>>

Init ==
    /\ setup \in Setups
    /\ policies \in setup.policies
    /\ loc \in setup.locs
    /\ out = {} /\ wire = <<>> /\ known = {} /\ up = FALSE /\ unsent = {} /\ fault = None
    /\ pace = [queue |-> <<>>, pending |-> <<>>, due |-> TRUE, mixed |-> FALSE]

Next ==
    \/ \E new_loc \in setup.locs : propagate_routes(new_loc)
    \/ \E fam \in setup.ctx.families : resend_routes_to_peer(fam)
    \/ SetPolicies
    \/ Establish
    \/ ChangesUnheard
    \/ Combine
    \/ Damage
    \/ Receive
    \/ TaskPanics
    \/ DialsInVain
    \/ TakeOp
    \/ MraiTimer
    \/ IntervalElapses
    \/ Disconnect

Spec == Init /\ [][Next]_vars

-----------------------------------------------------------------------------
(***************************************************************************)
(* Properties.                                                             *)
(***************************************************************************)

\* The Adj-RIB-Out has one row per key and path identifier, and without
\* ADD-PATH one per key (AdjRibOut, propagate_routes_to_peer).
TypeOK ==
    /\ \A r, s \in out : r.key = s.key /\ (r.id = s.id \/ r.key.fam \notin ctx.format.addpath) => r = s
    /\ ~up => out = {} /\ wire = <<>> /\ pace.queue = <<>> /\ (known = {} \/ TaskGone)

\* What an UPDATE cannot carry, so that no peer holds it: an IPv4 route with a
\* next hop that is not IPv4, an IPv6 route with one that is, a segment of more
\* numbers than its length octet counts.
Encodable(key, a) ==
    /\ key.fam = "v4" => a.next_hop.kind = "v4"
    /\ key.fam = "v6" => a.next_hop.kind # "v4"
    /\ \A i \in DOMAIN a.as_path : Len(a.as_path[i].asns) \in 1 .. 255
\* What a two-octet session loses: the confederation segments, and the large
\* numbers of a path with a two-octet AGGREGATOR.
Lossy(a) ==
    /\ ~ctx.format.four
    /\ \/ NonConfed(a.as_path) # a.as_path
       \/ a.aggregator # None /\ ~IsLarge(a.aggregator[1].asn)
\* An AS_PATH up to where its sequences are split.
Split(path) == Joined(path, LAMBDA s : IF s.type = "AS_SEQUENCE" THEN ForAll(s.asns, LAMBDA n : Sequence(<<n>>)) ELSE <<s>>)
Canonical(row) == [row EXCEPT !.attrs.as_path = Split(@)]
\* The attributes as the peer should hold them.
AsRead(a) ==
    [a EXCEPT !.as_path = IF ctx.format.four THEN @ ELSE prepend_local_asn(@, OLD_AS),
              !.unknown = ForAll(@, LAMBDA u : [u EXCEPT !.flags = @ \cup {f \in {"partial", "ext"} :
                              IF f = "ext" THEN u.body.octets > 255 ELSE "trans" \in @}])]
PidOf(r) == IF r.key.fam \in ctx.format.addpath /\ r.key.fam \in {"v4", "v6"} THEN r.id ELSE None
Told == {[key |-> r.key, pid |-> PidOf(r), attrs |-> AsRead(r.attrs)] : r \in {x \in out : Encodable(x.key, x.attrs)}}
Judged == {k \in Keys \ unsent : \A r \in out : r.key = k => ~Lossy(r.attrs)}
Quiet == up /\ wire = <<>> /\ pace.queue = <<>> /\ pace.pending = <<>> /\ ~pace.mixed

\* Once everything sent is read, the peer holds exactly the paths the
\* Adj-RIB-Out records, attribute by attribute, whatever the order of changes,
\* refreshes and policy changes: rewriting, batching, withdrawals, ADD-PATH
\* identifiers, AS4 attributes and both NLRI encodings lose nothing but what
\* Encodable and Lossy list.  On a paced session this is so as long as the updates
\* that wait are neither overtaken (TakeOp sends one at once when the interval is
\* over, though older ones wait) nor left over from an earlier session.
PeerHoldsWhatIsRecorded ==
    Quiet /\ fault = None =>
        {Canonical(r) : r \in {x \in known : x.key \in Judged}} = {Canonical(r) : r \in {x \in Told : x.key \in Judged}}

\* A fault in one message never leaves the peer with a route that was
\* withdrawn or with attributes nobody sent: the UPDATE is refused, withdrawn,
\* or read without an attribute that may be discarded (RFC 7606).  Left out are a
\* fault in the very list of withdrawn routes; link-state, whose withdrawals are
\* lost (LsWithdrawalsAreRead); and a message that ends before its attribute length,
\* after which there is no session and the routes stay (RoutesEndWithSession).
Discardable(a) == [a EXCEPT !.atomic = FALSE, !.aggregator = None, !.unknown = <<>>, !.ls_attr = None,
                            !.as_path = IF ctx.format.four THEN @ ELSE <<>>]
HitsWithdrawals(f) == f.kind = "withdrawn" \/ f.type = "MP_UNREACH_NLRI"
FaultsMisleadNobody ==
    Quiet /\ fault # None /\ ~HitsWithdrawals(fault[1]) =>
        \A r \in known : r.key \in Judged /\ r.key.fam \in {"v4", "v6"} =>
            \E t \in Told : t.key = r.key /\ t.pid = r.pid /\ Discardable(t.attrs) = Discardable(r.attrs)

\* A session ends only for a fault, for a list of withdrawals that does not
\* fit a message, or for an IPv6 route with an IPv4 next hop (send_withdrawals,
\* write_attr_mp_reach_nlri); never because announcements are too long, which are batched by
\* what one message may hold (batch_announcements, send_batched_announcements).
TooLong(w) == w.size > MAX_MESSAGE_SIZE /\ ~HasAttr(w, "ORIGIN")
CrossFamily(w) == \E i \in DOMAIN w.attrs :
    w.attrs[i].type = "MP_REACH_NLRI" /\ w.attrs[i].body.fam = "v6" /\ w.attrs[i].body.nh.kind = "v4"
ResetsHaveACause ==
    [][up /\ ~up' /\ ~setup.mrai => fault # None \/ TooLong(wire[1]) \/ CrossFamily(wire[1])]_vars

\* Without a fault an UPDATE is taken for the End-of-RIB marker of a family
\* only at the end of the table (eor_afi_safi): never because its routes were
\* all withdrawn.
MarkersAreMarkers ==
    up /\ wire # <<>> /\ fault = None =>
        \A m \in ToSet(Received(wire[1])) : eor_afi_safi(m) # None => wire[1] \in ToSet(Markers)

\* The comment on AdjRibOut: it "tracks routes actually exported".
RibOutIsExported ==
    Quiet /\ fault = None =>
        {Canonical(r) : r \in Told} \subseteq {Canonical(r) : r \in known}

\* The comment on validate_update_message_lengths has an UPDATE that is too short
\* for its lengths answered as a malformed attribute list, which ends the session and
\* the routes with it.
RoutesEndWithSession == ~up => known = {}

\* The comments in from_bytes and on collect_mp_nlri: a malformed UPDATE
\* withdraws "all routes from every source", so a link-state route the sender
\* withdrew does not stay.
LsWithdrawalsAreRead ==
    Quiet /\ fault # None /\ ~HitsWithdrawals(fault[1]) =>
        \A r \in known : r.key.fam = "ls" => \E t \in out : t.key = r.key

\* While the session lasts, one wrongly encoded field leaves no route that was not
\* meant, with the exceptions of FaultsMisleadNobody; no row is twice in the
\* Adj-RIB-Out, and no UPDATE turns into an End-of-RIB marker (Judge).
NothingIsMisread == TypeOK /\ FaultsMisleadNobody /\ MarkersAreMarkers
=============================================================================
