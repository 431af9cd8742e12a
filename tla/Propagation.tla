---------------------------- MODULE Propagation ----------------------------
(***************************************************************************)
(* What the server does with routes: Adj-RIB-In, import, Loc-RIB with its  *)
(* best path, export and Adj-RIB-Out (bgpgg/src/server/ops.rs and          *)
(* propagate.rs, rib/rib_loc.rs and rib_out.rs, peer/outgoing.rs).  Each   *)
(* action is one operation of the server task, which handles them one at a *)
(* time; between them the peers may send anything.                         *)
(*                                                                         *)
(* The model follows one prefix, on which all other prefixes depend in     *)
(* nothing but the path identifiers they hold.  Attributes are numbers,    *)
(* the larger the more preferred; `invalid` has those whose origin the VRP *)
(* table makes invalid, and Looped those that check_first_as and the loop  *)
(* checks refuse.  Graceful restart is not part of this module.            *)
(***************************************************************************)
EXTENDS Naturals, Sequences, FiniteSets, Functions

CONSTANTS
  Attrs,    \* path attributes
  Setups    \* the networks: records with the fields below

Local == 0

\* peers: numbers, in the order of the BGP identifiers, 0 stands for local routes;
\* speakers: the peers that send UPDATEs; add_path: those to which ADD-PATH was
\* negotiated; rs_clients: route server clients; ibgp, rr_clients: internal peers,
\* and those that are route reflector clients; looped: the attributes treated as
\* withdrawn; oversize: those whose UPDATE exceeds the maximum message size;
\* denied: export policy, pairs of a peer and attributes it is not sent;
\* rejects_invalid: import policy, whether RPKI-invalid paths are rejected;
\* vrps_change: whether the VRP table changes; max_batch: UPDATEs one PeerUpdate
\* coalesces; originated: attributes of local routes.
ASSUME PropagationAssumption ==
  Attrs \subseteq Nat \ {0} /\ \A s \in Setups :
    /\ s.peers \subseteq Nat \ {Local} /\ IsFiniteSet(s.peers)
    /\ s.speakers \subseteq s.peers /\ s.add_path \subseteq s.peers /\ s.rs_clients \subseteq s.peers
    /\ s.rr_clients \subseteq s.ibgp /\ s.ibgp \subseteq s.peers
    /\ s.originated \subseteq Attrs /\ s.looped \subseteq Attrs /\ s.oversize \subseteq Attrs /\ s.denied \subseteq s.peers \X Attrs
    /\ s.rejects_invalid \in BOOLEAN /\ s.vrps_change \in BOOLEAN /\ s.max_batch \in Nat

VARIABLES
  setup,        \* one of Setups, chosen at the start
  established,  \* the peers with an established session
  ribIn,        \* adj_rib_in: the attributes each peer announced last, or None
  loc,          \* the paths of loc_rib: [src, attr, invalid, id]
  ribOut,       \* adj_rib_out of every peer
  invalid,      \* vrp_table: the attributes it makes invalid
  told,         \* what every peer has from the UPDATEs it was sent
  said          \* what every peer last announced, in the order it did

vars == <<setup, established, ribIn, loc, ribOut, invalid, told, said>>

Peers == setup.peers
Speakers == setup.speakers
AddPath == setup.add_path
RsClients == setup.rs_clients
Ibgp == setup.ibgp
RrClients == setup.rr_clients
Looped == setup.looped
Oversize == setup.oversize
Denied == setup.denied
RejectsInvalid == setup.rejects_invalid
VrpsChange == setup.vrps_change
MaxBatch == setup.max_batch

None == 0

Withdraw == 0

-----------------------------------------------------------------------------
(* Loc-RIB *)

Rank(src) == IF src = Local THEN 0 ELSE IF src \in Ibgp THEN 2 ELSE 1

\* best_path_cmp, for paths that differ in local preference and source only.
Better(x, y) ==
  \/ x.attr > y.attr
  \/ x.attr = y.attr /\ Rank(x.src) < Rank(y.src)
  \/ x.attr = y.attr /\ Rank(x.src) = Rank(y.src) /\ x.src < y.src

\* The first of the sorted paths, as a set that is empty when there is none.
Best(paths) == {x \in paths : \A y \in paths \ {x} : Better(x, y)}

Without(paths, src) == {x \in paths : x.src # src}

\* Mutant: identifiers are counted and freed ones not looked for.
AllocId_ByCount(paths) == Cardinality(paths) + 1

\* The lowest free one; identifiers held by other prefixes are left out.
AllocId(paths) ==
  LET free == {id \in 1..(Cardinality(paths) + 1) : \A x \in paths : x.id # id}
  IN  CHOOSE id \in free : \A other \in free : id <= other

Upsert(paths, src, attr, inv) ==
  LET old == paths \ Without(paths, src)
      id  == IF old = {} THEN AllocId(paths) ELSE (CHOOSE x \in old : TRUE).id
  IN  Without(paths, src) \cup {[src |-> src, attr |-> attr, invalid |-> inv, id |-> id]}

\* apply_import: the state of the path is stamped, then the policies decide.
Imports(attr) == ~(RejectsInvalid /\ attr \in invalid')

\* Mutant: a path that is rejected leaves the one it replaces in place.
ApplyOne_KeepsRejected(src, r, s) ==
  IF r = Withdraw THEN [s EXCEPT !.paths = Without(s.paths, src)]
  ELSE IF ~Imports(r) THEN s
  ELSE [paths |-> Upsert(s.paths, src, r, r \in invalid'), renewed |-> TRUE]

\* One step of apply_peer_update; `renewed` tells that the path is a new object.
ApplyOne(src, r, s) ==
  IF r = Withdraw \/ ~Imports(r)
    THEN [s EXCEPT !.paths = Without(s.paths, src)]
    ELSE LET same == \E x \in s.paths : x.src = src /\ x.attr = r
         IN  [paths |-> Upsert(s.paths, src, r, r \in invalid'), renewed |-> s.renewed \/ ~same]

\* Mutant: withdrawals first, then announcements, as in adj_rib_in.
ApplyUpdate_WithdrawalsFirst(paths, src, routes) ==
  LET sorted == SelectSeq(routes, LAMBDA r : r = Withdraw) \o SelectSeq(routes, LAMBDA r : r # Withdraw)
      after[i \in 0..Len(sorted)] ==
        IF i = 0 THEN [paths |-> paths, renewed |-> FALSE] ELSE ApplyOne(src, sorted[i], after[i - 1])
  IN  after[Len(sorted)]

\* The routes of the update are applied in the order in which they came.
ApplyUpdate(paths, src, routes) ==
  LET after[i \in 0..Len(routes)] ==
        IF i = 0 THEN [paths |-> paths, renewed |-> FALSE] ELSE ApplyOne(src, routes[i], after[i - 1])
  IN  after[Len(routes)]

\* best_path_changed compares objects: a path withdrawn and announced again is another one.
BestChanged(old, new, src, renewed) ==
  \/ Best(new) # Best(old)
  \/ renewed /\ \E x \in Best(new) : x.src = src

-----------------------------------------------------------------------------
(* Export *)

ShouldExport(p, x) ==
  /\ ~(p \in Ibgp /\ x.src \in Ibgp /\ x.src \notin RrClients /\ p \notin RrClients)
  /\ x.src # p
  /\ <<p, x.attr>> \notin Denied

SelectPaths(p, paths) ==
  LET exportable == {x \in paths : ShouldExport(p, x)}
  IN  CASE p \in AddPath                  -> exportable
        [] p \in RsClients \ AddPath      -> Best(exportable)
        [] OTHER                          -> Best(paths) \cap exportable

\* What is on the wire: without ADD-PATH a path has no identifier.
Nlri(p, x) == IF p \in AddPath THEN x.id ELSE 0

Sent(p, x) == [nlri |-> Nlri(p, x), src |-> x.src, attr |-> x.attr, invalid |-> x.invalid]

\* Mutant: a replaced path is withdrawn, after the announcement that replaces it.
ToldAfter_WithdrawsReplaced(p, has, export, stale) ==
  LET withdrawn == IF p \in AddPath THEN {x.id : x \in stale} ELSE IF stale # {} THEN {0} ELSE {}
      news      == {Sent(p, x) : x \in {y \in export : y.attr \notin Oversize}}
  IN  {u \in has \cup news : u.nlri \notin withdrawn /\ (u \notin news => \A n \in news : n.nlri # u.nlri)}

\* The UPDATEs of propagate_routes_to_peer, withdrawals first, as the peer reads
\* them.  A batch that is too large is left out.
ToldAfter(p, has, export, stale) ==
  LET withdrawn == IF p \in AddPath THEN {x.id : x \in stale}
                   ELSE IF export = {} /\ stale # {} THEN {0} ELSE {}
      news      == {Sent(p, x) : x \in {y \in export : y.attr \notin Oversize}}
  IN  {u \in has : u.nlri \notin withdrawn /\ \A n \in news : n.nlri # u.nlri} \cup news

\* propagate_routes_to_peer for every peer of the set.
ExportTo(targets, paths, out, has) ==
  LET export(p) == SelectPaths(p, paths)
      stale(p)  == {x \in out[p] : \A y \in export(p) : y.id # x.id}
  IN  /\ ribOut' = [p \in Peers |-> IF p \in targets THEN export(p) ELSE out[p]]
      /\ told' = [p \in Peers |-> IF p \in targets
                                    THEN ToldAfter(p, has[p], export(p), stale(p)) ELSE has[p]]

\* Mutant: route server clients are told of changes of the best path only.
Targets_HidePaths(changed, bestChanged, origin) ==
  {p \in established \ {origin} : IF p \in AddPath THEN changed ELSE bestChanged}

\* The peers propagate_routes exports the prefix to: those that only get best
\* paths are concerned by a change of the best path, and the peer the change
\* comes from is passed over.
Targets(changed, bestChanged, origin) ==
  {p \in established \ {origin} : IF p \in AddPath \cup RsClients THEN changed ELSE bestChanged}

-----------------------------------------------------------------------------
(* Operations of the server *)

\* Treat-as-withdraw looks at the first announcement of the batch.
RejectAnnouncements(routes) ==
  IF \E i \in DOMAIN routes : routes[i] \in Looped /\ \A j \in 1..(i - 1) : routes[j] = Withdraw
    THEN [i \in DOMAIN routes |-> Withdraw] ELSE routes

\* Withdrawals are applied to adj_rib_in first, then announcements.
StoreIn(routes) ==
  LET announced == {i \in DOMAIN routes : routes[i] # Withdraw}
  IN  IF announced = {} THEN None ELSE routes[CHOOSE i \in announced : \A j \in announced : j <= i]

PeerUpdate(p, routes) ==
  /\ p \in established \cap Speakers
  /\ said' = [said EXCEPT ![p] = routes[Len(routes)]]
  /\ ribIn' = [ribIn EXCEPT ![p] = StoreIn(routes)]
  /\ UNCHANGED <<setup, established, invalid>>
  /\ LET s == ApplyUpdate(loc, p, RejectAnnouncements(routes))
     IN  /\ loc' = s.paths
         /\ ExportTo(Targets(TRUE, BestChanged(loc, s.paths, p, s.renewed), p),
                     s.paths, ribOut, told)

AddLocalRoute(attr) ==
  LET paths   == Upsert(loc, Local, attr, FALSE)
      renewed == \A x \in loc : x.src = Local => x.attr # attr
  IN  /\ loc' = paths
      /\ ExportTo(Targets(TRUE, BestChanged(loc, paths, Local, renewed), Local),
                  paths, ribOut, told)
      /\ UNCHANGED <<setup, established, ribIn, invalid, said>>

RemovePathsOf(src, out, has) ==
  LET paths == Without(loc, src)
  IN  /\ loc' = paths
      /\ ExportTo(Targets(paths # loc, Best(paths) # Best(loc), src), paths, out, has)

RemoveLocalRoute ==
  /\ \E x \in loc : x.src = Local
  /\ RemovePathsOf(Local, ribOut, told)
  /\ UNCHANGED <<setup, established, ribIn, invalid, said>>

\* handle_peer_established: the new peer gets all there is.
PeerEstablished(p) ==
  /\ p \notin established
  /\ established' = established \cup {p}
  /\ ExportTo(IF loc = {} THEN {} ELSE {p}, loc, ribOut, told)
  /\ UNCHANGED <<setup, ribIn, loc, invalid, said>>

PeerDisconnected(p) ==
  /\ p \in established
  /\ established' = established \ {p}
  /\ ribIn' = [ribIn EXCEPT ![p] = None]
  /\ said' = [said EXCEPT ![p] = None]
  /\ RemovePathsOf(p, [ribOut EXCEPT ![p] = {}], [told EXCEPT ![p] = {}])
  /\ UNCHANGED <<setup, invalid>>

\* resend_routes_to_peer goes through the prefixes of loc_rib.
RouteRefresh(p) ==
  /\ p \in established
  /\ ExportTo(IF loc = {} THEN {} ELSE {p}, loc, ribOut, told)
  /\ UNCHANGED <<setup, established, ribIn, loc, invalid, said>>

\* What adj_rib_in has of these peers is announced again, one after the other.
ReevaluateRoutes(sources) ==
  LET after[i \in 0..Len(sources)] ==
        IF i = 0 THEN [paths |-> loc, changed |-> FALSE]
        ELSE LET s   == after[i - 1]
                 one == ApplyUpdate(s.paths, sources[i], <<ribIn[sources[i]]>>)
             IN  [paths |-> one.paths,
                  changed |-> s.changed \/ BestChanged(s.paths, one.paths, sources[i], one.renewed)]
  IN  after[Len(sources)]

\* handle_vrp_update: only prefixes of loc_rib are looked at; affected_routes goes
\* through the peers in the order of a hash map.
VrpUpdate(inv) ==
  /\ VrpsChange /\ inv # invalid
  /\ invalid' = inv
  /\ UNCHANGED <<setup, established, ribIn, said>>
  /\ IF loc = {} THEN UNCHANGED <<loc, ribOut, told>>
     ELSE LET heard == {p \in Peers : ribIn[p] # None}
          IN  \E sources \in Bijection(1..Cardinality(heard), heard) :
                LET end == ReevaluateRoutes(sources)
                IN  /\ loc' = end.paths
                    /\ ExportTo(Targets(heard # {}, end.changed, Local), end.paths, ribOut, told)

-----------------------------------------------------------------------------
Init ==
  /\ setup \in Setups
  /\ established = {} /\ loc = {} /\ invalid = {}
  /\ ribIn = [p \in Peers |-> None] /\ said = [p \in Peers |-> None]
  /\ ribOut = [p \in Peers |-> {}] /\ told = [p \in Peers |-> {}]

Batches == UNION {[1..n -> Attrs \cup {Withdraw}] : n \in 1..MaxBatch}

Next ==
  \/ \E p \in Peers : \/ PeerEstablished(p) \/ PeerDisconnected(p) \/ RouteRefresh(p)
                      \/ \E routes \in Batches : PeerUpdate(p, routes)
  \/ \E attr \in setup.originated : AddLocalRoute(attr)
  \/ RemoveLocalRoute
  \/ \E inv \in SUBSET Attrs : VrpUpdate(inv)

Spec == Init /\ [][Next]_vars

-----------------------------------------------------------------------------
(* Properties *)

Paths == [src : Peers \cup {Local}, attr : Attrs, invalid : BOOLEAN, id : Nat \ {0}]

TypeOK ==
  /\ established \subseteq Peers /\ invalid \subseteq Attrs
  /\ loc \subseteq Paths /\ \A x, y \in loc : x # y => x.src # y.src
  /\ \A p \in Peers : /\ ribIn[p] \in Attrs \cup {None} /\ said[p] \in Attrs \cup {None}
                      /\ ribOut[p] \subseteq Paths

\* RFC 7911 needs the identifiers of a prefix to tell its paths apart: two paths
\* of the Loc-RIB, or two in the Adj-RIB-Out of a peer, never share one, though
\* the allocator hands out freed ones again.
PathIdsDistinct ==
  /\ \A x, y \in loc : x.id = y.id => x = y
  /\ \A p \in Peers : \A x, y \in ribOut[p] : x.id = y.id => x = y

\* "Tracks routes actually exported to a specific BGP peer" (AdjRibOut): what the
\* peer has from the announcements and withdrawals it was sent is what its
\* Adj-RIB-Out holds, as long as no UPDATE exceeds the maximum message size.
RibOutIsTold ==
  Oversize = {} => \A p \in established : told[p] = {Sent(p, x) : x \in ribOut[p]}

Exempt == Speakers \ (AddPath \cup RsClients)

\* After every operation the peers have what select_paths_for_export selects from
\* the Loc-RIB, though only changed prefixes were looked at, and for most peers
\* only those whose best path changed.  It fails for peers that contribute paths
\* themselves and get best paths only, whom propagate_routes passes over.
ExportsInSync ==
  \A p \in established \ Exempt : ribOut[p] = SelectPaths(p, loc)

\* "Withdrawals fall out naturally when a prefix has no exportable path (filtered,
\* withdrawn, or absent) but exists in adj-rib-out" (propagate_routes_to_peer): a
\* prefix the Loc-RIB no longer has is in no Adj-RIB-Out.
WithdrawalsFallOut ==
  loc = {} => \A p \in Peers : ribOut[p] = {}

\* The established loop coalesces UPDATEs into a PeerUpdate "preserving temporal
\* order": no path of a peer is in the Loc-RIB that is not the one it announced
\* last, and none of a peer without session.  While the VRPs stay the same the path
\* announced last is there, unless it fails the loop checks; those look at the
\* first announcement of a batch, so this is about batches of one or no loops.
LocIsLastSaid ==
  /\ \A x \in loc : x.src # Local => x.src \in established /\ said[x.src] = x.attr
  /\ ~VrpsChange /\ (MaxBatch = 1 \/ Looped = {}) =>
       \A p \in established : said[p] # None =>
         (said[p] \notin Looped <=> \E x \in loc : x.src = p)

\* What is in the Loc-RIB has the validation state the current VRP table gives it,
\* and nothing is in it that the import policy rejects now.
LocIsValidated ==
  \A x \in loc : x.src # Local => /\ x.invalid = (x.attr \in invalid)
                                  /\ ~(RejectsInvalid /\ x.invalid)

\* "Treat-as-withdraw: if any check fails, all announcements in the batch are
\* rejected": no path that fails the loop checks is used.
NoLoopedPath == \A x \in loc : x.attr \notin Looped

\* "Re-run import policy on routes already in adj-rib-in (e.g. after VRP change)"
\* (reevaluate_routes): the paths in adj_rib_in that the import policy accepts are
\* in the Loc-RIB.
AcceptedIsUsed ==
  \A p \in established :
    ribIn[p] # None /\ ~(RejectsInvalid /\ ribIn[p] \in invalid) =>
      \E x \in loc : x.src = p /\ x.attr = ribIn[p]
=============================================================================
