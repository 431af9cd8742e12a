----------------------------- MODULE PeerServer -----------------------------
(***************************************************************************)
(* The server's side of one peer address (bgpgg/src/server): the PeerInfo, *)
(* the routes of the peer in the Loc-RIB and how fresh they are, the LLGR  *)
(* and refresh timers, the sessions as a BMP collector sees them, and the  *)
(* management operations that add, remove, restart, disable, enable and    *)
(* reset the peer.                                                         *)
(*                                                                         *)
(* The address can be removed and added again, and each time a new task is *)
(* spawned: tasks are numbered, and the reports of an old one may still be *)
(* queued, or still be sent, when the entry of the next one is there.  All *)
(* reports and timer operations go through one queue (op_rx).  A task is   *)
(* what SessionReports allows; of the states of a session the server only  *)
(* tells Established from the rest, which are all "Idle" here.  The RTR    *)
(* manager puts its VRP updates into the same queue.  Operations that only *)
(* query or only send to the peer (RouteRefresh, LocalRibSent and the      *)
(* statistics) change nothing here and are left out.                       *)
(*                                                                         *)
(* A key of the Loc-RIB holds no path of the peer, a fresh one, a stale    *)
(* one, or one that is stale and carries LLGR_STALE.  A path that a VRP    *)
(* update imports again is fresh in the code whatever it was; here it is   *)
(* "revived" when it was stale or the peer has no session.                 *)
(***************************************************************************)
EXTENDS Naturals, Sequences, FiniteSets

CONSTANTS
  Families, Keys,
  FamilyOf,      \* the family of each key
  NoLlgr,        \* keys whose path carries the NO_LLGR community
  Setups,        \* what the peer may do: [caps, refreshed, routes, vrps, tasks, waiting], where a member
                 \* of caps is what a session negotiates: [fams, gr, fbit, llgr, llF], and VRP changes
                 \* affect keys of vrps
  Limit,         \* max-prefix limit of each family
  OverLimit,     \* its action for each family, "terminate" or "discard"
  AllowAutoStop, \* config.allow_automatic_stop
  RefreshTtl,    \* config.enhanced_rr_stale_ttl is set
  MaxOps         \* bound on the length of the queue

ASSUME PeerServerAssumption ==
  /\ FamilyOf \in [Keys -> Families] /\ AllowAutoStop \in BOOLEAN /\ RefreshTtl \in BOOLEAN
  /\ \A s \in Setups :
       /\ s.caps \subseteq [fams : SUBSET Families, gr : SUBSET Families, fbit : SUBSET Families,
                            llgr : SUBSET Families, llF : SUBSET Families]
       /\ s.refreshed \subseteq Families /\ s.routes \subseteq Keys /\ s.vrps \subseteq Keys /\ s.tasks \in Nat \ {0}

VARIABLES
  info,    \* the PeerInfo of the address, or NoPeer
  loc,     \* the state of the peer's path for each key in the Loc-RIB
  ops,     \* the queue of operations to the server
  tasks,   \* the peer tasks spawned so far
  mon,     \* what the BMP messages so far say: "up", "down" or "confused"
  past,    \* history: [mixed, limit, partial]
  setup    \* the member of Setups of this behaviour

state == <<info, loc, ops, tasks, mon, past>>
vars  == <<state, setup>>

NoCaps == [fams |-> {}, gr |-> {}, fbit |-> {}, llgr |-> {}, llF |-> {}]
Unset  == [f \in Families |-> "off"]
R      == INSTANCE SessionReports WITH told <- 0, out <- 0, alive <- 0

Present   == info.task # 0
Current   == info.task
IsUp(i) == i.state = "Established"
KeysOf(F) == {k \in Keys : FamilyOf[k] \in F}
Stale(k)  == loc[k] \in {"stale", "llgr"}

NewInfo(n) ==
  [task |-> n, admin |-> "Up", state |-> "Idle", asn |-> FALSE, caps |-> NoCaps, conn |-> FALSE,
   adjIn |-> {}, disabled |-> {}, llgr |-> Unset, rr |-> Unset, bmp |-> FALSE]

\* An address without a peer has no task.
NoPeer == NewInfo(0)

NewTask == [told |-> R!Unknown, alive |-> TRUE, shut |-> FALSE, caps |-> NoCaps,
            awaiting |-> {}, timer |-> FALSE, llgr |-> {}]

\* Mutant: the AS number of the last session is kept.
ResetConn_KeepsAsn(i) == [i EXCEPT !.state = "Idle", !.caps = NoCaps, !.conn = FALSE]
ResetConn(i) == [i EXCEPT !.state = "Idle", !.asn = FALSE, !.caps = NoCaps, !.conn = FALSE]

-----------------------------------------------------------------------------
(* The Loc-RIB *)

Drop(l, K) == [k \in Keys |-> IF k \in K THEN "none" ELSE l[k]]
IsStaleIn(l, k) == l[k] \in {"stale", "llgr"}

\* mark_peer_routes_stale for the families F.
MarkStale(l, F) ==
  [k \in Keys |-> IF FamilyOf[k] \in F /\ l[k] \in {"fresh", "revived"} THEN "stale" ELSE l[k]]

\* remove_peer_routes_stale: StaleStrategy::Sweep.
Sweep(l, F) == Drop(l, {k \in KeysOf(F) : IsStaleIn(l, k)})

\* apply_llgr: StaleStrategy::TransitionToLlgr.
ApplyLlgr(l, F) ==
  [k \in Keys |-> IF FamilyOf[k] \in F /\ IsStaleIn(l, k)
                    THEN IF k \in NoLlgr THEN "none" ELSE "llgr"
                    ELSE l[k]]

StaleFamilies(l) == {FamilyOf[k] : k \in {x \in Keys : IsStaleIn(l, x)}}

-----------------------------------------------------------------------------
(* BMP *)

PeerUp(m) == IF m = "down" THEN "up" ELSE "confused"
PeerDown(m) == IF m = "up" THEN "down" ELSE "confused"

-----------------------------------------------------------------------------
(* Operations the server takes from its queue *)

Handling(name) == ops # <<>> /\ Head(ops).op = name

\* The operation is taken; if it does not come from the task of the entry, the
\* entry has met another task's operation.
Taken ==
  /\ ops' = Tail(ops)
  /\ past' = [past EXCEPT !.mixed = @ \/ (Present /\ Head(ops).from # Current)]

Ignored == Taken /\ UNCHANGED <<info, loc, tasks, mon>>

\* sweep_gr_stale and then sweep_llgr_stale, which goes through the LLGR timers.
SweptGr(caps, l) == StaleFamilies(l) \ caps.fbit
SweptLlgr(caps, i) == {f \in Families : i.llgr[f] # "off"} \ caps.llF

SweepStale(caps, i, l) == Sweep(Sweep(l, SweptGr(caps, l)), SweptLlgr(caps, i))

CancelLlgr(i, F) == [i EXCEPT !.llgr = [f \in Families |-> IF f \in F THEN "off" ELSE @[f]]]

\* handle_peer_established, which returns at once without capabilities.
Establish(i) ==
  IF ~i.conn THEN /\ info' = i /\ UNCHANGED <<loc, mon>>
  ELSE /\ info' = [CancelLlgr(i, SweptLlgr(i.caps, i)) EXCEPT !.bmp = @ \/ i.asn]
       /\ mon' = IF ~i.bmp /\ i.asn THEN PeerUp(mon) ELSE mon
       /\ loc' = SweepStale(i.caps, i, loc)

HandlePeerStateChanged ==
  /\ Handling("StateChanged")
  /\ Taken /\ UNCHANGED tasks
  /\ IF ~Present THEN UNCHANGED <<info, loc, mon>>
     ELSE LET i == [info EXCEPT !.state = Head(ops).state]
          IN  IF IsUp(i) THEN Establish(i) ELSE info' = i /\ UNCHANGED <<loc, mon>>

HandlePeerHandshakeComplete ==
  /\ Handling("HandshakeComplete")
  /\ info' = IF Present THEN [info EXCEPT !.asn = TRUE] ELSE info
  /\ Taken /\ UNCHANGED <<loc, tasks, mon>>

HandlePeerConnectionInfo ==
  /\ Handling("ConnectionInfo")
  /\ info' = IF Present THEN [info EXCEPT !.conn = TRUE, !.caps = Head(ops).caps] ELSE info
  /\ Taken /\ UNCHANGED <<loc, tasks, mon>>

\* Mutant: bmp_session is kept when the session ends.
EndSession_KeepsBmp(i, F) ==
  [ResetConn(i) EXCEPT !.rr = Unset,
     !.adjIn = IF F = {} THEN {} ELSE @, !.disabled = IF F = {} THEN {} ELSE @]
EndSession(i, F) ==
  [ResetConn(i) EXCEPT !.rr = Unset, !.bmp = FALSE,
     !.adjIn = IF F = {} THEN {} ELSE @, !.disabled = IF F = {} THEN {} ELSE @]

\* Routes leave the Loc-RIB only if the session was up in the server's eyes and
\* nothing is retained.
HandlePeerDisconnected ==
  /\ Handling("Disconnected")
  /\ UNCHANGED tasks
  /\ IF ~Present THEN Taken /\ UNCHANGED <<info, loc, mon>>
     ELSE /\ ops' = Tail(ops)
          /\ past' = [past EXCEPT
                !.mixed = @ \/ Head(ops).from # Current,
                !.partial = @ \/ (Head(ops).gr # {} /\ \E k \in Keys : loc[k] = "fresh"
                                                         /\ FamilyOf[k] \notin Head(ops).gr)]
          /\ info' = EndSession(info, Head(ops).gr)
          /\ loc' = IF Head(ops).gr # {} THEN MarkStale(loc, Head(ops).gr)
                    ELSE IF IsUp(info) THEN Drop(loc, Keys) ELSE loc
          /\ mon' = IF info.bmp THEN PeerDown(mon) ELSE mon

\* The families of the expired restart: those with a long-lived phase go into it
\* and all of these get a timer, the other stale ones are swept.  Nothing asks
\* whether the peer is back.
HandleGrTimerExpired ==
  /\ Handling("GracefulRestartTimerExpired")
  /\ LET long == Head(ops).llgr
     IN  /\ loc' = ApplyLlgr(Sweep(loc, StaleFamilies(loc) \ long), long)
         /\ info' = IF ~Present THEN info
                    ELSE [info EXCEPT !.llgr =
                            [f \in Families |-> IF f \in long THEN "running" ELSE @[f]]]
  /\ Taken /\ UNCHANGED <<tasks, mon>>

\* GracefulRestartComplete and LlgrTimerExpired: clear_stale_afi_safi.
ClearStaleFamily ==
  /\ Handling("GracefulRestartComplete") \/ Handling("LlgrTimerExpired")
  /\ info' = IF Present THEN CancelLlgr(info, {Head(ops).fam}) ELSE info
  /\ loc' = Sweep(loc, {Head(ops).fam})
  /\ Taken /\ UNCHANGED <<tasks, mon>>

\* Mutant: no timer bounds a refresh.
RunRefreshTimer_Never(i, f) == i
RunRefreshTimer(i, f) == IF RefreshTtl THEN [i EXCEPT !.rr[f] = "running"] ELSE i

\* A BoRR is handled whatever the state of the session.
HandleRouteRefreshBoRR ==
  /\ Handling("RouteRefreshBoRR")
  /\ loc' = MarkStale(loc, {Head(ops).fam})
  /\ info' = IF Present THEN RunRefreshTimer(info, Head(ops).fam) ELSE info
  /\ Taken /\ UNCHANGED <<tasks, mon>>

HandleRouteRefreshEoRR ==
  /\ Handling("RouteRefreshEoRR")
  /\ loc' = Sweep(loc, {Head(ops).fam})
  /\ info' = IF Present THEN [info EXCEPT !.rr[Head(ops).fam] = "off"] ELSE info
  /\ Taken /\ UNCHANGED <<tasks, mon>>

HandleEnhancedRrStaleExpired ==
  /\ Handling("EnhancedRrStaleTimerExpired")
  /\ loc' = Sweep(loc, {Head(ops).fam})
  /\ Taken /\ UNCHANGED <<info, tasks, mon>>

HandleSetAdminState ==
  /\ Handling("SetAdminState")
  /\ info' = IF Present THEN [info EXCEPT !.admin = Head(ops).state] ELSE info
  /\ Taken /\ UNCHANGED <<loc, tasks, mon>>

-----------------------------------------------------------------------------
(* An UPDATE: withdrawn keys wd and announced keys ann, which a loop check or an     *)
(* import policy that rejects them may turn into withdrawals (looped).               *)

\* adj_rib_in takes everything first.
StoreIn(i, u) == [i EXCEPT !.adjIn = (@ \ u.wd) \cup u.ann]

\* validate_afi_safi: the families of the announcements that were not negotiated.
NotNegotiated(i, u) ==
  IF i.caps.fams = {} THEN {} ELSE {FamilyOf[k] : k \in u.ann} \ i.caps.fams
IsDisabled(i, u) == \E k \in u.ann : FamilyOf[k] \in i.disabled

Over(i, u) ==
  {f \in {FamilyOf[k] : k \in u.ann \cup u.wd} : Cardinality(i.adjIn \cap KeysOf({f})) > Limit[f]}
Terminates(i, u) == \E f \in Over(i, u) : OverLimit[f] = "terminate"

\* The announcements and withdrawals that reach the Loc-RIB.
Announced(i, u) == IF u.looped THEN {} ELSE u.ann \ KeysOf(Over(i, u))
Withdrawn(u) == IF u.looped THEN u.wd \cup u.ann ELSE u.wd

\* Mutant: withdrawals only reach the Adj-RIB-In.
Apply_NoWithdrawals(l, ann, wd) == [k \in Keys |-> IF k \in ann THEN "fresh" ELSE l[k]]
Apply(l, ann, wd) ==
  [k \in Keys |-> IF k \in ann THEN "fresh" ELSE IF k \in wd THEN "none" ELSE l[k]]

\* handle_max_prefix_terminate: bmp_session and the timers stay as they are.
TerminateForLimit(i) ==
  /\ info' = [ResetConn(i) EXCEPT !.admin = "PrefixLimitReached", !.adjIn = {}, !.disabled = {}]
  /\ loc' = Drop(loc, Keys)
  /\ mon' = IF i.asn /\ i.conn THEN PeerDown(mon) ELSE mon
  /\ tasks' = [tasks EXCEPT ![Current].shut = TRUE]
  /\ ops' = Tail(ops)
  /\ past' = [past EXCEPT !.limit = TRUE, !.mixed = @ \/ Head(ops).from # Current]

AcceptUpdate(i, u) ==
  /\ Taken /\ UNCHANGED <<tasks, mon>>
  /\ IF IsDisabled(i, u) THEN info' = i /\ loc' = loc
     ELSE IF NotNegotiated(i, u) # {}
     THEN /\ info' = [i EXCEPT !.adjIn = @ \ KeysOf(NotNegotiated(i, u)),
                               !.disabled = @ \cup NotNegotiated(i, u)]
          /\ loc' = loc
     ELSE /\ info' = i
          /\ loc' = IF Terminates(i, u) THEN loc ELSE Apply(loc, Announced(i, u), Withdrawn(u))

HandlePeerUpdate ==
  /\ Handling("Update")
  /\ IF ~Present \/ ~IsUp(info) \/ ~info.asn THEN Ignored
     ELSE LET u == Head(ops)
              i == StoreIn(info, u)
          IN  IF /\ ~IsDisabled(i, u) /\ NotNegotiated(i, u) = {}
                 /\ Terminates(i, u) /\ AllowAutoStop
                THEN TerminateForLimit(i)
                ELSE AcceptUpdate(i, u)

-----------------------------------------------------------------------------
(* A VRP update: the import policies decide again on what adj_rib_in holds for the    *)
(* affected keys, whatever the state of the session; reject are those they turn down. *)

\* apply_peer_update on announcements: upsert_path_in_route clears the stale flag.
Reimport(l, acc, rej) ==
  [k \in Keys |-> IF k \in acc THEN IF IsUp(info) /\ l[k] \in {"none", "fresh"} THEN "fresh" ELSE "revived"
                  ELSE IF k \in rej THEN "none" ELSE l[k]]

HandleVrpUpdate ==
  /\ Handling("VrpUpdate")
  /\ LET affected == {k \in Head(ops).keys : Present /\ k \in info.adjIn}
     IN  loc' = Reimport(loc, affected \ Head(ops).reject, affected \cap Head(ops).reject)
  /\ ops' = Tail(ops)
  /\ UNCHANGED <<info, tasks, mon, past>>

ServerStep ==
  \/ HandlePeerStateChanged \/ HandlePeerHandshakeComplete \/ HandlePeerConnectionInfo
  \/ HandlePeerDisconnected \/ HandleGrTimerExpired \/ ClearStaleFamily
  \/ HandleRouteRefreshBoRR \/ HandleRouteRefreshEoRR \/ HandleEnhancedRrStaleExpired
  \/ HandleSetAdminState \/ HandlePeerUpdate \/ HandleVrpUpdate

-----------------------------------------------------------------------------
(* Timers of the server.  One that fires leaves its entry in the map, which matters   *)
(* for the LLGR timers, whose keys sweep_llgr_stale reads.                            *)

LlgrTimerFires(f) ==
  /\ Present /\ info.llgr[f] = "running" /\ Len(ops) < MaxOps
  /\ info' = [info EXCEPT !.llgr[f] = "fired"]
  /\ ops' = Append(ops, [op |-> "LlgrTimerExpired", from |-> Current, fam |-> f])
  /\ UNCHANGED <<loc, tasks, mon, past>>

RefreshTimerFires(f) ==
  /\ Present /\ info.rr[f] = "running" /\ Len(ops) < MaxOps
  /\ info' = [info EXCEPT !.rr[f] = "off"]
  /\ ops' = Append(ops, [op |-> "EnhancedRrStaleTimerExpired", from |-> Current, fam |-> f])
  /\ UNCHANGED <<loc, tasks, mon, past>>

-----------------------------------------------------------------------------
(* Management operations *)

SpawnPeer == Append(tasks, NewTask)

\* spawn_and_start_peer for a peer added or configured again.
AddPeer ==
  /\ ~Present /\ Len(tasks) < setup.tasks
  /\ info' = NewInfo(Len(tasks) + 1)
  /\ tasks' = SpawnPeer
  /\ past' = [past EXCEPT !.mixed = FALSE, !.partial = FALSE]
  /\ UNCHANGED <<loc, ops, mon>>

\* Mutant: the routes of the peer stay in the Loc-RIB.
ShutdownAndRemove_KeepsRoutes == loc' = loc
ShutdownAndRemove == loc' = Drop(loc, Keys)

\* shutdown_and_remove_peer; a commit that changes the configuration of the peer is
\* this and then AddPeer (reconfigure_peers).
RemovePeer ==
  /\ Present
  /\ info' = NoPeer
  /\ tasks' = [tasks EXCEPT ![Current].shut = TRUE]
  /\ ShutdownAndRemove
  /\ mon' = IF info.bmp THEN PeerDown(mon) ELSE mon
  /\ UNCHANGED <<ops, past>>

-----------------------------------------------------------------------------
(* The peer tasks *)

\* The queue has no bound in the code; here it has one, and a task reports while at
\* most so many operations wait.
Room(n) == Len(ops) <= setup.waiting /\ Len(ops) + n <= MaxOps

\* The scripts the server can tell apart: a longer one is two of these, or ends with
\* a report that changes nothing after the first.
TaskScripts ==
  {<<R!Op(name)>> : name \in {"HandshakeComplete", "GracefulRestartComplete",
                               "RouteRefreshBoRR", "RouteRefreshEoRR"}}
    \cup {<<R!Op("ConnectionInfo"), R!StateChanged("Established")>>,
          <<R!Update({})>>,
          <<R!Disconnected(FALSE)>>, <<R!Disconnected(TRUE)>>,
          <<R!Disconnected(FALSE), R!Op("SetAdminState")>>}

AtMostOne(S) == {{}} \cup {{x} : x \in S}

\* At most one key announced and one, of another family, withdrawn.
Updates ==
  {u \in [ann : AtMostOne(setup.routes), wd : AtMostOne(setup.routes), looped : BOOLEAN] :
     /\ u.ann \cup u.wd # {}
     /\ \A k \in u.ann, j \in u.wd : FamilyOf[k] # FamilyOf[j]
     /\ u.looped => u.ann # {} /\ u.wd = {}}

\* What the server receives for a report of task n.
Decorated(r, n, t) ==
  CASE r.op = "ConnectionInfo" ->
         {[op |-> r.op, from |-> n, caps |-> c] : c \in setup.caps}
    [] r.op = "Disconnected" ->
         {[op |-> r.op, from |-> n, gr |-> IF r.gr THEN t.caps.gr ELSE {}]}
    [] r.op = "GracefulRestartComplete" ->
         {[op |-> r.op, from |-> n, fam |-> f] : f \in t.awaiting}
    [] r.op \in R!RefreshOps ->
         {[op |-> r.op, from |-> n, fam |-> f] : f \in setup.refreshed}
    [] r.op = "Update" ->
         {[op |-> r.op, from |-> n, ann |-> u.ann, wd |-> u.wd, looped |-> u.looped] :
            u \in Updates}
    [] r.op = "SetAdminState" -> {[op |-> r.op, from |-> n, state |-> "Down"]}
    [] r.op = "StateChanged" -> {[op |-> r.op, from |-> n, state |-> r.state]}
    [] OTHER -> {[op |-> r.op, from |-> n]}

\* What the task remembers of the restart of its peer.
Remember(t, d) ==
  CASE d.op = "ConnectionInfo" -> [t EXCEPT !.caps = d.caps]
    [] d.op = "Disconnected" ->
         IF d.gr # {} THEN [t EXCEPT !.awaiting = d.gr, !.timer = TRUE, !.llgr = t.caps.llgr,
                                     !.caps = NoCaps]
         ELSE [t EXCEPT !.caps = NoCaps]
    [] d.op = "GracefulRestartComplete" ->
         IF t.awaiting = {d.fam} THEN [t EXCEPT !.awaiting = {}, !.timer = FALSE, !.llgr = {}]
         ELSE [t EXCEPT !.awaiting = @ \ {d.fam}]
    [] OTHER -> t

TaskReports1(n, s) ==
  \E d \in Decorated(s[1], n, tasks[n]) :
    /\ ops' = Append(ops, d)
    /\ tasks' = [tasks EXCEPT ![n] = [Remember(@, d) EXCEPT !.told = R!Says(tasks[n].told, s)]]

TaskReports2(n, s) ==
  \E d \in Decorated(s[1], n, tasks[n]) :
    \E e \in Decorated(s[2], n, Remember(tasks[n], d)) :
      /\ ops' = ops \o <<d, e>>
      /\ tasks' = [tasks EXCEPT ![n] = [Remember(Remember(@, d), e) EXCEPT !.told = R!Says(tasks[n].told, s)]]

\* Routes are retained only if the capabilities name families.
TaskReports(n) ==
  /\ tasks[n].alive
  /\ \E s \in TaskScripts :
       /\ R!IsAllowed(tasks[n].told, s)
       /\ (\E j \in DOMAIN s : s[j].op = "Disconnected" /\ s[j].gr) => tasks[n].caps.gr # {}
       /\ Room(Len(s))
       /\ IF Len(s) = 1 THEN TaskReports1(n, s) ELSE TaskReports2(n, s)
  /\ UNCHANGED <<info, loc, mon, past>>

\* A Shutdown ends the task in Idle and in a session, without a report; in Connect
\* and Active it is lost.
TaskEnds(n) ==
  /\ tasks[n].alive /\ tasks[n].shut
  /\ tasks' = [tasks EXCEPT ![n].alive = FALSE]
  /\ UNCHANGED <<info, loc, ops, mon, past>>

\* The restart timer is a task of its own and outlives the peer task.
RestartTimerFires(n) ==
  /\ tasks[n].timer /\ Len(ops) < MaxOps
  /\ ops' = Append(ops, [op |-> "GracefulRestartTimerExpired", from |-> n, llgr |-> tasks[n].llgr])
  /\ tasks' = [tasks EXCEPT ![n].timer = FALSE, ![n].llgr = {}]
  /\ UNCHANGED <<info, loc, mon, past>>

-----------------------------------------------------------------------------
\* The RTR manager sends a difference of the VRPs; affected_prefixes finds the
\* prefixes of the Loc-RIB under it, whichever peers they have paths of.
VrpsChange ==
  /\ Room(1)
  /\ \E K \in (SUBSET setup.vrps) \ {{}} : \E D \in SUBSET K :
       ops' = Append(ops, [op |-> "VrpUpdate", from |-> 0, keys |-> K, reject |-> D])
  /\ UNCHANGED <<info, loc, tasks, mon, past>>

-----------------------------------------------------------------------------
Init ==
  /\ info = NewInfo(1)
  /\ tasks = <<NewTask>>
  /\ loc = [k \in Keys |-> "none"]
  /\ ops = <<>>
  /\ mon = "down"
  /\ past = [mixed |-> FALSE, limit |-> FALSE, partial |-> FALSE]
  /\ setup \in Setups

Step ==
  \/ ServerStep
  \/ \E f \in Families : LlgrTimerFires(f) \/ RefreshTimerFires(f)
  \/ AddPeer \/ RemovePeer \/ VrpsChange
  \/ \E n \in DOMAIN tasks : TaskReports(n) \/ TaskEnds(n) \/ RestartTimerFires(n)

Next == Step /\ UNCHANGED setup

Spec == Init /\ [][Next]_vars

\* The server goes on taking operations from its queue and timers fire.  Strong
\* fairness only makes up for the bound on the queue: without it a timer that is due
\* can always fire.
Fairness ==
  /\ WF_state(ServerStep)
  /\ SF_state(\E f \in Families : LlgrTimerFires(f))
  /\ SF_state(\E f \in Families : RefreshTimerFires(f))
  /\ SF_state(\E n \in DOMAIN tasks : RestartTimerFires(n))

FairSpec == Spec /\ Fairness

-----------------------------------------------------------------------------
(* Properties *)

TypeOK ==
  /\ Present => /\ info.task \in DOMAIN tasks
                /\ info.admin \in {"Up", "Down", "PrefixLimitReached"}
                /\ info.state \in {"Idle", "Established"}
                /\ info.caps \in setup.caps \cup {NoCaps}
                /\ info.adjIn \subseteq Keys /\ info.disabled \subseteq Families
  /\ loc \in [Keys -> {"none", "fresh", "stale", "llgr", "revived"}]
  /\ Len(tasks) \in 1..setup.tasks
  /\ mon \in {"up", "down", "confused"}
  /\ past \in [mixed : BOOLEAN, limit : BOOLEAN, partial : BOOLEAN]

\* The collector's picture: PeerUp and PeerDown alternate, and the last one says
\* whether the server has an established session with the peer, one whose addresses
\* and OPENs the task could report.  The exceptions are
\* the entries that handled an operation of an earlier task of the address, and a
\* peer that was stopped at its max-prefix limit, which leaves bmp_session set.
MonitorSeesSession ==
  ~past.mixed /\ ~past.limit => mon = IF Present /\ IsUp(info) /\ info.conn THEN "up" ELSE "down"

\* Once the queue is empty the server's picture of the session is the one the task
\* of the entry reported, unless an earlier task of the address reported in between
\* or the server tore the session down itself.
ServerAgreesWithTask ==
  Present /\ ops = <<>> /\ ~past.mixed /\ ~past.limit =>
    LET t == tasks[Current].told
    IN  /\ info.state = (IF t.state = "Established" THEN "Established" ELSE "Idle")
        /\ info.asn = t.asn /\ info.conn = t.info

\* The path of a peer without a session is stale, but for the families a session
\* with graceful restart left out of its list and for a path that a VRP update
\* imported again meanwhile; an address without a peer has no path at all, whatever
\* its old tasks and the RTR manager still send.
FreshHasSession ==
  \A k \in Keys :
    /\ ~Present => loc[k] = "none"
    /\ Present /\ loc[k] = "fresh" => IsUp(info) \/ past.partial \/ past.mixed

\* A fresh path of the Loc-RIB is in the Adj-RIB-In, from which it is evaluated again
\* when VRPs change, unless a family was disabled, when withdrawals may
\* have been dropped along with the announcements of that family, or an update that
\* exceeds a limit is dropped after adj_rib_in took it (allow_automatic_stop = false).
FreshIsInAdjIn ==
  Present /\ ~past.mixed /\ ~past.partial /\ info.disabled = {} /\ AllowAutoStop =>
    \A k \in Keys : loc[k] = "fresh" => k \in info.adjIn

\* A stale path does not stay stale: the peer announces it again, or it is removed when
\* the peer is back, at an End-of-RIB or EoRR, or by the restart, LLGR or refresh timer,
\* whichever way these and new sessions interleave, or a VRP update imports it again.
StaleIsCleared ==
  \A k \in Keys : Stale(k) ~> (~Stale(k) \/ past.mixed \/ past.partial)

\* "GR keeps adj-rib-in (routes are stale but retained)" (handle_peer_disconnected): what
\* was retained for a peer goes when its restart and long-lived times are over, unless
\* the peer is back.
RetainedIsCleared ==
  \A k \in Keys : Present /\ ~IsUp(info) /\ loc[k] # "none"
                    ~> (loc[k] = "none" \/ IsUp(info) \/ past.mixed \/ past.partial)

\* Task, server and collector have the same picture of the session
\* (handle_peer_state_changed, handle_peer_disconnected, bmp_session).
SessionIsSeen == TypeOK /\ MonitorSeesSession /\ ServerAgreesWithTask

\* A fresh path is one of an established session and of its Adj-RIB-In, VRP updates
\* during a restart aside (handle_peer_update, handle_peer_disconnected,
\* handle_vrp_update).
FreshIsLive == FreshHasSession /\ FreshIsInAdjIn
=============================================================================
