----------------------------- MODULE Monitoring -----------------------------
(***************************************************************************)
(* The BMP exporter (bmp/task.rs, bmp/destination.rs) beside the route     *)
(* processing of module Propagation: the server broadcasts what happens to *)
(* its peers to one task per collector, which batches the messages and     *)
(* writes them to a TCP connection that it opens when it needs one.        *)
(*                                                                         *)
(* `bmp` has for every collector the state of its task ("none", "starting" *)
(* or "running"), whether its channel is open, and what it holds; `lossy`  *)
(* tells that a write of this task has failed.  `seen` is what the         *)
(* collector makes of the messages of the connection at hand; it forgets   *)
(* with the connection.  An address is used again when its task is gone.   *)
(***************************************************************************)
EXTENDS Propagation

CONSTANTS
  BatchSize,   \* MAX_BATCH_SIZE
  MaxWaiting   \* bounds the operations that wait for a task

ASSUME MonitoringAssumption == BatchSize \in Nat \ {0} /\ MaxWaiting \in Nat

VARIABLES bmp, seen

monitored == <<setup, established, ribIn, loc, ribOut, told, invalid, said, bmp, seen>>

Collectors == setup.collectors

\* What a hash map with these keys may be read out as.
Orders(S) == Bijection(1..Cardinality(S), S)

NoTask == [state |-> "none", open |-> FALSE, rx |-> <<>>, batch |-> <<>>, conn |-> FALSE, lossy |-> FALSE]
Blank == [init |-> FALSE, up |-> {}, routes |-> [p \in Peers |-> None], framed |-> TRUE, counted |-> TRUE, closed |-> FALSE]

Msg(kind, p, attr) == [kind |-> kind, peer |-> p, attr |-> attr]
PeerUp(p) == Msg("PeerUp", p, None)
PeerDown(p) == Msg("PeerDown", p, None)
RouteMonitoring(p, attr) == Msg("RouteMonitoring", p, attr)
Initiation == Msg("Initiation", Local, None)
Termination == Msg("Termination", Local, None)
Statistics(p) == Msg("StatisticsReport", p, None)

-----------------------------------------------------------------------------
(* The server *)

\* A task is in bmp_tasks until it is told to stop.
broadcast_bmp(msgs) ==
  /\ \A c \in Collectors : Len(bmp[c].rx) < MaxWaiting
  /\ bmp' = [c \in Collectors |-> IF bmp[c].open THEN [bmp[c] EXCEPT !.rx = @ \o msgs] ELSE bmp[c]]
  /\ seen' = seen
Silent == UNCHANGED <<bmp, seen>>

\* Withdrawals first, then one message per set of attributes, in the order of a
\* hash map.
send_bmp_route_monitoring(p, routes) ==
  \E attrs \in Orders(Range(routes) \ {Withdraw}) :
    broadcast_bmp([i \in 1..Cardinality(Range(routes) \cap {Withdraw}) |-> RouteMonitoring(p, None)]
                  \o [i \in DOMAIN attrs |-> RouteMonitoring(p, attrs[i])])

\* Mutant: the routes of a peer before its PeerUp.
send_initial_bmp_state_Interleaved(peers, heard) ==
  [i \in DOMAIN heard |-> RouteMonitoring(heard[i], ribIn[heard[i]])] \o [i \in DOMAIN peers |-> PeerUp(peers[i])]

\* The PeerUps of all peers, then the routes in their adj_rib_in.
send_initial_bmp_state(peers, heard) ==
  [i \in DOMAIN peers |-> PeerUp(peers[i])] \o [i \in DOMAIN heard |-> RouteMonitoring(heard[i], ribIn[heard[i]])]

\* Mutant: a collector only learns what happens from now on.
spawn_single_bmp_task_FromNow(peers, heard) == [NoTask EXCEPT !.state = "starting", !.open = TRUE]

\* What happens from now on is queued behind the initial state.
spawn_single_bmp_task(peers, heard) ==
  [NoTask EXCEPT !.state = "starting", !.open = TRUE, !.rx = send_initial_bmp_state(peers, heard)]

\* get_established_peers goes through a hash map.
handle_add_bmp_server(c) ==
  /\ bmp[c].state = "none"
  /\ \E peers \in Orders(established), heard \in Orders({p \in established : ribIn[p] # None}) :
       bmp' = [bmp EXCEPT ![c] = spawn_single_bmp_task(peers, heard)]
  /\ seen' = [seen EXCEPT ![c] = Blank]

handle_remove_bmp_server(c) ==
  /\ bmp[c].open
  /\ bmp' = [bmp EXCEPT ![c].open = FALSE]
  /\ seen' = seen

-----------------------------------------------------------------------------
(* The collector *)

Known(v, m) == m.peer \in v.up
Read(v, m) ==
  CASE m.kind = "Initiation" -> [v EXCEPT !.init = TRUE]
    [] m.kind = "PeerUp" -> [v EXCEPT !.up = @ \cup {m.peer}, !.framed = @ /\ v.init /\ ~Known(v, m)]
    [] m.kind = "PeerDown" -> [v EXCEPT !.up = @ \ {m.peer}, !.routes[m.peer] = None, !.framed = @ /\ Known(v, m)]
    [] m.kind = "RouteMonitoring" -> [v EXCEPT !.routes[m.peer] = m.attr, !.framed = @ /\ Known(v, m)]
    [] m.kind = "StatisticsReport" -> [v EXCEPT !.counted = @ /\ Known(v, m)]
    [] m.kind = "Termination" -> [v EXCEPT !.closed = TRUE]

-----------------------------------------------------------------------------
(* The task *)

\* What a connection has shown a collector after these messages.
ReadAll(v, msgs) ==
  LET after[i \in 0..Len(msgs)] == IF i = 0 THEN v ELSE Read(after[i - 1], msgs[i])
  IN  after[Len(msgs)]

\* The data is written, on a new connection if there is none, or it is lost and so
\* is the connection.
send_raw(s, msgs, ok) ==
  IF ok THEN [task |-> [s.task EXCEPT !.conn = TRUE],
              view |-> ReadAll(IF s.task.conn THEN s.view ELSE Blank, msgs)]
  ELSE [task |-> [s.task EXCEPT !.conn = FALSE, !.lossy = TRUE], view |-> Blank]

SendAll(s, groups, ok) ==
  LET after[i \in 0..Len(groups)] == IF i = 0 THEN s ELSE send_raw(after[i - 1], groups[i], ok[i])
  IN  after[Len(groups)]

\* The writes of one step, each of which may fail.
Writes(c, task, groups) ==
  \E ok \in [1..Len(groups) -> BOOLEAN] :
    LET end == SendAll([task |-> task, view |-> seen[c]], groups, ok)
    IN  bmp' = [bmp EXCEPT ![c] = end.task] /\ seen' = [seen EXCEPT ![c] = end.view]

Start(c) ==
  /\ bmp[c].state = "starting"
  /\ Writes(c, [bmp[c] EXCEPT !.state = "running"], <<<<Initiation>>>>)

Works(c) == bmp[c].state = "running"
Flushed(task) == [task EXCEPT !.batch = <<>>]

TakeOp(c) ==
  /\ Works(c) /\ bmp[c].rx # <<>>
  /\ LET task == [bmp[c] EXCEPT !.rx = Tail(@), !.batch = Append(@, Head(bmp[c].rx))]
     IN  IF Len(task.batch) < BatchSize THEN Writes(c, task, <<>>)
         ELSE Writes(c, Flushed(task), <<task.batch>>)

FlushTimer(c) ==
  /\ Works(c) /\ bmp[c].batch # <<>>
  /\ Writes(c, Flushed(bmp[c]), <<bmp[c].batch>>)

\* Written at once, past the batch.
send_statistics(c) ==
  /\ Works(c) /\ established # {}
  /\ \E peers \in Orders(established) :
       Writes(c, bmp[c], [i \in DOMAIN peers |-> <<Statistics(peers[i])>>])

\* The channel is closed and empty.
End(c) ==
  /\ Works(c) /\ ~bmp[c].open /\ bmp[c].rx = <<>>
  /\ Writes(c, [Flushed(bmp[c]) EXCEPT !.state = "none"],
            (IF bmp[c].batch = <<>> THEN <<>> ELSE <<bmp[c].batch>>) \o <<<<Termination>>>>)

TaskStep(c) == Start(c) \/ TakeOp(c) \/ FlushTimer(c) \/ send_statistics(c) \/ End(c)

-----------------------------------------------------------------------------
MonitoredInit ==
  /\ Init
  /\ bmp = [c \in Collectors |-> NoTask] /\ seen = [c \in Collectors |-> Blank]

ServerStep ==
  \/ \E p \in Peers : \/ PeerEstablished(p) /\ broadcast_bmp(<<PeerUp(p)>>)
                      \/ PeerDisconnected(p) /\ broadcast_bmp(<<PeerDown(p)>>)
                      \/ RouteRefresh(p) /\ Silent
                      \/ \E routes \in Batches : /\ PeerUpdate(p, routes)
                                                 /\ send_bmp_route_monitoring(p, RejectAnnouncements(routes))
  \/ \E attr \in setup.originated : AddLocalRoute(attr) /\ Silent
  \/ RemoveLocalRoute /\ Silent
  \/ \E inv \in SUBSET Attrs : VrpUpdate(inv) /\ Silent

MonitoredNext ==
  \/ ServerStep
  \/ \E c \in Collectors : /\ TaskStep(c) \/ handle_add_bmp_server(c) \/ handle_remove_bmp_server(c)
                           /\ UNCHANGED vars

MonitoredSpec == MonitoredInit /\ [][MonitoredNext]_monitored

-----------------------------------------------------------------------------
(* Properties *)

CaughtUp(c) == Works(c) /\ bmp[c].open /\ ~bmp[c].lossy /\ bmp[c].rx = <<>> /\ bmp[c].batch = <<>>

\* Whenever it was added and whatever happens to other collectors, one whose task has
\* written everything knows the sessions that are up and for each of them the route in
\* its adj_rib_in (spawn_single_bmp_task, broadcast_bmp, flush): what is sent when the
\* task is spawned and what is broadcast afterwards leave no gap.  Coalesced UPDATEs
\* reach it in the order of a hash map and looped announcements as withdrawals, so
\* this is about networks without them.
CollectorsSeeAdjIn ==
  MaxBatch = 1 /\ Looped = {} =>
    \A c \in Collectors : CaughtUp(c) =>
      /\ seen[c].init /\ seen[c].up = established
      /\ \A p \in established : seen[c].routes[p] = ribIn[p]

\* On a connection that never failed the messages of a peer come between its PeerUp
\* and its PeerDown, which alternate, after the Initiation, and a task that is
\* removed says everything it was told before its Termination.
MonitoringIsFramed ==
  \A c \in Collectors : ~bmp[c].lossy =>
    /\ seen[c].framed
    /\ bmp[c].state = "none" /\ bmp[c].conn => seen[c].closed

\* Statistics reports are only about peers the collector knows to be up.  Refuted:
\* send_statistics writes past the batch that holds the PeerUp.
StatisticsFollowPeerUp ==
  \A c \in Collectors : ~bmp[c].lossy => seen[c].counted

\* A collector is shown a well-formed stream of messages, and from it the sessions and
\* routes the server has (BmpTask, broadcast_bmp).
CollectorsAreShown == CollectorsSeeAdjIn /\ MonitoringIsFramed
=============================================================================
