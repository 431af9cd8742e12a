----------------------------- MODULE PeerTask -----------------------------
(***************************************************************************)
(* The task that owns one BGP peer (bgpgg/src/peer): its connections, its  *)
(* timers, the finite state machine and the operations it exchanges with   *)
(* the server task.                                                        *)
(*                                                                         *)
(* The task is sequential: a select! picks one ready input and the handler *)
(* runs to completion, so a step is a composition of operators on the      *)
(* record `peer`, one per method of struct Peer, in the order the method   *)
(* makes its calls.  An error result is the field `err`, which a caller    *)
(* that ignores errors clears (TryProcessEvent) and one that handles them  *)
(* turns into a disconnect (OrDisconnect).                                 *)
(*                                                                         *)
(* Fields of `peer` that are Option or bool fields of struct Peer and of   *)
(* FsmTimers: conn ("none", or who opened it: conn and conn_dialed),       *)
(* pending (conn_pending), retry, hold, keep, delay (timer running), ht    *)
(* (hold_time, zero or not), down (consecutive_down_count, saturating at   *)
(* MaxDown), stopped (manually_stopped), est (established_at), opens       *)
(* (statistics.open_sent > 0), gr (what the negotiated restart capability  *)
(* lets the task do), grState and grTimer (gr_state, for one family).      *)
(* Five fields are not in the task: op is the operation the last step      *)
(* handled, tx and out are what it wrote to a connection and sent to the   *)
(* server, told is what the server knows once it has handled everything    *)
(* sent to it, and sent is whether an OPEN was written on the connection   *)
(* held in conn.                                                           *)
(*                                                                         *)
(* The queue of operations needs no state: the server may send any of them *)
(* at any time, so the task finds any of them at its head.                 *)
(*                                                                         *)
(* The outgoing data path (pending_updates and the MRAI timer, End-of-RIB  *)
(* markers we send) is not part of this module, nor are the statistics     *)
(* other than open_sent.                                                   *)
(***************************************************************************)
EXTENDS PeerFsm, Naturals, Sequences

CONSTANTS
  Passive,           \* config.passive_mode
  DelayOpen,         \* config.delay_open_time_secs is set
  IdleHold,          \* config.idle_hold_time_secs is set
  NotifWithoutOpen,  \* config.send_notification_without_open
  MaxDown            \* where the model saturates consecutive_down_count

ASSUME ConfigAssumption ==
  /\ Passive \in BOOLEAN
  /\ DelayOpen \in BOOLEAN
  /\ IdleHold \in BOOLEAN
  /\ NotifWithoutOpen \in BOOLEAN
  /\ MaxDown \in Nat

VARIABLES
  peer,     \* the state of the task
  server,   \* what the server may still send on peer_rx
  napped    \* the sleep of the current pass through Connect or Active is over

vars == <<peer, server, napped>>

-----------------------------------------------------------------------------
Connections == {"none", "dialed", "accepted"}

\* Why a session ended, as far as disconnect() tells reasons apart: after a
\* NOTIFICATION, after one that only resolves a collision, or without one.
Reasons == {"Notification", "Collision", "Quiet"}

\* What a graceful-restart capability allows: nothing, only replacing the
\* connection of an established session, or also keeping the routes.
GrKinds == {"none", "reconnect", "preserve"}

\* What the task reads from the peer's OPEN: whether enter_open_confirm accepts
\* it, whether the hold time is zero, the restart capability, and who wins a
\* collision against the identifier it carries.  What a refused OPEN says of the
\* hold time and of restarts is not read.
OpenMessages ==
  {o \in [ok : BOOLEAN, hold : {"zero", "pos"}, gr : GrKinds, localWins : BOOLEAN] :
     o.ok \/ (o.hold = "pos" /\ o.gr = "none")}

\* Operations of the server.  Start and AutoStart stand for the variant that
\* matches passive_mode; Query for the ones that only read.
PeerOps == {"Start", "AutoStart", "ManualStop", "Shutdown", "HardReset",
            "Accepted", "SendUpdate", "Query"}

\* What a connection delivers: a message, a body that does not parse, a header
\* the read task refuses, or its end.  The ROUTE_REFRESH messages are the ones
\* the negotiated capabilities admit; any other is ignored.
Messages == {"Open", "Keepalive", "Update", "EndOfRib", "RouteRefresh",
             "RouteRefreshBoRR", "RouteRefreshEoRR", "Notification", "CollisionCease",
             "VersionNotification", "BadOpen", "BadUpdate", "BadHeader", "Closed"}

NoPayload == "NoPayload"

Payload(m) == IF m = "Open" THEN OpenMessages ELSE {NoPayload}

-----------------------------------------------------------------------------
(* Outputs of a step *)

StateChanged(s) == [op |-> "StateChanged", state |-> s]

Disconnected(g) == [op |-> "Disconnected", gr |-> g]

ServerOp(name) == [op |-> name]

RoutesUpdate(sessions) == [op |-> "Update", routes |-> sessions]

Unknown == [state |-> "Idle", asn |-> FALSE, info |-> FALSE]

\* What the server remembers of the session (ConnectionState) after an operation.
Learn(told, op) ==
  CASE op.op = "StateChanged"      -> [told EXCEPT !.state = op.state]
    [] op.op = "HandshakeComplete" -> [told EXCEPT !.asn = TRUE]
    [] op.op = "ConnectionInfo"    -> [told EXCEPT !.info = TRUE]
    [] op.op = "Disconnected"      -> Unknown
    [] OTHER                       -> told

Emit(p, op) == [p EXCEPT !.out = Append(@, op), !.told = Learn(@, op)]

Write(p, m) == [p EXCEPT !.tx = Append(@, [on |-> p.conn, msg |-> m, opened |-> p.sent])]

-----------------------------------------------------------------------------
(* Connection teardown and the messages the task sends *)

PreservesRoutes(p, reason) ==
  reason = "Quiet" /\ p.state = "Established" /\ p.gr = "preserve"

\* Mutant: conn_pending survives the connection.
DropConnections_KeepsPending(p) ==
  [p EXCEPT !.conn = "none", !.sent = FALSE, !.est = FALSE,
            !.hold = FALSE, !.keep = FALSE, !.delay = FALSE,
            !.routes = IF @ = {} THEN {} ELSE {"old"}]

\* Mutant: established_at is not taken.
DropConnections_KeepsEstablishedAt(p) ==
  [p EXCEPT !.conn = "none", !.pending = FALSE, !.sent = FALSE,
            !.hold = FALSE, !.keep = FALSE, !.delay = FALSE,
            !.routes = IF @ = {} THEN {} ELSE {"old"}]

\* Mutant: stop_session_timers forgets the DelayOpen timer.
DropConnections_KeepsDelayOpen(p) ==
  [p EXCEPT !.conn = "none", !.pending = FALSE, !.sent = FALSE, !.est = FALSE,
            !.hold = FALSE, !.keep = FALSE,
            !.routes = IF @ = {} THEN {} ELSE {"old"}]

\* Both connections, established_at and the session timers; the routes not yet
\* sent to the server stay.
DropConnections(p) ==
  [p EXCEPT !.conn = "none", !.pending = FALSE, !.sent = FALSE, !.est = FALSE,
            !.hold = FALSE, !.keep = FALSE, !.delay = FALSE,
            !.routes = IF @ = {} THEN {} ELSE {"old"}]

Disconnect(p, damping, reason) ==
  LET keeps == PreservesRoutes(p, reason)
      had   == p.conn # "none"
      q     == DropConnections(p)
  IN  IF ~had THEN q
      ELSE Emit([q EXCEPT !.down    = IF damping /\ reason # "Collision" /\ @ < MaxDown
                                        THEN @ + 1 ELSE @,
                          !.grState = IF keeps THEN "waiting" ELSE @,
                          !.grTimer = IF keeps THEN TRUE ELSE @],
                Disconnected(keeps))

OrDisconnect(p) ==
  IF p.err THEN [Disconnect(p, TRUE, "Quiet") EXCEPT !.err = FALSE] ELSE p

Fail(p) == [p EXCEPT !.err = TRUE]

\* disconnect followed by stop_connect_retry, as most ways to Idle end.
Teardown(p, reason) == [Disconnect(p, TRUE, reason) EXCEPT !.retry = FALSE]

SendNotification(p) ==
  IF p.conn # "none" /\ (NotifWithoutOpen \/ p.opens) /\ p.io
    THEN Write(p, "Notification") ELSE p

SendOpen(p) ==
  IF p.conn = "none" \/ ~p.io THEN Fail(p)
  ELSE [Write(p, "Open") EXCEPT !.opens = TRUE, !.sent = TRUE]

SendKeepalive(p) ==
  IF p.conn = "none" \/ ~p.io THEN Fail(p)
  ELSE [Write(p, "Keepalive") EXCEPT !.keep = IF p.ht = "pos" THEN TRUE ELSE @]

EnterOpenConfirm(p, open) ==
  IF ~open.ok THEN Fail(SendNotification(p))
  ELSE LET q == SendKeepalive([p EXCEPT !.gr = open.gr, !.ht = open.hold])
       IN  IF q.err THEN q
           ELSE Emit(IF open.hold = "pos" THEN [q EXCEPT !.hold = TRUE]
                     ELSE [q EXCEPT !.hold = FALSE, !.keep = FALSE],
                     ServerOp("HandshakeComplete"))

-----------------------------------------------------------------------------
(* What a transition does, per state it starts from.  The argument p is the  *)
(* task after Fsm::handle_event, so p.state is the new state.                *)

IdleTransitions(p) ==
  IF p.state \in {"Connect", "Active"} THEN [p EXCEPT !.retry = TRUE] ELSE p

\* Mutant: start_hold_timer is forgotten.
StartSession_NoHoldTimer(p) == SendOpen([p EXCEPT !.ht = "pos"])

\* set_initial_hold_time, start_hold_timer, send_open
StartSession(p) == SendOpen([p EXCEPT !.ht = "pos", !.hold = TRUE])

AnswerDelayedOpen(p, open) ==
  LET q == SendOpen([p EXCEPT !.retry = FALSE, !.delay = FALSE])
  IN  IF q.err THEN q ELSE EnterOpenConfirm(q, open)

\* A version error while the DelayOpen timer runs does not count as oscillation.
DropUnopened(p, reason) ==
  IF p.delay THEN [Disconnect(p, FALSE, reason) EXCEPT !.retry = FALSE]
  ELSE Teardown(p, reason)

ConnectTransitions(p, e, arg) ==
  CASE e \in {"ConnectRetryTimerExpires", "TcpConnectionFails"} ->
         [Disconnect(p, TRUE, "Quiet") EXCEPT !.retry = TRUE]
    [] e \in MessageErrorEvents -> Teardown(SendNotification(p), "Quiet")
    [] e = "NotifMsgVerErr" -> DropUnopened(p, arg)
    [] e = "NotifMsg" -> Teardown(p, arg)
    [] e = "ManualStop" -> [Teardown(p, "Quiet") EXCEPT !.stopped = TRUE]
    [] e \in {"BgpKeepaliveReceived", "BgpUpdateReceived"} ->
         Fail(Teardown(SendNotification(p), "Quiet"))
    [] e \in {"AutomaticStop", "HoldTimerExpires", "KeepaliveTimerExpires",
              "IdleHoldTimerExpires", "BgpOpenReceived", "BgpUpdateMsgErr"} ->
         Teardown(p, "Quiet")
    [] e = "DelayOpenTimerExpires" -> StartSession([p EXCEPT !.delay = FALSE])
    [] e = "TcpConnectionConfirmed" -> StartSession([p EXCEPT !.retry = FALSE])
    [] e = "BgpOpenWithDelayOpenTimer" -> AnswerDelayedOpen(p, arg)
    [] OTHER -> p

ActiveTransitions(p, e, arg) ==
  CASE e = "ConnectRetryTimerExpires" -> [p EXCEPT !.retry = IF p.state = "Connect" THEN TRUE ELSE @]
    [] e = "TcpConnectionFails" ->
         [Disconnect(p, TRUE, "Quiet") EXCEPT !.retry = TRUE]
    [] e \in MessageErrorEvents -> Teardown(SendNotification(p), "Quiet")
    [] e = "NotifMsgVerErr" -> DropUnopened(p, arg)
    [] e = "NotifMsg" -> Teardown(p, arg)
    [] e \in {"BgpKeepaliveReceived", "BgpUpdateReceived"} ->
         Fail(Teardown(SendNotification(p), "Quiet"))
    [] e \in {"AutomaticStop", "HoldTimerExpires", "KeepaliveTimerExpires",
              "IdleHoldTimerExpires", "BgpOpenReceived", "BgpUpdateMsgErr"} ->
         Teardown(p, "Quiet")
    [] e = "ManualStop" ->
         [Teardown(IF p.delay /\ NotifWithoutOpen THEN SendNotification(p) ELSE p, "Quiet")
            EXCEPT !.stopped = TRUE]
    [] e = "DelayOpenTimerExpires" ->
         StartSession([p EXCEPT !.delay = FALSE, !.retry = FALSE])
    [] e = "TcpConnectionConfirmed" -> StartSession([p EXCEPT !.retry = FALSE])
    [] e = "BgpOpenWithDelayOpenTimer" -> AnswerDelayedOpen(p, arg)
    [] OTHER -> p

OpenSentTransitions(p, e, arg) ==
  CASE e = "ManualStop" ->
         [Teardown(SendNotification(p), "Quiet") EXCEPT !.stopped = TRUE]
    [] e = "AutomaticStop" ->
         Fail(Emit(Teardown(SendNotification(p), "Quiet"), ServerOp("SetAdminState")))
    [] e \in {"HoldTimerExpires"} \cup MessageErrorEvents ->
         Teardown(SendNotification(p), "Quiet")
    [] e = "TcpConnectionFails" ->
         [Disconnect(p, TRUE, "Quiet") EXCEPT !.retry = TRUE]
    [] e = "NotifMsgVerErr" -> [Disconnect(p, FALSE, arg) EXCEPT !.retry = FALSE]
    [] e = "NotifMsg" -> Teardown(SendNotification(p), arg)
    [] e \in {"ConnectRetryTimerExpires", "KeepaliveTimerExpires", "DelayOpenTimerExpires",
              "IdleHoldTimerExpires", "BgpKeepaliveReceived", "BgpUpdateReceived"} ->
         Fail(Teardown(SendNotification(p), "Quiet"))
    [] e = "BgpUpdateMsgErr" -> Fail(Disconnect(SendNotification(p), TRUE, "Quiet"))
    [] e \in {"BgpOpenReceived", "BgpOpenWithDelayOpenTimer"} ->
         EnterOpenConfirm([p EXCEPT !.delay = FALSE, !.retry = FALSE], arg)
    [] OTHER -> p

\* handle_manual_stop, handle_automatic_stop, handle_hold_timer_expires,
\* handle_bgp_message_error and handle_fsm_error all send a NOTIFICATION and
\* end the session.
NotifyAndTeardown(p) == Teardown(SendNotification(p), "Notification")

\* The socket's addresses are read only while the connection is usable.
ReportConnection(p) == IF p.io THEN Emit(p, ServerOp("ConnectionInfo")) ELSE p

OpenConfirmTransitions(p, e, arg) ==
  CASE e = "ManualStop" -> [NotifyAndTeardown(p) EXCEPT !.stopped = TRUE]
    [] e = "AutomaticStop" -> Fail(Emit(NotifyAndTeardown(p), ServerOp("SetAdminState")))
    [] e \in {"HoldTimerExpires"} \cup MessageErrorEvents -> NotifyAndTeardown(p)
    [] e = "TcpConnectionFails" -> Teardown(p, "Quiet")
    [] e = "NotifMsgVerErr" -> [Disconnect(p, FALSE, arg) EXCEPT !.retry = FALSE]
    [] e = "NotifMsg" -> Teardown(p, arg)
    [] e = "KeepaliveTimerExpires" -> SendKeepalive(p)
    [] e = "BgpKeepaliveReceived" ->
         ReportConnection([p EXCEPT !.hold = TRUE, !.est = TRUE])
    [] e \in {"ConnectRetryTimerExpires", "DelayOpenTimerExpires", "IdleHoldTimerExpires",
              "BgpOpenWithDelayOpenTimer", "BgpUpdateReceived", "BgpUpdateMsgErr"} ->
         Fail(NotifyAndTeardown(p))
    [] OTHER -> p

EstablishedTransitions(p, e, arg) ==
  CASE e = "ManualStop" -> [NotifyAndTeardown(p) EXCEPT !.stopped = TRUE]
    [] e = "AutomaticStop" -> Fail(Emit(NotifyAndTeardown(p), ServerOp("SetAdminState")))
    [] e = "HoldTimerExpires" -> NotifyAndTeardown(p)
    [] e = "TcpConnectionFails" -> Teardown(p, "Quiet")
    [] e \in NotificationEvents -> Teardown(p, arg)
    [] e = "KeepaliveTimerExpires" -> SendKeepalive(p)
    [] e \in {"BgpKeepaliveReceived", "BgpUpdateReceived"} ->
         [p EXCEPT !.hold = IF p.ht = "pos" THEN TRUE ELSE @,
                   !.down = IF p.est /\ p.stable THEN 0 ELSE @]
    [] e \in {"ConnectRetryTimerExpires", "DelayOpenTimerExpires", "IdleHoldTimerExpires",
              "BgpOpenWithDelayOpenTimer", "BgpUpdateMsgErr"} \cup MessageErrorEvents ->
         Fail(NotifyAndTeardown(p))
    [] OTHER -> p

Transition(p, from, e, arg) ==
  CASE from = "Idle"        -> IdleTransitions(p)
    [] from = "Connect"     -> ConnectTransitions(p, e, arg)
    [] from = "Active"      -> ActiveTransitions(p, e, arg)
    [] from = "OpenSent"    -> OpenSentTransitions(p, e, arg)
    [] from = "OpenConfirm" -> OpenConfirmTransitions(p, e, arg)
    [] from = "Established" -> EstablishedTransitions(p, e, arg)

\* Mutant: the report carries the state the transition left.
ReportState_Old(p, from, new) ==
  IF p.err \/ new = from THEN p ELSE Emit(p, StateChanged(from))

\* notify_state_change() reads the state; an error of the handler skips it.
ReportState(p, from, new) ==
  IF p.err \/ new = from THEN p ELSE Emit(p, StateChanged(p.state))

\* The state is changed before the handler runs.
ProcessEvent(p, e, arg) ==
  LET new == HandleEvent(p.state, e, Passive, p.gr # "none")
  IN  ReportState(Transition([p EXCEPT !.state = new], p.state, e, arg), p.state, new)

TryProcessEvent(p, e, arg) == [ProcessEvent(p, e, arg) EXCEPT !.err = FALSE]

-----------------------------------------------------------------------------
(* Connections: a new one, and a collision of two *)

ConnectionReady(p) ==
  LET q == [p EXCEPT !.retry = FALSE]
  IN  IF DelayOpen THEN [q EXCEPT !.delay = TRUE]
      ELSE OrDisconnect(ProcessEvent(q, "TcpConnectionConfirmed", NoPayload))

ReplaceConnWithPending(p) ==
  [p EXCEPT !.conn = "accepted", !.pending = FALSE, !.sent = FALSE]

ProcessDelayOpen(p, open) ==
  OrDisconnect(ProcessEvent([p EXCEPT !.delay = FALSE], "BgpOpenWithDelayOpenTimer", open))

\* Mutant: no OPEN is sent on the connection that takes over.
PromotePending_NoOpen(p) ==
  LET q == ReplaceConnWithPending(p)
  IN  IF p.delay THEN ConnectionReady([q EXCEPT !.delay = FALSE]) ELSE q

PromotePending(p) ==
  LET q == ReplaceConnWithPending(p)
  IN  IF p.delay THEN ConnectionReady([q EXCEPT !.delay = FALSE])
      ELSE OrDisconnect(SendOpen(q))

\* The OPEN that resolved the collision came on the dialed connection.
AdoptPending(p) ==
  LET q == ReplaceConnWithPending(IF p.delay THEN p ELSE SendNotification(p))
  IN  IF p.delay THEN ConnectionReady([q EXCEPT !.delay = FALSE])
      ELSE OrDisconnect(SendOpen(q))

\* The OPEN came on the accepted connection and is answered on it.
AdoptPendingWithOpen(p, open) ==
  LET q == ReplaceConnWithPending(IF p.delay THEN p ELSE SendNotification(p))
      r == SendOpen(q)
  IN  IF p.delay THEN ProcessDelayOpen(q, open)
      ELSE IF r.err THEN OrDisconnect(r)
      ELSE OrDisconnect(ProcessEvent(r, "BgpOpenReceived", open))

DropPending(p) == [p EXCEPT !.pending = FALSE]

Attach(p, c) == [p EXCEPT !.conn = c, !.sent = FALSE]

\* Mutant: manually_stopped is not looked at.
OnConnAccepted_IgnoresStop(p) ==
  CASE p.state = "Idle" ->
         IF IdleHold
           THEN TryProcessEvent(Attach(p, "accepted"),
                                IF Passive THEN "AutomaticStartPassive" ELSE "AutomaticStart",
                                NoPayload)
           ELSE p
    [] p.state \in {"Connect", "Active"} /\ p.conn = "none" ->
         ConnectionReady(Attach(p, "accepted"))
    [] p.state \in {"Connect", "Active", "OpenSent"} /\ p.conn = "dialed" /\ ~p.pending ->
         [p EXCEPT !.pending = TRUE]
    [] p.state = "Established" /\ p.gr # "none" ->
         Attach(TryProcessEvent(Disconnect(p, FALSE, "Quiet"),
                                "TcpConnectionConfirmed", NoPayload), "accepted")
    [] OTHER -> p

OnConnAccepted(p) ==
  CASE p.state = "Idle" ->
         IF IdleHold /\ ~p.stopped
           THEN TryProcessEvent(Attach(p, "accepted"),
                                IF Passive THEN "AutomaticStartPassive" ELSE "AutomaticStart",
                                NoPayload)
           ELSE p
    [] p.state \in {"Connect", "Active"} /\ p.conn = "none" ->
         ConnectionReady(Attach(p, "accepted"))
    [] p.state \in {"Connect", "Active", "OpenSent"} /\ p.conn = "dialed" /\ ~p.pending ->
         [p EXCEPT !.pending = TRUE]
    [] p.state = "Established" /\ p.gr # "none" ->
         Attach(TryProcessEvent(Disconnect(p, FALSE, "Quiet"),
                                "TcpConnectionConfirmed", NoPayload), "accepted")
    [] OTHER -> p

-----------------------------------------------------------------------------
(* Received messages *)

NotificationMessages == {"Notification", "CollisionCease", "VersionNotification"}

HandleNotification(p, m) ==
  TryProcessEvent(p, IF m = "VersionNotification" THEN "NotifMsgVerErr" ELSE "NotifMsg",
                     IF m = "CollisionCease" THEN "Collision" ELSE "Notification")

FlushPendingRoutes(p) == Emit([p EXCEPT !.routes = {}], RoutesUpdate(p.routes))

\* Mutant: the completion overtakes the routes received before it.
HandleEndOfRib_CompletesFirst(p) ==
  IF p.grState # "waiting" THEN p
  ELSE FlushPendingRoutes(Emit([p EXCEPT !.grState = "complete", !.grTimer = FALSE],
                               ServerOp("GracefulRestartComplete")))

\* An End-of-RIB that completes a restart sends the routes received so far
\* before the server is told to drop the ones that are still stale.
HandleEndOfRib(p) ==
  IF p.grState # "waiting" THEN p
  ELSE Emit(FlushPendingRoutes([p EXCEPT !.grState = "complete", !.grTimer = FALSE]),
            ServerOp("GracefulRestartComplete"))

HandleRouteRefresh(p, m) ==
  CASE m = "RouteRefreshBoRR" /\ p.gr # "none" /\ p.grState = "waiting" -> p
    [] m = "RouteRefreshEoRR" -> Emit(FlushPendingRoutes(p), ServerOp(m))
    [] OTHER -> Emit(p, ServerOp(m))

ResetHold(p) == [p EXCEPT !.hold = IF p.ht = "pos" THEN TRUE ELSE @]

\* What follows the event of an UPDATE, unless it failed.
AfterUpdate(p, m) ==
  IF p.err THEN p
  ELSE ResetHold(IF m = "EndOfRib" THEN HandleEndOfRib(p) ELSE [p EXCEPT !.routes = @ \cup {"cur"}])

HandleReceivedMessage(p, m, open) ==
  CASE m \in NotificationMessages -> Fail(HandleNotification(p, m))
    [] m \in {"Update", "EndOfRib"} -> AfterUpdate(ProcessEvent(p, "BgpUpdateReceived", NoPayload), m)
    [] m = "Keepalive" -> ResetHold(TryProcessEvent(p, "BgpKeepaliveReceived", NoPayload))
    [] m = "Open" -> ProcessEvent(p, "BgpOpenReceived", open)
    [] OTHER -> HandleRouteRefresh(p, m)

\* handle_delay_open_message: Connect or Active while the DelayOpen timer runs.
DelayOpenMessage(p, m, open) ==
  CASE m = "Open" ->
         IF p.pending /\ ~open.localWins THEN AdoptPending(p)
         ELSE ProcessDelayOpen(DropPending(p), open)
    [] m \in NotificationMessages -> HandleNotification(p, m)
    [] m = "BadOpen" -> TryProcessEvent(p, "BgpOpenMsgErr", NoPayload)
    [] m = "BadUpdate" -> TryProcessEvent(p, "TcpConnectionFails", NoPayload)
    [] m \in {"BadHeader", "Closed"} ->
         IF p.pending THEN PromotePending(p)
         ELSE TryProcessEvent(p, IF m = "Closed" THEN "TcpConnectionFails"
                                 ELSE "BgpHeaderErr", NoPayload)
    [] OTHER -> Disconnect(p, TRUE, "Quiet")

\* The message arm of handle_open_states.
OpenStatesMessage(p, m, open) ==
  IF p.pending /\ m = "Open" /\ ~open.localWins THEN AdoptPending(p)
  ELSE IF p.pending /\ m \in NotificationMessages \cup {"BadHeader", "Closed"}
    THEN PromotePending(p)
  ELSE CASE m \in {"BadOpen", "BadUpdate", "BadHeader"} ->
              Disconnect(SendNotification(p), TRUE, "Notification")
         [] m = "Closed" -> Disconnect(p, TRUE, "Quiet")
         [] OTHER ->
              OrDisconnect(HandleReceivedMessage(IF m = "Open" THEN DropPending(p) ELSE p,
                                                 m, open))

\* Many routes (full) are flushed at once, unless the message failed.
AfterMessage(p, full) ==
  IF p.err THEN OrDisconnect(p)
  ELSE IF full /\ p.routes # {} THEN FlushPendingRoutes(p) ELSE p

\* The message arm of handle_established.
EstablishedMessage(p, m, open, full) ==
  CASE m \in {"BadOpen", "BadUpdate", "BadHeader"} ->
         Disconnect(SendNotification(p), TRUE, "Notification")
    [] m = "Closed" -> Disconnect(p, TRUE, "Quiet")
    [] OTHER -> AfterMessage(HandleReceivedMessage(p, m, open), full)

HandleConnMessage(p, m, open, full) ==
  CASE p.state \in {"Connect", "Active"}       -> DelayOpenMessage(p, m, open)
    [] p.state \in {"OpenSent", "OpenConfirm"} -> OpenStatesMessage(p, m, open)
    [] OTHER                                   -> EstablishedMessage(p, m, open, full)

HandleConnPendingMsg(p, m, open) ==
  IF m # "Open" \/ open.localWins THEN DropPending(p) ELSE AdoptPendingWithOpen(p, open)

-----------------------------------------------------------------------------
(* Operations from the server *)

\* The task returns from run(): its connections close without a report.
Exit(p) == [p EXCEPT !.alive = FALSE, !.conn = "none", !.pending = FALSE,
                     !.hold = FALSE, !.keep = FALSE, !.delay = FALSE, !.sent = FALSE]

IdleOp(p, op) ==
  CASE op = "Start" ->
         TryProcessEvent([p EXCEPT !.stopped = FALSE],
                         IF Passive THEN "ManualStartPassive" ELSE "ManualStart", NoPayload)
    [] op = "AutoStart" ->
         TryProcessEvent(p, IF Passive THEN "AutomaticStartPassive" ELSE "AutomaticStart",
                         NoPayload)
    [] op = "Shutdown" -> Exit(p)
    [] op = "Accepted" -> OnConnAccepted(p)
    [] OTHER -> p

WaitingOp(p, op) ==
  CASE op = "ManualStop" -> TryProcessEvent(p, "ManualStop", NoPayload)
    [] op = "Accepted" -> OnConnAccepted(p)
    [] OTHER -> p

SessionOp(p, op) ==
  CASE op = "HardReset" ->
         TryProcessEvent(IF p.io THEN Write(p, "Notification") ELSE p,
                         "NotifMsgVerErr", "Notification")
    [] op = "Shutdown" -> Exit(SendNotification(p))
    [] op = "ManualStop" -> TryProcessEvent(p, "ManualStop", NoPayload)
    [] op = "Accepted" -> OnConnAccepted(p)
    [] op = "SendUpdate" /\ p.state = "Established" /\ ~p.io -> Disconnect(p, TRUE, "Quiet")
    [] OTHER -> p

HandleOp(p, op) ==
  CASE p.state = "Idle"                  -> IdleOp(p, op)
    [] p.state \in {"Connect", "Active"} -> WaitingOp(p, op)
    [] OTHER                             -> SessionOp(p, op)

-----------------------------------------------------------------------------
(* The actions: one per arm of the select! of each state *)

\* The writes and address lookups of a step succeed or not (io); the session
\* has been up for a hold time or not (stable).
Begin(io, stable) ==
  [peer EXCEPT !.op = "none", !.tx = <<>>, !.out = <<>>, !.io = io, !.stable = stable]

End(p) == peer' = [p EXCEPT !.io = TRUE, !.stable = FALSE]

\* The state loop waits for an input; otherwise it acts on its own first.
Polling(p) ==
  CASE p.state = "Idle"                  -> TRUE
    [] p.state \in {"Connect", "Active"} -> p.delay \/ p.conn = "none"
    [] OTHER                             -> p.conn # "none"

\* Whether a pass through Connect or Active sleeps for connect_retry_secs.
Sleeping(p) == p.state \in {"Connect", "Active"} /\ ~p.delay /\ p.conn = "none"

\* Any handled input ends the pass, and the next one sleeps anew.
Restart == napped' = FALSE

Settle ==
  /\ peer.alive /\ ~Polling(peer)
  /\ \E io \in BOOLEAN :
       LET p == Begin(io, FALSE)
       IN  End(IF p.state \in {"Connect", "Active"} THEN ConnectionReady(p)
               ELSE TryProcessEvent(p, "TcpConnectionFails", NoPayload))
  /\ Restart
  /\ UNCHANGED server

\* The next operation in the queue: after the Shutdown of a removed peer there
\* is none, and recv() returns None.
Queued == IF server = "present" THEN PeerOps
          ELSE IF server = "removing" THEN {"Shutdown"} ELSE {}

ReceiveOp ==
  /\ peer.alive /\ Polling(peer)
  /\ \E op \in Queued, io \in BOOLEAN :
       End([HandleOp(Begin(io, FALSE), op) EXCEPT !.op = op])
  /\ server' = IF server = "removing" THEN "gone" ELSE server
  /\ Restart

\* Only the Idle loop ends the task when recv() returns None.
ReceiveClosed ==
  /\ peer.alive /\ server = "gone" /\ peer.state = "Idle"
  /\ End(Exit(Begin(TRUE, FALSE)))
  /\ Restart
  /\ UNCHANGED server

\* Only a KEEPALIVE or an UPDATE looks at how long the session has been up, and
\* only an UPDATE with routes brings pending_routes to the watermark (full).
ReceiveMessage ==
  /\ peer.alive /\ Polling(peer) /\ peer.conn # "none"
  /\ \E io, stable, full \in BOOLEAN, m \in Messages : \E open \in Payload(m) :
       /\ stable => peer.state = "Established" /\ m \in {"Keepalive", "Update", "EndOfRib"}
       /\ full => peer.state = "Established" /\ m = "Update"
       /\ End(HandleConnMessage(Begin(io, stable), m, open, full))
  /\ Restart
  /\ UNCHANGED server

ReceivePendingMessage ==
  /\ peer.alive /\ Polling(peer) /\ peer.pending
  /\ \E io \in BOOLEAN, m \in Messages : \E open \in Payload(m) :
       End(HandleConnPendingMsg(Begin(io, FALSE), m, open))
  /\ Restart
  /\ UNCHANGED server

\* Once recv() returns None it ends every pass at once, so neither the sleep nor
\* the wait for a connection completes: the task spins.
Dial ==
  /\ peer.alive /\ peer.state = "Connect" /\ Sleeping(peer)
  /\ \/ /\ server # "gone"
        /\ \E io \in BOOLEAN : End(ConnectionReady(Attach(Begin(io, FALSE), "dialed")))
     \/ End(TryProcessEvent(Begin(TRUE, FALSE), "TcpConnectionFails", NoPayload))
  /\ Restart
  /\ UNCHANGED server

TimePasses ==
  /\ peer.alive /\ Sleeping(peer) /\ ~napped /\ server # "gone"
  /\ napped' = TRUE
  /\ UNCHANGED <<peer, server>>

\* connect_retry_secs passed in one sleep, or, while the DelayOpen timer of
\* Connect runs, the ConnectRetry timer expired.
RetryDue(p) ==
  \/ Sleeping(p) /\ napped
  \/ p.state = "Connect" /\ p.delay /\ p.retry

ConnectRetry ==
  /\ peer.alive /\ RetryDue(peer)
  /\ End(TryProcessEvent(Begin(TRUE, FALSE), "ConnectRetryTimerExpires", NoPayload))
  /\ Restart
  /\ UNCHANGED server

DelayOpenExpires ==
  /\ peer.alive /\ peer.state \in {"Connect", "Active"} /\ peer.delay
  /\ \E io \in BOOLEAN :
       End(OrDisconnect(ProcessEvent(Begin(io, FALSE), "DelayOpenTimerExpires", NoPayload)))
  /\ Restart
  /\ UNCHANGED server

IdleHoldExpires ==
  /\ peer.alive /\ peer.state = "Idle" /\ IdleHold /\ ~peer.stopped
  /\ End(TryProcessEvent(Begin(TRUE, FALSE), "IdleHoldTimerExpires", NoPayload))
  /\ Restart
  /\ UNCHANGED server

InSession(p) == p.state \in {"OpenSent", "OpenConfirm", "Established"} /\ p.conn # "none"

HoldExpires ==
  /\ peer.alive /\ InSession(peer) /\ peer.hold
  /\ \E io \in BOOLEAN :
       End(TryProcessEvent(Begin(io, FALSE), "HoldTimerExpires", NoPayload))
  /\ Restart
  /\ UNCHANGED server

KeepaliveExpires ==
  /\ peer.alive /\ InSession(peer) /\ peer.keep
  /\ \E io \in BOOLEAN :
       End(OrDisconnect(ProcessEvent(Begin(io, FALSE), "KeepaliveTimerExpires", NoPayload)))
  /\ Restart
  /\ UNCHANGED server

FlushRoutes ==
  /\ peer.alive /\ InSession(peer) /\ peer.state = "Established" /\ peer.routes # {}
  /\ End(FlushPendingRoutes(Begin(TRUE, FALSE)))
  /\ Restart
  /\ UNCHANGED server

\* The restart timer is a task of its own and outlives the peer task.
RestartTimerExpires ==
  /\ peer.grTimer
  /\ End(Emit([Begin(TRUE, FALSE) EXCEPT !.grTimer = FALSE], ServerOp("GracefulRestartTimerExpired")))
  /\ UNCHANGED <<server, napped>>

\* The server removes the peer: a Shutdown, after which its sender is dropped.
ServerRemoves ==
  /\ server = "present"
  /\ server' = "removing"
  /\ UNCHANGED <<peer, napped>>

-----------------------------------------------------------------------------
NewPeer(adminDown) ==
  [state |-> "Idle", conn |-> "none", pending |-> FALSE, sent |-> FALSE,
   retry |-> FALSE, hold |-> FALSE, keep |-> FALSE, delay |-> FALSE, ht |-> "pos",
   down |-> 0, stopped |-> adminDown, est |-> FALSE, opens |-> FALSE,
   gr |-> "none", grState |-> "none", grTimer |-> FALSE, routes |-> {},
   told |-> Unknown, alive |-> TRUE, err |-> FALSE, io |-> TRUE, stable |-> FALSE,
   op |-> "none", tx |-> <<>>, out |-> <<>>]

Init ==
  /\ \E adminDown \in BOOLEAN : peer = NewPeer(adminDown)
  /\ server = "present"
  /\ napped = FALSE

TaskStep ==
  \/ Settle \/ ReceiveOp \/ ReceiveClosed \/ ReceiveMessage \/ ReceivePendingMessage
  \/ Dial \/ TimePasses \/ ConnectRetry \/ DelayOpenExpires \/ IdleHoldExpires
  \/ HoldExpires \/ KeepaliveExpires \/ FlushRoutes \/ RestartTimerExpires

Next == TaskStep \/ ServerRemoves

Spec == Init /\ [][Next]_vars

\* What a retry from Active rests on: a sleep that the server does not cut short
\* forever ends, and when it has ended the loop acts on it.
RetryFairness ==
  /\ WF_vars(ConnectRetry)
  /\ ([]<><<peer'.op # "none">>_vars) \/ WF_vars(TimePasses)

RetrySpec == Spec /\ RetryFairness

\* The loop polls its channels and timers, and a due one is handled; the select!
\* picks among ready arms at random, so one that is ready again and again is
\* picked.  Nothing is assumed of the peer or of the network, and of the server
\* only that the Shutdown it sent is received.
Fairness ==
  /\ RetryFairness
  /\ WF_vars(Settle) /\ WF_vars(server # "present" /\ ReceiveOp) /\ WF_vars(ReceiveClosed)
  /\ SF_vars(ConnectRetry) /\ WF_vars(DelayOpenExpires)
  /\ WF_vars(HoldExpires) /\ WF_vars(FlushRoutes) /\ WF_vars(RestartTimerExpires)
  /\ ([]<><<peer'.op # "none">>_vars) \/ WF_vars(IdleHoldExpires)

FairSpec == Spec /\ Fairness

-----------------------------------------------------------------------------
(* Properties *)

Told == [state : States, asn : BOOLEAN, info : BOOLEAN]

Reports ==
  [op : {"StateChanged"}, state : States] \cup [op : {"Disconnected"}, gr : BOOLEAN]
    \cup [op : {"Update"}, routes : SUBSET {"cur", "old"}]
    \cup [op : {"HandshakeComplete", "ConnectionInfo", "SetAdminState",
                "GracefulRestartComplete", "GracefulRestartTimerExpired",
                "RouteRefresh", "RouteRefreshBoRR", "RouteRefreshEoRR"}]

Sent == [on : Connections, msg : {"Open", "Keepalive", "Notification"}, opened : BOOLEAN]

Fields == {"state", "conn", "pending", "sent", "retry", "hold", "keep", "delay", "ht",
           "down", "stopped", "est", "opens", "gr", "grState", "grTimer", "routes",
           "told", "alive", "err", "io", "stable", "op", "tx", "out"}

PeerType(p) ==
  /\ DOMAIN p = Fields
  /\ p.state \in States /\ p.conn \in Connections /\ p.pending \in BOOLEAN
  /\ p.sent \in BOOLEAN /\ p.retry \in BOOLEAN /\ p.hold \in BOOLEAN
  /\ p.keep \in BOOLEAN /\ p.delay \in BOOLEAN /\ p.ht \in {"pos", "zero"}
  /\ p.down \in 0..MaxDown /\ p.stopped \in BOOLEAN /\ p.est \in BOOLEAN
  /\ p.opens \in BOOLEAN /\ p.gr \in GrKinds
  /\ p.grState \in {"none", "waiting", "complete"} /\ p.grTimer \in BOOLEAN
  /\ p.routes \in SUBSET {"cur", "old"} /\ p.told \in Told
  /\ p.alive \in BOOLEAN /\ p.err \in BOOLEAN /\ p.io \in BOOLEAN /\ p.stable \in BOOLEAN
  /\ p.op \in PeerOps \cup {"none"} /\ p.tx \in Seq(Sent) /\ p.out \in Seq(Reports)

\* Types of the task's state and of its queue.
TypeOK ==
  /\ PeerType(peer)
  /\ server \in {"present", "removing", "gone"}
  /\ napped \in BOOLEAN

\* "Second connection during a collision ... the accepted connection held while
\* `conn` is one we dialed ... None outside a collision" (Peer::conn_pending).
CollisionWindow ==
  peer.pending => /\ peer.conn = "dialed"
                  /\ peer.state \in {"Connect", "Active", "OpenSent"}

\* While the DelayOpen timer runs there is a connection for the two
\* expect("connection should exist"), the OPEN is still to be sent on it, and the
\* ConnectRetry timer that handle_connect_delay_open_wait also looks at is stopped.
DelayOpenHasConnection ==
  peer.delay => /\ peer.conn # "none" /\ ~peer.sent
                /\ peer.state \in {"Connect", "Active"}
                /\ ~peer.retry

\* A task in Idle holds no connection, no collision candidate and no session:
\* every way back to Idle went through disconnect.
IdleIsQuiet ==
  peer.state = "Idle" => /\ peer.conn = "none" /\ ~peer.pending
                         /\ ~peer.est /\ ~peer.keep /\ ~peer.delay

\* A session is carried by a connection on which our own OPEN went out, whichever
\* of the two connections of a collision survived and however often it changed.
SessionHasOpen == peer.alive /\ InSession(peer) => peer.sent

\* No session waits for a silent peer forever: with a nonzero hold time the Hold
\* timer runs from OpenSent on, and KEEPALIVEs are due from OpenConfirm on.
SessionIsTimed ==
  peer.alive /\ InSession(peer) /\ peer.ht = "pos" =>
    /\ peer.hold
    /\ peer.state # "OpenSent" => peer.keep

\* What the task reported to the server and the session agree whenever the task
\* waits for input: the server, once it has handled the reports, takes the peer
\* for established exactly when it is, and knows its AS number then.
ServerAgrees ==
  peer.alive /\ Polling(peer) =>
    /\ peer.told.state = "Established" <=> peer.state = "Established"
    /\ peer.state = "Established" => peer.est /\ peer.told.asn

\* A stopped peer leaves Idle only because the server starts it: neither the
\* idle-hold timer nor an inbound connection revives it.
StoppedStaysIdle ==
  [][peer.stopped /\ peer.state = "Idle" /\ peer'.state # "Idle"
       => peer'.op \in {"Start", "AutoStart"}]_vars

\* "True if ManualStop was received - disables auto-reconnect until ManualStart"
\* (Peer::manually_stopped).
ManualStopIsRemembered == peer.op = "ManualStop" => peer.stopped

\* The routes a task reports were received on the session it has (flush_pending_routes).
RoutesAreOfSession ==
  \A i \in DOMAIN peer.out : peer.out[i].op = "Update" => "old" \notin peer.out[i].routes

\* "If zero, timers are not started (connection stays up without heartbeats)"
\* (enter_open_confirm).
NoTimersWithoutHoldTime ==
  peer.alive /\ InSession(peer) /\ peer.ht = "zero" => ~peer.hold /\ ~peer.keep

\* "If disabled (default), NOTIFICATION is only sent after OPEN has been sent"
\* (send_notification).
NotificationAfterOpen ==
  ~NotifWithoutOpen =>
    \A i \in DOMAIN peer.tx : peer.tx[i].msg = "Notification" => peer.tx[i].opened

\* "Passive peers stay in Active, don't initiate connections" (Fsm::handle_event).
PassiveNeverDials == Passive => peer.conn # "dialed"

\* "keep listening for inbound and retry on ConnectRetry" (Fsm::handle_event, Event
\* 18): a task that waits in Active dials again, gets a connection or is stopped.
ActiveRetries ==
  peer.state = "Active" /\ ~Passive /\ server = "present"
    ~> peer.state # "Active" \/ peer.conn # "none" \/ server # "present"

\* A task that the server leaves alone from some point on retries from Active:
\* no operation cuts its sleep short.
ActiveRetriesWhenQuiet == <>[][peer'.op = "none"]_vars => ActiveRetries

\* "Graceful shutdown - sends CEASE NOTIFICATION with given subcode and closes
\* connection" (PeerOp::Shutdown): the task of a removed peer ends.
RemovedTaskEnds == server # "present" ~> ~peer.alive

=============================================================================
