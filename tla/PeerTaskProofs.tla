--------------------------- MODULE PeerTaskProofs ---------------------------
(***************************************************************************)
(* The invariant of module PeerTask, for every configuration.              *)
(*                                                                         *)
(* The proof follows the call graph of the code, bottom up.  Each method   *)
(* has a lemma saying what it does to the predicate PeerOK: the methods    *)
(* that end a session lead to Torn, whatever they start from; those that   *)
(* bring one up lead to Fresh, which reporting the new state turns into    *)
(* PeerOK, or to an error, which the caller turns into a disconnect.       *)
(* PeerOK is stronger than the properties checked: it also says that a     *)
(* task without a connection carries nothing of a session, that no OPEN    *)
(* is counted as sent in Connect and Active, and that the server knows the *)
(* AS number from OpenConfirm on, without which no handler preserves it.   *)
(***************************************************************************)
EXTENDS PeerTask, TLAPS

-----------------------------------------------------------------------------
(* The invariant *)

InSessionState(p) == p.state \in {"OpenSent", "OpenConfirm", "Established"}

\* Enough to be torn down: without a connection the server does not take the
\* peer for established.
Weak(p) == PeerType(p) /\ (p.conn = "none" => p.told.state # "Established")

\* What holds of the task between two methods.
PeerOK(p) ==
  /\ PeerType(p)
  /\ p.pending => p.conn = "dialed" /\ p.state \in {"Connect", "Active", "OpenSent"}
  /\ p.delay => p.conn # "none" /\ p.state \in {"Connect", "Active"} /\ ~p.retry
  /\ p.state = "Idle" => p.conn = "none"
  /\ p.conn = "none" => ~p.est /\ ~p.keep /\ ~p.sent
  /\ p.state \in {"Connect", "Active"} => ~p.sent
  /\ InSessionState(p) /\ p.conn # "none" =>
       /\ p.sent
       /\ p.ht = "pos" => p.hold
       /\ p.ht = "pos" /\ p.state # "OpenSent" => p.keep
  /\ p.told.state = "Established" <=> p.state = "Established" /\ p.conn # "none"
  /\ p.state = "Established" /\ p.conn # "none" => p.est
  /\ p.state \in {"OpenConfirm", "Established"} /\ p.conn # "none" => p.told.asn

-----------------------------------------------------------------------------
(* The building blocks *)

\* A report keeps the types.
LEMMA EmitType ==
  ASSUME NEW p, PeerType(p), NEW op \in Reports
  PROVE  PeerType(Emit(p, op))
<1>1. Learn(p.told, op) \in Told
  BY ZenonT(60) DEF PeerType, Told, Learn, Reports, Unknown, States
<1> QED BY <1>1 DEF PeerType, Fields, Emit

\* A write keeps the types.
LEMMA WriteType ==
  ASSUME NEW p, PeerType(p), NEW m \in {"Open", "Keepalive", "Notification"}
  PROVE  PeerType(Write(p, m))
<1>1. [on |-> p.conn, msg |-> m, opened |-> p.sent] \in Sent
  BY DEF PeerType, Sent
<1> QED BY <1>1 DEF PeerType, Fields, Write

\* Every operation the task sends is one of Reports.
LEMMA ReportTypes ==
  /\ \A s \in States : StateChanged(s) \in Reports
  /\ \A g \in BOOLEAN : Disconnected(g) \in Reports
  /\ \A r \in SUBSET {"cur", "old"} : RoutesUpdate(r) \in Reports
  /\ \A n \in {"HandshakeComplete", "ConnectionInfo", "SetAdminState",
               "GracefulRestartComplete", "GracefulRestartTimerExpired",
               "RouteRefresh", "RouteRefreshBoRR", "RouteRefreshEoRR"} : ServerOp(n) \in Reports
BY DEF StateChanged, Disconnected, RoutesUpdate, ServerOp, Reports

\* What each report changes in the server's view.
LEMMA LearnFacts ==
  ASSUME NEW told \in Told
  PROVE  /\ \A s \in States : Learn(told, StateChanged(s)) = [told EXCEPT !.state = s]
         /\ \A g \in BOOLEAN : Learn(told, Disconnected(g)) = Unknown
         /\ \A r : Learn(told, RoutesUpdate(r)) = told
         /\ Learn(told, ServerOp("HandshakeComplete")) = [told EXCEPT !.asn = TRUE]
         /\ Learn(told, ServerOp("ConnectionInfo")) = [told EXCEPT !.info = TRUE]
         /\ \A n \in {"SetAdminState", "GracefulRestartComplete", "GracefulRestartTimerExpired",
                      "RouteRefresh", "RouteRefreshBoRR", "RouteRefreshEoRR"} :
              Learn(told, ServerOp(n)) = told
BY DEF Learn, StateChanged, Disconnected, RoutesUpdate, ServerOp

\* disconnect leaves nothing of a session, whatever it is called on.
LEMMA DisconnectFacts ==
  ASSUME NEW p, PeerType(p), NEW damping \in BOOLEAN, NEW reason
  PROVE  LET q == Disconnect(p, damping, reason)
         IN  /\ PeerType(q)
             /\ q.state = p.state /\ q.alive = p.alive /\ q.err = p.err /\ q.retry = p.retry
             /\ q.gr = p.gr
             /\ q.conn = "none" /\ ~q.pending /\ ~q.delay /\ ~q.est /\ ~q.keep /\ ~q.sent
             /\ q.told = IF p.conn = "none" THEN p.told ELSE Unknown
<1> DEFINE keeps == PreservesRoutes(p, reason)
           a == [p EXCEPT !.conn = "none", !.pending = FALSE, !.sent = FALSE,
                          !.est = FALSE, !.hold = FALSE, !.keep = FALSE, !.delay = FALSE,
                          !.routes = IF @ = {} THEN {} ELSE {"old"}]
           d == IF damping /\ reason # "Collision" /\ a.down < MaxDown
                  THEN a.down + 1 ELSE a.down
           g == IF keeps THEN "waiting" ELSE a.grState
           t == IF keeps THEN TRUE ELSE a.grTimer
           b == [a EXCEPT !.down = d, !.grState = g, !.grTimer = t]
           c == Emit(b, Disconnected(keeps))
<1>1. keeps \in BOOLEAN
  BY Zenon DEF PreservesRoutes
<1>2. PeerType(a)
  BY DEF PeerType, Fields, Connections
<1>3. /\ a.state = p.state /\ a.alive = p.alive /\ a.err = p.err /\ a.retry = p.retry /\ a.gr = p.gr
      /\ a.conn = "none" /\ ~a.pending /\ ~a.delay /\ ~a.est /\ ~a.keep /\ ~a.sent
      /\ a.told = p.told
  BY DEF PeerType, Fields
<1>4. Disconnect(p, damping, reason) = IF p.conn = "none" THEN a ELSE c
  BY DEF Disconnect, DropConnections
<1> HIDE DEF a
<1>5. d \in 0..MaxDown
  BY <1>2, ConfigAssumption DEF PeerType
<1>6. g \in {"none", "waiting", "complete"} /\ t \in BOOLEAN
  BY Zenon, <1>2 DEF PeerType
<1> HIDE DEF keeps, d, g, t
<1>7. PeerType(b)
  BY <1>2, <1>5, <1>6 DEF PeerType, Fields
<1>8. /\ b.state = p.state /\ b.alive = p.alive /\ b.err = p.err /\ b.retry = p.retry /\ b.gr = p.gr
      /\ b.conn = "none" /\ ~b.pending /\ ~b.delay /\ ~b.est /\ ~b.keep /\ ~b.sent
  BY <1>2, <1>3 DEF PeerType, Fields
<1> HIDE DEF b
<1>9. PeerType(c) /\ c.told = Unknown
  <2>1. Learn(b.told, Disconnected(keeps)) = Unknown
    BY <1>1, <1>7, LearnFacts DEF PeerType
  <2>2. c.told = Learn(b.told, Disconnected(keeps))
    BY <1>7 DEF PeerType, Fields, Emit
  <2>3. PeerType(c)
    BY <1>1, <1>7, EmitType, ReportTypes
  <2> QED BY <2>1, <2>2, <2>3
<1>10. /\ c.state = p.state /\ c.alive = p.alive /\ c.err = p.err /\ c.retry = p.retry /\ c.gr = p.gr
       /\ c.conn = "none" /\ ~c.pending /\ ~c.delay /\ ~c.est /\ ~c.keep /\ ~c.sent
  BY <1>7, <1>8 DEF PeerType, Fields, Emit
<1> QED BY <1>2, <1>3, <1>4, <1>9, <1>10

\* A task whose session is gone.
Torn(p) ==
  /\ PeerType(p)
  /\ p.conn = "none" /\ ~p.pending /\ ~p.delay /\ ~p.est /\ ~p.keep /\ ~p.sent
  /\ p.told.state # "Established"

\* A torn task satisfies the invariant.
LEMMA TornIsOK ==
  ASSUME NEW p, Torn(p)
  PROVE  PeerOK(p) /\ Weak(p)
BY DEF Torn, PeerOK, Weak, InSessionState

\* The invariant allows a teardown.
LEMMA OKIsWeak ==
  ASSUME NEW p, PeerOK(p)
  PROVE  Weak(p)
BY DEF Weak, PeerOK

\* disconnect() tears the session down.
LEMMA DisconnectTears ==
  ASSUME NEW p, Weak(p), NEW damping \in BOOLEAN, NEW reason
  PROVE  LET q == Disconnect(p, damping, reason)
         IN  Torn(q) /\ q.state = p.state /\ q.alive = p.alive /\ q.err = p.err
BY DisconnectFacts DEF Weak, Torn, Unknown

\* An error result changes nothing else.
LEMMA FailFacts ==
  ASSUME NEW p, PeerType(p), NEW b \in BOOLEAN
  PROVE  LET q == [p EXCEPT !.err = b]
         IN  /\ PeerType(q) /\ q.err = b
             /\ q.state = p.state /\ q.alive = p.alive
             /\ Weak(p) => Weak(q)
             /\ PeerOK(p) => PeerOK(q)
             /\ Torn(p) => Torn(q)
BY DEF PeerType, Fields, Weak, PeerOK, Torn, InSessionState

\* A NOTIFICATION, sent or suppressed, changes nothing but the writes.
LEMMA SendNotificationFacts ==
  ASSUME NEW p, PeerType(p)
  PROVE  LET q == SendNotification(p)
         IN  /\ PeerType(q)
             /\ q.state = p.state /\ q.alive = p.alive /\ q.err = p.err
             /\ q.conn = p.conn /\ q.pending = p.pending /\ q.delay = p.delay
             /\ Weak(p) => Weak(q)
             /\ PeerOK(p) => PeerOK(q)
<1>1. PeerType(Write(p, "Notification"))
  BY WriteType
<1>2. CASE SendNotification(p) = p
  BY <1>2
<1>3. CASE SendNotification(p) = Write(p, "Notification")
  BY <1>1, <1>3 DEF Write, PeerType, Fields, Weak, PeerOK, InSessionState
<1> QED BY <1>2, <1>3 DEF SendNotification

\* disconnect() and stop_connect_retry() tear the session down.
LEMMA TeardownFacts ==
  ASSUME NEW p, Weak(p), NEW reason
  PROVE  LET q == Teardown(p, reason)
         IN  Torn(q) /\ q.state = p.state /\ q.alive = p.alive /\ q.err = p.err
<1> DEFINE d == Disconnect(p, TRUE, reason)
<1>1. Torn(d) /\ d.state = p.state /\ d.alive = p.alive /\ d.err = p.err
  BY Zenon, DisconnectTears
<1> HIDE DEF d
<1> QED BY ZenonT(60), <1>1 DEF Teardown, Torn, PeerType, Fields, d

\* So they do after a NOTIFICATION.
LEMMA NotifiedTeardownFacts ==
  ASSUME NEW p, Weak(p), NEW reason
  PROVE  LET q == Teardown(SendNotification(p), reason)
         IN  Torn(q) /\ q.state = p.state /\ q.alive = p.alive /\ q.err = p.err
BY SendNotificationFacts, TeardownFacts DEF Weak

\* send_open() fails, or an OPEN went out on the connection.
LEMMA SendOpenFacts ==
  ASSUME NEW p, PeerType(p), ~p.err
  PROVE  LET q == SendOpen(p)
         IN  /\ PeerType(q) /\ q.state = p.state /\ q.alive = p.alive
             /\ q.conn = p.conn /\ q.told = p.told /\ q.ht = p.ht /\ q.hold = p.hold
             /\ q.keep = p.keep /\ q.delay = p.delay /\ q.pending = p.pending
             /\ q.est = p.est /\ q.retry = p.retry
             /\ ~q.err => q.conn # "none" /\ q.sent
<1>1. CASE SendOpen(p) = Fail(p)
  BY <1>1 DEF Fail, PeerType, Fields
<1> DEFINE w == Write(p, "Open")
<1>2. PeerType(w)
  BY WriteType
<1>3. /\ w.state = p.state /\ w.alive = p.alive
      /\ w.conn = p.conn /\ w.told = p.told /\ w.ht = p.ht /\ w.hold = p.hold
      /\ w.keep = p.keep /\ w.delay = p.delay /\ w.pending = p.pending
      /\ w.est = p.est /\ w.err = p.err /\ w.retry = p.retry
  BY DEF Write, PeerType, Fields
<1>4. CASE SendOpen(p) = [w EXCEPT !.opens = TRUE, !.sent = TRUE] /\ p.conn # "none"
  <2> HIDE DEF w
  <2> QED BY <1>2, <1>3, <1>4 DEF PeerType, Fields
<1> QED BY <1>1, <1>4 DEF SendOpen

\* send_keepalive() fails, or the Keepalive timer runs unless the hold time is zero.
LEMMA SendKeepaliveFacts ==
  ASSUME NEW p, PeerType(p), ~p.err
  PROVE  LET q == SendKeepalive(p)
         IN  /\ PeerType(q) /\ q.state = p.state /\ q.alive = p.alive
             /\ q.conn = p.conn /\ q.told = p.told /\ q.ht = p.ht /\ q.hold = p.hold
             /\ q.delay = p.delay /\ q.pending = p.pending /\ q.est = p.est /\ q.sent = p.sent
             /\ q.retry = p.retry
             /\ q.keep = p.keep \/ q.keep
             /\ q.err => q.keep = p.keep
             /\ ~q.err => q.conn # "none" /\ (p.ht = "pos" => q.keep)
<1>1. CASE SendKeepalive(p) = Fail(p)
  BY <1>1 DEF Fail, PeerType, Fields
<1> DEFINE w == Write(p, "Keepalive")
<1>2. PeerType(w)
  BY WriteType
<1>3. /\ w.state = p.state /\ w.alive = p.alive
      /\ w.conn = p.conn /\ w.told = p.told /\ w.ht = p.ht /\ w.hold = p.hold
      /\ w.keep = p.keep /\ w.delay = p.delay /\ w.pending = p.pending
      /\ w.est = p.est /\ w.err = p.err /\ w.sent = p.sent /\ w.retry = p.retry
  BY DEF Write, PeerType, Fields
<1> DEFINE k == IF p.ht = "pos" THEN TRUE ELSE w.keep
<1>4. k \in BOOLEAN /\ (p.ht = "pos" => k) /\ (k = p.keep \/ k)
  BY Zenon, <1>2, <1>3 DEF PeerType
<1>5. CASE SendKeepalive(p) = [w EXCEPT !.keep = k] /\ p.conn # "none"
  <2> HIDE DEF w, k
  <2> QED BY <1>2, <1>3, <1>4, <1>5 DEF PeerType, Fields
<1> QED BY Zenon, <1>1, <1>5 DEF SendKeepalive

\* A session that came up to a state the server has not been told of.
Fresh(p) ==
  /\ PeerType(p) /\ ~p.err /\ InSessionState(p)
  /\ p.conn # "none" /\ p.sent /\ ~p.delay
  /\ p.pending => p.conn = "dialed" /\ p.state = "OpenSent"
  /\ p.ht = "pos" => p.hold
  /\ p.ht = "pos" /\ p.state # "OpenSent" => p.keep
  /\ p.told.state # "Established"
  /\ p.state = "Established" => p.est
  /\ p.state # "OpenSent" => p.told.asn

\* Reporting the new state completes a fresh session and keeps a torn task torn.
LEMMA AnnounceFacts ==
  ASSUME NEW p, PeerType(p)
  PROVE  LET q == Emit(p, StateChanged(p.state))
         IN  /\ PeerType(q) /\ q.alive = p.alive /\ q.err = p.err /\ q.state = p.state
             /\ Fresh(p) => PeerOK(q)
             /\ Torn(p) /\ p.state # "Established" => Torn(q)
<1> DEFINE q == Emit(p, StateChanged(p.state))
<1>1. PeerType(q)
  BY Zenon, EmitType, ReportTypes DEF PeerType
<1>2. q.told = [p.told EXCEPT !.state = p.state]
  <2>1. Learn(p.told, StateChanged(p.state)) = [p.told EXCEPT !.state = p.state]
    BY LearnFacts DEF PeerType
  <2> QED BY <2>1 DEF PeerType, Fields, Emit
<1>3. q.told.state = p.state /\ q.told.asn = p.told.asn
  BY <1>2 DEF PeerType, Told
<1>4. /\ q.state = p.state /\ q.alive = p.alive /\ q.err = p.err /\ q.conn = p.conn
      /\ q.pending = p.pending /\ q.delay = p.delay /\ q.est = p.est /\ q.keep = p.keep
      /\ q.sent = p.sent /\ q.hold = p.hold /\ q.ht = p.ht /\ q.retry = p.retry
  BY DEF PeerType, Fields, Emit
<1> HIDE DEF q
<1>5. Fresh(p) => PeerOK(q)
  BY <1>1, <1>3, <1>4 DEF Fresh, PeerOK, InSessionState
<1>6. Torn(p) /\ p.state # "Established" => Torn(q)
  BY <1>1, <1>3, <1>4 DEF Torn
<1> QED BY <1>1, <1>4, <1>5, <1>6 DEF q

\* enter_open_confirm() fails, or the session is fresh.
LEMMA EnterOpenConfirmFacts ==
  ASSUME NEW p, Weak(p), ~p.err, NEW open \in OpenMessages,
         p.state = "OpenConfirm", ~p.pending, ~p.delay, p.sent,
         p.told.state # "Established"
  PROVE  LET q == EnterOpenConfirm(p, open)
         IN  /\ q.state = "OpenConfirm" /\ q.alive = p.alive
             /\ Weak(q) /\ (q.err \/ Fresh(q))
<1> DEFINE q == EnterOpenConfirm(p, open)
           n == SendNotification(p)
           a == [p EXCEPT !.gr = open.gr, !.ht = open.hold]
           k == SendKeepalive(a)
           b == IF open.hold = "pos" THEN [k EXCEPT !.hold = TRUE]
                ELSE [k EXCEPT !.hold = FALSE, !.keep = FALSE]
           c == Emit(b, ServerOp("HandshakeComplete"))
<1>1. CASE ~open.ok
  <2>1. PeerType(n) /\ n.state = p.state /\ n.alive = p.alive /\ Weak(n)
    BY SendNotificationFacts DEF Weak
  <2>2. q = Fail(n)
    BY <1>1 DEF EnterOpenConfirm
  <2> HIDE DEF n, q
  <2> QED BY ZenonT(60), <2>1, <2>2, FailFacts DEF Fail, q
<1>2. CASE open.ok
  <2>1. PeerType(a) /\ a.told = p.told /\ a.conn = p.conn /\ a.state = p.state
        /\ a.alive = p.alive /\ ~a.err /\ ~a.pending /\ ~a.delay /\ a.sent
        /\ a.ht = open.hold
    BY ZenonT(60) DEF Weak, PeerType, Fields, OpenMessages
  <2> HIDE DEF a
  <2>2. /\ PeerType(k) /\ k.state = a.state /\ k.alive = a.alive
        /\ k.conn = a.conn /\ k.told = a.told /\ k.ht = a.ht
        /\ k.delay = a.delay /\ k.pending = a.pending /\ k.sent = a.sent
        /\ ~k.err => k.conn # "none" /\ (a.ht = "pos" => k.keep)
    BY ZenonT(60), <2>1, SendKeepaliveFacts
  <2>3. q = IF k.err THEN k ELSE c
    BY <1>2 DEF EnterOpenConfirm, a
  <2> HIDE DEF k
  <2>4. CASE k.err
    BY <2>1, <2>2, <2>3, <2>4 DEF Weak
  <2>5. CASE ~k.err
    <3>1. /\ PeerType(b) /\ b.state = "OpenConfirm" /\ b.alive = p.alive /\ ~b.err
          /\ b.conn # "none" /\ b.told = p.told /\ ~b.delay /\ ~b.pending /\ b.sent
          /\ b.ht = "pos" => b.hold /\ b.keep
      <4>1. open.hold \in {"zero", "pos"}
        BY DEF OpenMessages
      <4>2. CASE open.hold = "pos"
        <5>1. b = [k EXCEPT !.hold = TRUE]
          BY <4>2
        <5> HIDE DEF b
        <5> QED BY ZenonT(60), <2>1, <2>2, <2>5, <5>1 DEF PeerType, Fields
      <4>3. CASE open.hold = "zero"
        <5>1. b = [k EXCEPT !.hold = FALSE, !.keep = FALSE]
          BY <4>3
        <5> HIDE DEF b
        <5> QED BY ZenonT(60), <2>1, <2>2, <2>5, <4>3, <5>1 DEF PeerType, Fields
      <4> QED BY <4>1, <4>2, <4>3
    <3> HIDE DEF b
    <3>2. PeerType(c)
      BY <3>1, EmitType, ReportTypes
    <3>3. c.told = [p.told EXCEPT !.asn = TRUE]
      <4>1. Learn(p.told, ServerOp("HandshakeComplete")) = [p.told EXCEPT !.asn = TRUE]
        BY Zenon, LearnFacts DEF Weak, PeerType
      <4> QED BY <3>1, <4>1 DEF PeerType, Fields, Emit
    <3>4. c.told.asn /\ c.told.state = p.told.state
      BY <3>3 DEF Weak, PeerType, Told
    <3>5. /\ c.state = "OpenConfirm" /\ c.alive = p.alive /\ ~c.err
          /\ c.conn # "none" /\ ~c.delay /\ ~c.pending /\ c.sent
          /\ c.ht = "pos" => c.hold /\ c.keep
      BY <3>1 DEF PeerType, Fields, Emit
    <3> HIDE DEF c
    <3>6. Weak(c) /\ Fresh(c)
      BY <3>2, <3>4, <3>5 DEF Weak, Fresh, InSessionState
    <3> QED BY <2>3, <2>5, <3>5, <3>6
  <2> QED BY <2>4, <2>5
<1> QED BY <1>1, <1>2 DEF OpenMessages

\* Starting the Hold timer and sending the OPEN fails, or the session is fresh.
LEMMA StartSessionFacts ==
  ASSUME NEW p, Weak(p), ~p.err, p.state = "OpenSent", ~p.delay,
         p.pending => p.conn = "dialed", p.told.state # "Established"
  PROVE  LET q == StartSession(p)
         IN  /\ q.state = "OpenSent" /\ q.alive = p.alive
             /\ Weak(q) /\ (q.err \/ Fresh(q))
<1> DEFINE a == [p EXCEPT !.ht = "pos", !.hold = TRUE]
<1>1. PeerType(a) /\ a.told = p.told /\ a.conn = p.conn /\ a.state = p.state
      /\ a.alive = p.alive /\ ~a.err /\ a.pending = p.pending /\ ~a.delay /\ a.hold
  BY DEF Weak, PeerType, Fields
<1> HIDE DEF a
<1>2. /\ PeerType(SendOpen(a)) /\ SendOpen(a).state = a.state /\ SendOpen(a).alive = a.alive
      /\ SendOpen(a).conn = a.conn /\ SendOpen(a).told = a.told /\ SendOpen(a).hold = a.hold
      /\ SendOpen(a).delay = a.delay /\ SendOpen(a).pending = a.pending
      /\ ~SendOpen(a).err => SendOpen(a).conn # "none" /\ SendOpen(a).sent
  BY ZenonT(60), <1>1, SendOpenFacts
<1>3. StartSession(p) = SendOpen(a)
  BY DEF StartSession, a
<1> QED BY ZenonT(60), <1>1, <1>2, <1>3 DEF Weak, Fresh, InSessionState

\* Answering an OPEN that came before ours fails, or the session is fresh.
LEMMA AnswerDelayedOpenFacts ==
  ASSUME NEW p, Weak(p), ~p.err, NEW open \in OpenMessages,
         p.state = "OpenConfirm", ~p.pending, p.told.state # "Established"
  PROVE  LET q == AnswerDelayedOpen(p, open)
         IN  /\ q.state = "OpenConfirm" /\ q.alive = p.alive
             /\ Weak(q) /\ (q.err \/ Fresh(q))
<1> DEFINE a == [p EXCEPT !.retry = FALSE, !.delay = FALSE]
           b == SendOpen(a)
<1>1. PeerType(a) /\ a.told = p.told /\ a.conn = p.conn /\ a.state = p.state
      /\ a.alive = p.alive /\ ~a.err /\ ~a.pending /\ ~a.delay
  BY DEF Weak, PeerType, Fields
<1> HIDE DEF a
<1>2. /\ PeerType(b) /\ b.state = a.state /\ b.alive = a.alive
      /\ b.conn = a.conn /\ b.told = a.told
      /\ b.delay = a.delay /\ b.pending = a.pending
      /\ ~b.err => b.conn # "none" /\ b.sent
  BY <1>1, SendOpenFacts
<1>3. AnswerDelayedOpen(p, open) = IF b.err THEN b ELSE EnterOpenConfirm(b, open)
  BY DEF AnswerDelayedOpen, a
<1> HIDE DEF b
<1>4. Weak(b)
  BY <1>1, <1>2 DEF Weak
<1> QED BY <1>1, <1>2, <1>3, <1>4, EnterOpenConfirmFacts

-----------------------------------------------------------------------------
(* One transition *)

\* The events whose handler sends an OPEN or a KEEPALIVE: their error is a write
\* that failed, and their callers disconnect.
SendingEvents == {"TcpConnectionConfirmed", "DelayOpenTimerExpires",
                  "BgpOpenReceived", "BgpOpenWithDelayOpenTimer"}

OpenEvents == {"BgpOpenReceived", "BgpOpenWithDelayOpenTimer"}

\* What the callers of process_event guarantee.
Admissible(p, e, arg) ==
  /\ PeerOK(p) /\ ~p.err /\ e \in Events
  /\ e \in OpenEvents => arg \in OpenMessages /\ ~p.pending /\ p.conn # "none"
  /\ e = "BgpKeepaliveReceived" => p.conn # "none"
  /\ e = "ConnectRetryTimerExpires" /\ p.state = "Active" => p.conn = "none"
  /\ e = "TcpConnectionConfirmed" => ~p.delay /\ (p.state = "Established" => p.conn = "none")

\* The state after a transition, before it is announced.
Handled(q, p, new, e) ==
  /\ q.alive = p.alive /\ q.state = new /\ Weak(q)
  /\ \/ Torn(q) /\ (new # "Established" \/ p.state = "Established")
     \/ q.err /\ e \in SendingEvents
     \/ Fresh(q) /\ new # p.state
     \/ PeerOK(q) /\ new = p.state

\* handle_event() changes the state only.
LEMMA NewStateFacts ==
  ASSUME NEW p, PeerOK(p), NEW new \in States
  PROVE  LET n == [p EXCEPT !.state = new]
         IN  /\ Weak(n) /\ n.state = new /\ n.alive = p.alive /\ n.err = p.err
             /\ n.conn = p.conn /\ n.told = p.told /\ n.pending = p.pending
             /\ n.delay = p.delay /\ n.sent = p.sent /\ n.keep = p.keep /\ n.hold = p.hold
             /\ n.ht = p.ht /\ n.est = p.est
             /\ new = p.state => PeerOK(n)
BY DEF PeerOK, Weak, PeerType, Fields, InSessionState

\* q is n without its session.
Ends(q, n) == Torn(q) /\ q.state = n.state /\ q.alive = n.alive

\* Every way to end a session leaves a torn task.
LEMMA EndsFacts ==
  ASSUME NEW n, Weak(n), NEW r
  PROVE  /\ Ends(Teardown(n, r), n)
         /\ Ends([Teardown(n, r) EXCEPT !.stopped = TRUE], n)
         /\ Ends(Teardown(SendNotification(n), r), n)
         /\ Ends([Teardown(SendNotification(n), r) EXCEPT !.stopped = TRUE], n)
         /\ Ends(Fail(Teardown(SendNotification(n), r)), n)
         /\ Ends([Disconnect(n, TRUE, r) EXCEPT !.retry = TRUE], n)
         /\ Ends([Disconnect(n, FALSE, r) EXCEPT !.retry = FALSE], n)
         /\ Ends(DropUnopened(n, r), n)
         /\ Ends(Fail(Disconnect(SendNotification(n), TRUE, r)), n)
         /\ Ends(Fail(Emit(Teardown(SendNotification(n), r), ServerOp("SetAdminState"))), n)
<1>1. ASSUME NEW q, Ends(q, n)
      PROVE  /\ Ends(Fail(q), n)
             /\ Ends([q EXCEPT !.stopped = TRUE], n)
             /\ Ends([q EXCEPT !.retry = TRUE], n)
             /\ Ends([q EXCEPT !.retry = FALSE], n)
             /\ Ends(Emit(q, ServerOp("SetAdminState")), n)
  <2>1. Ends(Fail(q), n)
    BY <1>1 DEF Ends, Torn, Fail, PeerType, Fields
  <2>2. Ends([q EXCEPT !.stopped = TRUE], n)
    BY <1>1 DEF Ends, Torn, PeerType, Fields
  <2>3. Ends([q EXCEPT !.retry = TRUE], n) /\ Ends([q EXCEPT !.retry = FALSE], n)
    BY <1>1 DEF Ends, Torn, PeerType, Fields
  <2>4. Ends(Emit(q, ServerOp("SetAdminState")), n)
    <3>1. PeerType(Emit(q, ServerOp("SetAdminState")))
      BY <1>1, EmitType, ReportTypes DEF Ends, Torn
    <3>2. Learn(q.told, ServerOp("SetAdminState")) = q.told
      BY <1>1, LearnFacts DEF Ends, Torn, PeerType
    <3> QED BY <1>1, <3>1, <3>2 DEF Emit, Ends, Torn, PeerType, Fields
  <2> QED BY <2>1, <2>2, <2>3, <2>4
<1>2. Weak(SendNotification(n)) /\ SendNotification(n).state = n.state
      /\ SendNotification(n).alive = n.alive
  BY SendNotificationFacts DEF Weak
<1>3. Ends(Teardown(n, r), n) /\ Ends(Teardown(SendNotification(n), r), n)
  BY TeardownFacts, NotifiedTeardownFacts DEF Ends
<1>4. /\ Ends(Disconnect(n, TRUE, r), n) /\ Ends(Disconnect(n, FALSE, r), n)
      /\ Ends(Disconnect(SendNotification(n), TRUE, r), n)
  BY ZenonT(60), <1>2, DisconnectTears DEF Ends
<1> QED BY Zenon, <1>1, <1>3, <1>4 DEF DropUnopened

\* A torn task is a legal end of a transition.
LEMMA EndsHandled ==
  ASSUME NEW q, NEW n, Ends(q, n), NEW p, n.alive = p.alive,
         n.state # "Established" \/ p.state = "Established", NEW e
  PROVE  Handled(q, p, n.state, e)
BY TornIsOK DEF Ends, Handled

\* Transitions from Idle.
LEMMA IdleHandled ==
  ASSUME NEW p, NEW e, NEW arg, Admissible(p, e, arg), p.state = "Idle",
         NEW new, new = FromIdle(e, Passive)
  PROVE  Handled(IdleTransitions([p EXCEPT !.state = new]), p, new, e)
<1> DEFINE n == [p EXCEPT !.state = new]
<1>1. new \in {"Idle", "Connect", "Active"}
  BY DEF FromIdle, StartState
<1>2. Torn(p)
  BY DEF Admissible, PeerOK, Torn
<1>3. Torn(n) /\ n.state = new /\ n.alive = p.alive
  BY <1>1, <1>2 DEF Torn, PeerType, Fields, States
<1> HIDE DEF n
<1>4. LET q == [n EXCEPT !.retry = TRUE] IN Torn(q) /\ q.state = new /\ q.alive = p.alive
  BY <1>3 DEF Torn, PeerType, Fields
<1>5. LET q == IdleTransitions(n) IN Torn(q) /\ q.state = new /\ q.alive = p.alive
  BY <1>3, <1>4 DEF IdleTransitions
<1> QED BY <1>1, <1>5, TornIsOK DEF Handled, n

\* Transitions from Connect.
LEMMA ConnectHandled ==
  ASSUME NEW p, NEW e, NEW arg, Admissible(p, e, arg), p.state = "Connect",
         NEW new, new = FromWaiting("Connect", e, Passive)
  PROVE  Handled(ConnectTransitions([p EXCEPT !.state = new], e, arg), p, new, e)
<1> DEFINE n == [p EXCEPT !.state = new]
<1> USE DEF StartEvents, PassiveStartEvents, NotificationEvents, MessageErrorEvents
<1>1. new \in {"Idle", "Connect", "Active", "OpenSent", "OpenConfirm"}
  BY DEF FromWaiting
<1>2. /\ Weak(n) /\ n.state = new /\ n.alive = p.alive /\ ~n.err
      /\ n.told.state # "Established" /\ n.pending = p.pending
      /\ n.pending => n.conn = "dialed"
      /\ n.delay = p.delay
      /\ new = p.state => PeerOK(n)
  <2>1. PeerOK(p) /\ ~p.err /\ new \in States
    BY <1>1 DEF Admissible, States
  <2>2. p.told.state # "Established" /\ (p.pending => p.conn = "dialed")
    BY <2>1 DEF PeerOK
  <2> QED BY <2>1, <2>2, NewStateFacts
<1> SUFFICES Handled(ConnectTransitions(n, e, arg), p, new, e)
  OBVIOUS
<1> HIDE DEF n
<1>3. ASSUME NEW q, Ends(q, n)
      PROVE  Handled(q, p, new, e)
  BY <1>1, <1>2, <1>3, EndsHandled
<1>4. CASE e \in SendingEvents \ {"BgpOpenReceived"}
  <2>1. CASE e = "DelayOpenTimerExpires"
    <3> DEFINE x == [n EXCEPT !.delay = FALSE]
    <3>1. new = "OpenSent" /\ ConnectTransitions(n, e, arg) = StartSession(x)
      BY <2>1 DEF FromWaiting, ConnectTransitions
    <3>2. /\ Weak(x) /\ x.state = "OpenSent" /\ ~x.err /\ ~x.delay /\ x.alive = n.alive
          /\ x.pending => x.conn = "dialed"
          /\ x.told.state # "Established"
      BY <1>2, <3>1 DEF Weak, PeerType, Fields
    <3> HIDE DEF x
    <3> QED BY <1>2, <2>1, <3>1, <3>2, StartSessionFacts DEF Handled, SendingEvents
  <2>2. CASE e = "TcpConnectionConfirmed"
    <3> DEFINE x == [n EXCEPT !.retry = FALSE]
    <3>1. new = "OpenSent" /\ ConnectTransitions(n, e, arg) = StartSession(x) /\ ~n.delay
      BY <1>2, <2>2 DEF FromWaiting, ConnectTransitions, Admissible
    <3>2. /\ Weak(x) /\ x.state = "OpenSent" /\ ~x.err /\ ~x.delay /\ x.alive = n.alive
          /\ x.pending => x.conn = "dialed"
          /\ x.told.state # "Established"
      BY <1>2, <3>1 DEF Weak, PeerType, Fields
    <3> HIDE DEF x
    <3> QED BY <1>2, <2>2, <3>1, <3>2, StartSessionFacts DEF Handled, SendingEvents
  <2>3. CASE e = "BgpOpenWithDelayOpenTimer"
    <3>1. /\ new = "OpenConfirm" /\ ConnectTransitions(n, e, arg) = AnswerDelayedOpen(n, arg)
          /\ ~n.pending /\ arg \in OpenMessages
      BY <1>2, <2>3 DEF FromWaiting, ConnectTransitions, Admissible, OpenEvents
    <3> QED BY <1>2, <2>3, <3>1, AnswerDelayedOpenFacts DEF Handled, SendingEvents
  <2> QED BY <1>4, <2>1, <2>2, <2>3 DEF SendingEvents
<1>5. CASE e \in StartEvents \cup PassiveStartEvents
  <2>1. new = "Connect" /\ ConnectTransitions(n, e, arg) = n
    BY Zenon, <1>5 DEF FromWaiting, ConnectTransitions
  <2> QED BY <1>2, <2>1 DEF Handled
<1>6. CASE e \in {"BgpKeepaliveReceived", "BgpUpdateReceived"} \cup MessageErrorEvents
  <2>1. \/ ConnectTransitions(n, e, arg) = Teardown(SendNotification(n), "Quiet")
        \/ ConnectTransitions(n, e, arg) = Fail(Teardown(SendNotification(n), "Quiet"))
    BY Zenon, <1>6 DEF ConnectTransitions
  <2> QED BY Zenon, <1>2, <1>3, <2>1, EndsFacts
<1>7. CASE e \in {"ManualStop"} \cup NotificationEvents
  <2>1. \/ ConnectTransitions(n, e, arg) = DropUnopened(n, arg)
        \/ ConnectTransitions(n, e, arg) = Teardown(n, arg)
        \/ ConnectTransitions(n, e, arg) = [Teardown(n, "Quiet") EXCEPT !.stopped = TRUE]
    BY Zenon, <1>7 DEF ConnectTransitions
  <2> QED BY Zenon, <1>2, <1>3, <2>1, EndsFacts
<1>8. CASE e \in {"ConnectRetryTimerExpires", "TcpConnectionFails", "AutomaticStop",
                  "HoldTimerExpires", "KeepaliveTimerExpires", "IdleHoldTimerExpires",
                  "BgpOpenReceived", "BgpUpdateMsgErr"}
  <2>1. \/ ConnectTransitions(n, e, arg) = [Disconnect(n, TRUE, "Quiet") EXCEPT !.retry = TRUE]
        \/ ConnectTransitions(n, e, arg) = Teardown(n, "Quiet")
    BY Zenon, <1>8 DEF ConnectTransitions
  <2> QED BY Zenon, <1>2, <1>3, <2>1, EndsFacts
<1> QED BY <1>4, <1>5, <1>6, <1>7, <1>8 DEF Admissible, Events, SendingEvents
\* Transitions from Active.
LEMMA ActiveHandled ==
  ASSUME NEW p, NEW e, NEW arg, Admissible(p, e, arg), p.state = "Active",
         NEW new, new = FromWaiting("Active", e, Passive)
  PROVE  Handled(ActiveTransitions([p EXCEPT !.state = new], e, arg), p, new, e)
<1> DEFINE n == [p EXCEPT !.state = new]
<1> USE DEF StartEvents, PassiveStartEvents, NotificationEvents, MessageErrorEvents
<1>1. new \in {"Idle", "Connect", "Active", "OpenSent", "OpenConfirm"}
  BY DEF FromWaiting, StartState
<1>2. /\ Weak(n) /\ n.state = new /\ n.alive = p.alive /\ ~n.err
      /\ n.told.state # "Established" /\ n.pending = p.pending
      /\ n.pending => n.conn = "dialed"
      /\ n.delay = p.delay
      /\ new = p.state => PeerOK(n)
  <2>1. PeerOK(p) /\ ~p.err /\ new \in States
    BY <1>1 DEF Admissible, States
  <2>2. p.told.state # "Established" /\ (p.pending => p.conn = "dialed")
    BY <2>1 DEF PeerOK
  <2> QED BY <2>1, <2>2, NewStateFacts
<1> SUFFICES Handled(ActiveTransitions(n, e, arg), p, new, e)
  OBVIOUS
<1> HIDE DEF n
<1>3. ASSUME NEW q, Ends(q, n)
      PROVE  Handled(q, p, new, e)
  BY <1>1, <1>2, <1>3, EndsHandled
<1>4. CASE e \in SendingEvents \ {"BgpOpenReceived"}
  <2>1. CASE e = "DelayOpenTimerExpires"
    <3> DEFINE x == [n EXCEPT !.delay = FALSE, !.retry = FALSE]
    <3>1. new = "OpenSent" /\ ActiveTransitions(n, e, arg) = StartSession(x)
      BY <2>1 DEF FromWaiting, ActiveTransitions
    <3>2. /\ Weak(x) /\ x.state = "OpenSent" /\ ~x.err /\ ~x.delay /\ x.alive = n.alive
          /\ x.pending => x.conn = "dialed"
          /\ x.told.state # "Established"
      BY <1>2, <3>1 DEF Weak, PeerType, Fields
    <3> HIDE DEF x
    <3> QED BY <1>2, <2>1, <3>1, <3>2, StartSessionFacts DEF Handled, SendingEvents
  <2>2. CASE e = "TcpConnectionConfirmed"
    <3> DEFINE x == [n EXCEPT !.retry = FALSE]
    <3>1. new = "OpenSent" /\ ActiveTransitions(n, e, arg) = StartSession(x) /\ ~n.delay
      BY <1>2, <2>2 DEF FromWaiting, ActiveTransitions, Admissible
    <3>2. /\ Weak(x) /\ x.state = "OpenSent" /\ ~x.err /\ ~x.delay /\ x.alive = n.alive
          /\ x.pending => x.conn = "dialed"
          /\ x.told.state # "Established"
      BY <1>2, <3>1 DEF Weak, PeerType, Fields
    <3> HIDE DEF x
    <3> QED BY <1>2, <2>2, <3>1, <3>2, StartSessionFacts DEF Handled, SendingEvents
  <2>3. CASE e = "BgpOpenWithDelayOpenTimer"
    <3>1. /\ new = "OpenConfirm" /\ ActiveTransitions(n, e, arg) = AnswerDelayedOpen(n, arg)
          /\ ~n.pending /\ arg \in OpenMessages
      BY <1>2, <2>3 DEF FromWaiting, ActiveTransitions, Admissible, OpenEvents
    <3> QED BY <1>2, <2>3, <3>1, AnswerDelayedOpenFacts DEF Handled, SendingEvents
  <2> QED BY <1>4, <2>1, <2>2, <2>3 DEF SendingEvents
<1>5. CASE e \in StartEvents \cup PassiveStartEvents
  <2>1. new = "Active" /\ ActiveTransitions(n, e, arg) = n
    BY Zenon, <1>5 DEF FromWaiting, ActiveTransitions
  <2> QED BY <1>2, <2>1 DEF Handled
<1>6. CASE e \in {"BgpKeepaliveReceived", "BgpUpdateReceived"} \cup MessageErrorEvents
  <2>1. \/ ActiveTransitions(n, e, arg) = Teardown(SendNotification(n), "Quiet")
        \/ ActiveTransitions(n, e, arg) = Fail(Teardown(SendNotification(n), "Quiet"))
    BY Zenon, <1>6 DEF ActiveTransitions
  <2> QED BY Zenon, <1>2, <1>3, <2>1, EndsFacts
<1>7. CASE e \in {"ManualStop"} \cup NotificationEvents
  <2>1. \/ ActiveTransitions(n, e, arg) = DropUnopened(n, arg)
        \/ ActiveTransitions(n, e, arg) = Teardown(n, arg)
        \/ ActiveTransitions(n, e, arg) = [Teardown(n, "Quiet") EXCEPT !.stopped = TRUE]
        \/ ActiveTransitions(n, e, arg) =
             [Teardown(SendNotification(n), "Quiet") EXCEPT !.stopped = TRUE]
    <3>1. n.delay \in BOOLEAN /\ NotifWithoutOpen \in BOOLEAN
      BY <1>2, ConfigAssumption DEF Weak, PeerType
    <3> QED BY Zenon, <1>7, <3>1 DEF ActiveTransitions
  <2> QED BY Zenon, <1>2, <1>3, <2>1, EndsFacts
<1>8. CASE e \in {"TcpConnectionFails", "AutomaticStop",
                  "HoldTimerExpires", "KeepaliveTimerExpires", "IdleHoldTimerExpires",
                  "BgpOpenReceived", "BgpUpdateMsgErr"}
  <2>1. \/ ActiveTransitions(n, e, arg) = [Disconnect(n, TRUE, "Quiet") EXCEPT !.retry = TRUE]
        \/ ActiveTransitions(n, e, arg) = Teardown(n, "Quiet")
    BY Zenon, <1>8 DEF ActiveTransitions
  <2> QED BY Zenon, <1>2, <1>3, <2>1, EndsFacts
<1>9. CASE e = "ConnectRetryTimerExpires"
  <2> DEFINE b == IF n.state = "Connect" THEN TRUE ELSE n.retry
             x == [n EXCEPT !.retry = b]
  <2>1. ActiveTransitions(n, e, arg) = x
    BY <1>9 DEF ActiveTransitions
  <2>2. Torn(n)
    BY <1>2, <1>9 DEF Admissible, PeerOK, Weak, Torn, PeerType, Fields, n
  <2>3. b \in BOOLEAN
    BY Zenon, <2>2 DEF Torn, PeerType
  <2> HIDE DEF b
  <2>4. Ends(x, n)
    BY <2>2, <2>3 DEF Ends, Torn, PeerType, Fields
  <2> QED BY <1>3, <2>1, <2>4
<1> QED BY <1>4, <1>5, <1>6, <1>7, <1>8, <1>9 DEF Admissible, Events, SendingEvents

\* SendKeepalive in a state that is already known to the server.
LEMMA KeepaliveKeepsOK ==
  ASSUME NEW p, PeerOK(p), ~p.err, p.state \in {"OpenConfirm", "Established"}
  PROVE  LET q == SendKeepalive(p)
         IN  PeerOK(q) /\ Weak(q) /\ q.state = p.state /\ q.alive = p.alive
<1> DEFINE q == SendKeepalive(p)
<1>1. PeerType(p)
  BY DEF PeerOK
<1>2. /\ PeerType(q) /\ q.state = p.state /\ q.alive = p.alive
      /\ q.conn = p.conn /\ q.told = p.told /\ q.ht = p.ht /\ q.hold = p.hold
      /\ q.delay = p.delay /\ q.pending = p.pending /\ q.est = p.est /\ q.sent = p.sent
      /\ q.retry = p.retry
      /\ q.keep = p.keep \/ q.keep
      /\ q.err => q.keep = p.keep
      /\ ~q.err => q.conn # "none" /\ (p.ht = "pos" => q.keep)
  BY <1>1, SendKeepaliveFacts
<1> HIDE DEF q
<1>3. PeerOK(q)
  BY <1>2 DEF PeerOK, InSessionState
<1> QED BY <1>2, <1>3, OKIsWeak DEF q

\* Transitions from OpenSent.
LEMMA OpenSentHandled ==
  ASSUME NEW p, NEW e, NEW arg, Admissible(p, e, arg), p.state = "OpenSent",
         NEW new, new = FromOpenSent(e)
  PROVE  Handled(OpenSentTransitions([p EXCEPT !.state = new], e, arg), p, new, e)
<1> DEFINE n == [p EXCEPT !.state = new]
<1> USE DEF StartEvents, PassiveStartEvents, NotificationEvents, MessageErrorEvents
<1>1. new \in {"Idle", "Active", "OpenSent", "OpenConfirm"}
  BY DEF FromOpenSent
<1>2. /\ Weak(n) /\ n.state = new /\ n.alive = p.alive /\ ~n.err
      /\ n.told.state # "Established" /\ n.pending = p.pending
      /\ n.conn # "none" => n.sent
      /\ n.conn = p.conn
      /\ new = p.state => PeerOK(n)
  <2>1. PeerOK(p) /\ ~p.err /\ new \in States
    BY <1>1 DEF Admissible, States
  <2>2. p.told.state # "Established" /\ (p.conn # "none" => p.sent)
    BY <2>1 DEF PeerOK, InSessionState
  <2> QED BY <2>1, <2>2, NewStateFacts
<1> SUFFICES Handled(OpenSentTransitions(n, e, arg), p, new, e)
  OBVIOUS
<1> HIDE DEF n
<1>3. ASSUME NEW q, Ends(q, n)
      PROVE  Handled(q, p, new, e)
  BY <1>1, <1>2, <1>3, EndsHandled
<1>4. CASE e \in OpenEvents
  <2> DEFINE x == [n EXCEPT !.delay = FALSE, !.retry = FALSE]
  <2>1. /\ new = "OpenConfirm" /\ OpenSentTransitions(n, e, arg) = EnterOpenConfirm(x, arg)
        /\ ~n.pending /\ arg \in OpenMessages /\ n.conn # "none"
    BY <1>2, <1>4 DEF FromOpenSent, OpenSentTransitions, Admissible, OpenEvents
  <2>2. /\ Weak(x) /\ x.state = "OpenConfirm" /\ ~x.err /\ ~x.delay /\ x.alive = n.alive
        /\ ~x.pending /\ x.sent /\ x.told.state # "Established"
    BY <1>2, <2>1 DEF Weak, PeerType, Fields
  <2> HIDE DEF x
  <2>3. e \in SendingEvents
    BY <1>4 DEF OpenEvents, SendingEvents
  <2> QED BY <1>2, <2>1, <2>2, <2>3, EnterOpenConfirmFacts DEF Handled
<1>5. CASE e \in StartEvents \cup PassiveStartEvents \cup {"TcpConnectionConfirmed"}
  <2>1. new = "OpenSent" /\ OpenSentTransitions(n, e, arg) = n
    BY Zenon, <1>5 DEF FromOpenSent, OpenSentTransitions
  <2> QED BY <1>2, <2>1 DEF Handled
<1>6. CASE e \in {"ManualStop", "AutomaticStop", "HoldTimerExpires"} \cup MessageErrorEvents
  <2>1. \/ OpenSentTransitions(n, e, arg) =
             [Teardown(SendNotification(n), "Quiet") EXCEPT !.stopped = TRUE]
        \/ OpenSentTransitions(n, e, arg) =
             Fail(Emit(Teardown(SendNotification(n), "Quiet"), ServerOp("SetAdminState")))
        \/ OpenSentTransitions(n, e, arg) = Teardown(SendNotification(n), "Quiet")
    BY Zenon, <1>6 DEF OpenSentTransitions
  <2> QED BY Zenon, <1>2, <1>3, <2>1, EndsFacts
<1>7. CASE e \in {"TcpConnectionFails"} \cup NotificationEvents
  <2>1. \/ OpenSentTransitions(n, e, arg) = [Disconnect(n, TRUE, "Quiet") EXCEPT !.retry = TRUE]
        \/ OpenSentTransitions(n, e, arg) = [Disconnect(n, FALSE, arg) EXCEPT !.retry = FALSE]
        \/ OpenSentTransitions(n, e, arg) = Teardown(SendNotification(n), arg)
    BY Zenon, <1>7 DEF OpenSentTransitions
  <2> QED BY Zenon, <1>2, <1>3, <2>1, EndsFacts
<1>8. CASE e \in {"ConnectRetryTimerExpires", "KeepaliveTimerExpires", "DelayOpenTimerExpires",
                  "IdleHoldTimerExpires", "BgpKeepaliveReceived", "BgpUpdateReceived",
                  "BgpUpdateMsgErr"}
  <2>1. \/ OpenSentTransitions(n, e, arg) = Fail(Teardown(SendNotification(n), "Quiet"))
        \/ OpenSentTransitions(n, e, arg) = Fail(Disconnect(SendNotification(n), TRUE, "Quiet"))
    BY Zenon, <1>8 DEF OpenSentTransitions
  <2> QED BY Zenon, <1>2, <1>3, <2>1, EndsFacts
<1> QED BY <1>4, <1>5, <1>6, <1>7, <1>8 DEF Admissible, Events, OpenEvents

\* Transitions from OpenConfirm.
LEMMA OpenConfirmHandled ==
  ASSUME NEW p, NEW e, NEW arg, Admissible(p, e, arg), p.state = "OpenConfirm",
         NEW new, new = FromOpenConfirm(e)
  PROVE  Handled(OpenConfirmTransitions([p EXCEPT !.state = new], e, arg), p, new, e)
<1> DEFINE n == [p EXCEPT !.state = new]
<1> USE DEF StartEvents, PassiveStartEvents, NotificationEvents, MessageErrorEvents
<1>1. /\ new \in {"Idle", "OpenConfirm", "Established"}
      /\ new = "Established" => e = "BgpKeepaliveReceived"
  BY DEF FromOpenConfirm
<1>2. /\ Weak(n) /\ n.state = new /\ n.alive = p.alive /\ ~n.err
      /\ n.told.state # "Established" /\ ~n.pending /\ ~n.delay
      /\ n.conn # "none" => /\ n.sent /\ n.told.asn
                            /\ n.ht = "pos" => n.hold /\ n.keep
      /\ n.conn = p.conn
      /\ new = p.state => PeerOK(n)
  <2>1. PeerOK(p) /\ ~p.err /\ new \in States
    BY <1>1 DEF Admissible, States
  <2>2. /\ p.told.state # "Established" /\ ~p.pending /\ ~p.delay
        /\ p.conn # "none" => /\ p.sent /\ p.told.asn
                              /\ p.ht = "pos" => p.hold /\ p.keep
    BY <2>1 DEF PeerOK, InSessionState
  <2> QED BY <2>1, <2>2, NewStateFacts
<1> SUFFICES Handled(OpenConfirmTransitions(n, e, arg), p, new, e)
  OBVIOUS
<1> HIDE DEF n
<1>3. ASSUME NEW q, Ends(q, n), e # "BgpKeepaliveReceived"
      PROVE  Handled(q, p, new, e)
  BY <1>1, <1>2, <1>3, EndsHandled, Zenon
<1>4. CASE e = "BgpKeepaliveReceived"
  <2> DEFINE x == [n EXCEPT !.hold = TRUE, !.est = TRUE]
             y == Emit(x, ServerOp("ConnectionInfo"))
  <2>1. /\ new = "Established" /\ n.conn # "none"
        /\ OpenConfirmTransitions(n, e, arg) = ReportConnection(x)
    BY <1>2, <1>4 DEF FromOpenConfirm, OpenConfirmTransitions, Admissible
  <2>2. Fresh(x) /\ x.state = new /\ x.alive = n.alive
    BY <1>2, <2>1 DEF Fresh, InSessionState, Weak, PeerType, Fields
  <2> HIDE DEF x
  <2>3. Fresh(y) /\ y.state = new /\ y.alive = n.alive
    <3>1. PeerType(y)
      BY <2>2, EmitType, ReportTypes DEF Fresh
    <3>2. Learn(x.told, ServerOp("ConnectionInfo")) = [x.told EXCEPT !.info = TRUE]
      BY Zenon, <2>2, LearnFacts DEF Fresh, PeerType
    <3>3. y.told = [x.told EXCEPT !.info = TRUE]
      BY <2>2, <3>2 DEF Emit, Fresh, PeerType, Fields
    <3>4. y.told.state = x.told.state /\ y.told.asn = x.told.asn
      BY <2>2, <3>3 DEF Fresh, PeerType, Told
    <3>5. /\ y.state = x.state /\ y.alive = x.alive /\ y.err = x.err /\ y.conn = x.conn
          /\ y.pending = x.pending /\ y.delay = x.delay /\ y.est = x.est /\ y.keep = x.keep
          /\ y.sent = x.sent /\ y.hold = x.hold /\ y.ht = x.ht
      BY Zenon, <2>2 DEF Emit, Fresh, PeerType, Fields
    <3> HIDE DEF y
    <3> QED BY <2>2, <3>1, <3>4, <3>5 DEF Fresh, InSessionState
  <2>4. ReportConnection(x) = x \/ ReportConnection(x) = y
    BY DEF ReportConnection
  <2> HIDE DEF y
  <2> QED BY <1>2, <2>1, <2>2, <2>3, <2>4 DEF Handled, Fresh, Weak
<1>5. CASE e = "KeepaliveTimerExpires"
  <2>1. new = "OpenConfirm" /\ OpenConfirmTransitions(n, e, arg) = SendKeepalive(n)
    BY <1>5 DEF FromOpenConfirm, OpenConfirmTransitions
  <2> QED BY <1>2, <2>1, KeepaliveKeepsOK DEF Handled
<1>6. CASE e \in StartEvents \cup PassiveStartEvents
                  \cup {"BgpOpenReceived", "TcpConnectionConfirmed"}
  <2>1. new = "OpenConfirm" /\ OpenConfirmTransitions(n, e, arg) = n
    BY Zenon, <1>6 DEF FromOpenConfirm, OpenConfirmTransitions
  <2> QED BY <1>2, <2>1 DEF Handled
<1>7. CASE e \in {"ManualStop", "AutomaticStop", "HoldTimerExpires"} \cup MessageErrorEvents
  <2>1. \/ OpenConfirmTransitions(n, e, arg) =
             [Teardown(SendNotification(n), "Notification") EXCEPT !.stopped = TRUE]
        \/ OpenConfirmTransitions(n, e, arg) =
             Fail(Emit(Teardown(SendNotification(n), "Notification"), ServerOp("SetAdminState")))
        \/ OpenConfirmTransitions(n, e, arg) = Teardown(SendNotification(n), "Notification")
    BY Zenon, <1>7 DEF OpenConfirmTransitions, NotifyAndTeardown
  <2> QED BY Zenon, <1>2, <1>3, <1>7, <2>1, EndsFacts
<1>8. CASE e \in {"TcpConnectionFails"} \cup NotificationEvents
  <2>1. \/ OpenConfirmTransitions(n, e, arg) = Teardown(n, "Quiet")
        \/ OpenConfirmTransitions(n, e, arg) = [Disconnect(n, FALSE, arg) EXCEPT !.retry = FALSE]
        \/ OpenConfirmTransitions(n, e, arg) = Teardown(n, arg)
    BY Zenon, <1>8 DEF OpenConfirmTransitions
  <2> QED BY Zenon, <1>2, <1>3, <1>8, <2>1, EndsFacts
<1>9. CASE e \in {"ConnectRetryTimerExpires", "DelayOpenTimerExpires", "IdleHoldTimerExpires",
                  "BgpOpenWithDelayOpenTimer", "BgpUpdateReceived", "BgpUpdateMsgErr"}
  <2>1. OpenConfirmTransitions(n, e, arg) = Fail(Teardown(SendNotification(n), "Notification"))
    BY <1>9 DEF OpenConfirmTransitions, NotifyAndTeardown
  <2> QED BY Zenon, <1>2, <1>3, <1>9, <2>1, EndsFacts
<1> QED BY <1>4, <1>5, <1>6, <1>7, <1>8, <1>9 DEF Admissible, Events

\* Transitions from Established.
LEMMA EstablishedHandled ==
  ASSUME NEW p, NEW e, NEW arg, Admissible(p, e, arg), p.state = "Established",
         NEW gr, NEW new, new = FromEstablished(e, gr)
  PROVE  Handled(EstablishedTransitions([p EXCEPT !.state = new], e, arg), p, new, e)
<1> DEFINE n == [p EXCEPT !.state = new]
<1> USE DEF StartEvents, PassiveStartEvents, NotificationEvents, MessageErrorEvents
<1>1. new \in {"Idle", "Connect", "Established"}
  BY DEF FromEstablished
<1>2. /\ Weak(n) /\ n.state = new /\ n.alive = p.alive /\ ~n.err
      /\ n.conn = p.conn /\ n.told = p.told /\ ~n.pending /\ ~n.delay
      /\ n.est = p.est /\ n.keep = p.keep /\ n.sent = p.sent
      /\ new = p.state => PeerOK(n)
  <2>1. PeerOK(p) /\ ~p.err /\ new \in States
    BY <1>1 DEF Admissible, States
  <2>2. ~p.pending /\ ~p.delay
    BY <2>1 DEF PeerOK
  <2> QED BY <2>1, <2>2, NewStateFacts
<1> SUFFICES Handled(EstablishedTransitions(n, e, arg), p, new, e)
  OBVIOUS
<1> HIDE DEF n
<1>3. ASSUME NEW q, Ends(q, n)
      PROVE  Handled(q, p, new, e)
  BY <1>2, <1>3, EndsHandled
<1>4. CASE e \in {"BgpKeepaliveReceived", "BgpUpdateReceived"}
  <2> DEFINE h == IF n.ht = "pos" THEN TRUE ELSE n.hold
             d == IF n.est /\ n.stable THEN 0 ELSE n.down
             x == [n EXCEPT !.hold = h, !.down = d]
  <2>1. new = "Established" /\ EstablishedTransitions(n, e, arg) = x
    BY <1>4 DEF FromEstablished, EstablishedTransitions
  <2>2. PeerOK(n) /\ PeerType(n)
    BY <1>2, <2>1 DEF PeerOK
  <2>3. h \in BOOLEAN /\ (n.ht = "pos" => h)
    BY Zenon, <2>2 DEF PeerType
  <2>4. d \in 0..MaxDown
    BY <2>2, ConfigAssumption DEF PeerType
  <2> HIDE DEF h, d
  <2>5. PeerOK(x) /\ x.state = n.state /\ x.alive = n.alive
    BY <2>2, <2>3, <2>4 DEF PeerOK, InSessionState, PeerType, Fields
  <2> QED BY <1>2, <2>1, <2>5, OKIsWeak DEF Handled
<1>5. CASE e = "KeepaliveTimerExpires"
  <2>1. new = "Established" /\ EstablishedTransitions(n, e, arg) = SendKeepalive(n)
    BY <1>5 DEF FromEstablished, EstablishedTransitions
  <2> QED BY <1>2, <2>1, KeepaliveKeepsOK DEF Handled
<1>6. CASE e \in StartEvents \cup PassiveStartEvents \cup {"BgpOpenReceived"}
  <2>1. new = "Established" /\ EstablishedTransitions(n, e, arg) = n
    BY <1>6 DEF FromEstablished, EstablishedTransitions
  <2> QED BY <1>2, <2>1 DEF Handled
<1>7. CASE e = "TcpConnectionConfirmed"
  <2>1. EstablishedTransitions(n, e, arg) = n
    BY <1>7 DEF EstablishedTransitions
  <2>2. Torn(n)
    BY <1>2, <1>7 DEF Admissible, PeerOK, Weak, Torn
  <2> QED BY <1>3, <2>1, <2>2 DEF Ends
<1>8. CASE e \in {"ManualStop", "AutomaticStop", "HoldTimerExpires"}
  <2>1. \/ EstablishedTransitions(n, e, arg) =
             [Teardown(SendNotification(n), "Notification") EXCEPT !.stopped = TRUE]
        \/ EstablishedTransitions(n, e, arg) =
             Fail(Emit(Teardown(SendNotification(n), "Notification"), ServerOp("SetAdminState")))
        \/ EstablishedTransitions(n, e, arg) = Teardown(SendNotification(n), "Notification")
    BY <1>8 DEF EstablishedTransitions, NotifyAndTeardown
  <2> QED BY Zenon, <1>2, <1>3, <2>1, EndsFacts
<1>9. CASE e \in {"TcpConnectionFails"} \cup NotificationEvents
  <2>1. \/ EstablishedTransitions(n, e, arg) = Teardown(n, "Quiet")
        \/ EstablishedTransitions(n, e, arg) = Teardown(n, arg)
    BY <1>9 DEF EstablishedTransitions
  <2> QED BY Zenon, <1>2, <1>3, <2>1, EndsFacts
<1>10. CASE e \in {"ConnectRetryTimerExpires", "DelayOpenTimerExpires", "IdleHoldTimerExpires",
                   "BgpOpenWithDelayOpenTimer", "BgpUpdateMsgErr"} \cup MessageErrorEvents
  <2>1. EstablishedTransitions(n, e, arg) = Fail(Teardown(SendNotification(n), "Notification"))
    BY <1>10 DEF EstablishedTransitions, NotifyAndTeardown
  <2> QED BY Zenon, <1>2, <1>3, <2>1, EndsFacts
<1> QED BY <1>4, <1>5, <1>6, <1>7, <1>8, <1>9, <1>10 DEF Admissible, Events

\* process_event keeps the invariant, or fails to send what the event calls for.
Processed(q, p, e) ==
  /\ q.alive = p.alive /\ Weak(q)
  /\ PeerOK(q) \/ (q.err /\ e \in SendingEvents)

\* process_event(), from any state.
LEMMA ProcessEventFacts ==
  ASSUME NEW p, NEW e, NEW arg, Admissible(p, e, arg)
  PROVE  Processed(ProcessEvent(p, e, arg), p, e)
<1> DEFINE new == HandleEvent(p.state, e, Passive, p.gr # "none")
           n   == [p EXCEPT !.state = new]
           x   == CASE p.state = "Idle"        -> IdleTransitions(n)
                    [] p.state = "Connect"     -> ConnectTransitions(n, e, arg)
                    [] p.state = "Active"      -> ActiveTransitions(n, e, arg)
                    [] p.state = "OpenSent"    -> OpenSentTransitions(n, e, arg)
                    [] p.state = "OpenConfirm" -> OpenConfirmTransitions(n, e, arg)
                    [] p.state = "Established" -> EstablishedTransitions(n, e, arg)
<1>1. p.state \in States
  BY DEF Admissible, PeerOK, PeerType
<1>2. Handled(x, p, new, e)
  <2>1. CASE p.state = "Idle"
    BY <2>1, IdleHandled DEF HandleEvent
  <2>2. CASE p.state = "Connect"
    BY <2>2, ConnectHandled DEF HandleEvent
  <2>3. CASE p.state = "Active"
    BY <2>3, ActiveHandled DEF HandleEvent
  <2>4. CASE p.state = "OpenSent"
    BY <2>4, OpenSentHandled DEF HandleEvent
  <2>5. CASE p.state = "OpenConfirm"
    BY <2>5, OpenConfirmHandled DEF HandleEvent
  <2>6. CASE p.state = "Established"
    BY <2>6, EstablishedHandled DEF HandleEvent
  <2> QED BY <1>1, <2>1, <2>2, <2>3, <2>4, <2>5, <2>6 DEF States
<1>3. ProcessEvent(p, e, arg) = IF x.err \/ new = p.state THEN x
                               ELSE Emit(x, StateChanged(x.state))
  BY DEF ProcessEvent, Transition, ReportState
<1> HIDE DEF x, new
<1>4. CASE x.err \/ new = p.state
  BY <1>2, <1>3, <1>4, TornIsOK, Zenon DEF Handled, Processed, Fresh
<1>5. CASE ~x.err /\ new # p.state
  <2>1. PeerType(x) /\ x.state = new /\ (Fresh(x) \/ (Torn(x) /\ x.state # "Established"))
    BY <1>2, <1>5 DEF Handled, Weak
  <2>2. LET q == Emit(x, StateChanged(x.state)) IN q.alive = x.alive /\ PeerOK(q)
    BY <2>1, AnnounceFacts, TornIsOK
  <2> QED BY <1>2, <1>3, <1>5, <2>1, <2>2, OKIsWeak DEF Handled, Processed
<1> QED BY <1>4, <1>5

-----------------------------------------------------------------------------
(* The callers of process_event *)

\* What every handler leaves behind.
Good(q, p) == q.alive = p.alive /\ PeerOK(q) /\ ~q.err

\* A caller that disconnects on an error restores the invariant.
LEMMA OrDisconnectFacts ==
  ASSUME NEW p, Weak(p), PeerOK(p) \/ p.err
  PROVE  Good(OrDisconnect(p), p)
<1>1. CASE p.err
  <2> DEFINE d == Disconnect(p, TRUE, "Quiet")
  <2>1. Torn(d) /\ d.alive = p.alive
    BY Zenon, DisconnectTears
  <2>2. OrDisconnect(p) = [d EXCEPT !.err = FALSE]
    BY <1>1 DEF OrDisconnect
  <2> HIDE DEF d
  <2> QED BY <2>1, <2>2, FailFacts, TornIsOK, ZenonT(60) DEF Good, Torn
<1>2. CASE ~p.err
  BY <1>2 DEF OrDisconnect, Good
<1> QED BY <1>1, <1>2

\* process_event() followed by a disconnect on error keeps the invariant.
LEMMA ProcessOrDisconnect ==
  ASSUME NEW p, NEW e, NEW arg, Admissible(p, e, arg)
  PROVE  Good(OrDisconnect(ProcessEvent(p, e, arg)), p)
BY ProcessEventFacts, OrDisconnectFacts DEF Processed, Good

\* try_process_event() keeps the invariant where the event sends nothing.
LEMMA TryFacts ==
  ASSUME NEW p, NEW e, NEW arg, Admissible(p, e, arg), e \notin SendingEvents
  PROVE  Good(TryProcessEvent(p, e, arg), p)
<1> DEFINE q == ProcessEvent(p, e, arg)
<1>1. PeerOK(q) /\ PeerType(q) /\ q.alive = p.alive
  BY ProcessEventFacts DEF Processed, PeerOK
<1>2. TryProcessEvent(p, e, arg) = [q EXCEPT !.err = FALSE]
  BY DEF TryProcessEvent
<1> HIDE DEF q
<1> QED BY ZenonT(60), <1>1, <1>2, FailFacts DEF Good

\* connection_ready() keeps the invariant.
LEMMA ConnectionReadyFacts ==
  ASSUME NEW p, PeerOK(p), ~p.err, p.state \in {"Connect", "Active"}, p.conn # "none", ~p.delay
  PROVE  Good(ConnectionReady(p), p)
<1> DEFINE q == [p EXCEPT !.retry = FALSE]
<1>1. /\ PeerOK(q) /\ ~q.err /\ q.state = p.state /\ q.conn # "none" /\ ~q.delay /\ ~q.retry
      /\ q.alive = p.alive
  BY DEF PeerOK, InSessionState, PeerType, Fields
<1>2. ConnectionReady(p) = IF DelayOpen THEN [q EXCEPT !.delay = TRUE]
                           ELSE OrDisconnect(ProcessEvent(q, "TcpConnectionConfirmed", NoPayload))
  BY DEF ConnectionReady
<1> HIDE DEF q
<1>3. CASE DelayOpen
  BY <1>1, <1>2, <1>3 DEF Good, PeerOK, InSessionState, PeerType, Fields
<1>4. CASE ~DelayOpen
  <2>1. Admissible(q, "TcpConnectionConfirmed", NoPayload)
    BY <1>1 DEF Admissible, Events, OpenEvents
  <2> QED BY <1>1, <1>2, <1>4, <2>1, ProcessOrDisconnect DEF Good
<1> QED BY <1>3, <1>4

\* process_delay_open() keeps the invariant.
LEMMA ProcessDelayOpenFacts ==
  ASSUME NEW p, PeerOK(p), ~p.err, p.conn # "none", ~p.pending, NEW open \in OpenMessages
  PROVE  Good(ProcessDelayOpen(p, open), p)
<1> DEFINE q == [p EXCEPT !.delay = FALSE]
<1>1. PeerOK(q) /\ ~q.err /\ q.conn # "none" /\ ~q.pending /\ q.alive = p.alive
  BY DEF PeerOK, InSessionState, PeerType, Fields
<1>2. ProcessDelayOpen(p, open) =
        OrDisconnect(ProcessEvent(q, "BgpOpenWithDelayOpenTimer", open))
  BY DEF ProcessDelayOpen
<1> HIDE DEF q
<1>3. Admissible(q, "BgpOpenWithDelayOpenTimer", open)
  BY <1>1 DEF Admissible, Events, OpenEvents
<1> QED BY <1>1, <1>2, <1>3, ProcessOrDisconnect DEF Good

\* The accepted connection of a collision takes the place of the dialed one.
LEMMA ReplaceFacts ==
  ASSUME NEW p, PeerOK(p), ~p.err, p.pending
  PROVE  LET q == ReplaceConnWithPending(p)
         IN  /\ Weak(q) /\ ~q.err /\ q.alive = p.alive /\ q.state = p.state /\ q.delay = p.delay
             /\ q.conn = "accepted" /\ ~q.pending
             /\ p.delay => PeerOK(q)
             /\ p.delay => PeerOK([q EXCEPT !.delay = FALSE])
<1> DEFINE q == ReplaceConnWithPending(p)
<1>1. PeerType(q)
  BY DEF ReplaceConnWithPending, PeerOK, PeerType, Fields, Connections
<1>2. /\ q.err = p.err /\ q.alive = p.alive /\ q.state = p.state /\ q.delay = p.delay
      /\ q.conn = "accepted" /\ ~q.pending /\ ~q.sent /\ q.told = p.told /\ q.retry = p.retry
  BY DEF ReplaceConnWithPending, PeerOK, PeerType, Fields
<1> HIDE DEF q
<1>3. p.delay => PeerOK(q)
  BY <1>1, <1>2 DEF PeerOK, InSessionState
<1>4. PeerOK(q) => PeerOK([q EXCEPT !.delay = FALSE])
  BY DEF PeerOK, InSessionState, PeerType, Fields
<1> QED BY <1>1, <1>2, <1>3, <1>4 DEF Weak, q

\* An OPEN on the connection that replaced another in OpenSent.
LEMMA ReopenFacts ==
  ASSUME NEW p, PeerOK(p), ~p.err, p.pending, p.state = "OpenSent"
  PROVE  LET r == SendOpen(ReplaceConnWithPending(p))
         IN  /\ Weak(r) /\ r.alive = p.alive /\ r.state = "OpenSent"
             /\ PeerOK(r) \/ r.err
             /\ ~r.err => r.conn # "none" /\ ~r.pending
<1> DEFINE q == ReplaceConnWithPending(p)
           r == SendOpen(q)
<1>1. PeerType(q) /\ ~q.err
  BY Zenon, ReplaceFacts DEF Weak
<1>2. /\ q.alive = p.alive /\ q.state = p.state /\ q.delay = p.delay
      /\ q.conn = "accepted" /\ ~q.pending /\ ~q.sent /\ q.told = p.told /\ q.retry = p.retry
      /\ q.ht = p.ht /\ q.hold = p.hold
  BY DEF ReplaceConnWithPending, PeerOK, PeerType, Fields
<1> HIDE DEF q
<1>3. /\ PeerType(r) /\ r.state = q.state /\ r.alive = q.alive
      /\ r.conn = q.conn /\ r.told = q.told /\ r.ht = q.ht /\ r.hold = q.hold
      /\ r.delay = q.delay /\ r.pending = q.pending
      /\ ~r.err => r.sent
  BY <1>1, SendOpenFacts
<1> HIDE DEF r
<1>4. PeerOK(r) \/ r.err
  BY <1>2, <1>3 DEF PeerOK, InSessionState
<1> QED BY <1>2, <1>3, <1>4 DEF Weak, q, r

\* promote_pending_after_conn_loss() keeps the invariant.
LEMMA PromotePendingFacts ==
  ASSUME NEW p, PeerOK(p), ~p.err, p.pending, p.delay \/ p.state = "OpenSent"
  PROVE  Good(PromotePending(p), p)
<1> DEFINE q == ReplaceConnWithPending(p)
           d == [q EXCEPT !.delay = FALSE]
<1>1. CASE p.delay
  <2>1. PromotePending(p) = ConnectionReady(d)
    BY <1>1 DEF PromotePending
  <2>2. PeerOK(d) /\ PeerType(q) /\ q.state = p.state /\ q.conn = "accepted" /\ ~q.err
        /\ q.alive = p.alive
    BY <1>1, ReplaceFacts DEF Weak
  <2> HIDE DEF q
  <2>3. ~d.err /\ d.state \in {"Connect", "Active"} /\ d.conn # "none" /\ ~d.delay
        /\ d.alive = p.alive
    BY <1>1, <2>2 DEF PeerOK, PeerType, Fields
  <2> HIDE DEF d
  <2> QED BY <2>1, <2>2, <2>3, ConnectionReadyFacts DEF Good
<1>2. CASE ~p.delay
  <2>1. PromotePending(p) = OrDisconnect(SendOpen(q))
    BY <1>2 DEF PromotePending
  <2> QED BY <1>2, <2>1, ReopenFacts, OrDisconnectFacts DEF Good
<1> QED BY <1>1, <1>2

\* adopt_pending_after_collision_loss() keeps the invariant.
LEMMA AdoptPendingFacts ==
  ASSUME NEW p, PeerOK(p), ~p.err, p.pending, p.delay \/ p.state = "OpenSent"
  PROVE  Good(AdoptPending(p), p)
<1>1. CASE p.delay
  <2>1. AdoptPending(p) = PromotePending(p)
    BY <1>1 DEF AdoptPending, PromotePending
  <2> QED BY <2>1, PromotePendingFacts
<1>2. CASE ~p.delay
  <2>1. AdoptPending(p) = OrDisconnect(SendOpen(ReplaceConnWithPending(SendNotification(p))))
    BY <1>2, Zenon DEF AdoptPending
  <2>2. LET n == SendNotification(p)
        IN  PeerOK(n) /\ ~n.err /\ n.pending /\ n.state = "OpenSent" /\ n.alive = p.alive
    BY <1>2, SendNotificationFacts DEF PeerOK
  <2> QED BY <2>1, <2>2, ReopenFacts, OrDisconnectFacts DEF Good
<1> QED BY <1>1, <1>2

\* So it does when the OPEN came on the pending connection.
LEMMA AdoptPendingWithOpenFacts ==
  ASSUME NEW p, PeerOK(p), ~p.err, p.pending, p.delay \/ p.state = "OpenSent",
         NEW open \in OpenMessages
  PROVE  Good(AdoptPendingWithOpen(p, open), p)
<1>1. CASE p.delay
  <2>1. AdoptPendingWithOpen(p, open) = ProcessDelayOpen(ReplaceConnWithPending(p), open)
    BY <1>1 DEF AdoptPendingWithOpen
  <2>2. LET q == ReplaceConnWithPending(p)
        IN  PeerOK(q) /\ ~q.err /\ q.conn # "none" /\ ~q.pending /\ q.alive = p.alive
    BY Zenon, <1>1, ReplaceFacts
  <2> QED BY <2>1, <2>2, ProcessDelayOpenFacts DEF Good
<1>2. CASE ~p.delay
  <2> DEFINE n == SendNotification(p)
             r == SendOpen(ReplaceConnWithPending(n))
  <2>1. AdoptPendingWithOpen(p, open) =
          IF r.err THEN OrDisconnect(r) ELSE OrDisconnect(ProcessEvent(r, "BgpOpenReceived", open))
    BY <1>2, Zenon DEF AdoptPendingWithOpen
  <2>2. PeerOK(n) /\ ~n.err /\ n.pending /\ n.state = "OpenSent" /\ n.alive = p.alive
    BY <1>2, SendNotificationFacts DEF PeerOK
  <2> HIDE DEF n
  <2>3. /\ Weak(r) /\ r.alive = p.alive /\ (PeerOK(r) \/ r.err)
        /\ ~r.err => r.conn # "none" /\ ~r.pending
    BY <2>2, ReopenFacts
  <2> HIDE DEF r
  <2>4. CASE r.err
    BY <2>1, <2>3, <2>4, OrDisconnectFacts DEF Good
  <2>5. CASE ~r.err
    <3>1. Admissible(r, "BgpOpenReceived", open)
      BY <2>3, <2>5 DEF Admissible, Events, OpenEvents
    <3> QED BY <2>1, <2>3, <2>5, <3>1, ProcessOrDisconnect DEF Good
  <2> QED BY <2>4, <2>5
<1> QED BY <1>1, <1>2

\* Giving up the pending connection keeps the invariant.
LEMMA DropPendingFacts ==
  ASSUME NEW p, PeerOK(p), ~p.err
  PROVE  LET q == DropPending(p)
         IN  Good(q, p) /\ ~q.pending /\ q.conn = p.conn /\ q.state = p.state
BY DEF DropPending, Good, PeerOK, InSessionState, PeerType, Fields

\* A first connection in Connect or Active keeps the invariant.
LEMMA AttachFacts ==
  ASSUME NEW p, Torn(p), ~p.err, p.state \in {"Connect", "Active"},
         NEW c \in {"dialed", "accepted"}
  PROVE  LET q == Attach(p, c)
         IN  Good(q, p) /\ q.conn = c /\ ~q.delay /\ q.state = p.state
BY DEF Attach, Good, PeerOK, InSessionState, Torn, PeerType, Fields, Connections

\* A connection accepted in Idle leaves Idle with it: the connection is there
\* before the transition, but nothing of a session.
LEMMA AcceptedInIdle ==
  ASSUME NEW p, PeerOK(p), ~p.err, p.state = "Idle",
         NEW e \in {"AutomaticStart", "AutomaticStartPassive"}
  PROVE  Good(TryProcessEvent(Attach(p, "accepted"), e, NoPayload), p)
<1> DEFINE new == IF e = "AutomaticStart" THEN "Connect" ELSE "Active"
           q == Attach(p, "accepted")
           n == [q EXCEPT !.state = new]
           x == [n EXCEPT !.retry = TRUE]
           y == Emit(x, StateChanged(new))
<1>1. /\ PeerType(q) /\ q.state = "Idle" /\ q.conn = "accepted" /\ ~q.err /\ q.alive = p.alive
      /\ ~q.pending /\ ~q.delay /\ ~q.sent
  BY DEF Attach, PeerOK, PeerType, Fields, Connections
<1>2. new \in {"Connect", "Active"} /\ new \in States
  BY DEF States
<1>3. HandleEvent("Idle", e, Passive, q.gr # "none") = new
  BY DEF HandleEvent, FromIdle, StartEvents, PassiveStartEvents
<1> HIDE DEF q, new
<1>4. PeerType(n) /\ n.state = new /\ n.conn = "accepted" /\ ~n.err /\ n.alive = p.alive
      /\ ~n.pending /\ ~n.delay /\ ~n.sent
  BY <1>1, <1>2 DEF PeerType, Fields
<1>5. IdleTransitions(n) = x
  BY <1>2, <1>4 DEF IdleTransitions
<1> HIDE DEF n
<1>6. PeerType(x) /\ x.state = new /\ x.conn = "accepted" /\ ~x.err /\ x.alive = p.alive
      /\ ~x.pending /\ ~x.delay /\ ~x.sent
  BY <1>4 DEF PeerType, Fields
<1>7. ProcessEvent(q, e, NoPayload) = y
  <2>1. new # q.state
    BY <1>1, <1>2
  <2> HIDE DEF x
  <2> QED BY <1>1, <1>3, <1>5, <1>6, <2>1 DEF ProcessEvent, Transition, ReportState, n
<1> HIDE DEF x
<1>8. PeerType(y) /\ y.told.state = new
  <2>1. PeerType(y)
    BY <1>2, <1>6, EmitType, ReportTypes
  <2>2. Learn(x.told, StateChanged(new)) = [x.told EXCEPT !.state = new]
    BY <1>2, <1>6, LearnFacts DEF PeerType
  <2>3. y.told = [x.told EXCEPT !.state = new]
    BY <1>6, <2>2 DEF Emit, PeerType, Fields
  <2> QED BY <1>6, <2>1, <2>3 DEF PeerType, Told
<1>9. /\ y.state = new /\ y.conn = "accepted" /\ ~y.err /\ y.alive = p.alive
      /\ ~y.pending /\ ~y.delay /\ ~y.sent
  BY <1>6 DEF Emit, PeerType, Fields
<1> HIDE DEF y
<1>10. PeerOK(y)
  BY <1>2, <1>8, <1>9 DEF PeerOK, InSessionState
<1> QED BY Zenon, <1>7, <1>8, <1>9, <1>10, FailFacts DEF Good, TryProcessEvent, q

\* A connection accepted in Established, when the peer may have restarted: the
\* session ends without a report of the state, and the task is in Connect.
LEMMA AcceptedInEstablished ==
  ASSUME NEW p, PeerOK(p), ~p.err, p.state = "Established", p.gr # "none"
  PROVE  Good(Attach(TryProcessEvent(Disconnect(p, FALSE, "Quiet"),
                                     "TcpConnectionConfirmed", NoPayload), "accepted"), p)
<1> DEFINE d == Disconnect(p, FALSE, "Quiet")
           n == [d EXCEPT !.state = "Connect"]
           y == Emit(n, StateChanged("Connect"))
           z == [y EXCEPT !.err = FALSE]
<1>1. Torn(d) /\ d.state = "Established" /\ ~d.err /\ d.alive = p.alive /\ d.gr # "none"
  <2>1. PeerType(p) /\ Weak(p)
    BY OKIsWeak DEF PeerOK
  <2>2. Torn(d) /\ d.state = p.state /\ d.alive = p.alive /\ d.err = p.err
    BY Zenon, <2>1, DisconnectTears
  <2>3. d.gr = p.gr
    BY Zenon, <2>1, DisconnectFacts
  <2> QED BY Zenon, <2>2, <2>3
<1> HIDE DEF d
<1>2. Torn(n) /\ n.state = "Connect" /\ ~n.err /\ n.alive = p.alive
  <2>1. "Connect" \in States
    BY DEF States
  <2> QED BY <1>1, <2>1 DEF Torn, PeerType, Fields
<1>3. ProcessEvent(d, "TcpConnectionConfirmed", NoPayload) = y
  <2>1. HandleEvent("Established", "TcpConnectionConfirmed", Passive, d.gr # "none") = "Connect"
    BY <1>1 DEF HandleEvent, FromEstablished, StartEvents, PassiveStartEvents
  <2>2. EstablishedTransitions(n, "TcpConnectionConfirmed", NoPayload) = n
    <3> HIDE DEF n
    <3> QED BY DEF EstablishedTransitions, NotificationEvents, MessageErrorEvents
  <2>3. n = [d EXCEPT !.state = "Connect"]
    OBVIOUS
  <2> HIDE DEF n
  <2>4. Transition(n, "Established", "TcpConnectionConfirmed", NoPayload) = n
    BY <2>2 DEF Transition
  <2>5. ReportState(n, "Established", "Connect") = y
    BY <1>2, Zenon DEF ReportState
  <2> QED BY Zenon, <1>1, <2>1, <2>3, <2>4, <2>5 DEF ProcessEvent
<1> HIDE DEF n
<1>4. Torn(y) /\ y.alive = p.alive /\ y.state = "Connect"
  BY <1>2, AnnounceFacts DEF Torn
<1> HIDE DEF y
<1>5. Torn(z) /\ ~z.err /\ z.alive = p.alive /\ z.state = "Connect"
  BY Zenon, <1>4, FailFacts DEF Torn
<1>6. TryProcessEvent(d, "TcpConnectionConfirmed", NoPayload) = z
  BY Zenon, <1>3 DEF TryProcessEvent
<1> HIDE DEF z
<1> QED BY Zenon, <1>5, <1>6, AttachFacts DEF Good, d

\* on_conn_accepted(), from any state.
LEMMA OnConnAcceptedFacts ==
  ASSUME NEW p, PeerOK(p), ~p.err
  PROVE  Good(OnConnAccepted(p), p)
<1>1. CASE OnConnAccepted(p) = p
  BY <1>1 DEF Good
<1>2. CASE p.state = "Idle"
  BY <1>1, <1>2, AcceptedInIdle DEF OnConnAccepted
<1>3. CASE p.state \in {"Connect", "Active"} /\ p.conn = "none"
  <2>1. Torn(p)
    BY <1>3 DEF PeerOK, Torn
  <2>2. LET q == Attach(p, "accepted")
        IN  Good(q, p) /\ q.conn # "none" /\ ~q.delay /\ q.state = p.state
    BY <1>3, <2>1, AttachFacts
  <2>3. OnConnAccepted(p) = ConnectionReady(Attach(p, "accepted"))
    BY Zenon, <1>3 DEF OnConnAccepted
  <2> QED BY <1>3, <2>2, <2>3, ConnectionReadyFacts DEF Good
<1>4. CASE p.state \in {"Connect", "Active", "OpenSent"} /\ p.conn = "dialed" /\ ~p.pending
  <2>1. OnConnAccepted(p) = [p EXCEPT !.pending = TRUE]
    BY Zenon, <1>4 DEF OnConnAccepted
  <2> QED BY <1>4, <2>1 DEF Good, PeerOK, InSessionState, PeerType, Fields
<1>5. CASE p.state = "Established" /\ p.gr # "none"
  <2>1. OnConnAccepted(p) = Attach(TryProcessEvent(Disconnect(p, FALSE, "Quiet"),
                                     "TcpConnectionConfirmed", NoPayload), "accepted")
    BY <1>5 DEF OnConnAccepted
  <2> QED BY Zenon, <1>5, <2>1, AcceptedInEstablished
<1>6. CASE /\ p.state # "Idle"
           /\ ~(p.state \in {"Connect", "Active"} /\ p.conn = "none")
           /\ ~(p.state \in {"Connect", "Active", "OpenSent"} /\ p.conn = "dialed" /\ ~p.pending)
           /\ ~(p.state = "Established" /\ p.gr # "none")
  BY <1>1, <1>6, Zenon DEF OnConnAccepted
<1> QED BY <1>2, <1>3, <1>4, <1>5, <1>6

-----------------------------------------------------------------------------
(* Received messages *)

\* An operation that tells the server nothing about the session.
LEMMA QuietEmitFacts ==
  ASSUME NEW p, PeerOK(p), NEW op \in Reports, Learn(p.told, op) = p.told
  PROVE  LET q == Emit(p, op)
         IN  PeerOK(q) /\ q.alive = p.alive /\ q.err = p.err
<1> DEFINE q == Emit(p, op)
<1>1. PeerType(q)
  BY EmitType DEF PeerOK
<1>2. /\ q.state = p.state /\ q.alive = p.alive /\ q.err = p.err /\ q.conn = p.conn
      /\ q.pending = p.pending /\ q.delay = p.delay /\ q.est = p.est /\ q.keep = p.keep
      /\ q.sent = p.sent /\ q.hold = p.hold /\ q.ht = p.ht /\ q.retry = p.retry
      /\ q.told = p.told
  BY DEF Emit, PeerOK, PeerType, Fields
<1> HIDE DEF q
<1>3. PeerOK(q)
  BY <1>1, <1>2 DEF PeerOK, InSessionState
<1> QED BY <1>2, <1>3 DEF q

\* flush_pending_routes() keeps the invariant.
LEMMA FlushFacts ==
  ASSUME NEW p, PeerOK(p)
  PROVE  LET q == FlushPendingRoutes(p)
         IN  PeerOK(q) /\ q.alive = p.alive /\ q.err = p.err
<1> DEFINE a == [p EXCEPT !.routes = {}]
<1>1. PeerOK(a) /\ a.alive = p.alive /\ a.err = p.err
  BY DEF PeerOK, InSessionState, PeerType, Fields
<1>2. FlushPendingRoutes(p) = Emit(a, RoutesUpdate(p.routes))
  BY DEF FlushPendingRoutes
<1> HIDE DEF a
<1>3. RoutesUpdate(p.routes) \in Reports
  BY ReportTypes DEF PeerOK, PeerType
<1>4. Learn(a.told, RoutesUpdate(p.routes)) = a.told
  BY <1>1, LearnFacts DEF PeerOK, PeerType
<1> QED BY <1>1, <1>2, <1>3, <1>4, QuietEmitFacts

\* Operations that say nothing about the session keep the invariant.
LEMMA ServerOpFacts ==
  ASSUME NEW p, PeerOK(p),
         NEW n \in {"SetAdminState", "GracefulRestartComplete", "GracefulRestartTimerExpired",
                    "RouteRefresh", "RouteRefreshBoRR", "RouteRefreshEoRR"}
  PROVE  LET q == Emit(p, ServerOp(n))
         IN  PeerOK(q) /\ q.alive = p.alive /\ q.err = p.err
<1>1. ServerOp(n) \in Reports
  BY ReportTypes
<1>2. Learn(p.told, ServerOp(n)) = p.told
  BY LearnFacts DEF PeerOK, PeerType
<1> QED BY <1>1, <1>2, QuietEmitFacts

\* Resetting the Hold timer keeps the invariant.
LEMMA ResetHoldFacts ==
  ASSUME NEW p, PeerOK(p)
  PROVE  LET q == ResetHold(p) IN PeerOK(q) /\ q.alive = p.alive /\ q.err = p.err
<1> DEFINE h == IF p.ht = "pos" THEN TRUE ELSE p.hold
<1>1. ResetHold(p) = [p EXCEPT !.hold = h]
  BY DEF ResetHold
<1>2. h \in BOOLEAN /\ (p.ht = "pos" => h)
  BY Zenon DEF PeerOK, PeerType
<1> HIDE DEF h
<1> QED BY <1>1, <1>2 DEF PeerOK, InSessionState, PeerType, Fields

\* handle_eor_received() keeps the invariant.
LEMMA EndOfRibFacts ==
  ASSUME NEW p, PeerOK(p)
  PROVE  LET q == HandleEndOfRib(p) IN PeerOK(q) /\ q.alive = p.alive /\ q.err = p.err
<1> DEFINE a == [p EXCEPT !.grState = "complete", !.grTimer = FALSE]
<1>1. PeerOK(a) /\ a.alive = p.alive /\ a.err = p.err
  BY DEF PeerOK, InSessionState, PeerType, Fields
<1>2. HandleEndOfRib(p) = IF p.grState # "waiting" THEN p
        ELSE Emit(FlushPendingRoutes(a), ServerOp("GracefulRestartComplete"))
  BY DEF HandleEndOfRib
<1> HIDE DEF a
<1> QED BY <1>1, <1>2, FlushFacts, ServerOpFacts

\* handle_route_refresh() keeps the invariant.
LEMMA RouteRefreshFacts ==
  ASSUME NEW p, PeerOK(p), NEW m \in {"RouteRefresh", "RouteRefreshBoRR", "RouteRefreshEoRR"}
  PROVE  LET q == HandleRouteRefresh(p, m) IN PeerOK(q) /\ q.alive = p.alive /\ q.err = p.err
<1>1. CASE HandleRouteRefresh(p, m) = p
  BY <1>1
<1>2. CASE HandleRouteRefresh(p, m) = Emit(FlushPendingRoutes(p), ServerOp(m))
  BY <1>2, FlushFacts, ServerOpFacts
<1>3. CASE HandleRouteRefresh(p, m) = Emit(p, ServerOp(m))
  BY <1>3, ServerOpFacts
<1> QED BY <1>1, <1>2, <1>3, Zenon DEF HandleRouteRefresh

\* The events that any state admits.
PlainEvents ==
  Events \ (SendingEvents \cup {"BgpKeepaliveReceived", "ConnectRetryTimerExpires"})

\* Plain events keep the invariant from every state.
LEMMA PlainFacts ==
  ASSUME NEW p, PeerOK(p), ~p.err, NEW e \in PlainEvents, NEW arg
  PROVE  /\ Admissible(p, e, arg)
         /\ Good(TryProcessEvent(p, e, arg), p)
<1>1. Admissible(p, e, arg)
  BY DEF Admissible, PlainEvents, SendingEvents, OpenEvents
<1> QED BY <1>1, TryFacts DEF PlainEvents

\* A received NOTIFICATION keeps the invariant.
LEMMA NotificationFacts ==
  ASSUME NEW p, PeerOK(p), ~p.err, NEW m
  PROVE  Good(HandleNotification(p, m), p)
<1>1. {"NotifMsgVerErr", "NotifMsg"} \subseteq PlainEvents
  BY DEF PlainEvents, Events, NotificationEvents, SendingEvents
<1>2. \E e \in {"NotifMsgVerErr", "NotifMsg"} : \E r :
        HandleNotification(p, m) = TryProcessEvent(p, e, r)
  BY DEF HandleNotification
<1> QED BY <1>1, <1>2, PlainFacts

BadMessages == {"BadOpen", "BadUpdate", "BadHeader", "Closed"}

\* handle_received_message() keeps the invariant or returns an error.
LEMMA ReceivedFacts ==
  ASSUME NEW p, PeerOK(p), ~p.err, p.conn # "none", NEW m \in Messages \ BadMessages,
         NEW open, m = "Open" => open \in OpenMessages /\ ~p.pending
  PROVE  LET q == HandleReceivedMessage(p, m, open)
         IN  q.alive = p.alive /\ Weak(q) /\ (PeerOK(q) \/ q.err)
<1> DEFINE Goal(q) == q.alive = p.alive /\ Weak(q) /\ (PeerOK(q) \/ q.err)
           u == ProcessEvent(p, "BgpUpdateReceived", NoPayload)
           v == [u EXCEPT !.routes = @ \cup {"cur"}]
<1> USE DEF NotificationMessages
<1>1. CASE m \in NotificationMessages
  <2>1. HandleReceivedMessage(p, m, open) = Fail(HandleNotification(p, m))
    BY <1>1, Zenon DEF HandleReceivedMessage
  <2> DEFINE h == HandleNotification(p, m)
  <2>2. PeerOK(h) /\ PeerType(h) /\ h.alive = p.alive
    BY NotificationFacts DEF Good, PeerOK
  <2> HIDE DEF h
  <2>3. PeerOK(Fail(h)) /\ Fail(h).alive = p.alive
    BY Zenon, <2>2, FailFacts DEF Fail
  <2> QED BY <2>1, <2>3, OKIsWeak DEF h
<1>2. u.alive = p.alive /\ PeerOK(u)
  <2>1. "BgpUpdateReceived" \in PlainEvents
    BY DEF PlainEvents, Events, SendingEvents
  <2>2. Admissible(p, "BgpUpdateReceived", NoPayload)
    BY <2>1, PlainFacts
  <2> QED BY <2>1, <2>2, ProcessEventFacts DEF Processed, PlainEvents
<1>3. CASE m = "Update"
  <2>1. HandleReceivedMessage(p, m, open) = IF u.err THEN u ELSE ResetHold(v)
    BY <1>3 DEF HandleReceivedMessage, AfterUpdate
  <2> HIDE DEF u
  <2>2. PeerOK(v) /\ v.alive = u.alive
    BY <1>2 DEF PeerOK, InSessionState, PeerType, Fields
  <2> HIDE DEF v
  <2> QED BY <1>2, <2>1, <2>2, ResetHoldFacts, OKIsWeak
<1>4. CASE m = "EndOfRib"
  <2>1. HandleReceivedMessage(p, m, open) = IF u.err THEN u ELSE ResetHold(HandleEndOfRib(u))
    BY <1>4 DEF HandleReceivedMessage, AfterUpdate
  <2> HIDE DEF u
  <2> QED BY <1>2, <2>1, EndOfRibFacts, ResetHoldFacts, OKIsWeak
<1>5. CASE m = "Keepalive"
  <2>1. HandleReceivedMessage(p, m, open) =
          ResetHold(TryProcessEvent(p, "BgpKeepaliveReceived", NoPayload))
    BY <1>5 DEF HandleReceivedMessage
  <2>2. Admissible(p, "BgpKeepaliveReceived", NoPayload)
        /\ "BgpKeepaliveReceived" \notin SendingEvents
    BY DEF Admissible, Events, OpenEvents, SendingEvents
  <2> QED BY <2>1, <2>2, TryFacts, ResetHoldFacts, OKIsWeak DEF Good
<1>6. CASE m = "Open"
  <2>1. HandleReceivedMessage(p, m, open) = ProcessEvent(p, "BgpOpenReceived", open)
    BY <1>6 DEF HandleReceivedMessage
  <2>2. Admissible(p, "BgpOpenReceived", open)
    BY <1>6 DEF Admissible, Events, OpenEvents
  <2> QED BY <2>1, <2>2, ProcessEventFacts DEF Processed
<1>7. CASE m \in {"RouteRefresh", "RouteRefreshBoRR", "RouteRefreshEoRR"}
  <2>1. HandleReceivedMessage(p, m, open) = HandleRouteRefresh(p, m)
    BY <1>7 DEF HandleReceivedMessage
  <2> QED BY <1>7, <2>1, RouteRefreshFacts, OKIsWeak
<1> QED BY <1>1, <1>3, <1>4, <1>5, <1>6, <1>7 DEF Messages, BadMessages

\* Disconnecting, with a NOTIFICATION or without, keeps the invariant.
LEMMA DisconnectGood ==
  ASSUME NEW p, PeerOK(p), ~p.err, NEW reason
  PROVE  /\ Good(Disconnect(p, TRUE, reason), p)
         /\ Good(Disconnect(SendNotification(p), TRUE, reason), p)
<1>1. Weak(p) /\ PeerType(p)
  BY OKIsWeak DEF PeerOK
<1>2. LET n == SendNotification(p) IN Weak(n) /\ n.alive = p.alive /\ n.err = p.err
  BY <1>1, SendNotificationFacts
<1> QED BY Zenon, <1>1, <1>2, DisconnectTears, TornIsOK DEF Good

\* handle_delay_open_message() keeps the invariant.
LEMMA DelayOpenMessageFacts ==
  ASSUME NEW p, PeerOK(p), ~p.err, p.conn # "none", p.delay, NEW m \in Messages,
         NEW open, m = "Open" => open \in OpenMessages
  PROVE  Good(DelayOpenMessage(p, m, open), p)
<1> USE DEF NotificationMessages
<1>1. CASE m = "Open"
  <2>1. CASE p.pending /\ ~open.localWins
    BY <1>1, <2>1, AdoptPendingFacts DEF DelayOpenMessage
  <2>2. CASE ~(p.pending /\ ~open.localWins)
    <3>1. DelayOpenMessage(p, m, open) = ProcessDelayOpen(DropPending(p), open)
      BY <1>1, <2>2 DEF DelayOpenMessage
    <3> QED BY <1>1, <3>1, DropPendingFacts, ProcessDelayOpenFacts DEF Good
  <2> QED BY <2>1, <2>2
<1>2. CASE m \in NotificationMessages
  BY Zenon, <1>2, NotificationFacts DEF DelayOpenMessage
<1>3. CASE m = "BadOpen" \/ m = "BadUpdate" \/ (m \in {"BadHeader", "Closed"} /\ ~p.pending)
  <2>1. \E e \in {"BgpOpenMsgErr", "TcpConnectionFails", "BgpHeaderErr"} :
          DelayOpenMessage(p, m, open) = TryProcessEvent(p, e, NoPayload)
    BY Zenon, <1>3 DEF DelayOpenMessage
  <2>2. {"BgpOpenMsgErr", "TcpConnectionFails", "BgpHeaderErr"} \subseteq PlainEvents
    BY DEF PlainEvents, Events, SendingEvents, MessageErrorEvents
  <2> QED BY <2>1, <2>2, PlainFacts
<1>4. CASE m \in {"BadHeader", "Closed"} /\ p.pending
  BY <1>4, PromotePendingFacts DEF DelayOpenMessage
<1>5. CASE m \notin BadMessages \cup NotificationMessages \cup {"Open"}
  <2>1. DelayOpenMessage(p, m, open) = Disconnect(p, TRUE, "Quiet")
    BY Zenon, <1>5 DEF DelayOpenMessage, BadMessages
  <2> QED BY Zenon, <2>1, DisconnectGood
<1> QED BY <1>1, <1>2, <1>3, <1>4, <1>5 DEF BadMessages

\* A message in OpenSent or OpenConfirm keeps the invariant.
LEMMA OpenStatesMessageFacts ==
  ASSUME NEW p, PeerOK(p), ~p.err, p.conn # "none", p.state \in {"OpenSent", "OpenConfirm"},
         NEW m \in Messages, NEW open, m = "Open" => open \in OpenMessages
  PROVE  Good(OpenStatesMessage(p, m, open), p)
<1> USE DEF NotificationMessages
<1>1. p.pending => p.state = "OpenSent"
  BY Zenon DEF PeerOK
<1>2. p.pending \in BOOLEAN
  BY DEF PeerOK, PeerType
<1>3. CASE p.pending /\ m = "Open" /\ ~open.localWins
  <2>1. OpenStatesMessage(p, m, open) = AdoptPending(p)
    BY <1>3 DEF OpenStatesMessage
  <2> QED BY <1>1, <1>3, <2>1, AdoptPendingFacts
<1>4. CASE p.pending /\ m \in NotificationMessages \cup {"BadHeader", "Closed"}
  <2>1. m # "Open"
    BY <1>4
  <2>2. OpenStatesMessage(p, m, open) = PromotePending(p)
    BY <1>4, <2>1, Zenon DEF OpenStatesMessage
  <2> QED BY <1>1, <1>4, <2>2, PromotePendingFacts
<1>5. CASE m \in BadMessages /\ ~(p.pending /\ m \in {"BadHeader", "Closed"})
  <2>1. \/ OpenStatesMessage(p, m, open) = Disconnect(SendNotification(p), TRUE, "Notification")
        \/ OpenStatesMessage(p, m, open) = Disconnect(p, TRUE, "Quiet")
    BY Zenon, <1>2, <1>5 DEF OpenStatesMessage, BadMessages
  <2> QED BY Zenon, <2>1, DisconnectGood
<1>6. CASE /\ m \notin BadMessages
           /\ ~(p.pending /\ m = "Open" /\ ~open.localWins)
           /\ ~(p.pending /\ m \in NotificationMessages)
  <2> DEFINE d == IF m = "Open" THEN DropPending(p) ELSE p
  <2>1. OpenStatesMessage(p, m, open) = OrDisconnect(HandleReceivedMessage(d, m, open))
    BY Zenon, <1>6 DEF OpenStatesMessage, BadMessages
  <2>2. PeerOK(d) /\ ~d.err /\ d.conn # "none" /\ d.alive = p.alive /\ (m = "Open" => ~d.pending)
    BY DropPendingFacts DEF Good
  <2> HIDE DEF d
  <2> QED BY <1>6, <2>1, <2>2, ReceivedFacts, OrDisconnectFacts DEF Good
<1> QED BY <1>3, <1>4, <1>5, <1>6

\* A message in Established keeps the invariant.
LEMMA EstablishedMessageFacts ==
  ASSUME NEW p, PeerOK(p), ~p.err, p.conn # "none", p.state = "Established",
         NEW m \in Messages, NEW open, m = "Open" => open \in OpenMessages,
         NEW full \in BOOLEAN
  PROVE  Good(EstablishedMessage(p, m, open, full), p)
<1>1. CASE m \in BadMessages
  <2>1. \/ EstablishedMessage(p, m, open, full) =
             Disconnect(SendNotification(p), TRUE, "Notification")
        \/ EstablishedMessage(p, m, open, full) = Disconnect(p, TRUE, "Quiet")
    BY Zenon, <1>1 DEF EstablishedMessage, BadMessages
  <2> QED BY Zenon, <2>1, DisconnectGood
<1>2. CASE m \notin BadMessages
  <2> DEFINE q == HandleReceivedMessage(p, m, open)
  <2>1. EstablishedMessage(p, m, open, full) =
          IF q.err THEN OrDisconnect(q)
          ELSE IF full /\ q.routes # {} THEN FlushPendingRoutes(q) ELSE q
    BY Zenon, <1>2 DEF EstablishedMessage, AfterMessage, BadMessages
  <2>2. ~p.pending
    BY DEF PeerOK
  <2>3. q.alive = p.alive /\ Weak(q) /\ (PeerOK(q) \/ q.err)
    BY <1>2, <2>2, ReceivedFacts
  <2> HIDE DEF q
  <2> QED BY <2>1, <2>3, OrDisconnectFacts, FlushFacts DEF Good
<1> QED BY <1>1, <1>2

-----------------------------------------------------------------------------
(* Operations *)

\* A task that has returned.
Dead(p) ==
  /\ PeerType(p) /\ ~p.alive
  /\ p.conn = "none" /\ ~p.pending /\ ~p.delay /\ ~p.keep
  /\ p.state = "Idle" => ~p.est

\* The inductive invariant, of the task's state.
Sound(p) == (p.alive /\ PeerOK(p) /\ ~p.err) \/ Dead(p)

\* A task that returns leaves nothing behind.
LEMMA ExitFacts ==
  ASSUME NEW p, PeerOK(p)
  PROVE  Dead(Exit(p))
BY DEF Exit, Dead, PeerOK, PeerType, Fields, Connections

\* A write keeps the invariant.
LEMMA WriteFacts ==
  ASSUME NEW p, PeerOK(p), NEW m \in {"Open", "Keepalive", "Notification"}
  PROVE  LET q == Write(p, m) IN PeerOK(q) /\ q.alive = p.alive /\ q.err = p.err
<1>1. PeerType(Write(p, m))
  BY WriteType DEF PeerOK
<1> QED BY <1>1 DEF Write, PeerOK, InSessionState, PeerType, Fields

\* Clearing manually_stopped keeps the invariant.
LEMMA StartedFacts ==
  ASSUME NEW p, PeerOK(p)
  PROVE  LET q == [p EXCEPT !.stopped = FALSE] IN PeerOK(q) /\ q.alive = p.alive /\ q.err = p.err
BY DEF PeerOK, InSessionState, PeerType, Fields

\* Every operation of the server keeps the invariant or ends the task.
LEMMA HandleOpFacts ==
  ASSUME NEW p, PeerOK(p), ~p.err, p.alive, NEW op \in PeerOps
  PROVE  Sound(HandleOp(p, op))
<1>1. ASSUME NEW q, Good(q, p)
      PROVE  Sound(q)
  BY <1>1 DEF Good, Sound
<1>2. Good(p, p)
  BY DEF Good
<1>3. {"ManualStart", "ManualStartPassive", "AutomaticStart", "AutomaticStartPassive",
       "ManualStop", "NotifMsgVerErr"} \subseteq PlainEvents
  BY DEF PlainEvents, Events, StartEvents, PassiveStartEvents, NotificationEvents, SendingEvents
<1>4. CASE op \in {"Start", "AutoStart"}
  <2> DEFINE a == [p EXCEPT !.stopped = FALSE]
  <2>1. PeerOK(a) /\ ~a.err /\ a.alive = p.alive
    BY Zenon, StartedFacts
  <2>2. \/ HandleOp(p, op) = p
        \/ \E e \in {"ManualStart", "ManualStartPassive"} :
             HandleOp(p, op) = TryProcessEvent(a, e, NoPayload)
        \/ \E e \in {"AutomaticStart", "AutomaticStartPassive"} :
             HandleOp(p, op) = TryProcessEvent(p, e, NoPayload)
    <3>1. CASE p.state # "Idle"
      BY Zenon, <1>4, <3>1 DEF HandleOp, WaitingOp, SessionOp
    <3>2. CASE p.state = "Idle" /\ op = "Start"
      <4>1. HandleOp(p, op) = TryProcessEvent(a, IF Passive THEN "ManualStartPassive"
                                                 ELSE "ManualStart", NoPayload)
        BY <3>2 DEF HandleOp, IdleOp
      <4> QED BY <4>1
    <3>3. CASE p.state = "Idle" /\ op = "AutoStart"
      <4>1. HandleOp(p, op) = TryProcessEvent(p, IF Passive THEN "AutomaticStartPassive"
                                                 ELSE "AutomaticStart", NoPayload)
        BY <3>3 DEF HandleOp, IdleOp
      <4> QED BY <4>1
    <3> QED BY <1>4, <3>1, <3>2, <3>3
  <2> HIDE DEF a
  <2> QED BY ZenonT(60), <1>1, <1>2, <1>3, <2>1, <2>2, PlainFacts DEF Good
<1>5. CASE op = "Accepted"
  <2>1. HandleOp(p, op) = OnConnAccepted(p)
    BY <1>5 DEF HandleOp, IdleOp, WaitingOp, SessionOp
  <2> QED BY <1>1, <2>1, OnConnAcceptedFacts
<1>6. CASE op = "ManualStop"
  <2>1. HandleOp(p, op) = p \/ HandleOp(p, op) = TryProcessEvent(p, "ManualStop", NoPayload)
    BY <1>6 DEF HandleOp, IdleOp, WaitingOp, SessionOp
  <2> QED BY <1>1, <1>2, <1>3, <2>1, PlainFacts
<1>7. CASE op = "Shutdown"
  <2>1. HandleOp(p, op) \in {p, Exit(p), Exit(SendNotification(p))}
    BY <1>7, Zenon DEF HandleOp, IdleOp, WaitingOp, SessionOp
  <2>2. PeerOK(SendNotification(p))
    BY SendNotificationFacts, Zenon DEF PeerOK
  <2> QED BY <1>1, <1>2, <2>1, <2>2, ExitFacts DEF Sound
<1>8. CASE op = "HardReset"
  <2> DEFINE w == IF p.io THEN Write(p, "Notification") ELSE p
  <2>1. HandleOp(p, op) = p \/ HandleOp(p, op) = TryProcessEvent(w, "NotifMsgVerErr", "Notification")
    BY <1>8 DEF HandleOp, IdleOp, WaitingOp, SessionOp
  <2>2. PeerOK(w) /\ ~w.err /\ w.alive = p.alive
    BY Zenon, WriteFacts
  <2> HIDE DEF w
  <2> QED BY Zenon, <1>1, <1>2, <1>3, <2>1, <2>2, PlainFacts DEF Good
<1>9. CASE op \in {"SendUpdate", "Query"}
  <2>1. HandleOp(p, op) = p \/ HandleOp(p, op) = Disconnect(p, TRUE, "Quiet")
    BY <1>9, Zenon DEF HandleOp, IdleOp, WaitingOp, SessionOp
  <2> QED BY Zenon, <1>1, <1>2, <2>1, DisconnectGood
<1> QED BY <1>4, <1>5, <1>6, <1>7, <1>8, <1>9 DEF PeerOps

-----------------------------------------------------------------------------
(* The invariant is inductive *)

Inv ==
  /\ Sound(peer)
  /\ server \in {"present", "removing", "gone"}
  /\ napped \in BOOLEAN

\* The outputs of the previous step are no part of the invariant.
LEMMA BeginFacts ==
  ASSUME PeerOK(peer), ~peer.err, NEW io \in BOOLEAN, NEW stable \in BOOLEAN
  PROVE  LET b == Begin(io, stable)
         IN  /\ PeerOK(b) /\ ~b.err /\ b.alive = peer.alive /\ b.state = peer.state
             /\ b.conn = peer.conn /\ b.pending = peer.pending /\ b.delay = peer.delay
             /\ Torn(peer) => Torn(b)
<1> DEFINE b == Begin(io, stable)
<1>1. <<>> \in Seq(Sent) /\ <<>> \in Seq(Reports)
  OBVIOUS
<1>2. PeerType(b)
  BY <1>1 DEF Begin, PeerOK, PeerType, Fields
<1>3. /\ b.state = peer.state /\ b.alive = peer.alive /\ b.err = peer.err /\ b.conn = peer.conn
      /\ b.pending = peer.pending /\ b.delay = peer.delay /\ b.est = peer.est
      /\ b.keep = peer.keep /\ b.sent = peer.sent /\ b.hold = peer.hold /\ b.ht = peer.ht
      /\ b.retry = peer.retry /\ b.told = peer.told
  BY Zenon DEF Begin, PeerOK, PeerType, Fields
<1> HIDE DEF b
<1>4. PeerOK(b)
  BY <1>2, <1>3 DEF PeerOK, InSessionState
<1>5. Torn(peer) => Torn(b)
  BY <1>2, <1>3 DEF Torn
<1> QED BY <1>3, <1>4, <1>5 DEF b

\* The restart timer of a task that has returned.
LEMMA DeadReports ==
  ASSUME Dead(peer)
  PROVE  Dead(Emit([Begin(TRUE, FALSE) EXCEPT !.grTimer = FALSE],
                   ServerOp("GracefulRestartTimerExpired")))
<1> DEFINE b == Begin(TRUE, FALSE)
           c == [b EXCEPT !.grTimer = FALSE]
<1>1. <<>> \in Seq(Sent) /\ <<>> \in Seq(Reports)
  OBVIOUS
<1>2. Dead(b)
  BY <1>1 DEF Begin, Dead, PeerType, Fields
<1> HIDE DEF b
<1>3. Dead(c)
  BY <1>2 DEF Dead, PeerType, Fields
<1> HIDE DEF c
<1>4. PeerType(Emit(c, ServerOp("GracefulRestartTimerExpired")))
  BY <1>3, EmitType, ReportTypes DEF Dead
<1>5. Dead(Emit(c, ServerOp("GracefulRestartTimerExpired")))
  BY <1>3, <1>4 DEF Emit, Dead, PeerType, Fields
<1> QED BY <1>5 DEF b, c

\* Nor are the outcomes of this step's writes.
LEMMA EndFacts ==
  ASSUME NEW q, Sound(q), End(q)
  PROVE  Sound(peer')
<1>1. peer' = [q EXCEPT !.io = TRUE, !.stable = FALSE]
  BY DEF End
<1>2. CASE q.alive /\ PeerOK(q) /\ ~q.err
  BY ZenonT(60), <1>1, <1>2 DEF Sound, PeerOK, InSessionState, PeerType, Fields
<1>3. CASE Dead(q)
  BY <1>1, <1>3 DEF Sound, Dead, PeerType, Fields
<1> QED BY <1>2, <1>3 DEF Sound

\* Nor is the operation it handled.
LEMMA SoundOp ==
  ASSUME NEW q, Sound(q), NEW op \in PeerOps
  PROVE  Sound([q EXCEPT !.op = op])
<1>1. CASE q.alive /\ PeerOK(q) /\ ~q.err
  BY ZenonT(60), <1>1 DEF Sound, PeerOK, InSessionState, PeerType, Fields
<1>2. CASE Dead(q)
  BY <1>2 DEF Sound, Dead, PeerType, Fields
<1> QED BY <1>1, <1>2 DEF Sound

\* The invariant holds when the task starts.
LEMMA InitSound == Init => Inv
<1> SUFFICES ASSUME Init
             PROVE  Inv
  OBVIOUS
<1>1. PICK adminDown \in BOOLEAN : peer = NewPeer(adminDown)
  BY DEF Init
<1>2. Unknown \in Told /\ Unknown.state = "Idle"
  BY Zenon DEF Unknown, Told, States
<1>3. PeerType(peer)
  BY <1>1, <1>2, ConfigAssumption, SMTT(60)
     DEF NewPeer, PeerType, Fields, States, Connections, GrKinds
<1>4. /\ peer.state = "Idle" /\ peer.conn = "none" /\ ~peer.pending /\ ~peer.delay /\ ~peer.est
      /\ ~peer.keep /\ ~peer.sent /\ peer.told.state = "Idle" /\ ~peer.err /\ peer.alive
  BY <1>1, <1>2, Zenon DEF NewPeer
<1>5. Sound(peer)
  BY <1>3, <1>4, Zenon DEF Sound, PeerOK, InSessionState
<1> QED BY Zenon, <1>5 DEF Init, Inv

\* Every arm of every select! keeps the invariant.
LEMMA NextSound == Inv /\ [Next]_vars => Inv'
<1> SUFFICES ASSUME Inv, [Next]_vars
             PROVE  Inv'
  OBVIOUS
<1> USE DEF Restart
<1>1. ASSUME NEW q, Good(q, peer), peer.alive, End(q)
      PROVE  Sound(peer')
  <2>1. Sound(q)
    BY <1>1 DEF Good, Sound
  <2> QED BY <1>1, <2>1, EndFacts
<1>2. ASSUME peer.alive
      PROVE  PeerOK(peer) /\ ~peer.err
  BY <1>2 DEF Inv, Sound, Dead
<1>3. ASSUME NEW io \in BOOLEAN, NEW stable \in BOOLEAN, peer.alive
      PROVE  LET b == Begin(io, stable)
             IN  /\ PeerOK(b) /\ ~b.err /\ b.alive = peer.alive /\ b.state = peer.state
                 /\ b.conn = peer.conn /\ b.pending = peer.pending /\ b.delay = peer.delay
  BY ZenonT(60), <1>2, <1>3, BeginFacts
<1>4. CASE Settle
  <2> SUFFICES Sound(peer')
    BY Zenon, <1>4 DEF Settle, Inv
  <2>1. PICK io \in BOOLEAN :
          LET p == Begin(io, FALSE)
          IN  End(IF p.state \in {"Connect", "Active"} THEN ConnectionReady(p)
                  ELSE TryProcessEvent(p, "TcpConnectionFails", NoPayload))
    BY Zenon, <1>4 DEF Settle
  <2> DEFINE b == Begin(io, FALSE)
             q == IF b.state \in {"Connect", "Active"} THEN ConnectionReady(b)
                  ELSE TryProcessEvent(b, "TcpConnectionFails", NoPayload)
  <2>2. End(q) /\ peer.alive /\ ~Polling(peer)
    BY Zenon, <1>4, <2>1 DEF Settle
  <2>3. /\ PeerOK(b) /\ ~b.err /\ b.alive = peer.alive /\ b.state = peer.state
        /\ b.conn = peer.conn /\ b.delay = peer.delay
    BY Zenon, <1>3, <2>2
  <2> HIDE DEF b
  <2>4. "TcpConnectionFails" \in PlainEvents
    BY DEF PlainEvents, Events, SendingEvents
  <2>5. CASE b.state \in {"Connect", "Active"}
    <3>1. b.conn # "none" /\ ~b.delay
      BY <2>2, <2>3, <2>5, Zenon DEF Polling
    <3>2. Good(ConnectionReady(b), b)
      BY <2>3, <2>5, <3>1, ConnectionReadyFacts
    <3> QED BY Zenon, <1>1, <2>2, <2>3, <2>5, <3>2 DEF Good
  <2>6. CASE b.state \notin {"Connect", "Active"}
    <3>1. Good(TryProcessEvent(b, "TcpConnectionFails", NoPayload), b)
      BY <2>3, <2>4, PlainFacts
    <3> QED BY Zenon, <1>1, <2>2, <2>3, <2>6, <3>1 DEF Good
  <2> QED BY <2>5, <2>6
<1>5. CASE ReceiveOp
  <2> SUFFICES Sound(peer')
    BY Zenon, <1>5 DEF ReceiveOp, Inv
  <2>1. PICK op \in Queued, io \in BOOLEAN :
          End([HandleOp(Begin(io, FALSE), op) EXCEPT !.op = op])
    BY Zenon, <1>5 DEF ReceiveOp
  <2>2. op \in PeerOps
    BY <2>1 DEF Queued, PeerOps
  <2>3. Sound(HandleOp(Begin(io, FALSE), op))
    BY Zenon, <1>3, <1>5, <2>2, HandleOpFacts DEF ReceiveOp
  <2> QED BY Zenon, <2>1, <2>2, <2>3, SoundOp, EndFacts
<1>6. CASE ReceiveClosed
  <2> SUFFICES Sound(peer')
    BY Zenon, <1>6 DEF ReceiveClosed, Inv
  <2>1. Dead(Exit(Begin(TRUE, FALSE)))
    BY Zenon, <1>3, <1>6, ExitFacts DEF ReceiveClosed
  <2> QED BY Zenon, <1>6, <2>1, EndFacts DEF ReceiveClosed, Sound
<1>7. CASE ReceiveMessage
  <2> SUFFICES Sound(peer')
    BY Zenon, <1>7 DEF ReceiveMessage, Inv
  <2>1. PICK io \in BOOLEAN, stable \in BOOLEAN, full \in BOOLEAN, m \in Messages :
          \E open \in Payload(m) : End(HandleConnMessage(Begin(io, stable), m, open, full))
    BY <1>7 DEF ReceiveMessage
  <2>2. PICK open \in Payload(m) : End(HandleConnMessage(Begin(io, stable), m, open, full))
    BY <2>1
  <2> DEFINE b == Begin(io, stable)
             q == HandleConnMessage(b, m, open, full)
  <2>3. peer.alive /\ Polling(peer) /\ peer.conn # "none" /\ End(q)
    BY <1>7, <2>2 DEF ReceiveMessage
  <2>4. /\ PeerOK(b) /\ ~b.err /\ b.alive = peer.alive /\ b.state = peer.state
        /\ b.conn = peer.conn /\ b.delay = peer.delay
    BY Zenon, <1>3, <2>3
  <2> HIDE DEF b
  <2>5. m = "Open" => open \in OpenMessages
    BY DEF Payload
  <2>6. CASE b.state \in {"Connect", "Active"}
    <3>1. b.delay
      BY <2>3, <2>4, <2>6, Zenon DEF Polling
    <3>2. Good(DelayOpenMessage(b, m, open), b)
      BY <2>3, <2>4, <2>5, <3>1, DelayOpenMessageFacts
    <3>3. q = DelayOpenMessage(b, m, open)
      BY <2>6, Zenon DEF HandleConnMessage
    <3> QED BY Zenon, <1>1, <2>3, <2>4, <3>2, <3>3 DEF Good
  <2>7. CASE b.state \in {"OpenSent", "OpenConfirm"}
    <3>1. Good(OpenStatesMessage(b, m, open), b)
      BY <2>3, <2>4, <2>5, <2>7, OpenStatesMessageFacts
    <3>2. q = OpenStatesMessage(b, m, open)
      BY <2>7 DEF HandleConnMessage
    <3> QED BY Zenon, <1>1, <2>3, <2>4, <3>1, <3>2 DEF Good
  <2>8. CASE b.state = "Established"
    <3>1. Good(EstablishedMessage(b, m, open, full), b)
      BY <2>3, <2>4, <2>5, <2>8, EstablishedMessageFacts
    <3>2. q = EstablishedMessage(b, m, open, full)
      BY <2>8, Zenon DEF HandleConnMessage
    <3> QED BY Zenon, <1>1, <2>3, <2>4, <3>1, <3>2 DEF Good
  <2>9. b.state # "Idle"
    BY <2>3, <2>4 DEF PeerOK
  <2> QED BY <2>4, <2>6, <2>7, <2>8, <2>9, ZenonT(60) DEF PeerOK, PeerType, States
<1>8. CASE ReceivePendingMessage
  <2> SUFFICES Sound(peer')
    BY Zenon, <1>8 DEF ReceivePendingMessage, Inv
  <2>1. PICK io \in BOOLEAN, m \in Messages :
          \E open \in Payload(m) : End(HandleConnPendingMsg(Begin(io, FALSE), m, open))
    BY Zenon, <1>8 DEF ReceivePendingMessage
  <2>2. PICK open \in Payload(m) : End(HandleConnPendingMsg(Begin(io, FALSE), m, open))
    BY Zenon, <2>1
  <2> DEFINE b == Begin(io, FALSE)
             q == HandleConnPendingMsg(b, m, open)
  <2>3. peer.alive /\ Polling(peer) /\ peer.pending /\ End(q)
    BY Zenon, <1>8, <2>2 DEF ReceivePendingMessage
  <2>4. /\ PeerOK(b) /\ ~b.err /\ b.alive = peer.alive /\ b.state = peer.state
        /\ b.conn = peer.conn /\ b.delay = peer.delay /\ b.pending = peer.pending
    BY Zenon, <1>3, <2>3
  <2> HIDE DEF b
  <2>5. b.delay \/ b.state = "OpenSent"
    BY <2>3, <2>4 DEF Polling, PeerOK
  <2>6. CASE m # "Open" \/ open.localWins
    <3>1. q = DropPending(b)
      BY <2>6 DEF HandleConnPendingMsg
    <3> QED BY Zenon, <1>1, <2>3, <2>4, <3>1, DropPendingFacts DEF Good
  <2>7. CASE ~(m # "Open" \/ open.localWins)
    <3>1. q = AdoptPendingWithOpen(b, open) /\ open \in OpenMessages
      BY <2>7 DEF HandleConnPendingMsg, Payload
    <3>2. Good(AdoptPendingWithOpen(b, open), b)
      BY Zenon, <2>3, <2>4, <2>5, <3>1, AdoptPendingWithOpenFacts
    <3> QED BY Zenon, <1>1, <2>3, <2>4, <3>1, <3>2 DEF Good
  <2> QED BY <2>6, <2>7
<1>9. ASSUME NEW e \in PlainEvents, NEW io \in BOOLEAN, peer.alive,
             \/ End(TryProcessEvent(Begin(io, FALSE), e, NoPayload))
             \/ End(OrDisconnect(ProcessEvent(Begin(io, FALSE), e, NoPayload)))
      PROVE  Sound(peer')
  <2> DEFINE b == Begin(io, FALSE)
  <2>1. PeerOK(b) /\ ~b.err /\ b.alive = peer.alive
    BY Zenon, <1>3, <1>9
  <2>2. \/ End(TryProcessEvent(b, e, NoPayload))
        \/ End(OrDisconnect(ProcessEvent(b, e, NoPayload)))
    BY Zenon, <1>9
  <2> HIDE DEF b
  <2>3. Good(TryProcessEvent(b, e, NoPayload), b)
    BY <2>1, PlainFacts, Zenon
  <2>4. Good(OrDisconnect(ProcessEvent(b, e, NoPayload)), b)
    BY <2>1, PlainFacts, ProcessOrDisconnect
  <2> QED BY Zenon, <1>1, <1>9, <2>1, <2>2, <2>3, <2>4 DEF Good
<1>10. {"TcpConnectionFails", "IdleHoldTimerExpires", "HoldTimerExpires",
        "KeepaliveTimerExpires"} \subseteq PlainEvents
  BY DEF PlainEvents, Events, SendingEvents
<1>11. CASE Dial
  <2> SUFFICES Sound(peer')
    BY Zenon, <1>11 DEF Dial, Inv
  <2>1. CASE End(TryProcessEvent(Begin(TRUE, FALSE), "TcpConnectionFails", NoPayload))
    BY Zenon, <1>9, <1>10, <1>11, <2>1 DEF Dial
  <2>2. CASE \E io \in BOOLEAN : End(ConnectionReady(Attach(Begin(io, FALSE), "dialed")))
    <3>1. PICK io \in BOOLEAN : End(ConnectionReady(Attach(Begin(io, FALSE), "dialed")))
      BY Zenon, <2>2
    <3>2. peer.alive /\ PeerOK(peer) /\ ~peer.err /\ Torn(peer) /\ peer.state = "Connect"
      BY <1>2, <1>11 DEF Dial, Sleeping, PeerOK, Torn
    <3> DEFINE b == Begin(io, FALSE)
               a == Attach(b, "dialed")
    <3>3. Torn(b) /\ ~b.err /\ b.state = "Connect" /\ b.alive = peer.alive
      BY Zenon, <3>2, BeginFacts
    <3> HIDE DEF b
    <3>4. Good(a, b) /\ a.conn = "dialed" /\ ~a.delay /\ a.state = "Connect"
      BY <3>3, AttachFacts
    <3>5. End(ConnectionReady(a))
      BY Zenon, <3>1 DEF b
    <3> HIDE DEF a
    <3>6. Good(ConnectionReady(a), a)
      BY <3>4, ConnectionReadyFacts DEF Good
    <3> QED BY Zenon, <1>1, <3>2, <3>3, <3>4, <3>5, <3>6 DEF Good
  <2> QED BY Zenon, <1>11, <2>1, <2>2 DEF Dial
<1>12. CASE TimePasses
  BY <1>12 DEF TimePasses, Inv
<1>13. CASE ConnectRetry
  <2> SUFFICES Sound(peer')
    BY Zenon, <1>13 DEF ConnectRetry, Inv
  <2> DEFINE b == Begin(TRUE, FALSE)
  <2>1. /\ peer.alive /\ (peer.state = "Active" => peer.conn = "none")
        /\ End(TryProcessEvent(b, "ConnectRetryTimerExpires", NoPayload))
    BY Zenon, <1>13 DEF ConnectRetry, RetryDue, Sleeping
  <2>2. /\ PeerOK(b) /\ ~b.err /\ b.alive = peer.alive
        /\ b.state = "Active" => b.conn = "none"
    BY Zenon, <1>3, <2>1
  <2> HIDE DEF b
  <2>3. /\ Admissible(b, "ConnectRetryTimerExpires", NoPayload)
        /\ "ConnectRetryTimerExpires" \notin SendingEvents
    BY <2>2 DEF Admissible, Events, OpenEvents, SendingEvents
  <2> QED BY Zenon, <1>1, <2>1, <2>2, <2>3, TryFacts DEF Good
<1>14. CASE DelayOpenExpires
  <2> SUFFICES Sound(peer')
    BY Zenon, <1>14 DEF DelayOpenExpires, Inv
  <2>1. PICK io \in BOOLEAN :
          End(OrDisconnect(ProcessEvent(Begin(io, FALSE), "DelayOpenTimerExpires", NoPayload)))
    BY Zenon, <1>14 DEF DelayOpenExpires
  <2> DEFINE b == Begin(io, FALSE)
  <2>2. PeerOK(b) /\ ~b.err /\ b.alive = peer.alive /\ peer.alive
    BY Zenon, <1>3, <1>14 DEF DelayOpenExpires
  <2>3. End(OrDisconnect(ProcessEvent(b, "DelayOpenTimerExpires", NoPayload)))
    BY Zenon, <2>1
  <2> HIDE DEF b
  <2>4. Admissible(b, "DelayOpenTimerExpires", NoPayload)
    BY <2>2 DEF Admissible, Events, OpenEvents
  <2> QED BY Zenon, <1>1, <2>2, <2>3, <2>4, ProcessOrDisconnect DEF Good
<1>15. CASE IdleHoldExpires
  BY Zenon, <1>9, <1>10, <1>15 DEF IdleHoldExpires, Inv
<1>16. CASE HoldExpires
  BY Zenon, <1>9, <1>10, <1>16 DEF HoldExpires, Inv
<1>17. CASE KeepaliveExpires
  BY Zenon, <1>9, <1>10, <1>17 DEF KeepaliveExpires, Inv
<1>18. CASE FlushRoutes
  <2>1. peer.alive /\ End(FlushPendingRoutes(Begin(TRUE, FALSE)))
    BY Zenon, <1>18 DEF FlushRoutes
  <2>2. Good(FlushPendingRoutes(Begin(TRUE, FALSE)), peer)
    BY Zenon, <1>3, <2>1, FlushFacts DEF Good
  <2> QED BY Zenon, <1>1, <1>18, <2>1, <2>2 DEF FlushRoutes, Inv
<1>19. CASE RestartTimerExpires
  <2> SUFFICES Sound(peer')
    BY <1>19 DEF RestartTimerExpires, Inv
  <2> DEFINE b == Begin(TRUE, FALSE)
             c == [b EXCEPT !.grTimer = FALSE]
             q == Emit(c, ServerOp("GracefulRestartTimerExpired"))
  <2>1. End(q)
    BY <1>19 DEF RestartTimerExpires
  <2>2. CASE peer.alive
    <3>1. PeerOK(b) /\ ~b.err /\ b.alive = peer.alive
      BY Zenon, <1>3, <2>2
    <3> HIDE DEF b
    <3>2. PeerOK(c) /\ c.err = b.err /\ c.alive = b.alive
      BY <3>1 DEF PeerOK, InSessionState, PeerType, Fields
    <3> HIDE DEF c
    <3>3. Good(q, peer)
      BY <3>1, <3>2, ServerOpFacts DEF Good
    <3> QED BY <1>1, <2>1, <2>2, <3>3
  <2>3. CASE ~peer.alive
    <3>1. Dead(q)
      BY <2>3, DeadReports DEF Inv, Sound
    <3> QED BY <2>1, <3>1, EndFacts DEF Sound
  <2> QED BY <2>2, <2>3
<1>20. CASE ServerRemoves
  BY <1>20 DEF ServerRemoves, Inv
<1>21. CASE UNCHANGED vars
  BY <1>21 DEF vars, Inv
<1> QED BY <1>4, <1>5, <1>6, <1>7, <1>8, <1>11, <1>12, <1>13, <1>14, <1>15, <1>16, <1>17,
           <1>18, <1>19, <1>20, <1>21 DEF Next, TaskStep

-----------------------------------------------------------------------------
(* The theorems *)

\* The invariant of the peer task, for every configuration.
THEOREM InvHolds == Spec => []Inv
<1>1. Init => Inv
  BY InitSound
<1>2. Inv /\ [Next]_vars => Inv'
  BY NextSound
<1> QED BY <1>1, <1>2, PTL DEF Spec

\* The type invariant: whatever the handlers compose to, the task's record and
\* what it wrote and reported keep their types.
THEOREM TypeCorrect == Spec => []TypeOK
<1>1. Inv => TypeOK
  BY Zenon DEF Inv, Sound, PeerOK, Dead, TypeOK
<1> QED BY <1>1, InvHolds, PTL

\* conn_pending is occupied only while conn is a connection the task dialed and
\* no session is past OpenSent.
THEOREM CollisionWindowHolds == Spec => []CollisionWindow
<1>1. Inv => CollisionWindow
  BY Zenon DEF Inv, Sound, PeerOK, Dead, CollisionWindow
<1> QED BY <1>1, InvHolds, PTL

\* The two expect() of the DelayOpen waits never fail.
THEOREM DelayOpenHasConnectionHolds == Spec => []DelayOpenHasConnection
<1>1. Inv => DelayOpenHasConnection
  BY Zenon DEF Inv, Sound, PeerOK, Dead, DelayOpenHasConnection
<1> QED BY <1>1, InvHolds, PTL

\* Every path back to Idle released the connections, the timers and the session.
THEOREM IdleIsQuietHolds == Spec => []IdleIsQuiet
<1>1. Inv => IdleIsQuiet
  BY Zenon DEF Inv, Sound, PeerOK, Dead, IdleIsQuiet
<1> QED BY <1>1, InvHolds, PTL

\* Our OPEN went out on the connection that carries the session.
THEOREM SessionHasOpenHolds == Spec => []SessionHasOpen
<1>1. Inv => SessionHasOpen
  BY Zenon DEF Inv, Sound, PeerOK, Dead, InSession, InSessionState, SessionHasOpen
<1> QED BY <1>1, InvHolds, PTL

\* A session with a nonzero hold time is always guarded by the Hold timer, and
\* from OpenConfirm on by the Keepalive timer.
THEOREM SessionIsTimedHolds == Spec => []SessionIsTimed
<1>1. Inv => SessionIsTimed
  BY DEF Inv, Sound, PeerOK, Dead, InSession, InSessionState, SessionIsTimed
<1> QED BY <1>1, InvHolds, PTL

\* What the server has been told and what the task is agree whenever it waits.
THEOREM ServerAgreesHolds == Spec => []ServerAgrees
<1>1. Inv => ServerAgrees
  BY DEF Inv, Sound, PeerOK, Dead, Polling, ServerAgrees
<1> QED BY <1>1, InvHolds, PTL

\* A stopped peer stays in Idle until the server starts it: no timer, connection or
\* other operation takes it out (handle_idle_state, on_conn_accepted).
THEOREM StoppedStaysIdleHolds == Spec => StoppedStaysIdle
<1> DEFINE Stays == peer.stopped /\ peer.state = "Idle" /\ peer'.state # "Idle"
                      => peer'.op \in {"Start", "AutoStart"}
<1>1. Inv /\ [Next]_vars => [Stays]_vars
  <2> SUFFICES ASSUME Inv, Next, peer.stopped, peer.state = "Idle", peer'.state # "Idle"
               PROVE  peer'.op \in {"Start", "AutoStart"}
    OBVIOUS
  <2>1. PeerType(peer) /\ peer.conn = "none" /\ ~peer.pending
    BY DEF Inv, Sound, PeerOK, Dead
  <2>2. ASSUME NEW io \in BOOLEAN
        PROVE  LET b == Begin(io, FALSE) IN PeerType(b) /\ b.state = "Idle" /\ b.stopped
    <3>1. <<>> \in Seq(Sent) /\ <<>> \in Seq(Reports)
      OBVIOUS
    <3> QED BY <2>1, <3>1, ZenonT(60) DEF Begin, PeerType, Fields
  <2>3. ASSUME NEW q, PeerType(q), q.state = "Idle" PROVE ~End(q)
    BY <2>3, Zenon DEF End, PeerType, Fields
  <2>4. ASSUME NEW q, PeerType(q), q.state = "Idle" PROVE PeerType(Exit(q)) /\ Exit(q).state = "Idle"
    BY <2>4 DEF Exit, PeerType, Fields, Connections
  <2>5. CASE ReceiveOp
    <3>1. PICK op \in PeerOps, io \in BOOLEAN :
            End([HandleOp(Begin(io, FALSE), op) EXCEPT !.op = op])
      BY <2>5, Zenon DEF ReceiveOp, Queued, PeerOps
    <3> DEFINE b == Begin(io, FALSE)
    <3> DEFINE h == HandleOp(b, op)
    <3>2. PeerType(b) /\ b.state = "Idle" /\ b.stopped
      BY <2>2, Zenon
    <3> HIDE DEF b
    <3>3. CASE op \in {"Start", "AutoStart"}
      <4>1. PeerOK(Begin(io, FALSE)) /\ ~Begin(io, FALSE).err /\ Begin(io, FALSE).alive
        BY <2>5, BeginFacts, Zenon DEF ReceiveOp, Inv, Sound, Dead
      <4>2. Sound(h)
        BY <4>1, HandleOpFacts, Zenon DEF b
      <4>3. PeerType(h)
        BY <4>2 DEF Sound, PeerOK, Dead
      <4> HIDE DEF h
      <4>4. peer'.op = op
        BY <3>1, <4>3 DEF End, PeerType, Fields, h, b
      <4> QED BY <3>3, <4>4
    <3>4. CASE op \notin {"Start", "AutoStart"}
      <4>1. h = b \/ h = Exit(b)
        BY <3>2, <3>4, Zenon DEF HandleOp, IdleOp, OnConnAccepted
      <4> HIDE DEF h
      <4>2. PeerType(h) /\ h.state = "Idle"
        BY <2>4, <3>2, <4>1
      <4>3. PeerType([h EXCEPT !.op = op]) /\ [h EXCEPT !.op = op].state = "Idle"
        BY <4>2 DEF PeerType, Fields
      <4> QED BY <2>3, <3>1, <4>3, Zenon DEF h, b
    <3> QED BY <3>3, <3>4
  <2>6. CASE ReceiveClosed
    <3>1. PeerType(Exit(Begin(TRUE, FALSE))) /\ Exit(Begin(TRUE, FALSE)).state = "Idle"
      BY <2>2, <2>4, Zenon
    <3> QED BY <2>3, <2>6, <3>1, Zenon DEF ReceiveClosed
  <2>7. CASE RestartTimerExpires
    <3> DEFINE b == Begin(TRUE, FALSE)
    <3> DEFINE c == [b EXCEPT !.grTimer = FALSE]
    <3>1. PeerType(b) /\ b.state = "Idle"
      BY <2>2, Zenon
    <3> HIDE DEF b
    <3>2. PeerType(c) /\ c.state = "Idle"
      BY <3>1 DEF PeerType, Fields
    <3> HIDE DEF c
    <3>3. PeerType(Emit(c, ServerOp("GracefulRestartTimerExpired")))
      BY <3>2, EmitType, ReportTypes
    <3>4. Emit(c, ServerOp("GracefulRestartTimerExpired")).state = "Idle"
      BY <3>2 DEF Emit, PeerType, Fields
    <3> QED BY <2>3, <2>7, <3>3, <3>4 DEF RestartTimerExpires, b, c
  <2>8. CASE UNCHANGED peer
    BY <2>8
  <2>9. ~Settle /\ ~ReceiveMessage /\ ~ReceivePendingMessage /\ ~Dial /\ ~ConnectRetry
        /\ ~DelayOpenExpires /\ ~IdleHoldExpires /\ ~HoldExpires /\ ~KeepaliveExpires /\ ~FlushRoutes
    BY <2>1, Zenon DEF Settle, Polling, ReceiveMessage, ReceivePendingMessage, Dial, ConnectRetry, RetryDue,
                Sleeping, DelayOpenExpires, IdleHoldExpires, HoldExpires, KeepaliveExpires, FlushRoutes, InSession
  <2> QED BY <2>5, <2>6, <2>7, <2>8, <2>9 DEF Next, TaskStep, TimePasses, ServerRemoves
<1> QED BY <1>1, InvHolds, PTL DEF Spec, StoppedStaysIdle
=============================================================================
