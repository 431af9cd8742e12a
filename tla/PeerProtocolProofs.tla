------------------------- MODULE PeerProtocolProofs -------------------------
(***************************************************************************)
(* Module PeerTask implements SessionReports, for every configuration: the *)
(* reports the peer task sends follow the protocol the server relies on.   *)
(*                                                                         *)
(* The proof follows the call graph again, on top of the invariant of      *)
(* PeerTaskProofs.  A step begins with nothing said (Begun).  Ending the   *)
(* session says at most one Disconnected and leaves no connection          *)
(* (Ending), so that a second disconnect in the same step is silent; a     *)
(* transition that brings a session up says one thing before the new state *)
(* is reported (Shaken, Joined).  What a step has said when it is over is  *)
(* one of the protocol's scripts and allowed by what was said before       *)
(* (Done).                                                                 *)
(***************************************************************************)
EXTENDS PeerTaskProofs, MCPeerTask

-----------------------------------------------------------------------------
(* What a step has said, given what the server knew before it (t) *)

Begun(t, p) == p.out = <<>> /\ p.told = t

\* Only an established session is reported as one whose routes may stay.
Ended(t, p) ==
  \E g \in BOOLEAN : /\ p.out = <<Disconnected(g)>> /\ p.told = Unknown
                     /\ g => t.state = "Established"

Ending(t, p) == p.conn = "none" /\ (Begun(t, p) \/ Ended(t, p))

Shaken(t, p) ==
  /\ p.out = <<ServerOp("HandshakeComplete")>> /\ p.told = [t EXCEPT !.asn = TRUE]
  /\ ~p.err /\ p.state = "OpenConfirm" /\ t.state # "Established"

Joined(t, p) ==
  /\ p.out = <<ServerOp("ConnectionInfo")>> /\ p.told = [t EXCEPT !.info = TRUE]
  /\ ~p.err /\ p.state = "Established" /\ t.state # "Established"

Done(t, p) ==
  /\ p.out \in Protocol!Scripts
  /\ Protocol!IsAllowed(t, p.out)
  /\ p.told = Protocol!Says(t, p.out)

\* A disconnect would not claim to end an established session that was never
\* announced.
Calm(p) == p.state = "Established" /\ p.conn # "none" => p.told.state = "Established"

-----------------------------------------------------------------------------
(* The scripts *)

\* The task and the protocol learn the same from a report.
LEMMA LearnedIsLearn == \A t, op : Protocol!Learned(t, op) = Learn(t, op)
BY DEF Protocol!Learned, Learn, Protocol!Unknown, Unknown

\* Saying nothing is allowed.
LEMMA SayNothing ==
  ASSUME NEW t, NEW p, Begun(t, p)
  PROVE  Done(t, p)
BY DEF Begun, Done, Protocol!Scripts, Protocol!SessionScripts, Protocol!IsAllowed, Protocol!Says

\* One report.
LEMMA SayOne ==
  ASSUME NEW t, NEW p, NEW op, p.out = <<op>>, p.told = Learn(t, op),
         <<op>> \in Protocol!Scripts, Protocol!Allowed(t, op)
  PROVE  Done(t, p)
<1>1. Len(p.out) = 1 /\ p.out[1] = op
  OBVIOUS
<1> QED BY <1>1, LearnedIsLearn DEF Done, Protocol!IsAllowed, Protocol!Says

\* Two reports.
LEMMA SayTwo ==
  ASSUME NEW t, NEW p, NEW a, NEW b, p.out = <<a, b>>, p.told = Learn(Learn(t, a), b),
         <<a, b>> \in Protocol!Scripts,
         Protocol!Allowed(t, a), Protocol!Allowed(Learn(t, a), b)
  PROVE  Done(t, p)
<1>1. Len(p.out) = 2 /\ p.out[1] = a /\ p.out[2] = b
  OBVIOUS
<1> QED BY <1>1, LearnedIsLearn DEF Done, Protocol!IsAllowed, Protocol!Says

\* What a report adds to a step, and what it leaves alone.
LEMMA EmitAdds ==
  ASSUME NEW p, PeerType(p), NEW op
  PROVE  LET q == Emit(p, op)
         IN  /\ q.out = Append(p.out, op) /\ q.told = Learn(p.told, op)
             /\ q.state = p.state /\ q.conn = p.conn /\ q.err = p.err /\ q.alive = p.alive
BY DEF Emit, PeerType, Fields

\* The first report of a step.
LEMMA FirstReport ==
  ASSUME NEW t, NEW p, PeerType(p), Begun(t, p), NEW op
  PROVE  Emit(p, op).out = <<op>> /\ Emit(p, op).told = Learn(t, op)
<1>1. Append(<<>>, op) = <<op>>
  OBVIOUS
<1> QED BY <1>1, EmitAdds DEF Begun

\* The second report of a step.
LEMMA SecondReport ==
  ASSUME NEW p, PeerType(p), NEW a, p.out = <<a>>, NEW op
  PROVE  Emit(p, op).out = <<a, op>> /\ Emit(p, op).told = Learn(p.told, op)
<1> DEFINE s == Append(<<a>>, op)
<1>1. <<a>> \in Seq({a, op}) /\ op \in {a, op}
  OBVIOUS
<1>2. s \in Seq({a, op}) /\ Len(s) = 2 /\ s[1] = a /\ s[2] = op
  BY <1>1
<1>3. DOMAIN s = 1..2 /\ DOMAIN <<a, op>> = 1..2
  BY <1>2
<1>4. s = <<a, op>>
  <2> DEFINE u == <<a, op>>
  <2>1. u \in Seq({a, op}) /\ Len(u) = 2 /\ u[1] = a /\ u[2] = op
    OBVIOUS
  <2> HIDE DEF s, u
  <2>2. \A i \in 1..Len(s) : s[i] = u[i]
    BY <1>2, <2>1
  <2> QED BY <1>2, <2>1, <2>2 DEF u
<1> HIDE DEF s
<1> QED BY <1>4, EmitAdds, ZenonT(60) DEF s

\* Reports that are allowed in every session.
LEMMA QuietScripts ==
  ASSUME NEW t
  PROVE  /\ \A n \in {"RouteRefresh", "RouteRefreshBoRR", "RouteRefreshEoRR",
                      "GracefulRestartTimerExpired"} :
              <<ServerOp(n)>> \in Protocol!Scripts /\ Protocol!Allowed(t, ServerOp(n))
         /\ \A r \in SUBSET {"cur", "old"} :
              /\ <<RoutesUpdate(r)>> \in Protocol!Scripts
              /\ Protocol!Allowed(t, RoutesUpdate(r))
              /\ \A n \in {"RouteRefreshEoRR", "GracefulRestartComplete"} :
                   <<RoutesUpdate(r), ServerOp(n)>> \in Protocol!Scripts
         /\ t.state = "Established" => Protocol!Allowed(t, ServerOp("GracefulRestartComplete"))
<1>1. \A n \in {"RouteRefresh", "RouteRefreshBoRR", "RouteRefreshEoRR",
                "GracefulRestartTimerExpired"} :
        <<ServerOp(n)>> \in Protocol!Scripts /\ Protocol!Allowed(t, ServerOp(n))
  BY DEF Protocol!Scripts, Protocol!SessionScripts, Protocol!RouteScripts, Protocol!Op, Protocol!RefreshOps, Protocol!Allowed, ServerOp
<1>2. ASSUME NEW r \in SUBSET {"cur", "old"}
      PROVE  /\ <<RoutesUpdate(r)>> \in Protocol!Scripts
             /\ Protocol!Allowed(t, RoutesUpdate(r))
             /\ \A n \in {"RouteRefreshEoRR", "GracefulRestartComplete"} :
                  <<RoutesUpdate(r), ServerOp(n)>> \in Protocol!Scripts
  <2>1. <<RoutesUpdate(r)>> \in Protocol!Scripts
    BY DEF Protocol!Scripts, Protocol!SessionScripts, Protocol!RouteScripts, Protocol!Update, RoutesUpdate
  <2>2. Protocol!Allowed(t, RoutesUpdate(r))
    BY DEF Protocol!Allowed, RoutesUpdate
  <2>3. \A n \in {"RouteRefreshEoRR", "GracefulRestartComplete"} :
          <<RoutesUpdate(r), ServerOp(n)>> \in Protocol!Scripts
    <3> SUFFICES ASSUME NEW n \in {"RouteRefreshEoRR", "GracefulRestartComplete"}
                 PROVE  <<RoutesUpdate(r), ServerOp(n)>> \in Protocol!Scripts
      OBVIOUS
    <3>1. n \in Protocol!RefreshOps \cup {"GracefulRestartComplete"}
      BY DEF Protocol!RefreshOps
    <3> DEFINE x == <<RoutesUpdate(r), ServerOp(n)>>
    <3>2. x = <<Protocol!Update(r), Protocol!Op(n)>>
      BY DEF Protocol!Op, Protocol!Update, ServerOp, RoutesUpdate
    <3> HIDE DEF x
    <3>3. x \in Protocol!RouteScripts
      BY <3>1, <3>2 DEF Protocol!RouteScripts
    <3>4. x \in Protocol!Scripts
      BY <3>3 DEF Protocol!Scripts
    <3> QED BY <3>4 DEF x
  <2> QED BY <2>1, <2>2, <2>3
<1>3. t.state = "Established" => Protocol!Allowed(t, ServerOp("GracefulRestartComplete"))
  BY DEF Protocol!Allowed, ServerOp
<1> QED BY <1>1, <1>2, <1>3

\* Reports on the session.
LEMMA SessionScripts ==
  ASSUME NEW t
  PROVE  /\ \A s \in States :
              /\ <<StateChanged(s)>> \in Protocol!Scripts
              /\ (s = "Established" => t.asn) /\ (t.state = "Established" => s = "Established")
                   => Protocol!Allowed(t, StateChanged(s))
              /\ \A g \in BOOLEAN : s # "Established" =>
                   <<Disconnected(g), StateChanged(s)>> \in Protocol!Scripts
         /\ \A g \in BOOLEAN :
              /\ <<Disconnected(g)>> \in Protocol!Scripts
              /\ (g => t.state = "Established") => Protocol!Allowed(t, Disconnected(g))
         /\ \A n \in {"HandshakeComplete", "ConnectionInfo"} :
              t.state # "Established" => Protocol!Allowed(t, ServerOp(n))
         /\ <<ServerOp("HandshakeComplete")>> \in Protocol!Scripts
         /\ <<ServerOp("HandshakeComplete"), StateChanged("OpenConfirm")>> \in Protocol!Scripts
         /\ <<ServerOp("ConnectionInfo"), StateChanged("Established")>> \in Protocol!Scripts
<1>1. ASSUME NEW s \in States
      PROVE  /\ <<StateChanged(s)>> \in Protocol!Scripts
             /\ \A g \in BOOLEAN : s # "Established" =>
                   <<Disconnected(g), StateChanged(s)>> \in Protocol!Scripts
  BY DEF Protocol!Scripts, Protocol!SessionScripts, Protocol!RouteScripts, Protocol!States, Protocol!StateChanged, Protocol!Disconnected,
         States, StateChanged, Disconnected
<1>2. ASSUME NEW s \in States, s = "Established" => t.asn, t.state = "Established" => s = "Established"
      PROVE  Protocol!Allowed(t, StateChanged(s))
  BY <1>2 DEF Protocol!Allowed, StateChanged
<1>3. ASSUME NEW g \in BOOLEAN
      PROVE  /\ <<Disconnected(g)>> \in Protocol!Scripts
             /\ (g => t.state = "Established") => Protocol!Allowed(t, Disconnected(g))
  BY DEF Protocol!Scripts, Protocol!SessionScripts, Protocol!RouteScripts, Protocol!Disconnected, Protocol!Allowed, Disconnected
<1>4. \A n \in {"HandshakeComplete", "ConnectionInfo"} :
        t.state # "Established" => Protocol!Allowed(t, ServerOp(n))
  BY DEF Protocol!Allowed, ServerOp
<1>5. /\ <<ServerOp("HandshakeComplete")>> \in Protocol!Scripts
      /\ <<ServerOp("HandshakeComplete"), StateChanged("OpenConfirm")>> \in Protocol!Scripts
      /\ <<ServerOp("ConnectionInfo"), StateChanged("Established")>> \in Protocol!Scripts
  BY DEF Protocol!Scripts, Protocol!SessionScripts, Protocol!RouteScripts, Protocol!Op, Protocol!StateChanged, ServerOp, StateChanged
<1> QED BY <1>1, <1>2, <1>3, <1>4, <1>5

-----------------------------------------------------------------------------
(* The building blocks *)

\* A write or a change of another field says nothing.
Silent(p, q) == q.out = p.out /\ q.told = p.told

\* What is said is all that Begun, Ended and Done look at.
LEMMA SilentKeeps ==
  ASSUME NEW t, NEW p, NEW q, Silent(p, q)
  PROVE  /\ Begun(t, p) => Begun(t, q)
         /\ Ended(t, p) => Ended(t, q)
         /\ Done(t, p) => Done(t, q)
         /\ q.conn = p.conn /\ Ending(t, p) => Ending(t, q)
BY DEF Silent, Begun, Ended, Done, Ending

\* The result of a method says nothing by itself.
LEMMA ErrIsSilent ==
  ASSUME NEW p, PeerType(p), NEW b \in BOOLEAN
  PROVE  LET q == [p EXCEPT !.err = b]
         IN  Silent(p, q) /\ q.conn = p.conn /\ q.state = p.state
BY DEF Silent, PeerType, Fields

\* NOTIFICATIONs, OPENs and KEEPALIVEs go to the peer only.
LEMMA SendsAreSilent ==
  ASSUME NEW p, PeerType(p)
  PROVE  /\ Silent(p, SendNotification(p)) /\ Silent(p, SendOpen(p)) /\ Silent(p, SendKeepalive(p))
         /\ SendNotification(p).conn = p.conn /\ SendNotification(p).state = p.state
<1> DEFINE w(m) == Write(p, m)
<1>1. ASSUME NEW m
      PROVE  /\ Silent(p, w(m)) /\ DOMAIN w(m) = Fields
             /\ w(m).conn = p.conn /\ w(m).state = p.state
  BY DEF Silent, Write, PeerType, Fields
<1>2. Silent(p, Fail(p))
  BY ErrIsSilent, Zenon DEF Fail
<1>3. Silent(p, p)
  BY DEF Silent
<1>4. SendNotification(p) = p \/ SendNotification(p) = w("Notification")
  BY DEF SendNotification
<1>5. SendOpen(p) = Fail(p) \/ SendOpen(p) = [w("Open") EXCEPT !.opens = TRUE, !.sent = TRUE]
  BY DEF SendOpen
<1>6. \/ SendKeepalive(p) = Fail(p)
      \/ \E k : SendKeepalive(p) = [w("Keepalive") EXCEPT !.keep = k]
  BY Zenon DEF SendKeepalive
<1> HIDE DEF w
<1>7. Silent(p, [w("Open") EXCEPT !.opens = TRUE, !.sent = TRUE])
  BY <1>1 DEF Silent, Fields
<1>8. \A k : Silent(p, [w("Keepalive") EXCEPT !.keep = k])
  BY <1>1 DEF Silent, Fields
<1> QED BY <1>1, <1>2, <1>3, <1>4, <1>5, <1>6, <1>7, <1>8

\* What a step may end its session from.
Ready(t, p) == PeerType(p) /\ Begun(t, p) /\ Calm(p)

\* disconnect() reports the end of the connection, if there was one.
LEMMA DisconnectEnds ==
  ASSUME NEW t, NEW p, Ready(t, p), NEW damping \in BOOLEAN, NEW reason
  PROVE  Ending(t, Disconnect(p, damping, reason))
<1> DEFINE keeps == PreservesRoutes(p, reason)
           a == DropConnections(p)
           d == IF damping /\ reason # "Collision" /\ a.down < MaxDown
                  THEN a.down + 1 ELSE a.down
           g == IF keeps THEN "waiting" ELSE a.grState
           h == IF keeps THEN TRUE ELSE a.grTimer
           b == [a EXCEPT !.down = d, !.grState = g, !.grTimer = h]
           c == Emit(b, Disconnected(keeps))
<1>1. keeps \in BOOLEAN /\ (keeps => p.state = "Established")
  BY Zenon DEF PreservesRoutes
<1>2. Silent(p, a) /\ DOMAIN a = Fields /\ a.conn = "none"
  BY DEF Ready, DropConnections, PeerType, Fields, Silent
<1>3. Disconnect(p, damping, reason) = IF p.conn = "none" THEN a ELSE c
  BY DEF Disconnect
<1>4. CASE p.conn = "none"
  BY <1>2, <1>3, <1>4, SilentKeeps DEF Ending, Ready
<1>5. CASE p.conn # "none"
  <2>1. Disconnect(p, damping, reason) = c
    BY <1>3, <1>5
  <2> HIDE DEF a, d, g, h, keeps
  <2>2. Silent(p, b) /\ DOMAIN b = Fields /\ b.conn = "none"
    BY <1>2 DEF Silent, Fields
  <2> HIDE DEF b
  <2>3. b.out = <<>> /\ b.told = t
    BY <2>2 DEF Silent, Ready, Begun
  <2>4. c.out = <<Disconnected(keeps)>> /\ c.told = Learn(t, Disconnected(keeps)) /\ c.conn = "none"
    BY <2>2, <2>3 DEF Emit, Fields
  <2>5. Learn(t, Disconnected(keeps)) = Unknown
    BY DEF Learn, Disconnected
  <2>6. keeps => t.state = "Established"
    BY <1>1, <1>5 DEF Ready, Calm, Begun
  <2> HIDE DEF c
  <2>7. Ended(t, c)
    BY <1>1, <2>4, <2>5, <2>6 DEF Ended
  <2> QED BY <2>1, <2>4, <2>7 DEF Ending
<1> QED BY <1>4, <1>5

\* The ways to end a session.
Closes(q, n) ==
  \E r : \/ q = Teardown(n, r)
         \/ q = [Teardown(n, r) EXCEPT !.stopped = TRUE]
         \/ q = Teardown(SendNotification(n), r)
         \/ q = [Teardown(SendNotification(n), r) EXCEPT !.stopped = TRUE]
         \/ q = Fail(Teardown(SendNotification(n), r))
         \/ q = [Disconnect(n, TRUE, r) EXCEPT !.retry = TRUE]
         \/ q = [Disconnect(n, FALSE, r) EXCEPT !.retry = FALSE]
         \/ q = DropUnopened(n, r)
         \/ q = Fail(Disconnect(SendNotification(n), TRUE, r))

\* Each of them reports its end once.
LEMMA ClosesEnds ==
  ASSUME NEW t, NEW n, Ready(t, n), NEW q, Closes(q, n)
  PROVE  Ending(t, q)
<1> DEFINE E(x) == PeerType(x) /\ Ending(t, x)
<1> SUFFICES E(q)
  OBVIOUS
<1> PICK r :
           \/ q = Teardown(n, r)
           \/ q = [Teardown(n, r) EXCEPT !.stopped = TRUE]
           \/ q = Teardown(SendNotification(n), r)
           \/ q = [Teardown(SendNotification(n), r) EXCEPT !.stopped = TRUE]
           \/ q = Fail(Teardown(SendNotification(n), r))
           \/ q = [Disconnect(n, TRUE, r) EXCEPT !.retry = TRUE]
           \/ q = [Disconnect(n, FALSE, r) EXCEPT !.retry = FALSE]
           \/ q = DropUnopened(n, r)
           \/ q = Fail(Disconnect(SendNotification(n), TRUE, r))
  BY Zenon DEF Closes
<1>1. ASSUME NEW y, E(y)
      PROVE  /\ E(Fail(y)) /\ E([y EXCEPT !.stopped = TRUE])
             /\ E([y EXCEPT !.retry = TRUE]) /\ E([y EXCEPT !.retry = FALSE])
  <2>1. E(Fail(y))
    BY <1>1, ErrIsSilent, SilentKeeps, FailFacts, ZenonT(60) DEF Fail
  <2>2. ASSUME NEW b \in BOOLEAN PROVE E([y EXCEPT !.retry = b])
    <3>1. LET x == [y EXCEPT !.retry = b] IN PeerType(x) /\ Silent(y, x) /\ x.conn = y.conn
      BY <1>1 DEF PeerType, Fields, Silent
    <3> QED BY <1>1, <3>1, SilentKeeps, Zenon
  <2>3. E([y EXCEPT !.stopped = TRUE])
    <3>1. LET x == [y EXCEPT !.stopped = TRUE] IN PeerType(x) /\ Silent(y, x) /\ x.conn = y.conn
      BY <1>1 DEF PeerType, Fields, Silent
    <3> QED BY <1>1, <3>1, SilentKeeps, Zenon
  <2> QED BY <2>1, <2>2, <2>3, Zenon
<1>2. Ready(t, SendNotification(n))
  <2>1. PeerType(n) /\ Begun(t, n) /\ Calm(n)
    BY DEF Ready
  <2>2. PeerType(SendNotification(n))
    BY <2>1, SendNotificationFacts
  <2>3. /\ Silent(n, SendNotification(n)) /\ SendNotification(n).conn = n.conn
        /\ SendNotification(n).state = n.state
    BY <2>1, SendsAreSilent
  <2> QED BY <2>1, <2>2, <2>3, SilentKeeps DEF Ready, Calm, Silent
<1>3. /\ E(Disconnect(n, TRUE, r)) /\ E(Disconnect(n, FALSE, r))
      /\ E(Disconnect(SendNotification(n), TRUE, r))
  BY <1>2, DisconnectEnds, DisconnectFacts, Zenon DEF Ready
<1> HIDE DEF E
<1>4. E(Teardown(n, r)) /\ E(Teardown(SendNotification(n), r))
  BY Zenon, <1>1, <1>3 DEF Teardown
<1> QED BY Zenon, <1>1, <1>3, <1>4 DEF DropUnopened

\* enter_open_confirm() reports the handshake as the last thing it does.
LEMMA EnterOpenConfirmSays ==
  ASSUME NEW t, NEW p, Weak(p), ~p.err, Begun(t, p), NEW open \in OpenMessages,
         p.state = "OpenConfirm", ~p.pending, ~p.delay, p.sent, p.told.state # "Established"
  PROVE  LET q == EnterOpenConfirm(p, open)
         IN  Begun(t, q) \/ Shaken(t, q)
<1> DEFINE n == SendNotification(p)
           a == [p EXCEPT !.gr = open.gr, !.ht = open.hold]
           k == SendKeepalive(a)
           b == IF open.hold = "pos" THEN [k EXCEPT !.hold = TRUE]
                ELSE [k EXCEPT !.hold = FALSE, !.keep = FALSE]
           c == Emit(b, ServerOp("HandshakeComplete"))
<1>1. CASE ~open.ok
  <2>1. EnterOpenConfirm(p, open) = Fail(n)
    BY <1>1 DEF EnterOpenConfirm
  <2>2. PeerType(n) /\ Silent(p, n)
    BY SendNotificationFacts, SendsAreSilent DEF Weak
  <2> HIDE DEF n
  <2>3. Silent(n, Fail(n))
    BY <2>2, ErrIsSilent, Zenon DEF Fail
  <2>4. Begun(t, n)
    BY <2>2, SilentKeeps
  <2>5. Begun(t, Fail(n))
    BY <2>3, <2>4, SilentKeeps
  <2> QED BY <2>1, <2>5
<1>2. CASE open.ok
  <2>1. PeerType(a) /\ ~a.err /\ Silent(p, a)
    BY ZenonT(60) DEF Weak, PeerType, Fields, OpenMessages, Silent
  <2> HIDE DEF a
  <2>2. PeerType(k) /\ Silent(a, k)
    BY <2>1, SendKeepaliveFacts, SendsAreSilent
  <2>3. EnterOpenConfirm(p, open) = IF k.err THEN k ELSE c
    BY <1>2 DEF EnterOpenConfirm, a
  <2>4. Begun(t, k)
    BY <2>1, <2>2, SilentKeeps
  <2> HIDE DEF k
  <2>5. CASE k.err
    BY <2>3, <2>4, <2>5
  <2>6. CASE ~k.err
    <3>1. DOMAIN b = Fields /\ Silent(k, b)
      <4>1. \A x, y : LET z == [k EXCEPT !.hold = x, !.keep = y]
                          w == [k EXCEPT !.hold = x]
                      IN  DOMAIN z = Fields /\ Silent(k, z) /\ DOMAIN w = Fields /\ Silent(k, w)
        BY <2>2 DEF PeerType, Fields, Silent
      <4> QED BY <4>1, Zenon
    <3> HIDE DEF b
    <3>2. b.out = <<>> /\ b.told = t
      BY <2>4, <3>1 DEF Begun, Silent
    <3>3. c.out = <<ServerOp("HandshakeComplete")>> /\ c.told = Learn(t, ServerOp("HandshakeComplete"))
      BY <3>1, <3>2 DEF Emit, Fields
    <3>4. t \in Told /\ t.state # "Established"
      BY DEF Begun, Weak, PeerType
    <3>5. Learn(t, ServerOp("HandshakeComplete")) = [t EXCEPT !.asn = TRUE]
      BY <3>4, LearnFacts, Zenon
    <3>6. c.state = "OpenConfirm" /\ ~c.err
      <4>1. EnterOpenConfirm(p, open) = c
        BY <2>3, <2>6
      <4>2. c.err = b.err /\ b.err = k.err
        BY <2>2, <3>1 DEF Emit, Fields, PeerType, b
      <4> HIDE DEF c
      <4> QED BY <2>6, <4>1, <4>2, EnterOpenConfirmFacts
    <3> HIDE DEF c
    <3>7. Shaken(t, c)
      BY <3>3, <3>4, <3>5, <3>6 DEF Shaken
    <3> QED BY <2>3, <2>6, <3>7, Zenon
  <2> QED BY <2>5, <2>6
<1> QED BY <1>1, <1>2 DEF OpenMessages

\* Starting a session says nothing.
LEMMA StartSessionSays ==
  ASSUME NEW t, NEW p, PeerType(p), ~p.err, Begun(t, p)
  PROVE  Begun(t, StartSession(p)) /\ StartSession(p).state = p.state
<1> DEFINE a == [p EXCEPT !.ht = "pos", !.hold = TRUE]
<1>1. PeerType(a) /\ Silent(p, a) /\ ~a.err /\ a.state = p.state
  BY DEF PeerType, Fields, Silent
<1>2. StartSession(p) = SendOpen(a)
  BY DEF StartSession
<1> HIDE DEF a
<1>3. SendOpen(a).state = a.state
  BY <1>1, SendOpenFacts
<1>4. Begun(t, SendOpen(a))
  BY <1>1, SendsAreSilent, SilentKeeps
<1> QED BY <1>1, <1>2, <1>3, <1>4

\* Answering an OPEN that came before ours says no more than the handshake.
LEMMA AnswerDelayedOpenSays ==
  ASSUME NEW t, NEW p, Weak(p), ~p.err, Begun(t, p), NEW open \in OpenMessages,
         p.state = "OpenConfirm", ~p.pending, p.told.state # "Established"
  PROVE  LET q == AnswerDelayedOpen(p, open)
         IN  Begun(t, q) \/ Shaken(t, q)
<1> DEFINE a == [p EXCEPT !.retry = FALSE, !.delay = FALSE]
           b == SendOpen(a)
<1>1. PeerType(a) /\ a.told = p.told /\ a.conn = p.conn /\ a.state = p.state
      /\ a.alive = p.alive /\ ~a.err /\ ~a.pending /\ ~a.delay /\ Silent(p, a)
  BY DEF Weak, PeerType, Fields, Silent
<1> HIDE DEF a
<1>2. /\ PeerType(b) /\ b.state = a.state /\ b.alive = a.alive
      /\ b.conn = a.conn /\ b.told = a.told
      /\ b.delay = a.delay /\ b.pending = a.pending
      /\ ~b.err => b.conn # "none" /\ b.sent
  BY <1>1, SendOpenFacts
<1>3. AnswerDelayedOpen(p, open) = IF b.err THEN b ELSE EnterOpenConfirm(b, open)
  BY DEF AnswerDelayedOpen, a
<1>4. Begun(t, b)
  BY <1>1, SendsAreSilent, SilentKeeps
<1> HIDE DEF b
<1>5. Weak(b)
  BY <1>1, <1>2 DEF Weak
<1> QED BY <1>1, <1>2, <1>3, <1>4, <1>5, EnterOpenConfirmSays, Zenon

-----------------------------------------------------------------------------
(* One transition *)

\* What a transition from state `from` has said before the new state is reported.
Spoken(t, q, from, e) ==
  \/ Ending(t, q)
  \/ /\ e \notin NotificationEvents
     /\ \/ Begun(t, q) /\ (q.err => Calm(q))
        \/ Shaken(t, q)
        \/ Joined(t, q) /\ from # "Established"

\* What the callers of process_event guarantee, of what the step has said too.
Speaks(t, p, e, arg) == Admissible(p, e, arg) /\ Begun(t, p) /\ e # "AutomaticStop"

\* handle_event() says nothing.
LEMMA NewStateSays ==
  ASSUME NEW t, NEW p, PeerOK(p), Begun(t, p), NEW new \in States
  PROVE  LET n == [p EXCEPT !.state = new]
         IN  /\ PeerType(n) /\ Begun(t, n) /\ n.state = new /\ n.told.state = p.told.state
             /\ new # "Established" \/ new = p.state => Ready(t, n)
<1> DEFINE n == [p EXCEPT !.state = new]
<1>1. PeerType(n) /\ Silent(p, n) /\ n.state = new /\ n.conn = p.conn
  BY DEF PeerOK, PeerType, Fields, Silent
<1> HIDE DEF n
<1>2. Begun(t, n)
  BY <1>1, SilentKeeps
<1>3. new # "Established" \/ new = p.state => Calm(n)
  BY <1>1 DEF Calm, PeerOK, Silent
<1> QED BY <1>1, <1>2, <1>3, Zenon DEF Ready, Silent, n

\* Transitions from Idle.
LEMMA IdleSpoken ==
  ASSUME NEW t, NEW p, NEW e, NEW arg, Speaks(t, p, e, arg), p.state = "Idle",
         NEW new, new = FromIdle(e, Passive)
  PROVE  Spoken(t, IdleTransitions([p EXCEPT !.state = new]), "Idle", e)
<1> DEFINE n == [p EXCEPT !.state = new]
           x == IdleTransitions(n)
<1>1. new \in {"Idle", "Connect", "Active"}
  BY DEF FromIdle, StartState
<1>2. PeerType(n) /\ Silent(p, n) /\ n.conn = "none"
  BY <1>1 DEF Speaks, Admissible, PeerOK, PeerType, Fields, States, Silent
<1> HIDE DEF n
<1>3. Silent(n, x) /\ x.conn = n.conn
  BY <1>2 DEF IdleTransitions, PeerType, Fields, Silent
<1> HIDE DEF x
<1>4. Begun(t, n)
  BY <1>2, SilentKeeps DEF Speaks
<1>5. Begun(t, x)
  BY <1>3, <1>4, SilentKeeps
<1>6. Spoken(t, x, "Idle", e)
  BY <1>2, <1>3, <1>5 DEF Spoken, Ending
<1> QED BY <1>6 DEF x, n

\* Transitions from Connect.
LEMMA ConnectSpoken ==
  ASSUME NEW t, NEW p, NEW e, NEW arg, Speaks(t, p, e, arg), p.state = "Connect",
         NEW new, new = FromWaiting("Connect", e, Passive)
  PROVE  Spoken(t, ConnectTransitions([p EXCEPT !.state = new], e, arg), "Connect", e)
<1> DEFINE n == [p EXCEPT !.state = new]
<1> USE DEF StartEvents, PassiveStartEvents, NotificationEvents, MessageErrorEvents
<1>1. new \in {"Idle", "Connect", "Active", "OpenSent", "OpenConfirm"}
  BY DEF FromWaiting
<1>2. PeerOK(p) /\ ~p.err /\ Begun(t, p) /\ new \in States
  BY <1>1 DEF Speaks, Admissible, States
<1>3. /\ PeerType(n) /\ Begun(t, n) /\ Ready(t, n) /\ Weak(n) /\ ~n.err /\ n.state = new
      /\ n.told.state # "Established" /\ n.pending = p.pending
  <2>1. p.told.state # "Established"
    BY <1>2 DEF PeerOK
  <2> QED BY <1>1, <1>2, <2>1, NewStateSays, NewStateFacts
<1> SUFFICES Spoken(t, ConnectTransitions(n, e, arg), "Connect", e)
  OBVIOUS
<1> HIDE DEF n
<1>4. ASSUME NEW q, Silent(n, q), ~q.err, e \notin NotificationEvents
      PROVE  Spoken(t, q, "Connect", e)
  <2>1. Begun(t, q)
    BY <1>3, <1>4, SilentKeeps
  <2> QED BY <1>4, <2>1 DEF Spoken
<1>5. CASE e \in {"DelayOpenTimerExpires", "TcpConnectionConfirmed", "BgpOpenWithDelayOpenTimer"}
  <2>1. CASE e \in {"DelayOpenTimerExpires", "TcpConnectionConfirmed"}
    <3>1. PICK x \in {[n EXCEPT !.delay = FALSE], [n EXCEPT !.retry = FALSE]} :
            ConnectTransitions(n, e, arg) = StartSession(x)
      BY <2>1, Zenon DEF ConnectTransitions
    <3>2. new = "OpenSent"
      BY <2>1 DEF FromWaiting
    <3>3. PeerType(x) /\ Silent(n, x) /\ x.state = "OpenSent" /\ ~x.err
      <4>1. CASE x = [n EXCEPT !.delay = FALSE]
        BY <1>3, <3>2, <4>1 DEF PeerType, Fields, Silent
      <4>2. CASE x = [n EXCEPT !.retry = FALSE]
        BY <1>3, <3>2, <4>2 DEF PeerType, Fields, Silent
      <4> QED BY <3>1, <4>1, <4>2
    <3>4. Begun(t, StartSession(x)) /\ StartSession(x).state = "OpenSent"
      BY <1>3, <3>3, StartSessionSays, SilentKeeps, ZenonT(60)
    <3> QED BY <2>1, <3>1, <3>4 DEF Spoken, Calm
  <2>2. CASE e = "BgpOpenWithDelayOpenTimer"
    <3>1. /\ new = "OpenConfirm" /\ ConnectTransitions(n, e, arg) = AnswerDelayedOpen(n, arg)
          /\ ~n.pending /\ arg \in OpenMessages
      BY <1>3, <2>2 DEF FromWaiting, ConnectTransitions, Speaks, Admissible, OpenEvents
    <3>2. AnswerDelayedOpen(n, arg).state = "OpenConfirm"
      BY <1>3, <3>1, AnswerDelayedOpenFacts, ZenonT(60)
    <3> QED BY <1>3, <2>2, <3>1, <3>2, AnswerDelayedOpenSays DEF Spoken, Calm
  <2> QED BY <1>5, <2>1, <2>2
<1>6. CASE e \in {"BgpKeepaliveReceived", "BgpUpdateReceived"} \cup MessageErrorEvents
  <2>1. \/ ConnectTransitions(n, e, arg) = Teardown(SendNotification(n), "Quiet")
        \/ ConnectTransitions(n, e, arg) = Fail(Teardown(SendNotification(n), "Quiet"))
    BY Zenon, <1>6 DEF ConnectTransitions
  <2>2. Closes(ConnectTransitions(n, e, arg), n)
    BY Zenon, <2>1 DEF Closes
  <2> QED BY <1>3, <2>2, ClosesEnds DEF Spoken
<1>7. CASE e \in {"ManualStop"} \cup NotificationEvents
  <2>1. \/ ConnectTransitions(n, e, arg) = DropUnopened(n, arg)
        \/ ConnectTransitions(n, e, arg) = Teardown(n, arg)
        \/ ConnectTransitions(n, e, arg) = [Teardown(n, "Quiet") EXCEPT !.stopped = TRUE]
    BY Zenon, <1>7 DEF ConnectTransitions
  <2>2. Closes(ConnectTransitions(n, e, arg), n)
    BY Zenon, <2>1 DEF Closes
  <2> QED BY <1>3, <2>2, ClosesEnds DEF Spoken
<1>8. CASE e \in {"ConnectRetryTimerExpires", "TcpConnectionFails",
                  "HoldTimerExpires", "KeepaliveTimerExpires", "IdleHoldTimerExpires",
                  "BgpOpenReceived", "BgpUpdateMsgErr"}
  <2>1. \/ ConnectTransitions(n, e, arg) = [Disconnect(n, TRUE, "Quiet") EXCEPT !.retry = TRUE]
        \/ ConnectTransitions(n, e, arg) = Teardown(n, "Quiet")
    BY Zenon, <1>8 DEF ConnectTransitions
  <2>2. Closes(ConnectTransitions(n, e, arg), n)
    BY Zenon, <2>1 DEF Closes
  <2> QED BY <1>3, <2>2, ClosesEnds DEF Spoken
<1>10. CASE e \in StartEvents \cup PassiveStartEvents
  <2>1. ConnectTransitions(n, e, arg) = n /\ e \notin NotificationEvents
    BY Zenon, <1>10 DEF ConnectTransitions
  <2> QED BY <1>3, <1>4, <2>1 DEF Silent
<1> QED BY <1>5, <1>6, <1>7, <1>8, <1>10 DEF Speaks, Admissible, Events

\* Transitions from Active.
LEMMA ActiveSpoken ==
  ASSUME NEW t, NEW p, NEW e, NEW arg, Speaks(t, p, e, arg), p.state = "Active",
         NEW new, new = FromWaiting("Active", e, Passive)
  PROVE  Spoken(t, ActiveTransitions([p EXCEPT !.state = new], e, arg), "Active", e)
<1> DEFINE n == [p EXCEPT !.state = new]
<1> USE DEF StartEvents, PassiveStartEvents, NotificationEvents, MessageErrorEvents
<1>1. new \in {"Idle", "Connect", "Active", "OpenSent", "OpenConfirm"}
  BY DEF FromWaiting, StartState
<1>2. PeerOK(p) /\ ~p.err /\ Begun(t, p) /\ new \in States
  BY <1>1 DEF Speaks, Admissible, States
<1>3. /\ PeerType(n) /\ Begun(t, n) /\ Ready(t, n) /\ Weak(n) /\ ~n.err /\ n.state = new
      /\ n.told.state # "Established" /\ n.pending = p.pending
  <2>1. p.told.state # "Established"
    BY <1>2 DEF PeerOK
  <2> QED BY <1>1, <1>2, <2>1, NewStateSays, NewStateFacts
<1> SUFFICES Spoken(t, ActiveTransitions(n, e, arg), "Active", e)
  OBVIOUS
<1> HIDE DEF n
<1>4. ASSUME NEW q, Silent(n, q), ~q.err, e \notin NotificationEvents
      PROVE  Spoken(t, q, "Active", e)
  <2>1. Begun(t, q)
    BY <1>3, <1>4, SilentKeeps
  <2> QED BY <1>4, <2>1 DEF Spoken
<1>5. CASE e \in {"DelayOpenTimerExpires", "TcpConnectionConfirmed", "BgpOpenWithDelayOpenTimer"}
  <2>1. CASE e \in {"DelayOpenTimerExpires", "TcpConnectionConfirmed"}
    <3>1. PICK x \in {[n EXCEPT !.delay = FALSE, !.retry = FALSE], [n EXCEPT !.retry = FALSE]} :
            ActiveTransitions(n, e, arg) = StartSession(x)
      BY <2>1, Zenon DEF ActiveTransitions
    <3>2. new = "OpenSent"
      BY <2>1 DEF FromWaiting
    <3>3. PeerType(x) /\ Silent(n, x) /\ x.state = "OpenSent" /\ ~x.err
      <4>1. CASE x = [n EXCEPT !.delay = FALSE, !.retry = FALSE]
        BY <1>3, <3>2, <4>1 DEF PeerType, Fields, Silent
      <4>2. CASE x = [n EXCEPT !.retry = FALSE]
        BY <1>3, <3>2, <4>2 DEF PeerType, Fields, Silent
      <4> QED BY <3>1, <4>1, <4>2
    <3>4. Begun(t, StartSession(x)) /\ StartSession(x).state = "OpenSent"
      BY <1>3, <3>3, StartSessionSays, SilentKeeps, ZenonT(60)
    <3> QED BY <2>1, <3>1, <3>4 DEF Spoken, Calm
  <2>2. CASE e = "BgpOpenWithDelayOpenTimer"
    <3>1. /\ new = "OpenConfirm" /\ ActiveTransitions(n, e, arg) = AnswerDelayedOpen(n, arg)
          /\ ~n.pending /\ arg \in OpenMessages
      BY <1>3, <2>2, Zenon DEF FromWaiting, ActiveTransitions, Speaks, Admissible, OpenEvents
    <3>2. AnswerDelayedOpen(n, arg).state = "OpenConfirm"
      BY <1>3, <3>1, AnswerDelayedOpenFacts, ZenonT(60)
    <3> QED BY <1>3, <2>2, <3>1, <3>2, AnswerDelayedOpenSays DEF Spoken, Calm
  <2> QED BY <1>5, <2>1, <2>2
<1>6. CASE e \in {"BgpKeepaliveReceived", "BgpUpdateReceived"} \cup MessageErrorEvents
  <2>1. \/ ActiveTransitions(n, e, arg) = Teardown(SendNotification(n), "Quiet")
        \/ ActiveTransitions(n, e, arg) = Fail(Teardown(SendNotification(n), "Quiet"))
    BY Zenon, <1>6 DEF ActiveTransitions
  <2>2. Closes(ActiveTransitions(n, e, arg), n)
    BY Zenon, <2>1 DEF Closes
  <2> QED BY <1>3, <2>2, ClosesEnds DEF Spoken
<1>7. CASE e \in {"ManualStop"} \cup NotificationEvents
  <2>1. \/ ActiveTransitions(n, e, arg) = DropUnopened(n, arg)
        \/ ActiveTransitions(n, e, arg) = Teardown(n, arg)
        \/ ActiveTransitions(n, e, arg) = [Teardown(n, "Quiet") EXCEPT !.stopped = TRUE]
        \/ ActiveTransitions(n, e, arg) =
             [Teardown(SendNotification(n), "Quiet") EXCEPT !.stopped = TRUE]
    <3>1. n.delay \in BOOLEAN /\ NotifWithoutOpen \in BOOLEAN
      BY <1>3, ConfigAssumption DEF PeerType
    <3> QED BY Zenon, <1>7, <3>1 DEF ActiveTransitions
  <2>2. Closes(ActiveTransitions(n, e, arg), n)
    BY Zenon, <2>1 DEF Closes
  <2> QED BY <1>3, <2>2, ClosesEnds DEF Spoken
<1>8. CASE e \in {"TcpConnectionFails",
                  "HoldTimerExpires", "KeepaliveTimerExpires", "IdleHoldTimerExpires",
                  "BgpOpenReceived", "BgpUpdateMsgErr"}
  <2>1. \/ ActiveTransitions(n, e, arg) = [Disconnect(n, TRUE, "Quiet") EXCEPT !.retry = TRUE]
        \/ ActiveTransitions(n, e, arg) = Teardown(n, "Quiet")
    BY Zenon, <1>8 DEF ActiveTransitions
  <2>2. Closes(ActiveTransitions(n, e, arg), n)
    BY Zenon, <2>1 DEF Closes
  <2> QED BY <1>3, <2>2, ClosesEnds DEF Spoken
<1>9. CASE e = "ConnectRetryTimerExpires"
  <2> DEFINE b == IF n.state = "Connect" THEN TRUE ELSE n.retry
             x == [n EXCEPT !.retry = b]
  <2>1. ActiveTransitions(n, e, arg) = x
    BY <1>9 DEF ActiveTransitions
  <2>2. Silent(n, x) /\ x.err = n.err
    <3> HIDE DEF b
    <3> QED BY <1>3 DEF PeerType, Fields, Silent
  <2> HIDE DEF x
  <2> QED BY <1>3, <1>4, <1>9, <2>1, <2>2, ZenonT(60)
<1>10. CASE e \in StartEvents \cup PassiveStartEvents
  <2>1. ActiveTransitions(n, e, arg) = n /\ e \notin NotificationEvents
    BY Zenon, <1>10 DEF ActiveTransitions
  <2> QED BY <1>3, <1>4, <2>1 DEF Silent
<1> QED BY <1>5, <1>6, <1>7, <1>8, <1>9, <1>10, Zenon DEF Speaks, Admissible, Events

\* Transitions from OpenSent.
LEMMA OpenSentSpoken ==
  ASSUME NEW t, NEW p, NEW e, NEW arg, Speaks(t, p, e, arg), p.state = "OpenSent",
         NEW new, new = FromOpenSent(e)
  PROVE  Spoken(t, OpenSentTransitions([p EXCEPT !.state = new], e, arg), "OpenSent", e)
<1> DEFINE n == [p EXCEPT !.state = new]
<1> USE DEF StartEvents, PassiveStartEvents, NotificationEvents, MessageErrorEvents
<1>1. new \in {"Idle", "Active", "OpenSent", "OpenConfirm"}
  BY DEF FromOpenSent
<1>2. PeerOK(p) /\ ~p.err /\ Begun(t, p) /\ new \in States
  BY <1>1 DEF Speaks, Admissible, States
<1>3. /\ PeerType(n) /\ Begun(t, n) /\ Ready(t, n) /\ Weak(n) /\ ~n.err /\ n.state = new
      /\ n.told.state # "Established" /\ n.pending = p.pending /\ n.conn = p.conn
      /\ n.conn # "none" => n.sent
  <2>1. p.told.state # "Established" /\ (p.conn # "none" => p.sent)
    BY <1>2 DEF PeerOK, InSessionState
  <2> QED BY <1>1, <1>2, <2>1, NewStateSays, NewStateFacts
<1> SUFFICES Spoken(t, OpenSentTransitions(n, e, arg), "OpenSent", e)
  OBVIOUS
<1> HIDE DEF n
<1>4. CASE e \in OpenEvents
  <2> DEFINE x == [n EXCEPT !.delay = FALSE, !.retry = FALSE]
             q == EnterOpenConfirm(x, arg)
  <2>1. /\ new = "OpenConfirm" /\ OpenSentTransitions(n, e, arg) = q
        /\ ~n.pending /\ arg \in OpenMessages /\ n.conn # "none"
    BY <1>3, <1>4, Zenon DEF FromOpenSent, OpenSentTransitions, Speaks, Admissible, OpenEvents
  <2>2. /\ Weak(x) /\ x.state = "OpenConfirm" /\ ~x.err /\ ~x.delay /\ Silent(n, x)
        /\ ~x.pending /\ x.sent /\ x.told.state # "Established"
    BY <1>3, <2>1 DEF Weak, PeerType, Fields, Silent
  <2> HIDE DEF x
  <2>3. Begun(t, x)
    BY <1>3, <2>2, SilentKeeps, Zenon
  <2>4. q.state = "OpenConfirm"
    BY <2>1, <2>2, EnterOpenConfirmFacts, Zenon
  <2>5. Begun(t, q) \/ Shaken(t, q)
    BY <2>1, <2>2, <2>3, EnterOpenConfirmSays
  <2> HIDE DEF q
  <2>6. e \notin NotificationEvents
    BY <1>4 DEF OpenEvents
  <2> QED BY <2>1, <2>4, <2>5, <2>6, ZenonT(60) DEF Spoken, Calm
<1>5. CASE e \in StartEvents \cup PassiveStartEvents \cup {"TcpConnectionConfirmed"}
  <2>1. OpenSentTransitions(n, e, arg) = n /\ e \notin NotificationEvents
    BY Zenon, <1>5 DEF OpenSentTransitions
  <2> QED BY <1>3, <2>1 DEF Spoken
<1>6. CASE e \in {"ManualStop", "HoldTimerExpires"} \cup MessageErrorEvents
  <2>1. \/ OpenSentTransitions(n, e, arg) =
             [Teardown(SendNotification(n), "Quiet") EXCEPT !.stopped = TRUE]
        \/ OpenSentTransitions(n, e, arg) = Teardown(SendNotification(n), "Quiet")
    BY Zenon, <1>6 DEF OpenSentTransitions
  <2>2. Closes(OpenSentTransitions(n, e, arg), n)
    BY Zenon, <2>1 DEF Closes
  <2> QED BY <1>3, <2>2, ClosesEnds DEF Spoken
<1>7. CASE e \in {"TcpConnectionFails"} \cup NotificationEvents
  <2>1. \/ OpenSentTransitions(n, e, arg) = [Disconnect(n, TRUE, "Quiet") EXCEPT !.retry = TRUE]
        \/ OpenSentTransitions(n, e, arg) = [Disconnect(n, FALSE, arg) EXCEPT !.retry = FALSE]
        \/ OpenSentTransitions(n, e, arg) = Teardown(SendNotification(n), arg)
    BY Zenon, <1>7 DEF OpenSentTransitions
  <2>2. Closes(OpenSentTransitions(n, e, arg), n)
    BY Zenon, <2>1 DEF Closes
  <2> QED BY <1>3, <2>2, ClosesEnds DEF Spoken
<1>8. CASE e \in {"ConnectRetryTimerExpires", "KeepaliveTimerExpires", "DelayOpenTimerExpires",
                  "IdleHoldTimerExpires", "BgpKeepaliveReceived", "BgpUpdateReceived",
                  "BgpUpdateMsgErr"}
  <2>1. \/ OpenSentTransitions(n, e, arg) = Fail(Teardown(SendNotification(n), "Quiet"))
        \/ OpenSentTransitions(n, e, arg) = Fail(Disconnect(SendNotification(n), TRUE, "Quiet"))
    BY Zenon, <1>8 DEF OpenSentTransitions
  <2>2. Closes(OpenSentTransitions(n, e, arg), n)
    BY Zenon, <2>1 DEF Closes
  <2> QED BY <1>3, <2>2, ClosesEnds DEF Spoken
<1> QED BY <1>4, <1>5, <1>6, <1>7, <1>8, Zenon DEF Speaks, Admissible, Events, OpenEvents

\* A KEEPALIVE that cannot be sent says nothing.
LEMMA KeepaliveSays ==
  ASSUME NEW t, NEW n, Ready(t, n), ~n.err
  PROVE  Begun(t, SendKeepalive(n)) /\ Calm(SendKeepalive(n))
<1>1. PeerType(n) /\ Begun(t, n) /\ Calm(n)
  BY DEF Ready
<1>2. Begun(t, SendKeepalive(n))
  BY <1>1, SendsAreSilent, SilentKeeps, Zenon
<1>3. /\ SendKeepalive(n).state = n.state /\ SendKeepalive(n).conn = n.conn
      /\ SendKeepalive(n).told = n.told
  BY <1>1, SendKeepaliveFacts
<1> QED BY <1>1, <1>2, <1>3 DEF Calm

\* Transitions from OpenConfirm.
LEMMA OpenConfirmSpoken ==
  ASSUME NEW t, NEW p, NEW e, NEW arg, Speaks(t, p, e, arg), p.state = "OpenConfirm",
         NEW new, new = FromOpenConfirm(e)
  PROVE  Spoken(t, OpenConfirmTransitions([p EXCEPT !.state = new], e, arg), "OpenConfirm", e)
<1> DEFINE n == [p EXCEPT !.state = new]
<1> USE DEF StartEvents, PassiveStartEvents, NotificationEvents, MessageErrorEvents
<1>1. /\ new \in {"Idle", "OpenConfirm", "Established"}
      /\ new = "Established" => e = "BgpKeepaliveReceived"
  BY DEF FromOpenConfirm
<1>2. PeerOK(p) /\ ~p.err /\ Begun(t, p) /\ new \in States
  BY <1>1 DEF Speaks, Admissible, States
<1>3. /\ PeerType(n) /\ Begun(t, n) /\ ~n.err /\ n.state = new /\ t.state # "Established"
      /\ e # "BgpKeepaliveReceived" => Ready(t, n)
  <2>1. p.told.state # "Established"
    BY <1>2 DEF PeerOK
  <2> QED BY <1>1, <1>2, <2>1, NewStateSays, NewStateFacts, SMTT(60) DEF Begun
<1> SUFFICES Spoken(t, OpenConfirmTransitions(n, e, arg), "OpenConfirm", e)
  OBVIOUS
<1> HIDE DEF n
<1>4. CASE e = "BgpKeepaliveReceived"
  <2> DEFINE x == [n EXCEPT !.hold = TRUE, !.est = TRUE]
             y == Emit(x, ServerOp("ConnectionInfo"))
  <2>1. new = "Established" /\ OpenConfirmTransitions(n, e, arg) = ReportConnection(x)
    BY <1>4, Zenon DEF FromOpenConfirm, OpenConfirmTransitions
  <2>2. PeerType(x) /\ Silent(n, x) /\ ~x.err /\ x.state = "Established"
    BY <1>3, <2>1 DEF PeerType, Fields, Silent
  <2> HIDE DEF x
  <2>3. Begun(t, x)
    BY <1>3, <2>2, SilentKeeps
  <2>4. ReportConnection(x) = x \/ ReportConnection(x) = y
    BY DEF ReportConnection
  <2>5. Joined(t, y)
    <3>1. y.out = <<ServerOp("ConnectionInfo")>> /\ y.told = Learn(t, ServerOp("ConnectionInfo"))
      BY <2>2, <2>3, FirstReport
    <3>2. Learn(t, ServerOp("ConnectionInfo")) = [t EXCEPT !.info = TRUE]
      BY Zenon, <2>2, <2>3, LearnFacts DEF PeerType, Begun
    <3>3. ~y.err /\ y.state = "Established"
      BY <2>2, EmitAdds
    <3> QED BY <1>3, <3>1, <3>2, <3>3, Zenon DEF Joined
  <2> HIDE DEF y
  <2> QED BY <1>4, <2>1, <2>2, <2>3, <2>4, <2>5, ZenonT(60) DEF Spoken
<1>5. CASE e = "KeepaliveTimerExpires"
  <2>1. OpenConfirmTransitions(n, e, arg) = SendKeepalive(n)
    BY <1>5 DEF OpenConfirmTransitions
  <2> QED BY <1>3, <1>5, <2>1, KeepaliveSays, Zenon DEF Spoken
<1>6. CASE e \in StartEvents \cup PassiveStartEvents
                  \cup {"BgpOpenReceived", "TcpConnectionConfirmed"}
  <2>1. OpenConfirmTransitions(n, e, arg) = n /\ e \notin NotificationEvents
    BY Zenon, <1>6 DEF OpenConfirmTransitions
  <2> QED BY <1>3, <2>1 DEF Spoken
<1>7. CASE e \in {"ManualStop", "HoldTimerExpires"} \cup MessageErrorEvents
  <2>1. \/ OpenConfirmTransitions(n, e, arg) =
             [Teardown(SendNotification(n), "Notification") EXCEPT !.stopped = TRUE]
        \/ OpenConfirmTransitions(n, e, arg) = Teardown(SendNotification(n), "Notification")
    BY Zenon, <1>7 DEF OpenConfirmTransitions, NotifyAndTeardown
  <2>2. Closes(OpenConfirmTransitions(n, e, arg), n)
    BY Zenon, <2>1 DEF Closes
  <2> QED BY <1>3, <1>7, <2>2, ClosesEnds, ZenonT(60) DEF Spoken
<1>8. CASE e \in {"TcpConnectionFails"} \cup NotificationEvents
  <2>1. \/ OpenConfirmTransitions(n, e, arg) = Teardown(n, "Quiet")
        \/ OpenConfirmTransitions(n, e, arg) = [Disconnect(n, FALSE, arg) EXCEPT !.retry = FALSE]
        \/ OpenConfirmTransitions(n, e, arg) = Teardown(n, arg)
    BY Zenon, <1>8 DEF OpenConfirmTransitions
  <2>2. Closes(OpenConfirmTransitions(n, e, arg), n)
    BY Zenon, <2>1 DEF Closes
  <2> QED BY <1>3, <1>8, <2>2, ClosesEnds, ZenonT(60) DEF Spoken
<1>9. CASE e \in {"ConnectRetryTimerExpires", "DelayOpenTimerExpires", "IdleHoldTimerExpires",
                  "BgpOpenWithDelayOpenTimer", "BgpUpdateReceived", "BgpUpdateMsgErr"}
  <2>1. OpenConfirmTransitions(n, e, arg) = Fail(Teardown(SendNotification(n), "Notification"))
    BY <1>9 DEF OpenConfirmTransitions, NotifyAndTeardown
  <2>2. Closes(OpenConfirmTransitions(n, e, arg), n)
    BY Zenon, <2>1 DEF Closes
  <2> QED BY <1>3, <1>9, <2>2, ClosesEnds, ZenonT(60) DEF Spoken
<1> QED BY <1>4, <1>5, <1>6, <1>7, <1>8, <1>9, ZenonT(60) DEF Speaks, Admissible, Events

\* Transitions from Established.
LEMMA EstablishedSpoken ==
  ASSUME NEW t, NEW p, NEW e, NEW arg, Speaks(t, p, e, arg), p.state = "Established",
         NEW gr, NEW new, new = FromEstablished(e, gr)
  PROVE  Spoken(t, EstablishedTransitions([p EXCEPT !.state = new], e, arg), "Established", e)
<1> DEFINE n == [p EXCEPT !.state = new]
<1> USE DEF StartEvents, PassiveStartEvents, NotificationEvents, MessageErrorEvents
<1>1. new \in {"Idle", "Connect", "Established"}
  BY DEF FromEstablished
<1>2. PeerOK(p) /\ ~p.err /\ Begun(t, p) /\ new \in States
  BY <1>1 DEF Speaks, Admissible, States
<1>3. PeerType(n) /\ Begun(t, n) /\ Ready(t, n) /\ ~n.err
  BY <1>1, <1>2, NewStateSays, NewStateFacts
<1> SUFFICES Spoken(t, EstablishedTransitions(n, e, arg), "Established", e)
  OBVIOUS
<1> HIDE DEF n
<1>4. CASE e \in {"BgpKeepaliveReceived", "BgpUpdateReceived"}
  <2> DEFINE h == IF n.ht = "pos" THEN TRUE ELSE n.hold
             d == IF n.est /\ n.stable THEN 0 ELSE n.down
             x == [n EXCEPT !.hold = h, !.down = d]
  <2>1. EstablishedTransitions(n, e, arg) = x
    BY <1>4 DEF EstablishedTransitions
  <2> HIDE DEF h, d
  <2>2. Silent(n, x) /\ ~x.err
    BY <1>3 DEF PeerType, Fields, Silent
  <2> HIDE DEF x
  <2>3. Begun(t, x)
    BY <1>3, <2>2, SilentKeeps
  <2> QED BY <1>4, <2>1, <2>2, <2>3, ZenonT(60) DEF Spoken
<1>5. CASE e = "KeepaliveTimerExpires"
  <2>1. EstablishedTransitions(n, e, arg) = SendKeepalive(n)
    BY <1>5 DEF EstablishedTransitions
  <2> QED BY <1>3, <1>5, <2>1, KeepaliveSays DEF Spoken
<1>6. CASE e \in StartEvents \cup PassiveStartEvents \cup {"BgpOpenReceived", "TcpConnectionConfirmed"}
  <2>1. EstablishedTransitions(n, e, arg) = n /\ e \notin NotificationEvents
    BY Zenon, <1>6 DEF EstablishedTransitions
  <2> QED BY <1>3, <2>1 DEF Spoken
<1>7. CASE e \in {"ManualStop", "HoldTimerExpires"}
  <2>1. \/ EstablishedTransitions(n, e, arg) =
             [Teardown(SendNotification(n), "Notification") EXCEPT !.stopped = TRUE]
        \/ EstablishedTransitions(n, e, arg) = Teardown(SendNotification(n), "Notification")
    BY <1>7 DEF EstablishedTransitions, NotifyAndTeardown
  <2>2. Closes(EstablishedTransitions(n, e, arg), n)
    BY Zenon, <2>1 DEF Closes
  <2> QED BY <1>3, <2>2, ClosesEnds DEF Spoken
<1>8. CASE e \in {"TcpConnectionFails"} \cup NotificationEvents
  <2>1. \/ EstablishedTransitions(n, e, arg) = Teardown(n, "Quiet")
        \/ EstablishedTransitions(n, e, arg) = Teardown(n, arg)
    BY <1>8, Zenon DEF EstablishedTransitions
  <2>2. Closes(EstablishedTransitions(n, e, arg), n)
    BY Zenon, <2>1 DEF Closes
  <2> QED BY <1>3, <2>2, ClosesEnds DEF Spoken
<1>9. CASE e \in {"ConnectRetryTimerExpires", "DelayOpenTimerExpires", "IdleHoldTimerExpires",
                  "BgpOpenWithDelayOpenTimer", "BgpUpdateMsgErr"} \cup MessageErrorEvents
  <2>1. EstablishedTransitions(n, e, arg) = Fail(Teardown(SendNotification(n), "Notification"))
    BY <1>9 DEF EstablishedTransitions, NotifyAndTeardown
  <2>2. Closes(EstablishedTransitions(n, e, arg), n)
    BY Zenon, <2>1 DEF Closes
  <2> QED BY <1>3, <2>2, ClosesEnds DEF Spoken
<1> QED BY <1>4, <1>5, <1>6, <1>7, <1>8, <1>9 DEF Speaks, Admissible, Events

\* A session that ended is reported in full.
LEMMA EndingIsDone ==
  ASSUME NEW t, NEW q, Ending(t, q)
  PROVE  Done(t, q)
<1>1. CASE Begun(t, q)
  BY <1>1, SayNothing, Zenon
<1>2. CASE Ended(t, q)
  <2>1. PICK g \in BOOLEAN : /\ q.out = <<Disconnected(g)>> /\ q.told = Unknown
                             /\ g => t.state = "Established"
    BY <1>2 DEF Ended
  <2>2. Learn(t, Disconnected(g)) = Unknown
    BY DEF Learn, Disconnected
  <2> QED BY <2>1, <2>2, SayOne, SessionScripts
<1> QED BY <1>1, <1>2 DEF Ending

\* The report of the new state completes what the transition said.
LEMMA AnnounceSays ==
  ASSUME NEW t \in Told, NEW x, NEW from, NEW e, Spoken(t, x, from, e), PeerType(x),
         Fresh(x) \/ (Torn(x) /\ x.state # "Established")
  PROVE  Done(t, Emit(x, StateChanged(x.state)))
<1> DEFINE s == x.state
           q == Emit(x, StateChanged(s))
<1>1. /\ s \in States /\ x.told \in Told /\ x.told.state # "Established"
      /\ s = "Established" => x.told.asn /\ x.conn # "none"
  BY ZenonT(60) DEF PeerType, Fresh, Torn
<1>2. CASE Begun(t, x)
  <2>1. q.out = <<StateChanged(s)>> /\ q.told = Learn(t, StateChanged(s))
    BY <1>2, FirstReport
  <2>2. x.told = t
    BY <1>2, Zenon DEF Begun
  <2> HIDE DEF q, s
  <2> QED BY <1>1, <2>1, <2>2, SayOne, SessionScripts, ZenonT(60) DEF q, s
<1>3. CASE Ended(t, x) /\ x.conn = "none"
  <2>1. PICK g \in BOOLEAN : /\ x.out = <<Disconnected(g)>> /\ x.told = Unknown
                             /\ g => t.state = "Established"
    BY <1>3 DEF Ended
  <2>2. Learn(t, Disconnected(g)) = Unknown
    BY DEF Learn, Disconnected
  <2>3. q.out = <<Disconnected(g), StateChanged(s)>> /\ q.told = Learn(Unknown, StateChanged(s))
    BY <2>1, SecondReport
  <2> HIDE DEF q, s
  <2>4. s # "Established"
    BY <1>1, <1>3
  <2>5. Protocol!Allowed(t, Disconnected(g)) /\ Protocol!Allowed(Unknown, StateChanged(s))
    BY <1>1, <2>1, <2>4, SessionScripts, Zenon
  <2>6. <<Disconnected(g), StateChanged(s)>> \in Protocol!Scripts
    BY <1>1, <2>4, SessionScripts, Zenon
  <2> QED BY <2>2, <2>3, <2>5, <2>6, SayTwo, ZenonT(60) DEF q, s
<1>4. CASE Shaken(t, x)
  <2> DEFINE h == ServerOp("HandshakeComplete")
  <2>1. x.out = <<h>> /\ x.told = [t EXCEPT !.asn = TRUE] /\ s = "OpenConfirm" /\ t.state # "Established"
    BY <1>4 DEF Shaken
  <2>2. Learn(t, h) = x.told
    BY <2>1, LearnFacts, Zenon
  <2>3. q.out = <<h, StateChanged(s)>> /\ q.told = Learn(x.told, StateChanged(s))
    BY <2>1, SecondReport
  <2>4. Protocol!Allowed(t, h) /\ <<h, StateChanged(s)>> \in Protocol!Scripts
    BY <2>1, SessionScripts
  <2> HIDE DEF q, s, h
  <2>5. Protocol!Allowed(x.told, StateChanged(s))
    BY <1>1, <2>1, SessionScripts, Zenon
  <2> QED BY <2>2, <2>3, <2>4, <2>5, SayTwo DEF q, s
<1>5. CASE Joined(t, x)
  <2> DEFINE h == ServerOp("ConnectionInfo")
  <2>1. x.out = <<h>> /\ x.told = [t EXCEPT !.info = TRUE] /\ s = "Established" /\ t.state # "Established"
    BY <1>5 DEF Joined
  <2>2. Learn(t, h) = x.told
    BY <2>1, LearnFacts, Zenon
  <2>3. q.out = <<h, StateChanged(s)>> /\ q.told = Learn(x.told, StateChanged(s))
    BY <2>1, SecondReport
  <2>4. Protocol!Allowed(t, h) /\ <<h, StateChanged(s)>> \in Protocol!Scripts
    BY <2>1, SessionScripts
  <2> HIDE DEF q, s, h
  <2>5. Protocol!Allowed(x.told, StateChanged(s))
    BY <1>1, <2>1, SessionScripts, Zenon
  <2> QED BY <2>2, <2>3, <2>4, <2>5, SayTwo DEF q, s
<1> QED BY <1>2, <1>3, <1>4, <1>5, Zenon DEF Spoken, Ending

\* What a method has said when it returns: a script of the protocol, and after an
\* error nothing that a disconnect of the caller would contradict.
Reported(t, q) ==
  /\ Done(t, q)
  /\ q.err => q.conn = "none" \/ (Begun(t, q) /\ Calm(q))

\* process_event() reports by the protocol, from any state.
LEMMA ProcessEventReports ==
  ASSUME NEW t, NEW p, NEW e, NEW arg, Speaks(t, p, e, arg)
  PROVE  LET q == ProcessEvent(p, e, arg)
         IN  Reported(t, q) /\ (e \in NotificationEvents => q.conn = "none")
<1> DEFINE new == HandleEvent(p.state, e, Passive, p.gr # "none")
           n   == [p EXCEPT !.state = new]
           x   == CASE p.state = "Idle"        -> IdleTransitions(n)
                    [] p.state = "Connect"     -> ConnectTransitions(n, e, arg)
                    [] p.state = "Active"      -> ActiveTransitions(n, e, arg)
                    [] p.state = "OpenSent"    -> OpenSentTransitions(n, e, arg)
                    [] p.state = "OpenConfirm" -> OpenConfirmTransitions(n, e, arg)
                    [] p.state = "Established" -> EstablishedTransitions(n, e, arg)
           q   == ProcessEvent(p, e, arg)
<1>1. p.state \in States /\ Admissible(p, e, arg) /\ t \in Told
  BY Zenon DEF Speaks, Begun, Admissible, PeerOK, PeerType
<1>2. Handled(x, p, new, e) /\ Spoken(t, x, p.state, e)
  <2>1. CASE p.state = "Idle"
    BY <1>1, <2>1, IdleHandled, IdleSpoken DEF HandleEvent
  <2>2. CASE p.state = "Connect"
    BY <1>1, <2>2, ConnectHandled, ConnectSpoken DEF HandleEvent
  <2>3. CASE p.state = "Active"
    BY <1>1, <2>3, ActiveHandled, ActiveSpoken DEF HandleEvent
  <2>4. CASE p.state = "OpenSent"
    BY <1>1, <2>4, OpenSentHandled, OpenSentSpoken DEF HandleEvent
  <2>5. CASE p.state = "OpenConfirm"
    BY <1>1, <2>5, OpenConfirmHandled, OpenConfirmSpoken DEF HandleEvent
  <2>6. CASE p.state = "Established"
    BY <1>1, <2>6, EstablishedHandled, EstablishedSpoken DEF HandleEvent
  <2> QED BY <1>1, <2>1, <2>2, <2>3, <2>4, <2>5, <2>6, ZenonT(60) DEF States
<1>3. q = IF x.err \/ new = p.state THEN x ELSE Emit(x, StateChanged(x.state))
  BY DEF ProcessEvent, Transition, ReportState
<1> HIDE DEF x, new, q
<1>4. e \in NotificationEvents => x.conn = "none"
  BY <1>2 DEF Spoken, Ending
<1>5. CASE x.err \/ new = p.state
  <2>1. ~(Joined(t, x) /\ p.state # "Established")
    BY <1>2, <1>5 DEF Joined, Handled
  <2>2. CASE Ending(t, x)
    BY <1>3, <1>4, <1>5, <2>2, EndingIsDone, Zenon DEF Reported, Ending, q
  <2>3. CASE Begun(t, x) /\ (x.err => Calm(x))
    BY <1>3, <1>4, <1>5, <2>3, SayNothing, ZenonT(60) DEF Reported, q
  <2>4. CASE Shaken(t, x)
    <3>1. Learn(t, ServerOp("HandshakeComplete")) = x.told
      BY <1>1, <2>4, LearnFacts, Zenon DEF Shaken
    <3>2. Done(t, x)
      BY <2>4, <3>1, SayOne, SessionScripts, Zenon DEF Shaken
    <3>3. ~x.err
      BY <2>4 DEF Shaken
    <3> QED BY <1>3, <1>4, <1>5, <3>2, <3>3 DEF Reported, q
  <2> QED BY <1>2, <2>1, <2>2, <2>3, <2>4, Zenon DEF Spoken
<1>6. CASE ~x.err /\ new # p.state
  <2>1. PeerType(x) /\ (Fresh(x) \/ (Torn(x) /\ x.state # "Established"))
    BY <1>2, <1>6 DEF Handled, Weak
  <2>2. q = Emit(x, StateChanged(x.state))
    BY <1>3, <1>6, Zenon
  <2>3. q.err = x.err /\ q.conn = x.conn
    BY <2>1, <2>2, EmitAdds
  <2>4. Done(t, q)
    BY <1>1, <1>2, <2>1, <2>2, AnnounceSays, Zenon
  <2> QED BY <1>4, <1>6, <2>3, <2>4, ZenonT(60) DEF Reported, q
<1> QED BY <1>5, <1>6, Zenon

-----------------------------------------------------------------------------
(* The callers of process_event *)

\* The task as a handler finds it.
Starts(t, p) == PeerOK(p) /\ ~p.err /\ Begun(t, p)

\* A handler may be called on an unchanged connection that replaced another.
LEMMA StartsKeeps ==
  ASSUME NEW t, NEW p, Begun(t, p), NEW q, PeerOK(q), ~q.err, Silent(p, q)
  PROVE  Starts(t, q)
BY SilentKeeps DEF Starts

\* disconnect() without a connection says nothing.
LEMMA NothingToDisconnect ==
  ASSUME NEW p, PeerType(p), p.conn = "none", NEW damping, NEW reason
  PROVE  Silent(p, Disconnect(p, damping, reason))
<1>1. Disconnect(p, damping, reason) = DropConnections(p)
  BY DEF Disconnect
<1> QED BY <1>1 DEF DropConnections, PeerType, Fields, Silent

\* A caller that disconnects on an error reports the end of the session at most once.
LEMMA OrDisconnectReports ==
  ASSUME NEW t, NEW p, PeerType(p), Reported(t, p)
  PROVE  Done(t, OrDisconnect(p))
<1> DEFINE d == Disconnect(p, TRUE, "Quiet")
<1>1. CASE ~p.err
  BY <1>1 DEF OrDisconnect, Reported
<1>2. CASE p.err
  <2>1. OrDisconnect(p) = [d EXCEPT !.err = FALSE]
    BY <1>2 DEF OrDisconnect
  <2>2. PeerType(d)
    BY DisconnectFacts, Zenon
  <2>3. Done(t, d)
    <3>1. CASE p.conn = "none"
      <4>1. Silent(p, d)
        BY <3>1, NothingToDisconnect, Zenon
      <4> QED BY <4>1, SilentKeeps, Zenon DEF Reported
    <3>2. CASE Begun(t, p) /\ Calm(p)
      <4>1. Ending(t, d)
        BY <3>2, DisconnectEnds, Zenon DEF Ready
      <4> QED BY <4>1, EndingIsDone, Zenon
    <3> QED BY <1>2, <3>1, <3>2, Zenon DEF Reported
  <2> HIDE DEF d
  <2>4. Silent(d, [d EXCEPT !.err = FALSE])
    BY <2>2, ErrIsSilent, Zenon
  <2> QED BY <2>1, <2>3, <2>4, SilentKeeps
<1> QED BY <1>1, <1>2

\* process_event(), with the error turned into a disconnect or dropped.
LEMMA EventReports ==
  ASSUME NEW t, NEW p, NEW e, NEW arg, Speaks(t, p, e, arg)
  PROVE  /\ Done(t, OrDisconnect(ProcessEvent(p, e, arg)))
         /\ Done(t, TryProcessEvent(p, e, arg))
         /\ e \in NotificationEvents => TryProcessEvent(p, e, arg).conn = "none"
<1> DEFINE q == ProcessEvent(p, e, arg)
<1>1. Reported(t, q) /\ (e \in NotificationEvents => q.conn = "none")
  BY ProcessEventReports, Zenon
<1>2. PeerType(q)
  BY ProcessEventFacts DEF Speaks, Processed, Weak
<1>3. TryProcessEvent(p, e, arg) = [q EXCEPT !.err = FALSE]
  BY DEF TryProcessEvent
<1> HIDE DEF q
<1>4. Silent(q, [q EXCEPT !.err = FALSE]) /\ [q EXCEPT !.err = FALSE].conn = q.conn
  BY <1>2, ErrIsSilent, Zenon
<1>5. Done(t, [q EXCEPT !.err = FALSE])
  BY <1>1, <1>4, SilentKeeps DEF Reported
<1>6. Done(t, OrDisconnect(q))
  BY <1>1, <1>2, OrDisconnectReports
<1> QED BY <1>1, <1>3, <1>4, <1>5, <1>6, Zenon DEF q

\* Events that any state admits.
LEMMA PlainSpeaks ==
  ASSUME NEW t, NEW p, Starts(t, p), NEW e \in PlainEvents \ {"AutomaticStop"}, NEW arg
  PROVE  Speaks(t, p, e, arg)
BY PlainFacts DEF Starts, Speaks

\* connection_ready() reports by the protocol.
LEMMA ConnectionReadyReports ==
  ASSUME NEW t, NEW p, Starts(t, p), p.state \in {"Connect", "Active"}, p.conn # "none", ~p.delay
  PROVE  Done(t, ConnectionReady(p))
<1> DEFINE q == [p EXCEPT !.retry = FALSE]
<1>1. PeerOK(p) /\ ~p.err /\ Begun(t, p) /\ PeerType(p)
  BY Zenon DEF Starts, PeerOK
<1>2. /\ PeerOK(q) /\ ~q.err /\ q.state = p.state /\ q.conn # "none" /\ ~q.delay /\ Silent(p, q)
  BY <1>1 DEF PeerOK, InSessionState, PeerType, Fields, Silent
<1>3. ConnectionReady(p) = IF DelayOpen THEN [q EXCEPT !.delay = TRUE]
                           ELSE OrDisconnect(ProcessEvent(q, "TcpConnectionConfirmed", NoPayload))
  BY DEF ConnectionReady
<1> HIDE DEF q
<1>4. Begun(t, q)
  BY <1>1, <1>2, SilentKeeps, Zenon
<1>5. CASE DelayOpen
  <2>1. Silent(q, [q EXCEPT !.delay = TRUE])
    BY <1>2, Zenon DEF PeerOK, PeerType, Fields, Silent
  <2> QED BY <1>3, <1>4, <1>5, <2>1, SilentKeeps, SayNothing, ZenonT(60)
<1>6. CASE ~DelayOpen
  <2>1. Speaks(t, q, "TcpConnectionConfirmed", NoPayload)
    BY <1>2, <1>4, Zenon DEF Speaks, Admissible, Events, OpenEvents
  <2> QED BY <1>3, <1>6, <2>1, EventReports, Zenon
<1> QED BY <1>5, <1>6, Zenon

\* process_delay_open() reports by the protocol.
LEMMA ProcessDelayOpenReports ==
  ASSUME NEW t, NEW p, Starts(t, p), p.conn # "none", ~p.pending, NEW open \in OpenMessages
  PROVE  Done(t, ProcessDelayOpen(p, open))
<1> DEFINE q == [p EXCEPT !.delay = FALSE]
<1>1. PeerOK(p) /\ ~p.err /\ Begun(t, p) /\ PeerType(p)
  BY DEF Starts, PeerOK
<1>2. PeerOK(q) /\ ~q.err /\ q.conn # "none" /\ ~q.pending /\ Silent(p, q)
  BY <1>1 DEF PeerOK, InSessionState, PeerType, Fields, Silent
<1>3. ProcessDelayOpen(p, open) =
        OrDisconnect(ProcessEvent(q, "BgpOpenWithDelayOpenTimer", open))
  BY DEF ProcessDelayOpen
<1> HIDE DEF q
<1>4. Begun(t, q)
  BY <1>1, <1>2, SilentKeeps, Zenon
<1>5. Speaks(t, q, "BgpOpenWithDelayOpenTimer", open)
  BY <1>2, <1>4, Zenon DEF Speaks, Admissible, Events, OpenEvents
<1> QED BY <1>3, <1>5, EventReports, Zenon

\* The connection of a collision takes over without a report.
LEMMA ReplaceSays ==
  ASSUME NEW t, NEW p, Starts(t, p), p.pending
  PROVE  LET q == ReplaceConnWithPending(p)
         IN  /\ Begun(t, q)
             /\ p.delay => Starts(t, q) /\ Starts(t, [q EXCEPT !.delay = FALSE])
<1> DEFINE q == ReplaceConnWithPending(p)
           d == [q EXCEPT !.delay = FALSE]
<1>1. PeerOK(p) /\ ~p.err /\ Begun(t, p) /\ PeerType(p)
  BY DEF Starts, PeerOK
<1>2. Silent(p, q)
  BY <1>1 DEF ReplaceConnWithPending, PeerType, Fields, Silent
<1>3. PeerType(q) /\ ~q.err /\ (p.delay => PeerOK(q) /\ PeerOK(d))
  BY <1>1, ReplaceFacts DEF Weak
<1> HIDE DEF q
<1>4. Silent(q, d) /\ ~d.err
  BY <1>3 DEF PeerType, Fields, Silent
<1> HIDE DEF d
<1>5. Begun(t, q)
  BY <1>1, <1>2, SilentKeeps
<1>6. Begun(t, d)
  BY <1>4, <1>5, SilentKeeps
<1> QED BY <1>3, <1>4, <1>5, <1>6, Zenon DEF Starts, q, d

\* The OPEN on the connection that replaced another in OpenSent.
LEMMA ReopenReports ==
  ASSUME NEW t, NEW p, Starts(t, p), p.pending, p.state = "OpenSent"
  PROVE  LET r == SendOpen(ReplaceConnWithPending(p))
         IN  Begun(t, r) /\ Done(t, OrDisconnect(r))
<1> DEFINE q == ReplaceConnWithPending(p)
           r == SendOpen(q)
<1>1. PeerOK(p) /\ ~p.err
  BY DEF Starts
<1>2. PeerType(q) /\ Begun(t, q)
  BY <1>1, ReplaceFacts, ReplaceSays, Zenon DEF Weak
<1>3. Weak(r) /\ r.state = "OpenSent"
  BY <1>1, ReopenFacts
<1> HIDE DEF q
<1>4. Begun(t, r)
  BY <1>2, SendsAreSilent, SilentKeeps, Zenon
<1> HIDE DEF r
<1>5. Reported(t, r) /\ PeerType(r)
  BY <1>3, <1>4, SayNothing DEF Reported, Calm, Weak
<1>6. Done(t, OrDisconnect(r))
  BY <1>5, OrDisconnectReports
<1> QED BY <1>4, <1>6 DEF r, q

\* promote_pending_after_conn_loss() reports by the protocol.
LEMMA PromotePendingReports ==
  ASSUME NEW t, NEW p, Starts(t, p), p.pending, p.delay \/ p.state = "OpenSent"
  PROVE  Done(t, PromotePending(p))
<1> DEFINE q == ReplaceConnWithPending(p)
           d == [q EXCEPT !.delay = FALSE]
<1>1. CASE p.delay
  <2>1. PromotePending(p) = ConnectionReady(d)
    BY <1>1 DEF PromotePending
  <2>2. PeerOK(p) /\ ~p.err
    BY DEF Starts
  <2>3. PeerType(q) /\ q.state = p.state /\ q.conn = "accepted"
    BY <2>2, ReplaceFacts, Zenon DEF Weak
  <2>4. Starts(t, d)
    BY <1>1, ReplaceSays, Zenon
  <2> HIDE DEF q
  <2>5. d.state \in {"Connect", "Active"} /\ d.conn # "none" /\ ~d.delay
    BY <1>1, <2>2, <2>3, ZenonT(60) DEF PeerOK, PeerType, Fields
  <2> HIDE DEF d
  <2> QED BY <2>1, <2>4, <2>5, ConnectionReadyReports, Zenon
<1>2. CASE ~p.delay
  <2>1. PromotePending(p) = OrDisconnect(SendOpen(q))
    BY <1>2 DEF PromotePending
  <2> QED BY <1>2, <2>1, ReopenReports
<1> QED BY <1>1, <1>2

\* A NOTIFICATION changes nothing a handler starts from.
LEMMA NotifiedStarts ==
  ASSUME NEW t, NEW p, Starts(t, p)
  PROVE  LET n == SendNotification(p)
         IN  Starts(t, n) /\ n.state = p.state /\ n.pending = p.pending
<1>1. PeerOK(p) /\ ~p.err /\ Begun(t, p) /\ PeerType(p)
  BY DEF Starts, PeerOK
<1>2. LET n == SendNotification(p)
      IN  PeerOK(n) /\ ~n.err /\ Silent(p, n) /\ n.state = p.state /\ n.pending = p.pending
  BY <1>1, SendNotificationFacts, SendsAreSilent, Zenon
<1> QED BY <1>1, <1>2, SilentKeeps, Zenon DEF Starts

\* adopt_pending_after_collision_loss() reports by the protocol.
LEMMA AdoptPendingReports ==
  ASSUME NEW t, NEW p, Starts(t, p), p.pending, p.delay \/ p.state = "OpenSent"
  PROVE  Done(t, AdoptPending(p))
<1>1. CASE p.delay
  <2>1. AdoptPending(p) = PromotePending(p)
    BY <1>1 DEF AdoptPending, PromotePending
  <2> QED BY <2>1, PromotePendingReports
<1>2. CASE ~p.delay
  <2>1. AdoptPending(p) = OrDisconnect(SendOpen(ReplaceConnWithPending(SendNotification(p))))
    BY <1>2 DEF AdoptPending
  <2> QED BY <1>2, <2>1, NotifiedStarts, ReopenReports
<1> QED BY <1>1, <1>2

\* So it does when the OPEN came on the pending connection.
LEMMA AdoptPendingWithOpenReports ==
  ASSUME NEW t, NEW p, Starts(t, p), p.pending, p.delay \/ p.state = "OpenSent",
         NEW open \in OpenMessages
  PROVE  Done(t, AdoptPendingWithOpen(p, open))
<1>1. CASE p.delay
  <2>1. AdoptPendingWithOpen(p, open) = ProcessDelayOpen(ReplaceConnWithPending(p), open)
    BY <1>1 DEF AdoptPendingWithOpen
  <2>2. LET q == ReplaceConnWithPending(p)
        IN  Starts(t, q) /\ q.conn # "none" /\ ~q.pending
    BY <1>1, ReplaceFacts, ReplaceSays, Zenon DEF Starts
  <2> QED BY <2>1, <2>2, ProcessDelayOpenReports, Zenon
<1>2. CASE ~p.delay
  <2> DEFINE n == SendNotification(p)
             r == SendOpen(ReplaceConnWithPending(n))
  <2>1. AdoptPendingWithOpen(p, open) =
          IF r.err THEN OrDisconnect(r) ELSE OrDisconnect(ProcessEvent(r, "BgpOpenReceived", open))
    BY <1>2 DEF AdoptPendingWithOpen
  <2>2. Starts(t, n) /\ n.pending /\ n.state = "OpenSent"
    BY <1>2, NotifiedStarts
  <2> HIDE DEF n
  <2>3. Begun(t, r) /\ Done(t, OrDisconnect(r))
    BY <2>2, ReopenReports
  <2>4. (PeerOK(r) \/ r.err) /\ (~r.err => r.conn # "none" /\ ~r.pending)
    BY <2>2, ReopenFacts DEF Starts
  <2> HIDE DEF r
  <2>5. CASE r.err
    BY <2>1, <2>3, <2>5, Zenon
  <2>6. CASE ~r.err
    <3>1. Speaks(t, r, "BgpOpenReceived", open)
      BY <2>3, <2>4, <2>6, Zenon DEF Speaks, Admissible, Events, OpenEvents
    <3> QED BY <2>1, <2>6, <3>1, EventReports, Zenon
  <2> QED BY <2>5, <2>6
<1> QED BY <1>1, <1>2

\* Giving up the pending connection says nothing.
LEMMA DropPendingStarts ==
  ASSUME NEW t, NEW p, Starts(t, p)
  PROVE  Starts(t, DropPending(p))
<1>1. PeerOK(p) /\ ~p.err /\ Begun(t, p) /\ PeerType(p)
  BY DEF Starts, PeerOK
<1>2. Silent(p, DropPending(p))
  BY <1>1 DEF DropPending, PeerType, Fields, Silent
<1> QED BY <1>1, <1>2, DropPendingFacts, SilentKeeps, Zenon DEF Starts, Good

\* A connection accepted in Idle: one report of the new state.
LEMMA AcceptedInIdleReports ==
  ASSUME NEW t, NEW p, Starts(t, p), p.state = "Idle",
         NEW e \in {"AutomaticStart", "AutomaticStartPassive"}
  PROVE  Done(t, TryProcessEvent(Attach(p, "accepted"), e, NoPayload))
<1> DEFINE new == IF e = "AutomaticStart" THEN "Connect" ELSE "Active"
           q == Attach(p, "accepted")
           n == [q EXCEPT !.state = new]
           x == [n EXCEPT !.retry = TRUE]
           y == Emit(x, StateChanged(new))
<1>1. PeerOK(p) /\ ~p.err /\ Begun(t, p)
  BY Zenon DEF Starts
<1>2. PeerType(q) /\ q.state = "Idle" /\ ~q.err /\ Silent(p, q)
  BY <1>1 DEF Attach, PeerOK, PeerType, Fields, Connections, Silent
<1>3. new \in {"Connect", "Active"} /\ new \in States
  BY DEF States
<1>4. HandleEvent("Idle", e, Passive, q.gr # "none") = new
  BY DEF HandleEvent, FromIdle, StartEvents, PassiveStartEvents
<1> HIDE DEF q, new
<1>5. PeerType(n) /\ n.state = new /\ ~n.err /\ Silent(q, n)
  BY <1>2, <1>3 DEF PeerType, Fields, Silent
<1>6. IdleTransitions(n) = x
  BY <1>3, <1>5 DEF IdleTransitions
<1>7. n = [q EXCEPT !.state = new]
  OBVIOUS
<1> HIDE DEF n
<1>8. PeerType(x) /\ x.state = new /\ ~x.err /\ Silent(n, x)
  BY <1>5 DEF PeerType, Fields, Silent
<1>9. ProcessEvent(q, e, NoPayload) = y
  <2>1. new # q.state
    BY <1>2, <1>3
  <2> HIDE DEF x
  <2> QED BY <1>2, <1>4, <1>6, <1>7, <1>8, <2>1, ZenonT(60) DEF ProcessEvent, Transition, ReportState
<1> HIDE DEF x
<1>10. Begun(t, x)
  BY <1>1, <1>2, <1>5, <1>8 DEF Silent, Begun
<1>11. y.out = <<StateChanged(new)>> /\ y.told = Learn(t, StateChanged(new)) /\ PeerType(y)
  BY <1>3, <1>8, <1>10, FirstReport, EmitType, ReportTypes, Zenon
<1>12. t.state # "Established"
  BY <1>1, Zenon DEF PeerOK, Begun
<1> HIDE DEF y
<1>13. Done(t, y)
  BY <1>3, <1>11, <1>12, SayOne, SessionScripts, Zenon
<1>14. Silent(y, [y EXCEPT !.err = FALSE])
  BY <1>11, ErrIsSilent, Zenon
<1> QED BY <1>9, <1>13, <1>14, SilentKeeps, Zenon DEF TryProcessEvent, q

\* A connection accepted in Established: the end of the session, and Connect.
LEMMA AcceptedInEstablishedReports ==
  ASSUME NEW t, NEW p, Starts(t, p), p.state = "Established", p.gr # "none"
  PROVE  Done(t, Attach(TryProcessEvent(Disconnect(p, FALSE, "Quiet"),
                                        "TcpConnectionConfirmed", NoPayload), "accepted"))
<1> DEFINE d == Disconnect(p, FALSE, "Quiet")
           n == [d EXCEPT !.state = "Connect"]
           y == Emit(n, StateChanged("Connect"))
           z == [y EXCEPT !.err = FALSE]
<1>1. PeerOK(p) /\ ~p.err /\ Begun(t, p) /\ PeerType(p) /\ Weak(p) /\ t \in Told
  BY OKIsWeak, Zenon DEF Starts, PeerOK, PeerType, Begun
<1>2. Torn(d) /\ d.state = "Established" /\ ~d.err /\ d.gr # "none"
  <2>1. Torn(d) /\ d.state = p.state /\ d.err = p.err
    BY Zenon, <1>1, DisconnectTears
  <2>2. d.gr = p.gr
    BY Zenon, <1>1, DisconnectFacts
  <2> QED BY Zenon, <1>1, <2>1, <2>2
<1>3. Ending(t, d)
  <2>1. Calm(p)
    BY <1>1 DEF Calm, PeerOK
  <2> QED BY <1>1, <2>1, DisconnectEnds, Zenon DEF Ready
<1> HIDE DEF d
<1>4. Torn(n) /\ n.state = "Connect" /\ ~n.err /\ Silent(d, n) /\ n.conn = d.conn
  <2>1. "Connect" \in States
    BY DEF States
  <2> QED BY <1>2, <2>1 DEF Torn, PeerType, Fields, Silent
<1>5. ProcessEvent(d, "TcpConnectionConfirmed", NoPayload) = y
  <2>1. HandleEvent("Established", "TcpConnectionConfirmed", Passive, d.gr # "none") = "Connect"
    BY <1>2 DEF HandleEvent, FromEstablished, StartEvents, PassiveStartEvents
  <2>2. EstablishedTransitions(n, "TcpConnectionConfirmed", NoPayload) = n
    <3> HIDE DEF n
    <3> QED BY DEF EstablishedTransitions, NotificationEvents, MessageErrorEvents
  <2>3. n = [d EXCEPT !.state = "Connect"]
    OBVIOUS
  <2> HIDE DEF n
  <2>4. Transition(n, "Established", "TcpConnectionConfirmed", NoPayload) = n
    BY <2>2 DEF Transition
  <2>5. ReportState(n, "Established", "Connect") = y
    BY <1>4 DEF ReportState
  <2> QED BY Zenon, <1>2, <2>1, <2>3, <2>4, <2>5 DEF ProcessEvent
<1> HIDE DEF n
<1>6. Ending(t, n)
  BY <1>3, <1>4, SilentKeeps, ZenonT(60)
<1>7. Done(t, y) /\ PeerType(y)
  <2>1. Spoken(t, n, "Established", "TcpConnectionConfirmed") /\ PeerType(n)
    BY <1>4, <1>6, Zenon DEF Spoken, Torn
  <2>2. Done(t, Emit(n, StateChanged(n.state)))
    BY <1>1, <1>4, <2>1, AnnounceSays, Zenon
  <2>3. PeerType(Emit(n, StateChanged(n.state)))
    BY <2>1, AnnounceFacts
  <2> QED BY <1>4, <2>2, <2>3, Zenon
<1> HIDE DEF y
<1>8. Silent(y, z) /\ PeerType(z)
  BY <1>7, ErrIsSilent, FailFacts, Zenon
<1>9. TryProcessEvent(d, "TcpConnectionConfirmed", NoPayload) = z
  BY Zenon, <1>5 DEF TryProcessEvent
<1> HIDE DEF z
<1>10. Silent(z, Attach(z, "accepted"))
  BY <1>8 DEF Attach, PeerType, Fields, Silent
<1>11. Done(t, z)
  BY <1>7, <1>8, SilentKeeps
<1> QED BY <1>9, <1>10, <1>11, SilentKeeps, Zenon DEF d

\* A first connection in Connect or Active.
LEMMA AttachStarts ==
  ASSUME NEW t, NEW p, Starts(t, p), p.state \in {"Connect", "Active"}, p.conn = "none",
         NEW c \in {"dialed", "accepted"}
  PROVE  Done(t, ConnectionReady(Attach(p, c)))
<1> DEFINE q == Attach(p, c)
<1>1. PeerOK(p) /\ ~p.err /\ Begun(t, p) /\ Torn(p)
  BY DEF Starts, PeerOK, Torn
<1>2. Good(q, p) /\ q.conn = c /\ ~q.delay /\ q.state = p.state
  BY <1>1, AttachFacts, Zenon
<1>3. Silent(p, q)
  BY <1>1 DEF Attach, PeerOK, PeerType, Fields, Silent
<1> HIDE DEF q
<1>4. Starts(t, q)
  BY <1>1, <1>2, <1>3, StartsKeeps, Zenon DEF Good
<1>5. Done(t, ConnectionReady(q))
  BY <1>2, <1>4, ConnectionReadyReports, Zenon
<1> QED BY <1>5, Zenon DEF q

\* on_conn_accepted() reports by the protocol, in every state.
LEMMA OnConnAcceptedReports ==
  ASSUME NEW t, NEW p, Starts(t, p)
  PROVE  Done(t, OnConnAccepted(p))
<1>1. CASE OnConnAccepted(p) = p
  BY <1>1, SayNothing DEF Starts
<1>2. CASE p.state = "Idle"
  BY <1>1, <1>2, AcceptedInIdleReports DEF OnConnAccepted
<1>3. CASE p.state \in {"Connect", "Active"} /\ p.conn = "none"
  <2>1. OnConnAccepted(p) = ConnectionReady(Attach(p, "accepted"))
    BY Zenon, <1>3 DEF OnConnAccepted
  <2> QED BY <1>3, <2>1, AttachStarts, Zenon
<1>4. CASE p.state \in {"Connect", "Active", "OpenSent"} /\ p.conn = "dialed" /\ ~p.pending
  <2>1. OnConnAccepted(p) = [p EXCEPT !.pending = TRUE]
    BY Zenon, <1>4 DEF OnConnAccepted
  <2>2. Silent(p, [p EXCEPT !.pending = TRUE])
    BY DEF Starts, PeerOK, PeerType, Fields, Silent
  <2> QED BY <2>1, <2>2, SilentKeeps, SayNothing, Zenon DEF Starts
<1>5. CASE p.state = "Established" /\ p.gr # "none"
  <2>1. OnConnAccepted(p) = Attach(TryProcessEvent(Disconnect(p, FALSE, "Quiet"),
                                     "TcpConnectionConfirmed", NoPayload), "accepted")
    BY <1>5, Zenon DEF OnConnAccepted
  <2> QED BY Zenon, <1>5, <2>1, AcceptedInEstablishedReports
<1>6. CASE /\ p.state # "Idle"
           /\ ~(p.state \in {"Connect", "Active"} /\ p.conn = "none")
           /\ ~(p.state \in {"Connect", "Active", "OpenSent"} /\ p.conn = "dialed" /\ ~p.pending)
           /\ ~(p.state = "Established" /\ p.gr # "none")
  BY <1>1, <1>6, Zenon DEF OnConnAccepted
<1> QED BY <1>2, <1>3, <1>4, <1>5, <1>6, Zenon

-----------------------------------------------------------------------------
(* Received messages *)

\* flush_pending_routes() is one report on routes.
LEMMA FlushSays ==
  ASSUME NEW t, NEW p, PeerOK(p), Begun(t, p)
  PROVE  LET q == FlushPendingRoutes(p)
         IN  /\ PeerOK(q) /\ q.err = p.err /\ Done(t, q)
             /\ \E r \in SUBSET {"cur", "old"} : q.out = <<RoutesUpdate(r)>>
             /\ q.told = t
<1> DEFINE a == [p EXCEPT !.routes = {}]
           r == p.routes
           q == Emit(a, RoutesUpdate(r))
<1>1. PeerType(a) /\ Silent(p, a) /\ r \in SUBSET {"cur", "old"} /\ t \in Told
  BY ZenonT(60) DEF PeerOK, PeerType, Fields, Silent, Begun
<1>2. FlushPendingRoutes(p) = q
  BY DEF FlushPendingRoutes
<1>3. PeerOK(q) /\ q.err = p.err
  BY <1>2, FlushFacts, Zenon
<1> HIDE DEF a, r
<1>4. Begun(t, a)
  BY <1>1, SilentKeeps, Zenon
<1>5. q.out = <<RoutesUpdate(r)>> /\ q.told = Learn(t, RoutesUpdate(r))
  BY <1>1, <1>4, FirstReport, Zenon
<1>6. Learn(t, RoutesUpdate(r)) = t
  BY <1>1, LearnFacts
<1> HIDE DEF q
<1>7. Done(t, q)
  BY <1>1, <1>5, SayOne, QuietScripts, Zenon
<1> QED BY <1>1, <1>2, <1>3, <1>5, <1>6, <1>7, ZenonT(60)

\* A report on the session's routes, alone or after the routes themselves.
LEMMA FlushThenSays ==
  ASSUME NEW t, NEW p, PeerOK(p), Begun(t, p),
         NEW n \in {"RouteRefreshEoRR", "GracefulRestartComplete"},
         n = "GracefulRestartComplete" => t.state = "Established"
  PROVE  Done(t, Emit(FlushPendingRoutes(p), ServerOp(n)))
<1> DEFINE q == FlushPendingRoutes(p)
           x == ServerOp(n)
           y == Emit(q, x)
<1>0. PeerOK(q) /\ q.told = t
  BY FlushSays, ZenonT(60)
<1>1. PeerOK(q) /\ q.told = t /\ PeerType(q) /\ t \in Told
  <2> HIDE DEF q
  <2>1. PeerType(q)
    BY <1>0, Zenon DEF PeerOK
  <2> QED
    BY <1>0, <2>1, Zenon DEF PeerType
<1>2. PICK r \in SUBSET {"cur", "old"} : q.out = <<RoutesUpdate(r)>>
  BY FlushSays, ZenonT(60)
<1> HIDE DEF q
<1>3. y.out = <<RoutesUpdate(r), x>> /\ y.told = Learn(t, x)
  BY <1>1, <1>2, SecondReport
<1>4. Learn(t, RoutesUpdate(r)) = t
  BY <1>1, LearnFacts
<1>5. <<RoutesUpdate(r), x>> \in Protocol!Scripts /\ Protocol!Allowed(t, RoutesUpdate(r))
  BY QuietScripts, Zenon
<1>6. Protocol!Allowed(t, x)
  BY QuietScripts, Zenon
<1> HIDE DEF x, y
<1>7. Done(t, y)
  BY <1>3, <1>4, <1>5, <1>6, SayTwo, Zenon
<1> QED BY <1>7 DEF y, x, q

\* Resetting the Hold timer says nothing.
LEMMA ResetHoldSays ==
  ASSUME NEW p, PeerType(p)
  PROVE  Silent(p, ResetHold(p)) /\ ResetHold(p).err = p.err
<1> DEFINE h == IF p.ht = "pos" THEN TRUE ELSE p.hold
<1>1. ResetHold(p) = [p EXCEPT !.hold = h]
  BY DEF ResetHold
<1> HIDE DEF h
<1> QED BY <1>1 DEF PeerType, Fields, Silent

\* handle_eor_received() in an established session.
LEMMA EndOfRibReports ==
  ASSUME NEW t, NEW p, PeerOK(p), Begun(t, p), t.state = "Established"
  PROVE  Done(t, HandleEndOfRib(p))
<1> DEFINE a == [p EXCEPT !.grState = "complete", !.grTimer = FALSE]
<1>1. PeerOK(a) /\ Silent(p, a)
  BY DEF PeerOK, InSessionState, PeerType, Fields, Silent
<1>2. HandleEndOfRib(p) = IF p.grState # "waiting" THEN p
        ELSE Emit(FlushPendingRoutes(a), ServerOp("GracefulRestartComplete"))
  BY DEF HandleEndOfRib
<1> HIDE DEF a
<1>3. Begun(t, a)
  BY <1>1, SilentKeeps
<1> QED BY <1>1, <1>2, <1>3, FlushThenSays, SayNothing, ZenonT(60)

\* handle_route_refresh(), in any session.
LEMMA RouteRefreshReports ==
  ASSUME NEW t, NEW p, PeerOK(p), Begun(t, p),
         NEW m \in {"RouteRefresh", "RouteRefreshBoRR", "RouteRefreshEoRR"}
  PROVE  Done(t, HandleRouteRefresh(p, m))
<1>1. CASE HandleRouteRefresh(p, m) = p
  BY <1>1, SayNothing
<1>2. CASE HandleRouteRefresh(p, m) = Emit(FlushPendingRoutes(p), ServerOp(m)) /\ m = "RouteRefreshEoRR"
  BY <1>2, FlushThenSays, Zenon
<1>3. CASE HandleRouteRefresh(p, m) = Emit(p, ServerOp(m))
  <2> DEFINE q == Emit(p, ServerOp(m))
  <2>1. q.out = <<ServerOp(m)>> /\ q.told = Learn(t, ServerOp(m))
    BY FirstReport DEF PeerOK
  <2> HIDE DEF q
  <2> QED BY <1>3, <2>1, SayOne, QuietScripts, Zenon DEF q
<1> QED BY <1>1, <1>2, <1>3, Zenon DEF HandleRouteRefresh

\* A received NOTIFICATION ends the connection and is reported once.
LEMMA NotificationReports ==
  ASSUME NEW t, NEW p, Starts(t, p), NEW m
  PROVE  Done(t, HandleNotification(p, m)) /\ HandleNotification(p, m).conn = "none"
<1>1. {"NotifMsgVerErr", "NotifMsg"} \subseteq PlainEvents \ {"AutomaticStop"}
      /\ {"NotifMsgVerErr", "NotifMsg"} \subseteq NotificationEvents
  BY DEF PlainEvents, Events, NotificationEvents, SendingEvents
<1>2. PICK e \in {"NotifMsgVerErr", "NotifMsg"} : \E r :
        HandleNotification(p, m) = TryProcessEvent(p, e, r)
  BY DEF HandleNotification
<1>3. PICK r : HandleNotification(p, m) = TryProcessEvent(p, e, r)
  BY <1>2
<1>4. Speaks(t, p, e, r)
  BY <1>1, PlainSpeaks, Zenon
<1> QED BY <1>1, <1>3, <1>4, EventReports

\* The event of an UPDATE: silent in Established, an error in the states before.
LEMMA UpdateEventSays ==
  ASSUME NEW t, NEW p, Starts(t, p), p.state \in {"OpenSent", "OpenConfirm", "Established"}
  PROVE  LET u == ProcessEvent(p, "BgpUpdateReceived", NoPayload)
         IN  /\ Reported(t, u) /\ PeerOK(u)
             /\ p.state # "Established" => u.err
             /\ p.state = "Established" => Begun(t, u) /\ ~u.err
<1> DEFINE e == "BgpUpdateReceived"
           u == ProcessEvent(p, e, NoPayload)
<1>1. PeerOK(p) /\ ~p.err /\ Begun(t, p) /\ PeerType(p)
  BY DEF Starts, PeerOK
<1>2. e \in PlainEvents \ {"AutomaticStop"} /\ e \in Events /\ e \notin SendingEvents
  BY DEF PlainEvents, Events, SendingEvents
<1>3. Reported(t, u)
  BY <1>2, PlainSpeaks, ProcessEventReports, Zenon
<1>4. PeerOK(u)
  BY <1>1, <1>2, PlainFacts, ProcessEventFacts, Zenon DEF Processed
<1>5. CASE p.state = "Established"
  <2> DEFINE n == [p EXCEPT !.state = "Established"]
             h == IF n.ht = "pos" THEN TRUE ELSE n.hold
             d == IF n.est /\ n.stable THEN 0 ELSE n.down
             x == [n EXCEPT !.hold = h, !.down = d]
  <2>1. HandleEvent("Established", e, Passive, p.gr # "none") = "Established"
    BY DEF HandleEvent, FromEstablished, StartEvents, PassiveStartEvents
  <2>2. EstablishedTransitions(n, e, NoPayload) = x
    BY DEF EstablishedTransitions, NotificationEvents, MessageErrorEvents
  <2>3. u = x
    <3> HIDE DEF x
    <3> QED BY <1>5, <2>1, <2>2, Zenon DEF ProcessEvent, Transition, ReportState
  <2>4. PeerType(n) /\ Silent(p, n) /\ ~n.err
    BY <1>1, <1>5, ZenonT(60) DEF PeerType, Fields, Silent
  <2> HIDE DEF n, h, d
  <2>5. Silent(n, x) /\ ~x.err
    BY <2>4 DEF PeerType, Fields, Silent
  <2> HIDE DEF x
  <2>6. Begun(t, x)
    BY <1>1, <2>4, <2>5, Zenon DEF Silent, Begun
  <2> QED BY <1>3, <1>4, <1>5, <2>3, <2>5, <2>6, Zenon
<1>6. CASE p.state \in {"OpenSent", "OpenConfirm"}
  <2> DEFINE n == [p EXCEPT !.state = "Idle"]
             nn == SendNotification(n)
             r == IF p.state = "OpenSent" THEN "Quiet" ELSE "Notification"
             y == Teardown(nn, r)
             x == Fail(y)
  <2>1. HandleEvent(p.state, e, Passive, p.gr # "none") = "Idle"
    BY <1>6 DEF HandleEvent, FromOpenSent, FromOpenConfirm, StartEvents, PassiveStartEvents
  <2>2. p.state = "OpenSent" => OpenSentTransitions(n, e, NoPayload) = x
    BY DEF OpenSentTransitions, MessageErrorEvents
  <2>3. p.state = "OpenConfirm" => OpenConfirmTransitions(n, e, NoPayload) = x
    BY DEF OpenConfirmTransitions, MessageErrorEvents, NotifyAndTeardown
  <2>4. Transition(n, p.state, e, NoPayload) = x
    <3> HIDE DEF x, n
    <3> QED BY <1>6, <2>2, <2>3, Zenon DEF Transition
  <2>5. PeerType(n) /\ Weak(n)
    <3>1. PeerType(n) /\ n.conn = p.conn /\ n.told = p.told
      BY <1>1 DEF PeerType, Fields, States
    <3>2. Weak(p)
      BY <1>1, OKIsWeak
    <3> HIDE DEF n
    <3> QED BY <3>1, <3>2, Zenon DEF Weak
  <2>6. u = ReportState(x, p.state, "Idle")
    <3> HIDE DEF x
    <3> QED BY <2>1, <2>4, Zenon DEF ProcessEvent
  <2> HIDE DEF n
  <2>7. PeerType(y)
    BY <2>5, NotifiedTeardownFacts, Zenon DEF Torn
  <2> HIDE DEF y
  <2>8. x.err
    BY <2>7, FailFacts, Zenon DEF Fail, PeerType, Fields
  <2> HIDE DEF x
  <2>9. u = x
    BY <2>6, <2>8, Zenon DEF ReportState
  <2> QED BY <1>3, <1>4, <1>6, <2>8, <2>9, ZenonT(60)
<1> QED BY <1>5, <1>6, Zenon

\* handle_received_message() reports by the protocol, whether it fails or not, and
\* an UPDATE in Established says nothing yet.
LEMMA ReceivedReports ==
  ASSUME NEW t, NEW p, Starts(t, p), p.conn # "none",
         p.state \in {"OpenSent", "OpenConfirm", "Established"},
         NEW m \in Messages \ BadMessages, NEW open, m = "Open" => open \in OpenMessages /\ ~p.pending
  PROVE  LET q == HandleReceivedMessage(p, m, open)
         IN  /\ Reported(t, q) /\ PeerType(q)
             /\ m = "Update" /\ p.state = "Established" => Begun(t, q)
<1> DEFINE q == HandleReceivedMessage(p, m, open)
           u == ProcessEvent(p, "BgpUpdateReceived", NoPayload)
           v == [u EXCEPT !.routes = @ \cup {"cur"}]
<1> USE DEF NotificationMessages
<1>1. PeerOK(p) /\ ~p.err /\ Begun(t, p) /\ PeerType(q)
  BY ReceivedFacts DEF Starts, Weak
<1>2. /\ Reported(t, u) /\ PeerOK(u) /\ PeerType(u)
      /\ p.state # "Established" => u.err
      /\ p.state = "Established" => Begun(t, u) /\ ~u.err
  BY UpdateEventSays, Zenon DEF PeerOK
<1>3. CASE m \in NotificationMessages
  <2> DEFINE h == HandleNotification(p, m)
  <2>1. q = Fail(h)
    BY <1>3 DEF HandleReceivedMessage
  <2>2. Done(t, h) /\ h.conn = "none" /\ PeerType(h)
    BY <1>1, NotificationReports, NotificationFacts, Zenon DEF Good, PeerOK
  <2> HIDE DEF h, q
  <2>3. Silent(h, Fail(h)) /\ Fail(h).conn = "none"
    BY <2>2, ErrIsSilent, Zenon DEF Fail
  <2>4. Reported(t, q)
    BY <2>1, <2>2, <2>3, SilentKeeps, Zenon DEF Reported
  <2> QED BY <1>1, <1>3, <2>4 DEF q
<1>4. CASE m = "Update"
  <2>1. q = IF u.err THEN u ELSE ResetHold(v)
    BY <1>4 DEF HandleReceivedMessage, AfterUpdate
  <2> HIDE DEF u, q
  <2>2. CASE u.err
    BY <1>1, <1>2, <2>1, <2>2, Zenon DEF q, u
  <2>3. CASE ~u.err
    <3>1. PeerType(v) /\ Silent(u, v) /\ v.err = u.err
      BY <1>2, Zenon DEF PeerType, Fields, Silent
    <3> HIDE DEF v
    <3>2. Silent(v, ResetHold(v)) /\ ResetHold(v).err = v.err
      BY <3>1, ResetHoldSays, Zenon
    <3>3. Begun(t, ResetHold(v)) /\ ~ResetHold(v).err
      BY <1>2, <2>3, <3>1, <3>2, Zenon DEF Silent, Begun
    <3> QED BY <1>1, <2>1, <2>3, <3>3, SayNothing, Zenon DEF Reported, q, u
  <2> QED BY <2>2, <2>3
<1>5. CASE m = "EndOfRib"
  <2>1. q = IF u.err THEN u ELSE ResetHold(HandleEndOfRib(u))
    BY <1>5, Zenon DEF HandleReceivedMessage, AfterUpdate
  <2> HIDE DEF u, q
  <2>2. CASE u.err
    BY <1>1, <1>2, <1>5, <2>1, <2>2, ZenonT(60) DEF q, u
  <2>3. CASE ~u.err
    <3> DEFINE h == HandleEndOfRib(u)
    <3>1. t.state = "Established"
      BY <1>1, <1>2, <2>3, Zenon DEF PeerOK, Begun
    <3>2. Done(t, h) /\ PeerType(h) /\ ~h.err
      BY <1>2, <2>3, <3>1, EndOfRibReports, EndOfRibFacts, Zenon DEF PeerOK
    <3> HIDE DEF h
    <3>3. Silent(h, ResetHold(h)) /\ ~ResetHold(h).err
      BY <3>2, ResetHoldSays, Zenon
    <3>4. Reported(t, q)
      BY <2>1, <2>3, <3>2, <3>3, SilentKeeps, Zenon DEF Reported, h
    <3> QED BY <1>1, <1>5, <3>4, Zenon DEF q
  <2> QED BY <2>2, <2>3
<1>6. CASE m = "Keepalive"
  <2> DEFINE h == TryProcessEvent(p, "BgpKeepaliveReceived", NoPayload)
  <2>1. q = ResetHold(h)
    BY <1>6 DEF HandleReceivedMessage
  <2>2. Admissible(p, "BgpKeepaliveReceived", NoPayload)
        /\ "BgpKeepaliveReceived" \notin SendingEvents
    BY <1>1, Zenon DEF Admissible, Events, OpenEvents, SendingEvents
  <2>3. Speaks(t, p, "BgpKeepaliveReceived", NoPayload)
    BY <1>1, <2>2, Zenon DEF Speaks
  <2>4. Done(t, h) /\ PeerType(h) /\ ~h.err
    BY <2>2, <2>3, EventReports, TryFacts, Zenon DEF Good, PeerOK
  <2> HIDE DEF h, q
  <2>5. Silent(h, ResetHold(h)) /\ ~ResetHold(h).err
    BY <2>4, ResetHoldSays
  <2>6. Reported(t, q)
    BY <2>1, <2>4, <2>5, SilentKeeps, Zenon DEF Reported
  <2> QED BY <1>1, <1>6, <2>6 DEF q
<1>7. CASE m = "Open"
  <2>1. q = ProcessEvent(p, "BgpOpenReceived", open)
    BY <1>7 DEF HandleReceivedMessage
  <2>2. Speaks(t, p, "BgpOpenReceived", open)
    BY <1>1, <1>7, Zenon DEF Speaks, Admissible, Events, OpenEvents
  <2> QED BY <1>1, <1>7, <2>1, <2>2, ProcessEventReports, ZenonT(60)
<1>8. CASE m \in {"RouteRefresh", "RouteRefreshBoRR", "RouteRefreshEoRR"}
  <2>1. q = HandleRouteRefresh(p, m)
    BY <1>8 DEF HandleReceivedMessage
  <2>2. Done(t, q) /\ ~q.err
    BY <1>1, <1>8, <2>1, RouteRefreshReports, RouteRefreshFacts, Zenon
  <2> HIDE DEF q
  <2> QED BY <1>1, <1>8, <2>2, Zenon DEF Reported, q
<1> QED BY <1>3, <1>4, <1>5, <1>6, <1>7, <1>8, Zenon DEF Messages, BadMessages

\* Disconnecting, with a NOTIFICATION or without, is reported once.
LEMMA DisconnectReports ==
  ASSUME NEW t, NEW p, Starts(t, p), NEW reason
  PROVE  /\ Done(t, Disconnect(p, TRUE, reason))
         /\ Done(t, Disconnect(SendNotification(p), TRUE, reason))
<1>1. ASSUME NEW q, Starts(t, q)
      PROVE  Done(t, Disconnect(q, TRUE, reason))
  <2>1. Ready(t, q)
    BY <1>1 DEF Starts, Ready, Calm, PeerOK
  <2>2. Ending(t, Disconnect(q, TRUE, reason))
    BY <2>1, DisconnectEnds, Zenon
  <2> QED BY <2>2, EndingIsDone, Zenon
<1> QED BY <1>1, NotifiedStarts, Zenon

\* handle_delay_open_message() reports by the protocol.
LEMMA DelayOpenMessageReports ==
  ASSUME NEW t, NEW p, Starts(t, p), p.conn # "none", p.delay, NEW m \in Messages,
         NEW open, m = "Open" => open \in OpenMessages
  PROVE  Done(t, DelayOpenMessage(p, m, open))
<1> USE DEF NotificationMessages
<1>1. CASE m = "Open"
  <2>1. CASE p.pending /\ ~open.localWins
    BY <1>1, <2>1, AdoptPendingReports, Zenon DEF DelayOpenMessage
  <2>2. CASE ~(p.pending /\ ~open.localWins)
    <3> DEFINE d == DropPending(p)
    <3>1. DelayOpenMessage(p, m, open) = ProcessDelayOpen(d, open)
      BY <1>1, <2>2 DEF DelayOpenMessage
    <3>2. Starts(t, d)
      BY DropPendingStarts, Zenon
    <3>3. d.conn # "none" /\ ~d.pending
      BY DEF DropPending, Starts, PeerOK, PeerType, Fields
    <3> HIDE DEF d
    <3> QED BY <1>1, <3>1, <3>2, <3>3, ProcessDelayOpenReports, Zenon
  <2> QED BY <2>1, <2>2
<1>2. CASE m \in NotificationMessages
  <2>1. DelayOpenMessage(p, m, open) = HandleNotification(p, m)
    BY Zenon, <1>2 DEF DelayOpenMessage
  <2> QED BY <2>1, NotificationReports
<1>3. CASE m = "BadOpen" \/ m = "BadUpdate" \/ (m \in {"BadHeader", "Closed"} /\ ~p.pending)
  <2>1. \E e \in {"BgpOpenMsgErr", "TcpConnectionFails", "BgpHeaderErr"} :
          DelayOpenMessage(p, m, open) = TryProcessEvent(p, e, NoPayload)
    BY Zenon, <1>3 DEF DelayOpenMessage
  <2>2. {"BgpOpenMsgErr", "TcpConnectionFails", "BgpHeaderErr"} \subseteq PlainEvents \ {"AutomaticStop"}
    BY DEF PlainEvents, Events, SendingEvents, MessageErrorEvents
  <2> QED BY <2>1, <2>2, PlainSpeaks, EventReports, Zenon
<1>4. CASE m \in {"BadHeader", "Closed"} /\ p.pending
  <2>1. DelayOpenMessage(p, m, open) = PromotePending(p)
    BY <1>4 DEF DelayOpenMessage
  <2> QED BY <1>4, <2>1, PromotePendingReports
<1>5. CASE m \notin BadMessages \cup NotificationMessages \cup {"Open"}
  <2>1. DelayOpenMessage(p, m, open) = Disconnect(p, TRUE, "Quiet")
    BY Zenon, <1>5 DEF DelayOpenMessage, BadMessages
  <2> QED BY Zenon, <2>1, DisconnectReports
<1> QED BY <1>1, <1>2, <1>3, <1>4, <1>5, Zenon DEF BadMessages

\* A message in OpenSent or OpenConfirm is reported by the protocol.
LEMMA OpenStatesMessageReports ==
  ASSUME NEW t, NEW p, Starts(t, p), p.conn # "none", p.state \in {"OpenSent", "OpenConfirm"},
         NEW m \in Messages, NEW open, m = "Open" => open \in OpenMessages
  PROVE  Done(t, OpenStatesMessage(p, m, open))
<1> USE DEF NotificationMessages
<1>1. p.pending => p.state = "OpenSent"
  BY Zenon DEF Starts, PeerOK
<1>2. p.pending \in BOOLEAN
  BY DEF Starts, PeerOK, PeerType
<1>3. CASE p.pending /\ m = "Open" /\ ~open.localWins
  <2>1. OpenStatesMessage(p, m, open) = AdoptPending(p)
    BY <1>3 DEF OpenStatesMessage
  <2> QED BY <1>1, <1>3, <2>1, AdoptPendingReports, Zenon
<1>4. CASE p.pending /\ m \in NotificationMessages \cup {"BadHeader", "Closed"}
  <2>1. m # "Open"
    BY <1>4
  <2>2. OpenStatesMessage(p, m, open) = PromotePending(p)
    BY <1>4, <2>1, Zenon DEF OpenStatesMessage
  <2> QED BY <1>1, <1>4, <2>2, PromotePendingReports, Zenon
<1>5. CASE m \in BadMessages /\ ~(p.pending /\ m \in {"BadHeader", "Closed"})
  <2>1. \/ OpenStatesMessage(p, m, open) = Disconnect(SendNotification(p), TRUE, "Notification")
        \/ OpenStatesMessage(p, m, open) = Disconnect(p, TRUE, "Quiet")
    BY Zenon, <1>2, <1>5 DEF OpenStatesMessage, BadMessages
  <2> QED BY Zenon, <2>1, DisconnectReports
<1>6. CASE /\ m \notin BadMessages
           /\ ~(p.pending /\ m = "Open" /\ ~open.localWins)
           /\ ~(p.pending /\ m \in NotificationMessages)
  <2> DEFINE d == IF m = "Open" THEN DropPending(p) ELSE p
  <2>1. OpenStatesMessage(p, m, open) = OrDisconnect(HandleReceivedMessage(d, m, open))
    BY Zenon, <1>6 DEF OpenStatesMessage, BadMessages
  <2>2. Starts(t, d)
    BY DropPendingStarts, Zenon
  <2>3. d.conn # "none" /\ d.state = p.state /\ (m = "Open" => ~d.pending)
    BY Zenon DEF DropPending, Starts, PeerOK, PeerType, Fields
  <2> HIDE DEF d
  <2>4. LET q == HandleReceivedMessage(d, m, open) IN Reported(t, q) /\ PeerType(q)
    BY <1>6, <2>2, <2>3, ReceivedReports, Zenon
  <2> QED BY <2>1, <2>4, OrDisconnectReports, Zenon
<1> QED BY <1>3, <1>4, <1>5, <1>6, Zenon

\* A message in Established is reported by the protocol: the watermark is reached
\* by an UPDATE only.
LEMMA EstablishedMessageReports ==
  ASSUME NEW t, NEW p, Starts(t, p), p.conn # "none", p.state = "Established",
         NEW m \in Messages, NEW open, m = "Open" => open \in OpenMessages,
         NEW full \in BOOLEAN, full => m = "Update"
  PROVE  Done(t, EstablishedMessage(p, m, open, full))
<1>1. CASE m \in BadMessages
  <2>1. \/ EstablishedMessage(p, m, open, full) =
             Disconnect(SendNotification(p), TRUE, "Notification")
        \/ EstablishedMessage(p, m, open, full) = Disconnect(p, TRUE, "Quiet")
    BY Zenon, <1>1 DEF EstablishedMessage, BadMessages
  <2> QED BY Zenon, <2>1, DisconnectReports
<1>2. CASE m \notin BadMessages
  <2> DEFINE q == HandleReceivedMessage(p, m, open)
  <2>1. EstablishedMessage(p, m, open, full) =
          IF q.err THEN OrDisconnect(q)
          ELSE IF full /\ q.routes # {} THEN FlushPendingRoutes(q) ELSE q
    BY Zenon, <1>2 DEF EstablishedMessage, AfterMessage, BadMessages
  <2>2. PeerOK(p) /\ ~p.err /\ ~p.pending
    BY DEF Starts, PeerOK
  <2>3. PeerOK(q) \/ q.err
    BY <1>2, <2>2, ReceivedFacts, Zenon
  <2>4. Reported(t, q) /\ PeerType(q) /\ (full => Begun(t, q))
    BY <1>2, <2>2, ReceivedReports, Zenon
  <2> HIDE DEF q
  <2>5. CASE q.err
    BY <2>1, <2>4, <2>5, OrDisconnectReports, Zenon
  <2>6. CASE ~q.err /\ full /\ q.routes # {}
    BY <2>1, <2>3, <2>4, <2>6, FlushSays, SMTT(60)
  <2>7. CASE ~q.err /\ ~(full /\ q.routes # {})
    BY <2>1, <2>4, <2>7, Zenon DEF Reported
  <2> QED BY <2>5, <2>6, <2>7
<1> QED BY <1>1, <1>2

-----------------------------------------------------------------------------
(* Operations from the server *)

\* What a handler leaves: a task that goes on and reported by the protocol, or one
\* that returned without a word.
Answered(t, q) == (q.alive /\ Done(t, q)) \/ (~q.alive /\ Begun(t, q))

\* Every operation of the server is answered by the protocol.
LEMMA HandleOpReports ==
  ASSUME NEW t, NEW p, Starts(t, p), p.alive, NEW op \in PeerOps
  PROVE  Answered(t, HandleOp(p, op))
<1>1. ASSUME NEW q, Good(q, p), Done(t, q)
      PROVE  Answered(t, q)
  BY <1>1 DEF Good, Answered
<1>2. PeerOK(p) /\ ~p.err /\ Begun(t, p) /\ PeerType(p)
  BY Zenon DEF Starts, PeerOK
<1>3. Answered(t, p)
  BY <1>2, SayNothing DEF Answered
<1>4. {"ManualStart", "ManualStartPassive", "AutomaticStart", "AutomaticStartPassive",
       "ManualStop", "NotifMsgVerErr"} \subseteq PlainEvents \ {"AutomaticStop"}
  BY Zenon DEF PlainEvents, Events, StartEvents, PassiveStartEvents, NotificationEvents, SendingEvents
<1>5. ASSUME NEW a, Starts(t, a), a.alive = p.alive, NEW e \in PlainEvents \ {"AutomaticStop"}, NEW arg
      PROVE  Answered(t, TryProcessEvent(a, e, arg))
  <2>1. Good(TryProcessEvent(a, e, arg), a)
    BY <1>5, PlainFacts DEF Starts
  <2>2. Done(t, TryProcessEvent(a, e, arg))
    BY <1>5, PlainSpeaks, EventReports
  <2> QED BY <1>5, <2>1, <2>2, Zenon DEF Good, Answered
<1>6. CASE op \in {"Start", "AutoStart"}
  <2> DEFINE a == [p EXCEPT !.stopped = FALSE]
  <2>1. PeerOK(a) /\ ~a.err /\ a.alive = p.alive
    BY Zenon, <1>2, StartedFacts
  <2>2. Silent(p, a)
    BY <1>2 DEF PeerType, Fields, Silent
  <2>3. \/ HandleOp(p, op) = p
        \/ \E e \in {"ManualStart", "ManualStartPassive"} :
             HandleOp(p, op) = TryProcessEvent(a, e, NoPayload)
        \/ \E e \in {"AutomaticStart", "AutomaticStartPassive"} :
             HandleOp(p, op) = TryProcessEvent(p, e, NoPayload)
    <3>1. CASE p.state # "Idle"
      BY Zenon, <1>6, <3>1 DEF HandleOp, WaitingOp, SessionOp
    <3>2. CASE p.state = "Idle" /\ op = "Start"
      <4>1. HandleOp(p, op) = TryProcessEvent(a, IF Passive THEN "ManualStartPassive"
                                                 ELSE "ManualStart", NoPayload)
        BY <3>2 DEF HandleOp, IdleOp
      <4> QED BY <4>1
    <3>3. CASE p.state = "Idle" /\ op = "AutoStart"
      <4>1. HandleOp(p, op) = TryProcessEvent(p, IF Passive THEN "AutomaticStartPassive"
                                                 ELSE "AutomaticStart", NoPayload)
        BY <3>3 DEF HandleOp, IdleOp
      <4> QED BY <4>1
    <3> QED BY <1>6, <3>1, <3>2, <3>3, Zenon
  <2> HIDE DEF a
  <2>4. Starts(t, a)
    BY <1>2, <2>1, <2>2, StartsKeeps, Zenon
  <2> QED BY Zenon, <1>3, <1>4, <1>5, <2>1, <2>3, <2>4
<1>7. CASE op = "Accepted"
  <2>1. HandleOp(p, op) = OnConnAccepted(p)
    BY <1>7 DEF HandleOp, IdleOp, WaitingOp, SessionOp
  <2> QED BY <1>1, <1>2, <2>1, OnConnAcceptedFacts, OnConnAcceptedReports, Zenon
<1>8. CASE op = "ManualStop"
  <2>1. HandleOp(p, op) = p \/ HandleOp(p, op) = TryProcessEvent(p, "ManualStop", NoPayload)
    BY <1>8 DEF HandleOp, IdleOp, WaitingOp, SessionOp
  <2> QED BY <1>3, <1>4, <1>5, <2>1, Zenon
<1>9. CASE op = "Shutdown"
  <2>1. HandleOp(p, op) \in {p, Exit(p), Exit(SendNotification(p))}
    BY <1>9 DEF HandleOp, IdleOp, WaitingOp, SessionOp
  <2>2. ASSUME NEW q, Starts(t, q)
        PROVE  Answered(t, Exit(q))
    <3>1. Silent(q, Exit(q)) /\ ~Exit(q).alive
      BY <2>2, ZenonT(60) DEF Exit, Starts, PeerOK, PeerType, Fields, Silent
    <3> QED BY <2>2, <3>1, SilentKeeps, Zenon DEF Answered, Starts
  <2>3. Starts(t, SendNotification(p))
    BY NotifiedStarts
  <2> QED BY <1>3, <2>1, <2>2, <2>3, Zenon
<1>10. CASE op = "HardReset"
  <2> DEFINE w == IF p.io THEN Write(p, "Notification") ELSE p
  <2>1. HandleOp(p, op) = p \/ HandleOp(p, op) = TryProcessEvent(w, "NotifMsgVerErr", "Notification")
    BY <1>10 DEF HandleOp, IdleOp, WaitingOp, SessionOp
  <2>2. PeerOK(w) /\ ~w.err /\ w.alive = p.alive
    BY Zenon, <1>2, WriteFacts
  <2>3. Silent(p, Write(p, "Notification")) /\ Silent(p, p)
    BY <1>2 DEF Write, PeerType, Fields, Silent
  <2>4. Silent(p, w)
    BY <2>3, Zenon
  <2> HIDE DEF w
  <2>5. Starts(t, w)
    BY <1>2, <2>2, <2>4, StartsKeeps
  <2> QED BY Zenon, <1>3, <1>4, <1>5, <2>1, <2>2, <2>5
<1>11. CASE op \in {"SendUpdate", "Query"}
  <2>1. HandleOp(p, op) = p \/ HandleOp(p, op) = Disconnect(p, TRUE, "Quiet")
    BY <1>11, Zenon DEF HandleOp, IdleOp, WaitingOp, SessionOp
  <2> QED BY Zenon, <1>1, <1>2, <1>3, <2>1, DisconnectGood, DisconnectReports
<1> QED BY <1>6, <1>7, <1>8, <1>9, <1>10, <1>11, Zenon DEF PeerOps

-----------------------------------------------------------------------------
(* The steps *)

\* A step begins with nothing said.
LEMMA BeginStarts ==
  ASSUME Inv, peer.alive, NEW io \in BOOLEAN, NEW stable \in BOOLEAN
  PROVE  LET b == Begin(io, stable)
         IN  /\ Starts(peer.told, b) /\ b.alive /\ b.state = peer.state /\ b.conn = peer.conn
             /\ b.pending = peer.pending /\ b.delay = peer.delay
<1> DEFINE b == Begin(io, stable)
<1>1. PeerOK(peer) /\ ~peer.err
  BY DEF Inv, Sound, Dead
<1>2. /\ PeerOK(b) /\ ~b.err /\ b.alive = peer.alive /\ b.state = peer.state
      /\ b.conn = peer.conn /\ b.pending = peer.pending /\ b.delay = peer.delay
  BY ZenonT(60), <1>1, BeginFacts
<1>3. Begun(peer.told, b)
  BY <1>1, ZenonT(60) DEF Begin, Begun, PeerOK, PeerType, Fields
<1> HIDE DEF b
<1> QED BY <1>2, <1>3 DEF Starts, b

\* A step that is answered is a step of the protocol.
LEMMA AnsweredIsReport ==
  ASSUME Inv, Inv', peer.alive, NEW q, End(q), Answered(peer.told, q)
  PROVE  Protocol!Next
<1>1. PeerType(peer') /\ peer' = [q EXCEPT !.io = TRUE, !.stable = FALSE]
  BY DEF Inv, Sound, PeerOK, Dead, End
<1>2. DOMAIN q = Fields
  BY <1>1 DEF PeerType
<1>3. peer'.out = q.out /\ peer'.told = q.told /\ peer'.alive = q.alive
  BY <1>1, <1>2, Zenon DEF Fields
<1>4. peer.alive = TRUE /\ peer'.alive \in BOOLEAN
  BY <1>1, ZenonT(60) DEF Inv, Sound, PeerOK, Dead, PeerType
<1>5. CASE q.alive /\ Done(peer.told, q)
  BY <1>3, <1>4, <1>5, Zenon DEF Done, Protocol!Next, Protocol!Report
<1>6. CASE ~q.alive /\ Begun(peer.told, q)
  BY <1>3, <1>4, <1>6, Zenon DEF Begun, Protocol!Next, Protocol!Finish
<1> QED BY <1>5, <1>6, Zenon DEF Answered

\* The restart timer reports whether the task still runs or not.
LEMMA TimerReports ==
  ASSUME Inv, Inv', RestartTimerExpires
  PROVE  Protocol!Next
<1> DEFINE x == ServerOp("GracefulRestartTimerExpired")
           b == Begin(TRUE, FALSE)
           c == [b EXCEPT !.grTimer = FALSE]
           q == Emit(c, x)
<1>1. PeerType(peer) /\ PeerType(peer') /\ peer' = [q EXCEPT !.io = TRUE, !.stable = FALSE]
  BY DEF Inv, Sound, PeerOK, Dead, End, RestartTimerExpires
<1>2. b.out = <<>> /\ b.told = peer.told /\ b.alive = peer.alive /\ DOMAIN b = Fields
  BY <1>1 DEF Begin, PeerType, Fields
<1> HIDE DEF b
<1>3. c.out = <<>> /\ c.told = peer.told /\ c.alive = peer.alive /\ DOMAIN c = Fields
  BY <1>2 DEF Fields
<1> HIDE DEF c
<1>4. Append(<<>>, x) = <<x>>
  OBVIOUS
<1>5. Learn(peer.told, x) = peer.told
  BY <1>1, LearnFacts, Zenon DEF PeerType
<1>6. q.out = <<x>> /\ q.told = peer.told /\ q.alive = peer.alive /\ DOMAIN q = Fields
  BY <1>3, <1>4, <1>5, Zenon DEF Emit, Fields
<1> HIDE DEF q
<1>7. peer'.out = <<x>> /\ peer'.told = peer.told /\ peer'.alive = peer.alive
  BY <1>1, <1>6, Zenon DEF Fields
<1>8. Done(peer.told, q)
  BY <1>5, <1>6, SayOne, QuietScripts, Zenon
<1>9. x = Protocol!Op("GracefulRestartTimerExpired")
  BY DEF Protocol!Op, ServerOp
<1> HIDE DEF x
<1> QED BY <1>6, <1>7, <1>8, <1>9, Zenon DEF Done, Protocol!Next, Protocol!Report

\* Every arm of every select! reports by the protocol.
LEMMA StepReports ==
  ASSUME Inv, Inv', Next
  PROVE  Protocol!Next \/ UNCHANGED Protocol!vars
<1> DEFINE t == peer.told
<1>1. ASSUME NEW p, NEW q, p.alive, Good(q, p), Done(t, q), peer.alive, End(q)
      PROVE  Protocol!Next
  <2>1. Answered(t, q)
    BY <1>1, Zenon DEF Good, Answered
  <2> QED BY <1>1, <2>1, AnsweredIsReport, Zenon
<1>2. ASSUME NEW io \in BOOLEAN, NEW stable \in BOOLEAN, peer.alive
      PROVE  LET b == Begin(io, stable)
             IN  /\ Starts(t, b) /\ PeerOK(b) /\ ~b.err /\ b.alive /\ b.state = peer.state
                 /\ b.conn = peer.conn /\ b.pending = peer.pending /\ b.delay = peer.delay
  BY <1>2, BeginStarts DEF Starts
<1> HIDE DEF t
<1>3. ASSUME NEW e \in PlainEvents \ {"AutomaticStop"}, NEW io \in BOOLEAN, peer.alive,
             \/ End(TryProcessEvent(Begin(io, FALSE), e, NoPayload))
             \/ End(OrDisconnect(ProcessEvent(Begin(io, FALSE), e, NoPayload)))
      PROVE  Protocol!Next
  <2> DEFINE b == Begin(io, FALSE)
  <2>1. Starts(t, b) /\ PeerOK(b) /\ ~b.err /\ b.alive
    BY <1>2, <1>3, Zenon
  <2>2. \/ End(TryProcessEvent(b, e, NoPayload))
        \/ End(OrDisconnect(ProcessEvent(b, e, NoPayload)))
    BY <1>3, Zenon
  <2> HIDE DEF b
  <2>3. Speaks(t, b, e, NoPayload)
    BY <2>1, PlainSpeaks, Zenon
  <2>4. Good(TryProcessEvent(b, e, NoPayload), b) /\ Done(t, TryProcessEvent(b, e, NoPayload))
    BY <2>1, <2>3, PlainFacts, EventReports, Zenon
  <2>5. /\ Good(OrDisconnect(ProcessEvent(b, e, NoPayload)), b)
        /\ Done(t, OrDisconnect(ProcessEvent(b, e, NoPayload)))
    BY <2>1, <2>3, PlainFacts, ProcessOrDisconnect, EventReports, Zenon
  <2> QED BY Zenon, <1>1, <1>3, <2>1, <2>2, <2>4, <2>5
<1>4. {"TcpConnectionFails", "IdleHoldTimerExpires", "HoldTimerExpires",
       "KeepaliveTimerExpires"} \subseteq PlainEvents \ {"AutomaticStop"}
  BY DEF PlainEvents, Events, SendingEvents
<1>5. CASE Settle
  <2>1. PICK io \in BOOLEAN :
          LET p == Begin(io, FALSE)
          IN  End(IF p.state \in {"Connect", "Active"} THEN ConnectionReady(p)
                  ELSE TryProcessEvent(p, "TcpConnectionFails", NoPayload))
    BY Zenon, <1>5 DEF Settle
  <2> DEFINE b == Begin(io, FALSE)
  <2>2. peer.alive /\ ~Polling(peer)
    BY <1>5 DEF Settle
  <2>3. /\ Starts(t, b) /\ PeerOK(b) /\ ~b.err /\ b.alive /\ b.state = peer.state
        /\ b.conn = peer.conn /\ b.delay = peer.delay
    BY <1>2, <2>2, Zenon
  <2>4. CASE b.state \in {"Connect", "Active"}
    <3>1. End(ConnectionReady(b))
      BY <2>1, <2>4, Zenon
    <3> HIDE DEF b
    <3>2. b.conn # "none" /\ ~b.delay
      BY <2>2, <2>3, <2>4, Zenon DEF Polling
    <3>3. Good(ConnectionReady(b), b) /\ Done(t, ConnectionReady(b))
      BY <2>3, <2>4, <3>2, ConnectionReadyFacts, ConnectionReadyReports, Zenon
    <3> QED BY Zenon, <1>1, <2>2, <2>3, <3>1, <3>3
  <2>5. CASE b.state \notin {"Connect", "Active"}
    <3>1. End(TryProcessEvent(Begin(io, FALSE), "TcpConnectionFails", NoPayload))
      BY <2>1, <2>5, Zenon
    <3> QED BY Zenon, <1>3, <1>4, <2>2, <3>1
  <2> QED BY <2>4, <2>5, Zenon
<1>6. CASE ReceiveOp
  <2>1. PICK op \in Queued, io \in BOOLEAN :
          End([HandleOp(Begin(io, FALSE), op) EXCEPT !.op = op])
    BY Zenon, <1>6 DEF ReceiveOp
  <2> DEFINE b == Begin(io, FALSE)
             h == HandleOp(b, op)
             q == [h EXCEPT !.op = op]
  <2>2. op \in PeerOps /\ peer.alive
    BY <1>6, <2>1 DEF Queued, PeerOps, ReceiveOp
  <2>3. Starts(t, b) /\ PeerOK(b) /\ ~b.err /\ b.alive
    BY <1>2, <2>2, Zenon
  <2>4. End(q)
    BY <2>1
  <2> HIDE DEF b
  <2>5. Sound(h)
    BY <2>2, <2>3, HandleOpFacts, Zenon
  <2>6. Answered(t, h)
    BY <2>2, <2>3, HandleOpReports, Zenon
  <2> HIDE DEF h
  <2>7. Silent(h, q) /\ q.alive = h.alive
    BY <2>5, ZenonT(60) DEF Sound, PeerOK, Dead, PeerType, Fields, Silent
  <2> HIDE DEF q
  <2>8. Answered(t, q)
    BY <2>6, <2>7, SilentKeeps, Zenon DEF Answered
  <2> QED BY <2>2, <2>4, <2>8, AnsweredIsReport, Zenon DEF t
<1>7. CASE ReceiveClosed
  <2> DEFINE b == Begin(TRUE, FALSE)
  <2>1. peer.alive /\ End(Exit(b))
    BY <1>7, Zenon DEF ReceiveClosed
  <2>2. Starts(t, b)
    BY <1>2, <2>1, Zenon
  <2> HIDE DEF b
  <2>3. Silent(b, Exit(b)) /\ ~Exit(b).alive
    BY <2>2, ZenonT(60) DEF Exit, Starts, PeerOK, PeerType, Fields, Silent
  <2>4. Answered(t, Exit(b))
    BY <2>2, <2>3, SilentKeeps, Zenon DEF Answered, Starts
  <2> QED BY <2>1, <2>4, AnsweredIsReport DEF t
<1>8. CASE ReceiveMessage
  <2>1. PICK io \in BOOLEAN, stable \in BOOLEAN, full \in BOOLEAN, m \in Messages :
          /\ full => peer.state = "Established" /\ m = "Update"
          /\ \E open \in Payload(m) : End(HandleConnMessage(Begin(io, stable), m, open, full))
    BY <1>8 DEF ReceiveMessage
  <2>2. PICK open \in Payload(m) : End(HandleConnMessage(Begin(io, stable), m, open, full))
    BY <2>1
  <2> DEFINE b == Begin(io, stable)
             q == HandleConnMessage(b, m, open, full)
  <2>3. peer.alive /\ Polling(peer) /\ peer.conn # "none" /\ End(q)
    BY <1>8, <2>2, Zenon DEF ReceiveMessage
  <2>4. /\ Starts(t, b) /\ PeerOK(b) /\ ~b.err /\ b.alive /\ b.state = peer.state
        /\ b.conn = peer.conn /\ b.delay = peer.delay
    BY <1>2, <2>3
  <2> HIDE DEF b
  <2>5. m = "Open" => open \in OpenMessages
    BY DEF Payload
  <2>6. CASE b.state \in {"Connect", "Active"}
    <3>1. b.delay
      BY <2>3, <2>4, <2>6, Zenon DEF Polling
    <3>2. Good(DelayOpenMessage(b, m, open), b)
      BY <2>3, <2>4, <2>5, <3>1, DelayOpenMessageFacts, Zenon
    <3>3. Done(t, DelayOpenMessage(b, m, open))
      BY <2>3, <2>4, <2>5, <3>1, DelayOpenMessageReports, Zenon
    <3>4. q = DelayOpenMessage(b, m, open)
      BY <2>6, Zenon DEF HandleConnMessage
    <3> QED BY Zenon, <1>1, <2>3, <2>4, <3>2, <3>3, <3>4
  <2>7. CASE b.state \in {"OpenSent", "OpenConfirm"}
    <3>1. Good(OpenStatesMessage(b, m, open), b)
      BY <2>3, <2>4, <2>5, <2>7, OpenStatesMessageFacts, ZenonT(60)
    <3>2. Done(t, OpenStatesMessage(b, m, open))
      BY <2>3, <2>4, <2>5, <2>7, OpenStatesMessageReports, Zenon
    <3>3. q = OpenStatesMessage(b, m, open)
      BY <2>7 DEF HandleConnMessage
    <3> QED BY Zenon, <1>1, <2>3, <2>4, <3>1, <3>2, <3>3
  <2>8. CASE b.state = "Established"
    <3>1. Good(EstablishedMessage(b, m, open, full), b)
      BY <2>3, <2>4, <2>5, <2>8, EstablishedMessageFacts, Zenon
    <3>2. Done(t, EstablishedMessage(b, m, open, full))
      BY <2>1, <2>3, <2>4, <2>5, <2>8, EstablishedMessageReports, Zenon
    <3>3. q = EstablishedMessage(b, m, open, full)
      BY <2>8, Zenon DEF HandleConnMessage
    <3> QED BY Zenon, <1>1, <2>3, <2>4, <3>1, <3>2, <3>3
  <2>9. b.state # "Idle"
    BY <2>3, <2>4, Zenon DEF PeerOK
  <2> QED BY <2>4, <2>6, <2>7, <2>8, <2>9 DEF PeerOK, PeerType, States
<1>9. CASE ReceivePendingMessage
  <2>1. PICK io \in BOOLEAN, m \in Messages :
          \E open \in Payload(m) : End(HandleConnPendingMsg(Begin(io, FALSE), m, open))
    BY Zenon, <1>9 DEF ReceivePendingMessage
  <2>2. PICK open \in Payload(m) : End(HandleConnPendingMsg(Begin(io, FALSE), m, open))
    BY Zenon, <2>1
  <2> DEFINE b == Begin(io, FALSE)
             q == HandleConnPendingMsg(b, m, open)
  <2>3. peer.alive /\ Polling(peer) /\ peer.pending /\ End(q)
    BY Zenon, <1>9, <2>2 DEF ReceivePendingMessage
  <2>4. /\ Starts(t, b) /\ PeerOK(b) /\ ~b.err /\ b.alive /\ b.state = peer.state
        /\ b.conn = peer.conn /\ b.delay = peer.delay /\ b.pending = peer.pending
    BY <1>2, <2>3, Zenon
  <2> HIDE DEF b
  <2>5. b.delay \/ b.state = "OpenSent"
    BY <2>3, <2>4 DEF Polling, PeerOK
  <2>6. CASE m # "Open" \/ open.localWins
    <3>1. q = DropPending(b)
      BY <2>6, Zenon DEF HandleConnPendingMsg
    <3>2. Good(q, b) /\ Done(t, q)
      BY <2>4, <3>1, DropPendingFacts, DropPendingStarts, SayNothing, Zenon DEF Starts
    <3> QED BY Zenon, <1>1, <2>3, <2>4, <3>2
  <2>7. CASE ~(m # "Open" \/ open.localWins)
    <3>1. q = AdoptPendingWithOpen(b, open) /\ open \in OpenMessages
      BY <2>7 DEF HandleConnPendingMsg, Payload
    <3>2. Good(q, b)
      BY Zenon, <2>3, <2>4, <2>5, <3>1, AdoptPendingWithOpenFacts
    <3>3. Done(t, q)
      BY Zenon, <2>3, <2>4, <2>5, <3>1, AdoptPendingWithOpenReports
    <3> QED BY Zenon, <1>1, <2>3, <2>4, <3>2, <3>3
  <2> QED BY <2>6, <2>7
<1>10. CASE Dial
  <2>1. peer.alive /\ peer.state = "Connect" /\ peer.conn = "none"
    BY <1>10 DEF Dial, Sleeping
  <2>2. CASE End(TryProcessEvent(Begin(TRUE, FALSE), "TcpConnectionFails", NoPayload))
    BY Zenon, <1>3, <1>4, <2>1, <2>2
  <2>3. CASE \E io \in BOOLEAN : End(ConnectionReady(Attach(Begin(io, FALSE), "dialed")))
    <3>1. PICK io \in BOOLEAN : End(ConnectionReady(Attach(Begin(io, FALSE), "dialed")))
      BY Zenon, <2>3
    <3> DEFINE b == Begin(io, FALSE)
               a == Attach(b, "dialed")
    <3>2. Starts(t, b) /\ PeerOK(b) /\ ~b.err /\ b.alive /\ b.state = "Connect" /\ b.conn = "none"
      BY <1>2, <2>1, Zenon
    <3>3. End(ConnectionReady(a))
      BY <3>1, Zenon
    <3> HIDE DEF b
    <3>4. Torn(b)
      BY <3>2, Zenon DEF PeerOK, Torn
    <3>5. Good(a, b) /\ a.conn = "dialed" /\ ~a.delay /\ a.state = "Connect"
      BY <3>2, <3>4, AttachFacts, Zenon
    <3>6. Done(t, ConnectionReady(a))
      BY <3>2, AttachStarts, Zenon
    <3> HIDE DEF a
    <3>7. Good(ConnectionReady(a), a)
      BY <3>5, ConnectionReadyFacts DEF Good
    <3>8. a.alive
      BY <3>2, <3>5 DEF Good
    <3> QED BY Zenon, <1>1, <2>1, <3>3, <3>6, <3>7, <3>8
  <2> QED BY Zenon, <1>10, <2>2, <2>3 DEF Dial
<1>11. CASE ConnectRetry
  <2> DEFINE b == Begin(TRUE, FALSE)
             q == TryProcessEvent(b, "ConnectRetryTimerExpires", NoPayload)
  <2>1. peer.alive /\ (peer.state = "Active" => peer.conn = "none") /\ End(q)
    BY Zenon, <1>11 DEF ConnectRetry, RetryDue, Sleeping
  <2>2. Starts(t, b) /\ PeerOK(b) /\ ~b.err /\ b.alive /\ (b.state = "Active" => b.conn = "none")
    BY <1>2, <2>1, Zenon
  <2> HIDE DEF b
  <2>3. /\ Admissible(b, "ConnectRetryTimerExpires", NoPayload)
        /\ "ConnectRetryTimerExpires" \notin SendingEvents
    BY <2>2 DEF Admissible, Events, OpenEvents, SendingEvents
  <2>4. Speaks(t, b, "ConnectRetryTimerExpires", NoPayload)
    BY <2>2, <2>3, Zenon DEF Speaks, Starts
  <2>5. Good(q, b) /\ Done(t, q)
    BY <2>2, <2>3, <2>4, TryFacts, EventReports, Zenon
  <2> QED BY Zenon, <1>1, <2>1, <2>2, <2>5
<1>12. CASE DelayOpenExpires
  <2>1. PICK io \in BOOLEAN :
          End(OrDisconnect(ProcessEvent(Begin(io, FALSE), "DelayOpenTimerExpires", NoPayload)))
    BY Zenon, <1>12 DEF DelayOpenExpires
  <2> DEFINE b == Begin(io, FALSE)
             q == OrDisconnect(ProcessEvent(b, "DelayOpenTimerExpires", NoPayload))
  <2>2. peer.alive /\ End(q)
    BY <1>12, <2>1, Zenon DEF DelayOpenExpires
  <2>3. Starts(t, b) /\ PeerOK(b) /\ ~b.err /\ b.alive
    BY <1>2, <2>2, Zenon
  <2> HIDE DEF b
  <2>4. Admissible(b, "DelayOpenTimerExpires", NoPayload)
    BY <2>3 DEF Admissible, Events, OpenEvents
  <2>5. Speaks(t, b, "DelayOpenTimerExpires", NoPayload)
    BY <2>3, <2>4, Zenon DEF Speaks, Starts
  <2>6. Good(q, b) /\ Done(t, q)
    BY <2>3, <2>4, <2>5, ProcessOrDisconnect, EventReports, ZenonT(60)
  <2> QED BY Zenon, <1>1, <2>2, <2>3, <2>6
<1>13. CASE IdleHoldExpires
  BY Zenon, <1>3, <1>4, <1>13 DEF IdleHoldExpires
<1>14. CASE HoldExpires
  BY Zenon, <1>3, <1>4, <1>14 DEF HoldExpires
<1>15. CASE KeepaliveExpires
  BY Zenon, <1>3, <1>4, <1>15 DEF KeepaliveExpires
<1>16. CASE FlushRoutes
  <2> DEFINE b == Begin(TRUE, FALSE)
             q == FlushPendingRoutes(b)
  <2>1. peer.alive /\ End(q)
    BY <1>16, Zenon DEF FlushRoutes
  <2>2. Starts(t, b) /\ PeerOK(b) /\ ~b.err /\ b.alive
    BY <1>2, <2>1, Zenon
  <2> HIDE DEF b
  <2>3. Good(q, b) /\ Done(t, q)
    BY <2>2, FlushFacts, FlushSays, Zenon DEF Good, Starts
  <2> QED BY Zenon, <1>1, <2>1, <2>2, <2>3
<1>17. CASE RestartTimerExpires
  BY <1>17, TimerReports, Zenon
<1>18. CASE TimePasses \/ ServerRemoves
  BY <1>18 DEF TimePasses, ServerRemoves, Protocol!vars
<1> QED BY <1>5, <1>6, <1>7, <1>8, <1>9, <1>10, <1>11, <1>12, <1>13, <1>14, <1>15, <1>16,
           <1>17, <1>18 DEF Next, TaskStep

-----------------------------------------------------------------------------
(* The theorem *)

\* The peer task implements the protocol of the reports, for every configuration:
\* whatever its peer, its timers, its connections and the server make it do, it
\* announces a session only after the handshake that gave it an AS number, takes an
\* announced session back only with a PeerDisconnected, keeps routes only of an
\* established one, and once it has returned nothing but its restart timer reports.
\* PeerServerProofs takes this protocol as the environment of the server.
THEOREM TaskKeepsProtocol == Spec => KeepsProtocol
<1>1. Init => Protocol!Init
  BY DEF Init, NewPeer, Protocol!Init, Protocol!Unknown, Unknown
<1>2. Inv /\ Inv' /\ [Next]_vars => [Protocol!Next]_(Protocol!vars)
  <2>1. CASE UNCHANGED vars
    BY <2>1 DEF vars, Protocol!vars
  <2>2. Inv /\ Inv' /\ Next => Protocol!Next \/ UNCHANGED Protocol!vars
    BY StepReports
  <2> QED BY <2>1, <2>2
<1> QED BY <1>1, <1>2, InvHolds, PTL DEF Spec, KeepsProtocol, Protocol!Spec
=============================================================================
