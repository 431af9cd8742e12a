--------------------------- MODULE SessionReports ---------------------------
(***************************************************************************)
(* What the server may rely on when it handles the operations a peer task  *)
(* sends it (ServerOp): the protocol of the reports, without the task.     *)
(*                                                                         *)
(* The task reports one step at a time, each step a short sequence from    *)
(* Scripts.  `told` is what the reports so far say of the session,         *)
(* `out` the sequence of the last step.  PeerTask implements this          *)
(* specification, PeerServer uses it as the environment of the server.     *)
(***************************************************************************)
EXTENDS Naturals, Sequences

VARIABLES
  told,   \* [state, asn, info]: the session as reported
  out,    \* the reports of the last step
  alive   \* the task has not ended

States == {"Idle", "Connect", "Active", "OpenSent", "OpenConfirm", "Established"}

Unknown == [state |-> "Idle", asn |-> FALSE, info |-> FALSE]

Op(name)        == [op |-> name]
StateChanged(s) == [op |-> "StateChanged", state |-> s]
Disconnected(g) == [op |-> "Disconnected", gr |-> g]
Update(routes)  == [op |-> "Update", routes |-> routes]

Learned(t, op) ==
  CASE op.op = "StateChanged"      -> [t EXCEPT !.state = op.state]
    [] op.op = "HandshakeComplete" -> [t EXCEPT !.asn = TRUE]
    [] op.op = "ConnectionInfo"    -> [t EXCEPT !.info = TRUE]
    [] op.op = "Disconnected"      -> Unknown
    [] OTHER                       -> t

\* A ROUTE-REFRESH is passed on in every state with a connection, and an EoRR first
\* sends the routes collected so far, in whatever session they came.
RefreshOps == {"RouteRefresh", "RouteRefreshBoRR", "RouteRefreshEoRR"}

\* A session is announced after the handshake that gave it an AS number, it ends
\* with a Disconnected, and only an established one keeps its routes (gr).
Allowed(t, op) ==
  CASE op.op = "StateChanged" ->
         /\ op.state = "Established" => t.asn
         /\ t.state = "Established" => op.state = "Established"
    [] op.op \in {"HandshakeComplete", "ConnectionInfo"} -> t.state # "Established"
    [] op.op = "Disconnected" -> op.gr => t.state = "Established"
    [] op.op = "GracefulRestartComplete" -> t.state = "Established"
    [] OTHER -> TRUE

\* The sequences of reports one step of the task sends: on its session,
SessionScripts ==
  {<<>>, <<Op("HandshakeComplete"), StateChanged("OpenConfirm")>>, <<Op("HandshakeComplete")>>,
   <<Op("ConnectionInfo"), StateChanged("Established")>>,
   <<Op("GracefulRestartTimerExpired")>>, <<Op("GracefulRestartComplete")>>}
    \cup {<<StateChanged(s)>> : s \in States}
    \cup {<<Disconnected(g)>> : g \in BOOLEAN}
    \cup {<<Disconnected(g), StateChanged(s)>> : g \in BOOLEAN, s \in States \ {"Established"}}
    \cup {<<Disconnected(FALSE), Op("SetAdminState")>>}

\* and on the routes received in it.
RouteScripts ==
  {<<Update(r)>> : r \in SUBSET {"cur", "old"}}
    \cup {<<Update(r), Op(name)>> : r \in SUBSET {"cur", "old"}, name \in RefreshOps \cup {"GracefulRestartComplete"}}
    \cup {<<Op(name)>> : name \in RefreshOps}

Scripts == SessionScripts \cup RouteScripts

\* A step sends two reports at most.
Says(t, s) ==
  CASE Len(s) = 0 -> t
    [] Len(s) = 1 -> Learned(t, s[1])
    [] OTHER      -> Learned(Learned(t, s[1]), s[2])

IsAllowed(t, s) ==
  /\ Len(s) > 0 => Allowed(t, s[1])
  /\ Len(s) > 1 => Allowed(Learned(t, s[1]), s[2])

-----------------------------------------------------------------------------
vars == <<told, out, alive>>

Init == told = Unknown /\ out = <<>> /\ alive = TRUE

Report ==
  /\ out' \in Scripts
  /\ alive \/ out' = <<Op("GracefulRestartTimerExpired")>> \/ out' = <<>>
  /\ IsAllowed(told, out')
  /\ told' = Says(told, out')
  /\ alive' = alive

\* The task ends after a Shutdown, without a further report on its session.
Finish ==
  /\ alive /\ alive' = FALSE
  /\ out' = <<>>
  /\ told' = told

Next == Report \/ Finish

Spec == Init /\ [][Next]_vars
=============================================================================
