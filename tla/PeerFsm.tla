------------------------------ MODULE PeerFsm ------------------------------
(***************************************************************************)
(* The transition table of the per-peer BGP finite state machine,          *)
(* Fsm::handle_event of bgpgg/src/peer/fsm.rs.  It is a pure function of   *)
(* the state, the event and two flags; everything a transition does        *)
(* besides changing the state is in module PeerTask.                       *)
(***************************************************************************)

States == {"Idle", "Connect", "Active", "OpenSent", "OpenConfirm", "Established"}

StartEvents == {"ManualStart", "AutomaticStart"}

PassiveStartEvents == {"ManualStartPassive", "AutomaticStartPassive"}

NotificationEvents == {"NotifMsgVerErr", "NotifMsg"}

MessageErrorEvents == {"BgpHeaderErr", "BgpOpenMsgErr"}

Events ==
  StartEvents \cup PassiveStartEvents \cup NotificationEvents \cup MessageErrorEvents \cup
  {"ManualStop", "AutomaticStop", "ConnectRetryTimerExpires", "HoldTimerExpires",
   "KeepaliveTimerExpires", "DelayOpenTimerExpires", "IdleHoldTimerExpires",
   "TcpConnectionConfirmed", "TcpConnectionFails", "BgpOpenReceived",
   "BgpOpenWithDelayOpenTimer", "BgpKeepaliveReceived", "BgpUpdateReceived",
   "BgpUpdateMsgErr"}

\* The state in which a peer waits for a session: listening or dialling.
StartState(passive) == IF passive THEN "Active" ELSE "Connect"

FromIdle(e, passive) ==
  CASE e \in StartEvents           -> "Connect"
    [] e \in PassiveStartEvents    -> "Active"
    [] e = "IdleHoldTimerExpires"  -> StartState(passive)
    [] OTHER                       -> "Idle"

\* Mutant: Active does not dial again.
FromWaiting_NoRetry(s, e, passive) ==
  CASE e = "ConnectRetryTimerExpires"  -> s
    [] e = "TcpConnectionFails"        -> IF s = "Active" THEN "Idle" ELSE "Active"
    [] e \in {"DelayOpenTimerExpires", "TcpConnectionConfirmed"} -> "OpenSent"
    [] e = "BgpOpenWithDelayOpenTimer" -> "OpenConfirm"
    [] e \in StartEvents \cup PassiveStartEvents -> s
    [] OTHER                           -> "Idle"

\* Connect and Active differ in what a retry and a failed connection lead to.
FromWaiting(s, e, passive) ==
  CASE e = "ConnectRetryTimerExpires"  -> IF s = "Active" THEN StartState(passive) ELSE s
    [] e = "TcpConnectionFails"        -> IF s = "Active" THEN "Idle" ELSE "Active"
    [] e \in {"DelayOpenTimerExpires", "TcpConnectionConfirmed"} -> "OpenSent"
    [] e = "BgpOpenWithDelayOpenTimer" -> "OpenConfirm"
    [] e \in StartEvents \cup PassiveStartEvents -> s
    [] OTHER                           -> "Idle"

FromOpenSent(e) ==
  CASE e = "TcpConnectionFails" -> "Active"
    [] e \in {"BgpOpenReceived", "BgpOpenWithDelayOpenTimer"} -> "OpenConfirm"
    [] e \in StartEvents \cup PassiveStartEvents \cup {"TcpConnectionConfirmed"} -> "OpenSent"
    [] OTHER -> "Idle"

FromOpenConfirm(e) ==
  CASE e = "BgpKeepaliveReceived" -> "Established"
    [] e \in StartEvents \cup PassiveStartEvents
         \cup {"KeepaliveTimerExpires", "BgpOpenReceived", "TcpConnectionConfirmed"}
         -> "OpenConfirm"
    [] OTHER -> "Idle"

FromEstablished(e, gr) ==
  CASE e = "TcpConnectionConfirmed" -> IF gr THEN "Connect" ELSE "Established"
    [] e \in StartEvents \cup PassiveStartEvents
         \cup {"KeepaliveTimerExpires", "BgpKeepaliveReceived", "BgpUpdateReceived",
               "BgpOpenReceived"} -> "Established"
    [] OTHER -> "Idle"

HandleEvent(s, e, passive, gr) ==
  CASE s = "Idle"                  -> FromIdle(e, passive)
    [] s \in {"Connect", "Active"} -> FromWaiting(s, e, passive)
    [] s = "OpenSent"              -> FromOpenSent(e)
    [] s = "OpenConfirm"           -> FromOpenConfirm(e)
    [] s = "Established"           -> FromEstablished(e, gr)

=============================================================================
