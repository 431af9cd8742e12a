----------------------------- MODULE MCPeerTask -----------------------------
(***************************************************************************)
(* Instances of PeerTask for TLC.  The configuration of the peer is the    *)
(* only parameter: the operations, messages and OPENs the task may meet    *)
(* are all there, each in every state.                                     *)
(***************************************************************************)
EXTENDS PeerTask

Protocol == INSTANCE SessionReports
              WITH told <- peer.told, out <- peer.out, alive <- peer.alive

\* PeerTask implements the protocol of SessionReports, on which the server relies:
\* a session is announced after its handshake, a restart completes only within
\* one, and it ends with a PeerDisconnected that says whether its routes stay.
KeepsProtocol == Protocol!Spec
=============================================================================
