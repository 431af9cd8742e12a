---------------------------- MODULE MCPeerServer ----------------------------
(***************************************************************************)
(* An instance of PeerServer: a family with two keys, of which one path    *)
(* carries NO_LLGR, and a max-prefix limit of one; and a family with one   *)
(* key that a session may leave out of its graceful restart, or not        *)
(* negotiate at all.                                                       *)
(***************************************************************************)
EXTENDS PeerServer, TLC

CONSTANTS fa, fb, a1, a2, b1

MCFamilyOf  == a1 :> fa @@ a2 :> fa @@ b1 :> fb
MCNoLlgr    == {a2}
MCLimit     == fa :> 1 @@ fb :> 1
MCOverLimit == fa :> "terminate" @@ fb :> "discard"

Plain   == [NoCaps EXCEPT !.fams = {fa}]
Partial == [fams |-> {fa, fb}, gr |-> {fa}, fbit |-> {fa}, llgr |-> {fa}, llF |-> {fa}]
Short   == [fams |-> {fa, fb}, gr |-> {fa}, fbit |-> {}, llgr |-> {}, llF |-> {}]

\* A peer with all kinds of restart and refresh; one whose route must not outlive the
\* restart and that reports while the server is behind; and one that is removed and
\* added again and that can go over its limit; VRPs change during the last two.
MCSetups ==
  {[caps |-> {Plain, Partial, Short}, refreshed |-> {fa}, routes |-> {a1, b1}, vrps |-> {}, tasks |-> 1, waiting |-> 0],
   [caps |-> {Partial}, refreshed |-> {}, routes |-> {a2}, vrps |-> {a2}, tasks |-> 1, waiting |-> 1],
   [caps |-> {Plain}, refreshed |-> {}, routes |-> {a1, a2}, vrps |-> {a1}, tasks |-> 2, waiting |-> 0]}
=============================================================================
