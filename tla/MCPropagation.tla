--------------------------- MODULE MCPropagation ---------------------------
(* Modules Propagation and Monitoring for TLC: the networks of the instances. *)
EXTENDS Monitoring

Plain ==
  [peers |-> {1, 2}, speakers |-> {1, 2}, add_path |-> {}, rs_clients |-> {}, ibgp |-> {}, rr_clients |-> {}, looped |-> {},
   oversize |-> {}, denied |-> {}, rejects_invalid |-> FALSE, vrps_change |-> FALSE, max_batch |-> 1,
   originated |-> Attrs, collectors |-> {}]
\* An internal speaker, an ADD-PATH reflector client, a route server client that is
\* not sent the most preferred attributes, and an internal listener; batches.
Mixed ==
  [Plain EXCEPT !.peers = {1, 2, 3, 4}, !.speakers = {1, 3}, !.add_path = {2}, !.rs_clients = {3}, !.ibgp = {1, 2, 4},
                !.rr_clients = {2}, !.denied = {<<3, 2>>}, !.max_batch = 2]
\* External peers, an import policy that rejects invalid paths, changing VRPs.
Validating ==
  [Plain EXCEPT !.peers = {1, 2, 3}, !.add_path = {1}, !.rejects_invalid = TRUE, !.vrps_change = TRUE]
\* Announcements that the loop checks turn into withdrawals.
Looping == [Plain EXCEPT !.peers = {1, 2, 3}, !.add_path = {3}, !.looped = {2}, !.originated = {1}]
\* An UPDATE with the more preferred attributes is too large to be sent.
Large == [Plain EXCEPT !.add_path = {2}, !.oversize = {2}]
\* A BMP collector beside two peers, and two collectors beside a peer without routes.
Monitored == [Plain EXCEPT !.speakers = {1}, !.originated = {}, !.collectors = {"a"}]
Collected == [Plain EXCEPT !.peers = {1}, !.speakers = {}, !.originated = {}, !.collectors = {"a", "b"}]
AllSetups == {Mixed, Validating, Looping, Large, Monitored, Collected}
OnlyPlain == {Plain}
=============================================================================
