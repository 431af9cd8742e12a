--------------------------- MODULE MCCacheSession ---------------------------
(* Module CacheSession for TLC: two VRPs; a restarting cache with one      *)
(* exchange at a time, and overlapping exchanges with the expire timer.    *)
EXTENDS CacheSession

CONSTANTS v1, v2

Orderly == [max_versions |-> 3, max_id |-> 1, max_under_way |-> 0, expiry |-> FALSE]
Overlapping == [max_versions |-> 2, max_id |-> 1, max_under_way |-> 2, expiry |-> FALSE]
Expiring == [Overlapping EXCEPT !.expiry = TRUE]
AllSetups == {Orderly, Overlapping, Expiring}
OnlyExpiring == {[Orderly EXCEPT !.max_id = 0, !.expiry = TRUE]}
=============================================================================
