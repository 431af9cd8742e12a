----------------------------- MODULE RtrManager -----------------------------
(***************************************************************************)
(* The RTR manager (bgpgg/src/rpki/manager.rs): it spawns and stops one    *)
(* session task per RPKI cache, keeps the VRPs each cache delivered, and   *)
(* feeds the differences of their union to the server's VRP table.         *)
(*                                                                         *)
(* Session tasks are seen through the events they send: any of them may    *)
(* send any event at any time (module CacheSession says which and when).   *)
(* A task the manager has shut down runs on, without a handle, until it    *)
(* notices; `lingering` is the set of caches with such a task.             *)
(*                                                                         *)
(* Commands of the server need no queue: the server sends AddCache only    *)
(* for an address it does not hold and RemoveCache only for one it does,   *)
(* so the manager finds them alternating, between any two events.  A cache *)
(* without an entry in per_cache_vrps and one with an empty set behave     *)
(* alike and are both the empty set here.                                  *)
(***************************************************************************)
EXTENDS Integers, Sequences

CONSTANTS
  Caches,       \* addresses of RPKI caches
  Payloads,     \* validated ROA payloads
  Preferences,  \* preference values a cache may be configured with
  Dead,         \* caches that cannot be reached: their sessions never sync
  MaxEvents,    \* bound on the queue of cache events
  MaxUpdates    \* bound on the queue of VRP updates

ASSUME ManagerAssumption ==
  /\ Preferences \subseteq Nat
  /\ Dead \subseteq Caches
  /\ MaxEvents \in Nat /\ MaxUpdates \in Nat

VARIABLES
  configs,    \* all_configs: the preference of each configured cache, if any
  sessions,   \* sessions: the preference in the handle of each session, if any
  lingering,  \* caches with a session task that has lost its handle
  held,       \* per_cache_vrps
  events,     \* event_rx
  updates,    \* the VrpUpdate operations in the server's op_rx
  table       \* the server's VrpTable

managerVars == <<configs, sessions, lingering, held, events, updates, table>>

NoPreference == -1

Events ==
  [kind : {"Batch"}, cache : Caches, vrps : SUBSET Payloads]
    \cup [kind : {"Disconnected", "Expired"}, cache : Caches]

Updates == [added : SUBSET Payloads, removed : SUBSET Payloads]

Configured == {c \in Caches : configs[c] # NoPreference}

Running == {c \in Caches : sessions[c] # NoPreference}

-----------------------------------------------------------------------------
(* Differences of the union of what the caches hold *)

HeldBy(h, S) == UNION {h[c] : c \in S}

\* Mutant: what the other caches hold is not looked at.
RemovalDiff_Everything(h, S) == HeldBy(h, S)

\* compute_removal_diff over several caches at once
RemovalDiff(h, S) == HeldBy(h, S) \ HeldBy(h, Caches \ S)

\* Mutant: an update that says nothing new is sent as well.
WithUpdate_Again(q, added, removed) ==
  IF added = {} /\ removed = {} THEN q
  ELSE LET u == [added |-> added, removed |-> removed] IN Append(Append(q, u), u)

\* send_vrp_update, which callers skip when there is nothing to say
WithUpdate(q, added, removed) ==
  IF added = {} /\ removed = {} THEN q
  ELSE Append(q, [added |-> added, removed |-> removed])

Forget(h, S) == [c \in Caches |-> IF c \in S THEN {} ELSE h[c]]

-----------------------------------------------------------------------------
(* Preference tiers *)

\* lowest_configured_preference, of a nonempty configuration
LowestConfigured(f) == CHOOSE p \in {f[c] : c \in Caches} \ {NoPreference} :
                         \A q \in {f[c] : c \in Caches} \ {NoPreference} : p <= q

\* next_preference_tier: the caches of the next tier, none if p is the last
NextTier(p) == {c \in Configured : /\ configs[c] > p
                                   /\ \A d \in Configured : configs[d] > p => configs[c] <= configs[d]}

\* Mutant: only caches that already have a session are spawned.
Spawn_Running(S) ==
  [c \in Caches |-> IF c \in S /\ sessions[c] # NoPreference THEN configs[c] ELSE sessions[c]]

Spawn(S) == [c \in Caches |-> IF c \in S /\ sessions[c] = NoPreference THEN configs[c] ELSE sessions[c]]

\* session_config: the configuration in the handle, else the configured one
SessionConfig(c) == IF sessions[c] # NoPreference THEN sessions[c] ELSE configs[c]

LessPreferred(p) == {c \in Running \cap Configured : configs[c] > p}

\* Mutant: the handle stays in the map.
ShutdownSessions_KeepsHandle(S) == UNCHANGED <<sessions, lingering>>

ShutdownSessions(S) ==
  /\ sessions' = [c \in Caches |-> IF c \in S THEN NoPreference ELSE sessions[c]]
  /\ lingering' = lingering \cup (S \cap Running)

-----------------------------------------------------------------------------
(* Commands from the server *)

AddCache(c, p) ==
  /\ c \notin Configured
  /\ configs' = [configs EXCEPT ![c] = p]
  /\ sessions' = IF p <= LowestConfigured(configs') THEN [sessions EXCEPT ![c] = p]
                 ELSE sessions
  /\ UNCHANGED <<lingering, held, events, updates, table>>

RemoveCache(c) ==
  /\ c \in Configured /\ Len(updates) < MaxUpdates
  /\ ShutdownSessions({c})
  /\ configs' = [configs EXCEPT ![c] = NoPreference]
  /\ updates' = WithUpdate(updates, {}, RemovalDiff(held, {c}))
  /\ held' = Forget(held, {c})
  /\ UNCHANGED <<events, table>>

-----------------------------------------------------------------------------
(* Events from the sessions *)

Next1 == Head(events)

Dequeue == events' = Tail(events)

\* A batch replaces what the cache held; then the sessions of less preferred
\* tiers are shut down and their VRPs removed.
HandleBatch ==
  /\ events # <<>> /\ Next1.kind = "Batch" /\ Len(updates) + 1 < MaxUpdates
  /\ LET c       == Next1.cache
         others  == HeldBy(held, Caches \ {c})
         batched == [held EXCEPT ![c] = Next1.vrps]
         first   == WithUpdate(updates, (Next1.vrps \ held[c]) \ others,
                                        (held[c] \ Next1.vrps) \ others)
         killed  == IF SessionConfig(c) = NoPreference THEN {} ELSE LessPreferred(SessionConfig(c))
     IN  /\ ShutdownSessions(killed)
         /\ updates' = WithUpdate(first, {}, RemovalDiff(batched, killed))
         /\ held' = Forget(batched, killed)
  /\ Dequeue
  /\ UNCHANGED <<configs, table>>

\* The next tier is spawned unless another session of the tier is there.
HandleDisconnected ==
  /\ events # <<>> /\ Next1.kind = "Disconnected"
  /\ LET c   == Next1.cache
         p   == SessionConfig(c)
         sameTier == {d \in Running \ {c} : sessions[d] = p}
     IN  sessions' = IF p = NoPreference \/ sameTier # {} THEN sessions ELSE Spawn(NextTier(p))
  /\ Dequeue
  /\ UNCHANGED <<configs, lingering, held, updates, table>>

HandleExpired ==
  /\ events # <<>> /\ Next1.kind = "Expired" /\ Len(updates) < MaxUpdates
  /\ updates' = WithUpdate(updates, {}, RemovalDiff(held, {Next1.cache}))
  /\ held' = Forget(held, {Next1.cache})
  /\ Dequeue
  /\ UNCHANGED <<configs, sessions, lingering, table>>

-----------------------------------------------------------------------------
(* Session tasks and the server *)

SessionSends(c, e) ==
  /\ c \in Running \cup lingering /\ Len(events) < MaxEvents
  /\ events' = Append(events, e)
  /\ UNCHANGED <<configs, sessions, lingering, held, updates, table>>

SendsBatch(c) ==
  c \notin Dead /\ \E vrps \in SUBSET Payloads :
    SessionSends(c, [kind |-> "Batch", cache |-> c, vrps |-> vrps])

SendsDisconnected(c) == SessionSends(c, [kind |-> "Disconnected", cache |-> c])

SendsExpired(c) == c \notin Dead /\ SessionSends(c, [kind |-> "Expired", cache |-> c])

TaskEnds(c) ==
  /\ c \in lingering
  /\ lingering' = lingering \ {c}
  /\ UNCHANGED <<configs, sessions, held, events, updates, table>>

\* handle_vrp_update: additions first, then removals
HandleVrpUpdate ==
  /\ updates # <<>>
  /\ table' = (table \cup Head(updates).added) \ Head(updates).removed
  /\ updates' = Tail(updates)
  /\ UNCHANGED <<configs, sessions, lingering, held, events>>

-----------------------------------------------------------------------------
ManagerInit ==
  /\ configs = [c \in Caches |-> NoPreference]
  /\ sessions = [c \in Caches |-> NoPreference]
  /\ lingering = {}
  /\ held = [c \in Caches |-> {}]
  /\ events = <<>> /\ updates = <<>>
  /\ table = {}

ManagerNext ==
  \/ \E c \in Caches, p \in Preferences : AddCache(c, p)
  \/ \E c \in Caches : RemoveCache(c)
  \/ HandleBatch \/ HandleDisconnected \/ HandleExpired
  \/ \E c \in Caches : SendsBatch(c) \/ SendsDisconnected(c) \/ SendsExpired(c)
  \/ \E c \in Caches : TaskEnds(c)
  \/ HandleVrpUpdate

ManagerSpec == ManagerInit /\ [][ManagerNext]_managerVars

\* The manager and the server take the next element of their queues, and a
\* session that cannot connect retries and reports every failure.
ManagerFairness ==
  /\ WF_managerVars(HandleBatch) /\ WF_managerVars(HandleDisconnected) /\ WF_managerVars(HandleExpired)
  /\ WF_managerVars(HandleVrpUpdate)
  /\ \A c \in Dead : SF_managerVars(sessions[c] # NoPreference /\ SendsDisconnected(c))

ManagerFairSpec == ManagerSpec /\ ManagerFairness

-----------------------------------------------------------------------------
(* Properties *)

ManagerTypeOK ==
  /\ configs \in [Caches -> Preferences \cup {NoPreference}]
  /\ sessions \in [Caches -> Preferences \cup {NoPreference}]
  /\ lingering \in SUBSET Caches
  /\ held \in [Caches -> SUBSET Payloads]
  /\ events \in Seq(Events)
  /\ updates \in Seq(Updates)
  /\ table \in SUBSET Payloads

\* Whether v is in a table t once the updates of q have been applied to it.
FinallyIn(t, q, v) ==
  \/ /\ v \in t
     /\ \A j \in 1..Len(q) : v \notin q[j].removed
  \/ \E i \in 1..Len(q) :
       /\ v \in q[i].added
       /\ \A j \in i..Len(q) : v \notin q[j].removed

\* The server's table is on its way to the union of what the caches hold: once
\* the queued updates are applied, a VRP is in the table exactly when some cache
\* holds it, although each update was computed from the cache it is about.
TableFollowsCaches ==
  \A v \in Payloads : FinallyIn(table, updates, v) <=> v \in HeldBy(held, Caches)

\* Every update the server applies is a change, so a VRP never flickers and no
\* route is evaluated again for nothing (handle_vrp_update).
UpdatesAreChanges ==
  [][Len(updates') < Len(updates) =>
       /\ Head(updates).added \cap (table \cup Head(updates).removed) = {}
       /\ Head(updates).removed \subseteq table]_managerVars

\* A session task with a handle serves a configured cache, under the preference
\* it is configured with: kills and failovers compare the right tiers.
SessionsAreConfigured == \A c \in Running : sessions[c] = configs[c]

\* "Kill sessions ... remove their VRPs" (kill_less_preferred_tiers): a cache
\* without a session task, running or queued to be heard, holds no VRPs.
DeadSessionsHoldNothing ==
  \A c \in Caches :
    c \notin Running \cup lingering /\ (\A i \in DOMAIN events : events[i].cache # c)
      => held[c] = {}

\* Tier p is running, every cache up to it is unreachable, and there is a next.
NeedsFallback(p) ==
  /\ \E c \in Running : configs[c] = p
  /\ \A c \in Configured : configs[c] <= p => c \in Dead
  /\ NextTier(p) # {}

\* "If no other cache at same preference tier is still connected, preemptively
\* spawn the next tier" (handle_disconnected): once the configuration stays as it
\* is, a tier whose caches are all unreachable gets the next one spawned.
FallbackIsSpawned ==
  <>[][configs' = configs]_managerVars =>
    \A p \in Preferences :
      NeedsFallback(p) ~> ~NeedsFallback(p) \/ NextTier(p) \subseteq Running

\* The only session of its tier is of an unreachable cache.
LoneSession(p) ==
  NeedsFallback(p) /\ \A c, d \in Running : configs[c] = p /\ configs[d] = p => c = d

\* What handle_disconnected does see to: once the configuration stays as it is, an
\* unreachable cache whose session is the only one of its tier gets the next tier
\* spawned, however its reports mix with the batches and kills of other caches.
LoneCacheFallsBack ==
  <>[][configs' = configs]_managerVars =>
    \A p \in Preferences :
      LoneSession(p) ~> ~LoneSession(p) \/ NextTier(p) \subseteq Running

=============================================================================
