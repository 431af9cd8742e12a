---------------------------- MODULE CacheSession ----------------------------
(***************************************************************************)
(* One session task of the RTR protocol (bgpgg/src/rpki/session.rs) and    *)
(* the cache it talks to.                                                  *)
(*                                                                         *)
(* The cache is external and behaves as RFC 8210 asks: it answers a Serial *)
(* Query with the difference from that version or with a Cache Reset, a    *)
(* Reset Query with all it has, and keeps an answer together on the wire.  *)
(* Its serial numbers wrap at SerialSpace, as Serial does at 2^32.         *)
(*                                                                         *)
(* `session` has the fields of CacheSession: id and serial (session_id and *)
(* serial_number, -1 for None), vrps (local_vrps), syncing, announced and  *)
(* withdrawn (the pending sets), and link, the state of the reconnect loop.*)
(* `known` is what the manager holds for this cache once it has handled    *)
(* every event sent to it, `event` the event the last step sent, and       *)
(* `blamed` whether it sent an Error Report about the cache.               *)
(***************************************************************************)
EXTENDS Integers, Sequences, FiniteSets, Functions

CONSTANTS
  Vrps,         \* validated ROA payloads
  SerialSpace,  \* number of serial numbers
  FirstSerial,  \* serial number of the cache before its first version
  Setups        \* the bounds of an instance, see below

\* max_versions: versions of its data a cache goes through; max_id: identifiers it
\* may go through; max_under_way: PDUs that may be under way when a timer or the
\* cache sends another; expiry: whether the expire timer may fire on a live
\* connection.
ASSUME SessionAssumption ==
  /\ IsFiniteSet(Vrps)
  /\ SerialSpace \in Nat \ {0} /\ FirstSerial \in 0..(SerialSpace - 1)
  /\ Setups \subseteq [max_versions : 0..(SerialSpace \div 2 - 1), max_id : Nat, max_under_way : Nat, expiry : BOOLEAN]

VARIABLES
  setup,     \* one of Setups, chosen at the start
  session,   \* the task
  cache,     \* [id, versions]: the cache and the versions its data had
  queries,   \* PDUs on their way to the cache
  answers,   \* PDUs on their way to the router
  known,     \* what the manager holds for the cache
  event,     \* what the last step sent to the manager
  blamed     \* whether the last step sent an Error Report

vars == <<setup, session, cache, queries, answers, known, event, blamed>>

MaxVersions == setup.max_versions
MaxId == setup.max_id
MaxUnderWay == setup.max_under_way
Expiry == setup.expiry

None == -1

SerialOf(n) == (FirstSerial + n) % SerialSpace

\* Ord for Serial: the other one is ahead by less than half of the number space.
SerialLess(a, b) == (b - a) % SerialSpace \in 1..(SerialSpace \div 2 - 1)

NoEvent == [kind |-> "none"]

-----------------------------------------------------------------------------
(* The cache *)

Current == Len(cache.versions)

Content(n) == cache.versions[n]

\* The VRPs an answer announces and withdraws, in any order.
Changes(added, removed) ==
  {[pdu |-> "Prefix", announce |-> TRUE, vrp |-> v] : v \in added}
    \cup {[pdu |-> "Prefix", announce |-> FALSE, vrp |-> v] : v \in removed}

Responses(added, removed) ==
  LET changes == Changes(added, removed)
  IN  {<<[pdu |-> "CacheResponse", id |-> cache.id]>> \o listed
          \o <<[pdu |-> "EndOfData", serial |-> SerialOf(Current)]>> :
         listed \in Bijection(1..Cardinality(changes), changes)}

Answer(q) ==
  IF Current = 0 THEN {<<[pdu |-> "NoDataAvailable"]>>}
  ELSE IF q.pdu = "ResetQuery" THEN Responses(Content(Current), {})
  ELSE {<<[pdu |-> "CacheReset"]>>} \cup
       UNION {Responses(Content(Current) \ Content(n), Content(n) \ Content(Current)) :
                n \in {k \in 1..Current : q.id = cache.id /\ q.serial = SerialOf(k)}}

UnderWay == Len(queries) + Len(answers)

CacheAnswers ==
  /\ session.link = "up" /\ queries # <<>>
  /\ \E a \in Answer(Head(queries)) : answers' = answers \o a
  /\ queries' = Tail(queries)
  /\ event' = NoEvent /\ blamed' = FALSE
  /\ UNCHANGED <<setup, session, cache, known>>

\* New data; a connected router may be notified of it.
CacheUpdates ==
  /\ Current < MaxVersions
  /\ \E S \in SUBSET Vrps :
       /\ Current > 0 => S # Content(Current)
       /\ cache' = [cache EXCEPT !.versions = Append(@, S)]
  /\ \/ /\ session.link = "up" /\ UnderWay <= MaxUnderWay
        /\ answers' = Append(answers, [pdu |-> "SerialNotify", serial |-> SerialOf(Current + 1)])
     \/ UNCHANGED answers
  /\ event' = NoEvent /\ blamed' = FALSE
  /\ UNCHANGED <<setup, session, queries, known>>

-----------------------------------------------------------------------------
(* What the session does *)

HasSerial(s) == s.serial # None

ResetSession(s) == [s EXCEPT !.id = None, !.serial = None]

BuildQuery(s) ==
  IF s.id # None /\ HasSerial(s)
    THEN [pdu |-> "SerialQuery", id |-> s.id, serial |-> s.serial]
    ELSE [pdu |-> "ResetQuery"]

\* handle_disconnect: the connection is gone with all that was under way on it.
Disconnect(s) ==
  /\ session' = [s EXCEPT !.link = "down"]
  /\ queries' = <<>> /\ answers' = <<>>
  /\ event' = [kind |-> "Disconnected"]
  /\ UNCHANGED known

\* protocol_error: an Error Report, then a reconnect with a Reset Query.
ProtocolError == Disconnect(ResetSession(session)) /\ blamed' = TRUE

\* A query is written and the answer to it starts a new cycle, or the write fails
\* and the session ends in state t.
SendQuery(s, q, t, unread) ==
  \/ /\ session' = [s EXCEPT !.syncing = FALSE]
     /\ queries' = Append(queries, q)
     /\ answers' = unread
     /\ event' = NoEvent
     /\ UNCHANGED known
  \/ Disconnect(t)

Continue(s) ==
  /\ session' = s
  /\ event' = NoEvent
  /\ UNCHANGED <<queries, known>>

SerialNotify(m) ==
  IF HasSerial(session) /\ ~SerialLess(session.serial, m.serial)
    THEN Continue(session) /\ answers' = Tail(answers)
    ELSE SendQuery(session, BuildQuery(session), ResetSession(session), Tail(answers))

CacheResponse(m) ==
  IF session.id \notin {None, m.id} \/ session.syncing THEN ProtocolError
  ELSE /\ Continue([session EXCEPT !.id = m.id, !.syncing = TRUE,
                                   !.announced = {}, !.withdrawn = {}])
       /\ answers' = Tail(answers) /\ blamed' = FALSE

Prefix(m) ==
  LET duplicate == m.vrp \in session.announced \/ (HasSerial(session) /\ m.vrp \in session.vrps)
      unknown   == ~HasSerial(session) \/ m.vrp \notin session.vrps
  IN  IF ~session.syncing \/ (m.announce /\ duplicate) \/ (~m.announce /\ unknown)
        THEN ProtocolError
        ELSE /\ Continue(IF m.announce THEN [session EXCEPT !.announced = @ \cup {m.vrp}]
                         ELSE [session EXCEPT !.withdrawn = @ \cup {m.vrp}])
             /\ answers' = Tail(answers) /\ blamed' = FALSE

\* Mutant: the serial number is set before the VRPs are taken over.
EndOfData_SerialFirst(m) ==
  IF ~session.syncing THEN ProtocolError
  ELSE LET vrps == (session.vrps \cup session.announced) \ session.withdrawn
       IN  /\ session' = [session EXCEPT !.syncing = FALSE, !.vrps = vrps, !.serial = m.serial,
                                         !.announced = {}, !.withdrawn = {}]
           /\ event' = [kind |-> "Batch", serial |-> m.serial, vrps |-> vrps]
           /\ known' = vrps
           /\ answers' = Tail(answers) /\ blamed' = FALSE
           /\ UNCHANGED queries

\* Mutant: a cycle without announcements is not reported to the manager.
EndOfData_OnlyNews(m) ==
  IF ~session.syncing THEN ProtocolError
  ELSE LET vrps == IF HasSerial(session)
                     THEN (session.vrps \cup session.announced) \ session.withdrawn
                     ELSE session.announced
       IN  /\ session' = [session EXCEPT !.syncing = FALSE, !.vrps = vrps, !.serial = m.serial,
                                         !.announced = {}, !.withdrawn = {}]
           /\ event' = IF session.announced = {} THEN NoEvent
                       ELSE [kind |-> "Batch", serial |-> m.serial, vrps |-> vrps]
           /\ known' = IF session.announced = {} THEN known ELSE vrps
           /\ answers' = Tail(answers) /\ blamed' = FALSE
           /\ UNCHANGED queries

EndOfData(m) ==
  IF ~session.syncing THEN ProtocolError
  ELSE LET vrps == IF HasSerial(session)
                     THEN (session.vrps \cup session.announced) \ session.withdrawn
                     ELSE session.announced
       IN  /\ session' = [session EXCEPT !.syncing = FALSE, !.vrps = vrps, !.serial = m.serial,
                                         !.announced = {}, !.withdrawn = {}]
           /\ event' = [kind |-> "Batch", serial |-> m.serial, vrps |-> vrps]
           /\ known' = vrps
           /\ answers' = Tail(answers) /\ blamed' = FALSE
           /\ UNCHANGED queries

CacheReset ==
  LET s == [ResetSession(session) EXCEPT !.vrps = {}]
  IN  SendQuery(s, [pdu |-> "ResetQuery"], s, Tail(answers))

Receive ==
  /\ session.link = "up" /\ answers # <<>>
  /\ LET m == Head(answers)
     IN  CASE m.pdu = "SerialNotify"    -> SerialNotify(m) /\ blamed' = FALSE
           [] m.pdu = "CacheResponse"   -> CacheResponse(m)
           [] m.pdu = "Prefix"          -> Prefix(m)
           [] m.pdu = "EndOfData"       -> EndOfData(m)
           [] m.pdu = "CacheReset"      -> CacheReset /\ blamed' = FALSE
           [] m.pdu = "NoDataAvailable" ->
                Continue(session) /\ answers' = Tail(answers) /\ blamed' = FALSE
  /\ UNCHANGED <<setup, cache>>

-----------------------------------------------------------------------------
(* Connection, timers and shutdown *)

\* Mutant: a cycle the lost connection cut short counts as under way.
Connect_KeepsSyncing ==
  /\ session.link = "down"
  /\ session' = [session EXCEPT !.link = "up"]
  /\ queries' = <<BuildQuery(session)>>
  /\ event' = NoEvent /\ blamed' = FALSE
  /\ UNCHANGED <<setup, cache, answers, known>>

Connect ==
  /\ session.link = "down"
  /\ \/ /\ session' = [session EXCEPT !.link = "up", !.syncing = FALSE]
        /\ queries' = <<BuildQuery(session)>>
        /\ event' = NoEvent
     \/ /\ event' = [kind |-> "Disconnected"]
        /\ UNCHANGED <<session, queries>>
  /\ blamed' = FALSE
  /\ UNCHANGED <<setup, cache, answers, known>>

\* The connection ends, or what it delivers cannot be read.
LoseConnection ==
  /\ session.link = "up"
  /\ Disconnect(session) /\ blamed' = FALSE
  /\ UNCHANGED <<setup, cache>>

\* A restarted cache has a new identifier and serves no old connection.
CacheRestarts ==
  /\ cache.id < MaxId
  /\ cache' = [id |-> cache.id + 1, versions |-> <<>>]
  /\ IF session.link = "up" THEN Disconnect(session)
     ELSE event' = NoEvent /\ UNCHANGED <<session, queries, answers, known>>
  /\ blamed' = FALSE
  /\ UNCHANGED setup

RefreshTimer ==
  /\ session.link = "up" /\ session.id # None /\ HasSerial(session)
  /\ UnderWay <= MaxUnderWay
  /\ SendQuery(session, BuildQuery(session), session, answers)
  /\ blamed' = FALSE
  /\ UNCHANGED <<setup, cache>>

\* Mutant: the manager drops the VRPs and the session does not.
ExpireTimer_KeepsLocal ==
  /\ Expiry /\ session.link = "up"
  /\ event' = [kind |-> "Expired"]
  /\ known' = {} /\ blamed' = FALSE
  /\ UNCHANGED <<setup, session, cache, queries, answers>>

\* The deadline is only looked at while connected, and set anew on every connect.
ExpireTimer ==
  /\ Expiry /\ session.link = "up"
  /\ session' = [session EXCEPT !.vrps = {}]
  /\ event' = [kind |-> "Expired"]
  /\ known' = {} /\ blamed' = FALSE
  /\ UNCHANGED <<setup, cache, queries, answers>>

Shutdown ==
  /\ session.link # "ended"
  /\ session' = [session EXCEPT !.link = "ended"]
  /\ queries' = <<>> /\ answers' = <<>>
  /\ event' = NoEvent /\ blamed' = FALSE
  /\ UNCHANGED <<setup, cache, known>>

-----------------------------------------------------------------------------
Init ==
  /\ setup \in Setups
  /\ session = [id |-> None, serial |-> None, vrps |-> {}, syncing |-> FALSE,
                announced |-> {}, withdrawn |-> {}, link |-> "down"]
  /\ cache = [id |-> 0, versions |-> <<>>]
  /\ queries = <<>> /\ answers = <<>>
  /\ known = {} /\ event = NoEvent /\ blamed = FALSE

Next ==
  \/ Connect \/ LoseConnection \/ Receive \/ RefreshTimer \/ ExpireTimer \/ Shutdown
  \/ CacheAnswers \/ CacheUpdates \/ CacheRestarts

Spec == Init /\ [][Next]_vars

\* The task reads what arrives and refreshes, and the cache answers.  The expire
\* timer fires on a connection unless End of Data keeps setting it anew.  Attempts
\* to connect may fail for ever: nothing is assumed of Connect.
Fairness ==
  /\ WF_vars(Receive) /\ WF_vars(CacheAnswers) /\ WF_vars(RefreshTimer)
  /\ WF_vars(ExpireTimer) \/ []<>(event.kind = "Batch")

FairSpec == Spec /\ Fairness

-----------------------------------------------------------------------------
(* Properties *)

Serials == 0..(SerialSpace - 1)

TypeOK ==
  /\ session \in [id : {None} \cup 0..MaxId, serial : {None} \cup Serials, vrps : SUBSET Vrps,
                  syncing : BOOLEAN, announced : SUBSET Vrps, withdrawn : SUBSET Vrps,
                  link : {"down", "up", "ended"}]
  /\ cache.id \in 0..MaxId /\ \A n \in 1..Current : Content(n) \in SUBSET Vrps
  /\ known \in SUBSET Vrps /\ blamed \in BOOLEAN
  /\ event.kind \in {"none", "Disconnected", "Batch", "Expired"}
  /\ session.link # "up" => UnderWay = 0

\* Neither the expire timer nor a query sent before the last one was answered
\* comes between the session and its cache.
Undisturbed == ~Expiry /\ MaxUnderWay = 0

\* "Complete VRP set for this cache after this sync" (VrpBatch): the VRPs that
\* handle_msg_end_of_data sends to the manager are the cache's data at the
\* serial number it sends with them, whatever deltas, resets, reconnects and
\* lost connections led to it, as long as one exchange follows the other.
BatchIsComplete ==
  event.kind = "Batch" =>
    \E n \in 1..Current : SerialOf(n) = event.serial /\ event.vrps = Content(n)

BatchIsCacheState == Undisturbed => BatchIsComplete

\* A serial number kept across connections stands for data the session really
\* has: the next delta is computed by the cache from it, and
\* build_query asks for one as soon as there is a serial number.
SerialNamesVersion ==
  Undisturbed /\ HasSerial(session) /\ session.id = cache.id =>
    \E n \in 1..Current : SerialOf(n) = session.serial /\ session.vrps = Content(n)

\* Once a sync is complete the session's VRPs are those the manager has: the
\* deltas that follow are applied to local_vrps, and only the result is sent.  It
\* holds whatever the timers do and however queries and answers overlap.
ManagerAgrees == HasSerial(session) => known = session.vrps

\* protocol_error is for caches that break the protocol.  A conforming cache is
\* sent an Error Report only by a session that kept the identifier of the cache's
\* former life, from a first sync that was cut short.
BlamesOnlyRestartedCache ==
  [][blamed' /\ Undisturbed => session.id \notin {None, cache.id} /\ ~HasSerial(session)]_vars

Stable == <>[](session.link = "up") /\ <>[][UNCHANGED cache]_vars

\* On a connection that stays up, the refresh timer's Serial Queries bring a
\* router that has a serial number time and again to the cache's last version,
\* also when the cache answers with Cache Reset or its notifications are lost.
CatchesUp ==
  Undisturbed /\ Stable /\ []<>HasSerial(session) => <>[](Current = 0 \/ known = Content(Current))

\* "cache has no data available, will retry" (handle_msg_error_report): a cache
\* that has data in the end gets its data to a router that stays connected.
RetriesWithoutData == Stable /\ <>(Current > 0) => <>HasSerial(session)

\* "TCP connection lost. Data stays until expire." (CacheEvent::Disconnected):
\* data that no End of Data confirms any more is dropped in the end, the session
\* task running on.
DataExpires ==
  [](session.link # "ended") /\ <>[](event.kind # "Batch") => []<>(known = {})

\* What the session holds, and what it sends to the manager, is a version of the
\* cache's data under its serial number (handle_msg_end_of_data).
DataIsCacheState == BatchIsCacheState /\ SerialNamesVersion
=============================================================================
