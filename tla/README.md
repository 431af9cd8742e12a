# A TLA+ model of rogg

rogg is a BGP daemon (`bgpgg`) with a configuration library (`conf`) and a shell
(`ggsh`), written in asynchronous Rust. This directory holds TLA+ modules translated
from its source, TLC configurations that check them on small instances, and TLAPS
proofs for every value of the constants. `PROJECT.json` maps each definition to the
lines it models and lists runs, mutants, findings, hazards and theorems.

## The system and its parts

| Part | State | Operations | Hard behaviour |
|---|---|---|---|
| Peer task (`peer/`) | FSM state, up to two connections, timers, stop flag, restart state | server operations, messages, timers, dialling | collisions, DelayOpen, failed writes, stops and removals at any time |
| OPEN and message formats (`peer/messages.rs`, `bgp/`) | negotiated capabilities | OPEN, NOTIFICATION, ROUTE-REFRESH | both sides compute the same from different inputs |
| Server task (`server/`) | peers, sessions as reported, RIBs, VRP table | `ServerOp` and `MgmtOp`, one at a time | reports that arrive late, operations of removed tasks |
| RIBs (`rib/`, `peer/outgoing.rs`) | Adj-RIB-In, Loc-RIB, Adj-RIB-Out, path identifiers | update, export, refresh, re-evaluation | incremental export, coalesced UPDATEs |
| UPDATE (`bgp/msg_update*.rs`, `peer/outgoing.rs`, `peer/incoming.rs`) | pending updates | batching, encoding, reading | size limits, malformed attributes, two-octet speakers, MRAI |
| Graceful restart (`rib/stale.rs`, `server/ops.rs`) | stale marks, timers | disconnect, End-of-RIB, expiry | timers that fired but are still queued |
| RTR manager (`rpki/manager.rs`) | caches, sessions, VRPs per cache | commands and session events | failover between tiers, events of killed sessions |
| RTR session (`rpki/session.rs`) | session id, serial, VRPs, pending sets | PDUs, refresh and expire timers | cache restarts, lost connections, serial wrap |
| BMP (`bmp/`) | batch, connection | events, statistics | initial state against broadcasts, loss across reconnects |
| Configuration (`server/config.rs`, `conf/`, `ggsh/`) | running and stored configuration, snapshots, lock file, candidates | edit, commit, rollback, save, requests | two shells, partial failure, crashes between file operations |
| Policy (`policy/`, `grpc/`) | sets, policies | compile, evaluate, list, convert | conversions that lose something |

Each peer has one task and the server is one task. A peer task reports to the
server through an unbounded FIFO channel and receives operations through another.
The RTR manager receives events from its session tasks and sends VRP changes to
the server through the same channel as the peers. The server broadcasts to one task
per BMP collector. Shells talk to the server by gRPC and share the configuration
file, its snapshots and its lock file with it.

## Modules

**PeerFsm** is the transition table `Fsm::handle_event`. **PeerTask** is the task
around it. A step is one pass through a `select!`: the handler runs to completion,
as a composition of one operator per method, with error results in the field
`err`. Actions: `ReceiveOp`, `ReceiveClosed`, `ReceiveMessage`,
`ReceivePendingMessage`, `Dial`, the timers, `FlushRoutes`, `Settle` and
`ServerRemoves`. Left out: MRAI and End-of-RIB markers we send (module Outgoing),
statistics other than the count of OPENs. One address family stands for all in the
restart state.

**SessionReports** is an abstract specification: what the server may rely on in the
sequence of reports of a task. PeerTask implements it (`KeepsProtocol`, checked as a
refinement by `peer_active` and proved in PeerProtocolProofs), and PeerServer takes it
as the environment of the server instead of the task, so what is shown of PeerServer
holds for the real one.

**OpenExchange** is two speakers that open a session: what each puts in its OPEN,
the octets of capabilities, what the other reads, negotiates and refuses, and how
both then write and read. The second speaker may be an old one that knows no
capabilities, and is upgraded at a moment when both ends have dropped the connection.
Connections are lost, OPENs damaged and capabilities repacked. Lists of families whose
order no code looks at are sets.

**PeerServer** is the server's entry of one peer address: admin state, session as
reported, stale and fresh paths, restart, LLGR and refresh timers, max-prefix, and
the PeerUp and PeerDown messages. Tasks of earlier entries of the address may still
report. Its actions are the handlers of the `ServerOp`s that change this state, a VRP
update among them, and the management operations on a peer. `RouteRefresh` and
`LocalRibSent` only send to the peer, and the statistics only read. A path that a VRP
update imports again is fresh in the code; the model calls it "revived" when it was stale
or the peer has no session, so that the properties can tell it from one of a session.

**Propagation** is what the server does with routes, for one prefix. An action is
one operation of the server task. Attributes are numbers ordered by preference;
attribute rewriting (Outgoing), staleness and max-prefix (PeerServer) and the
link-state limit are left out. `told` and `said` are not in the code: they record
what a peer was sent and what it announced. **Monitoring** composes it with the BMP
exporter: every operation of Propagation is joined by what the server broadcasts,
and the tasks batch, flush, connect and lose connections in between.

**UpdateCodec** is the UPDATE message, with sizes in octets and the error classes of
RFC 7606; **Outgoing** is the export to one peer over it, from the Loc-RIB to what a
peer running the same code ends up with, including the pacing of UPDATEs by MRAI.

**RtrManager** has one action per command and event of the manager, the events
sessions may send, and the server's handling of a `VrpUpdate`. **CacheSession** is a
session task and the cache it talks to. The cache is external: it is modelled as
RFC 8210 describes it and as the code uses it.

**ConfLanguage** is the text of `rogg.conf`, its syntax tree and the checks of a
load; **ConfModel** the conversion to `BgpConfig` and back; **ConfEdit** the grammar
and the editing commands of the shell. **ExtCommunity** and **Policy** are
communities and policies with their evaluation and conversions, **CommunityForms** takes
an extended community through texts and messages. **Management** is
what the server does on start, reconfiguration and request. **ConfigSession** is the
protocol between shells, server and files; reading and writing texts, edits, and what
the server does with a configuration or a request are constant operators of it, which
`ConfigSession.cfg` binds to the definitions of the other modules (MCConfigSession).
**Decisions** takes a policy through all its forms, beside CommunityForms.

The `MC` modules declare model values and the setups of the instances. Several
modules have a variable `setup`, chosen in `Init` and never changed: one run then
covers several networks, sessions or scenarios.
The modules whose names end in `Proofs` hold the theorems.

## Runs that pass

| Run | Shows |
|---|---|
| `peer_active` | an active peer with DelayOpen: connections, timers, OPENs and reports to the server stay consistent, the `expect` of the two delay-open waits cannot fail, a stopped peer stays idle, a peer left alone in Active retries, and the reports follow SessionReports |
| `open_exchange` | two speakers agree on formats, families, hold time and the winner of a collision, restart times are the configured ones, only compatible speakers have a session and those that are get one, and messages mean the same to both |
| `server_peers` | the server's and the collector's picture of a session is the one the task reported, fresh paths belong to a session and are in the Adj-RIB-In, and stale ones do not stay stale, through restarts, refreshes, a removal and VRP updates |
| `route_export` | in six networks, Loc-RIB, Adj-RIB-Out, what the peers have and what BMP collectors have been shown fit together, through coalesced UPDATEs, VRP changes and loops |
| `update_wire` | for every kind of session, the peer holds what the Adj-RIB-Out records, damaged UPDATEs mislead nobody, and resets have a cause |
| `rtr_table` | the server's VRP table is on its way to the union of the caches, by updates that are all changes; an unreachable cache that is alone in its tier is followed by the next tier |
| `rtr_session` | session and manager agree on the VRPs; without expiry and with one query at a time, every batch is a version the cache had, and a router with a serial number on a lasting connection reaches the last version |
| `config_session` | two shells, API requests, a rollback, failed writes and crashes: the server runs its configuration, the file holds it at every moment, the version before is kept, no commit overwrites one it has not read, an edit changes the line it names |
| `decisions` | a policy decides alike and a community shows alike after any number of conversions; prefix lists match what their lines name; a route no policy decides on is treated by the kind of session |

A property that a run names may be the conjunction of several that belong together:

| Property | Conjuncts |
|---|---|
| `SpeakersAgree` | `FormatsAgree`, `RestartIsConfigured`, `WinnersAgree`, `MeansTheSame` |
| `SessionIsSeen` | `ServerAgreesWithTask`, `MonitorSeesSession` |
| `FreshIsLive` | `FreshHasSession`, `FreshIsInAdjIn` |
| `CollectorsAreShown` | `CollectorsSeeAdjIn`, `MonitoringIsFramed` |
| `NothingIsMisread` | `FaultsMisleadNobody`, `MarkersAreMarkers` |
| `DataIsCacheState` | `BatchIsCacheState`, `SerialNamesVersion` |
| `ServerRunsItsConfig` | `FileHoldsConfig`, `RunsWhatItSays` |
| `EditsAreFaithful` | `CandidateReads`, `EditIsLocal` |
| `DecidesAsWritten` | `FallbackDecidesTheRest`, `PrefixListsNameRoutes` |

Some hold under a restriction that matters, because they are false without it:

- `ExportsInSync` exempts peers that announce paths themselves and receive best
  paths only: `propagate_routes` passes over the originator. `route_withdrawn`
  shows the consequence.
- In `rtr_session`, what is said of batches and of catching up excludes expiry and
  overlapping queries. `LoneCacheFallsBack` is about an unreachable cache whose session
  is the only one of its tier; `rtr_fallback` shows that two unreachable caches of a tier
  are not followed by the next.
- `LocIsLastSaid` is about networks with coalesced UPDATEs or with VRP changes, and
  fails with both: a path announced and withdrawn in one batch is in the Adj-RIB-In,
  and `handle_vrp_update` brings it back. `RibOutIsTold` passes with `Oversize` empty. `ActiveRetriesWhenQuiet`
  assumes that the server leaves the task alone.
- `server_peers` excuses an entry that handled an operation of an earlier task of
  its address (`past.mixed`), a peer stopped at its limit (`past.limit`) and one with
  a family outside its graceful restart (`past.partial`). An UPDATE with a family
  that was not negotiated may cost withdrawals (`disabled`). `FreshIsInAdjIn` is about
  `AllowAutoStop`: without it an update over a limit changes the Adj-RIB-In and not
  the Loc-RIB, and its withdrawals are lost there. `FreshHasSession` leaves out paths that
  a VRP update imported again while the peer was away: `handle_vrp_update` goes through
  every Adj-RIB-In, retained ones included, and `upsert_path_in_route` clears the stale
  mark. `StaleIsCleared` counts such a path as no longer stale; nothing removes it before
  the peer is back (`RetainedIsCleared`, which holds when no VRP update comes).
- `PeerHoldsWhatIsRecorded` leaves out what cannot be encoded: withdrawals beyond
  one message (`TooLong`), a segment of more than 255 numbers (`Encodable`), a next
  hop of the other family (`CrossFamily`), what two-octet AS numbers cannot express
  (`Lossy`); and sessions with MRAI on which an update was overtaken (`pace.mixed`):
  an UPDATE taken from the queue when the interval has just elapsed goes out ahead of
  those that wait, and those survive a disconnect.
- `FaultsMisleadNobody` is about the life of a session. Over a message that ends before
  its attribute length the task panics: nobody tells the server, which keeps the routes
  and does not notice that what it sends is not read (`TaskPanics`, `ChangesUnheard`).
- `FormatsAgree`, `SessionsAreCompatible` and `WinnersAgree` are about speakers that
  have not suppressed their capabilities.
- `FileHoldsConfig` leaves out requests not saved (`unsaved`) and configurations the
  language cannot say (`Writable`): a peer with fields only the API sets, a policy part
  without words, a value the printer writes so that the tokeniser reads another. That the
  daemon starts from the file needs the policies to find their sets (`ContextOk`), which a
  commit does not check. `RunsWhatItSays` leaves out a server whose commit failed half-way
  (`dirty`). A commit does not touch the daemon-wide values of running peers, the
  policies in use and the parameters of an RPKI cache that is already there;
  `RunsWhatItSays` says what it does touch.
- `EditsAreFaithful`: `CandidateReads` is about plain values, those without a quote inside
  quotes and without a blank, `#` or brace where the printer adds no quotes. `EditIsLocal`
  allows for `quote_if_needed`, which takes quotes out of a system name, and for a prefix
  its list already has, which is left as it is whatever range the command gives.
- `NoLostCommit` leaves out a version whose shell no longer held the lock file when it
  was written (`late`). `PreviousVersionKept` is about fewer crashes and failed writes
  than there are snapshots: each can move the previous version one slot towards the end.
- `PoliciesUseCurrentSets` is about the server's own context; a peer keeps the
  policies resolved at its last handshake (`handle_peer_handshake_complete`) or by a
  policy assignment.
- `CollectorsSeeAdjIn` is about a collector none of whose writes failed: nothing is
  sent again after a reconnect.
- `DecidesAlike` and `CommunitiesSurvive` leave out what a gRPC message has no field
  for; `PrefixListsNameRoutes` networks of length zero.

## Runs that end in a violation

Each checks what a comment of the code says and finds the code doing otherwise;
`findings` in `PROJECT.json` quotes the comment.
A comment that is merely out of date has no run: the one on
`to_conf_str` (`conf/src/bgp.rs:1380`) has BMP servers and sets omitted, which
`to_bgp_service_body` writes and ConfModel models.

| Run | Disagreement |
|---|---|
| `peer_removed` | a Shutdown in Connect or Active is lost |
| `route_withdrawn` | a peer keeps a route that is gone |
| `rtr_fallback` | two unreachable caches of a tier: neither failure starts the next tier |

### Refuted claims without a run of their own

TLC refutes these too, on the instance given. They have no configuration here, so
nothing repeats them; the definitions are in the modules.

| Property | Instance | What happens |
|---|---|---|
| `ManualStopIsRemembered` | `peer_active` without fairness | a ManualStop handled in Idle is dropped |
| `NoTimersWithoutHoldTime` | `peer_active` without fairness | the Hold timer is started with a hold time of zero |
| `ActiveRetries` | `peer_active` under `FairSpec` | operations more frequent than the retry time postpone it forever |
| `RoutesAreOfSession` | `peer_active` without fairness | routes collected before a disconnect are reported with those of the next session; to the server they look alike |
| `NotificationAfterOpen` | `peer_active` without fairness | a NOTIFICATION goes out before the OPEN of its connection |
| `PassiveNeverDials` | Passive and DelayOpen | a passive peer dials; without DelayOpen the property holds |
| `FourOctetIsMutual` | the old speaker is upgraded | capabilities once suppressed stay so (`capabilities_suppressed`, `peer/messages.rs:560`), and the sides differ in AS number size |
| `DeadSessionsHoldNothing` | two caches, two VRPs | a batch queued before a kill leaves its VRPs behind |
| `BatchIsComplete` | one version of three, expiry | after expiry the serial number is kept, so a batch is not the cache's data (`rpki/manager.rs:100`) |
| `BatchIsComplete` | overlapping queries | two answers from the same base are applied one on the other |
| `RetriesWithoutData` | one version, no expiry, fairness | a cache without data is not asked again |
| `DataExpires` | one version, expiry, fairness | data of an unreachable cache does not expire |
| `RibOutIsTold` | attributes in `oversize` | an UPDATE that was not sent is recorded as exported |
| `RibOutIsExported` | `update_wire`, blocks of 900 routes | the same on the level of messages (`rib_out.rs:23`) |
| `LsWithdrawalsAreRead` | link-state session with damage | treat-as-withdraw collects IP routes only (`msg_update.rs:714`) |
| `RoutesEndWithSession` | `update_wire` | a message that ends before its attribute length makes the task panic, and its routes stay (`msg_update.rs:650`) |
| `RetainedIsCleared` | `server_peers` | a path retained for a restarting peer and imported again by a VRP update is no longer stale, and no timer removes it |
| `LocIsLastSaid` | batches of two and VRP changes | a withdrawn route returns with a VRP update |
| `NoLoopedPath` | batches of two; VRP changes | the loop checks look at the first announcement; a VRP update does not repeat them |
| `AcceptedIsUsed` | VRP changes, two peers | a path that became acceptable is not used |
| `StatisticsFollowPeerUp` | a collector | statistics are written past the batch that holds the PeerUp |
| `MutationsRefusedInSession` | a shell in configure mode | some requests do not take the lock (`conf/src/fs.rs:20`) |
| `RollbackRecovers` | a commit that failed half-way | the rollback computes its changes from the configuration that never took effect (`server/config.rs:31`) |
| `EveryFileStarts` | `config_session` | a commit that removes a set in use writes a file the daemon refuses |
| `EveryCandidateReads` | `config_session` | a `#` or brace in a value that is printed without quotes, or a quote in one printed with them, reads back as something else |
| `DefaultContainsAll` | a prefix list with 0.0.0.0/0 | the mask of length zero is a shift by the full width (`net/mod.rs:67`) |

## Bounds

- PeerTask: `MaxDown` is where the model stops counting failures. The code looks
  at whether the count is zero, and at its size only for the length of a delay.
- OpenExchange: each setup is a pair of configurations with one or two faults; the
  pairs cross the values at which the code decides (AS numbers around 65535 and
  AS_TRANS, hold times 0, 2 and 30, restart times at the 12-bit limit).
- PeerServer: a family with two keys and one with one, two tasks of an address, a
  queue of two; a limit of one prefix is exceeded by the second key. A task reports only
  while at most `waiting` operations are queued, which the proofs leave open. VRP updates
  touch one key (`vrps`), any keys in the proofs.
- Propagation: each kind of peer occurs at most a few times, two attribute values
  make one path better than another, and a batch of two has an order. A VRP update goes
  through the peers in any order, as the iteration over a hash map does. Two collectors
  are checked without routes, one with them; a BMP address is used again only when
  its old task has ended. `BatchSize` stands for the hundred messages of a batch and
  `MaxWaiting` bounds the broadcast queue.
- Outgoing: a Loc-RIB of two keys per setup; a key may stand for hundreds of routes,
  which is how the size limits come into play. With MRAI one key and at most
  `MaxWaiting` updates in each queue.
- RtrManager: three caches in two tiers allow a tier of two and a fallback, and one
  of them is unreachable (two in `rtr_fallback`). The queues hold one event and two updates; the proofs need
  no bound.
- CacheSession: three versions wrap a serial number of `SerialSpace` = 8 values that
  starts at five. An answer lists its changes in any order. Two session identifiers are one restart. `max_under_way` bounds the PDUs on
  the wire when a timer or the cache sends another; zero means no overlap.
- ConfigSession: two shells, two snapshots, and per scenario a few edits, requests
  and faults; three scenarios have values that the language does not read back, a policy
  whose set goes away, and names the server reserves.
- Decisions: all conversions in any order from each of the starting policies and
  communities; the probes are routes on both sides of every condition.

Deadlock checking is off where the system may stop: a peer task that ended, a
session that was shut down, a server without input, an OPEN exchange that is over,
shells that have quit. `rtr_table`, `update_wire` and `decisions` check it.

## Fairness

PeerTask: the loop handles an input that is ready, and a `select!` picks among
ready arms at random, hence strong fairness of `ConnectRetry` in `Fairness`, the
assumption of `peer_removed`. `peer_active` needs only `RetryFairness`: a sleep ends
unless operations interrupt it forever, and its end is acted on. Nothing is assumed
of the peer or the network.
PeerServer: the server takes what is queued (weak), timers fire (strong only because
the queue of the model is bounded; in the code a due timer can always fire).
OpenExchange: a speaker without a session dials again, and what is sent on a
connection arrives; faults are bounded by the setup.
RtrManager: queues are served, and a session that cannot connect keeps reporting.
CacheSession: the task reads, the refresh timer fires, the cache answers; attempts
to connect may fail forever. The other modules have no liveness property.

## Proofs

Every theorem is `Spec => []P` or `Spec => A` for an action property or a refinement
`A`, for every value of the constants that satisfies the module's named assumption.
The assumptions give constants their types and leave sizes open: sets of peers,
VRPs, caches, shells, keys or collectors are arbitrary (finite where the code counts
them), queues, batches and numbers of versions have any length. `theorems` in
`PROJECT.json` lists the results; each proof module opens with its argument.

**PeerTaskProofs**: `TypeOK`, `CollisionWindow`, `DelayOpenHasConnection`,
`IdleIsQuiet`, `SessionHasOpen`, `SessionIsTimed`, `ServerAgrees` and the action
property `StoppedStaysIdle`, from `ConfigAssumption`. The properties are not
inductive: a handler passes through states in which they fail, and they say nothing
of a task without a connection. `PeerOK` adds that such a task carries nothing of a
session, that no OPEN counts as sent in Connect and Active, and that the server knows
the AS number from OpenConfirm on. The lemmas follow the call graph: methods that end
a session lead to `Torn`, methods that start one to `Fresh` or to an error that
becomes a disconnect.

**PeerProtocolProofs**: `KeepsProtocol`, that the task implements SessionReports, from
the invariant of PeerTaskProofs. The lemmas follow the call graph once more with what a
step has said so far: nothing (`Begun`), the end of a session (`Ending`, after which a
second disconnect of the same step says nothing), or the one report that comes before a
new session is announced (`Shaken`, `Joined`). What has been said at the end of a step
is a script of the protocol (`Done`).

**PeerServerProofs**: `SessionIsSeen` and `FreshIsLive`, from `PeerServerAssumption`,
with the protocol as the environment, which the previous theorem justifies. Task and
server are compared by properties only when nothing waits. The task may be ahead by
the whole queue, so the invariant says that the operations in the queue lead, each
allowed by the protocol, from what the server knows to what the task has said
(`Leads`, `ServerFollowsTask`); that a collector has a session exactly when the server
has one is then a fact about single handlers (`CollectorHasBmp`). VRP updates are in the
same queue and come from no task, so they lead nowhere.

**PropagationProofs**: `PathIdsDistinct`, `RibOutIsTold`, `ExportsInSync`,
`LocIsValidated` and `LocIsLastSaid`, from `PropagationAssumption`. `Rib` says that a
Loc-RIB has one path per source and distinct identifiers, which is why re-using the
identifier of a replaced path and freeing that of a removed one are safe; the rest
relates the Adj-RIB-In to the Loc-RIB, and the Adj-RIB-Out to both and to what was
sent. `apply_peer_update` and the loop of `handle_vrp_update` are recursive functions
on the index of an element. That such a function exists and that all its stages have
a property that each step preserves are two lemmas (`FunctionExists`, `AllStages`),
proved by a least counterexample, since induction over data is not available.

**MonitoringProofs**: `CollectorsAreShown`, from `MonitoringAssumption` and the
invariant of Propagation. A collector lags behind by what its task has batched and what
waits for the task; `ToldTo` is what it will have read when all that is written.
Every broadcast changes that and the server's state alike, and the task only moves the
border (`Faithful`). `MonitoringOnlyWatches` is a refinement: with collectors, the
route processing is Propagation's, whose theorems therefore hold beside them.

**OpenExchangeProofs**: `SpeakersAgree` and `SessionsAreCompatible`, for every pair of
configurations, an old speaker and its upgrade included. A speaker knows of the other
only what came over the connection, and the properties speak of two speakers that have
both read an OPEN, so neither is inductive. The invariant `Inv` says of every message on its
way that it is one no speaker takes (`Spoiled`) or says what is so of its sender
(`Faithful`): an OPEN has parameters the sender can have sent (`Advertised`), a
KEEPALIVE means that the sender took the other's OPEN (`Accepted`), a NOTIFICATION or
refresh was said. Of a speaker that has taken an OPEN it says what is then negotiated
from it (`Judged`). That two such outcomes fit is a fact about two configurations; that
a NOTIFICATION reads as the error it was written for is one about the tables of codes.
`SetupsAssumption` asks that configured families are ones the codec knows and that the
optional parameters take fewer than 256 octets: their length is a `u8` and wraps beyond,
which takes twelve or more families with LLGR.

**RpkiProofs**, of a session: `TypeOK`, `DataIsCacheState`, `ManagerAgrees` and the action
property `BlamesOnlyRestartedCache`, from `SessionAssumption`, for any `SerialSpace`
(2^32 in the code) of which the cache uses less than half. The properties are
about moments between exchanges. `Exchange` says which PDUs can be on a connection, and
`Leads` that the rest of an answer, with what was read of it, takes the session from
the data it has to a version of the cache.

Of the manager: `ManagerTypeOK`, `TableFollowsCaches`, `SessionsAreConfigured` and the
action property `UpdatesAreChanges`, from `ManagerAssumption`. Updates are computed
now and applied later, so the invariant speaks of the table after the whole queue and,
for `UpdatesAreChanges`, after every prefix of it (`Real`).

**ConfigProofs**, of the configuration sessions: `NoLostCommit` and `PreviousVersionKept`, from
`ShellsAssumption`, `SnapshotAssumption` and `FaultsAssumption`. Nothing is assumed of
the constant operators, so both hold whatever the texts, configurations and requests
are. The lock is advisory and a shell can hold one on a file that no path names; what
protects a session is the UUID. The invariant: a holder's UUID is in the file
it holds (`HoldersSign`), and a session whose UUID is in the file at the path has
seen every version but those written by sessions that had lost the file (`Current`).
For the snapshots, the file operations up to any point are one shift by one slot below
a hole (`Shifted`, `AfterIs`), so the previous version is among the first `n + 1`
slots after `n` failures (`Kept`).

Of the communities in a configuration: `CommunitiesSurvive`, for each of the 2^64 extended communities,
without an assumption. Neither conversion is the identity: reserved octets become
zero, a NaN the usual one, and a four-octet AS number below 65536 a two-octet one, which
changes the type. The invariant (`CommunityInv`) is therefore about what both keep
(`Same`): eight octets, the text, the transitivity, and that a message can carry them.
The last is needed because text and message alternate. `CommunitiesStayValid` says that
no text or message written on the way is refused. There is one lemma per kind of text and
one per kind of message; the steps of Decisions on a community are those of
`CommunitySpec`.

What stays with TLC:

- Liveness (`ActiveRetriesWhenQuiet`, `StaleIsCleared`, `CompatibleMeet`,
  `LoneCacheFallsBack`, `CatchesUp`): fairness is out of the prover's reach.
- `ServerRunsItsConfig`, `PoliciesUseCurrentSets` and `EditsAreFaithful`: they depend on
  what the parser and the printer of the language compute, which are RECURSIVE
  operators on trees, and so on induction over data.
- `DecidesAlike` and `DecidesAsWritten`: a policy goes through the same language, and
  its statements through conversions and evaluations that are folds over lists.
- `PeerHoldsWhatIsRecorded` and `NothingIsMisread`: they compare what the UPDATE codec
  writes and reads for lists of attributes and blocks of routes of any length, again by
  induction over data; the run goes through chosen inputs.

## Not modelled

- The inside of link-state NLRI and attributes (`bgp/bgpls*.rs`, `grpc/proto_ls.rs`):
  a TLV codec without state or decisions; keys and attributes are opaque here.
- Prefix tries (`table/`) and the VRP trie: that they implement maps and longest
  matches is a data-structure property, left to their unit tests.
- The octets of RTR PDUs and BMP messages, SSH transport, telemetry formats, log
  texts, system calls (TCP MD5, GTSM), and the shell's commands that only show
  things.
- gRPC conversions other than policies and communities: they copy fields.
- The link-state capacity limit, ROUTE-REFRESH messages the server itself asks a
  peer for, and message counters.
- Times: a timer that runs may fire at any moment; the lengths of back-off and
  damping delays do not appear.
