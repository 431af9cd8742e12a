---------------------------- MODULE OpenExchange ----------------------------
(***************************************************************************)
(* Two speakers open a session: the OPEN each builds from its              *)
(* configuration (peer/messages.rs), its encoding and reading              *)
(* (bgp/msg_open.rs, bgp/msg_open_types.rs), what each negotiates from the *)
(* other's capabilities and how it then writes and reads messages          *)
(* (peer/mod.rs), the NOTIFICATION that refuses                            *)
(* (bgp/msg_notification.rs), ROUTE-REFRESH (bgp/msg_route_refresh.rs) and *)
(* the header of every message (bgp/msg.rs).                               *)
(*                                                                         *)
(* Speaker 1 is this program.  Speaker 2 is this program too, or an older  *)
(* one without capabilities, which may be replaced.  A family is its pair  *)
(* of numbers <<AFI, SAFI>>; a capability is its code, a number it starts  *)
(* with and entries of a family, a flag or mode, and a time.               *)
(***************************************************************************)
EXTENDS Integers, Sequences, Functions

CONSTANT
    Setups        \* [cfg, old, max_events]: two configurations, whether 2 starts as an old
                  \* speaker, and the bound on losses, faults, repackings, refreshes,
                  \* NOTIFICATIONs and upgrades

VARIABLES
    setup,        \* member of Setups, fixed
    old,          \* speaker 2 knows no capabilities
    peer,         \* per speaker: phase, suppressed, caps, ebgp, hold, wins, heard, said
                  \* (what its NOTIFICATIONs and refreshes of this connection meant)
    wire,         \* per speaker: the messages on their way to it
    damaged,      \* this connection carried a faulty message
    events

vars == <<setup, old, peer, wire, damaged, events>>
Speakers == {1, 2}
Other(s) == 3 - s
cfg == setup.cfg
None == <<>>
Some(x) == <<x>>

-----------------------------------------------------------------------------
(***************************************************************************)
(* Errors and their numbers in a NOTIFICATION.                             *)
(***************************************************************************)

Meant(kind, sub, fam) == [kind |-> kind, sub |-> sub, fam |-> fam]
BgpErrorIs(kind, sub) == Meant(kind, sub, <<0, 0>>)
OpenError(sub) == BgpErrorIs("OpenMessageError", sub)
HeaderError(sub) == BgpErrorIs("MessageHeaderError", sub)

ErrorCode == <<"MessageHeaderError", "OpenMessageError", "UpdateMessageError", "HoldTimerExpired",
               "FiniteStateMachineError", "Cease", "RouteRefreshMessageError">>
\* The enumerations by number; - is a number without a name.
SubcodeFrom ==
    [MessageHeaderError |-> <<"ConnectionNotSynchronized", "BadMessageLength", "BadMessageType">>,
     OpenMessageError |-> <<"UnsupportedVersionNumber", "BadPeerAs", "BadBgpIdentifier",
                            "UnsupportedOptionalParameter", "-", "UnacceptedHoldTime", "UnsupportedCapability">>,
     UpdateMessageError |-> <<"MalformedAttributeList", "UnrecognizedWellKnownAttribute", "MissingWellKnownAttribute",
                              "AttributeFlagsError", "AttributeLengthError", "InvalidOriginAttribute", "-",
                              "InvalidNextHopAttribute", "OptionalAttributeError", "InvalidNetworkField",
                              "MalformedASPath">>,
     HoldTimerExpired |-> <<>>,
     FiniteStateMachineError |-> <<>>,
     Cease |-> <<"MaxPrefixesReached", "AdministrativeShutdown", "PeerDeconfigured", "AdministrativeReset",
                 "ConnectionRejected", "OtherConfigurationChange", "ConnectionCollisionResolution", "OutOfResources">>,
     RouteRefreshMessageError |-> <<"InvalidMessageLength">>]
\* The numbers each is written with.
error_code_table ==
    [MessageHeaderError |-> 1, OpenMessageError |-> 2, UpdateMessageError |-> 3, HoldTimerExpired |-> 4,
     FiniteStateMachineError |-> 5, Cease |-> 6, RouteRefreshMessageError |-> 7, Unknown |-> 0]
Numbers ==
    [ConnectionNotSynchronized |-> 1, BadMessageLength |-> 2, BadMessageType |-> 3,
     UnsupportedVersionNumber |-> 1, BadPeerAs |-> 2, BadBgpIdentifier |-> 3, UnsupportedOptionalParameter |-> 4,
     UnacceptedHoldTime |-> 6, UnsupportedCapability |-> 7,
     MalformedAttributeList |-> 1, UnrecognizedWellKnownAttribute |-> 2, MissingWellKnownAttribute |-> 3,
     AttributeFlagsError |-> 4, AttributeLengthError |-> 5, InvalidOriginAttribute |-> 6,
     InvalidNextHopAttribute |-> 8, OptionalAttributeError |-> 9, InvalidNetworkField |-> 10, MalformedASPath |-> 11,
     MaxPrefixesReached |-> 1, AdministrativeShutdown |-> 2, PeerDeconfigured |-> 3, AdministrativeReset |-> 4,
     ConnectionRejected |-> 5, OtherConfigurationChange |-> 6, ConnectionCollisionResolution |-> 7,
     OutOfResources |-> 8, InvalidMessageLength |-> 1, Unspecific |-> 0]
error_code(e) == error_code_table[e.kind]
error_subcode_OffByOne(e) == IF e.sub \in DOMAIN Numbers THEN Numbers[e.sub] - (IF Numbers[e.sub] > 7 THEN 1 ELSE 0) ELSE 0
error_subcode(e) == IF e.sub \in DOMAIN Numbers THEN Numbers[e.sub] ELSE 0
\* BgpError::new
BgpError(code, sub) ==
    IF code \notin DOMAIN ErrorCode THEN BgpErrorIs("Unknown", "-")
    ELSE LET kind == ErrorCode[code]
             names == SubcodeFrom[kind]
         IN BgpErrorIs(kind, IF names = <<>> THEN "-"
                             ELSE IF sub \in DOMAIN names /\ names[sub] # "-" THEN names[sub] ELSE "Unspecific")

-----------------------------------------------------------------------------
(***************************************************************************)
(* Messages and their header (bgp/msg.rs).                                 *)
(***************************************************************************)

HEADER == 19
MAX_MESSAGE_SIZE == 4096
Closed == [type |-> "CLOSED"]
\* Message::serialize
Message(type, bodyLen, body) == [type |-> type, len |-> HEADER + bodyLen, marker |-> TRUE, body |-> body]
KeepaliveMessage == Message("KEEPALIVE", 0, <<>>)
NotificationMessage(e) == Message("NOTIFICATION", 2, <<error_code(e), error_subcode(e)>>)
notification_from_bytes(body) == BgpError(body[1], body[2])

validate_marker(m) == m.marker
validate_length(m) ==
    /\ m.len \in HEADER .. MAX_MESSAGE_SIZE
    /\ m.type = "KEEPALIVE" => m.len = HEADER
    /\ m.type = "NOTIFICATION" => m.len >= 21
validate_message_type(m) == m.type \in {"OPEN", "UPDATE", "NOTIFICATION", "KEEPALIVE", "ROUTE_REFRESH"}
\* read_bgp_message_bytes: the error in the header, if any.
read_bgp_message_bytes(m) ==
    CASE ~validate_marker(m) -> Some(HeaderError("ConnectionNotSynchronized"))
      [] validate_marker(m) /\ ~validate_length(m) -> Some(HeaderError("BadMessageLength"))
      [] validate_marker(m) /\ validate_length(m) /\ ~validate_message_type(m) -> Some(HeaderError("BadMessageType"))
      [] OTHER -> None

AfiTryFrom(afi) == afi \in {1, 2, 16388}
SafiTryFrom(safi) == safi \in {1, 2, 4, 71, 72}
Known(fam) == AfiTryFrom(fam[1]) /\ SafiTryFrom(fam[2])
Ipv4Unicast == <<1, 1>>

\* ROUTE-REFRESH: subtypes 0, 1 (BoRR) and 2 (EoRR); any other is unknown.
RouteRefreshSubtype == <<"BoRR", "EoRR">>
SubtypeFrom(n) == CASE n = 0 -> "Normal" [] n \in DOMAIN RouteRefreshSubtype -> RouteRefreshSubtype[n] [] OTHER -> "Unknown"
RouteRefreshMessage(fam, n) == Message("ROUTE_REFRESH", 4, <<fam[1], n, fam[2]>>)
\* RouteRefreshMessage::from_bytes: [error], [fam, subtype]
route_refresh_from_bytes(m, enhanced_rr) ==
    LET subtype == SubtypeFrom(m.body[2])
        fam == <<m.body[1], m.body[3]>>
    IN CASE m.len # HEADER + 4 /\ enhanced_rr /\ subtype \in {"BoRR", "EoRR"} /\ m.len >= HEADER + 3 ->
                [error |-> Some(BgpErrorIs("RouteRefreshMessageError", "InvalidMessageLength"))]
         [] m.len = HEADER + 4 /\ ~Known(fam) -> [error |-> Some(BgpErrorIs("UpdateMessageError", "OptionalAttributeError"))]
         [] m.len = HEADER + 4 /\ Known(fam) -> [error |-> None, refresh |-> Meant(subtype, "-", fam)]
         [] OTHER -> [error |-> Some(HeaderError("BadMessageLength"))]

-----------------------------------------------------------------------------
(***************************************************************************)
(* Capabilities (bgp/msg_open_types.rs, bgp/multiprotocol.rs).             *)
(***************************************************************************)

AS_TRANS == 23456
MAX_2BYTE_ASN == 65535
Multiprotocol == 1
RouteRefresh == 2
GracefulRestart == 64
FourOctetAsn == 65
AddPath == 69
EnhancedRouteRefresh == 70
Llgr == 71

\* A restart time has 12 bits, and the flag for a restart is above them; a stale time has 24.
Bits12 == 4096
Bits15 == 32768
Bits24 == 16777216
Entry(fam, flag, time) == [fam |-> fam, flag |-> flag, time |-> time]
Capability(code, head, entries) == [code |-> code, head |-> head, entries |-> entries]
\* Entries made of the families of a list, in its order.
Per(fams, flag, time) == [i \in 1..Len(fams) |-> Entry(fams[i], flag, time)]
new_multiprotocol(fam) == Capability(Multiprotocol, 0, <<Entry(fam, 0, 0)>>)
new_graceful_restart_Octet(time, fams) == Capability(GracefulRestart, time % 256, Per(fams, 0, 0))
new_graceful_restart(time, fams) == Capability(GracefulRestart, time % Bits12, Per(fams, 0, 0))
new_four_octet_asn(asn) == Capability(FourOctetAsn, asn, <<>>)
new_llgr(fams, time) == Capability(Llgr, 0, Per(fams, 0, time % Bits24))
new_add_path(fams, mode) == Capability(AddPath, 0, Per(fams, mode, 0))
CapabilityLen(c) ==
    2 + CASE c.code \in {Multiprotocol, FourOctetAsn} -> 4
          [] c.code = GracefulRestart -> 2 + 4 * Len(c.entries)
          [] c.code = AddPath -> 4 * Len(c.entries)
          [] c.code = Llgr -> 7 * Len(c.entries)
          [] OTHER -> 0

\* AddPathMode: 1 receive, 2 send, 3 both.
from_flags(send, receive) == (IF receive THEN 1 ELSE 0) + (IF send THEN 2 ELSE 0)
can_send(mode) == mode \in {2, 3}
can_receive(mode) == mode \in {1, 3}
\* afi_safi_from_capability_bytes, as_graceful_restart, as_add_path, as_llgr:
\* what is not known is skipped.
KnownEntries(c) == {e \in Range(c.entries) : Known(e.fam)}
FamiliesOf(entries) == {e.fam : e \in entries}
afi_safi_from_capability_bytes(c) == FamiliesOf(KnownEntries(c))
as_graceful_restart(c) == [restart_time |-> c.head % Bits12, restart_state |-> c.head >= Bits15, entries |-> KnownEntries(c)]
as_add_path(c) == {e \in KnownEntries(c) : e.flag \in 1 .. 3}
as_llgr(c) == KnownEntries(c)

\* The optional parameters: a sequence of [caps], one per parameter.  A
\* capability is at <<parameter, place in it>>.
ParamsLen(params) ==
    SumFunction([i \in DOMAIN params |->
        2 + SumFunction([j \in DOMAIN params[i].caps |-> CapabilityLen(params[i].caps[j])])])
At(params, x) == params[x[1]].caps[x[2]]
With(params, code) ==
    {x \in UNION {{<<i, j>> : j \in DOMAIN params[i].caps} : i \in DOMAIN params} : At(params, x).code = code}
Before(x, y) == x[1] < y[1] \/ (x[1] = y[1] /\ x[2] <= y[2])
First(params, code) == At(params, CHOOSE x \in With(params, code) : \A y \in With(params, code) : Before(x, y))
Last(params, code) == At(params, CHOOSE x \in With(params, code) : \A y \in With(params, code) : Before(y, x))
Has(params, code) == With(params, code) # {}
find_four_octet_asn(params) == IF Has(params, FourOctetAsn) THEN Some(First(params, FourOctetAsn).head) ELSE None

-----------------------------------------------------------------------------
(***************************************************************************)
(* OPEN (peer/messages.rs, bgp/msg_open.rs).                               *)
(***************************************************************************)

advertised_afi_safis(c) == IF c.families = <<>> THEN <<Ipv4Unicast>> ELSE c.families
When(cond, cap) == IF cond THEN <<cap>> ELSE <<>>
build_optional_params(c) ==
    LET fams == advertised_afi_safis(c)
        mode == from_flags(c.send, c.receive)
    IN <<[caps |-> [i \in 1..Len(fams) |-> new_multiprotocol(fams[i])]
                   \o <<Capability(RouteRefresh, 0, <<>>), Capability(EnhancedRouteRefresh, 0, <<>>)>>
                   \o When(c.gr, new_graceful_restart(c.restart_time, fams))
                   \o <<new_four_octet_asn(c.asn)>>
                   \o When(c.llgr # <<>>, new_llgr(c.llgr, c.stale_time))
                   \o When(mode # 0, new_add_path(fams, mode))]>>
\* OpenMessage::to_bytes; fits: the length of the parameters is theirs;
\* tlvs: none of them, and no capability in them, ends past its container.
OpenBody(c, params) ==
    [version |-> 4, asn |-> IF c.asn > MAX_2BYTE_ASN THEN AS_TRANS ELSE c.asn, hold |-> c.hold,
     id |-> c.id, fits |-> TRUE, tlvs |-> TRUE, params |-> params]
OpenMessage(c, params) == Message("OPEN", 10 + ParamsLen(params), OpenBody(c, params))
build_open_message(c, suppressed) == OpenMessage(c, IF suppressed THEN <<>> ELSE build_optional_params(c))

validate_version(o) == o.version = 4
validate_hold_time(o) == o.hold \notin {1, 2}
validate_bgp_identifier(o) == o.id # 0
\* OpenMessage::from_bytes: an error or the AS number of the peer.
open_from_bytes(o) ==
    IF ~o.fits THEN [error |-> Some(OpenError("Unspecific"))]
    ELSE IF ~validate_version(o) THEN [error |-> Some(OpenError("UnsupportedVersionNumber"))]
    ELSE IF ~validate_hold_time(o) THEN [error |-> Some(OpenError("UnacceptedHoldTime"))]
    ELSE IF ~validate_bgp_identifier(o) THEN [error |-> Some(OpenError("BadBgpIdentifier"))]
    ELSE IF ~o.tlvs THEN [error |-> Some(OpenError("Unspecific"))]
    ELSE IF o.asn # AS_TRANS THEN [error |-> None, asn |-> o.asn]
    ELSE IF find_four_octet_asn(o.params) = None THEN [error |-> Some(OpenError("BadPeerAs"))]
    ELSE [error |-> None, asn |-> find_four_octet_asn(o.params)[1]]

NoCapabilities == [mp |-> {}, rr |-> FALSE, err |-> FALSE, four |-> None, gr |-> None, addpath |-> None, llgr |-> None]
\* Families add up; of a capability that comes again the last counts; LLGR
\* without graceful restart is ignored.
extract_capabilities(params) ==
    [mp |-> UNION {afi_safi_from_capability_bytes(At(params, x)) : x \in With(params, Multiprotocol)},
     rr |-> Has(params, RouteRefresh),
     err |-> Has(params, EnhancedRouteRefresh),
     four |-> IF Has(params, FourOctetAsn) THEN Some(Last(params, FourOctetAsn).head) ELSE None,
     gr |-> IF Has(params, GracefulRestart) THEN Some(as_graceful_restart(Last(params, GracefulRestart))) ELSE None,
     addpath |-> IF Has(params, AddPath) THEN Some(as_add_path(Last(params, AddPath))) ELSE None,
     llgr |-> IF Has(params, Llgr) /\ Has(params, GracefulRestart) THEN Some(as_llgr(Last(params, Llgr))) ELSE None]

\* A configuration names families that are known here, and its parameters fit
\* the octet that counts them.
Families == {1, 2, 16388} \X {1, 2, 4, 71, 72}
Configs == [asn : Nat, id : Nat, hold : Nat, expected : Seq(Nat), families : Seq(Families), gr : BOOLEAN,
            restart_time : Nat, llgr : Seq(Families), stale_time : Nat, send : BOOLEAN, receive : BOOLEAN]
ASSUME SetupsAssumption ==
    \A x \in Setups :
        /\ x.cfg \in [Speakers -> Configs] /\ x.old \in BOOLEAN /\ x.max_events \in Nat
        /\ \A s \in Speakers : ParamsLen(build_optional_params(x.cfg[s])) < 256

-----------------------------------------------------------------------------
(***************************************************************************)
(* What a speaker makes of an OPEN.                                        *)
(***************************************************************************)

\* local_wins_collision
local_wins_collision_NoAsn(c, o, asn) == c.id > o.id
local_wins_collision(c, o, asn) ==
    LET four == extract_capabilities(o.params).four
        remote == IF four = None THEN asn ELSE four[1]
    IN IF c.id # o.id THEN c.id > o.id ELSE c.asn > remote

negotiate_multiprotocol(fams, mp) == Range(fams) \cap mp
\* The entries with a direction left, each with what is left of its mode.
Directions(entries, send, receive) ==
    {x \in {[e EXCEPT !.flag = from_flags(send /\ can_receive(e.flag), receive /\ can_send(e.flag))] : e \in entries} :
        x.flag # 0}
negotiate_add_path_Swapped(c, caps) ==
    IF caps.addpath = None \/ Directions(caps.addpath[1], c.receive, c.send) = {} THEN None
    ELSE Some(Directions(caps.addpath[1], c.receive, c.send))
negotiate_add_path(c, caps) ==
    IF caps.addpath = None \/ Directions(caps.addpath[1], c.send, c.receive) = {} THEN None
    ELSE Some(Directions(caps.addpath[1], c.send, c.receive))

\* enter_open_confirm: why the OPEN is refused, if it is.
Objection_AnyAsn(c, o, asn, caps) ==
    IF asn = c.asn /\ o.id = c.id THEN Some(OpenError("BadBgpIdentifier"))
    ELSE IF negotiate_multiprotocol(advertised_afi_safis(c), caps.mp) = {} /\ caps.mp # {}
    THEN Some(OpenError("UnsupportedCapability"))
    ELSE IF c.asn > MAX_2BYTE_ASN /\ caps.four = None
    THEN Some(OpenError("UnsupportedOptionalParameter")) ELSE None
Objection(c, o, asn, caps) ==
    IF asn = c.asn /\ o.id = c.id THEN Some(OpenError("BadBgpIdentifier"))
    ELSE IF c.expected \notin {None, Some(asn)} THEN Some(OpenError("BadPeerAs"))
    ELSE IF negotiate_multiprotocol(advertised_afi_safis(c), caps.mp) = {} /\ caps.mp # {}
    THEN Some(OpenError("UnsupportedCapability"))
    ELSE IF c.asn > MAX_2BYTE_ASN /\ caps.four = None
    THEN Some(OpenError("UnsupportedOptionalParameter")) ELSE None
\* ... and what it leaves in the peer otherwise.
Negotiated(p, c, o, asn, caps) ==
    [p EXCEPT !.phase = "OpenConfirm", !.ebgp = asn # c.asn,
              !.caps = [caps EXCEPT !.mp = negotiate_multiprotocol(advertised_afi_safis(c), caps.mp),
                                    !.addpath = negotiate_add_path(c, caps)],
              !.hold = IF c.hold < o.hold THEN c.hold ELSE o.hold,
              !.wins = Some(local_wins_collision(c, o, asn))]

\* AddPathMask: the families it has a bit for.
Mask == {<<1, 1>>, <<2, 1>>, <<1, 2>>, <<2, 2>>, <<1, 4>>, <<2, 4>>, <<16388, 71>>, <<16388, 72>>}
ModeEntries(caps) == IF caps.addpath = None THEN {} ELSE caps.addpath[1]
receive_format(p) == [four |-> p.caps.four # None, err |-> p.caps.err,
                      addpath |-> FamiliesOf({e \in ModeEntries(p.caps) : can_receive(e.flag)}) \cap Mask]
send_format(p) == [four |-> p.caps.four # None, err |-> p.caps.err,
                   addpath |-> FamiliesOf({e \in ModeEntries(p.caps) : can_send(e.flag)}) \cap Mask]
afi_safis(p) == IF p.caps.mp = {} THEN {Ipv4Unicast} ELSE p.caps.mp

-----------------------------------------------------------------------------
(***************************************************************************)
(* The connection.                                                         *)
(***************************************************************************)

Up(s) == peer[s].phase # "Idle"
Old(s) == s = 2 /\ old
\* What an earlier connection negotiated is not used before the next OPEN replaces it.
Fresh(p) == [p EXCEPT !.phase = "OpenSent", !.caps = NoCapabilities, !.ebgp = FALSE, !.hold = 0, !.wins = None,
                      !.heard = {}, !.said = {}]
\* An old speaker sends a bare OPEN (external).
Open(s) == build_open_message(cfg[s], peer[s].suppressed \/ Old(s))
Connect ==
    /\ \A s \in Speakers : ~Up(s)
    /\ peer' = [s \in Speakers |-> Fresh(peer[s])]
    /\ wire' = [s \in Speakers |-> <<Open(Other(s))>>]
    /\ damaged' = FALSE
    /\ UNCHANGED <<setup, old, events>>

\* s reads its first message and sends msgs.
Took(s, msgs) == [wire EXCEPT ![s] = Tail(@), ![Other(s)] = IF Up(Other(s)) THEN @ \o msgs ELSE <<>>]
\* send_notification and disconnect
Refuse(s, e) ==
    /\ peer' = [peer EXCEPT ![s].phase = "Idle", ![s].said = @ \cup {e}]
    /\ wire' = [wire EXCEPT ![s] = <<>>, ![Other(s)] = IF Up(Other(s)) THEN @ \o <<NotificationMessage(e), Closed>> ELSE <<>>]
Readable(s, type) ==
    /\ Up(s) /\ wire[s] # <<>>
    /\ wire[s][1].type = type
    /\ read_bgp_message_bytes(wire[s][1]) = None
    /\ UNCHANGED <<setup, old, damaged, events>>

\* Why s refuses an OPEN, if it does; an old speaker knows no parameters (external).
Refusal(s, o) ==
    IF Old(s) THEN (IF o.params # <<>> THEN Some(OpenError("UnsupportedOptionalParameter")) ELSE None)
    ELSE IF open_from_bytes(o).error # None THEN open_from_bytes(o).error
    ELSE Objection(cfg[s], o, open_from_bytes(o).asn, extract_capabilities(o.params))
ReceiveOpen(s) ==
    /\ Readable(s, "OPEN")
    /\ LET o == wire[s][1].body
       IN IF Refusal(s, o) # None THEN Refuse(s, Refusal(s, o)[1])
          ELSE /\ peer' = [peer EXCEPT ![s] = IF Old(s) THEN [@ EXCEPT !.phase = "OpenConfirm", !.caps = NoCapabilities]
                                             ELSE Negotiated(@, cfg[s], o, open_from_bytes(o).asn, extract_capabilities(o.params))]
               /\ wire' = Took(s, <<KeepaliveMessage>>)
ReceiveKeepalive(s) ==
    /\ Readable(s, "KEEPALIVE")
    /\ peer' = [peer EXCEPT ![s].phase = "Established"]
    /\ wire' = Took(s, <<>>)
\* track_received_message and the end of the connection.
track_received_message_Keeps(p, e) == [p EXCEPT !.heard = @ \cup {e}]
track_received_message(p, e) ==
    [p EXCEPT !.heard = @ \cup {e}, !.suppressed = @ \/ e = OpenError("UnsupportedOptionalParameter")]
ReceiveNotification(s) ==
    /\ Readable(s, "NOTIFICATION")
    /\ LET e == notification_from_bytes(wire[s][1].body)
       IN peer' = [peer EXCEPT ![s] = [track_received_message(@, e) EXCEPT !.phase = "Idle"]]
    /\ wire' = [Took(s, <<Closed>>) EXCEPT ![s] = <<>>]
ReceiveRouteRefresh(s) ==
    /\ Readable(s, "ROUTE_REFRESH")
    /\ LET read == route_refresh_from_bytes(wire[s][1], peer[s].caps.err)
       IN IF read.error # None THEN Refuse(s, read.error[1])
          ELSE /\ peer' = [peer EXCEPT ![s].heard = @ \cup {read.refresh}]
               /\ wire' = Took(s, <<>>)
ReceiveClosed(s) ==
    /\ Up(s) /\ wire[s] # <<>> /\ wire[s][1].type = "CLOSED"
    /\ peer' = [peer EXCEPT ![s].phase = "Idle"]
    /\ wire' = [Took(s, <<Closed>>) EXCEPT ![s] = <<>>]
    /\ UNCHANGED <<setup, old, damaged, events>>
ReceiveBadHeader(s) ==
    /\ Up(s) /\ wire[s] # <<>> /\ wire[s][1].type # "CLOSED"
    /\ read_bgp_message_bytes(wire[s][1]) # None
    /\ Refuse(s, read_bgp_message_bytes(wire[s][1])[1])
    /\ UNCHANGED <<setup, old, damaged, events>>

-----------------------------------------------------------------------------
(***************************************************************************)
(* Events: at most setup.max_events of them.                               *)
(***************************************************************************)

Event == events < setup.max_events /\ events' = events + 1
\* The connection is lost, with what was on its way.
Lose ==
    /\ \E s \in Speakers : Up(s)
    /\ Event
    /\ wire' = [s \in Speakers |-> IF Up(s) THEN <<Closed>> ELSE <<>>]
    /\ UNCHANGED <<setup, old, peer, damaged>>
\* A faulty message, instead of the next one: one fault of each kind the readers check.
FaultyBody(o) ==
    {[o EXCEPT !.version = 3], [o EXCEPT !.hold = 2], [o EXCEPT !.id = 0], [o EXCEPT !.fits = FALSE],
     [o EXCEPT !.tlvs = FALSE], [o EXCEPT !.asn = AS_TRANS, !.params = <<>>]}
Faulty(m) ==
    {[m EXCEPT !.marker = FALSE], [m EXCEPT !.len = 18], [m EXCEPT !.len = 4097], [m EXCEPT !.type = "OTHER"]}
    \cup (IF m.type = "OPEN" THEN {[m EXCEPT !.body = b] : b \in FaultyBody(m.body)} ELSE {})
    \cup (IF m.type = "KEEPALIVE" THEN {[m EXCEPT !.len = 20]} ELSE {})
    \cup (IF m.type = "NOTIFICATION" THEN {[m EXCEPT !.len = 20]} ELSE {})
    \cup (IF m.type = "ROUTE_REFRESH"
          THEN {[m EXCEPT !.len = 21], [m EXCEPT !.len = 24], [m EXCEPT !.body = <<99, 0, 1>>]} ELSE {})
Damage(s) ==
    /\ Up(s) /\ wire[s] # <<>> /\ wire[s][1].type # "CLOSED"
    /\ Event
    /\ \E m \in Faulty(wire[s][1]) : wire' = [wire EXCEPT ![s] = <<m>> \o Tail(@)]
    /\ damaged' = TRUE
    /\ UNCHANGED <<setup, old, peer>>
\* Another speaker may spread its capabilities over several parameters, and
\* announce a family and a capability that are not known here.
Repacked(params) ==
    [i \in 1..Len(params[1].caps) |-> [caps |-> <<params[1].caps[i]>>]]
    \o <<[caps |-> <<new_multiprotocol(<<25, 70>>), Capability(99, 0, <<>>)>>]>>
Repack(s) ==
    /\ Up(s) /\ wire[s] # <<>> /\ wire[s][1].type = "OPEN"
    /\ Len(wire[s][1].body.params) = 1
    /\ Event
    /\ LET m == wire[s][1]
       IN wire' = [wire EXCEPT ![s] = <<[m EXCEPT !.body.params = Repacked(m.body.params)]>> \o Tail(@)]
    /\ UNCHANGED <<setup, old, peer, damaged>>
\* The server asks for a plain refresh, and brackets its own resending with
\* BoRR and EoRR on an enhanced session; the task passes on what the peer's
\* capabilities allow.
SendRouteRefresh(s) ==
    /\ peer[s].phase = "Established" /\ ~Old(s) /\ peer[s].caps.rr
    /\ Event
    /\ \E fam \in peer[s].caps.mp, n \in {0} \cup (IF peer[s].caps.err THEN {1, 2} ELSE {}) :
           /\ wire' = [wire EXCEPT ![Other(s)] = IF Up(Other(s)) THEN Append(@, RouteRefreshMessage(fam, n)) ELSE <<>>]
           /\ peer' = [peer EXCEPT ![s].said = @ \cup {Meant(SubtypeFrom(n), "-", fam)}]
    /\ UNCHANGED <<setup, old, damaged>>
\* A speaker ends the session for any of the reasons it has in Established.
ErrorsOf(k) == {BgpErrorIs(k, SubcodeFrom[k][n]) : n \in {x \in DOMAIN SubcodeFrom[k] : SubcodeFrom[k][x] # "-"}}
Errors ==
    (UNION {ErrorsOf(k) : k \in Range(ErrorCode) \ {"OpenMessageError"}})
    \cup {BgpErrorIs("HoldTimerExpired", "-"), BgpErrorIs("FiniteStateMachineError", "-")}
Notify(s) ==
    /\ peer[s].phase = "Established" /\ ~Old(s)
    /\ Event
    /\ \E e \in Errors : Refuse(s, e)
    /\ UNCHANGED <<setup, old, damaged>>
\* The old speaker is replaced when both ends have dropped the connection.
Upgrade ==
    /\ old /\ \A s \in Speakers : ~Up(s)
    /\ Event
    /\ old' = FALSE
    /\ peer' = [peer EXCEPT ![2].suppressed = FALSE]
    /\ UNCHANGED <<setup, wire, damaged>>

Init ==
    /\ setup \in Setups
    /\ old = setup.old
    /\ peer = [s \in Speakers |-> [phase |-> "Idle", suppressed |-> FALSE, caps |-> NoCapabilities, ebgp |-> FALSE,
                                   hold |-> 0, wins |-> None, heard |-> {}, said |-> {}]]
    /\ wire = [s \in Speakers |-> <<>>]
    /\ damaged = FALSE
    /\ events = 0

Receive(s) ==
    \/ ReceiveOpen(s) \/ ReceiveKeepalive(s) \/ ReceiveNotification(s)
    \/ ReceiveRouteRefresh(s) \/ ReceiveClosed(s) \/ ReceiveBadHeader(s)
Next ==
    \/ Connect
    \/ \E s \in Speakers : Receive(s) \/ Damage(s) \/ Repack(s) \/ SendRouteRefresh(s) \/ Notify(s)
    \/ Lose
    \/ Upgrade

\* A peer without a session dials again (ConnectRetryTimer), and what is sent
\* on a connection arrives.
Fairness == WF_vars(Connect) /\ \A s \in Speakers : WF_vars(Receive(s))
Spec == Init /\ [][Next]_vars /\ Fairness

-----------------------------------------------------------------------------
(***************************************************************************)
(* Properties.                                                             *)
(***************************************************************************)

TypeOK ==
    /\ \A s \in Speakers :
           /\ peer[s].phase \in {"Idle", "OpenSent", "OpenConfirm", "Established"}
           /\ peer[s].caps.llgr # None => peer[s].caps.gr # None
           /\ \A e \in peer[s].said \cup peer[s].heard : e.kind # "Unknown"
    /\ events \in 0 .. setup.max_events

Confirmed(s) == peer[s].phase \in {"OpenConfirm", "Established"}
BothConfirmed == ~old /\ \A s \in Speakers : Confirmed(s)
Plain == \A s \in Speakers : ~peer[s].suppressed

\* When both speakers have taken the other's OPEN, what one writes is what the
\* other reads: the families, four-octet AS numbers, ADD-PATH per family and
\* direction, enhanced route refresh, the hold time and whether the session is
\* external (build_optional_params, extract_capabilities, enter_open_confirm,
\* send_format, receive_format).  A speaker that suppressed its capabilities is
\* left out (FourOctetIsMutual).
FormatsAgree ==
    BothConfirmed /\ Plain => \A s \in Speakers :
        LET p == peer[s]
            q == peer[Other(s)]
        IN /\ afi_safis(p) = afi_safis(q)
           /\ send_format(p).four = receive_format(q).four
           /\ send_format(p).err = receive_format(q).err
           /\ send_format(p).addpath \cap afi_safis(p) = receive_format(q).addpath \cap afi_safis(p)
           /\ p.hold = q.hold /\ p.ebgp = q.ebgp

\* What a speaker believes of the other's graceful restart is what the other
\* has configured, for times that fit their 12 and 24 bits
\* (new_graceful_restart, as_graceful_restart, new_llgr, as_llgr).
RestartIsConfigured ==
    BothConfirmed /\ Plain => \A s \in Speakers :
        LET p == peer[s].caps
            c == cfg[Other(s)]
        IN /\ (p.gr # None) = c.gr
           /\ c.gr /\ c.restart_time < Bits12 =>
                  /\ p.gr[1].restart_time = c.restart_time /\ ~p.gr[1].restart_state
                  /\ FamiliesOf(p.gr[1].entries) = Range(advertised_afi_safis(c))
           /\ (p.llgr # None) = (c.gr /\ c.llgr # <<>>)
           /\ p.llgr # None /\ c.stale_time < Bits24 =>
                  FamiliesOf(p.llgr[1]) = Range(c.llgr) /\ \A e \in p.llgr[1] : e.time = c.stale_time

\* Two speakers that can work together: the AS numbers are the expected ones,
\* the hold times are acceptable, the identifiers differ within an AS, there is
\* a common family, and a large AS number meets a speaker that knows them.
Acceptable(c, d) ==
    /\ c.expected \in {None, Some(d.asn)}
    /\ d.hold \notin {1, 2} /\ d.id # 0
    /\ ~(c.asn = d.asn /\ c.id = d.id)
Common(c, d) == Range(advertised_afi_safis(c)) \cap Range(advertised_afi_safis(d)) # {}
Large(c) == c.asn > MAX_2BYTE_ASN
Compatible ==
    /\ \A s \in Speakers : Old(s) \/ Acceptable(cfg[s], cfg[Other(s)])
    /\ ~old => Common(cfg[1], cfg[2])
    /\ old => ~Large(cfg[1]) /\ ~Large(cfg[2])

\* A session is up only between speakers that can work together, whatever was
\* lost, refused or damaged before (open_from_bytes, enter_open_confirm).
SessionsAreCompatible ==
    (\E s \in Speakers : peer[s].phase = "Established") /\ Plain => Compatible

\* Should two connections collide, the two speakers agree on whose survives
\* (local_wins_collision), also when only their AS numbers differ.
WinnersAgree ==
    BothConfirmed /\ Plain => peer[1].wins # peer[2].wins

\* A NOTIFICATION or a ROUTE-REFRESH is read as what it was sent for: the
\* numbers of error_code, error_subcode and RouteRefreshSubtype are the ones
\* the readers expect.
MeansTheSame ==
    \A s \in Speakers : peer[s].heard \subseteq peer[Other(s)].said

\* Speakers that can work together do: after the last fault they get a
\* session and keep it.  A speaker that once met an old one keeps its
\* capabilities back, so a large AS number is left out after an upgrade.
Met == \A s \in Speakers : peer[s].phase = "Established"
CompatibleMeet ==
    <>[](Compatible /\ ~(peer[1].suppressed /\ (Large(cfg[1]) \/ Large(cfg[2])) /\ ~old) => Met)

\* The comment in enter_open_confirm: for four-octet AS numbers "both must
\* advertise for it to be negotiated".
FourOctetIsMutual ==
    BothConfirmed => (peer[1].caps.four # None) = (peer[2].caps.four # None)

\* Two speakers that have each other's OPEN agree on everything the session rests
\* on: formats, restart times, the winner of a collision, the meaning of messages
\* (enter_open_confirm, send_format, local_wins_collision, error_code).
SpeakersAgree == TypeOK /\ FormatsAgree /\ RestartIsConfigured /\ WinnersAgree /\ MeansTheSame
=============================================================================
