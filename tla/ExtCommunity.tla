---------------------------- MODULE ExtCommunity ----------------------------
(***************************************************************************)
(* Extended communities (bgp::ext_community): eight octets, their text     *)
(* form, and their gRPC form (grpc::proto_community); large communities.   *)
(* A text is the sequence of its parts between the colons, a number being  *)
(* given as the pair of its 16-bit halves, an IPv4 address as its octets.  *)
(* The octets of a MAC address, and those of the raw form `0x...`, are one *)
(* part.                                                                   *)
(***************************************************************************)
EXTENDS Integers, Sequences

TwoOctetAs == 0
Ipv4Address == 1
FourOctetAs == 2
TransitiveOpaque == 3
NonTransitiveOpaque == 67
Evpn == 6
NonTransitiveBit == 64
RouteTarget == 2
RouteOrigin == 3
LinkBandwidth == 4
Color == 11
Encapsulation == 12
OriginValidation == 0
RouterMac == 3

\* A half is two octets, a u32 the pair of its halves.
Hi(half) == half \div 256
Lo(half) == half % 256
Half(hi, lo) == hi * 256 + lo

ext_type(ec) == ec[1]
ext_subtype(ec) == ec[2]
ext_value(ec) == <<ec[3], ec[4], ec[5], ec[6], ec[7], ec[8]>>
is_transitive(ec) == (ext_type(ec) \div NonTransitiveBit) % 2 = 0
base_type(ec) == IF is_transitive(ec) THEN ext_type(ec) ELSE ext_type(ec) - NonTransitiveBit
\* Mutant: the bit replaces the type.
NonTransitive_Only(type) == NonTransitiveBit
NonTransitive(type) == IF (type \div NonTransitiveBit) % 2 = 0 THEN type + NonTransitiveBit ELSE type

from_two_octet_as(sub, asn, local) ==
    <<TwoOctetAs, sub, Hi(asn), Lo(asn), Hi(local[1]), Lo(local[1]), Hi(local[2]), Lo(local[2])>>
from_ipv4(sub, ip, local) == <<Ipv4Address, sub, ip[1], ip[2], ip[3], ip[4], Hi(local), Lo(local)>>
from_four_octet_as(sub, asn, local) ==
    <<FourOctetAs, sub, Hi(asn[1]), Lo(asn[1]), Hi(asn[2]), Lo(asn[2]), Hi(local), Lo(local)>>
from_color(color) ==
    <<TransitiveOpaque, Color, 0, 0, Hi(color[1]), Lo(color[1]), Hi(color[2]), Lo(color[2])>>
from_encapsulation(tunnel) == <<TransitiveOpaque, Encapsulation, 0, 0, 0, 0, Hi(tunnel), Lo(tunnel)>>
from_router_mac(mac) == <<Evpn, RouterMac, mac[1], mac[2], mac[3], mac[4], mac[5], mac[6]>>
from_link_bandwidth(asn, bits) ==
    <<NonTransitiveBit + TwoOctetAs, LinkBandwidth, Hi(asn), Lo(asn), Hi(bits[1]), Lo(bits[1]), Hi(bits[2]), Lo(bits[2])>>
from_rpki_state_community(state) == <<NonTransitiveOpaque, OriginValidation, 0, 0, 0, 0, 0, state>>
is_rpki_state_community(ec) == ext_type(ec) = NonTransitiveOpaque /\ ext_subtype(ec) = OriginValidation
rpki_state_community_value(ec) == ec[8]

\* The numbers that from_be_bytes takes from the value: its first or last octets.
FirstTwo(ec) == <<0, Half(ec[3], ec[4])>>
FirstFour(ec) == <<Half(ec[3], ec[4]), Half(ec[5], ec[6])>>
LastFour(ec) == <<Half(ec[5], ec[6]), Half(ec[7], ec[8])>>
LastTwo(ec) == <<0, Half(ec[7], ec[8])>>

-----------------------------------------------------------------------------
(***************************************************************************)
(* Text.  Invalid is the Err of the parser.  An f32 is its bits; its       *)
(* decimal text reads back as the same float, but every NaN as f32::NAN.   *)
(***************************************************************************)

Invalid == <<>>
StateName(state) == IF state = 0 THEN "valid" ELSE IF state = 1 THEN "not-found" ELSE "invalid"
StateNamed(name) == IF name = "valid" THEN 0 ELSE IF name = "not-found" THEN 1 ELSE 2
IsHalf(n) == n[1] = 0
NaN == <<32704, 0>>
IsNaN(bits) == (bits[1] \div 128) % 256 = 255 /\ (bits[1] % 128 # 0 \/ bits[2] # 0)
Decimal(bits) == IF IsNaN(bits) THEN NaN ELSE bits

parse_extended_community(parts) ==
    LET kind == parts[1]
        n == Len(parts)
        sub == IF kind = "rt" THEN RouteTarget ELSE RouteOrigin
    IN IF kind = "0x" THEN parts[2]
       ELSE IF kind = "rpki" /\ n = 2 THEN
            IF parts[2] \in {"valid", "not-found", "invalid"} THEN from_rpki_state_community(StateNamed(parts[2])) ELSE Invalid
       ELSE IF kind = "color" /\ n = 2 THEN from_color(parts[2])
       ELSE IF kind = "encapsulation" /\ n = 2 THEN
            IF IsHalf(parts[2]) THEN from_encapsulation(parts[2][2]) ELSE Invalid
       ELSE IF kind = "router-mac" /\ n = 2 THEN from_router_mac(parts[2])
       ELSE IF kind = "lb" /\ n = 3 THEN
            IF IsHalf(parts[2]) THEN from_link_bandwidth(parts[2][2], parts[3]) ELSE Invalid
       ELSE IF n # 3 \/ kind \notin {"rt", "ro"} THEN Invalid
       ELSE IF Len(parts[2]) = 4 THEN
            IF IsHalf(parts[3]) THEN from_ipv4(sub, parts[2], parts[3][2]) ELSE Invalid
       ELSE IF IsHalf(parts[2]) THEN from_two_octet_as(sub, parts[2][2], parts[3])
       ELSE IF IsHalf(parts[3]) THEN from_four_octet_as(sub, parts[2], parts[3][2]) ELSE Invalid

format_extended_community(ec) ==
    LET type == ext_type(ec)
        sub == ext_subtype(ec)
        raw == <<"0x", ec>>
        prefix == IF sub = RouteTarget THEN "rt" ELSE "ro"
    IN IF type = TransitiveOpaque THEN
            IF sub = Color THEN <<"color", LastFour(ec)>>
            ELSE IF sub = Encapsulation THEN <<"encapsulation", LastTwo(ec)>> ELSE raw
       ELSE IF type = NonTransitiveOpaque THEN
            IF is_rpki_state_community(ec) /\ rpki_state_community_value(ec) < 3
            THEN <<"rpki", StateName(rpki_state_community_value(ec))>> ELSE raw
       ELSE IF type = Evpn THEN IF sub = RouterMac THEN <<"router-mac", ext_value(ec)>> ELSE raw
       ELSE IF type = NonTransitiveBit + TwoOctetAs THEN
            IF sub = LinkBandwidth THEN <<"lb", FirstTwo(ec), Decimal(LastFour(ec))>> ELSE raw
       ELSE IF sub \notin {RouteTarget, RouteOrigin} THEN raw
       ELSE IF type = TwoOctetAs THEN <<prefix, FirstTwo(ec), LastFour(ec)>>
       ELSE IF type = Ipv4Address THEN <<prefix, <<ec[3], ec[4], ec[5], ec[6]>>, LastTwo(ec)>>
       ELSE IF type = FourOctetAs THEN <<prefix, FirstFour(ec), LastTwo(ec)>>
       ELSE raw

-----------------------------------------------------------------------------
(***************************************************************************)
(* gRPC: a message is its kind, its is_transitive field, its sub_type (or  *)
(* type code) and its values.                                              *)
(***************************************************************************)

Proto(kind, transitive, sub, values) ==
    [kind |-> kind, transitive |-> transitive, sub |-> sub, values |-> values]

\* The octets a message stands for, but for the transitive bit.
FromProto(kind, sub, v) ==
    IF kind = "two-octet-as" THEN IF IsHalf(v[1]) THEN from_two_octet_as(sub % 256, v[1][2], v[2]) ELSE Invalid
    ELSE IF kind = "ipv4" THEN IF IsHalf(v[2]) THEN from_ipv4(sub % 256, v[1], v[2][2]) ELSE Invalid
    ELSE IF kind = "four-octet-as" THEN IF IsHalf(v[2]) THEN from_four_octet_as(sub % 256, v[1], v[2][2]) ELSE Invalid
    ELSE IF kind = "link-bandwidth" THEN
         IF IsHalf(v[1]) THEN from_two_octet_as(LinkBandwidth, v[1][2], v[2]) ELSE Invalid
    ELSE IF kind = "color" THEN from_color(v[1])
    ELSE IF kind = "encapsulation" THEN IF IsHalf(v[1]) THEN from_encapsulation(v[1][2]) ELSE Invalid
    ELSE IF kind = "router-mac" THEN IF Len(v) = 6 THEN from_router_mac(v) ELSE Invalid
    ELSE IF kind = "opaque" THEN
         IF Len(v) = 6 THEN <<TransitiveOpaque, 0, v[1], v[2], v[3], v[4], v[5], v[6]>> ELSE Invalid
    ELSE IF Len(v) = 7 THEN <<sub % 256, v[1], v[2], v[3], v[4], v[5], v[6], v[7]>> ELSE Invalid
proto_extcomm_to_u64(p) ==
    LET ec == FromProto(p.kind, p.sub, p.values)
    IN IF ec = Invalid \/ p.transitive \/ p.kind = "unknown" THEN ec
       ELSE [ec EXCEPT ![1] = NonTransitive(@)]
u64_to_proto_extcomm(ec) ==
    LET base == base_type(ec)
        sub == ext_subtype(ec)
        of(kind, s, values) == Proto(kind, is_transitive(ec), s, values)
    IN IF base = TwoOctetAs THEN
            IF sub = LinkBandwidth THEN of("link-bandwidth", 0, <<FirstTwo(ec), LastFour(ec)>>)
            ELSE of("two-octet-as", sub, <<FirstTwo(ec), LastFour(ec)>>)
       ELSE IF base = Ipv4Address THEN of("ipv4", sub, <<<<ec[3], ec[4], ec[5], ec[6]>>, LastTwo(ec)>>)
       ELSE IF base = FourOctetAs THEN of("four-octet-as", sub, <<FirstFour(ec), LastTwo(ec)>>)
       ELSE IF base = TransitiveOpaque /\ sub = Color THEN of("color", 0, <<LastFour(ec)>>)
       ELSE IF base = TransitiveOpaque /\ sub = Encapsulation THEN of("encapsulation", 0, <<LastTwo(ec)>>)
       ELSE IF base = Evpn /\ sub = RouterMac THEN of("router-mac", 0, ext_value(ec))
       ELSE IF base \in {TransitiveOpaque, Evpn} THEN of("opaque", 0, ext_value(ec))
       ELSE Proto("unknown", TRUE, ext_type(ec), <<sub, ec[3], ec[4], ec[5], ec[6], ec[7], ec[8]>>)

-----------------------------------------------------------------------------
\* Large communities: three u32, in text three numbers.
parse_large_community(parts) == IF Len(parts) = 3 THEN parts ELSE Invalid
=============================================================================
