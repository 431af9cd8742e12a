--------------------------- MODULE CommunityForms ---------------------------
(***************************************************************************)
(* An extended community on its way through the program: it is shown as    *)
(* text and read from text (rogg.conf, policies, the shell), and sent and  *)
(* received in gRPC messages, any number of times.                         *)
(***************************************************************************)
EXTENDS ExtCommunity

VARIABLES
    first,      \* the community at the start
    ec          \* ... and now

communityVars == <<first, ec>>

ExtCommunities == [1..8 -> 0..255]

ThroughText ==
    /\ ec' = parse_extended_community(format_extended_community(ec))
    /\ UNCHANGED first
ThroughMessage ==
    /\ ec' = proto_extcomm_to_u64(u64_to_proto_extcomm(ec))
    /\ UNCHANGED first

CommunityInit == first \in ExtCommunities /\ ec = first
CommunityNext == ThroughText \/ ThroughMessage
CommunitySpec == CommunityInit /\ [][CommunityNext]_communityVars

-----------------------------------------------------------------------------
\* What a message has no field for: the subtype of an opaque or EVPN community it
\* does not know, and the reserved octets of a non-transitive color or
\* encapsulation, which in text are shown.
NoMessage(c) ==
    \/ base_type(c) = TransitiveOpaque /\ ext_subtype(c) \notin {0, Color, Encapsulation}
    \/ /\ ext_type(c) = NonTransitiveOpaque /\ ext_subtype(c) = Color
       /\ ~(c[3] = 0 /\ c[4] = 0)
    \/ /\ ext_type(c) = NonTransitiveOpaque /\ ext_subtype(c) = Encapsulation
       /\ ~(c[3] = 0 /\ c[4] = 0 /\ c[5] = 0 /\ c[6] = 0)
    \/ base_type(c) = Evpn /\ ext_subtype(c) # RouterMac

\* An extended community shows as the same text, and is as transitive, after any
\* number of texts and messages, unless there is NoMessage for it
\* (format_extended_community, parse_extended_community, u64_to_proto_extcomm,
\* proto_extcomm_to_u64).
CommunitiesSurvive ==
    NoMessage(first) \/ (format_extended_community(ec) = format_extended_community(first)
                         /\ is_transitive(ec) = is_transitive(first))
=============================================================================
