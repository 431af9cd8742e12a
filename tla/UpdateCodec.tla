---------------------------- MODULE UpdateCodec ----------------------------
(***************************************************************************)
(* The UPDATE message (bgp/msg_update.rs, msg_update_codec.rs,             *)
(* msg_update_types.rs, utils.rs): how a path and its route keys become    *)
(* attributes and NLRI fields, how many octets they take, and how the      *)
(* octets are read back with the error handling of RFC 7606.               *)
(* A route key is [fam, net, octets, count]: its family, its name, the     *)
(* octets of its NLRI entry and the number of neighbouring routes it       *)
(* stands for.  An Option is a sequence of at most one value.              *)
(* A message format is [four, addpath, ebgp].                              *)
(***************************************************************************)
EXTENDS Integers, FiniteSets, SequencesExt, FiniteSetsExt

U8 == 256
U16 == 65536
AS_TRANS == 23456
MAX_2BYTE_ASN == 65535
RD_LEN == 8
PATH_ID_LEN == 4
MAX_MESSAGE_SIZE == 4096
BGP_HEADER_SIZE_BYTES == 19

None == <<>>
Some(x) == <<x>>
ForAll(items, F(_)) == [i \in DOMAIN items |-> F(items[i])] \o <<>>
Total(items, F(_)) == FoldLeft(LAMBDA n, x : n + F(x), 0, items)
Joined(items, F(_)) == FoldLeft(LAMBDA s, x : s \o F(x), <<>>, items)

-----------------------------------------------------------------------------
(***************************************************************************)
(* Attribute types.                                                        *)
(***************************************************************************)

is_well_known == {"ORIGIN", "AS_PATH", "NEXT_HOP", "LOCAL_PREF", "ATOMIC_AGGREGATE"}
NonTransitive == {"MULTI_EXIT_DISC", "ORIGINATOR_ID", "CLUSTER_LIST", "MP_REACH_NLRI", "MP_UNREACH_NLRI"}
is_optional == NonTransitive \cup {"AGGREGATOR", "COMMUNITIES", "EXTENDED_COMMUNITIES", "LARGE_COMMUNITIES",
                                   "AS4_PATH", "AS4_AGGREGATOR", "LINK_STATE"}
AttrType == is_well_known \cup is_optional
expected_flags(t) == {f \in {"opt", "trans"} : IF f = "opt" THEN t \in is_optional ELSE t \notin NonTransitive}

malformed_attr_action(t, ebgp) ==
    IF \/ t \in {"ORIGIN", "AS_PATH", "NEXT_HOP", "MULTI_EXIT_DISC", "COMMUNITIES", "EXTENDED_COMMUNITIES",
                 "LARGE_COMMUNITIES", "MP_UNREACH_NLRI"}
       \/ t \in {"LOCAL_PREF", "ORIGINATOR_ID", "CLUSTER_LIST"} /\ ~ebgp
    THEN "withdraw" ELSE "discard"

-----------------------------------------------------------------------------
(***************************************************************************)
(* Sizes.  A next hop is [kind, addr], kind "v4", "v6" or "v6ll" (global    *)
(* and link-local); an AS_PATH is a sequence of [type, asns].              *)
(***************************************************************************)

NlriSize(e) == e.key.count * (e.key.octets + PATH_ID_LEN * Len(e.pid))
write_nlri_list(entries) == Total(entries, NlriSize)
NextHopLen(nh, fam) ==
    (IF fam = "lsvpn" THEN RD_LEN ELSE 0) + (CASE nh.kind = "v4" -> 4 [] nh.kind = "v6" -> 16 [] nh.kind = "v6ll" -> 32)
encode_asn(asn, four) == IF four THEN asn ELSE asn % U16
AsnOctets(four) == IF four THEN 4 ELSE 2

\* write_path_attribute: the octets of the value.
ValueSize(a, four) ==
    CASE a.type = "ORIGIN" -> 1
      [] a.type = "AS_PATH" -> Total(a.body, LAMBDA s : 2 + AsnOctets(four) * Len(s.asns))
      [] a.type = "AS4_PATH" -> Total(a.body, LAMBDA s : 2 + 4 * Len(s.asns))
      [] a.type = "ATOMIC_AGGREGATE" -> 0
      [] a.type = "AGGREGATOR" -> AsnOctets(four) + 4
      [] a.type = "AS4_AGGREGATOR" -> 8
      [] a.type \in {"NEXT_HOP", "MULTI_EXIT_DISC", "LOCAL_PREF", "ORIGINATOR_ID"} -> 4
      [] a.type \in {"COMMUNITIES", "CLUSTER_LIST"} -> 4 * Len(a.body)
      [] a.type = "EXTENDED_COMMUNITIES" -> 8 * Len(a.body)
      [] a.type = "LARGE_COMMUNITIES" -> 12 * Len(a.body)
      [] a.type = "MP_REACH_NLRI" -> 5 + NextHopLen(a.body.nh, a.body.fam) + write_nlri_list(a.body.nlri)
      [] a.type = "MP_UNREACH_NLRI" -> 3 + write_nlri_list(a.body.nlri)
      [] OTHER -> a.body.octets
\* The value as its octets say it: ASNs of the width of the session, the length
\* octet of a segment, the length octet of a next hop.
ValueBody(a, four) ==
    CASE a.type \in {"AS_PATH", "AS4_PATH"} ->
             ForAll(a.body, LAMBDA s : [type |-> s.type, len |-> Len(s.asns) % U8, asns |->
                 ForAll(s.asns, LAMBDA n : encode_asn(n, four \/ a.type = "AS4_PATH"))])
      [] a.type = "AGGREGATOR" -> [a.body EXCEPT !.asn = encode_asn(@, four)]
      [] a.type = "MP_REACH_NLRI" ->
             [fam |-> a.body.fam, nh |-> a.body.nh, nhlen |-> NextHopLen(a.body.nh, a.body.fam), nlri |-> a.body.nlri]
      [] OTHER -> a.body

\* write_path_attribute.  bad: the octets have not the layout of the type; cut:
\* the length field runs past the end of the attributes.
write_path_attribute(a, four) ==
    LET size == ValueSize(a, four)
    IN [type |-> a.type, flags |-> a.flags \cup (IF size > 255 THEN {"ext"} ELSE {}), size |-> size,
        body |-> ValueBody(a, four), bad |-> FALSE, cut |-> FALSE]
header_len(flags) == IF "ext" \in flags THEN 4 ELSE 3
AttrsSize(attrs) == Total(attrs, LAMBDA a : header_len(a.flags) + a.size)

-----------------------------------------------------------------------------
(***************************************************************************)
(* Building.  A message is [withdrawn, attrs, nlri]; path.attrs holds the  *)
(* PathAttrs of a path, path.id its local path identifier.                 *)
(***************************************************************************)

Attr(t, body) == [type |-> t, flags |-> expected_flags(t), body |-> body]
Optional(t, option) == ForAll(option, LAMBDA v : Attr(t, v))
NonEmpty(t, items) == IF items = <<>> THEN <<>> ELSE <<Attr(t, items)>>
Entry(key, pid) == [key |-> key, pid |-> pid]
path_id_for(path, format, fam) == IF fam \in format.addpath THEN path.id ELSE None
make_nlri_list(keys, pid) == ForAll(keys, LAMBDA k : Entry(k, pid))
MpReach(fam, nh, nlri) == Attr("MP_REACH_NLRI", [fam |-> fam, nh |-> nh, nlri |-> nlri])
MpUnreach(fam, nlri) == Attr("MP_UNREACH_NLRI", [fam |-> fam, nlri |-> nlri])
OfFamily(entries, fam) == SelectSeq(entries, LAMBDA e : e.key.fam = fam)
UpdateMessage(withdrawn, attrs, nlri) == [withdrawn |-> withdrawn, attrs |-> attrs, nlri |-> nlri]

build_common_path_attrs(p) ==
    <<Attr("ORIGIN", p.origin), Attr("AS_PATH", p.as_path)>>
    \o Optional("LOCAL_PREF", p.local_pref) \o Optional("MULTI_EXIT_DISC", p.med)
    \o (IF p.atomic THEN <<Attr("ATOMIC_AGGREGATE", None)>> ELSE <<>>)
    \o Optional("AGGREGATOR", p.aggregator) \o NonEmpty("COMMUNITIES", p.communities)
    \o Optional("ORIGINATOR_ID", p.originator_id) \o NonEmpty("CLUSTER_LIST", p.cluster_list)
    \o NonEmpty("EXTENDED_COMMUNITIES", p.ext) \o NonEmpty("LARGE_COMMUNITIES", p.large) \o p.unknown

new(path, keys, format) ==
    LET Of(fam) == make_nlri_list(SelectSeq(keys, LAMBDA k : k.fam = fam), path_id_for(path, format, fam))
    IN UpdateMessage(<<>>,
           build_common_path_attrs(path.attrs)
           \o (IF Of("v4") # <<>> /\ path.attrs.next_hop.kind = "v4"
               THEN <<Attr("NEXT_HOP", path.attrs.next_hop)>> ELSE <<>>)
           \o (IF Of("v6") # <<>> THEN <<MpReach("v6", path.attrs.next_hop, Of("v6"))>> ELSE <<>>),
           Of("v4"))
new_ls(path, keys, fam) ==
    UpdateMessage(<<>>, build_common_path_attrs(path.attrs)
                        \o <<MpReach(fam, path.attrs.next_hop, make_nlri_list(keys, None))>>
                        \o Optional("LINK_STATE", path.attrs.ls_attr), <<>>)
new_withdraw(entries) ==
    LET v6 == OfFamily(entries, "v6")
    IN UpdateMessage(OfFamily(entries, "v4"), IF v6 = <<>> THEN <<>> ELSE <<MpUnreach("v6", v6)>>, <<>>)
new_ls_withdraw(entries, fam) == UpdateMessage(<<>>, <<MpUnreach(fam, entries)>>, <<>>)
new_eor(fam) == UpdateMessage(<<>>, IF fam = "v4" THEN <<>> ELSE <<MpUnreach(fam, <<>>)>>, <<>>)

\* RFC 6793: the attributes for a session without four-octet AS numbers.
is_confed_segment(s) == s.type \in {"AS_CONFED_SEQUENCE", "AS_CONFED_SET"}
NonConfed(segments) == SelectSeq(segments, LAMBDA s : ~is_confed_segment(s))
IsLarge(asn) == asn > MAX_2BYTE_ASN
transform_as_path_for_old_speaker(a) ==
    IF \A i \in DOMAIN a.body : \A j \in DOMAIN a.body[i].asns : ~IsLarge(a.body[i].asns[j])
    THEN <<a>>
    ELSE <<[a EXCEPT !.body = ForAll(@, LAMBDA s :
                [s EXCEPT !.asns = ForAll(@, LAMBDA n : IF IsLarge(n) THEN AS_TRANS ELSE n)])]>>
         \o NonEmpty("AS4_PATH", NonConfed(a.body))
transform_aggregator_for_old_speaker(a) ==
    IF ~IsLarge(a.body.asn) THEN <<a>>
    ELSE <<[a EXCEPT !.body.asn = AS_TRANS], Attr("AS4_AGGREGATOR", a.body)>>

IsAs4(a) == a.type \in {"AS4_PATH", "AS4_AGGREGATOR"}
ForSession(attrs, four) ==
    IF four THEN SelectSeq(attrs, LAMBDA a : ~IsAs4(a))
    ELSE Joined(attrs, LAMBDA a : CASE a.type = "AS_PATH" -> transform_as_path_for_old_speaker(a)
                                    [] a.type = "AGGREGATOR" -> transform_aggregator_for_old_speaker(a)
                                    [] OTHER -> <<a>>)

\* A field of NLRI entries as its octets; bad: they do not parse.
Field(entries) == [list |-> entries, bad |-> FALSE]
\* to_bytes and serialize.  short: the attribute length claims more than the body;
\* torn: the withdrawn routes do, or the body ends before the attribute length.
serialize(m, four) ==
    LET attrs == ForAll(ForSession(m.attrs, four), LAMBDA a : write_path_attribute(a, four))
    IN [withdrawn |-> Field(m.withdrawn), attrs |-> attrs, nlri |-> Field(m.nlri), short |-> FALSE, torn |-> FALSE,
        size |-> BGP_HEADER_SIZE_BYTES + 4 + write_nlri_list(m.withdrawn) + AttrsSize(attrs) + write_nlri_list(m.nlri)]

-----------------------------------------------------------------------------
(***************************************************************************)
(* Reading.                                                                *)
(***************************************************************************)

is_valid_unicast_ipv4(addr) == addr \notin {"0.0.0.0", "224.0.0.1", "255.255.255.255"}
\* parse_nlri_list skips multicast prefixes; the IPv6 and link-state readers keep all.
IsMulticast(key) == key.fam = "v4" /\ key.net = "224/4"
Unicast(entries) == SelectSeq(entries, LAMBDA e : ~IsMulticast(e.key))

FlagsOk(a) == /\ a.flags \cap {"opt", "trans"} = expected_flags(a.type)
              /\ ~(a.type \in is_well_known /\ "partial" \in a.flags)
Multiple(n, k) == n > 0 /\ n % k = 0
validate_attribute_length(a, four) ==
    CASE a.type = "ORIGIN" -> a.size = 1
      [] a.type \in {"NEXT_HOP", "MULTI_EXIT_DISC", "LOCAL_PREF", "ORIGINATOR_ID"} -> a.size = 4
      [] a.type = "ATOMIC_AGGREGATE" -> a.size = 0
      [] a.type = "AGGREGATOR" -> a.size = AsnOctets(four) + 4
      [] a.type \in {"COMMUNITIES", "CLUSTER_LIST"} -> Multiple(a.size, 4)
      [] a.type = "EXTENDED_COMMUNITIES" -> Multiple(a.size, 8)
      [] a.type = "LARGE_COMMUNITIES" -> Multiple(a.size, 12)
      [] OTHER -> TRUE

validate_mp_reach_buffer(fam, nhlen) ==
    CASE fam = "v4" -> nhlen = 4
      [] fam = "v6" -> nhlen \in {16, 32}
      [] fam = "ls" -> nhlen \in {4, 16, 32}
      [] fam = "lsvpn" -> nhlen \in {RD_LEN + 4, RD_LEN + 16}
      [] OTHER -> FALSE
parse_mp_next_hop(fam, nh) == fam = "v4" => is_valid_unicast_ipv4(nh.addr)
\* try_read_as_path: a length octet that disagrees with the segment leaves the
\* cursor inside a number, or at the end too early.
try_read_as_path(segments) ==
    \A i \in DOMAIN segments : segments[i].len # 0 /\ segments[i].len = Len(segments[i].asns)

\* parse_attr_value: whether there is a value.
ValueOk(a, format) ==
    /\ ~a.bad
    /\ CASE a.type = "AS_PATH" -> try_read_as_path(a.body)
         [] a.type = "AS4_PATH" -> a.size >= 6 /\ a.size % 2 = 0 /\ try_read_as_path(a.body)
         [] a.type = "AS4_AGGREGATOR" -> a.size = 8
         [] a.type = "NEXT_HOP" -> is_valid_unicast_ipv4(a.body.addr)
         [] a.type \in {"LOCAL_PREF", "ORIGINATOR_ID", "CLUSTER_LIST"} -> ~format.ebgp
         [] a.type = "MP_REACH_NLRI" -> /\ validate_mp_reach_buffer(a.body.fam, a.body.nhlen)
                                        /\ parse_mp_next_hop(a.body.fam, a.body.nh)
         [] OTHER -> TRUE
read_attr_as4_path(segments) == ForAll(NonConfed(segments), LAMBDA s : [type |-> s.type, asns |-> s.asns])
read_attr_mp_reach_nlri(mp) == [fam |-> mp.fam, nh |-> mp.nh, nlri |-> Unicast(mp.nlri)]
read_attr_mp_unreach_nlri(mp) == [mp EXCEPT !.nlri = Unicast(@)]
\* parse_attr_value: the value.
Value(a) ==
    CASE a.type = "AS_PATH" -> ForAll(a.body, LAMBDA s : [type |-> s.type, asns |-> s.asns])
      [] a.type = "AS4_PATH" -> read_attr_as4_path(a.body)
      [] a.type = "MP_REACH_NLRI" -> read_attr_mp_reach_nlri(a.body)
      [] a.type = "MP_UNREACH_NLRI" -> read_attr_mp_unreach_nlri(a.body)
      [] OTHER -> a.body
PathAttribute(a, flags) == <<[type |-> a.type, flags |-> flags, body |-> Value(a)]>>
Result(action, attr) == [action |-> action, attr |-> attr]
OnError(a, action) == Result(IF a.type = "MP_REACH_NLRI" THEN "reset" ELSE action, None)

read_path_attribute(a, format) ==
    CASE a.cut -> Result("withdraw", None)
      [] ~a.cut /\ a.type \notin AttrType ->
             IF "opt" \notin a.flags THEN Result("reset", None)
             ELSE Result("parsed", PathAttribute(a, a.flags \cup (IF "trans" \in a.flags THEN {"partial"} ELSE {})))
      [] ~a.cut /\ a.type \in AttrType ->
             IF ~FlagsOk(a)
             THEN OnError(a, IF a.type \in {"ATOMIC_AGGREGATE", "AGGREGATOR"} THEN "discard" ELSE "withdraw")
             ELSE IF ~(validate_attribute_length(a, format.four) /\ ValueOk(a, format))
             THEN OnError(a, malformed_attr_action(a.type, format.ebgp))
             ELSE Result("parsed", PathAttribute(a, a.flags))

\* read_path_attributes: reset, the attributes kept, and treat_as_withdraw.
IsMp(a) == a.type \in {"MP_REACH_NLRI", "MP_UNREACH_NLRI"}
ReadNext(acc, r) ==
    CASE acc.reset \/ r.action = "reset" -> [acc EXCEPT !.reset = TRUE]
      [] ~acc.reset /\ r.action = "withdraw" -> [acc EXCEPT !.withdraw = TRUE]
      [] ~acc.reset /\ r.action = "discard" -> acc
      [] ~acc.reset /\ r.action = "parsed" ->
             IF \A i \in DOMAIN acc.attrs : acc.attrs[i].type # r.attr[1].type
             THEN [acc EXCEPT !.attrs = @ \o r.attr]
             ELSE [acc EXCEPT !.reset = IsMp(r.attr[1])]
read_path_attributes(attrs, format) ==
    FoldLeft(ReadNext, [reset |-> FALSE, withdraw |-> FALSE, attrs |-> <<>>],
             ForAll(attrs, LAMBDA a : read_path_attribute(a, format)))

Find(attrs, t) ==
    LET of == SelectSeq(attrs, LAMBDA a : a.type = t)
    IN IF of = <<>> THEN None ELSE Some(of[1].body)
MpNlri(attrs, t) == Joined(Find(attrs, t), LAMBDA mp : mp.nlri)
IsIp(e) == e.key.fam \in {"v4", "v6"}
Ip(entries) == SelectSeq(entries, IsIp)

validate_well_known_mandatory_attributes(attrs) ==
    /\ Find(attrs, "ORIGIN") # None
    /\ Find(attrs, "AS_PATH") # None
    /\ Find(attrs, "NEXT_HOP") # None \/ Find(attrs, "MP_REACH_NLRI") # None
should_escalate_to_session_reset(reachable, attrs, attrsLen) ==
    /\ ~reachable
    /\ attrsLen # 0
    /\ ~(Len(attrs) = 1 /\ attrs[1].type = "MP_UNREACH_NLRI")
collect_mp_nlri(attrs) == Ip(MpNlri(attrs, "MP_REACH_NLRI") \o MpNlri(attrs, "MP_UNREACH_NLRI"))

\* The fields up to the attribute length are read by index, before
\* validate_update_message_lengths: from_bytes then has no result, it panics.
Panics(w) == w.torn
\* from_bytes: None when the session must be reset.
Judge_KeepsRoutes(w, withdrawn, nlri, read, reachable) ==
    IF reachable /\ ~validate_well_known_mandatory_attributes(read.attrs)
    THEN Some(new_withdraw(SetToSeq(ToSet(withdrawn \o nlri \o collect_mp_nlri(read.attrs)))))
    ELSE Some(UpdateMessage(withdrawn, read.attrs, nlri))
Judge(w, withdrawn, nlri, read, reachable) ==
    LET malformed == \/ w.withdrawn.bad \/ read.withdraw
                     \/ reachable /\ ~validate_well_known_mandatory_attributes(read.attrs)
    IN CASE ~malformed -> Some(UpdateMessage(withdrawn, read.attrs, nlri))
         [] malformed /\ should_escalate_to_session_reset(reachable, read.attrs, AttrsSize(w.attrs)) -> None
         [] OTHER -> Some(new_withdraw(SetToSeq(ToSet(withdrawn \o nlri \o collect_mp_nlri(read.attrs)))))
from_bytes(w, format) ==
    LET withdrawn == IF w.withdrawn.bad THEN <<>> ELSE Unicast(w.withdrawn.list)
        nlri == IF w.attrs = <<>> THEN <<>> ELSE Unicast(w.nlri.list)
        read == read_path_attributes(w.attrs, format)
    IN IF w.short \/ read.reset \/ (w.attrs # <<>> /\ w.nlri.bad) THEN None
       ELSE Judge(w, withdrawn, nlri, read, nlri # <<>> \/ Ip(MpNlri(read.attrs, "MP_REACH_NLRI")) # <<>>)

eor_afi_safi_AnyUnreach(m) ==
    CASE m.withdrawn # <<>> \/ m.nlri # <<>> -> None
      [] m.withdrawn = <<>> /\ m.nlri = <<>> /\ m.attrs = <<>> -> Some("v4")
      [] m.withdrawn = <<>> /\ m.nlri = <<>> /\ m.attrs # <<>> ->
             IF m.attrs[1].type = "MP_UNREACH_NLRI" THEN Some(m.attrs[1].body.fam) ELSE None
eor_afi_safi(m) ==
    CASE m.withdrawn # <<>> \/ m.nlri # <<>> -> None
      [] m.withdrawn = <<>> /\ m.nlri = <<>> /\ m.attrs = <<>> -> Some("v4")
      [] m.withdrawn = <<>> /\ m.nlri = <<>> /\ m.attrs # <<>> ->
             IF Len(m.attrs) = 1 /\ m.attrs[1].type = "MP_UNREACH_NLRI" /\ m.attrs[1].body.nlri = <<>>
             THEN Some(m.attrs[1].body.fam) ELSE None

-----------------------------------------------------------------------------
(***************************************************************************)
(* From a message to route changes (peer/incoming.rs, rib/path.rs).        *)
(***************************************************************************)

count_non_confed_asns(segments) == Total(NonConfed(segments), LAMBDA s : Len(s.asns))
\* The loop of merge_as_paths over AS_PATH: n ASNs are still to be taken.
TakeSegment(acc, s) ==
    CASE acc.left = 0 -> acc
      [] acc.left > 0 /\ is_confed_segment(s) -> [acc EXCEPT !.taken = Append(@, s)]
      [] acc.left > 0 /\ ~is_confed_segment(s) ->
             LET n == Min({acc.left, Len(s.asns)})
             IN [left |-> acc.left - n, taken |-> Append(acc.taken, [s EXCEPT !.asns = SubSeq(@, 1, n)])]
merge_as_paths_Replace(as_path, as4_path) == as4_path
merge_as_paths(as_path, as4_path) ==
    LET n == count_non_confed_asns(as_path) - count_non_confed_asns(as4_path)
    IN IF n < 0 THEN as_path
       ELSE FoldLeft(TakeSegment, [left |-> n, taken |-> <<>>], as_path).taken \o NonConfed(as4_path)

merge_as4_path_if_needed(attrs, four) ==
    LET as_path == Find(attrs, "AS_PATH")[1]
        aggregator == Find(attrs, "AGGREGATOR")
        as4_path == Find(attrs, "AS4_PATH")
    IN IF four \/ (aggregator # None /\ aggregator[1].asn # AS_TRANS) \/ as4_path = None THEN as_path
       ELSE merge_as_paths(as_path, as4_path[1])
get_aggregator(attrs, four) ==
    LET aggregator == Find(attrs, "AGGREGATOR")
        as4 == Find(attrs, "AS4_AGGREGATOR")
    IN IF ~four /\ aggregator # None /\ aggregator[1].asn = AS_TRANS /\ as4 # None THEN as4 ELSE aggregator
\* UpdateMessage::next_hop: the one of MP_REACH_NLRI first.
next_hop(attrs) ==
    IF Find(attrs, "MP_REACH_NLRI") # None THEN Some(Find(attrs, "MP_REACH_NLRI")[1].nh) ELSE Find(attrs, "NEXT_HOP")
OrDefault(option) == IF option = None THEN <<>> ELSE option[1]
from_update_msg(attrs, four) ==
    IF Find(attrs, "ORIGIN") = None \/ Find(attrs, "AS_PATH") = None \/ next_hop(attrs) = None THEN None
    ELSE Some([origin |-> Find(attrs, "ORIGIN")[1], as_path |-> merge_as4_path_if_needed(attrs, four),
               next_hop |-> next_hop(attrs)[1], local_pref |-> Find(attrs, "LOCAL_PREF"),
               med |-> Find(attrs, "MULTI_EXIT_DISC"), atomic |-> Find(attrs, "ATOMIC_AGGREGATE") # None,
               aggregator |-> get_aggregator(attrs, four), communities |-> OrDefault(Find(attrs, "COMMUNITIES")),
               ext |-> OrDefault(Find(attrs, "EXTENDED_COMMUNITIES")),
               large |-> OrDefault(Find(attrs, "LARGE_COMMUNITIES")),
               unknown |-> SelectSeq(attrs, LAMBDA a : a.type \notin AttrType),
               originator_id |-> Find(attrs, "ORIGINATOR_ID"), cluster_list |-> OrDefault(Find(attrs, "CLUSTER_LIST")),
               ls_attr |-> Find(attrs, "LINK_STATE")])

\* handle_update: the entries withdrawn, the entries announced and their path.
handle_update(m, four) ==
    LET attrs == IF four THEN SelectSeq(m.attrs, LAMBDA a : ~IsAs4(a)) ELSE m.attrs
        path == from_update_msg(attrs, four)
    IN [withdrawn |-> ToSet(m.withdrawn \o MpNlri(attrs, "MP_UNREACH_NLRI")),
        announced |-> IF path = None THEN {} ELSE ToSet(m.nlri \o MpNlri(attrs, "MP_REACH_NLRI")),
        path |-> path]
=============================================================================
