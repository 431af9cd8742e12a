------------------------- MODULE OpenExchangeProofs -------------------------
(***************************************************************************)
(* What two speakers hold of each other, for every pair of configurations. *)
(*                                                                         *)
(* A speaker knows of the other only what came over the connection, so the *)
(* invariant speaks of the messages on their way: which OPENs can be among *)
(* them (Advertised), that a faulty one is refused whatever else it says   *)
(* (Spoiled), that a KEEPALIVE means the other has accepted, and that a    *)
(* NOTIFICATION or a refresh is read as something that was said.  Of a     *)
(* speaker that has taken an OPEN it says what is then negotiated from it  *)
(* (Judged).  That two such outcomes fit is a fact about configurations.   *)
(***************************************************************************)
EXTENDS OpenExchange, TLAPS

-----------------------------------------------------------------------------
(* The invariant *)

\* The optional parameters of an OPEN of c, as c packs them or another speaker may.
Packed(c) == build_optional_params(c)
Packings(c) == {Packed(c), Repacked(Packed(c))}

\* What the other speaker's messages depend on: its configuration, whether it is
\* an old one or holds its capabilities back, and what it said.
View(s) == [c |-> cfg[s], old |-> Old(s), suppressed |-> peer[s].suppressed, said |-> peer[s].said]
Advertised(v) == IF v.old THEN {<<>>} ELSE Packings(v.c) \cup (IF v.suppressed THEN {<<>>} ELSE {})

\* What c makes of an OPEN of d with these parameters, when it takes it.
Accepts(c, d, params) ==
    LET o == OpenBody(d, params)
    IN /\ open_from_bytes(o).error = None
       /\ Objection(c, o, open_from_bytes(o).asn, extract_capabilities(params)) = None
Kept(c, caps) ==
    [caps EXCEPT !.mp = negotiate_multiprotocol(advertised_afi_safis(c), caps.mp), !.addpath = negotiate_add_path(c, caps)]
Outcome(p, c, d, params) ==
    LET o == OpenBody(d, params)
        asn == open_from_bytes(o).asn
    IN /\ p.caps = Kept(c, extract_capabilities(params))
       /\ p.ebgp = (asn # c.asn)
       /\ p.hold = IF c.hold < o.hold THEN c.hold ELSE o.hold
       /\ p.wins = Some(local_wins_collision(c, o, asn))

\* v took an OPEN of w; and p holds what v made of it.
Accepted(v, w) == v.old \/ \E params \in Advertised(w) : Accepts(v.c, w.c, params)
Judged(v, p, w) == v.old \/ \E params \in Advertised(w) : Accepts(v.c, w.c, params) /\ Outcome(p, v.c, w.c, params)

\* A message that no speaker of this program takes.
SpoiledBody(o) ==
    \/ ~o.fits \/ o.version # 4 \/ o.hold \in {1, 2} \/ o.id = 0 \/ ~o.tlvs
    \/ o.asn = AS_TRANS /\ o.params = <<>>
Refreshed(m) == <<m.body[1], m.body[3]>>
Spoiled(m) ==
    \/ ~m.marker \/ m.len \notin HEADER .. MAX_MESSAGE_SIZE \/ m.type = "OTHER"
    \/ m.type = "KEEPALIVE" /\ m.len # HEADER
    \/ m.type = "NOTIFICATION" /\ ~(m.len >= 21)
    \/ m.type = "OPEN" /\ SpoiledBody(m.body)
    \/ m.type = "ROUTE_REFRESH" /\ (m.len # HEADER + 4 \/ ~Known(Refreshed(m)))

\* What a message from w on its way to v says of w.
Faithful(m, w, v) ==
    /\ m.type = "OPEN" => \E params \in Advertised(w) : m.body = OpenBody(w.c, params)
    /\ m.type = "KEEPALIVE" => Accepted(w, v)
    /\ m.type = "NOTIFICATION" => notification_from_bytes(m.body) \in w.said
    /\ m.type = "ROUTE_REFRESH" => Meant(SubtypeFrom(m.body[2]), "-", Refreshed(m)) \in w.said
Right(m, w, v) == m = Closed \/ Spoiled(m) \/ Faithful(m, w, v)

\* What can be on the connection and in a speaker.
ParamLists == {<<>>} \cup UNION {Packings(cfg[t]) : t \in Speakers}
Bodies == [version : Nat, asn : Nat, hold : Nat, id : Nat, fits : BOOLEAN, tlvs : BOOLEAN, params : ParamLists]
Sizes == Nat \cup {HEADER + (10 + ParamsLen(params)) : params \in ParamLists}
Opens == [type : {"OPEN", "OTHER"}, len : Sizes, marker : BOOLEAN, body : Bodies]
Shorts == [type : {"KEEPALIVE", "NOTIFICATION", "ROUTE_REFRESH", "OTHER"}, len : Nat, marker : BOOLEAN, body : Seq(Nat)]
Messages == {Closed} \cup Opens \cup Shorts
CapSets == {NoCapabilities} \cup {Kept(cfg[s], extract_capabilities(params)) : s \in Speakers, params \in ParamLists}
Refused == {OpenError(x) : x \in {"Unspecific", "UnsupportedVersionNumber", "UnacceptedHoldTime", "BadBgpIdentifier",
                                  "BadPeerAs", "UnsupportedCapability", "UnsupportedOptionalParameter"}}
Meanings == Errors \cup Refused
Refreshes == {Meant(k, "-", fam) : k \in {"Normal", "BoRR", "EoRR"}, fam \in Families}
Phases == {"Idle", "OpenSent", "OpenConfirm", "Established"}
Peers == [phase : Phases, suppressed : BOOLEAN, caps : CapSets, ebgp : BOOLEAN, hold : Nat,
          wins : {None, Some(TRUE), Some(FALSE)}, heard : SUBSET (Meanings \cup Refreshes), said : SUBSET (Meanings \cup Refreshes)]

Types ==
    /\ setup \in Setups /\ old \in BOOLEAN
    /\ peer \in [Speakers -> Peers]
    /\ wire \in [Speakers -> Seq(Messages)]
    /\ events \in 0 .. setup.max_events

\* The messages from w on their way to v: an OPEN comes first and only where it
\* is waited for, and each says what is so.
Queue(q, phase, w, v) ==
    /\ phase = "Idle" => q = <<>>
    /\ phase = "OpenSent" => q # <<>> /\ q[1].type \in {"OPEN", "OTHER", "CLOSED"}
    /\ \A i \in 1..Len(q) :
           /\ q[i].type = "OPEN" => i = 1 /\ phase = "OpenSent"
           /\ Right(q[i], w, v)

\* Of a speaker: its messages are in order, what it has taken stands, and it is
\* never in a session alone.
SoundPeer(p, q, v, w) ==
    /\ Queue(q, p.phase, w, v)
    /\ p.phase \in {"OpenConfirm", "Established"} => Judged(v, p, w)
    /\ p.phase = "Established" => Accepted(w, v)
    /\ p.heard \subseteq w.said
Sound(s) == SoundPeer(peer[s], wire[s], View(s), View(Other(s)))

Inv == Types /\ \A s \in Speakers : Sound(s)

-----------------------------------------------------------------------------
(* Errors and their numbers *)

\* The errors of each kind that can be reported.
LEMMA Kinds ==
  ASSUME NEW e \in Meanings
  PROVE  \/ e.kind = "MessageHeaderError" /\ e.sub \in {"ConnectionNotSynchronized", "BadMessageLength", "BadMessageType"}
         \/ e.kind = "OpenMessageError"
              /\ e.sub \in {"Unspecific", "UnsupportedVersionNumber", "UnacceptedHoldTime", "BadBgpIdentifier",
                            "BadPeerAs", "UnsupportedCapability", "UnsupportedOptionalParameter"}
         \/ e.kind = "UpdateMessageError"
              /\ e.sub \in {"MalformedAttributeList", "UnrecognizedWellKnownAttribute", "MissingWellKnownAttribute",
                            "AttributeFlagsError", "AttributeLengthError", "InvalidOriginAttribute",
                            "InvalidNextHopAttribute", "OptionalAttributeError", "InvalidNetworkField", "MalformedASPath"}
         \/ e.kind \in {"HoldTimerExpired", "FiniteStateMachineError"} /\ e.sub = "-"
         \/ e.kind = "Cease"
              /\ e.sub \in {"MaxPrefixesReached", "AdministrativeShutdown", "PeerDeconfigured", "AdministrativeReset",
                            "ConnectionRejected", "OtherConfigurationChange", "ConnectionCollisionResolution",
                            "OutOfResources"}
         \/ e.kind = "RouteRefreshMessageError" /\ e.sub = "InvalidMessageLength"
<1>1. CASE e \in Refused
  BY <1>1 DEF Refused, OpenError, BgpErrorIs, Meant
<1>2. CASE e \in {BgpErrorIs("HoldTimerExpired", "-"), BgpErrorIs("FiniteStateMachineError", "-")}
  BY <1>2 DEF BgpErrorIs, Meant
<1>3. CASE \E k \in Range(ErrorCode) \ {"OpenMessageError"} : \E n \in DOMAIN SubcodeFrom[k] :
             SubcodeFrom[k][n] # "-" /\ e = BgpErrorIs(k, SubcodeFrom[k][n])
  <2>0. PICK k \in Range(ErrorCode) \ {"OpenMessageError"} : \E n \in DOMAIN SubcodeFrom[k] :
               SubcodeFrom[k][n] # "-" /\ e = BgpErrorIs(k, SubcodeFrom[k][n])
    BY <1>3
  <2>1. PICK n \in DOMAIN SubcodeFrom[k] : SubcodeFrom[k][n] # "-" /\ e = BgpErrorIs(k, SubcodeFrom[k][n])
    BY <2>0
  <2>2. e.kind = k /\ e.sub = SubcodeFrom[k][n]
    BY <2>1 DEF BgpErrorIs, Meant
  <2>3. k \in {"MessageHeaderError", "UpdateMessageError", "HoldTimerExpired", "FiniteStateMachineError", "Cease",
               "RouteRefreshMessageError"}
    BY DEF Range, ErrorCode
  <2>4. CASE k = "MessageHeaderError"
    BY <2>2, <2>4 DEF SubcodeFrom
  <2>5. CASE k = "UpdateMessageError"
    BY <2>1, <2>2, <2>5 DEF SubcodeFrom
  <2>6. CASE k \in {"HoldTimerExpired", "FiniteStateMachineError"}
    BY <2>1, <2>2, <2>6 DEF SubcodeFrom
  <2>7. CASE k = "Cease"
    BY <2>2, <2>7 DEF SubcodeFrom
  <2>8. CASE k = "RouteRefreshMessageError"
    BY <2>2, <2>8 DEF SubcodeFrom
  <2>. QED
    BY <2>3, <2>4, <2>5, <2>6, <2>7, <2>8
<1>4. CASE \E k \in Range(ErrorCode) \ {"OpenMessageError"} : e \in ErrorsOf(k)
  BY <1>3, <1>4 DEF ErrorsOf
<1>5. CASE e \in Errors
  BY <1>2, <1>4, <1>5 DEF Errors
<1>. QED
  BY <1>1, <1>5 DEF Meanings

\* The number of each name.
LEMMA CodeNumbers ==
  /\ error_code_table["MessageHeaderError"] = 1 /\ error_code_table["OpenMessageError"] = 2
  /\ error_code_table["UpdateMessageError"] = 3 /\ error_code_table["HoldTimerExpired"] = 4
  /\ error_code_table["FiniteStateMachineError"] = 5 /\ error_code_table["Cease"] = 6
  /\ error_code_table["RouteRefreshMessageError"] = 7
  BY DEF error_code_table

LEMMA SubNumbers ==
  ASSUME NEW e, e.sub \in DOMAIN Numbers
  PROVE  error_subcode(e) = Numbers[e.sub]
  BY DEF error_subcode

\* What is read from the numbers of an error of a kind that has subcodes.
LEMMA ReadBack ==
  ASSUME NEW code \in 1..7, NEW sub, SubcodeFrom[ErrorCode[code]] # <<>>
  PROVE  LET names == SubcodeFrom[ErrorCode[code]]
         IN  /\ sub \in DOMAIN names /\ names[sub] # "-" => BgpError(code, sub) = BgpErrorIs(ErrorCode[code], names[sub])
             /\ sub \notin DOMAIN names => BgpError(code, sub) = BgpErrorIs(ErrorCode[code], "Unspecific")
<1>1. DOMAIN ErrorCode = 1..7
  BY DEF ErrorCode
<1>. QED
  BY <1>1 DEF BgpError

\* An error is its kind and its subcode.
LEMMA Shape ==
  ASSUME NEW e \in Meanings
  PROVE  e = BgpErrorIs(e.kind, e.sub)
<1>1. ASSUME NEW k, NEW s
      PROVE  BgpErrorIs(k, s) = BgpErrorIs(BgpErrorIs(k, s).kind, BgpErrorIs(k, s).sub)
  BY DEF BgpErrorIs, Meant
<1>2. \E k, s : e = BgpErrorIs(k, s)
  BY DEF Meanings, Errors, ErrorsOf, Refused, OpenError
<1>. QED
  BY <1>1, <1>2

\* An error whose number names it.
LEMMA Named ==
  ASSUME NEW e \in Meanings, NEW code \in 1..7, error_code(e) = code, ErrorCode[code] = e.kind,
         SubcodeFrom[ErrorCode[code]] # <<>>, e.sub \in DOMAIN Numbers,
         \/ /\ Numbers[e.sub] \in DOMAIN SubcodeFrom[ErrorCode[code]] /\ e.sub # "-"
            /\ SubcodeFrom[ErrorCode[code]][Numbers[e.sub]] = e.sub
         \/ Numbers[e.sub] \notin DOMAIN SubcodeFrom[ErrorCode[code]] /\ e.sub = "Unspecific"
  PROVE  BgpError(error_code(e), error_subcode(e)) = e /\ error_subcode(e) = Numbers[e.sub]
<1>1. error_subcode(e) = Numbers[e.sub]
  BY SubNumbers, Zenon
<1>2. BgpError(code, Numbers[e.sub]) = BgpErrorIs(ErrorCode[code], e.sub)
  BY ReadBack
<1>. QED
  BY <1>1, <1>2, Shape

\* An error is read from its numbers as itself (error_code, error_subcode,
\* BgpError::new).
LEMMA RoundTrip ==
  ASSUME NEW e \in Meanings
  PROVE  /\ BgpError(error_code(e), error_subcode(e)) = e
         /\ e.kind # "Unknown" /\ error_code(e) \in Nat /\ error_subcode(e) \in Nat
<1>1. CASE e.kind = "MessageHeaderError"
  <2>1. e.sub \in {"ConnectionNotSynchronized", "BadMessageLength", "BadMessageType"}
    BY <1>1, Kinds
  <2>2. error_code(e) = 1
    BY <1>1, CodeNumbers DEF error_code
  <2>3. /\ SubcodeFrom[ErrorCode[1]] = <<"ConnectionNotSynchronized", "BadMessageLength", "BadMessageType">>
        /\ ErrorCode[1] = e.kind
    BY <1>1 DEF SubcodeFrom, ErrorCode
  <2>4. e.sub \in DOMAIN Numbers /\ Numbers[e.sub] \in 1..3 /\ SubcodeFrom[ErrorCode[1]][Numbers[e.sub]] = e.sub
    BY <2>1, <2>3 DEF Numbers
  <2>5. DOMAIN SubcodeFrom[ErrorCode[1]] = 1..3 /\ SubcodeFrom[ErrorCode[1]] # <<>> /\ e.sub # "-" /\ ErrorCode[1] = e.kind
    BY <2>1, <2>3
  <2>. QED
    BY <1>1, <2>2, <2>4, <2>5, Named
<1>2. CASE e.kind = "OpenMessageError"
  <2>1. e.sub \in {"Unspecific", "UnsupportedVersionNumber", "UnacceptedHoldTime", "BadBgpIdentifier",
                   "BadPeerAs", "UnsupportedCapability", "UnsupportedOptionalParameter"}
    BY <1>2, Kinds
  <2>2. error_code(e) = 2
    BY <1>2, CodeNumbers DEF error_code
  <2>3. /\ SubcodeFrom[ErrorCode[2]] = <<"UnsupportedVersionNumber", "BadPeerAs", "BadBgpIdentifier",
                               "UnsupportedOptionalParameter", "-", "UnacceptedHoldTime", "UnsupportedCapability">>
        /\ ErrorCode[2] = e.kind
    BY <1>2 DEF SubcodeFrom, ErrorCode
  <2>4. CASE e.sub = "Unspecific"
    <3>1. e.sub \in DOMAIN Numbers /\ Numbers[e.sub] = 0 /\ 0 \notin DOMAIN SubcodeFrom[ErrorCode[2]]
      BY <2>3, <2>4 DEF Numbers
    <3>2. SubcodeFrom[ErrorCode[2]] # <<>> /\ ErrorCode[2] = e.kind
      BY <2>3
    <3>. QED
      BY <1>2, <2>2, <2>4, <3>1, <3>2, Named
  <2>5. CASE e.sub # "Unspecific"
    <3>1. e.sub \in DOMAIN Numbers /\ Numbers[e.sub] \in 1..7 /\ SubcodeFrom[ErrorCode[2]][Numbers[e.sub]] = e.sub
      BY <2>1, <2>3, <2>5 DEF Numbers
    <3>2. DOMAIN SubcodeFrom[ErrorCode[2]] = 1..7 /\ SubcodeFrom[ErrorCode[2]] # <<>> /\ e.sub # "-" /\ ErrorCode[2] = e.kind
      BY <2>1, <2>3
    <3>. QED
      BY <1>2, <2>2, <3>1, <3>2, Named
  <2>. QED
    BY <2>4, <2>5
<1>3. CASE e.kind = "UpdateMessageError"
  <2>1. e.sub \in {"MalformedAttributeList", "UnrecognizedWellKnownAttribute", "MissingWellKnownAttribute",
                   "AttributeFlagsError", "AttributeLengthError", "InvalidOriginAttribute",
                   "InvalidNextHopAttribute", "OptionalAttributeError", "InvalidNetworkField", "MalformedASPath"}
    BY <1>3, Kinds
  <2>2. error_code(e) = 3
    BY <1>3, CodeNumbers DEF error_code
  <2>3. /\ SubcodeFrom[ErrorCode[3]] =
               <<"MalformedAttributeList", "UnrecognizedWellKnownAttribute", "MissingWellKnownAttribute",
                 "AttributeFlagsError", "AttributeLengthError", "InvalidOriginAttribute", "-",
                 "InvalidNextHopAttribute", "OptionalAttributeError", "InvalidNetworkField", "MalformedASPath">>
        /\ ErrorCode[3] = e.kind
    BY <1>3, Zenon DEF SubcodeFrom, ErrorCode
  <2>4. e.sub \in DOMAIN Numbers /\ Numbers[e.sub] \in 1..11 /\ SubcodeFrom[ErrorCode[3]][Numbers[e.sub]] = e.sub
    BY <2>1, <2>3 DEF Numbers
  <2>5. DOMAIN SubcodeFrom[ErrorCode[3]] = 1..11 /\ SubcodeFrom[ErrorCode[3]] # <<>> /\ e.sub # "-" /\ ErrorCode[3] = e.kind
    BY <2>1, <2>3
  <2>. QED
    BY <1>3, <2>2, <2>4, <2>5, Named
<1>4. CASE e.kind = "HoldTimerExpired"
  <2>1. e.sub = "-" /\ error_code(e) = 4 /\ error_subcode(e) = 0
    BY <1>4, Kinds, CodeNumbers DEF error_code, error_subcode, Numbers
  <2>2. ErrorCode[4] = e.kind /\ SubcodeFrom[e.kind] = <<>> /\ 4 \in DOMAIN ErrorCode
    BY <1>4 DEF ErrorCode, SubcodeFrom
  <2>. QED
    BY <1>4, <2>1, <2>2, Shape DEF BgpError
<1>5. CASE e.kind = "FiniteStateMachineError"
  <2>1. e.sub = "-" /\ error_code(e) = 5 /\ error_subcode(e) = 0
    BY <1>5, Kinds, CodeNumbers DEF error_code, error_subcode, Numbers
  <2>2. ErrorCode[5] = e.kind /\ SubcodeFrom[e.kind] = <<>> /\ 5 \in DOMAIN ErrorCode
    BY <1>5 DEF ErrorCode, SubcodeFrom
  <2>. QED
    BY <1>5, <2>1, <2>2, Shape DEF BgpError
<1>6. CASE e.kind = "Cease"
  <2>1. e.sub \in {"MaxPrefixesReached", "AdministrativeShutdown", "PeerDeconfigured", "AdministrativeReset",
                   "ConnectionRejected", "OtherConfigurationChange", "ConnectionCollisionResolution", "OutOfResources"}
    BY <1>6, Kinds
  <2>2. error_code(e) = 6
    BY <1>6, CodeNumbers DEF error_code
  <2>3. /\ SubcodeFrom[ErrorCode[6]] =
               <<"MaxPrefixesReached", "AdministrativeShutdown", "PeerDeconfigured", "AdministrativeReset",
                 "ConnectionRejected", "OtherConfigurationChange", "ConnectionCollisionResolution", "OutOfResources">>
        /\ ErrorCode[6] = e.kind
    BY <1>6 DEF SubcodeFrom, ErrorCode
  <2>4. e.sub \in DOMAIN Numbers /\ Numbers[e.sub] \in 1..8 /\ SubcodeFrom[ErrorCode[6]][Numbers[e.sub]] = e.sub
    BY <2>1, <2>3 DEF Numbers
  <2>5. DOMAIN SubcodeFrom[ErrorCode[6]] = 1..8 /\ SubcodeFrom[ErrorCode[6]] # <<>> /\ e.sub # "-" /\ ErrorCode[6] = e.kind
    BY <2>1, <2>3
  <2>. QED
    BY <1>6, <2>2, <2>4, <2>5, Named
<1>7. CASE e.kind = "RouteRefreshMessageError"
  <2>1. e.sub = "InvalidMessageLength" /\ error_code(e) = 7
    BY <1>7, Kinds, CodeNumbers DEF error_code
  <2>2. SubcodeFrom[ErrorCode[7]] = <<"InvalidMessageLength">> /\ ErrorCode[7] = e.kind
    BY <1>7 DEF SubcodeFrom, ErrorCode
  <2>3. e.sub \in DOMAIN Numbers /\ Numbers[e.sub] = 1
    BY <2>1 DEF Numbers
  <2>4. 1 \in DOMAIN SubcodeFrom[ErrorCode[7]] /\ SubcodeFrom[ErrorCode[7]] # <<>> /\ SubcodeFrom[ErrorCode[7]][1] = e.sub
    BY <2>1, <2>2
  <2>5. ErrorCode[7] = e.kind /\ e.sub # "-" /\ error_code(e) = 7
    BY <2>1, <2>2, Zenon
  <2>6. BgpError(error_code(e), error_subcode(e)) = e /\ error_subcode(e) = Numbers[e.sub]
    BY <2>3, <2>4, <2>5, Named
  <2>. QED
    BY <1>7, <2>3, <2>5, <2>6
<1>. QED
  BY <1>1, <1>2, <1>3, <1>4, <1>5, <1>6, <1>7, Kinds, Zenon

-----------------------------------------------------------------------------
(* The capabilities in an OPEN *)

EntrySet == [fam : Nat \X Nat, flag : Nat, time : Nat]
CapSet == [code : Nat, head : Nat, entries : Seq(EntrySet)]
Params == Seq([caps : Seq(CapSet)])
Positions(params) == UNION {{<<i, j>> : j \in DOMAIN params[i].caps} : i \in DOMAIN params}
Carried(params) == {At(params, x) : x \in Positions(params)}

\* What is in a sequence.
LEMMA SeqElement ==
  ASSUME NEW S, NEW q \in Seq(S), NEW i \in DOMAIN q
  PROVE  i \in 1..Len(q) /\ q[i] \in S
  OBVIOUS

\* Places in the parameters are pairs of numbers.
LEMMA PlaceNumbers ==
  ASSUME NEW params \in Params, NEW code
  PROVE  /\ \A x \in Positions(params) : /\ x[1] \in 1..Len(params) /\ x[2] \in 1..Len(params[x[1]].caps)
                                         /\ x = <<x[1], x[2]>> /\ At(params, x) \in CapSet
         /\ With(params, code) = {x \in Positions(params) : At(params, x).code = code}
<1>1. ASSUME NEW x \in Positions(params)
      PROVE  /\ x[1] \in 1..Len(params) /\ x[2] \in 1..Len(params[x[1]].caps)
             /\ x = <<x[1], x[2]>> /\ At(params, x) \in CapSet
  <2>1. PICK i \in DOMAIN params : x \in {<<i, j>> : j \in DOMAIN params[i].caps}
    BY DEF Positions
  <2>2. PICK j \in DOMAIN params[i].caps : x = <<i, j>>
    BY <2>1
  <2>3. i \in 1..Len(params) /\ params[i] \in [caps : Seq(CapSet)]
    BY <2>1, SeqElement, Zenon DEF Params
  <2>4. j \in 1..Len(params[i].caps) /\ params[i].caps[j] \in CapSet
    BY <2>2, <2>3
  <2>5. x[1] = i /\ x[2] = j
    BY <2>2
  <2>. QED
    BY <2>2, <2>3, <2>4, <2>5 DEF At
<1>2. With(params, code) = {x \in Positions(params) : At(params, x).code = code}
  BY DEF With, Positions
<1>. QED
  BY <1>1, <1>2

\* No two capabilities have the same code, but for the multiprotocol ones, of
\* which there is one for each family.
Distinct(q) == \A i, j \in DOMAIN q : q[i].code = q[j].code => i = j \/ q[i].code = 1
Apart(params) ==
    \A x, y \in Positions(params) : At(params, x).code = At(params, y).code => x = y \/ At(params, x).code = 1

\* A code is there when a capability with it is.
LEMMA IsThere ==
  ASSUME NEW params \in Params, NEW code
  PROVE  Has(params, code) <=> \E k \in Carried(params) : k.code = code
<1>1. With(params, code) = {x \in Positions(params) : At(params, x).code = code}
  BY PlaceNumbers
<1>. QED
  BY <1>1 DEF Has, Carried

\* When there is one only, it is the first and the last.
LEMMA OneOf ==
  ASSUME NEW params \in Params, Apart(params), NEW k \in Carried(params), NEW code, k.code = code, code # 1
  PROVE  Has(params, code) /\ First(params, code) = k /\ Last(params, code) = k
<1>1. PICK x \in Positions(params) : k = At(params, x)
  BY DEF Carried
<1>2. With(params, code) = {x}
  <2>1. With(params, code) = {y \in Positions(params) : At(params, y).code = code}
    BY PlaceNumbers
  <2>2. \A y \in Positions(params) : At(params, y).code = code <=> y = x
    BY <1>1, Zenon DEF Apart
  <2>. QED
    BY <2>1, <2>2, Zenon
<1>3. Before(x, x)
  <2>1. x[1] \in 1..Len(params) /\ x[2] \in 1..Len(params[x[1]].caps)
    BY PlaceNumbers
  <2>. QED
    BY <2>1 DEF Before
<1>4. /\ (CHOOSE z \in {x} : \A y \in {x} : Before(z, y)) = x
      /\ (CHOOSE z \in {x} : \A y \in {x} : Before(y, z)) = x
  BY <1>3
<1>. QED
  BY <1>1, <1>2, <1>4, Zenon DEF Has, First, Last

\* What a speaker with configuration c announces.
Fams(c) == advertised_afi_safis(c)
Mode(c) == from_flags(c.send, c.receive)
RestartCap(c) == new_graceful_restart(c.restart_time, Fams(c))
LlgrCap(c) == new_llgr(c.llgr, c.stale_time)
PathCap(c) == new_add_path(Fams(c), Mode(c))
CapsOf(c) ==
    {new_multiprotocol(f) : f \in Range(Fams(c))}
    \cup {Capability(RouteRefresh, 0, <<>>), Capability(EnhancedRouteRefresh, 0, <<>>), new_four_octet_asn(c.asn)}
    \cup (IF c.gr THEN {RestartCap(c)} ELSE {})
    \cup (IF c.llgr # <<>> THEN {LlgrCap(c)} ELSE {})
    \cup (IF Mode(c) # 0 THEN {PathCap(c)} ELSE {})
Foreign == {new_multiprotocol(<<25, 70>>), Capability(99, 0, <<>>)}

\* The elements of a concatenation.
LEMMA RangeOfCat ==
  ASSUME NEW S, NEW a \in Seq(S), NEW b \in Seq(S)
  PROVE  a \o b \in Seq(S) /\ Range(a \o b) = Range(a) \cup Range(b) /\ Len(a \o b) = Len(a) + Len(b)
<1>. DEFINE c == a \o b
<1>1. c \in Seq(S) /\ Len(c) = Len(a) + Len(b)
  OBVIOUS
<1>2. /\ \A i \in 1..Len(a) : i \in 1..Len(c) /\ c[i] = a[i]
      /\ \A i \in 1..Len(b) : Len(a) + i \in 1..Len(c) /\ c[Len(a) + i] = b[i]
      /\ \A i \in 1..Len(c) : i \in 1..Len(a) \/ (i - Len(a) \in 1..Len(b) /\ c[i] = b[i - Len(a)])
  OBVIOUS
<1>3. DOMAIN a = 1..Len(a) /\ DOMAIN b = 1..Len(b) /\ DOMAIN c = 1..Len(c)
  BY <1>1
<1>. HIDE DEF c
<1>4. Range(c) = Range(a) \cup Range(b)
  <2>1. ASSUME NEW x \in Range(c) PROVE x \in Range(a) \cup Range(b)
    BY <1>2, <1>3, ZenonT(60) DEF Range
  <2>2. ASSUME NEW x \in Range(a) PROVE x \in Range(c)
    BY <1>2, <1>3 DEF Range
  <2>3. ASSUME NEW x \in Range(b) PROVE x \in Range(c)
    BY <1>2, <1>3 DEF Range
  <2>. QED
    BY <2>1, <2>2, <2>3
<1>. QED
  BY <1>1, <1>4 DEF c

\* ... and of a sequence with one more.
LEMMA Appended ==
  ASSUME NEW S, NEW a \in Seq(S), NEW u \in S, NEW w, w = a \o <<u>>
  PROVE  /\ w \in Seq(S) /\ Len(w) = Len(a) + 1
         /\ w[Len(a) + 1] = u /\ \A i \in 1..Len(a) : w[i] = a[i]
  OBVIOUS

\* Capabilities with different codes stay so when they are put together.
LEMMA DistinctCat ==
  ASSUME NEW a \in Seq(CapSet), NEW b \in Seq(CapSet), NEW c, c = a \o b, Distinct(a), Distinct(b),
         \A k \in Range(a), m \in Range(b) : k.code # m.code
  PROVE  Distinct(c)
<1>1. /\ DOMAIN a = 1..Len(a) /\ DOMAIN b = 1..Len(b) /\ DOMAIN c = 1..(Len(a) + Len(b)) /\ Len(a) \in Nat /\ Len(b) \in Nat
      /\ \A i \in 1..Len(a) : c[i] = a[i]
      /\ \A i \in DOMAIN c : i \notin 1..Len(a) => i - Len(a) \in 1..Len(b) /\ c[i] = b[i - Len(a)]
  OBVIOUS
<1>2. \A i \in 1..Len(a), j \in 1..Len(b) : a[i].code # b[j].code
  BY <1>1, Zenon DEF Range
<1>3. ASSUME NEW i \in DOMAIN c, NEW j \in DOMAIN c, c[i].code = c[j].code PROVE i = j \/ c[i].code = 1
  <2>1. CASE i \in 1..Len(a) /\ j \in 1..Len(a)
    BY <1>1, <1>3, <2>1, Zenon DEF Distinct
  <2>2. CASE i \notin 1..Len(a) /\ j \notin 1..Len(a)
    <3>1. PICK m, n : m = i - Len(a) /\ n = j - Len(a)
      OBVIOUS
    <3>2. m \in DOMAIN b /\ n \in DOMAIN b /\ c[i] = b[m] /\ c[j] = b[n]
      BY <1>1, <2>2, <3>1, Zenon
    <3>3. m = n \/ c[i].code = 1
      BY <1>3, <3>2, Zenon DEF Distinct
    <3>. QED
      BY <1>1, <3>1, <3>3
  <2>3. CASE i \in 1..Len(a) /\ j \notin 1..Len(a)
    BY <1>1, <1>2, <1>3, <2>3, Zenon
  <2>4. CASE i \notin 1..Len(a) /\ j \in 1..Len(a)
    BY <1>1, <1>2, <1>3, <2>4, Zenon
  <2>. QED
    BY <2>1, <2>2, <2>3, <2>4, Zenon
<1>. QED
  BY <1>3, Zenon DEF Distinct

\* The sequences of the model's sends: one message, one in front, one behind.
LEMMA OneMessage ==
  ASSUME NEW S, NEW u \in S, NEW w, w = <<u>>
  PROVE  w \in Seq(S) /\ Len(w) = 1 /\ w[1] = u
  OBVIOUS

LEMMA Fronted ==
  ASSUME NEW S, NEW u \in S, NEW q \in Seq(S), q # <<>>
  PROVE  <<u>> \o Tail(q) \in Seq(S)
<1>1. PICK r : r = Tail(q)
  BY Zenon
<1>2. r \in Seq(S)
  BY <1>1
<1>3. PICK w : w = <<u>>
  BY Zenon
<1>4. w \in Seq(S)
  BY <1>3, OneMessage, Zenon
<1>5. w \o r \in Seq(S)
  BY <1>2, <1>4
<1>. QED
  BY <1>1, <1>3, <1>5, Zenon

LEMMA Behind ==
  ASSUME NEW S, NEW q \in Seq(S), NEW u \in S
  PROVE  Append(q, u) = q \o <<u>>
  OBVIOUS

\* The families a configuration announces.
LEMMA FamsType ==
  ASSUME NEW c \in Configs
  PROVE  /\ Fams(c) \in Seq(Families) /\ Fams(c) # <<>> /\ Range(Fams(c)) \subseteq Families /\ Range(Fams(c)) # {}
         /\ c.llgr \in Seq(Families) /\ Range(c.llgr) \subseteq Families
         /\ Mode(c) \in 0..3 /\ Families \subseteq Nat \X Nat
         /\ c.gr \in BOOLEAN /\ c.send \in BOOLEAN /\ c.receive \in BOOLEAN /\ c.expected \in Seq(Nat)
         /\ c.asn \in Nat /\ c.id \in Nat /\ c.hold \in Nat /\ c.restart_time \in Nat /\ c.stale_time \in Nat
<1>1. /\ c.families \in Seq(Families) /\ c.llgr \in Seq(Families)
      /\ c.gr \in BOOLEAN /\ c.send \in BOOLEAN /\ c.receive \in BOOLEAN /\ c.expected \in Seq(Nat)
      /\ c.asn \in Nat /\ c.id \in Nat /\ c.hold \in Nat /\ c.restart_time \in Nat /\ c.stale_time \in Nat
  BY DEF Configs
<1>2. Families \subseteq Nat \X Nat /\ <<1, 1>> \in Families
  BY DEF Families
<1>3. Fams(c) \in Seq(Families) /\ Fams(c) # <<>>
  BY <1>1, <1>2 DEF Fams, advertised_afi_safis, Ipv4Unicast
<1>4. Range(Fams(c)) \subseteq Families /\ Range(c.llgr) \subseteq Families
  BY <1>1, <1>3 DEF Range
<1>5. Range(Fams(c)) # {}
  <2>1. 1 \in DOMAIN Fams(c)
    BY <1>3
  <2>. QED
    BY <2>1 DEF Range
<1>6. Mode(c) \in 0..3
  BY <1>1 DEF Mode, from_flags
<1>. QED
  BY <1>1, <1>2, <1>3, <1>4, <1>5, <1>6, Zenon

\* Entries made of families are entries.
LEMMA PerType ==
  ASSUME NEW fams \in Seq(Families), NEW flag \in Nat, NEW time \in Nat
  PROVE  /\ Per(fams, flag, time) \in Seq(EntrySet)
         /\ Range(Per(fams, flag, time)) = {Entry(f, flag, time) : f \in Range(fams)}
<1>1. ASSUME NEW i \in 1..Len(fams) PROVE Entry(fams[i], flag, time) \in EntrySet
  BY DEF Entry, EntrySet, Families
<1>2. Per(fams, flag, time) \in Seq(EntrySet)
  BY <1>1 DEF Per
<1>3. DOMAIN Per(fams, flag, time) = 1..Len(fams) /\ DOMAIN fams = 1..Len(fams)
      /\ \A i \in 1..Len(fams) : Per(fams, flag, time)[i] = Entry(fams[i], flag, time)
  BY DEF Per
<1>4. Range(Per(fams, flag, time)) = {Entry(f, flag, time) : f \in Range(fams)}
  BY <1>3 DEF Range
<1>. QED
  BY <1>2, <1>4

\* Times in their bits.
LEMMA Remainders ==
  ASSUME NEW x \in Nat
  PROVE  /\ x % Bits12 \in Nat /\ x % Bits24 \in Nat /\ (x % Bits12) % Bits12 = x % Bits12 /\ x % Bits12 < Bits15
         /\ x < Bits12 => x % Bits12 = x
         /\ x < Bits24 => x % Bits24 = x
  BY SMT DEF Bits12, Bits15, Bits24

\* The capabilities announced.
LEMMA CapTypes ==
  ASSUME NEW c \in Configs
  PROVE  /\ \A f \in Nat \X Nat : new_multiprotocol(f) \in CapSet
         /\ Capability(RouteRefresh, 0, <<>>) \in CapSet /\ Capability(EnhancedRouteRefresh, 0, <<>>) \in CapSet
         /\ Capability(99, 0, <<>>) \in CapSet /\ new_four_octet_asn(c.asn) \in CapSet
         /\ RestartCap(c) \in CapSet /\ LlgrCap(c) \in CapSet /\ PathCap(c) \in CapSet
<1>1. ASSUME NEW code \in Nat, NEW head \in Nat, NEW entries \in Seq(EntrySet)
      PROVE  Capability(code, head, entries) \in CapSet
  BY DEF Capability, CapSet
<1>2. \A f \in Nat \X Nat : <<Entry(f, 0, 0)>> \in Seq(EntrySet)
  BY DEF Entry, EntrySet
<1>3. <<>> \in Seq(EntrySet) /\ c.asn \in Nat
  BY FamsType
<1>4. c.restart_time % Bits12 \in Nat /\ c.stale_time % Bits24 \in Nat /\ Mode(c) \in Nat
  <2>1. c.restart_time \in Nat /\ c.stale_time \in Nat /\ Mode(c) \in 0..3
    BY FamsType, Zenon
  <2>2. Mode(c) \in Nat
    BY <2>1
  <2>. QED
    BY <2>1, <2>2, Remainders, Zenon
<1>5. Per(Fams(c), 0, 0) \in Seq(EntrySet) /\ Per(c.llgr, 0, c.stale_time % Bits24) \in Seq(EntrySet)
      /\ Per(Fams(c), Mode(c), 0) \in Seq(EntrySet)
  BY <1>4, FamsType, PerType, Zenon
<1>6. RestartCap(c) \in CapSet /\ LlgrCap(c) \in CapSet /\ PathCap(c) \in CapSet
  BY <1>1, <1>4, <1>5 DEF RestartCap, LlgrCap, PathCap, new_graceful_restart, new_llgr, new_add_path, GracefulRestart, Llgr, AddPath
<1>7. \A f \in Nat \X Nat : new_multiprotocol(f) \in CapSet
  BY <1>1, <1>2, Zenon DEF new_multiprotocol, Multiprotocol
<1>8. /\ Capability(RouteRefresh, 0, <<>>) \in CapSet /\ Capability(EnhancedRouteRefresh, 0, <<>>) \in CapSet
      /\ Capability(99, 0, <<>>) \in CapSet
  BY <1>1, <1>3, ZenonT(60) DEF RouteRefresh, EnhancedRouteRefresh
<1>9. new_four_octet_asn(c.asn) \in CapSet
  BY <1>1, <1>3, Zenon DEF new_four_octet_asn, FourOctetAsn
<1>. QED
  BY <1>6, <1>7, <1>8, <1>9

\* The codes of the capabilities tell them apart.
LEMMA Codes ==
  ASSUME NEW c \in Configs
  PROVE  /\ \A f : new_multiprotocol(f).code = 1
         /\ Capability(RouteRefresh, 0, <<>>).code = 2 /\ Capability(EnhancedRouteRefresh, 0, <<>>).code = 70
         /\ Capability(99, 0, <<>>).code = 99 /\ new_four_octet_asn(c.asn).code = 65 /\ new_four_octet_asn(c.asn).head = c.asn
         /\ RestartCap(c).code = 64 /\ LlgrCap(c).code = 71 /\ PathCap(c).code = 69
  BY SMTT(60) DEF new_multiprotocol, new_four_octet_asn, RestartCap, LlgrCap, PathCap, new_graceful_restart, new_llgr, new_add_path,
         Capability, Multiprotocol, RouteRefresh, EnhancedRouteRefresh, FourOctetAsn, GracefulRestart, Llgr, AddPath

\* The optional parameters of an OPEN are one, with these capabilities
\* (build_optional_params).
LEMMA PackedCaps ==
  ASSUME NEW c \in Configs
  PROVE  /\ Packed(c) = <<[caps |-> Packed(c)[1].caps]>> /\ Packed(c)[1].caps \in Seq(CapSet)
         /\ Range(Packed(c)[1].caps) = CapsOf(c) /\ Len(Packed(c)[1].caps) > 0
         /\ Distinct(Packed(c)[1].caps) /\ \A k \in CapsOf(c) : k.code # 99
<1>. DEFINE fams == Fams(c)
            a == [i \in 1..Len(fams) |-> new_multiprotocol(fams[i])]
            b == <<Capability(RouteRefresh, 0, <<>>), Capability(EnhancedRouteRefresh, 0, <<>>)>>
            g == When(c.gr, RestartCap(c))
            f == <<new_four_octet_asn(c.asn)>>
            l == When(c.llgr # <<>>, LlgrCap(c))
            p == When(Mode(c) # 0, PathCap(c))
<1>1. Packed(c) = <<[caps |-> a \o b \o g \o f \o l \o p]>>
  BY DEF Packed, build_optional_params, Fams, Mode, RestartCap, LlgrCap, PathCap
<1>2. a \in Seq(CapSet) /\ Range(a) = {new_multiprotocol(x) : x \in Range(fams)} /\ Len(a) > 0
  <2>1. fams \in Seq(Families) /\ fams # <<>> /\ Families \subseteq Nat \X Nat
    BY FamsType
  <2>2. \A i \in 1..Len(fams) : new_multiprotocol(fams[i]) \in CapSet
    <3>1. \A i \in 1..Len(fams) : fams[i] \in Nat \X Nat
      BY <2>1
    <3>. QED
      BY <3>1, CapTypes
  <2>. HIDE DEF fams
  <2>3. a \in Seq(CapSet) /\ Len(a) = Len(fams)
    BY <2>1, <2>2
  <2>4. DOMAIN a = DOMAIN fams /\ \A i \in DOMAIN fams : a[i] = new_multiprotocol(fams[i])
    BY <2>1
  <2>5. Range(a) = {new_multiprotocol(x) : x \in Range(fams)}
    BY <2>4 DEF Range
  <2>. QED
    BY <2>1, <2>3, <2>5, SMTT(60)
<1>3. b \in Seq(CapSet) /\ Range(b) = {Capability(RouteRefresh, 0, <<>>), Capability(EnhancedRouteRefresh, 0, <<>>)}
  <2>1. PICK x, y : x = Capability(RouteRefresh, 0, <<>>) /\ y = Capability(EnhancedRouteRefresh, 0, <<>>)
    OBVIOUS
  <2>2. x \in CapSet /\ y \in CapSet /\ b = <<x, y>>
    BY <2>1, CapTypes
  <2>3. <<x, y>> \in Seq(CapSet) /\ Range(<<x, y>>) = {x, y}
    BY <2>2 DEF Range
  <2>. QED
    BY <2>1, <2>2, <2>3
<1>4. ASSUME NEW cond \in BOOLEAN, NEW x \in CapSet
      PROVE  When(cond, x) \in Seq(CapSet) /\ Range(When(cond, x)) = IF cond THEN {x} ELSE {}
  BY DEF When, Range
<1>5. g \in Seq(CapSet) /\ Range(g) = IF c.gr THEN {RestartCap(c)} ELSE {}
  BY <1>4, CapTypes, FamsType, ZenonT(60)
<1>6. f \in Seq(CapSet) /\ Range(f) = {new_four_octet_asn(c.asn)}
  <2>1. PICK x : x = new_four_octet_asn(c.asn)
    OBVIOUS
  <2>2. <<x>> \in Seq(CapSet) /\ Range(<<x>>) = {x}
    BY <2>1, CapTypes DEF Range
  <2>. QED
    BY <2>1, <2>2
<1>7. l \in Seq(CapSet) /\ Range(l) = IF c.llgr # <<>> THEN {LlgrCap(c)} ELSE {}
  BY <1>4, CapTypes, Zenon
<1>8. p \in Seq(CapSet) /\ Range(p) = IF Mode(c) # 0 THEN {PathCap(c)} ELSE {}
  BY <1>4, CapTypes, Zenon
<1>. HIDE DEF a, b, g, f, l, p, fams
<1>9. PICK q2 : q2 = a \o b
  BY Zenon
<1>10. PICK q3 : q3 = q2 \o g
  BY Zenon
<1>11. PICK q4 : q4 = q3 \o f
  BY Zenon
<1>12. PICK q5 : q5 = q4 \o l
  BY Zenon
<1>13. PICK q : q = q5 \o p
  BY Zenon
<1>14. /\ q2 \in Seq(CapSet) /\ Range(q2) = Range(a) \cup Range(b)
       /\ q3 \in Seq(CapSet) /\ Range(q3) = Range(q2) \cup Range(g)
       /\ q4 \in Seq(CapSet) /\ Range(q4) = Range(q3) \cup Range(f)
       /\ q5 \in Seq(CapSet) /\ Range(q5) = Range(q4) \cup Range(l)
       /\ q \in Seq(CapSet) /\ Range(q) = Range(q5) \cup Range(p) /\ Len(q) > 0
  <2>1. q2 \in Seq(CapSet) /\ Range(q2) = Range(a) \cup Range(b) /\ Len(q2) > 0
    BY <1>2, <1>3, <1>9, RangeOfCat
  <2>2. q3 \in Seq(CapSet) /\ Range(q3) = Range(q2) \cup Range(g) /\ Len(q3) > 0
    BY <1>5, <1>10, <2>1, RangeOfCat
  <2>3. q4 \in Seq(CapSet) /\ Range(q4) = Range(q3) \cup Range(f) /\ Len(q4) > 0
    BY <1>6, <1>11, <2>2, RangeOfCat
  <2>4. q5 \in Seq(CapSet) /\ Range(q5) = Range(q4) \cup Range(l) /\ Len(q5) > 0
    BY <1>7, <1>12, <2>3, RangeOfCat
  <2>5. q \in Seq(CapSet) /\ Range(q) = Range(q5) \cup Range(p) /\ Len(q) > 0
    BY <1>8, <1>13, <2>4, RangeOfCat
  <2>. QED
    BY <2>1, <2>2, <2>3, <2>4, <2>5
<1>15. Range(q) = CapsOf(c)
  BY <1>2, <1>3, <1>5, <1>6, <1>7, <1>8, <1>14, Zenon DEF CapsOf, fams
<1>16. Distinct(q) /\ \A k \in Range(q) : k.code # 99
  <2>1. /\ \A k \in Range(a) : k.code \in {1}
        /\ \A k \in Range(b) : k.code \in {2, 70}
        /\ \A k \in Range(g) : k.code \in {64}
        /\ \A k \in Range(f) : k.code \in {65}
        /\ \A k \in Range(l) : k.code \in {71}
        /\ \A k \in Range(p) : k.code \in {69}
    BY <1>2, <1>3, <1>5, <1>6, <1>7, <1>8, Codes
  <2>2. ASSUME NEW r \in Seq(CapSet), \A k \in Range(r) : k.code \in {1} PROVE Distinct(r)
    BY <2>2 DEF Distinct, Range
  <2>3. Distinct(a)
    BY <1>2, <2>1, <2>2, Zenon
  <2>4. ASSUME NEW x \in CapSet PROVE Distinct(<<x>>) /\ Distinct(<<>>)
    BY DEF Distinct
  <2>5. Distinct(b) /\ Distinct(g) /\ Distinct(f) /\ Distinct(l) /\ Distinct(p)
    <3>1. PICK x, y : x = Capability(RouteRefresh, 0, <<>>) /\ y = Capability(EnhancedRouteRefresh, 0, <<>>)
      OBVIOUS
    <3>2. x.code # y.code
      BY <3>1, Codes
    <3>3. Distinct(<<x, y>>)
      BY <3>2 DEF Distinct
    <3>4. Distinct(b)
      BY <3>1, <3>3, Zenon DEF b
    <3>5. Distinct(f)
      BY <2>4, CapTypes, Zenon DEF f
    <3>6. Distinct(g) /\ Distinct(l) /\ Distinct(p)
      BY <2>4, CapTypes, Zenon DEF g, l, p, When
    <3>. QED
      BY <3>4, <3>5, <3>6
  <2>6. /\ \A k \in Range(q2) : k.code \in {1, 2, 70}
        /\ \A k \in Range(q3) : k.code \in {1, 2, 70, 64}
        /\ \A k \in Range(q4) : k.code \in {1, 2, 70, 64, 65}
        /\ \A k \in Range(q5) : k.code \in {1, 2, 70, 64, 65, 71}
        /\ \A k \in Range(q) : k.code \in {1, 2, 70, 64, 65, 71, 69}
    <3>1. \A k \in Range(q2) : k.code \in {1, 2, 70}
      BY <1>14, <2>1
    <3>2. \A k \in Range(q3) : k.code \in {1, 2, 70, 64}
      BY <1>14, <2>1, <3>1
    <3>3. \A k \in Range(q4) : k.code \in {1, 2, 70, 64, 65}
      BY <1>14, <2>1, <3>2
    <3>4. \A k \in Range(q5) : k.code \in {1, 2, 70, 64, 65, 71}
      BY <1>14, <2>1, <3>3
    <3>5. \A k \in Range(q) : k.code \in {1, 2, 70, 64, 65, 71, 69}
      BY <1>14, <2>1, <3>4
    <3>. QED
      BY <3>1, <3>2, <3>3, <3>4, <3>5, Zenon
  <2>7. /\ \A k \in Range(a), m \in Range(b) : k.code # m.code
        /\ \A k \in Range(q2), m \in Range(g) : k.code # m.code
        /\ \A k \in Range(q3), m \in Range(f) : k.code # m.code
        /\ \A k \in Range(q4), m \in Range(l) : k.code # m.code
        /\ \A k \in Range(q5), m \in Range(p) : k.code # m.code
    <3>1. \A k \in Range(a), m \in Range(b) : k.code # m.code
      BY <2>1
    <3>2. \A k \in Range(q2), m \in Range(g) : k.code # m.code
      BY <2>1, <2>6
    <3>3. \A k \in Range(q3), m \in Range(f) : k.code # m.code
      BY <2>1, <2>6
    <3>4. \A k \in Range(q4), m \in Range(l) : k.code # m.code
      BY <2>1, <2>6
    <3>5. \A k \in Range(q5), m \in Range(p) : k.code # m.code
      BY <2>1, <2>6
    <3>. QED
      BY <3>1, <3>2, <3>3, <3>4, <3>5, Zenon
  <2>8. Distinct(q2)
    BY <1>2, <1>3, <1>9, <2>3, <2>5, <2>7, DistinctCat, ZenonT(60)
  <2>9. Distinct(q3)
    BY <1>5, <1>10, <1>14, <2>5, <2>7, <2>8, DistinctCat, ZenonT(60)
  <2>10. Distinct(q4)
    BY <1>6, <1>11, <1>14, <2>5, <2>7, <2>9, DistinctCat, ZenonT(60)
  <2>11. Distinct(q5)
    <3>1. q4 \in Seq(CapSet) /\ l \in Seq(CapSet) /\ q5 = q4 \o l
      BY <1>7, <1>12, <1>14, Zenon
    <3>2. Distinct(q4) /\ Distinct(l) /\ \A k \in Range(q4), m \in Range(l) : k.code # m.code
      BY <2>5, <2>7, <2>10, Zenon
    <3>. QED
      BY <3>1, <3>2, DistinctCat, Zenon
  <2>12. Distinct(q)
    BY <1>8, <1>13, <1>14, <2>5, <2>7, <2>11, DistinctCat, ZenonT(60)
  <2>13. \A k \in Range(q) : k.code # 99
    BY <2>6
  <2>. QED
    BY <2>12, <2>13
<1>17. Packed(c) = <<[caps |-> q]>> /\ Packed(c)[1].caps = q
  BY <1>1, <1>9, <1>10, <1>11, <1>12, <1>13, SMTT(60)
<1>. QED
  BY <1>14, <1>15, <1>16, <1>17

\* What is carried by one parameter, and by a parameter for each capability.
LEMMA CarriedBy ==
  ASSUME NEW q \in Seq(CapSet), Len(q) > 0, NEW params, params = <<[caps |-> q]>>
  PROVE  /\ params \in Params /\ Len(params) = 1 /\ Carried(params) = Range(q)
         /\ Repacked(params) \in Params /\ Len(Repacked(params)) > 1
         /\ Carried(Repacked(params)) = Range(q) \cup Foreign
         /\ Positions(params) = {<<1, j>> : j \in DOMAIN q} /\ \A j \in DOMAIN q : At(params, <<1, j>>) = q[j]
         /\ \A z \in Positions(Repacked(params)) :
               \/ \E i \in 1..Len(q) : z = <<i, 1>> /\ At(Repacked(params), z) = q[i]
               \/ z = <<Len(q) + 1, 1>> /\ At(Repacked(params), z).code = 1
               \/ z = <<Len(q) + 1, 2>> /\ At(Repacked(params), z).code = 99
<1>1. params \in Params /\ Len(params) = 1 /\ DOMAIN params = {1} /\ params[1].caps = q
  <2>1. [caps |-> q] \in [caps : Seq(CapSet)]
    OBVIOUS
  <2>. QED
    BY <2>1 DEF Params
<1>2. Carried(params) = Range(q)
  <2>1. Positions(params) = {<<1, j>> : j \in DOMAIN q}
    BY <1>1 DEF Positions
  <2>2. \A j \in DOMAIN q : At(params, <<1, j>>) = q[j]
    BY <1>1 DEF At
  <2>3. ASSUME NEW k \in Carried(params) PROVE k \in Range(q)
    <3>1. PICK x \in Positions(params) : k = At(params, x)
      BY DEF Carried
    <3>. QED
      BY <2>1, <2>2, <3>1 DEF Range
  <2>4. ASSUME NEW k \in Range(q) PROVE k \in Carried(params)
    <3>1. PICK j \in DOMAIN q : k = q[j]
      BY DEF Range
    <3>2. <<1, j>> \in Positions(params) /\ At(params, <<1, j>>) = k
      BY <2>1, <2>2, <3>1
    <3>. QED
      BY <3>2 DEF Carried
  <2>. QED
    BY <2>3, <2>4, Zenon
<1>. DEFINE n == Len(q)
            r == Repacked(params)
<1>3. PICK x, y : x = new_multiprotocol(<<25, 70>>) /\ y = Capability(99, 0, <<>>)
  OBVIOUS
<1>4. r = [i \in 1..n |-> [caps |-> <<q[i]>>]] \o <<[caps |-> <<x, y>>]>>
  BY <1>1, <1>3, SMTT(60) DEF Repacked
<1>5. x \in CapSet /\ y \in CapSet
  BY <1>3, SMTT(60) DEF new_multiprotocol, Capability, CapSet, Multiprotocol, Entry, EntrySet
<1>6. \A i \in 1..n : <<q[i]>> \in Seq(CapSet)
  OBVIOUS
<1>7. <<x, y>> \in Seq(CapSet) /\ Range(<<x, y>>) = {x, y} /\ n \in Nat /\ n > 0
  BY <1>5 DEF Range
<1>. HIDE DEF r, n
<1>8. PICK u : u = [caps |-> <<x, y>>]
  BY Zenon
<1>9. \A i \in 1..n : [caps |-> <<q[i]>>] \in [caps : Seq(CapSet)]
  BY <1>6
<1>10. u \in [caps : Seq(CapSet)] /\ u.caps = <<x, y>>
  BY <1>7, <1>8
<1>11. /\ r \in Params /\ Len(r) = n + 1 /\ r[n + 1] = u
       /\ \A i \in 1..n : r[i] = [caps |-> <<q[i]>>]
  <2>1. PICK v : v = [i \in 1..n |-> [caps |-> <<q[i]>>]]
    BY Zenon
  <2>2. v \in Seq([caps : Seq(CapSet)]) /\ Len(v) = n /\ \A i \in 1..n : v[i] = [caps |-> <<q[i]>>]
    BY <1>7, <1>9, <2>1
  <2>3. PICK S : S = [caps : Seq(CapSet)]
    BY Zenon
  <2>4. r = v \o <<u>> /\ v \in Seq(S) /\ u \in S
    BY <1>4, <1>8, <1>10, <2>1, <2>2, <2>3
  <2>5. r \in Seq(S) /\ Len(r) = Len(v) + 1 /\ r[Len(v) + 1] = u /\ \A i \in 1..Len(v) : r[i] = v[i]
    BY <2>4, Appended
  <2>. QED
    BY <2>2, <2>3, <2>5, Zenon DEF Params
<1>12. DOMAIN r = 1..(n + 1) /\ DOMAIN u.caps = {1, 2}
  BY <1>7, <1>10, <1>11 DEF Params
<1>13. ASSUME NEW i \in 1..n
       PROVE  /\ {<<i, j>> : j \in DOMAIN r[i].caps} = {<<i, 1>>} /\ At(r, <<i, 1>>) = q[i] /\ i \in DOMAIN r
  <2>1. r[i].caps = <<q[i]>>
    <3>1. r[i] = [caps |-> <<q[i]>>]
      BY <1>11, Zenon
    <3>. QED
      BY <3>1
  <2>2. DOMAIN r[i].caps = {1}
    BY <2>1
  <2>. QED
    BY <1>7, <1>12, <2>1, <2>2 DEF At
<1>14. /\ {<<n + 1, j>> : j \in DOMAIN r[n + 1].caps} = {<<n + 1, 1>>, <<n + 1, 2>>}
       /\ At(r, <<n + 1, 1>>) = x /\ At(r, <<n + 1, 2>>) = y /\ n + 1 \in DOMAIN r
  BY <1>7, <1>10, <1>11, <1>12 DEF At
<1>15. ASSUME NEW k \in Carried(r) PROVE k \in Range(q) \cup {x, y}
  <2>1. PICK z \in Positions(r) : k = At(r, z)
    BY DEF Carried
  <2>2. PICK i \in DOMAIN r : z \in {<<i, j>> : j \in DOMAIN r[i].caps}
    BY DEF Positions
  <2>3. CASE i \in 1..n
    <3>1. k = q[i]
      BY <1>13, <2>1, <2>2, <2>3, Zenon
    <3>. QED
      BY <2>3, <3>1 DEF Range, n
  <2>4. CASE i = n + 1
    BY <1>14, <2>1, <2>2, <2>4, Zenon
  <2>. QED
    BY <1>7, <1>12, <2>3, <2>4
<1>16. ASSUME NEW k \in Range(q) PROVE k \in Carried(r)
  <2>1. PICK i \in 1..n : k = q[i]
    BY DEF Range, n
  <2>2. <<i, 1>> \in Positions(r) /\ At(r, <<i, 1>>) = k
    BY <1>13, <2>1 DEF Positions
  <2>. QED
    BY <2>2 DEF Carried
<1>17. x \in Carried(r) /\ y \in Carried(r)
  <2>1. <<n + 1, 1>> \in Positions(r) /\ <<n + 1, 2>> \in Positions(r)
    BY <1>14 DEF Positions
  <2>. QED
    BY <1>14, <2>1 DEF Carried
<1>18. Foreign = {x, y}
  BY <1>3 DEF Foreign
<1>19. Positions(params) = {<<1, j>> : j \in DOMAIN q} /\ \A j \in DOMAIN q : At(params, <<1, j>>) = q[j]
  BY <1>1 DEF Positions, At
<1>20. ASSUME NEW z \in Positions(r)
       PROVE  \/ \E i \in 1..n : z = <<i, 1>> /\ At(r, z) = q[i]
              \/ z = <<n + 1, 1>> /\ At(r, z).code = 1
              \/ z = <<n + 1, 2>> /\ At(r, z).code = 99
  <2>1. PICK i \in DOMAIN r : z \in {<<i, j>> : j \in DOMAIN r[i].caps}
    BY DEF Positions
  <2>2. CASE i \in 1..n
    <3>1. z = <<i, 1>> /\ At(r, <<i, 1>>) = q[i]
      BY <1>13, <2>1, <2>2
    <3>. QED
      BY <2>2, <3>1, Zenon
  <2>3. CASE i = n + 1
    <3>1. x.code = 1 /\ y.code = 99
      BY <1>3 DEF new_multiprotocol, Capability, Multiprotocol
    <3>2. z = <<n + 1, 1>> \/ z = <<n + 1, 2>>
      BY <1>14, <2>1, <2>3
    <3>. QED
      BY <1>14, <3>1, <3>2, Zenon
  <2>. QED
    BY <1>7, <1>12, <2>2, <2>3
<1>21. Len(r) > 1
  BY <1>7, <1>11
<1>22. Carried(r) = Range(q) \cup Foreign
  BY <1>15, <1>16, <1>17, <1>18
<1>. QED
  BY <1>1, <1>2, <1>11, <1>19, <1>20, <1>21, <1>22, Zenon DEF r, n

\* With different codes, no two places have the same, but for the multiprotocol
\* capabilities.
LEMMA ApartBy ==
  ASSUME NEW q \in Seq(CapSet), Len(q) > 0, NEW params, params = <<[caps |-> q]>>,
         Distinct(q), \A k \in Range(q) : k.code # 99
  PROVE  Apart(params) /\ Apart(Repacked(params))
<1>. DEFINE n == Len(q)
            r == Repacked(params)
<1>1. /\ Positions(params) = {<<1, j>> : j \in DOMAIN q} /\ \A j \in DOMAIN q : At(params, <<1, j>>) = q[j]
      /\ \A z \in Positions(r) :
            \/ \E i \in 1..n : z = <<i, 1>> /\ At(r, z) = q[i]
            \/ z = <<n + 1, 1>> /\ At(r, z).code = 1
            \/ z = <<n + 1, 2>> /\ At(r, z).code = 99
  BY CarriedBy, SMTT(60)
<1>2. \A i \in 1..n : q[i].code # 99
  BY DEF Range
<1>3. \A i, j \in 1..n : q[i].code = q[j].code => i = j \/ q[i].code = 1
  BY DEF Distinct
<1>. HIDE DEF r, n
<1>4. Apart(params)
  BY <1>1 DEF Apart, Distinct
<1>5. ASSUME NEW z \in Positions(r), NEW w \in Positions(r), At(r, z).code = At(r, w).code, At(r, z).code # 1
      PROVE  z = w
  <2>1. CASE \E i \in 1..n : z = <<i, 1>> /\ At(r, z) = q[i]
    <3>1. PICK i \in 1..n : z = <<i, 1>> /\ At(r, z) = q[i]
      BY <2>1
    <3>2. PICK j \in 1..n : w = <<j, 1>> /\ At(r, w) = q[j]
      BY <1>1, <1>2, <1>5, <3>1
    <3>3. i = j
      BY <1>3, <1>5, <3>1, <3>2, ZenonT(60)
    <3>. QED
      BY <3>1, <3>2, <3>3
  <2>2. CASE z = <<n + 1, 2>> /\ At(r, z).code = 99
    <3>1. At(r, w).code = 99
      BY <1>5, <2>2
    <3>2. ~\E i \in 1..n : At(r, w) = q[i]
      BY <1>2, <3>1
    <3>3. w = <<n + 1, 2>>
      BY <1>1, <3>1, <3>2
    <3>. QED
      BY <2>2, <3>3
  <2>. QED
    BY <1>1, <1>5, <2>1, <2>2
<1>6. Apart(r)
  BY <1>5, Zenon DEF Apart
<1>. QED
  BY <1>4, <1>6 DEF r

\* What is extracted from the capabilities of c.
Announced(c) ==
    [mp |-> Range(Fams(c)), rr |-> TRUE, err |-> TRUE, four |-> Some(c.asn),
     gr |-> IF c.gr THEN Some(as_graceful_restart(RestartCap(c))) ELSE None,
     addpath |-> IF Mode(c) # 0 THEN Some(as_add_path(PathCap(c))) ELSE None,
     llgr |-> IF c.llgr # <<>> /\ c.gr THEN Some(as_llgr(LlgrCap(c))) ELSE None]

\* The capability with each code.
LEMMA ByCode ==
  ASSUME NEW c \in Configs, NEW k \in CapsOf(c) \cup Foreign
  PROVE  /\ k.code = 1 => \E f \in Range(Fams(c)) \cup {<<25, 70>>} : k = new_multiprotocol(f)
         /\ k.code = 65 => k = new_four_octet_asn(c.asn)
         /\ k.code = 64 => c.gr /\ k = RestartCap(c)
         /\ k.code = 71 => c.llgr # <<>> /\ k = LlgrCap(c)
         /\ k.code = 69 => Mode(c) # 0 /\ k = PathCap(c)
<1>1. CASE \E f \in Range(Fams(c)) \cup {<<25, 70>>} : k = new_multiprotocol(f)
  BY <1>1, Codes
<1>2. CASE k \in {Capability(RouteRefresh, 0, <<>>), Capability(EnhancedRouteRefresh, 0, <<>>), Capability(99, 0, <<>>)}
  BY <1>2, Codes
<1>3. CASE k = new_four_octet_asn(c.asn)
  BY <1>3, Codes
<1>4. CASE c.gr /\ k = RestartCap(c)
  BY <1>4, Codes
<1>5. CASE c.llgr # <<>> /\ k = LlgrCap(c)
  BY <1>5, Codes
<1>6. CASE Mode(c) # 0 /\ k = PathCap(c)
  BY <1>6, Codes
<1>7. \/ \E f \in Range(Fams(c)) : k = new_multiprotocol(f)
      \/ k \in {Capability(RouteRefresh, 0, <<>>), Capability(EnhancedRouteRefresh, 0, <<>>), new_four_octet_asn(c.asn)}
      \/ c.gr /\ k = RestartCap(c)
      \/ c.llgr # <<>> /\ k = LlgrCap(c)
      \/ Mode(c) # 0 /\ k = PathCap(c)
      \/ k \in {new_multiprotocol(<<25, 70>>), Capability(99, 0, <<>>)}
  <2>1. CASE k \in CapsOf(c)
    BY <2>1 DEF CapsOf
  <2>2. CASE k \in Foreign
    BY <2>2 DEF Foreign
  <2>. QED
    BY <2>1, <2>2, Zenon
<1>. QED
  BY <1>1, <1>2, <1>3, <1>4, <1>5, <1>6, <1>7, ZenonT(60)

\* The family a multiprotocol capability is read as.
LEMMA MpFamily ==
  /\ \A f \in Families : afi_safi_from_capability_bytes(new_multiprotocol(f)) = {f}
  /\ afi_safi_from_capability_bytes(new_multiprotocol(<<25, 70>>)) = {}
<1>1. ASSUME NEW f PROVE Range(new_multiprotocol(f).entries) = {Entry(f, 0, 0)}
  <2>1. new_multiprotocol(f).entries = <<Entry(f, 0, 0)>>
    BY DEF new_multiprotocol, Capability
  <2>2. PICK e : e = Entry(f, 0, 0)
    OBVIOUS
  <2>3. Range(<<e>>) = {e}
    BY DEF Range
  <2>. QED
    BY <2>1, <2>2, <2>3
<1>2. \A f : Entry(f, 0, 0).fam = f
  BY DEF Entry
<1>3. \A f \in Families : Known(f)
  BY DEF Families, Known, AfiTryFrom, SafiTryFrom
<1>4. ~Known(<<25, 70>>)
  BY DEF Known, AfiTryFrom
<1>5. ASSUME NEW f \in Families PROVE afi_safi_from_capability_bytes(new_multiprotocol(f)) = {f}
  BY <1>1, <1>2, <1>3 DEF afi_safi_from_capability_bytes, KnownEntries, FamiliesOf
<1>6. afi_safi_from_capability_bytes(new_multiprotocol(<<25, 70>>)) = {}
  <2>1. KnownEntries(new_multiprotocol(<<25, 70>>)) = {}
    BY <1>1, <1>2, <1>4 DEF KnownEntries
  <2>. QED
    BY <2>1 DEF afi_safi_from_capability_bytes, FamiliesOf
<1>. QED
  BY <1>5, <1>6

\* What is read from the announced capabilities, however they are packed
\* (extract_capabilities, find_four_octet_asn).
LEMMA Extracted ==
  ASSUME NEW c \in Configs, NEW params \in Params, Apart(params),
         CapsOf(c) \subseteq Carried(params), Carried(params) \subseteq CapsOf(c) \cup Foreign
  PROVE  extract_capabilities(params) = Announced(c) /\ find_four_octet_asn(params) = Some(c.asn)
<1>1. \A k \in Carried(params) :
         /\ k.code = 1 => \E f \in Range(Fams(c)) \cup {<<25, 70>>} : k = new_multiprotocol(f)
         /\ k.code = 65 => k = new_four_octet_asn(c.asn)
         /\ k.code = 64 => c.gr /\ k = RestartCap(c)
         /\ k.code = 71 => c.llgr # <<>> /\ k = LlgrCap(c)
         /\ k.code = 69 => Mode(c) # 0 /\ k = PathCap(c)
  BY ByCode, ZenonT(60)
<1>2. /\ \A f \in Range(Fams(c)) : new_multiprotocol(f) \in Carried(params)
      /\ Capability(RouteRefresh, 0, <<>>) \in Carried(params) /\ Capability(EnhancedRouteRefresh, 0, <<>>) \in Carried(params)
      /\ new_four_octet_asn(c.asn) \in Carried(params)
      /\ c.gr => RestartCap(c) \in Carried(params)
      /\ c.llgr # <<>> => LlgrCap(c) \in Carried(params)
      /\ Mode(c) # 0 => PathCap(c) \in Carried(params)
  BY Zenon DEF CapsOf
<1>3. Has(params, 2) /\ Has(params, 70)
  BY <1>2, Codes, IsThere
<1>4. Has(params, 65) /\ First(params, 65) = new_four_octet_asn(c.asn) /\ Last(params, 65) = new_four_octet_asn(c.asn)
  <2>1. new_four_octet_asn(c.asn) \in Carried(params) /\ new_four_octet_asn(c.asn).code = 65
    BY <1>2, Codes
  <2>. QED
    BY <2>1, OneOf
<1>5. (Has(params, 64) <=> c.gr) /\ (c.gr => Last(params, 64) = RestartCap(c))
  <2>1. CASE c.gr
    <3>1. RestartCap(c) \in Carried(params) /\ RestartCap(c).code = 64
      BY <1>2, <2>1, Codes
    <3>2. Has(params, 64) /\ Last(params, 64) = RestartCap(c)
      BY <3>1, OneOf
    <3>. QED
      BY <2>1, <3>2, Zenon
  <2>2. CASE ~c.gr
    <3>1. \A l \in Carried(params) : l.code # 64
      BY <1>1, <2>2, Zenon
    <3>. QED
      BY <2>2, <3>1, IsThere
  <2>. QED
    BY <2>1, <2>2
<1>6. (Has(params, 71) <=> c.llgr # <<>>) /\ (c.llgr # <<>> => Last(params, 71) = LlgrCap(c))
  <2>1. CASE c.llgr # <<>>
    <3>1. LlgrCap(c) \in Carried(params) /\ LlgrCap(c).code = 71
      BY <1>2, <2>1, Codes
    <3>2. Has(params, 71) /\ Last(params, 71) = LlgrCap(c)
      BY <3>1, OneOf
    <3>. QED
      BY <2>1, <3>2, Zenon
  <2>2. CASE c.llgr = <<>>
    <3>1. \A l \in Carried(params) : l.code # 71
      BY <1>1, <2>2
    <3>. QED
      BY <2>2, <3>1, IsThere
  <2>. QED
    BY <2>1, <2>2, Zenon
<1>7. (Has(params, 69) <=> Mode(c) # 0) /\ (Mode(c) # 0 => Last(params, 69) = PathCap(c))
  <2>1. CASE Mode(c) # 0
    <3>1. PathCap(c) \in Carried(params) /\ PathCap(c).code = 69
      BY <1>2, <2>1, Codes
    <3>2. Has(params, 69) /\ Last(params, 69) = PathCap(c)
      BY <3>1, OneOf
    <3>. QED
      BY <2>1, <3>2, Zenon
  <2>2. CASE Mode(c) = 0
    <3>1. \A l \in Carried(params) : l.code # 69
      BY <1>1, <2>2, ZenonT(60)
    <3>. QED
      BY <2>2, <3>1, IsThere
  <2>. QED
    BY <2>1, <2>2
<1>8. UNION {afi_safi_from_capability_bytes(At(params, x)) : x \in With(params, 1)} = Range(Fams(c))
  <2>1. {At(params, x) : x \in With(params, 1)} = {k \in Carried(params) : k.code = 1}
    BY PlaceNumbers DEF Carried
  <2>2. Range(Fams(c)) \subseteq Families
    BY FamsType
  <2>3. ASSUME NEW x \in With(params, 1), NEW f \in afi_safi_from_capability_bytes(At(params, x))
        PROVE  f \in Range(Fams(c))
    <3>1. PICK g \in Range(Fams(c)) \cup {<<25, 70>>} : At(params, x) = new_multiprotocol(g)
      BY <1>1, <2>1
    <3>. QED
      BY <2>2, <3>1, MpFamily
  <2>4. ASSUME NEW f \in Range(Fams(c))
        PROVE  \E x \in With(params, 1) : f \in afi_safi_from_capability_bytes(At(params, x))
    <3>1. new_multiprotocol(f) \in {At(params, x) : x \in With(params, 1)}
      BY <1>2, <2>1, Codes, Zenon
    <3>. QED
      BY <2>2, <3>1, MpFamily
  <2>. QED
    BY <2>3, <2>4
<1>9. find_four_octet_asn(params) = Some(c.asn)
  BY <1>4, Codes DEF find_four_octet_asn, FourOctetAsn
<1>10. Last(params, 65).head = c.asn
  BY <1>4, Codes
<1>11. extract_capabilities(params) = Announced(c)
  BY <1>3, <1>4, <1>5, <1>6, <1>7, <1>8, <1>10, Zenon DEF extract_capabilities, Announced, Multiprotocol, RouteRefresh,
     EnhancedRouteRefresh, FourOctetAsn, GracefulRestart, Llgr, AddPath
<1>. QED
  BY <1>9, <1>11

\* ... and from none.
LEMMA ExtractedNone ==
  extract_capabilities(<<>>) = NoCapabilities /\ find_four_octet_asn(<<>>) = None
<1>1. \A code : With(<<>>, code) = {}
  BY DEF With
<1>. QED
  BY <1>1, Zenon DEF extract_capabilities, NoCapabilities, find_four_octet_asn, Has, None

-----------------------------------------------------------------------------
(* What two speakers make of each other's OPEN *)

\* An option is there or not.
LEMMA Options ==
  ASSUME NEW x
  PROVE  Some(x) # None /\ Some(x)[1] = x /\ \A y : Some(x) = Some(y) => x = y
<1>1. Len(<<x>>) = 1 /\ Len(<<>>) = 0 /\ <<x>>[1] = x
  OBVIOUS
<1>2. \A y : <<x>> = <<y>> => x = y
  OBVIOUS
<1>. QED
  BY <1>1, <1>2 DEF Some, None

\* What is read from an OPEN of c does not depend on how it is packed.
LEMMA ReadsAs ==
  ASSUME NEW c \in Configs, NEW params \in Packings(c)
  PROVE  /\ extract_capabilities(params) = Announced(c) /\ find_four_octet_asn(params) = Some(c.asn)
         /\ params # <<>> /\ (Len(params) = 1 => params = Packed(c)) /\ Len(Packed(c)) = 1
<1>1. PICK q : q = Packed(c)[1].caps
  OBVIOUS
<1>2. Packed(c) = <<[caps |-> q]>> /\ q \in Seq(CapSet) /\ Range(q) = CapsOf(c) /\ Len(q) > 0
      /\ Distinct(q) /\ \A k \in Range(q) : k.code # 99
  BY <1>1, PackedCaps
<1>3. PICK r : r = Packed(c)
  OBVIOUS
<1>4. /\ r \in Params /\ Len(r) = 1 /\ Carried(r) = Range(q)
      /\ Repacked(r) \in Params /\ Len(Repacked(r)) > 1 /\ Carried(Repacked(r)) = Range(q) \cup Foreign
      /\ Apart(r) /\ Apart(Repacked(r))
  <2>1. r = <<[caps |-> q]>>
    BY <1>2, <1>3, Zenon
  <2>2. /\ r \in Params /\ Len(r) = 1 /\ Carried(r) = Range(q)
        /\ Repacked(r) \in Params /\ Len(Repacked(r)) > 1 /\ Carried(Repacked(r)) = Range(q) \cup Foreign
    BY <1>2, <2>1, CarriedBy, SMTT(60)
  <2>3. Apart(r) /\ Apart(Repacked(r))
    BY <1>2, <2>1, ApartBy, SMTT(60)
  <2>. QED
    BY <2>2, <2>3, Zenon
<1>5. extract_capabilities(r) = Announced(c) /\ find_four_octet_asn(r) = Some(c.asn)
  BY <1>2, <1>4, Extracted
<1>6. extract_capabilities(Repacked(r)) = Announced(c) /\ find_four_octet_asn(Repacked(r)) = Some(c.asn)
  BY <1>2, <1>4, Extracted
<1>7. params = r \/ params = Repacked(r)
  BY <1>3 DEF Packings
<1>8. params # <<>> /\ (Len(params) = 1 => params = r)
  <2>1. Len(Repacked(r)) \in Nat
    BY <1>4 DEF Params
  <2>2. PICK w : w = Repacked(r)
    OBVIOUS
  <2>3. r # <<>> /\ w # <<>> /\ Len(w) # 1
    <3>0. Len(w) \in Nat /\ Len(w) > 1 /\ Len(r) = 1
      BY <1>4, <2>1, <2>2, Zenon
    <3>1. Len(w) # 0 /\ Len(w) # 1 /\ Len(r) # 0
      <4>1. \A x \in Nat : x > 1 => x # 0 /\ x # 1
        OBVIOUS
      <4>2. 1 # 0
        OBVIOUS
      <4>. QED
        BY <3>0, <4>1, <4>2, Zenon
    <3>2. Len(<<>>) = 0
      OBVIOUS
    <3>. QED
      BY <3>1, <3>2, Zenon
  <2>. QED
    BY <1>4, <1>7, <2>2, <2>3, Zenon
<1>. QED
  BY <1>3, <1>4, <1>5, <1>6, <1>7, <1>8, Zenon

\* The entries of the capabilities of c, as they are read.
LEMMA EntriesRead ==
  ASSUME NEW c \in Configs
  PROVE  /\ KnownEntries(RestartCap(c)) = {Entry(f, 0, 0) : f \in Range(Fams(c))}
         /\ KnownEntries(LlgrCap(c)) = {Entry(f, 0, c.stale_time % Bits24) : f \in Range(c.llgr)}
         /\ KnownEntries(PathCap(c)) = {Entry(f, Mode(c), 0) : f \in Range(Fams(c))}
         /\ RestartCap(c).head = c.restart_time % Bits12
<1>1. \A f \in Families : Known(f)
  BY DEF Families, Known, AfiTryFrom, SafiTryFrom
<1>2. \A f, flag, time : Entry(f, flag, time).fam = f
  BY DEF Entry
<1>3. ASSUME NEW k, NEW fams \in Seq(Families), NEW flag \in Nat, NEW time \in Nat, k.entries = Per(fams, flag, time)
      PROVE  KnownEntries(k) = {Entry(f, flag, time) : f \in Range(fams)}
  <2>1. Range(k.entries) = {Entry(f, flag, time) : f \in Range(fams)}
    BY <1>3, PerType, Zenon
  <2>2. Range(fams) \subseteq Families
    BY DEF Range
  <2>. QED
    BY <1>1, <1>2, <2>1, <2>2 DEF KnownEntries
<1>4. Fams(c) \in Seq(Families) /\ c.llgr \in Seq(Families) /\ Mode(c) \in 0..3 /\ c.stale_time \in Nat
  BY FamsType, Zenon
<1>5. 0 \in Nat /\ Mode(c) \in Nat /\ c.stale_time % Bits24 \in Nat
  <2>1. Mode(c) \in Nat /\ 0 \in Nat
    BY <1>4
  <2>. QED
    BY <1>4, <2>1, Remainders, Zenon
<1>6. /\ RestartCap(c).entries = Per(Fams(c), 0, 0) /\ RestartCap(c).head = c.restart_time % Bits12
      /\ LlgrCap(c).entries = Per(c.llgr, 0, c.stale_time % Bits24)
      /\ PathCap(c).entries = Per(Fams(c), Mode(c), 0)
  BY DEF RestartCap, LlgrCap, PathCap, new_graceful_restart, new_llgr, new_add_path, Capability
<1>7. KnownEntries(RestartCap(c)) = {Entry(f, 0, 0) : f \in Range(Fams(c))}
  <2>1. PICK z \in Nat : z = 0
    OBVIOUS
  <2>2. RestartCap(c).entries = Per(Fams(c), z, z) /\ Fams(c) \in Seq(Families)
    BY <1>4, <1>6, <2>1
  <2>3. PICK k, fams : k = RestartCap(c) /\ fams = Fams(c)
    OBVIOUS
  <2>4. k.entries = Per(fams, z, z) /\ fams \in Seq(Families)
    BY <2>2, <2>3
  <2>5. KnownEntries(k) = {Entry(f, z, z) : f \in Range(fams)}
    BY <1>3, <2>4, SMTT(60)
  <2>. QED
    BY <2>1, <2>3, <2>5
<1>8. KnownEntries(LlgrCap(c)) = {Entry(f, 0, c.stale_time % Bits24) : f \in Range(c.llgr)}
  BY <1>3, <1>4, <1>5, <1>6
<1>9. KnownEntries(PathCap(c)) = {Entry(f, Mode(c), 0) : f \in Range(Fams(c))}
  BY <1>3, <1>4, <1>5, <1>6
<1>. QED
  BY <1>6, <1>7, <1>8, <1>9

\* The AS number read from an OPEN is the sender's (OpenMessage::from_bytes).
LEMMA AsnRead ==
  ASSUME NEW d \in Configs, NEW params \in Packings(d) \cup {<<>>}, open_from_bytes(OpenBody(d, params)).error = None
  PROVE  /\ open_from_bytes(OpenBody(d, params)).asn = d.asn
         /\ d.hold \notin {1, 2} /\ d.id # 0 /\ (params = <<>> => ~Large(d))
<1>. DEFINE o == OpenBody(d, params)
<1>1. /\ o.version = 4 /\ o.hold = d.hold /\ o.id = d.id /\ o.fits = TRUE /\ o.tlvs = TRUE /\ o.params = params
      /\ o.asn = IF Large(d) THEN AS_TRANS ELSE d.asn
  BY DEF OpenBody, Large
<1>. HIDE DEF o
<1>2. \A x : Some(x) # None /\ Some(x)[1] = x
  BY Options, Zenon
<1>3. validate_hold_time(o) /\ validate_bgp_identifier(o)
  BY <1>1, <1>2, SMTT(60) DEF open_from_bytes, o
<1>4. d.hold \notin {1, 2} /\ d.id # 0
  BY <1>1, <1>3, Zenon DEF validate_hold_time, validate_bgp_identifier
<1>5. o.asn = AS_TRANS => find_four_octet_asn(params) # None /\ open_from_bytes(o).asn = find_four_octet_asn(params)[1]
  BY <1>1, <1>2, <1>3, Zenon DEF open_from_bytes, o, validate_version
<1>6. o.asn # AS_TRANS => open_from_bytes(o).asn = o.asn
  BY <1>1, <1>2, <1>3, Zenon DEF open_from_bytes, validate_version
<1>7. CASE params = <<>>
  <2>1. o.asn # AS_TRANS
    BY <1>5, <1>7, ExtractedNone, Zenon
  <2>. QED
    BY <1>1, <1>4, <1>6, <2>1, Zenon DEF o
<1>8. CASE params \in Packings(d)
  <2>1. find_four_octet_asn(params) = Some(d.asn) /\ params # <<>>
    BY <1>8, ReadsAs
  <2>. QED
    BY <1>1, <1>2, <1>4, <1>5, <1>6, <2>1 DEF o
<1>. QED
  BY <1>7, <1>8, Zenon

\* An OPEN is taken only from a speaker one can work with (enter_open_confirm).
LEMMA Accepting ==
  ASSUME NEW c \in Configs, NEW d \in Configs, NEW params \in Packings(d) \cup {<<>>}, Accepts(c, d, params)
  PROVE  /\ Acceptable(c, d) /\ (params = <<>> => ~Large(c) /\ ~Large(d)) /\ (params # <<>> => Common(c, d))
         /\ open_from_bytes(OpenBody(d, params)).asn = d.asn
<1>. DEFINE o == OpenBody(d, params)
            caps == extract_capabilities(params)
<1>1. open_from_bytes(o).asn = d.asn /\ d.hold \notin {1, 2} /\ d.id # 0 /\ (params = <<>> => ~Large(d))
  BY AsnRead DEF Accepts
<1>2. o.id = d.id
  BY Zenon DEF OpenBody
<1>3. Objection(c, o, d.asn, caps) = None
  BY <1>1 DEF Accepts
<1>. HIDE DEF o, caps
<1>4. \A x : Some(x) # None
  BY Options
<1>5. /\ ~(d.asn = c.asn /\ o.id = c.id) /\ c.expected \in {None, Some(d.asn)}
      /\ ~(negotiate_multiprotocol(Fams(c), caps.mp) = {} /\ caps.mp # {})
      /\ ~(Large(c) /\ caps.four = None)
  BY <1>3, <1>4, Zenon DEF Objection, Large, Fams
<1>6. Acceptable(c, d)
  BY <1>1, <1>2, <1>5, Zenon DEF Acceptable
<1>7. CASE params = <<>>
  <2>1. caps.four = None
    BY <1>7, ExtractedNone, SMTT(60) DEF caps, NoCapabilities
  <2>. QED
    BY <1>1, <1>5, <1>6, <1>7, <2>1, Zenon DEF o
<1>8. CASE params # <<>>
  <2>1. caps.mp = Range(Fams(d))
    BY <1>8, ReadsAs DEF caps, Announced
  <2>2. Range(Fams(d)) # {}
    BY FamsType, Zenon
  <2>3. Common(c, d)
    BY <1>5, <2>1, <2>2 DEF Common, negotiate_multiprotocol, Fams
  <2>. QED
    BY <1>1, <1>6, <1>8, <2>3, Zenon DEF o
<1>. QED
  BY <1>7, <1>8, Zenon

\* What c holds of d when it has taken its OPEN.
Holds(p, c, d) ==
    /\ Acceptable(c, d) /\ Common(c, d)
    /\ p.caps.mp = Range(Fams(c)) \cap Range(Fams(d)) /\ p.caps.err = TRUE /\ p.caps.four = Some(d.asn)
    /\ p.caps.addpath = negotiate_add_path(c, Announced(d))
    /\ p.caps.gr = Announced(d).gr /\ p.caps.llgr = Announced(d).llgr
    /\ p.ebgp = (d.asn # c.asn) /\ p.hold = IF c.hold < d.hold THEN c.hold ELSE d.hold
    /\ p.wins = Some(IF c.id # d.id THEN c.id > d.id ELSE c.asn > d.asn)

LEMMA OutcomeIs ==
  ASSUME NEW c \in Configs, NEW d \in Configs, NEW params \in Packings(d), NEW p,
         Accepts(c, d, params), Outcome(p, c, d, params)
  PROVE  Holds(p, c, d)
<1>. DEFINE o == OpenBody(d, params)
            a == Announced(d)
<1>1. open_from_bytes(o).asn = d.asn
  BY Accepting
<1>2. extract_capabilities(params) = a
  BY ReadsAs
<1>3. o.id = d.id /\ o.hold = d.hold /\ o.params = params
  BY DEF OpenBody
<1>4. /\ p.caps = [a EXCEPT !.mp = negotiate_multiprotocol(Fams(c), a.mp), !.addpath = negotiate_add_path(c, a)]
      /\ p.ebgp = (d.asn # c.asn) /\ p.hold = (IF c.hold < o.hold THEN c.hold ELSE o.hold)
      /\ p.wins = Some(local_wins_collision(c, o, d.asn))
  BY <1>1, <1>2, Zenon DEF Outcome, Kept, Fams
<1>. HIDE DEF o, a
<1>5. a.mp = Range(Fams(d)) /\ a.err = TRUE /\ a.four = Some(d.asn) /\ DOMAIN a = {"mp", "rr", "err", "four", "gr", "addpath", "llgr"}
  BY Zenon DEF a, Announced
<1>6. /\ p.caps.mp = negotiate_multiprotocol(Fams(c), a.mp) /\ p.caps.addpath = negotiate_add_path(c, a)
      /\ p.caps.err = a.err /\ p.caps.four = a.four /\ p.caps.gr = a.gr /\ p.caps.llgr = a.llgr
  BY <1>4, <1>5, ZenonT(60)
<1>7. local_wins_collision(c, o, d.asn) = IF c.id # d.id THEN c.id > d.id ELSE c.asn > d.asn
  <2>1. a.four # None /\ a.four[1] = d.asn
    BY <1>5, Options
  <2>. QED
    BY <1>2, <1>3, <2>1, Zenon DEF local_wins_collision
<1>8. p.caps.mp = Range(Fams(c)) \cap Range(Fams(d))
  BY <1>5, <1>6, Zenon DEF negotiate_multiprotocol
<1>9. p.wins = Some(IF c.id # d.id THEN c.id > d.id ELSE c.asn > d.asn)
  BY <1>4, <1>7, Zenon
<1>10. Acceptable(c, d) /\ Common(c, d)
  <2>1. params # <<>>
    BY ReadsAs, Zenon
  <2>. QED
    BY <2>1, Accepting, Zenon
<1>. QED
  BY <1>3, <1>4, <1>5, <1>6, <1>8, <1>9, <1>10, Zenon DEF a, Holds

\* The direction c may send in, and receive in, of what is left of ADD-PATH
\* (from_flags, can_send, can_receive, negotiate_add_path).
LEMMA PathsLeft ==
  ASSUME NEW c \in Configs, NEW d \in Configs, NEW p, p.caps.addpath = negotiate_add_path(c, Announced(d))
  PROVE  /\ send_format(p).addpath = IF c.send /\ d.receive THEN Range(Fams(d)) \cap Mask ELSE {}
         /\ receive_format(p).addpath = IF c.receive /\ d.send THEN Range(Fams(d)) \cap Mask ELSE {}
<1>. DEFINE E == as_add_path(PathCap(d))
            F == Range(Fams(d))
            left == from_flags(c.send /\ d.receive, c.receive /\ d.send)
<1>1. c.send \in BOOLEAN /\ c.receive \in BOOLEAN /\ d.send \in BOOLEAN /\ d.receive \in BOOLEAN
  BY FamsType, Zenon
<1>2. ASSUME NEW x \in BOOLEAN, NEW y \in BOOLEAN
      PROVE  /\ can_send(from_flags(x, y)) = x /\ can_receive(from_flags(x, y)) = y /\ from_flags(x, y) \in 0..3
             /\ from_flags(x, y) = 0 <=> ~x /\ ~y
  BY DEF can_send, can_receive, from_flags
<1>3. can_send(Mode(d)) = d.send /\ can_receive(Mode(d)) = d.receive /\ Mode(d) \in 0..3
  BY <1>1, <1>2, Zenon DEF Mode
<1>4. can_send(left) = (c.send /\ d.receive) /\ can_receive(left) = (c.receive /\ d.send)
      /\ (left = 0 <=> ~(c.send /\ d.receive) /\ ~(c.receive /\ d.send))
  BY <1>1, <1>2, Zenon
<1>5. Mode(d) # 0 => E = {Entry(f, Mode(d), 0) : f \in F}
  <2>1. KnownEntries(PathCap(d)) = {Entry(f, Mode(d), 0) : f \in F}
    BY EntriesRead
  <2>2. \A f : Entry(f, Mode(d), 0).flag = Mode(d)
    BY DEF Entry
  <2>. QED
    BY <1>3, <2>1, <2>2 DEF as_add_path
<1>. HIDE DEF E, F, left
<1>. DEFINE D == ModeEntries(p.caps)
<1>6. D = IF left = 0 THEN {} ELSE {Entry(f, left, 0) : f \in F}
  <2>1. CASE Mode(d) = 0
    <3>1. Announced(d).addpath = None
      BY <2>1, ZenonT(60) DEF Announced
    <3>2. p.caps.addpath = None
      BY <3>1 DEF negotiate_add_path
    <3>3. ~d.send /\ ~d.receive
      BY <1>1, <1>2, <2>1 DEF Mode
    <3>. QED
      BY <1>4, <3>2, <3>3, SMTT(60) DEF ModeEntries
  <2>2. CASE Mode(d) # 0
    <3>1. Announced(d).addpath = Some(E)
      BY <2>2, Zenon DEF Announced, E
    <3>2. Announced(d).addpath # None /\ Announced(d).addpath[1] = E
      BY <3>1, Options
    <3>3. Directions(E, c.send, c.receive) = IF left = 0 THEN {} ELSE {Entry(f, left, 0) : f \in F}
      <4>1. ASSUME NEW e \in E
            PROVE  from_flags(c.send /\ can_receive(e.flag), c.receive /\ can_send(e.flag)) = left
        <5>1. e.flag = Mode(d)
          BY <1>5, <2>2 DEF Entry
        <5>. QED
          BY <1>3, <5>1, Zenon DEF left
      <4>2. Directions(E, c.send, c.receive) = {x \in {[e EXCEPT !.flag = left] : e \in E} : x.flag # 0}
        BY <4>1 DEF Directions
      <4>3. \A f : [Entry(f, Mode(d), 0) EXCEPT !.flag = left] = Entry(f, left, 0) /\ Entry(f, left, 0).flag = left
        BY DEF Entry
      <4>4. {[e EXCEPT !.flag = left] : e \in E} = {Entry(f, left, 0) : f \in F}
        BY <1>5, <2>2, <4>3
      <4>. QED
        BY <4>2, <4>3, <4>4
    <3>4. PICK G : G = Directions(E, c.send, c.receive)
      BY Zenon
    <3>5. p.caps.addpath = IF G = {} THEN None ELSE Some(G)
      BY <3>2, <3>4 DEF negotiate_add_path
    <3>6. D = G
      BY <3>5, Options DEF ModeEntries
    <3>. QED
      BY <3>3, <3>4, <3>6, Zenon
  <2>. QED
    BY <2>1, <2>2
<1>7. \A f : Entry(f, left, 0).flag = left /\ Entry(f, left, 0).fam = f
  BY DEF Entry
<1>. HIDE DEF D
<1>8. /\ FamiliesOf({e \in D : can_send(e.flag)}) = IF c.send /\ d.receive THEN F ELSE {}
      /\ FamiliesOf({e \in D : can_receive(e.flag)}) = IF c.receive /\ d.send THEN F ELSE {}
  <2>1. CASE left = 0
    BY <1>4, <1>6, <2>1 DEF FamiliesOf
  <2>2. CASE left # 0
    <3>1. D = {Entry(f, left, 0) : f \in F}
      BY <1>6, <2>2
    <3>2. \A e \in D : e.flag = left
      BY <1>7, <3>1
    <3>3. FamiliesOf(D) = F
      BY <1>7, <3>1 DEF FamiliesOf
    <3>4. {e \in D : can_send(e.flag)} = (IF c.send /\ d.receive THEN D ELSE {})
      BY <1>4, <3>2, Zenon
    <3>5. {e \in D : can_receive(e.flag)} = (IF c.receive /\ d.send THEN D ELSE {})
      BY <1>4, <3>2, Zenon
    <3>6. FamiliesOf({}) = {}
      BY Zenon DEF FamiliesOf
    <3>. QED
      BY <3>3, <3>4, <3>5, <3>6, Zenon
  <2>. QED
    BY <2>1, <2>2, Zenon
<1>. QED
  BY <1>8, Zenon DEF send_format, receive_format, D, F

\* What two speakers hold that fit each other.
Fit(p, q) ==
    /\ afi_safis(p) = afi_safis(q)
    /\ send_format(p).four = receive_format(q).four
    /\ send_format(p).err = receive_format(q).err
    /\ send_format(p).addpath \cap afi_safis(p) = receive_format(q).addpath \cap afi_safis(p)
    /\ p.hold = q.hold /\ p.ebgp = q.ebgp /\ p.wins # q.wins

\* The two speakers' formats agree.
LEMMA FormatsFit ==
  ASSUME NEW c \in Configs, NEW d \in Configs, NEW p, NEW q, Holds(p, c, d), Holds(q, d, c)
  PROVE  Fit(p, q)
<1>1. /\ p.caps.mp = Range(Fams(c)) \cap Range(Fams(d)) /\ p.caps.err = TRUE /\ p.caps.four = Some(d.asn)
      /\ p.caps.addpath = negotiate_add_path(c, Announced(d))
      /\ p.ebgp = (d.asn # c.asn) /\ p.hold = (IF c.hold < d.hold THEN c.hold ELSE d.hold)
      /\ p.wins = Some(IF c.id # d.id THEN c.id > d.id ELSE c.asn > d.asn)
  BY Zenon DEF Holds
<1>2. /\ q.caps.mp = Range(Fams(d)) \cap Range(Fams(c)) /\ q.caps.err = TRUE /\ q.caps.four = Some(c.asn)
      /\ q.caps.addpath = negotiate_add_path(d, Announced(c))
      /\ q.ebgp = (c.asn # d.asn) /\ q.hold = (IF d.hold < c.hold THEN d.hold ELSE c.hold)
      /\ q.wins = Some(IF d.id # c.id THEN d.id > c.id ELSE d.asn > c.asn)
  BY Zenon DEF Holds
<1>3. c.hold \in Nat /\ d.hold \in Nat /\ c.id \in Nat /\ d.id \in Nat /\ c.asn \in Nat /\ d.asn \in Nat
  BY FamsType, Zenon
<1>4. p.hold = q.hold
  BY <1>1, <1>2, <1>3, SMTT(60)
<1>5. p.ebgp = q.ebgp
  BY <1>1, <1>2, Zenon
<1>6. p.wins # q.wins
  <2>1. ~(c.asn = d.asn /\ c.id = d.id)
    BY Zenon DEF Holds, Acceptable
  <2>2. (IF c.id # d.id THEN c.id > d.id ELSE c.asn > d.asn) # (IF d.id # c.id THEN d.id > c.id ELSE d.asn > c.asn)
    BY <1>3, <2>1
  <2>. QED
    BY <1>1, <1>2, <2>2, Options, SMTT(60)
<1>7. PICK M : M = Range(Fams(c)) \cap Range(Fams(d))
  BY Zenon
<1>8. Common(c, d) /\ M # {}
  BY <1>7, Zenon DEF Holds, Common, Fams
<1>9. afi_safis(p) = M /\ afi_safis(q) = M
  BY <1>1, <1>2, <1>7, <1>8, Zenon DEF afi_safis
<1>10. p.caps.four # None /\ q.caps.four # None
  BY <1>1, <1>2, Options
<1>11. send_format(p).four = receive_format(q).four /\ send_format(p).err = receive_format(q).err
  BY <1>1, <1>2, <1>10, Zenon DEF send_format, receive_format
<1>12. send_format(p).addpath = IF c.send /\ d.receive THEN Range(Fams(d)) \cap Mask ELSE {}
  BY <1>1, PathsLeft, Zenon
<1>13. receive_format(q).addpath = IF d.receive /\ c.send THEN Range(Fams(c)) \cap Mask ELSE {}
  BY <1>2, PathsLeft, Zenon
<1>14. send_format(p).addpath \cap M = receive_format(q).addpath \cap M
  BY <1>7, <1>12, <1>13
<1>. QED
  BY <1>4, <1>5, <1>6, <1>9, <1>11, <1>14 DEF Fit

\* What c believes of the graceful restart of d is what d has configured.
LEMMA RestartFits ==
  ASSUME NEW c \in Configs, NEW d \in Configs, NEW p, Holds(p, c, d)
  PROVE  /\ (p.caps.gr # None) = d.gr
         /\ d.gr /\ d.restart_time < Bits12 =>
                /\ p.caps.gr[1].restart_time = d.restart_time /\ ~p.caps.gr[1].restart_state
                /\ FamiliesOf(p.caps.gr[1].entries) = Range(advertised_afi_safis(d))
         /\ (p.caps.llgr # None) = (d.gr /\ d.llgr # <<>>)
         /\ p.caps.llgr # None /\ d.stale_time < Bits24 =>
                FamiliesOf(p.caps.llgr[1]) = Range(d.llgr) /\ \A e \in p.caps.llgr[1] : e.time = d.stale_time
<1>1. p.caps.gr = Announced(d).gr /\ p.caps.llgr = Announced(d).llgr
  BY Zenon DEF Holds
<1>2. d.gr \in BOOLEAN /\ d.restart_time \in Nat /\ d.stale_time \in Nat
  BY FamsType, Zenon
<1>3. /\ p.caps.gr = (IF d.gr THEN Some(as_graceful_restart(RestartCap(d))) ELSE None)
      /\ p.caps.llgr = (IF d.llgr # <<>> /\ d.gr THEN Some(as_llgr(LlgrCap(d))) ELSE None)
  BY <1>1, Zenon DEF Announced
<1>4. (p.caps.gr # None) = d.gr /\ (d.gr => p.caps.gr[1] = as_graceful_restart(RestartCap(d)))
  BY <1>2, <1>3, Options, Zenon
<1>5. /\ (p.caps.llgr # None) = (d.gr /\ d.llgr # <<>>)
      /\ p.caps.llgr # None => p.caps.llgr[1] = as_llgr(LlgrCap(d))
  BY <1>2, <1>3, Options, Zenon
<1>6. FamiliesOf(as_graceful_restart(RestartCap(d)).entries) = Range(Fams(d))
  <2>1. as_graceful_restart(RestartCap(d)).entries = {Entry(f, 0, 0) : f \in Range(Fams(d))}
    BY EntriesRead DEF as_graceful_restart
  <2>2. \A f : Entry(f, 0, 0).fam = f
    BY DEF Entry
  <2>. QED
    BY <2>1, <2>2 DEF FamiliesOf
<1>7. ASSUME d.restart_time < Bits12
      PROVE  as_graceful_restart(RestartCap(d)).restart_time = d.restart_time /\ ~as_graceful_restart(RestartCap(d)).restart_state
  <2>0. RestartCap(d).head = d.restart_time % Bits12
    BY EntriesRead, Zenon
  <2>1. d.restart_time % Bits12 = d.restart_time
    BY <1>2, <1>7, Remainders, Zenon
  <2>2. RestartCap(d).head = d.restart_time
    BY <2>0, <2>1, Zenon
  <2>3. ~(d.restart_time >= Bits15)
    BY <1>2, <1>7, SMT DEF Bits12, Bits15
  <2>. QED
    BY <2>1, <2>2, <2>3, Zenon DEF as_graceful_restart
<1>8. ASSUME d.stale_time < Bits24
      PROVE  FamiliesOf(as_llgr(LlgrCap(d))) = Range(d.llgr) /\ \A e \in as_llgr(LlgrCap(d)) : e.time = d.stale_time
  <2>1. PICK x : x = d.stale_time
    OBVIOUS
  <2>2. as_llgr(LlgrCap(d)) = {Entry(f, 0, x) : f \in Range(d.llgr)}
    <3>1. d.stale_time % Bits24 = d.stale_time
      BY <1>2, <1>8, Remainders, Zenon
    <3>2. KnownEntries(LlgrCap(d)) = {Entry(f, 0, d.stale_time % Bits24) : f \in Range(d.llgr)}
      BY EntriesRead, Zenon
    <3>. QED
      BY <2>1, <3>1, <3>2 DEF as_llgr
  <2>3. \A f : Entry(f, 0, x).fam = f /\ Entry(f, 0, x).time = x
    BY DEF Entry
  <2>. QED
    BY <2>1, <2>2, <2>3 DEF FamiliesOf
<1>. QED
  BY <1>4, <1>5, <1>6, <1>7, <1>8, Zenon DEF Fams

-----------------------------------------------------------------------------
(* What is on the connection *)

\* What a speaker said and held back only grows while a connection lasts.
Grown(v, x) ==
    /\ x.c = v.c /\ x.old = v.old /\ (v.suppressed => x.suppressed)
    /\ v.said \subseteq x.said

\* What is so of two speakers stays so when they grow.
LEMMA Monotone ==
  ASSUME NEW v, NEW w, NEW x, NEW y, Grown(v, x), Grown(w, y)
  PROVE  /\ Accepted(v, w) => Accepted(x, y)
         /\ \A p : Judged(v, p, w) => Judged(x, p, y)
         /\ \A m : Right(m, w, v) => Right(m, y, x)
<1>1. /\ x.c = v.c /\ x.old = v.old /\ (v.suppressed => x.suppressed) /\ v.said \subseteq x.said
      /\ y.c = w.c /\ y.old = w.old /\ (w.suppressed => y.suppressed) /\ w.said \subseteq y.said
  BY Zenon DEF Grown
<1>2. Advertised(v) \subseteq Advertised(x) /\ Advertised(w) \subseteq Advertised(y)
  BY <1>1, Zenon DEF Advertised
<1>3. Accepted(v, w) => Accepted(x, y)
  BY <1>1, <1>2, Zenon DEF Accepted
<1>4. Accepted(w, v) => Accepted(y, x)
  BY <1>1, <1>2, Zenon DEF Accepted
<1>5. ASSUME NEW p, Judged(v, p, w) PROVE Judged(x, p, y)
  BY <1>1, <1>2, <1>5, Zenon DEF Judged
<1>6. ASSUME NEW m, Faithful(m, w, v) PROVE Faithful(m, y, x)
  BY <1>1, <1>2, <1>4, <1>6 DEF Faithful
<1>7. ASSUME NEW m, Right(m, w, v) PROVE Right(m, y, x)
  BY <1>6, <1>7 DEF Right
<1>. QED
  BY <1>3, <1>5, <1>7, Zenon

\* A queue stays in order when its speakers grow, ...
LEMMA QueueGrows ==
  ASSUME NEW v, NEW w, NEW x, NEW y, Grown(v, x), Grown(w, y), NEW q, NEW phase, Queue(q, phase, w, v)
  PROVE  Queue(q, phase, y, x)
<1>1. \A m : Right(m, w, v) => Right(m, y, x)
  BY Monotone, Zenon
<1>. QED
  BY <1>1 DEF Queue

\* ... when messages other than OPENs follow, ...
LEMMA QueueFollows ==
  ASSUME NEW S, NEW v, NEW w, NEW q \in Seq(S), NEW msgs \in Seq(S), NEW phase, Queue(q, phase, w, v), phase # "Idle",
         \A i \in 1..Len(msgs) : msgs[i].type # "OPEN" /\ Right(msgs[i], w, v)
  PROVE  Queue(q \o msgs, phase, w, v)
<1>. DEFINE l == q \o msgs
<1>1. /\ Len(l) = Len(q) + Len(msgs) /\ Len(q) \in Nat /\ Len(msgs) \in Nat
      /\ \A i \in 1..Len(l) : l[i] = IF i <= Len(q) THEN q[i] ELSE msgs[i - Len(q)]
  OBVIOUS
<1>2. q # <<>> => l # <<>> /\ l[1] = q[1]
  BY <1>1
<1>. HIDE DEF l
<1>3. ASSUME NEW i \in 1..Len(l)
      PROVE  (l[i].type = "OPEN" => i = 1 /\ phase = "OpenSent") /\ Right(l[i], w, v)
  <2>1. CASE i <= Len(q)
    <3>1. i \in 1..Len(q) /\ l[i] = q[i]
      BY <1>1, <2>1
    <3>. QED
      BY <3>1, Zenon DEF Queue
  <2>2. CASE ~(i <= Len(q))
    <3>1. i - Len(q) \in 1..Len(msgs) /\ l[i] = msgs[i - Len(q)]
      BY <1>1, <2>2
    <3>. QED
      BY <3>1
  <2>. QED
    BY <2>1, <2>2, Zenon
<1>. QED
  BY <1>2, <1>3, Zenon DEF Queue, l

\* ... when the first is taken, ...
LEMMA QueueTail ==
  ASSUME NEW S, NEW v, NEW w, NEW q \in Seq(S), q # <<>>, NEW phase, Queue(q, phase, w, v),
         NEW after \in {"OpenConfirm", "Established"}
  PROVE  Queue(Tail(q), after, w, v)
<1>. DEFINE l == Tail(q)
<1>1. Len(q) \in Nat /\ Len(l) = Len(q) - 1 /\ \A i \in 1..Len(l) : i + 1 \in 1..Len(q) /\ i + 1 # 1 /\ l[i] = q[i + 1]
  OBVIOUS
<1>. HIDE DEF l
<1>2. ASSUME NEW i \in 1..Len(l)
      PROVE  l[i].type # "OPEN" /\ Right(l[i], w, v)
  BY <1>1, Zenon DEF Queue
<1>. QED
  BY <1>2 DEF Queue, l

\* ... and when another of its kind, or of none, takes the place of the first.
LEMMA QueueReplaced ==
  ASSUME NEW S, NEW v, NEW w, NEW q \in Seq(S), q # <<>>, NEW phase, Queue(q, phase, w, v),
         NEW m \in S, Right(m, w, v), m.type \in {q[1].type, "OTHER"}
  PROVE  Queue(<<m>> \o Tail(q), phase, w, v)
<1>. DEFINE l == <<m>> \o Tail(q)
<1>1. Len(q) \in Nat /\ Len(q) > 0 /\ Len(l) = Len(q) /\ l[1] = m /\ \A i \in 2..Len(l) : l[i] = q[i]
  OBVIOUS
<1>2. l # <<>> /\ phase # "Idle"
  BY <1>1 DEF Queue
<1>. HIDE DEF l
<1>3. q[1].type = "OPEN" => phase = "OpenSent"
  BY <1>1 DEF Queue
<1>4. ASSUME NEW i \in 1..Len(l)
      PROVE  (l[i].type = "OPEN" => i = 1 /\ phase = "OpenSent") /\ Right(l[i], w, v)
  <2>1. CASE i = 1
    BY <1>1, <1>3, <2>1, Zenon
  <2>2. CASE i # 1
    <3>1. i \in 2..Len(l) /\ i \in 1..Len(q)
      BY <1>1, <2>2
    <3>. QED
      BY <1>1, <3>1, Zenon DEF Queue
  <2>. QED
    BY <2>1, <2>2, Zenon
<1>5. phase = "OpenSent" => l[1].type \in {"OPEN", "OTHER", "CLOSED"}
  BY <1>1, Zenon DEF Queue
<1>. QED
  BY <1>2, <1>4, <1>5, Zenon DEF Queue, l

\* A speaker's messages to one that may have gone.
Sent(phase, q, msgs) == IF phase # "Idle" THEN q \o msgs ELSE <<>>

\* What a speaker holds that is told something new.
LEMMA Informed ==
  ASSUME NEW S, NEW v, NEW w, NEW x, NEW r, NEW k \in Seq(S), SoundPeer(r, k, w, v), Grown(v, x), NEW msgs \in Seq(S),
         \A i \in 1..Len(msgs) : msgs[i].type # "OPEN" /\ Right(msgs[i], x, w)
  PROVE  SoundPeer(r, Sent(r.phase, k, msgs), w, x)
<1>1. Grown(w, w)
  BY SMTT(60), Zenon DEF Grown
<1>2. Queue(k, r.phase, x, w)
  BY <1>1, QueueGrows, Zenon DEF SoundPeer
<1>3. Queue(Sent(r.phase, k, msgs), r.phase, x, w)
  <2>1. CASE r.phase = "Idle"
    BY <2>1 DEF Sent, Queue
  <2>2. CASE r.phase # "Idle"
    BY <1>2, <2>2, QueueFollows, Zenon DEF Sent
  <2>. QED
    BY <2>1, <2>2, Zenon
<1>4. /\ r.phase \in {"OpenConfirm", "Established"} => Judged(w, r, x)
      /\ r.phase = "Established" => Accepted(x, w)
  BY <1>1, Monotone, Zenon DEF SoundPeer
<1>5. r.heard \subseteq x.said
  BY Zenon DEF SoundPeer, Grown
<1>. QED
  BY <1>3, <1>4, <1>5, Zenon DEF SoundPeer

\* A speaker ends the connection, with some last messages.
LEMMA Ends ==
  ASSUME NEW S, NEW v, NEW w, NEW x, NEW r, NEW k \in Seq(S), SoundPeer(r, k, w, v), Grown(v, x),
         NEW p, p.phase = "Idle", p.heard \subseteq w.said, NEW msgs \in Seq(S),
         \A i \in 1..Len(msgs) : msgs[i].type # "OPEN" /\ Right(msgs[i], x, w)
  PROVE  SoundPeer(p, <<>>, x, w) /\ SoundPeer(r, Sent(r.phase, k, msgs), w, x)
<1>1. SoundPeer(p, <<>>, x, w)
  BY SMTT(60), Zenon DEF SoundPeer, Queue
<1>. QED
  BY <1>1, Informed, Zenon

\* A speaker answers.
LEMMA Answers ==
  ASSUME NEW S, NEW v, NEW w, NEW r, NEW k \in Seq(S), SoundPeer(r, k, w, v), NEW msgs \in Seq(S),
         \A i \in 1..Len(msgs) : msgs[i].type # "OPEN" /\ Right(msgs[i], v, w)
  PROVE  SoundPeer(r, Sent(r.phase, k, msgs), w, v)
<1>1. Queue(Sent(r.phase, k, msgs), r.phase, v, w)
  <2>1. CASE r.phase = "Idle"
    BY <2>1 DEF Sent, Queue
  <2>2. CASE r.phase # "Idle"
    BY <2>2, QueueFollows, Zenon DEF Sent, SoundPeer
  <2>. QED
    BY <2>1, <2>2, Zenon
<1>. QED
  BY <1>1, Zenon DEF SoundPeer

\* A speaker in a session says something.
LEMMA Says ==
  ASSUME NEW S, NEW v, NEW w, NEW x, Grown(v, x), NEW q, NEW p, SoundPeer(p, q, v, w),
         NEW n, n.phase = p.phase, n.heard = p.heard, n.caps = p.caps, n.ebgp = p.ebgp, n.hold = p.hold, n.wins = p.wins,
         NEW r, NEW k \in Seq(S), SoundPeer(r, k, w, v), NEW msgs \in Seq(S),
         \A i \in 1..Len(msgs) : msgs[i].type # "OPEN" /\ Right(msgs[i], x, w)
  PROVE  SoundPeer(n, q, x, w) /\ SoundPeer(r, Sent(r.phase, k, msgs), w, x)
<1>1. Grown(w, w)
  BY SMTT(60), Zenon DEF Grown
<1>2. SoundPeer(n, q, x, w)
  <2>1. Queue(q, n.phase, w, x)
    BY <1>1, QueueGrows, Zenon DEF SoundPeer
  <2>2. n.phase \in {"OpenConfirm", "Established"} => Judged(x, p, w)
    BY <1>1, Monotone DEF SoundPeer
  <2>3. Judged(x, p, w) => Judged(x, n, w)
    BY Zenon DEF Judged, Outcome
  <2>4. n.phase = "Established" => Accepted(w, x)
    BY <1>1, Monotone, Zenon DEF SoundPeer
  <2>. QED
    BY <2>1, <2>2, <2>3, <2>4, Zenon DEF SoundPeer
<1>3. SoundPeer(r, Sent(r.phase, k, msgs), w, x)
  BY Informed, Zenon
<1>. QED
  BY <1>2, <1>3, Zenon

-----------------------------------------------------------------------------
(* What is read from a message *)

\* The errors a reader reports.
LEMMA Reported ==
  /\ \A x \in {"ConnectionNotSynchronized", "BadMessageLength", "BadMessageType"} : HeaderError(x) \in Meanings
  /\ BgpErrorIs("RouteRefreshMessageError", "InvalidMessageLength") \in Meanings
  /\ BgpErrorIs("UpdateMessageError", "OptionalAttributeError") \in Meanings
<1>1. ASSUME NEW k \in {"MessageHeaderError", "RouteRefreshMessageError", "UpdateMessageError"},
             NEW n \in DOMAIN SubcodeFrom[k], SubcodeFrom[k][n] # "-"
      PROVE  BgpErrorIs(k, SubcodeFrom[k][n]) \in Meanings
  <2>1. k \in Range(ErrorCode) \ {"OpenMessageError"}
    <3>1. 1 \in DOMAIN ErrorCode /\ 3 \in DOMAIN ErrorCode /\ 7 \in DOMAIN ErrorCode
      BY DEF ErrorCode
    <3>2. ErrorCode[1] = "MessageHeaderError" /\ ErrorCode[3] = "UpdateMessageError" /\ ErrorCode[7] = "RouteRefreshMessageError"
      BY DEF ErrorCode
    <3>. QED
      BY <3>1, <3>2 DEF Range
  <2>2. BgpErrorIs(k, SubcodeFrom[k][n]) \in ErrorsOf(k)
    BY <1>1 DEF ErrorsOf
  <2>. QED
    BY <2>1, <2>2 DEF Errors, Meanings
<1>2. ASSUME NEW x \in {"ConnectionNotSynchronized", "BadMessageLength", "BadMessageType"}
      PROVE  \E n \in DOMAIN SubcodeFrom["MessageHeaderError"] : SubcodeFrom["MessageHeaderError"][n] = x /\ x # "-"
  <2>1. SubcodeFrom["MessageHeaderError"] = <<"ConnectionNotSynchronized", "BadMessageLength", "BadMessageType">>
    BY Zenon DEF SubcodeFrom
  <2>. QED
    BY <2>1
<1>3. 1 \in DOMAIN SubcodeFrom["RouteRefreshMessageError"] /\ SubcodeFrom["RouteRefreshMessageError"][1] = "InvalidMessageLength"
  BY DEF SubcodeFrom
<1>4. 9 \in DOMAIN SubcodeFrom["UpdateMessageError"] /\ SubcodeFrom["UpdateMessageError"][9] = "OptionalAttributeError"
  BY DEF SubcodeFrom
<1>. QED
  BY <1>1, <1>2, <1>3, <1>4, Zenon DEF HeaderError

\* The header of a message that is read, and of one that is not.
LEMMA HeaderRead ==
  ASSUME NEW m
  PROVE  /\ read_bgp_message_bytes(m) = None =>
                /\ m.marker /\ m.len \in HEADER .. MAX_MESSAGE_SIZE /\ m.type # "OTHER"
                /\ m.type = "KEEPALIVE" => m.len = HEADER
                /\ m.type = "NOTIFICATION" => m.len >= 21
         /\ read_bgp_message_bytes(m) # None => read_bgp_message_bytes(m)[1] \in Meanings
<1>1. \A x : Some(x) # None /\ Some(x)[1] = x
  BY Options, Zenon
<1>2. CASE ~validate_marker(m)
  <2>1. read_bgp_message_bytes(m) = Some(HeaderError("ConnectionNotSynchronized"))
    BY <1>2 DEF read_bgp_message_bytes
  <2>. QED
    BY <1>1, <2>1, Reported
<1>3. CASE validate_marker(m) /\ ~validate_length(m)
  <2>1. read_bgp_message_bytes(m) = Some(HeaderError("BadMessageLength"))
    BY <1>3 DEF read_bgp_message_bytes
  <2>. QED
    BY <1>1, <2>1, Reported
<1>4. CASE validate_marker(m) /\ validate_length(m) /\ ~validate_message_type(m)
  <2>1. read_bgp_message_bytes(m) = Some(HeaderError("BadMessageType"))
    BY <1>4 DEF read_bgp_message_bytes
  <2>. QED
    BY <1>1, <2>1, Reported
<1>5. CASE validate_marker(m) /\ validate_length(m) /\ validate_message_type(m)
  <2>1. read_bgp_message_bytes(m) = None
    BY <1>5, Zenon DEF read_bgp_message_bytes
  <2>. QED
    BY <1>5, <2>1 DEF validate_marker, validate_length, validate_message_type
<1>. QED
  BY <1>2, <1>3, <1>4, <1>5

\* A ROUTE-REFRESH that is read, and one that is not (RouteRefreshMessage::from_bytes).
LEMMA RefreshRead ==
  ASSUME NEW m, NEW enhanced
  PROVE  LET read == route_refresh_from_bytes(m, enhanced)
         IN  /\ read.error = None => /\ m.len = HEADER + 4 /\ Known(Refreshed(m))
                                     /\ read.refresh = Meant(SubtypeFrom(m.body[2]), "-", Refreshed(m))
             /\ read.error # None => read.error[1] \in Meanings
<1>. DEFINE read == route_refresh_from_bytes(m, enhanced)
            Short == m.len # HEADER + 4 /\ enhanced /\ SubtypeFrom(m.body[2]) \in {"BoRR", "EoRR"} /\ m.len >= HEADER + 3
<1>1. \A x : Some(x) # None /\ Some(x)[1] = x
  BY Options, SMTT(60)
<1>2. CASE Short
  <2>1. read = [error |-> Some(BgpErrorIs("RouteRefreshMessageError", "InvalidMessageLength"))]
    BY <1>2 DEF route_refresh_from_bytes
  <2>2. read.error = Some(BgpErrorIs("RouteRefreshMessageError", "InvalidMessageLength"))
    BY <2>1
  <2>. QED
    BY <1>1, <2>2, Reported
<1>3. CASE m.len = HEADER + 4 /\ ~Known(Refreshed(m))
  <2>1. read = [error |-> Some(BgpErrorIs("UpdateMessageError", "OptionalAttributeError"))]
    BY <1>3 DEF route_refresh_from_bytes, Refreshed
  <2>2. read.error = Some(BgpErrorIs("UpdateMessageError", "OptionalAttributeError"))
    BY <2>1
  <2>. QED
    BY <1>1, <2>2, Reported
<1>4. CASE m.len = HEADER + 4 /\ Known(Refreshed(m))
  <2>1. read = [error |-> None, refresh |-> Meant(SubtypeFrom(m.body[2]), "-", Refreshed(m))]
    BY <1>4, Zenon DEF route_refresh_from_bytes, Refreshed
  <2>2. read.error = None /\ read.refresh = Meant(SubtypeFrom(m.body[2]), "-", Refreshed(m))
    BY <2>1
  <2>. QED
    BY <1>4, <2>2
<1>5. CASE m.len # HEADER + 4 /\ ~Short
  <2>1. read = [error |-> Some(HeaderError("BadMessageLength"))]
    BY <1>5 DEF route_refresh_from_bytes
  <2>2. read.error = Some(HeaderError("BadMessageLength"))
    BY <2>1
  <2>. QED
    BY <1>1, <2>2, Reported
<1>. QED
  BY <1>2, <1>3, <1>4, <1>5, Zenon

\* Why an OPEN is refused (OpenMessage::from_bytes, enter_open_confirm).
LEMMA WhyRefused ==
  /\ \A o : open_from_bytes(o).error # None => open_from_bytes(o).error[1] \in Refused
  /\ \A c, o, asn, caps : Objection(c, o, asn, caps) # None => Objection(c, o, asn, caps)[1] \in Refused
<1>1. \A x : Some(x) # None /\ Some(x)[1] = x
  BY Options
<1>2. \A x \in {"Unspecific", "UnsupportedVersionNumber", "UnacceptedHoldTime", "BadBgpIdentifier",
                "BadPeerAs", "UnsupportedCapability", "UnsupportedOptionalParameter"} : OpenError(x) \in Refused
  BY DEF Refused
<1>3. ASSUME NEW o, open_from_bytes(o).error # None
      PROVE  open_from_bytes(o).error[1] \in Refused
  <2>1. \E x \in {"Unspecific", "UnsupportedVersionNumber", "UnacceptedHoldTime", "BadBgpIdentifier", "BadPeerAs"} :
            open_from_bytes(o).error = Some(OpenError(x))
    BY <1>3, Zenon DEF open_from_bytes
  <2>. QED
    BY <1>1, <1>2, <2>1, Zenon
<1>4. ASSUME NEW c, NEW o, NEW asn, NEW caps, Objection(c, o, asn, caps) # None
      PROVE  Objection(c, o, asn, caps)[1] \in Refused
  <2>1. \E x \in {"BadBgpIdentifier", "BadPeerAs", "UnsupportedCapability", "UnsupportedOptionalParameter"} :
            Objection(c, o, asn, caps) = Some(OpenError(x))
    BY <1>4 DEF Objection
  <2>. QED
    BY <1>1, <1>2, <2>1, Zenon
<1>. QED
  BY <1>3, <1>4

\* An OPEN that is read is not a faulty one.
LEMMA OpenRead ==
  ASSUME NEW o, o.version \in Nat, o.fits \in BOOLEAN, o.tlvs \in BOOLEAN, open_from_bytes(o).error = None
  PROVE  ~SpoiledBody(o)
<1>1. \A x : Some(x) # None
  BY Options, Zenon
<1>2. o.fits /\ o.version = 4 /\ o.hold \notin {1, 2} /\ o.id # 0 /\ o.tlvs
  BY <1>1, Zenon DEF open_from_bytes, validate_version, validate_hold_time, validate_bgp_identifier
<1>3. o.asn = AS_TRANS => find_four_octet_asn(o.params) # None
  BY <1>1, Zenon DEF open_from_bytes
<1>. QED
  BY <1>2, <1>3, ExtractedNone, Zenon DEF SpoiledBody

\* The families and the restart a speaker holds of the other.
LEMMA CapsHeld ==
  ASSUME NEW c \in Configs, NEW params, NEW caps, caps = NoCapabilities \/ caps = Kept(c, extract_capabilities(params))
  PROVE  caps.mp \subseteq Families /\ (caps.llgr # None => caps.gr # None)
<1>1. CASE caps = NoCapabilities
  BY <1>1, Zenon DEF NoCapabilities
<1>2. CASE caps = Kept(c, extract_capabilities(params))
  <2>. DEFINE a == extract_capabilities(params)
  <2>1. a.llgr # None => a.gr # None
    BY Options, Zenon DEF extract_capabilities
  <2>2. DOMAIN a = {"mp", "rr", "err", "four", "gr", "addpath", "llgr"}
    BY Zenon DEF extract_capabilities
  <2>. HIDE DEF a
  <2>3. caps.mp = negotiate_multiprotocol(Fams(c), a.mp) /\ caps.llgr = a.llgr /\ caps.gr = a.gr
    BY <1>2, <2>2, Zenon DEF Kept, a, Fams
  <2>4. Range(Fams(c)) \subseteq Families
    BY FamsType, Zenon DEF Range
  <2>. QED
    BY <2>1, <2>3, <2>4 DEF negotiate_multiprotocol
<1>. QED
  BY <1>1, <1>2, Zenon

-----------------------------------------------------------------------------
(* The messages that are sent, spoiled and repacked *)

\* The configurations of a setup.
LEMMA Configured ==
  ASSUME setup \in Setups, NEW t \in Speakers
  PROVE  cfg[t] \in Configs
  BY SetupsAssumption DEF cfg

\* A message is closed, an OPEN or a short one.
LEMMA MessageShape ==
  ASSUME NEW m \in Messages, m.type # "CLOSED"
  PROVE  \/ m \in Opens
         \/ m \in Shorts /\ m.type \in {"KEEPALIVE", "NOTIFICATION", "ROUTE_REFRESH", "OTHER"}
  BY DEF Messages, Closed, Shorts

\* A message with one part altered.
LEMMA Altered ==
  ASSUME NEW T, NEW L, NEW B, NEW m \in [type : T, len : L, marker : BOOLEAN, body : B]
  PROVE  LET M == [type : T, len : L, marker : BOOLEAN, body : B]
         IN  /\ \A x \in T : LET z == [m EXCEPT !.type = x] IN z \in M /\ z.type = x
             /\ \A x \in L : LET z == [m EXCEPT !.len = x] IN z \in M /\ z.type = m.type /\ z.len = x
             /\ LET z == [m EXCEPT !.marker = FALSE] IN z \in M /\ z.type = m.type /\ z.marker = FALSE
             /\ \A x \in B : LET z == [m EXCEPT !.body = x] IN z \in M /\ z.type = m.type /\ z.body = x
<1>1. \A x \in T : LET z == [m EXCEPT !.type = x] IN z \in [type : T, len : L, marker : BOOLEAN, body : B] /\ z.type = x
  OBVIOUS
<1>2. \A x \in L : LET z == [m EXCEPT !.len = x]
                   IN z \in [type : T, len : L, marker : BOOLEAN, body : B] /\ z.type = m.type /\ z.len = x
  OBVIOUS
<1>3. LET z == [m EXCEPT !.marker = FALSE]
      IN z \in [type : T, len : L, marker : BOOLEAN, body : B] /\ z.type = m.type /\ z.marker = FALSE
  BY Zenon
<1>4. \A x \in B : LET z == [m EXCEPT !.body = x]
                   IN z \in [type : T, len : L, marker : BOOLEAN, body : B] /\ z.type = m.type /\ z.body = x
  OBVIOUS
<1>. QED
  BY <1>1, <1>2, <1>3, <1>4, Zenon

\* A message with a faulty header.
HeaderFaults(m) ==
    {[m EXCEPT !.marker = FALSE], [m EXCEPT !.len = 18], [m EXCEPT !.len = 4097], [m EXCEPT !.type = "OTHER"]}
LEMMA FaultyHeader ==
  ASSUME NEW T, NEW L, NEW B, NEW m \in [type : T, len : L, marker : BOOLEAN, body : B], "OTHER" \in T, Nat \subseteq L,
         NEW z \in HeaderFaults(m)
  PROVE  z \in [type : T, len : L, marker : BOOLEAN, body : B] /\ Spoiled(z) /\ z.type \in {m.type, "OTHER"}
<1>0. 18 \in L /\ 4097 \in L /\ 18 \notin HEADER .. MAX_MESSAGE_SIZE /\ 4097 \notin HEADER .. MAX_MESSAGE_SIZE
  BY DEF HEADER, MAX_MESSAGE_SIZE
<1>1. CASE z = [m EXCEPT !.marker = FALSE]
  BY <1>1, Altered, Zenon DEF Spoiled
<1>2. CASE z = [m EXCEPT !.len = 18]
  <2>0. PICK x \in L : x = 18 /\ x \notin HEADER .. MAX_MESSAGE_SIZE
    BY <1>0
  <2>1. z \in [type : T, len : L, marker : BOOLEAN, body : B] /\ z.type = m.type /\ z.len = x
    BY <1>2, <2>0, Altered, Zenon
  <2>. QED
    BY <2>0, <2>1 DEF Spoiled
<1>3. CASE z = [m EXCEPT !.len = 4097]
  <2>0. PICK x \in L : x = 4097 /\ x \notin HEADER .. MAX_MESSAGE_SIZE
    BY <1>0
  <2>1. z \in [type : T, len : L, marker : BOOLEAN, body : B] /\ z.type = m.type /\ z.len = x
    BY <1>3, <2>0, Altered
  <2>. QED
    BY <2>0, <2>1 DEF Spoiled
<1>4. CASE z = [m EXCEPT !.type = "OTHER"]
  BY <1>4, Altered DEF Spoiled
<1>. QED
  BY <1>1, <1>2, <1>3, <1>4 DEF HeaderFaults

\* A faulty OPEN.
LEMMA FaultyOpen ==
  ASSUME NEW o \in Bodies, NEW b \in FaultyBody(o)
  PROVE  b \in Bodies /\ SpoiledBody(b)
<1>1. <<>> \in ParamLists /\ AS_TRANS \in Nat
  BY DEF ParamLists, AS_TRANS
<1>2. CASE b = [o EXCEPT !.version = 3]
  BY <1>2 DEF Bodies, SpoiledBody
<1>3. CASE b = [o EXCEPT !.hold = 2]
  BY <1>3 DEF Bodies, SpoiledBody
<1>4. CASE b = [o EXCEPT !.id = 0]
  BY <1>4 DEF Bodies, SpoiledBody
<1>5. CASE b = [o EXCEPT !.fits = FALSE]
  BY <1>5, Zenon DEF Bodies, SpoiledBody
<1>6. CASE b = [o EXCEPT !.tlvs = FALSE]
  BY <1>6, Zenon DEF Bodies, SpoiledBody
<1>7. CASE b = [o EXCEPT !.asn = AS_TRANS, !.params = <<>>]
  BY <1>1, <1>7, Zenon DEF Bodies, SpoiledBody
<1>. QED
  BY <1>2, <1>3, <1>4, <1>5, <1>6, <1>7, Zenon DEF FaultyBody

\* A faulty message is one that nobody takes.
LEMMA FaultyMessage ==
  ASSUME NEW m \in Messages, m.type # "CLOSED", NEW z \in Faulty(m)
  PROVE  z \in Messages /\ Spoiled(z) /\ z.type \in {m.type, "OTHER"}
<1>0. Nat \subseteq Sizes
  BY DEF Sizes
<1>1. CASE m \in Opens
  <2>1. m.type \in {"OPEN", "OTHER"} /\ m.body \in Bodies
    BY <1>1 DEF Opens
  <2>2. \/ z \in HeaderFaults(m)
        \/ m.type = "OPEN" /\ \E b \in FaultyBody(m.body) : z = [m EXCEPT !.body = b]
    BY <2>1 DEF Faulty, HeaderFaults
  <2>3. CASE z \in HeaderFaults(m)
    <3>1. PICK T, L, B : T = {"OPEN", "OTHER"} /\ L = Sizes /\ B = Bodies
      BY Zenon
    <3>2. Opens = [type : T, len : L, marker : BOOLEAN, body : B] /\ "OTHER" \in T /\ Nat \subseteq L
      BY <1>0, <3>1 DEF Opens
    <3>3. z \in [type : T, len : L, marker : BOOLEAN, body : B] /\ Spoiled(z) /\ z.type \in {m.type, "OTHER"}
      <4>1. m \in [type : T, len : L, marker : BOOLEAN, body : B]
        BY <1>1, <3>2
      <4>. QED
        BY <2>3, <3>2, <4>1, FaultyHeader, Zenon
    <3>. QED
      BY <3>2, <3>3 DEF Messages
  <2>4. CASE m.type = "OPEN" /\ \E b \in FaultyBody(m.body) : z = [m EXCEPT !.body = b]
    <3>1. PICK b \in FaultyBody(m.body) : z = [m EXCEPT !.body = b]
      BY <2>4
    <3>2. PICK o \in Bodies : o = m.body
      BY <2>1
    <3>3. b \in Bodies /\ SpoiledBody(b)
      BY <3>1, <3>2, FaultyOpen
    <3>4. z \in Opens /\ z.type = "OPEN" /\ z.body = b
      BY <1>1, <2>4, <3>1, <3>3, Altered, Zenon DEF Opens
    <3>. QED
      BY <2>4, <3>3, <3>4 DEF Messages, Spoiled
  <2>. QED
    BY <2>2, <2>3, <2>4
<1>2. CASE m \in Shorts /\ m.type \in {"KEEPALIVE", "NOTIFICATION", "ROUTE_REFRESH", "OTHER"}
  <2>1. \/ z \in HeaderFaults(m)
        \/ m.type \in {"KEEPALIVE", "NOTIFICATION"} /\ z = [m EXCEPT !.len = 20]
        \/ m.type = "ROUTE_REFRESH" /\ z \in {[m EXCEPT !.len = 21], [m EXCEPT !.len = 24], [m EXCEPT !.body = <<99, 0, 1>>]}
    BY <1>2 DEF Faulty, HeaderFaults
  <2>2. CASE z \in HeaderFaults(m)
    <3>1. PICK T, B : T = {"KEEPALIVE", "NOTIFICATION", "ROUTE_REFRESH", "OTHER"} /\ B = Seq(Nat)
      BY Zenon
    <3>2. Shorts = [type : T, len : Nat, marker : BOOLEAN, body : B] /\ "OTHER" \in T /\ Nat \subseteq Nat
      BY <3>1 DEF Shorts
    <3>3. z \in [type : T, len : Nat, marker : BOOLEAN, body : B] /\ Spoiled(z) /\ z.type \in {m.type, "OTHER"}
      <4>1. m \in [type : T, len : Nat, marker : BOOLEAN, body : B]
        BY <1>2, <3>2
      <4>. QED
        BY <2>2, <3>2, <4>1, FaultyHeader, Zenon
    <3>. QED
      BY <3>2, <3>3 DEF Messages
  <2>3. CASE m.type \in {"KEEPALIVE", "NOTIFICATION"} /\ z = [m EXCEPT !.len = 20]
    <3>1. z \in Shorts /\ z.type = m.type /\ z.len = 20
      BY <1>2, <2>3 DEF Shorts
    <3>. QED
      BY <2>3, <3>1 DEF Messages, Spoiled, HEADER
  <2>4. CASE m.type = "ROUTE_REFRESH" /\ z \in {[m EXCEPT !.len = 21], [m EXCEPT !.len = 24]}
    <3>1. z \in Shorts /\ z.type = m.type /\ z.len \in {21, 24}
      <4>1. PICK l \in {21, 24} : z = [m EXCEPT !.len = l]
        BY <2>4, Zenon
      <4>2. l \in Nat
        OBVIOUS
      <4>3. m \in Shorts
        BY <1>2, Zenon
      <4>. QED
        BY <4>1, <4>2, <4>3 DEF Shorts
    <3>. QED
      BY <2>4, <3>1 DEF Messages, Spoiled, HEADER
  <2>5. CASE m.type = "ROUTE_REFRESH" /\ z = [m EXCEPT !.body = <<99, 0, 1>>]
    <3>9. <<99, 0, 1>>[1] = 99 /\ <<99, 0, 1>> \in Seq(Nat)
      OBVIOUS
    <3>0. PICK b : b = <<99, 0, 1>> /\ b[1] = 99 /\ b \in Seq(Nat)
      BY <3>9, ZenonT(60)
    <3>1. z \in Shorts /\ z.type = m.type /\ z.body = b
      BY <1>2, <2>5, <3>0, Altered, ZenonT(60) DEF Shorts
    <3>2. ~Known(Refreshed(z))
      BY <3>0, <3>1 DEF Refreshed, Known, AfiTryFrom
    <3>. QED
      BY <2>5, <3>1, <3>2 DEF Messages, Spoiled
  <2>. QED
    BY <2>1, <2>2, <2>3, <2>4, <2>5
<1>. QED
  BY <1>1, <1>2, MessageShape

\* An OPEN with other parameters.
LEMMA OtherParams ==
  ASSUME NEW c, NEW params, NEW n
  PROVE  [OpenBody(c, params) EXCEPT !.params = n] = OpenBody(c, n)
<1>2. PICK version, asn, hold, id, fits, tlvs :
          /\ version = 4 /\ asn = (IF c.asn > MAX_2BYTE_ASN THEN AS_TRANS ELSE c.asn)
          /\ hold = c.hold /\ id = c.id /\ fits = TRUE /\ tlvs = TRUE
  BY Zenon
<1>3. \A r : OpenBody(c, r) = [version |-> version, asn |-> asn, hold |-> hold, id |-> id, fits |-> fits, tlvs |-> tlvs,
                              params |-> r]
  BY <1>2, Zenon DEF OpenBody
<1>4. PICK o, z : o = OpenBody(c, params) /\ z = OpenBody(c, n)
  BY Zenon
<1>5. /\ o = [version |-> version, asn |-> asn, hold |-> hold, id |-> id, fits |-> fits, tlvs |-> tlvs, params |-> params]
      /\ z = [version |-> version, asn |-> asn, hold |-> hold, id |-> id, fits |-> fits, tlvs |-> tlvs, params |-> n]
  BY <1>3, <1>4, Zenon
<1>6. [o EXCEPT !.params = n] = z
  BY <1>5
<1>. QED
  BY <1>4, <1>6, Zenon

\* A repacked OPEN says what it said.
LEMMA RepackedOpen ==
  ASSUME setup \in Setups, NEW m \in Messages, m.type = "OPEN", Len(m.body.params) = 1,
         NEW w, w.c \in Configs, NEW v, Right(m, w, v),
         NEW z, z = [m EXCEPT !.body.params = Repacked(m.body.params)]
  PROVE  z \in Messages /\ z.type = "OPEN" /\ Right(z, w, v)
<1>1. m \in Opens
  BY MessageShape
<1>2. m.body \in Bodies /\ m.body.params \in ParamLists
  BY <1>1 DEF Opens, Bodies
<1>3. m.body.params # <<>>
  <2>1. Len(<<>>) # 1
    OBVIOUS
  <2>. QED
    BY <2>1, Zenon
<1>4. PICK t \in Speakers : m.body.params \in Packings(cfg[t])
  BY <1>2, <1>3 DEF ParamLists
<1>5. PICK c \in Configs : c = cfg[t]
  BY Configured
<1>6. m.body.params = Packed(c)
  <2>1. m.body.params \in Packings(c)
    BY <1>4, <1>5
  <2>2. PICK params : params = m.body.params
    OBVIOUS
  <2>. QED
    BY <2>1, <2>2, ReadsAs
<1>7. Repacked(m.body.params) \in ParamLists
  <2>1. Repacked(m.body.params) \in Packings(cfg[t])
    BY <1>5, <1>6 DEF Packings
  <2>. QED
    BY <2>1 DEF ParamLists
<1>8. PICK n : n = Repacked(m.body.params)
  OBVIOUS
<1>9. z.body = [m.body EXCEPT !.params = n] /\ z.type = m.type /\ z.len = m.len /\ z.marker = m.marker
  BY <1>1, <1>8 DEF Opens
<1>10. z = [m EXCEPT !.body = [m.body EXCEPT !.params = n]]
  BY <1>8
<1>11. z.body \in Bodies
  BY <1>2, <1>7, <1>8, <1>9 DEF Bodies
<1>12. z \in Opens
  BY <1>1, <1>9, <1>10, <1>11, Zenon DEF Opens
<1>13. CASE Spoiled(m)
  <2>1. SpoiledBody(m.body) => SpoiledBody(z.body)
    BY <1>2, <1>3, <1>9, SMTT(60) DEF SpoiledBody, Bodies
  <2>. QED
    BY <1>9, <1>12, <1>13, <2>1, Zenon DEF Spoiled, Right, Messages
<1>14. CASE Faithful(m, w, v)
  <2>1. PICK params \in Advertised(w) : m.body = OpenBody(w.c, params)
    BY <1>14 DEF Faithful
  <2>2. m.body.params = params
    BY <2>1 DEF OpenBody
  <2>3. params \in Packings(w.c) /\ ~w.old
    BY <1>3, <2>1, <2>2 DEF Advertised
  <2>4. PICK d \in Configs : d = w.c
    OBVIOUS
  <2>5. params = Packed(d)
    BY <2>2, <2>3, <2>4, ReadsAs, Zenon
  <2>6. n \in Packings(w.c)
    BY <1>8, <2>2, <2>4, <2>5, Zenon DEF Packings
  <2>7. n \in Advertised(w)
    BY <2>3, <2>6 DEF Advertised
  <2>8. z.body = OpenBody(w.c, n)
    <3>1. PICK o : o = m.body
      OBVIOUS
    <3>2. o = OpenBody(w.c, params) /\ z.body = [o EXCEPT !.params = n]
      BY <1>9, <2>1, <3>1
    <3>. QED
      BY <3>2, OtherParams
  <2>9. Faithful(z, w, v)
    BY <1>9, <2>7, <2>8 DEF Faithful
  <2>. QED
    BY <1>9, <1>12, <2>9 DEF Right, Messages
<1>15. m # Closed
  BY SMTT(60) DEF Closed
<1>. QED
  BY <1>13, <1>14, <1>15 DEF Right

\* What each message a speaker sends says.
LEMMA OwnMessages ==
  ASSUME NEW x, NEW w
  PROVE  /\ Closed \in Messages /\ Closed.type = "CLOSED" /\ Right(Closed, x, w)
         /\ KeepaliveMessage \in Messages /\ KeepaliveMessage.type = "KEEPALIVE"
         /\ Accepted(x, w) => Right(KeepaliveMessage, x, w)
         /\ \A e \in Meanings : /\ NotificationMessage(e) \in Messages /\ NotificationMessage(e).type = "NOTIFICATION"
                                /\ e \in x.said => Right(NotificationMessage(e), x, w)
         /\ \A fam \in Families, n \in {0, 1, 2} :
                /\ RouteRefreshMessage(fam, n) \in Messages /\ RouteRefreshMessage(fam, n).type = "ROUTE_REFRESH"
                /\ Meant(SubtypeFrom(n), "-", fam) \in Refreshes
                /\ Meant(SubtypeFrom(n), "-", fam) \in x.said => Right(RouteRefreshMessage(fam, n), x, w)
<1>1. Closed \in Messages /\ Closed.type = "CLOSED" /\ Right(Closed, x, w)
  BY Zenon DEF Messages, Closed, Right
<1>2. KeepaliveMessage \in Messages /\ KeepaliveMessage.type = "KEEPALIVE"
  BY DEF KeepaliveMessage, Message, Messages, Shorts, HEADER
<1>3. Accepted(x, w) => Right(KeepaliveMessage, x, w)
  BY <1>2 DEF Right, Faithful
<1>4. ASSUME NEW e \in Meanings
      PROVE  /\ NotificationMessage(e) \in Messages /\ NotificationMessage(e).type = "NOTIFICATION"
             /\ e \in x.said => Right(NotificationMessage(e), x, w)
  <2>1. error_code(e) \in Nat /\ error_subcode(e) \in Nat /\ BgpError(error_code(e), error_subcode(e)) = e
    BY RoundTrip
  <2>2. <<error_code(e), error_subcode(e)>> \in Seq(Nat)
    BY <2>1
  <2>3. /\ NotificationMessage(e) \in Messages /\ NotificationMessage(e).type = "NOTIFICATION"
        /\ NotificationMessage(e).body = <<error_code(e), error_subcode(e)>>
    BY <2>2 DEF NotificationMessage, Message, Messages, Shorts, HEADER
  <2>4. notification_from_bytes(NotificationMessage(e).body) = e
    BY <2>1, <2>3 DEF notification_from_bytes
  <2>. QED
    BY <2>3, <2>4, Zenon DEF Right, Faithful
<1>5. ASSUME NEW fam \in Families, NEW n \in {0, 1, 2}
      PROVE  /\ RouteRefreshMessage(fam, n) \in Messages /\ RouteRefreshMessage(fam, n).type = "ROUTE_REFRESH"
             /\ Meant(SubtypeFrom(n), "-", fam) \in Refreshes
             /\ Meant(SubtypeFrom(n), "-", fam) \in x.said => Right(RouteRefreshMessage(fam, n), x, w)
  <2>1. fam[1] \in Nat /\ fam[2] \in Nat /\ fam = <<fam[1], fam[2]>>
    BY DEF Families
  <2>2. <<fam[1], n, fam[2]>> \in Seq(Nat)
    BY <2>1
  <2>3. /\ RouteRefreshMessage(fam, n) \in Messages /\ RouteRefreshMessage(fam, n).type = "ROUTE_REFRESH"
        /\ RouteRefreshMessage(fam, n).body = <<fam[1], n, fam[2]>>
    <3>1. PICK b \in Seq(Nat) : b = <<fam[1], n, fam[2]>>
      BY <2>2, Zenon
    <3>2. PICK l \in Nat : l = HEADER + 4
      BY DEF HEADER
    <3>3. PICK r : r = RouteRefreshMessage(fam, n)
      BY Zenon
    <3>4. r = [type |-> "ROUTE_REFRESH", len |-> l, marker |-> TRUE, body |-> b]
      BY <3>1, <3>2, <3>3, Zenon DEF RouteRefreshMessage, Message
    <3>5. r \in Shorts /\ r.type = "ROUTE_REFRESH" /\ r.body = b
      BY <3>4 DEF Shorts
    <3>. QED
      BY <3>1, <3>3, <3>5, Zenon DEF Messages
  <2>4. RouteRefreshMessage(fam, n).body[2] = n /\ Refreshed(RouteRefreshMessage(fam, n)) = fam
    BY <2>1, <2>3 DEF Refreshed
  <2>5. SubtypeFrom(n) \in {"Normal", "BoRR", "EoRR"}
    BY DEF SubtypeFrom, RouteRefreshSubtype
  <2>. QED
    BY <2>3, <2>4, <2>5 DEF Right, Faithful, Refreshes
<1>. QED
  BY <1>1, <1>2, <1>3, <1>4, <1>5, ZenonT(60)

\* The OPEN of a speaker.
LEMMA OwnOpen ==
  ASSUME setup \in Setups, NEW t \in Speakers, NEW params \in ParamLists
  PROVE  OpenMessage(cfg[t], params) \in Messages /\ OpenMessage(cfg[t], params).type = "OPEN"
         /\ OpenMessage(cfg[t], params).body = OpenBody(cfg[t], params)
<1>1. cfg[t].asn \in Nat /\ cfg[t].hold \in Nat /\ cfg[t].id \in Nat
  BY Configured, Zenon DEF Configs
<1>2. OpenBody(cfg[t], params) \in Bodies
  BY <1>1 DEF OpenBody, Bodies, AS_TRANS
<1>3. HEADER + (10 + ParamsLen(params)) \in Sizes
  BY DEF Sizes
<1>. QED
  BY <1>2, <1>3 DEF OpenMessage, Message, Messages, Opens

-----------------------------------------------------------------------------
(* The invariant is kept *)

\* There are two speakers.
LEMMA Two ==
  ASSUME NEW s \in Speakers
  PROVE  Other(s) \in Speakers /\ Other(s) # s /\ Other(Other(s)) = s /\ \A u \in Speakers : u = s \/ u = Other(s)
  BY DEF Speakers, Other

\* What can be on the connection does not change with the state.
LEMMA SameSets ==
  ASSUME setup' = setup
  PROVE  cfg' = cfg /\ Messages' = Messages /\ Peers' = Peers
<1>1. cfg' = cfg
  BY DEF cfg
<1>2. ParamLists' = ParamLists
  BY <1>1 DEF ParamLists
<1>3. Bodies' = Bodies /\ Sizes' = Sizes /\ CapSets' = CapSets
  <2>1. Bodies' = Bodies
    BY <1>2 DEF Bodies
  <2>2. Sizes' = Sizes
    BY <1>2 DEF Sizes
  <2>3. CapSets' = CapSets
    BY <1>1, <1>2 DEF CapSets
  <2>. QED
    BY <2>1, <2>2, <2>3
<1>4. Opens' = Opens
  BY <1>3, Zenon DEF Opens
<1>. QED
  BY <1>1, <1>3, <1>4, Zenon DEF Messages, Peers

\* How a speaker's view changes with it.
LEMMA ViewsGrow ==
  ASSUME UNCHANGED <<setup, old>>, NEW s \in Speakers
  PROVE  /\ (peer[s].suppressed => peer'[s].suppressed) /\ peer[s].said \subseteq peer'[s].said => Grown(View(s), View(s)')
         /\ peer'[s].suppressed = peer[s].suppressed /\ peer'[s].said = peer[s].said => View(s)' = View(s)
         /\ View(s)'.said = peer'[s].said /\ View(s).said = peer[s].said /\ View(s).c = cfg[s] /\ View(s).old = Old(s)
<1>1. cfg' = cfg /\ Old(s)' = Old(s)
  BY Zenon DEF cfg, Old
<1>2. View(s)' = [c |-> cfg[s], old |-> Old(s), suppressed |-> peer'[s].suppressed, said |-> peer'[s].said]
  BY <1>1, Zenon DEF View
<1>. QED
  BY <1>2, Zenon DEF View, Grown

\* What has to be shown of a step that leaves the setup alone.
LEMMA Keeps ==
  ASSUME Inv, UNCHANGED <<setup, old>>, NEW s \in Speakers, peer' \in [Speakers -> Peers], wire' \in [Speakers -> Seq(Messages)],
         events' \in 0 .. setup.max_events, Sound(s)', Sound(Other(s))'
  PROVE  Inv'
<1>1. Peers' = Peers /\ Messages' = Messages
  BY SameSets, Zenon
<1>2. Types'
  BY <1>1, Zenon DEF Types, Inv
<1>3. \A u \in Speakers : Sound(u)'
  BY Two, Zenon
<1>. QED
  BY <1>2, <1>3, Zenon DEF Inv

\* The next message of a speaker.
LEMMA FirstMessage ==
  ASSUME Inv, NEW s \in Speakers, Up(s), wire[s] # <<>>
  PROVE  /\ wire[s][1] \in Messages /\ Right(wire[s][1], View(Other(s)), View(s))
         /\ wire[s][1].type = "OPEN" => peer[s].phase = "OpenSent"
         /\ wire[s][1].type \notin {"OPEN", "OTHER", "CLOSED"} => peer[s].phase \in {"OpenConfirm", "Established"}
<1>1. wire[s] \in Seq(Messages) /\ peer[s].phase \in Phases /\ peer[s].phase # "Idle"
  BY Zenon DEF Inv, Types, Peers, Up
<1>2. 1 \in 1..Len(wire[s]) /\ wire[s][1] \in Messages
  BY <1>1, SMTT(60)
<1>3. Queue(wire[s], peer[s].phase, View(Other(s)), View(s))
  BY DEF Inv, Sound, SoundPeer
<1>. QED
  BY <1>1, <1>2, <1>3 DEF Queue, Phases

\* What is read is what was said, unless the reader finds the fault.
LEMMA ReadFaithful ==
  ASSUME NEW m, NEW w, NEW v, Right(m, w, v), m.type # "CLOSED", read_bgp_message_bytes(m) = None,
         m.type = "OPEN" => ~SpoiledBody(m.body),
         m.type = "ROUTE_REFRESH" => m.len = HEADER + 4 /\ Known(Refreshed(m))
  PROVE  Faithful(m, w, v)
<1>1. m # Closed
  BY DEF Closed
<1>2. ~Spoiled(m)
  BY HeaderRead, Zenon DEF Spoiled
<1>. QED
  BY <1>1, <1>2, Zenon DEF Right

\* A speaker that leaves the connection, with some last messages, keeps the invariant.
LEMMA EndKeeps ==
  ASSUME Inv, NEW s \in Speakers, UNCHANGED <<setup, old>>, events' \in 0 .. setup.max_events,
         NEW n \in Peers, n.phase = "Idle", n.heard \subseteq View(Other(s)).said,
         peer[s].suppressed => n.suppressed, peer[s].said \subseteq n.said,
         NEW msgs \in Seq(Messages), \A i \in 1..Len(msgs) : msgs[i].type # "OPEN" /\ Right(msgs[i], View(s)', View(Other(s))),
         peer' = [peer EXCEPT ![s] = n],
         wire' = [wire EXCEPT ![s] = <<>>, ![Other(s)] = Sent(peer[Other(s)].phase, wire[Other(s)], msgs)]
  PROVE  Inv'
<1>. DEFINE t == Other(s)
<1>0. t \in Speakers /\ t # s /\ Other(t) = s
  BY Two, Zenon
<1>1. peer \in [Speakers -> Peers] /\ wire \in [Speakers -> Seq(Messages)] /\ Sound(t) /\ Sound(s)
  BY <1>0, Zenon DEF Inv, Types
<1>2. \A i \in 1..Len(msgs) : msgs[i].type # "OPEN" /\ Right(msgs[i], View(s)', View(t))
  BY Zenon
<1>3. n.heard \subseteq View(t).said
  BY SMTT(60), Zenon
<1>4. wire' = [wire EXCEPT ![s] = <<>>, ![t] = Sent(peer[t].phase, wire[t], msgs)]
  BY SMTT(60), Zenon
<1>. HIDE DEF t
<1>5. peer'[t] = peer[t] /\ wire'[t] = Sent(peer[t].phase, wire[t], msgs) /\ wire'[s] = <<>> /\ peer'[s] = n
  BY <1>0, <1>1, <1>4, Zenon
<1>6. PICK S, v, w, x : S = Messages /\ v = View(s) /\ w = View(t) /\ x = View(s)'
  OBVIOUS
<1>7. Grown(v, x) /\ View(t)' = w
  BY <1>0, <1>5, <1>6, ViewsGrow, ZenonT(60)
<1>8. PICK r, k : r = peer[t] /\ k = wire[t]
  BY Zenon
<1>9. k \in Seq(S) /\ SoundPeer(r, k, w, v) /\ msgs \in Seq(S)
  BY <1>0, <1>1, <1>6, <1>8 DEF Sound
<1>10. n.heard \subseteq w.said /\ \A i \in 1..Len(msgs) : msgs[i].type # "OPEN" /\ Right(msgs[i], x, w)
  BY <1>2, <1>3, <1>6, Zenon
<1>11. SoundPeer(n, <<>>, x, w) /\ SoundPeer(r, Sent(r.phase, k, msgs), w, x)
  BY <1>7, <1>9, <1>10, Ends, Zenon
<1>12. Sound(s)' /\ Sound(t)'
  BY <1>0, <1>5, <1>6, <1>7, <1>8, <1>11, Zenon DEF Sound, t
<1>13. peer' \in [Speakers -> Peers]
  BY <1>1, Zenon
<1>14. Sent(r.phase, k, msgs) \in Seq(S) /\ <<>> \in Seq(S)
  BY <1>9 DEF Sent
<1>15. wire' \in [Speakers -> Seq(Messages)]
  BY <1>0, <1>1, <1>4, <1>6, <1>8, <1>14, ZenonT(60)
<1>. QED
  BY <1>12, <1>13, <1>15, Keeps, Zenon DEF t

\* So does one that takes its first message, and answers.
LEMMA TakeKeeps ==
  ASSUME Inv, NEW s \in Speakers, UNCHANGED <<setup, old>>, events' \in 0 .. setup.max_events, wire[s] # <<>>,
         NEW n \in Peers, n.phase \in {"OpenConfirm", "Established"}, n.heard \subseteq View(Other(s)).said,
         Judged(View(s), n, View(Other(s))), n.phase = "Established" => Accepted(View(Other(s)), View(s)),
         n.suppressed = peer[s].suppressed, n.said = peer[s].said,
         NEW msgs \in Seq(Messages), \A i \in 1..Len(msgs) : msgs[i].type # "OPEN" /\ Right(msgs[i], View(s), View(Other(s))),
         peer' = [peer EXCEPT ![s] = n],
         wire' = [wire EXCEPT ![s] = Tail(wire[s]), ![Other(s)] = Sent(peer[Other(s)].phase, wire[Other(s)], msgs)]
  PROVE  Inv'
<1>. DEFINE t == Other(s)
<1>0. t \in Speakers /\ t # s /\ Other(t) = s
  BY Two, Zenon
<1>1. peer \in [Speakers -> Peers] /\ wire \in [Speakers -> Seq(Messages)] /\ Sound(t) /\ Sound(s)
  BY <1>0, ZenonT(60) DEF Inv, Types
<1>2. PICK S, v, w : S = Messages /\ v = View(s) /\ w = View(t)
  OBVIOUS
<1>3. /\ \A i \in 1..Len(msgs) : msgs[i].type # "OPEN" /\ Right(msgs[i], v, w)
      /\ n.heard \subseteq w.said /\ Judged(v, n, w) /\ (n.phase = "Established" => Accepted(w, v))
  BY <1>2, Zenon
<1>4. wire' = [wire EXCEPT ![s] = Tail(wire[s]), ![t] = Sent(peer[t].phase, wire[t], msgs)]
  OBVIOUS
<1>. HIDE DEF t
<1>5. peer'[t] = peer[t] /\ wire'[t] = Sent(peer[t].phase, wire[t], msgs) /\ wire'[s] = Tail(wire[s]) /\ peer'[s] = n
  BY <1>0, <1>1, <1>4, Zenon
<1>6. View(s)' = v /\ View(t)' = w
  BY <1>0, <1>2, <1>5, ViewsGrow, ZenonT(60)
<1>7. PICK q, r, k, phase : q = wire[s] /\ r = peer[t] /\ k = wire[t] /\ phase = peer[s].phase
  BY Zenon
<1>8. k \in Seq(S) /\ q \in Seq(S) /\ q # <<>> /\ SoundPeer(r, k, w, v) /\ msgs \in Seq(S)
  BY <1>0, <1>1, <1>2, <1>7, Zenon DEF Sound
<1>9. Queue(q, phase, w, v)
  BY <1>1, <1>2, <1>7, Zenon DEF Sound, SoundPeer, t
<1>10. SoundPeer(n, Tail(q), v, w) /\ SoundPeer(r, Sent(r.phase, k, msgs), w, v)
  <2>0. PICK after \in {"OpenConfirm", "Established"} : after = n.phase
    BY Zenon
  <2>1. SoundPeer(n, Tail(q), v, w)
    <3>1. Queue(Tail(q), after, w, v)
      BY <1>8, <1>9, QueueTail, Zenon
    <3>. QED
      BY <1>3, <2>0, <3>1, Zenon DEF SoundPeer
  <2>2. SoundPeer(r, Sent(r.phase, k, msgs), w, v)
    BY <1>3, <1>8, Answers, Zenon
  <2>. QED
    BY <2>1, <2>2
<1>11. Sound(s)' /\ Sound(t)'
  BY <1>0, <1>5, <1>6, <1>7, <1>10, Zenon DEF Sound, t
<1>12. peer' \in [Speakers -> Peers]
  BY <1>1, ZenonT(60)
<1>13. Sent(r.phase, k, msgs) \in Seq(S) /\ <<>> \in Seq(S) /\ Tail(q) \in Seq(S)
  BY <1>8 DEF Sent
<1>14. wire' \in [Speakers -> Seq(Messages)]
  BY <1>0, <1>1, <1>2, <1>4, <1>7, <1>13, ZenonT(60)
<1>. QED
  BY <1>11, <1>12, <1>14, Keeps, Zenon DEF t

\* send_notification and disconnect keep the invariant.
LEMMA RefuseKeeps ==
  ASSUME Inv, NEW s \in Speakers, UNCHANGED <<setup, old>>, NEW e \in Meanings, Refuse(s, e),
         events' \in 0 .. setup.max_events
  PROVE  Inv'
<1>. DEFINE t == Other(s)
<1>0. t \in Speakers /\ t # s /\ Other(t) = s
  BY Two, Zenon
<1>1. peer \in [Speakers -> Peers] /\ wire \in [Speakers -> Seq(Messages)] /\ Sound(s)
  BY <1>0 DEF Inv, Types
<1>2. PICK msgs : msgs = <<NotificationMessage(e), Closed>>
  BY Zenon
<1>3. PICK n : n = [peer[s] EXCEPT !.phase = "Idle", !.said = peer[s].said \cup {e}]
  OBVIOUS
<1>4. /\ peer' = [peer EXCEPT ![s] = n]
      /\ wire' = [wire EXCEPT ![s] = <<>>, ![t] = Sent(peer[t].phase, wire[t], msgs)]
  BY <1>0, <1>1, <1>2, <1>3, Zenon DEF Refuse, Sent, Up
<1>5. PICK p \in Peers : p = peer[s]
  BY <1>1
<1>6. n \in Peers /\ n.phase = "Idle" /\ n.said = p.said \cup {e} /\ n.heard = p.heard /\ n.suppressed = p.suppressed
  BY <1>3, <1>5, Zenon DEF Peers, Phases
<1>7. n.heard \subseteq View(t).said
  BY <1>1, <1>5, <1>6, Zenon DEF Sound, SoundPeer
<1>8. PICK w, x : w = View(t) /\ x = View(s)'
  OBVIOUS
<1>9. x.said = n.said
  BY <1>1, <1>4, <1>8, ViewsGrow, Zenon
<1>10. msgs \in Seq(Messages) /\ \A i \in 1..Len(msgs) : msgs[i].type # "OPEN" /\ Right(msgs[i], x, w)
  <2>1. e \in x.said
    BY <1>6, <1>9, Zenon
  <2>2. /\ NotificationMessage(e) \in Messages /\ NotificationMessage(e).type = "NOTIFICATION"
        /\ Right(NotificationMessage(e), x, w)
        /\ Closed \in Messages /\ Closed.type = "CLOSED" /\ Right(Closed, x, w)
    BY <2>1, OwnMessages, Zenon
  <2>3. PICK a, b : a = NotificationMessage(e) /\ b = Closed
    OBVIOUS
  <2>4. msgs = <<a, b>> /\ a \in Messages /\ b \in Messages
    BY <1>2, <2>2, <2>3, Zenon
  <2>5. msgs \in Seq(Messages) /\ Len(msgs) = 2 /\ msgs[1] = a /\ msgs[2] = b
    BY <2>4
  <2>6. \A i \in 1..2 : i = 1 \/ i = 2
    OBVIOUS
  <2>. QED
    BY <2>2, <2>3, <2>5, <2>6, Zenon
<1>11. \A i \in 1..Len(msgs) : msgs[i].type # "OPEN" /\ Right(msgs[i], View(s)', View(t))
  BY <1>8, <1>10, Zenon
<1>12. (peer[s].suppressed => n.suppressed) /\ peer[s].said \subseteq n.said
  BY <1>5, <1>6, Zenon
<1>. QED
  BY <1>4, <1>6, <1>7, <1>10, <1>11, <1>12, EndKeeps, Zenon

\* What a speaker is when it has taken an OPEN.
LEMMA Taken ==
  ASSUME NEW c \in Configs, NEW d \in Configs, NEW params \in Packings(d) \cup {<<>>}, Accepts(c, d, params),
         NEW p \in Peers, Kept(c, extract_capabilities(params)) \in CapSets, NEW o, o = OpenBody(d, params),
         NEW n, n = Negotiated(p, c, o, open_from_bytes(o).asn, extract_capabilities(params))
  PROVE  /\ n \in Peers /\ Outcome(n, c, d, params) /\ n.phase = "OpenConfirm"
         /\ n.heard = p.heard /\ n.said = p.said /\ n.suppressed = p.suppressed
<1>1. open_from_bytes(o).asn = d.asn
  BY Accepting, Zenon
<1>2. PICK caps, a : caps = extract_capabilities(params) /\ a = Kept(c, caps)
  OBVIOUS
<1>3. PICK hold, wins, ebgp : /\ hold = (IF c.hold < o.hold THEN c.hold ELSE o.hold) /\ ebgp = (d.asn # c.asn)
                              /\ wins = Some(local_wins_collision(c, o, d.asn))
  BY Zenon
<1>4. c.hold \in Nat /\ d.hold \in Nat /\ c.id \in Nat /\ d.id \in Nat /\ c.asn \in Nat /\ d.asn \in Nat
  BY FamsType, Zenon
<1>5. o.hold = d.hold /\ o.id = d.id /\ o.params = params
  BY DEF OpenBody
<1>6. hold \in Nat /\ ebgp \in BOOLEAN
  BY <1>3, <1>4, <1>5, Zenon
<1>7. wins \in {None, Some(TRUE), Some(FALSE)}
  <2>1. caps.four = None \/ caps.four = Some(d.asn)
    <3>1. CASE params = <<>>
      BY <1>2, <3>1, ExtractedNone, SMTT(60) DEF NoCapabilities
    <3>2. CASE params \in Packings(d)
      BY <1>2, <3>2, ReadsAs DEF Announced
    <3>. QED
      BY <3>1, <3>2, Zenon
  <2>2. PICK remote : remote = IF caps.four = None THEN d.asn ELSE caps.four[1]
    BY Zenon
  <2>3. remote \in Nat
    BY <1>4, <2>1, <2>2, Options, ZenonT(60)
  <2>4. (c.id > d.id) \in BOOLEAN /\ (c.asn > remote) \in BOOLEAN
    BY <1>4, <2>3
  <2>5. local_wins_collision(c, o, d.asn) = IF c.id # d.id THEN c.id > d.id ELSE c.asn > remote
    BY <1>2, <1>5, <2>2, Zenon DEF local_wins_collision
  <2>6. local_wins_collision(c, o, d.asn) \in {TRUE, FALSE}
    BY <2>4, <2>5, Zenon
  <2>. QED
    BY <1>3, <2>6, Zenon
<1>8. n = [p EXCEPT !.phase = "OpenConfirm", !.ebgp = ebgp, !.caps = a, !.hold = hold, !.wins = wins]
  BY <1>1, <1>2, <1>3, Zenon DEF Negotiated, Kept
<1>9. /\ n \in Peers /\ n.phase = "OpenConfirm" /\ n.heard = p.heard /\ n.said = p.said /\ n.suppressed = p.suppressed
      /\ n.ebgp = ebgp /\ n.caps = a /\ n.hold = hold /\ n.wins = wins
  <2>1. a \in CapSets
    BY <1>2, Zenon
  <2>2. "OpenConfirm" \in Phases
    BY DEF Phases
  <2>. QED
    BY <1>6, <1>7, <1>8, <2>1, <2>2, ZenonT(60) DEF Peers
<1>10. Outcome(n, c, d, params)
  BY <1>1, <1>2, <1>3, <1>9, Zenon DEF Outcome
<1>. QED
  BY <1>9, <1>10, Zenon

LEMMA ReceiveOpenKeeps ==
  ASSUME Inv, NEW s \in Speakers, ReceiveOpen(s)
  PROVE  Inv'
<1>. DEFINE t == Other(s)
<1>0. t \in Speakers /\ t # s /\ Other(t) = s
  BY Two, Zenon
<1>1. /\ Up(s) /\ wire[s] # <<>> /\ wire[s][1].type = "OPEN" /\ read_bgp_message_bytes(wire[s][1]) = None
      /\ UNCHANGED <<setup, old, damaged, events>>
  BY Zenon DEF ReceiveOpen, Readable
<1>2. PICK m, o : m = wire[s][1] /\ o = wire[s][1].body
  OBVIOUS
<1>3. /\ setup \in Setups /\ peer \in [Speakers -> Peers] /\ wire \in [Speakers -> Seq(Messages)]
      /\ events \in 0 .. setup.max_events /\ Sound(s)
  BY Zenon DEF Inv, Types
<1>4. events' \in 0 .. setup.max_events
  BY <1>1, <1>3, Zenon
<1>5. CASE Refusal(s, o) # None
  <2>1. PICK e : e = Refusal(s, o)[1]
    OBVIOUS
  <2>2. e \in Refused
    <3>1. CASE Old(s)
      <4>1. Refusal(s, o) = Some(OpenError("UnsupportedOptionalParameter"))
        BY <1>5, <3>1, Zenon DEF Refusal
      <4>2. e = OpenError("UnsupportedOptionalParameter")
        BY <2>1, <4>1, Options, Zenon
      <4>. QED
        BY <4>2, Zenon DEF Refused
    <3>2. CASE ~Old(s) /\ open_from_bytes(o).error # None
      BY <2>1, <3>2, WhyRefused, Zenon DEF Refusal
    <3>3. CASE ~Old(s) /\ open_from_bytes(o).error = None
      BY <1>5, <2>1, <3>3, WhyRefused, ZenonT(60) DEF Refusal
    <3>. QED
      BY <3>1, <3>2, <3>3, Zenon
  <2>3. e \in Meanings
    BY <2>2 DEF Meanings
  <2>4. Refuse(s, e)
    BY <1>2, <1>5, <2>1 DEF ReceiveOpen
  <2>. QED
    BY <1>1, <1>4, <2>3, <2>4, RefuseKeeps, Zenon
<1>6. CASE Refusal(s, o) = None
  <2>1. PICK p \in Peers : p = peer[s]
    BY <1>3
  <2>2. PICK n : n = IF Old(s) THEN [p EXCEPT !.phase = "OpenConfirm", !.caps = NoCapabilities]
                     ELSE Negotiated(p, cfg[s], o, open_from_bytes(o).asn, extract_capabilities(o.params))
    OBVIOUS
  <2>3. PICK msgs : msgs = <<KeepaliveMessage>>
    BY Zenon
  <2>4. /\ peer' = [peer EXCEPT ![s] = n]
        /\ wire' = [wire EXCEPT ![s] = Tail(wire[s]), ![t] = Sent(peer[t].phase, wire[t], msgs)]
    <3>1. /\ peer' = [peer EXCEPT ![s] = IF Old(s) THEN [peer[s] EXCEPT !.phase = "OpenConfirm", !.caps = NoCapabilities]
                                ELSE Negotiated(peer[s], cfg[s], o, open_from_bytes(o).asn, extract_capabilities(o.params))]
          /\ wire' = Took(s, <<KeepaliveMessage>>)
      BY <1>2, <1>6 DEF ReceiveOpen
    <3>2. peer' = [peer EXCEPT ![s] = n]
      BY <2>1, <2>2, <3>1, Zenon
    <3>3. wire' = [wire EXCEPT ![s] = Tail(wire[s]), ![t] = Sent(peer[t].phase, wire[t], msgs)]
      BY <1>0, <1>3, <2>3, <3>1, Zenon DEF Took, Sent, Up
    <3>. QED
      BY <3>2, <3>3, Zenon
  <2>5. PICK v, w : v = View(s) /\ w = View(t)
    OBVIOUS
  <2>6. /\ m \in Messages /\ Right(m, w, v) /\ m.type = "OPEN" /\ m.body = o /\ read_bgp_message_bytes(m) = None
        /\ v.old = Old(s) /\ v.c = cfg[s] /\ w.c = cfg[t]
    BY <1>0, <1>1, <1>2, <2>5, FirstMessage, ViewsGrow, Zenon
  <2>7. m \in Opens /\ o \in Bodies
    BY <2>6, MessageShape, Zenon DEF Opens
  <2>8. o.params \in ParamLists /\ o.version \in Nat /\ o.fits \in BOOLEAN /\ o.tlvs \in BOOLEAN
    BY <2>7, Zenon DEF Bodies
  <2>9. p.heard \subseteq w.said
    BY <1>3, <2>1, <2>5, Zenon DEF Sound, SoundPeer
  <2>10. /\ n \in Peers /\ n.phase = "OpenConfirm" /\ n.heard = p.heard /\ n.said = p.said /\ n.suppressed = p.suppressed
         /\ Judged(v, n, w) /\ Accepted(v, w)
    <3>1. CASE Old(s)
      <4>1. n = [p EXCEPT !.phase = "OpenConfirm", !.caps = NoCapabilities]
        BY <2>2, <3>1, Zenon
      <4>2. NoCapabilities \in CapSets /\ "OpenConfirm" \in Phases
        BY DEF CapSets, Phases
      <4>3. n \in Peers /\ n.phase = "OpenConfirm" /\ n.heard = p.heard /\ n.said = p.said /\ n.suppressed = p.suppressed
        BY <4>1, <4>2, Zenon DEF Peers
      <4>. QED
        BY <2>6, <3>1, <4>3, Zenon DEF Judged, Accepted
    <3>2. CASE ~Old(s)
      <4>1. PICK c \in Configs, d \in Configs : c = cfg[s] /\ d = cfg[t]
        BY <1>0, <1>3, Configured, Zenon
      <4>2. open_from_bytes(o).error = None /\ Objection(c, o, open_from_bytes(o).asn, extract_capabilities(o.params)) = None
        BY <1>6, <3>2, <4>1, Zenon DEF Refusal
      <4>3. ~SpoiledBody(o)
        BY <2>8, <4>2, OpenRead, Zenon
      <4>4. Faithful(m, w, v)
        BY <2>6, <4>3, ReadFaithful, Zenon
      <4>5. PICK params \in Advertised(w) : o = OpenBody(d, params)
        BY <2>6, <4>1, <4>4, Zenon DEF Faithful
      <4>6. o.params = params
        BY <4>5, Zenon DEF OpenBody
      <4>7. params \in Packings(d) \cup {<<>>}
        BY <2>6, <4>1, <4>5, Zenon DEF Advertised
      <4>8. Accepts(c, d, params)
        BY <4>2, <4>5, <4>6, Zenon DEF Accepts
      <4>9. Kept(c, extract_capabilities(params)) \in CapSets
        BY <2>8, <4>1, <4>6 DEF CapSets
      <4>10. n = Negotiated(p, c, o, open_from_bytes(o).asn, extract_capabilities(params))
        BY <2>2, <3>2, <4>1, <4>6, Zenon
      <4>11. /\ n \in Peers /\ Outcome(n, c, d, params) /\ n.phase = "OpenConfirm"
             /\ n.heard = p.heard /\ n.said = p.said /\ n.suppressed = p.suppressed
        BY <4>5, <4>7, <4>8, <4>9, <4>10, Taken, SMTT(60)
      <4>12. Judged(v, n, w) /\ Accepted(v, w)
        BY <2>6, <4>1, <4>5, <4>8, <4>11, Zenon DEF Judged, Accepted
      <4>. QED
        BY <4>11, <4>12, Zenon
    <3>. QED
      BY <3>1, <3>2
  <2>11. msgs \in Seq(Messages) /\ \A i \in 1..Len(msgs) : msgs[i].type # "OPEN" /\ Right(msgs[i], v, w)
    <3>1. KeepaliveMessage \in Messages /\ KeepaliveMessage.type = "KEEPALIVE" /\ Right(KeepaliveMessage, v, w)
      BY <2>10, OwnMessages, Zenon
    <3>2. PICK a : a = KeepaliveMessage
      OBVIOUS
    <3>3. msgs = <<a>> /\ a \in Messages /\ a.type # "OPEN" /\ Right(a, v, w)
      BY <2>3, <3>1, <3>2, Zenon
    <3>4. msgs \in Seq(Messages) /\ Len(msgs) = 1 /\ msgs[1] = a
      BY <3>3, SMTT(60)
    <3>. QED
      BY <3>3, <3>4
  <2>12. /\ n.heard \subseteq View(t).said /\ Judged(View(s), n, View(t)) /\ n.phase \in {"OpenConfirm", "Established"}
         /\ n.phase = "Established" => Accepted(View(t), View(s))
         /\ \A i \in 1..Len(msgs) : msgs[i].type # "OPEN" /\ Right(msgs[i], View(s), View(t))
         /\ n.suppressed = peer[s].suppressed /\ n.said = peer[s].said
    BY <2>1, <2>5, <2>9, <2>10, <2>11, ZenonT(60)
  <2>. QED
    BY <1>1, <1>4, <2>4, <2>10, <2>11, <2>12, TakeKeeps, Zenon
<1>. QED
  BY <1>5, <1>6

LEMMA ReceiveKeepaliveKeeps ==
  ASSUME Inv, NEW s \in Speakers, ReceiveKeepalive(s)
  PROVE  Inv'
<1>. DEFINE t == Other(s)
<1>0. t \in Speakers /\ t # s /\ Other(t) = s
  BY Two, Zenon
<1>1. /\ Up(s) /\ wire[s] # <<>> /\ wire[s][1].type = "KEEPALIVE" /\ read_bgp_message_bytes(wire[s][1]) = None
      /\ UNCHANGED <<setup, old, damaged, events>>
  BY DEF ReceiveKeepalive, Readable
<1>2. /\ peer \in [Speakers -> Peers] /\ wire \in [Speakers -> Seq(Messages)]
      /\ events \in 0 .. setup.max_events /\ Sound(s)
  BY DEF Inv, Types
<1>3. PICK p \in Peers : p = peer[s]
  BY <1>2
<1>4. PICK n, msgs : n = [p EXCEPT !.phase = "Established"] /\ msgs = <<>>
  BY Zenon
<1>5. /\ peer' = [peer EXCEPT ![s] = n]
      /\ wire' = [wire EXCEPT ![s] = Tail(wire[s]), ![t] = Sent(peer[t].phase, wire[t], msgs)]
  BY <1>0, <1>2, <1>3, <1>4, Zenon DEF ReceiveKeepalive, Took, Sent, Up
<1>6. PICK m, v, w : m = wire[s][1] /\ v = View(s) /\ w = View(t)
  BY SMTT(60), Zenon
<1>7. Right(m, w, v) /\ m.type = "KEEPALIVE" /\ read_bgp_message_bytes(m) = None /\ p.phase \in {"OpenConfirm", "Established"}
  BY <1>1, <1>3, <1>6, FirstMessage, Zenon
<1>8. Accepted(w, v)
  <2>1. Faithful(m, w, v)
    BY <1>7, ReadFaithful
  <2>. QED
    BY <1>7, <2>1, Zenon DEF Faithful
<1>9. Judged(v, p, w) /\ p.heard \subseteq w.said
  BY <1>2, <1>3, <1>6, <1>7, Zenon DEF Sound, SoundPeer
<1>10. /\ n \in Peers /\ n.phase = "Established" /\ n.heard = p.heard /\ n.said = p.said /\ n.suppressed = p.suppressed
       /\ n.caps = p.caps /\ n.ebgp = p.ebgp /\ n.hold = p.hold /\ n.wins = p.wins
  BY <1>4, Zenon DEF Peers, Phases
<1>11. Judged(v, n, w)
  BY <1>9, <1>10, Zenon DEF Judged, Outcome
<1>12. /\ n.heard \subseteq View(t).said /\ Judged(View(s), n, View(t)) /\ n.phase \in {"OpenConfirm", "Established"}
       /\ n.phase = "Established" => Accepted(View(t), View(s))
       /\ n.suppressed = peer[s].suppressed /\ n.said = peer[s].said
  BY <1>3, <1>6, <1>8, <1>9, <1>10, <1>11, Zenon
<1>13. msgs \in Seq(Messages) /\ \A i \in 1..Len(msgs) : msgs[i].type # "OPEN" /\ Right(msgs[i], View(s), View(t))
  BY <1>4
<1>14. events' \in 0 .. setup.max_events
  BY <1>1, <1>2, Zenon
<1>. QED
  BY <1>1, <1>5, <1>10, <1>12, <1>13, <1>14, TakeKeeps, Zenon

LEMMA ReceiveRouteRefreshKeeps ==
  ASSUME Inv, NEW s \in Speakers, ReceiveRouteRefresh(s)
  PROVE  Inv'
<1>. DEFINE t == Other(s)
<1>0. t \in Speakers /\ t # s /\ Other(t) = s
  BY Two, Zenon
<1>1. /\ Up(s) /\ wire[s] # <<>> /\ wire[s][1].type = "ROUTE_REFRESH" /\ read_bgp_message_bytes(wire[s][1]) = None
      /\ UNCHANGED <<setup, old, damaged, events>>
  BY SMTT(60), Zenon DEF ReceiveRouteRefresh, Readable
<1>2. /\ peer \in [Speakers -> Peers] /\ wire \in [Speakers -> Seq(Messages)]
      /\ events \in 0 .. setup.max_events /\ Sound(s)
  BY DEF Inv, Types
<1>3. events' \in 0 .. setup.max_events
  BY <1>1, <1>2, Zenon
<1>4. PICK m, enhanced : m = wire[s][1] /\ enhanced = peer[s].caps.err
  OBVIOUS
<1>5. PICK read : read = route_refresh_from_bytes(m, enhanced)
  BY Zenon
<1>6. CASE read.error # None
  <2>1. PICK e : e = read.error[1]
    OBVIOUS
  <2>2. e \in Meanings
    BY <1>5, <1>6, <2>1, RefreshRead, Zenon
  <2>3. Refuse(s, e)
    BY <1>4, <1>5, <1>6, <2>1, Zenon DEF ReceiveRouteRefresh
  <2>. QED
    BY <1>1, <1>3, <2>2, <2>3, RefuseKeeps, Zenon
<1>7. CASE read.error = None
  <2>1. PICK p \in Peers : p = peer[s]
    BY <1>2
  <2>2. PICK n, msgs : n = [p EXCEPT !.heard = p.heard \cup {read.refresh}] /\ msgs = <<>>
    BY Zenon
  <2>3. peer' = [peer EXCEPT ![s].heard = @ \cup {read.refresh}] /\ wire' = Took(s, <<>>)
    BY <1>4, <1>5, <1>7, Zenon DEF ReceiveRouteRefresh
  <2>4. /\ peer' = [peer EXCEPT ![s] = n]
        /\ wire' = [wire EXCEPT ![s] = Tail(wire[s]), ![t] = Sent(peer[t].phase, wire[t], msgs)]
    BY <1>0, <1>2, <2>1, <2>2, <2>3, Zenon DEF Took, Sent, Up
  <2>5. PICK v, w : v = View(s) /\ w = View(t)
    OBVIOUS
  <2>6. /\ Right(m, w, v) /\ m.type = "ROUTE_REFRESH" /\ read_bgp_message_bytes(m) = None
        /\ p.phase \in {"OpenConfirm", "Established"} /\ w.said = peer[t].said
    BY <1>0, <1>1, <1>4, <2>1, <2>5, FirstMessage, ViewsGrow, Zenon
  <2>7. read.refresh \in w.said
    <3>1. /\ m.len = HEADER + 4 /\ Known(Refreshed(m)) /\ read.refresh = Meant(SubtypeFrom(m.body[2]), "-", Refreshed(m))
      BY <1>5, <1>7, RefreshRead, ZenonT(60)
    <3>2. Faithful(m, w, v)
      BY <2>6, <3>1, ReadFaithful, Zenon
    <3>. QED
      BY <2>6, <3>1, <3>2, Zenon DEF Faithful
  <2>8. Judged(v, p, w) /\ p.heard \subseteq w.said /\ (p.phase = "Established" => Accepted(w, v))
    BY <1>2, <2>1, <2>5, <2>6, Zenon DEF Sound, SoundPeer
  <2>9. w.said \subseteq Meanings \cup Refreshes
    BY <1>0, <1>2, <2>6, Zenon DEF Peers
  <2>10. /\ n \in Peers /\ n.phase = p.phase /\ n.heard = p.heard \cup {read.refresh} /\ n.said = p.said
         /\ n.suppressed = p.suppressed
         /\ n.caps = p.caps /\ n.ebgp = p.ebgp /\ n.hold = p.hold /\ n.wins = p.wins
    BY <2>2, <2>7, <2>9, Zenon DEF Peers
  <2>11. Judged(v, n, w)
    BY <2>8, <2>10, Zenon DEF Judged, Outcome
  <2>12. /\ n.heard \subseteq View(t).said /\ Judged(View(s), n, View(t)) /\ n.phase \in {"OpenConfirm", "Established"}
         /\ n.phase = "Established" => Accepted(View(t), View(s))
         /\ n.suppressed = peer[s].suppressed /\ n.said = peer[s].said
    BY <2>1, <2>5, <2>6, <2>7, <2>8, <2>10, <2>11, Zenon
  <2>13. msgs \in Seq(Messages) /\ \A i \in 1..Len(msgs) : msgs[i].type # "OPEN" /\ Right(msgs[i], View(s), View(t))
    BY <2>2
  <2>. QED
    BY <1>1, <1>3, <2>4, <2>10, <2>12, <2>13, TakeKeeps, Zenon
<1>. QED
  BY <1>6, <1>7, Zenon

\* The last message of a speaker that reads no more.
LEMMA LastClosed ==
  ASSUME NEW x, NEW w
  PROVE  <<Closed>> \in Seq(Messages) /\ \A i \in 1..Len(<<Closed>>) : <<Closed>>[i].type # "OPEN" /\ Right(<<Closed>>[i], x, w)
<1>1. Closed \in Messages /\ Closed.type = "CLOSED" /\ Right(Closed, x, w)
  BY OwnMessages, Zenon
<1>2. PICK a : a = Closed
  OBVIOUS
<1>3. <<a>> \in Seq(Messages) /\ Len(<<a>>) = 1 /\ <<a>>[1] = a
  BY <1>1, <1>2
<1>4. \A i \in 1..Len(<<a>>) : <<a>>[i] = a
  BY <1>3
<1>. QED
  BY <1>1, <1>2, <1>3, <1>4, Zenon

LEMMA ReceiveNotificationKeeps ==
  ASSUME Inv, NEW s \in Speakers, ReceiveNotification(s)
  PROVE  Inv'
<1>. DEFINE t == Other(s)
<1>0. t \in Speakers /\ t # s /\ Other(t) = s
  BY Two, Zenon
<1>1. /\ Up(s) /\ wire[s] # <<>> /\ wire[s][1].type = "NOTIFICATION" /\ read_bgp_message_bytes(wire[s][1]) = None
      /\ UNCHANGED <<setup, old, damaged, events>>
  BY Zenon DEF ReceiveNotification, Readable
<1>2. /\ peer \in [Speakers -> Peers] /\ wire \in [Speakers -> Seq(Messages)]
      /\ events \in 0 .. setup.max_events /\ Sound(s)
  BY DEF Inv, Types
<1>3. events' \in 0 .. setup.max_events
  BY <1>1, <1>2, Zenon
<1>4. PICK p \in Peers : p = peer[s]
  BY <1>2
<1>5. PICK m, e : m = wire[s][1] /\ e = notification_from_bytes(wire[s][1].body)
  OBVIOUS
<1>6. PICK n, msgs : n = [track_received_message(p, e) EXCEPT !.phase = "Idle"] /\ msgs = <<Closed>>
  BY Zenon
<1>7. peer' = [peer EXCEPT ![s] = n]
  BY <1>4, <1>5, <1>6 DEF ReceiveNotification
<1>8. wire' = [wire EXCEPT ![s] = <<>>, ![t] = Sent(peer[t].phase, wire[t], msgs)]
  BY <1>0, <1>2, <1>6, Zenon DEF ReceiveNotification, Took, Sent, Up
<1>9. PICK w, v : w = View(t) /\ v = View(s)
  OBVIOUS
<1>10. Right(m, w, v) /\ m.type = "NOTIFICATION" /\ read_bgp_message_bytes(m) = None /\ w.said = peer[t].said
  BY <1>0, <1>1, <1>5, <1>9, FirstMessage, ViewsGrow, Zenon
<1>11. e \in w.said
  <2>1. Faithful(m, w, v)
    BY <1>10, ReadFaithful
  <2>. QED
    BY <1>5, <1>10, <2>1, Zenon DEF Faithful
<1>12. w.said \subseteq Meanings \cup Refreshes
  BY <1>0, <1>2, <1>10, Zenon DEF Peers
<1>13. p.heard \subseteq w.said
  BY <1>2, <1>4, <1>9, Zenon DEF Sound, SoundPeer
<1>14. PICK b \in BOOLEAN : b = (p.suppressed \/ e = OpenError("UnsupportedOptionalParameter"))
  BY Zenon
<1>15. n = [p EXCEPT !.heard = p.heard \cup {e}, !.suppressed = b, !.phase = "Idle"]
  BY <1>6, <1>14, Zenon DEF track_received_message
<1>16. /\ n \in Peers /\ n.phase = "Idle" /\ n.heard = p.heard \cup {e} /\ n.said = p.said /\ n.suppressed = b
  BY <1>11, <1>12, <1>15, Zenon DEF Peers, Phases
<1>17. /\ n.heard \subseteq View(t).said /\ (peer[s].suppressed => n.suppressed) /\ peer[s].said \subseteq n.said
  BY <1>4, <1>9, <1>11, <1>13, <1>14, <1>16, Zenon
<1>18. PICK x : x = View(s)'
  OBVIOUS
<1>19. msgs \in Seq(Messages) /\ \A i \in 1..Len(msgs) : msgs[i].type # "OPEN" /\ Right(msgs[i], View(s)', View(t))
  BY <1>6, <1>9, <1>18, LastClosed, Zenon
<1>. QED
  BY <1>1, <1>3, <1>7, <1>8, <1>16, <1>17, <1>19, EndKeeps, Zenon

LEMMA ReceiveClosedKeeps ==
  ASSUME Inv, NEW s \in Speakers, ReceiveClosed(s)
  PROVE  Inv'
<1>. DEFINE t == Other(s)
<1>0. t \in Speakers /\ t # s /\ Other(t) = s
  BY Two, Zenon
<1>1. UNCHANGED <<setup, old, damaged, events>>
  BY DEF ReceiveClosed
<1>2. /\ peer \in [Speakers -> Peers] /\ wire \in [Speakers -> Seq(Messages)]
      /\ events \in 0 .. setup.max_events /\ Sound(s)
  BY DEF Inv, Types
<1>3. events' \in 0 .. setup.max_events
  BY <1>1, <1>2
<1>4. PICK p \in Peers : p = peer[s]
  BY <1>2
<1>5. PICK n, msgs : n = [p EXCEPT !.phase = "Idle"] /\ msgs = <<Closed>>
  BY Zenon
<1>6. peer' = [peer EXCEPT ![s] = n]
  BY <1>4, <1>5 DEF ReceiveClosed
<1>7. wire' = [wire EXCEPT ![s] = <<>>, ![t] = Sent(peer[t].phase, wire[t], msgs)]
  BY <1>0, <1>2, <1>5, Zenon DEF ReceiveClosed, Took, Sent, Up
<1>8. PICK w, x : w = View(t) /\ x = View(s)'
  BY SMTT(60), Zenon
<1>9. p.heard \subseteq w.said
  BY <1>2, <1>4, <1>8, Zenon DEF Sound, SoundPeer
<1>10. /\ n \in Peers /\ n.phase = "Idle" /\ n.heard = p.heard /\ n.said = p.said /\ n.suppressed = p.suppressed
  BY <1>5, Zenon DEF Peers, Phases
<1>11. /\ n.heard \subseteq View(t).said /\ (peer[s].suppressed => n.suppressed) /\ peer[s].said \subseteq n.said
  BY <1>4, <1>8, <1>9, <1>10, Zenon
<1>12. msgs \in Seq(Messages) /\ \A i \in 1..Len(msgs) : msgs[i].type # "OPEN" /\ Right(msgs[i], View(s)', View(t))
  BY <1>5, <1>8, LastClosed, Zenon
<1>. QED
  BY <1>1, <1>3, <1>6, <1>7, <1>10, <1>11, <1>12, EndKeeps, Zenon

LEMMA ReceiveBadHeaderKeeps ==
  ASSUME Inv, NEW s \in Speakers, ReceiveBadHeader(s)
  PROVE  Inv'
<1>1. PICK m : m = wire[s][1]
  OBVIOUS
<1>2. PICK e : e = read_bgp_message_bytes(m)[1]
  BY Zenon
<1>3. UNCHANGED <<setup, old, damaged, events>> /\ Refuse(s, e) /\ read_bgp_message_bytes(m) # None
  BY <1>1, <1>2, Zenon DEF ReceiveBadHeader
<1>4. e \in Meanings
  BY <1>2, <1>3, HeaderRead, Zenon
<1>5. events' \in 0 .. setup.max_events
  BY <1>3, SMTT(60) DEF Inv, Types
<1>. QED
  BY <1>3, <1>4, <1>5, RefuseKeeps, Zenon

\* Another message in the place of the first keeps the invariant, if it says what is so.
LEMMA ReplaceKeeps ==
  ASSUME Inv, NEW s \in Speakers, UNCHANGED <<setup, old, peer>>, events' \in 0 .. setup.max_events, wire[s] # <<>>,
         NEW z \in Messages, Right(z, View(Other(s)), View(s)), z.type \in {wire[s][1].type, "OTHER"},
         wire' = [wire EXCEPT ![s] = <<z>> \o Tail(wire[s])]
  PROVE  Inv'
<1>. DEFINE t == Other(s)
<1>0. t \in Speakers /\ t # s /\ Other(t) = s
  BY Two, Zenon
<1>1. peer \in [Speakers -> Peers] /\ wire \in [Speakers -> Seq(Messages)] /\ Sound(t) /\ Sound(s)
  BY <1>0, Zenon DEF Inv, Types
<1>2. PICK S, v, w, q, p : S = Messages /\ v = View(s) /\ w = View(t) /\ q = wire[s] /\ p = peer[s]
  OBVIOUS
<1>3. /\ SoundPeer(p, q, v, w) /\ q \in Seq(S) /\ q # <<>> /\ z \in S /\ Right(z, w, v) /\ z.type \in {q[1].type, "OTHER"}
  BY <1>1, <1>2, Zenon DEF Sound
<1>. HIDE DEF t
<1>4. wire'[s] = <<z>> \o Tail(q) /\ wire'[t] = wire[t] /\ peer' = peer
  BY <1>0, <1>1, <1>2, Zenon
<1>5. View(s)' = v /\ View(t)' = w
  BY <1>0, <1>2, ViewsGrow, Zenon
<1>6. Queue(<<z>> \o Tail(q), p.phase, w, v)
  <2>1. Queue(q, p.phase, w, v)
    BY <1>3, Zenon DEF SoundPeer
  <2>. QED
    BY <1>3, <2>1, QueueReplaced, Zenon
<1>7. SoundPeer(p, <<z>> \o Tail(q), v, w)
  BY <1>3, <1>6, Zenon DEF SoundPeer
<1>8. Sound(s)'
  BY <1>2, <1>4, <1>5, <1>7, Zenon DEF Sound, t
<1>9. Sound(t)'
  BY <1>0, <1>1, <1>2, <1>4, <1>5, Zenon DEF Sound
<1>10. <<z>> \o Tail(q) \in Seq(S)
  BY <1>3, Fronted, Zenon
<1>11. wire' \in [Speakers -> Seq(Messages)]
  BY <1>1, <1>2, <1>10, Zenon
<1>. QED
  BY <1>1, <1>8, <1>9, <1>11, Keeps, ZenonT(60) DEF t

\* The bound on events.
LEMMA EventBound ==
  ASSUME Inv, Event
  PROVE  events' \in 0 .. setup.max_events
<1>1. setup.max_events \in Nat /\ events \in 0 .. setup.max_events
  BY SetupsAssumption DEF Inv, Types
<1>. QED
  BY <1>1, SMTT(60) DEF Event

LEMMA DamageKeeps ==
  ASSUME Inv, NEW s \in Speakers, Damage(s)
  PROVE  Inv'
<1>1. Up(s) /\ wire[s] # <<>> /\ wire[s][1].type # "CLOSED" /\ UNCHANGED <<setup, old, peer>>
  BY DEF Damage
<1>2. PICK m : m = wire[s][1]
  OBVIOUS
<1>3. PICK z \in Faulty(m) : wire' = [wire EXCEPT ![s] = <<z>> \o Tail(wire[s])]
  BY <1>2, Zenon DEF Damage
<1>4. m \in Messages /\ m.type # "CLOSED"
  BY <1>1, <1>2, FirstMessage, Zenon
<1>5. z \in Messages /\ Spoiled(z) /\ z.type \in {m.type, "OTHER"}
  BY <1>3, <1>4, FaultyMessage, Zenon
<1>6. Right(z, View(Other(s)), View(s)) /\ z.type \in {wire[s][1].type, "OTHER"}
  BY <1>2, <1>5, Zenon DEF Right
<1>7. events' \in 0 .. setup.max_events
  BY EventBound DEF Damage
<1>. QED
  BY <1>1, <1>3, <1>5, <1>6, <1>7, ReplaceKeeps, Zenon

LEMMA RepackKeeps ==
  ASSUME Inv, NEW s \in Speakers, Repack(s)
  PROVE  Inv'
<1>. DEFINE t == Other(s)
<1>0. t \in Speakers
  BY Two, Zenon
<1>1. /\ Up(s) /\ wire[s] # <<>> /\ wire[s][1].type = "OPEN" /\ Len(wire[s][1].body.params) = 1
      /\ UNCHANGED <<setup, old, peer>>
  BY Zenon DEF Repack
<1>2. PICK m, w, v : m = wire[s][1] /\ w = View(t) /\ v = View(s)
  OBVIOUS
<1>3. PICK z : z = [m EXCEPT !.body.params = Repacked(m.body.params)]
  BY Zenon
<1>4. wire' = [wire EXCEPT ![s] = <<z>> \o Tail(wire[s])]
  BY <1>2, <1>3, Zenon DEF Repack
<1>5. m \in Messages /\ m.type = "OPEN" /\ Len(m.body.params) = 1 /\ Right(m, w, v)
  BY <1>1, <1>2, FirstMessage, Zenon
<1>6. setup \in Setups /\ w.c \in Configs
  <2>1. setup \in Setups
    BY SMTT(60) DEF Inv, Types
  <2>2. w.c = cfg[t]
    BY <1>2, ZenonT(60) DEF View
  <2>. QED
    BY <1>0, <2>1, <2>2, Configured, Zenon
<1>7. z \in Messages /\ z.type = "OPEN" /\ Right(z, w, v)
  BY <1>3, <1>5, <1>6, RepackedOpen, Zenon
<1>8. Right(z, View(t), View(s)) /\ z.type \in {wire[s][1].type, "OTHER"}
  BY <1>1, <1>2, <1>7, Zenon
<1>9. events' \in 0 .. setup.max_events
  BY EventBound, Zenon DEF Repack
<1>. QED
  BY <1>1, <1>4, <1>7, <1>8, <1>9, ReplaceKeeps, Zenon

LEMMA SendRouteRefreshKeeps ==
  ASSUME Inv, NEW s \in Speakers, SendRouteRefresh(s)
  PROVE  Inv'
<1>. DEFINE t == Other(s)
<1>0. t \in Speakers /\ t # s /\ Other(t) = s
  BY Two, Zenon
<1>1. /\ setup \in Setups /\ peer \in [Speakers -> Peers] /\ wire \in [Speakers -> Seq(Messages)] /\ Sound(s) /\ Sound(t)
  BY <1>0 DEF Inv, Types
<1>2. UNCHANGED <<setup, old, damaged>>
  BY DEF SendRouteRefresh
<1>3. PICK p \in Peers : p = peer[s]
  BY <1>1
<1>4. PICK fam \in p.caps.mp, a \in {0, 1, 2} :
          /\ wire' = [wire EXCEPT ![t] = IF Up(t) THEN Append(wire[t], RouteRefreshMessage(fam, a)) ELSE <<>>]
          /\ peer' = [peer EXCEPT ![s].said = @ \cup {Meant(SubtypeFrom(a), "-", fam)}]
  BY <1>3, Zenon DEF SendRouteRefresh
<1>5. fam \in Families
  <2>1. PICK caps : caps = p.caps
    OBVIOUS
  <2>2. caps \in CapSets
    BY <1>3, <2>1, Zenon DEF Peers
  <2>3. \A u \in Speakers : cfg[u] \in Configs
    BY <1>1, Configured, Zenon
  <2>4. PICK c \in Configs : \E params : caps = NoCapabilities \/ caps = Kept(c, extract_capabilities(params))
    BY <2>2, <2>3, SMTT(60) DEF CapSets, Speakers
  <2>5. PICK params : caps = NoCapabilities \/ caps = Kept(c, extract_capabilities(params))
    BY <2>4, Zenon
  <2>. QED
    BY <1>4, <2>1, <2>5, CapsHeld, Zenon
<1>6. PICK e, a1, msgs : e = Meant(SubtypeFrom(a), "-", fam) /\ a1 = RouteRefreshMessage(fam, a) /\ msgs = <<a1>>
  BY Zenon
<1>7. PICK n : n = [p EXCEPT !.said = p.said \cup {e}]
  BY Zenon
<1>8. peer' = [peer EXCEPT ![s] = n]
  BY <1>1, <1>3, <1>4, <1>6, <1>7, Zenon
<1>9. PICK x, v, w, S : x = View(s)' /\ v = View(s) /\ w = View(t) /\ S = Messages
  OBVIOUS
<1>10. e \in Refreshes /\ a1 \in S /\ a1.type = "ROUTE_REFRESH" /\ (e \in x.said => Right(a1, x, w))
  BY <1>5, <1>6, <1>9, OwnMessages, Zenon
<1>11. /\ n \in Peers /\ n.said = p.said \cup {e} /\ n.phase = p.phase /\ n.heard = p.heard /\ n.caps = p.caps
       /\ n.ebgp = p.ebgp /\ n.hold = p.hold /\ n.wins = p.wins /\ n.suppressed = p.suppressed
  BY <1>7, <1>10, Zenon DEF Peers
<1>. HIDE DEF t
<1>12. peer'[s] = n /\ peer'[t] = peer[t]
  BY <1>0, <1>1, <1>8, Zenon
<1>13. Grown(v, x) /\ View(t)' = w /\ x.said = n.said
  BY <1>0, <1>2, <1>3, <1>9, <1>11, <1>12, ViewsGrow, ZenonT(60)
<1>14. msgs \in Seq(S) /\ \A i \in 1..Len(msgs) : msgs[i].type # "OPEN" /\ Right(msgs[i], x, w)
  <2>1. Right(a1, x, w)
    BY <1>10, <1>11, <1>13, Zenon
  <2>2. msgs \in Seq(S) /\ Len(msgs) = 1 /\ msgs[1] = a1
    BY <1>6, <1>10, OneMessage, Zenon
  <2>. QED
    BY <1>10, <2>1, <2>2
<1>15. PICK q, r, k : q = wire[s] /\ r = peer[t] /\ k = wire[t]
  OBVIOUS
<1>16. k \in Seq(S) /\ SoundPeer(p, q, v, w) /\ SoundPeer(r, k, w, v)
  BY <1>0, <1>1, <1>3, <1>9, <1>15, Zenon DEF Sound, t
<1>17. SoundPeer(n, q, x, w) /\ SoundPeer(r, Sent(r.phase, k, msgs), w, x)
  BY <1>11, <1>13, <1>14, <1>16, Says, ZenonT(60)
<1>18. wire'[s] = q /\ wire'[t] = Sent(r.phase, k, msgs)
  <2>1. Append(k, a1) = k \o <<a1>>
    BY <1>10, <1>16, Behind, Zenon
  <2>. QED
    BY <1>0, <1>1, <1>4, <1>6, <1>15, <2>1, Zenon DEF Sent, Up
<1>19. Sound(s)' /\ Sound(t)'
  BY <1>0, <1>9, <1>12, <1>13, <1>15, <1>17, <1>18, Zenon DEF Sound, t
<1>20. wire' \in [Speakers -> Seq(Messages)]
  <2>1. Sent(r.phase, k, msgs) \in Seq(S)
    BY <1>14, <1>16 DEF Sent
  <2>2. wire' = [wire EXCEPT ![t] = Sent(r.phase, k, msgs)]
    BY <1>0, <1>1, <1>4, <1>18, Zenon
  <2>. QED
    BY <1>1, <1>9, <2>1, <2>2, Zenon
<1>21. peer' \in [Speakers -> Peers]
  BY <1>1, <1>8, <1>11, Zenon
<1>22. events' \in 0 .. setup.max_events
  BY EventBound DEF SendRouteRefresh
<1>. QED
  BY <1>2, <1>19, <1>20, <1>21, <1>22, Keeps, Zenon DEF t

LEMMA NotifyKeeps ==
  ASSUME Inv, NEW s \in Speakers, Notify(s)
  PROVE  Inv'
<1>1. PICK e \in Errors : Refuse(s, e)
  BY DEF Notify
<1>2. e \in Meanings
  BY Zenon DEF Meanings
<1>3. UNCHANGED <<setup, old>> /\ events' \in 0 .. setup.max_events
  BY EventBound, Zenon DEF Notify
<1>. QED
  BY <1>1, <1>2, <1>3, RefuseKeeps, Zenon

LEMMA LoseKeeps ==
  ASSUME Inv, Lose
  PROVE  Inv'
<1>1. /\ wire' = [s \in Speakers |-> IF Up(s) THEN <<Closed>> ELSE <<>>]
      /\ UNCHANGED <<setup, old, peer>> /\ events' \in 0 .. setup.max_events
  BY EventBound, Zenon DEF Lose
<1>2. wire' \in [Speakers -> Seq(Messages)] /\ peer \in [Speakers -> Peers]
  <2>1. PICK S, m : S = Messages /\ m = Closed
    OBVIOUS
  <2>2. m \in S
    BY <2>1, OwnMessages, Zenon
  <2>3. <<m>> \in Seq(S) /\ <<>> \in Seq(S)
    BY <2>2, SMTT(60)
  <2>. QED
    BY <1>1, <2>1, <2>3, Zenon DEF Inv, Types
<1>3. ASSUME NEW s \in Speakers
      PROVE  Sound(s)'
  <2>. DEFINE t == Other(s)
  <2>0. t \in Speakers
    BY Two, Zenon
  <2>1. PICK p, q, v, w : p = peer[s] /\ q = wire[s] /\ v = View(s) /\ w = View(t)
    BY Zenon
  <2>2. SoundPeer(p, q, v, w)
    BY <2>1 DEF Inv, Sound
  <2>3. PICK k : k = IF p.phase # "Idle" THEN <<Closed>> ELSE <<>>
    BY Zenon
  <2>4. Closed.type = "CLOSED" /\ Right(Closed, w, v)
    BY OwnMessages, ZenonT(60)
  <2>5. Queue(k, p.phase, w, v)
    <3>1. CASE p.phase = "Idle"
      BY <2>3, <3>1, SMTT(60) DEF Queue
    <3>2. CASE p.phase # "Idle"
      <4>1. PICK m : m = Closed
        OBVIOUS
      <4>2. k = <<m>> /\ Len(k) = 1 /\ k[1] = m /\ k # <<>>
        BY <2>3, <3>2, <4>1, Zenon
      <4>3. m.type = "CLOSED" /\ Right(m, w, v)
        BY <2>4, <4>1, Zenon
      <4>4. \A i \in 1..Len(k) : k[i] = m
        BY <4>2
      <4>. QED
        BY <3>2, <4>2, <4>3, <4>4, Zenon DEF Queue
    <3>. QED
      BY <3>1, <3>2, Zenon
  <2>6. SoundPeer(p, k, v, w)
    BY <2>2, <2>5, Zenon DEF SoundPeer
  <2>. HIDE DEF t
  <2>7. View(s)' = v /\ View(t)' = w
    BY <1>1, <2>0, <2>1, ViewsGrow, Zenon
  <2>8. peer'[s] = p /\ wire'[s] = k
    BY <1>1, <2>1, <2>3, Zenon DEF Up
  <2>. QED
    BY <2>6, <2>7, <2>8 DEF Sound, t
<1>. QED
  <2>1. PICK s : s \in Speakers
    BY DEF Speakers
  <2>2. Sound(s)' /\ Sound(Other(s))'
    BY <1>3, <2>1, Two, Zenon
  <2>3. peer' \in [Speakers -> Peers]
    BY <1>1, <1>2, Zenon
  <2>. QED
    BY <1>1, <1>2, <2>1, <2>2, <2>3, Keeps, Zenon

\* The first message on a new connection is the OPEN of the other speaker.
LEMMA FirstOpen ==
  ASSUME Inv, NEW t \in Speakers
  PROVE  Open(t) \in Messages /\ Open(t).type = "OPEN" /\ \E params \in Advertised(View(t)) : Open(t).body = OpenBody(cfg[t], params)
<1>1. setup \in Setups
  BY DEF Inv, Types
<1>2. PICK v : v = View(t)
  OBVIOUS
<1>3. v.c = cfg[t] /\ v.old = Old(t) /\ v.suppressed = peer[t].suppressed
  BY <1>2, Zenon DEF View
<1>4. PICK params : params = IF peer[t].suppressed \/ Old(t) THEN <<>> ELSE Packed(cfg[t])
  BY Zenon
<1>5. Open(t) = OpenMessage(cfg[t], params)
  BY <1>4, Zenon DEF Open, build_open_message, Packed
<1>6. params \in ParamLists
  BY <1>4, ZenonT(60) DEF ParamLists, Packings
<1>7. params \in Advertised(v)
  BY <1>3, <1>4, Zenon DEF Advertised, Packings
<1>. QED
  BY <1>1, <1>2, <1>5, <1>6, <1>7, OwnOpen, Zenon

LEMMA ConnectKeeps ==
  ASSUME Inv, Connect
  PROVE  Inv'
<1>1. /\ UNCHANGED <<setup, old, events>> /\ wire' = [s \in Speakers |-> <<Open(Other(s))>>]
      /\ peer' = [s \in Speakers |-> Fresh(peer[s])]
  BY DEF Connect
<1>2. peer \in [Speakers -> Peers] /\ events \in 0 .. setup.max_events
  BY Zenon DEF Inv, Types
<1>3. ASSUME NEW s \in Speakers
      PROVE  /\ peer'[s] \in Peers /\ peer'[s].phase = "OpenSent" /\ peer'[s].heard = {} /\ peer'[s].said = {}
             /\ peer'[s].suppressed = peer[s].suppressed
  <2>1. PICK p \in Peers : p = peer[s]
    BY <1>2
  <2>2. NoCapabilities \in CapSets
    BY DEF CapSets
  <2>3. peer'[s] = Fresh(p)
    BY <1>1, <2>1
  <2>4. PICK phase, caps, ebgp, hold, wins, heard, said :
            /\ phase = "OpenSent" /\ caps = NoCapabilities /\ ebgp = FALSE /\ hold = 0 /\ wins = None
            /\ heard = {} /\ said = {}
    BY Zenon
  <2>5. Fresh(p) = [p EXCEPT !.phase = phase, !.caps = caps, !.ebgp = ebgp, !.hold = hold, !.wins = wins,
                             !.heard = heard, !.said = said]
    BY <2>4, Zenon DEF Fresh
  <2>6. /\ phase \in Phases /\ caps \in CapSets /\ ebgp \in BOOLEAN /\ hold \in Nat
        /\ wins \in {None, Some(TRUE), Some(FALSE)}
        /\ heard \in SUBSET (Meanings \cup Refreshes) /\ said \in SUBSET (Meanings \cup Refreshes)
    BY <2>2, <2>4, Zenon DEF Phases
  <2>7. PICK n : n = Fresh(p)
    OBVIOUS
  <2>8. n \in Peers
    BY <2>5, <2>6, <2>7, ZenonT(60) DEF Peers
  <2>9. n.phase = phase /\ n.heard = heard /\ n.said = said /\ n.suppressed = p.suppressed
    BY <2>5, <2>7 DEF Peers
  <2>. QED
    BY <2>1, <2>3, <2>4, <2>7, <2>8, <2>9, Zenon
<1>4. ASSUME NEW s \in Speakers
      PROVE  wire'[s] \in Seq(Messages) /\ Sound(s)'
  <2>. DEFINE t == Other(s)
  <2>0. t \in Speakers
    BY Two, Zenon
  <2>1. PICK m, S, x, y, w : m = Open(t) /\ S = Messages /\ x = View(s)' /\ y = View(t)' /\ w = View(t)
    OBVIOUS
  <2>2. m \in S /\ m.type = "OPEN" /\ \E params \in Advertised(w) : m.body = OpenBody(w.c, params)
    <3>1. w.c = cfg[t]
      BY <2>1, Zenon DEF View
    <3>. QED
      BY <2>0, <2>1, <3>1, FirstOpen, Zenon
  <2>. HIDE DEF t
  <2>3. y.c = w.c /\ y.old = w.old /\ y.suppressed = w.suppressed
    <3>1. cfg' = cfg /\ Old(t)' = Old(t)
      BY <1>1, Zenon DEF cfg, Old
    <3>. QED
      BY <1>3, <2>0, <2>1, <3>1, Zenon DEF View
  <2>4. Advertised(y) = Advertised(w)
    BY <2>3 DEF Advertised
  <2>5. Right(m, y, x)
    BY <2>2, <2>3, <2>4, Zenon DEF Right, Faithful
  <2>6. PICK q : q = <<m>>
    BY Zenon
  <2>7. q \in Seq(S) /\ Len(q) = 1 /\ q[1] = m /\ q # <<>> /\ wire'[s] = q
    <3>1. q \in Seq(S) /\ Len(q) = 1 /\ q[1] = m /\ q # <<>>
      BY <2>2, <2>6
    <3>2. wire'[s] = <<m>>
      <4>1. wire' = [u \in Speakers |-> <<Open(Other(u))>>]
        BY <1>1, Zenon
      <4>. QED
        BY <2>1, <4>1, Zenon DEF t
    <3>. QED
      BY <2>6, <3>1, <3>2, Zenon
  <2>8. Queue(q, "OpenSent", y, x)
    BY <2>2, <2>5, <2>7 DEF Queue
  <2>9. PICK p : p = peer'[s]
    BY Zenon
  <2>10. p.phase = "OpenSent" /\ p.heard = {}
    BY <1>3, <2>9, Zenon
  <2>11. SoundPeer(p, q, x, y)
    BY <2>8, <2>10, Zenon DEF SoundPeer
  <2>12. Sound(s)'
    BY <2>1, <2>7, <2>9, <2>11, Zenon DEF Sound, t
  <2>. QED
    BY <2>1, <2>7, <2>12, Zenon
<1>5. peer' \in [Speakers -> Peers] /\ wire' \in [Speakers -> Seq(Messages)]
  BY <1>1, <1>3, <1>4, Zenon
<1>. QED
  <2>1. PICK s : s \in Speakers
    BY DEF Speakers
  <2>2. Sound(s)' /\ Sound(Other(s))'
    BY <1>4, <2>1, Two, Zenon
  <2>. QED
    BY <1>1, <1>2, <1>5, <2>1, <2>2, Keeps, Zenon

\* A speaker without a connection is sound whatever the other is.
LEMMA IdleSound ==
  ASSUME NEW p, NEW v, NEW w, p.phase = "Idle", p.heard \subseteq w.said
  PROVE  SoundPeer(p, <<>>, v, w)
<1>1. Queue(<<>>, p.phase, w, v)
  BY DEF Queue
<1>. QED
  BY <1>1, Zenon DEF SoundPeer

LEMMA UpgradeKeeps ==
  ASSUME Inv, Upgrade
  PROVE  Inv'
<1>1. /\ UNCHANGED <<setup, wire>> /\ old' = FALSE /\ \A s \in Speakers : ~Up(s)
      /\ peer' = [peer EXCEPT ![2].suppressed = FALSE]
  BY Zenon DEF Upgrade
<1>2. setup \in Setups /\ peer \in [Speakers -> Peers] /\ wire \in [Speakers -> Seq(Messages)]
  BY DEF Inv, Types
<1>3. ASSUME NEW s \in Speakers
      PROVE  /\ peer'[s] \in Peers /\ peer'[s].phase = peer[s].phase /\ peer'[s].heard = peer[s].heard
             /\ peer'[s].said = peer[s].said
  <2>1. PICK p \in Peers : p = peer[s]
    BY <1>2
  <2>2. peer'[s] = p \/ peer'[s] = [p EXCEPT !.suppressed = FALSE]
    BY <1>1, <1>2, <2>1, Zenon
  <2>3. PICK f : f = FALSE
    BY Zenon
  <2>4. PICK n : n = [p EXCEPT !.suppressed = f]
    BY Zenon
  <2>5. n \in Peers /\ n.phase = p.phase /\ n.heard = p.heard /\ n.said = p.said
    BY <2>3, <2>4, Zenon DEF Peers
  <2>. QED
    BY <2>1, <2>2, <2>3, <2>4, <2>5, Zenon
<1>4. Peers' = Peers /\ Messages' = Messages
  BY <1>1, SameSets
<1>5. peer' \in [Speakers -> Peers]
  BY <1>1, <1>2, <1>3, Zenon
<1>6. events' \in 0 .. setup.max_events
  BY EventBound DEF Upgrade
<1>7. Types'
  BY <1>1, <1>2, <1>4, <1>5, <1>6, Zenon DEF Types
<1>8. ASSUME NEW s \in Speakers
      PROVE  Sound(s)'
  <2>1. Other(s) \in Speakers
    BY Two, Zenon
  <2>2. Sound(s) /\ peer[s].phase = "Idle"
    BY <1>1 DEF Inv, Up
  <2>3. wire[s] = <<>> /\ peer[s].heard \subseteq View(Other(s)).said
    BY <2>2, Zenon DEF Sound, SoundPeer, Queue
  <2>4. View(Other(s))'.said = peer'[Other(s)].said /\ View(Other(s)).said = peer[Other(s)].said
    BY Zenon DEF View
  <2>5. PICK p, x, y : p = peer'[s] /\ x = View(s)' /\ y = View(Other(s))'
    BY SMTT(60), Zenon
  <2>6. p.phase = "Idle" /\ p.heard \subseteq y.said
    BY <1>3, <2>1, <2>2, <2>3, <2>4, <2>5, Zenon
  <2>7. SoundPeer(p, <<>>, x, y)
    BY <2>6, IdleSound, Zenon
  <2>8. wire'[s] = <<>>
    BY <1>1, <2>3, Zenon
  <2>. QED
    BY <2>5, <2>7, <2>8, Zenon DEF Sound, Other
<1>. QED
  BY <1>7, <1>8 DEF Inv

LEMMA InitSound ==
  ASSUME Init
  PROVE  Inv
<1>1. /\ setup \in Setups /\ old = setup.old /\ events = 0 /\ wire = [s \in Speakers |-> <<>>]
      /\ peer = [s \in Speakers |-> [phase |-> "Idle", suppressed |-> FALSE, caps |-> NoCapabilities, ebgp |-> FALSE,
                                     hold |-> 0, wins |-> None, heard |-> {}, said |-> {}]]
  BY SMTT(60), Zenon DEF Init
<1>2. setup.max_events \in Nat /\ old \in BOOLEAN
  BY <1>1, SetupsAssumption
<1>3. PICK S : S = Messages
  OBVIOUS
<1>4. <<>> \in Seq(S)
  OBVIOUS
<1>5. NoCapabilities \in CapSets
  BY DEF CapSets
<1>6. PICK phase, no, caps, hold, wins, none :
          phase = "Idle" /\ no = FALSE /\ caps = NoCapabilities /\ hold = 0 /\ wins = None /\ none = {}
  BY Zenon
<1>. DEFINE p == [phase |-> phase, suppressed |-> no, caps |-> caps, ebgp |-> no, hold |-> hold, wins |-> wins,
                  heard |-> none, said |-> none]
<1>7. p \in Peers /\ p.phase = "Idle" /\ p.heard = {}
  <2>1. /\ phase \in Phases /\ no \in BOOLEAN /\ caps \in CapSets /\ hold \in Nat /\ wins \in {None, Some(TRUE), Some(FALSE)}
        /\ none \in SUBSET (Meanings \cup Refreshes)
    BY <1>5, <1>6, Zenon DEF Phases
  <2>. QED
    BY <1>6, <2>1 DEF Peers
<1>. HIDE DEF p
<1>8. peer = [s \in Speakers |-> p]
  <2>1. p = [phase |-> "Idle", suppressed |-> FALSE, caps |-> NoCapabilities, ebgp |-> FALSE,
             hold |-> 0, wins |-> None, heard |-> {}, said |-> {}]
    BY <1>6, Zenon DEF p
  <2>. QED
    BY <1>1, <2>1, Zenon
<1>9. Types
  <2>1. peer \in [Speakers -> Peers]
    BY <1>7, <1>8, Zenon
  <2>2. wire \in [Speakers -> Seq(Messages)]
    BY <1>1, <1>3, <1>4, Zenon
  <2>3. events \in 0 .. setup.max_events
    BY <1>1, <1>2, SMTT(60)
  <2>. QED
    BY <1>1, <1>2, <2>1, <2>2, <2>3, Zenon DEF Types
<1>10. ASSUME NEW s \in Speakers
       PROVE  Sound(s)
  <2>1. PICK v, w : v = View(s) /\ w = View(Other(s))
    BY Zenon
  <2>2. SoundPeer(p, <<>>, v, w)
    BY <1>7, IdleSound, Zenon
  <2>3. peer[s] = p /\ wire[s] = <<>>
    BY <1>1, <1>8, Zenon
  <2>. QED
    BY <2>1, <2>2, <2>3, Zenon DEF Sound
<1>. QED
  BY <1>9, <1>10, Zenon DEF Inv

LEMMA StutterKeeps ==
  ASSUME Inv, UNCHANGED vars
  PROVE  Inv'
<1>1. UNCHANGED <<setup, old, peer, wire, events>>
  BY Zenon DEF vars
<1>2. ASSUME NEW s \in Speakers
      PROVE  Sound(s)'
  <2>1. Other(s) \in Speakers
    BY Two, Zenon
  <2>2. View(s)' = View(s) /\ View(Other(s))' = View(Other(s))
    BY <1>1, <2>1, ViewsGrow
  <2>. QED
    BY <1>1, <2>2 DEF Inv, Sound, Other
<1>3. PICK s : s \in Speakers
  BY DEF Speakers
<1>4. Sound(s)' /\ Sound(Other(s))'
  BY <1>2, <1>3, Two, Zenon
<1>5. peer' \in [Speakers -> Peers] /\ wire' \in [Speakers -> Seq(Messages)] /\ events' \in 0 .. setup.max_events
  BY <1>1, Zenon DEF Inv, Types
<1>. QED
  BY <1>1, <1>3, <1>4, <1>5, Keeps, Zenon

LEMMA StepKeeps ==
  ASSUME Inv, [Next]_vars
  PROVE  Inv'
<1>1. CASE Connect
  BY <1>1, ConnectKeeps, Zenon
<1>2. ASSUME NEW s \in Speakers, Receive(s)
      PROVE  Inv'
  <2>1. CASE ReceiveOpen(s)
    BY <2>1, ReceiveOpenKeeps, Zenon
  <2>2. CASE ReceiveKeepalive(s)
    BY <2>2, ReceiveKeepaliveKeeps, Zenon
  <2>3. CASE ReceiveNotification(s)
    BY <2>3, ReceiveNotificationKeeps
  <2>4. CASE ReceiveRouteRefresh(s)
    BY <2>4, ReceiveRouteRefreshKeeps
  <2>5. CASE ReceiveClosed(s)
    BY <2>5, ReceiveClosedKeeps
  <2>6. CASE ReceiveBadHeader(s)
    BY <2>6, ReceiveBadHeaderKeeps
  <2>. QED
    BY <1>2, <2>1, <2>2, <2>3, <2>4, <2>5, <2>6, Zenon DEF Receive
<1>3. ASSUME NEW s \in Speakers, Damage(s) \/ Repack(s) \/ SendRouteRefresh(s) \/ Notify(s)
      PROVE  Inv'
  BY <1>3, DamageKeeps, RepackKeeps, SendRouteRefreshKeeps, NotifyKeeps, Zenon
<1>4. CASE Lose
  BY <1>4, LoseKeeps
<1>5. CASE Upgrade
  BY <1>5, UpgradeKeeps
<1>6. CASE UNCHANGED vars
  BY <1>6, StutterKeeps
<1>. QED
  BY <1>1, <1>2, <1>3, <1>4, <1>5, <1>6, Zenon DEF Next

-----------------------------------------------------------------------------
(* What follows *)

\* What a speaker that knows capabilities has taken of one that sent its own.
LEMMA TookPacked ==
  ASSUME Inv, NEW s \in Speakers, Confirmed(s), ~old, ~peer[Other(s)].suppressed
  PROVE  /\ cfg[s] \in Configs /\ cfg[Other(s)] \in Configs
         /\ \E params \in Packings(cfg[Other(s)]) :
                Accepts(cfg[s], cfg[Other(s)], params) /\ Outcome(peer[s], cfg[s], cfg[Other(s)], params)
<1>. DEFINE t == Other(s)
<1>0. t \in Speakers /\ setup \in Setups
  BY Two, Zenon DEF Inv, Types
<1>1. PICK p, v, w : p = peer[s] /\ v = View(s) /\ w = View(t)
  OBVIOUS
<1>2. v.c = cfg[s] /\ w.c = cfg[t] /\ ~v.old /\ ~w.old /\ ~w.suppressed
  BY <1>1, Zenon DEF View, Old
<1>3. Judged(v, p, w)
  BY <1>1, Zenon DEF Inv, Sound, SoundPeer, Confirmed
<1>4. Advertised(w) = Packings(cfg[t])
  BY <1>2 DEF Advertised
<1>. QED
  BY <1>0, <1>1, <1>2, <1>3, <1>4, Configured, Zenon DEF Judged

\* Two speakers that hold sound states agree.
LEMMA SoundAgree ==
  ASSUME Inv
  PROVE  SpeakersAgree
<1>0. setup \in Setups /\ peer \in [Speakers -> Peers] /\ events \in 0 .. setup.max_events
  BY SMTT(60), Zenon DEF Inv, Types
<1>1. TypeOK
  <2>1. ASSUME NEW s \in Speakers
        PROVE  /\ peer[s].phase \in {"Idle", "OpenSent", "OpenConfirm", "Established"}
               /\ peer[s].caps.llgr # None => peer[s].caps.gr # None
               /\ \A e \in peer[s].said \cup peer[s].heard : e.kind # "Unknown"
    <3>1. peer[s] \in Peers
      BY <1>0
    <3>2. /\ peer[s].phase \in Phases /\ peer[s].caps \in CapSets
          /\ peer[s].said \cup peer[s].heard \subseteq Meanings \cup Refreshes
      BY <3>1, Zenon DEF Peers
    <3>3. \A e \in Meanings : e.kind # "Unknown"
      BY RoundTrip, Zenon
    <3>4. \A e \in Refreshes : e.kind # "Unknown"
      BY DEF Refreshes, Meant
    <3>5. PICK caps : caps = peer[s].caps
      OBVIOUS
    <3>6. \A u \in Speakers : cfg[u] \in Configs
      BY <1>0, Configured, Zenon
    <3>7. PICK c \in Configs : \E params : caps = NoCapabilities \/ caps = Kept(c, extract_capabilities(params))
      BY <3>2, <3>5, <3>6, SMTT(60) DEF CapSets, Speakers
    <3>8. PICK params : caps = NoCapabilities \/ caps = Kept(c, extract_capabilities(params))
      BY <3>7, Zenon
    <3>9. caps.llgr # None => caps.gr # None
      BY <3>8, CapsHeld
    <3>. QED
      BY <3>2, <3>3, <3>4, <3>5, <3>9, Zenon DEF Phases
  <2>. QED
    BY <1>0, <2>1, Zenon DEF TypeOK
<1>2. ASSUME BothConfirmed, Plain, NEW s \in Speakers
      PROVE  LET p == peer[s]
                 q == peer[Other(s)]
             IN  /\ afi_safis(p) = afi_safis(q)
                 /\ send_format(p).four = receive_format(q).four
                 /\ send_format(p).err = receive_format(q).err
                 /\ send_format(p).addpath \cap afi_safis(p) = receive_format(q).addpath \cap afi_safis(p)
                 /\ p.hold = q.hold /\ p.ebgp = q.ebgp /\ p.wins # q.wins
  <2>. DEFINE t == Other(s)
  <2>0. t \in Speakers /\ Other(t) = s
    BY Two, Zenon
  <2>1. /\ ~old /\ Confirmed(s) /\ Confirmed(t) /\ ~peer[s].suppressed /\ ~peer[t].suppressed
    BY <1>2, <2>0, Zenon DEF BothConfirmed, Plain
  <2>2. PICK c, d, p, q : c = cfg[s] /\ d = cfg[t] /\ p = peer[s] /\ q = peer[t]
    OBVIOUS
  <2>. HIDE DEF t
  <2>3. c \in Configs /\ d \in Configs /\ \E params \in Packings(d) : Accepts(c, d, params) /\ Outcome(p, c, d, params)
    BY <2>1, <2>2, TookPacked, Zenon DEF t
  <2>4. \E others \in Packings(c) : Accepts(d, c, others) /\ Outcome(q, d, c, others)
    BY <2>0, <2>1, <2>2, TookPacked, Zenon
  <2>5. Holds(p, c, d)
    BY <2>3, OutcomeIs, Zenon
  <2>6. Holds(q, d, c)
    BY <2>3, <2>4, OutcomeIs, Zenon
  <2>7. Fit(p, q)
    BY <2>3, <2>5, <2>6, FormatsFit, Zenon
  <2>. QED
    BY <2>2, <2>7, Zenon DEF t, Fit
<1>3. FormatsAgree
  BY <1>2, Zenon DEF FormatsAgree
<1>4. WinnersAgree
  <2>1. 1 \in Speakers /\ Other(1) = 2
    BY DEF Speakers, Other
  <2>. QED
    BY <1>2, <2>1 DEF WinnersAgree
<1>5. ASSUME BothConfirmed, Plain, NEW s \in Speakers
      PROVE  LET p == peer[s].caps
                 c == cfg[Other(s)]
             IN  /\ (p.gr # None) = c.gr
                 /\ c.gr /\ c.restart_time < Bits12 =>
                        /\ p.gr[1].restart_time = c.restart_time /\ ~p.gr[1].restart_state
                        /\ FamiliesOf(p.gr[1].entries) = Range(advertised_afi_safis(c))
                 /\ (p.llgr # None) = (c.gr /\ c.llgr # <<>>)
                 /\ p.llgr # None /\ c.stale_time < Bits24 =>
                        FamiliesOf(p.llgr[1]) = Range(c.llgr) /\ \A e \in p.llgr[1] : e.time = c.stale_time
  <2>0. Other(s) \in Speakers
    BY Two, Zenon
  <2>1. ~old /\ Confirmed(s) /\ ~peer[Other(s)].suppressed
    BY <1>5, <2>0, Zenon DEF BothConfirmed, Plain
  <2>2. PICK c, d, p : c = cfg[s] /\ d = cfg[Other(s)] /\ p = peer[s]
    OBVIOUS
  <2>3. c \in Configs /\ d \in Configs /\ \E params \in Packings(d) : Accepts(c, d, params) /\ Outcome(p, c, d, params)
    BY <2>1, <2>2, TookPacked, Zenon
  <2>4. Holds(p, c, d)
    BY <2>3, OutcomeIs, Zenon
  <2>5. /\ (p.caps.gr # None) = d.gr
        /\ d.gr /\ d.restart_time < Bits12 =>
               /\ p.caps.gr[1].restart_time = d.restart_time /\ ~p.caps.gr[1].restart_state
               /\ FamiliesOf(p.caps.gr[1].entries) = Range(advertised_afi_safis(d))
        /\ (p.caps.llgr # None) = (d.gr /\ d.llgr # <<>>)
        /\ p.caps.llgr # None /\ d.stale_time < Bits24 =>
               FamiliesOf(p.caps.llgr[1]) = Range(d.llgr) /\ \A e \in p.caps.llgr[1] : e.time = d.stale_time
    BY <2>3, <2>4, RestartFits, Zenon
  <2>. QED
    BY <2>2, <2>5, Zenon
<1>6. RestartIsConfigured
  BY <1>5, Zenon DEF RestartIsConfigured
<1>7. MeansTheSame
  <2>1. ASSUME NEW s \in Speakers
        PROVE  peer[s].heard \subseteq peer[Other(s)].said
    <3>1. peer[s].heard \subseteq View(Other(s)).said
      BY Zenon DEF Inv, Sound, SoundPeer
    <3>. QED
      BY <3>1, Zenon DEF View
  <2>. QED
    BY <2>1, Zenon DEF MeansTheSame
<1>. QED
  BY <1>1, <1>3, <1>4, <1>6, <1>7, Zenon DEF SpeakersAgree

\* A session between sound speakers is one between compatible ones: one side's own
\* judgement is in its state, the other's was what its KEEPALIVE said.
LEMMA SoundCompatible ==
  ASSUME Inv
  PROVE  SessionsAreCompatible
<1>1. SUFFICES ASSUME NEW s \in Speakers, peer[s].phase = "Established", Plain
               PROVE  Compatible
  BY SMTT(60), Zenon DEF SessionsAreCompatible
<1>2. ASSUME NEW u \in Speakers, ~Old(u)
      PROVE  \E params \in Advertised(View(Other(u))) : Accepts(cfg[u], cfg[Other(u)], params)
  <2>1. PICK v, w : v = View(u) /\ w = View(Other(u))
    OBVIOUS
  <2>2. v.c = cfg[u] /\ w.c = cfg[Other(u)] /\ ~v.old
    BY <1>2, <2>1, Zenon DEF View
  <2>3. u = s \/ (u = Other(s) /\ Other(u) = s)
    BY Two
  <2>4. Judged(View(s), peer[s], View(Other(s))) /\ Accepted(View(Other(s)), View(s))
    BY <1>1, Zenon DEF Inv, Sound, SoundPeer
  <2>5. Accepted(v, w)
    <3>1. CASE u = s
      BY <2>1, <2>4, <3>1, Zenon DEF Judged, Accepted
    <3>2. CASE u = Other(s) /\ Other(u) = s
      BY <2>1, <2>4, <3>2, Zenon
    <3>. QED
      BY <2>3, <3>1, <3>2, Zenon
  <2>. QED
    BY <2>1, <2>2, <2>5, Zenon DEF Accepted
<1>3. \A u \in Speakers : cfg[u] \in Configs
  BY Configured DEF Inv, Types
<1>4. ASSUME NEW u \in Speakers, ~Old(u)
      PROVE  /\ Acceptable(cfg[u], cfg[Other(u)])
             /\ ~old => Common(cfg[u], cfg[Other(u)])
             /\ old => ~Large(cfg[u]) /\ ~Large(cfg[Other(u)])
  <2>0. Other(u) \in Speakers /\ ~peer[Other(u)].suppressed
    BY <1>1, Two DEF Plain
  <2>1. PICK c, d, w : c = cfg[u] /\ d = cfg[Other(u)] /\ w = View(Other(u))
    OBVIOUS
  <2>2. PICK params \in Advertised(w) : Accepts(c, d, params)
    BY <1>2, <1>4, <2>1
  <2>3. c \in Configs /\ d \in Configs /\ w.c = d /\ w.old = Old(Other(u)) /\ ~w.suppressed
    BY <1>3, <2>0, <2>1, Zenon DEF View
  <2>4. params \in Packings(d) \cup {<<>>} /\ (w.old => params = <<>>) /\ (~w.old => params \in Packings(d))
    BY <2>3, <2>2 DEF Advertised
  <2>5. /\ Acceptable(c, d) /\ (params = <<>> => ~Large(c) /\ ~Large(d)) /\ (params # <<>> => Common(c, d))
    BY <2>2, <2>3, <2>4, Accepting, ZenonT(60)
  <2>6. ~w.old => params # <<>>
    BY <2>3, <2>4, ReadsAs
  <2>7. w.old <=> old
    <3>1. (u = 1 /\ Other(u) = 2) \/ (u = 2 /\ Other(u) = 1)
      BY DEF Speakers, Other
    <3>2. CASE u = 1 /\ Other(u) = 2
      BY <2>3, <3>2, Zenon DEF Old
    <3>3. CASE u = 2 /\ Other(u) = 1
      <4>1. ~old
        BY <1>4, <3>3 DEF Old
      <4>2. ~Old(1)
        BY DEF Old
      <4>. QED
        BY <2>3, <3>3, <4>1, <4>2
    <3>. QED
      BY <3>1, <3>2, <3>3
  <2>. QED
    BY <2>1, <2>4, <2>5, <2>6, <2>7, SMTT(60)
<1>5. ~Old(1) /\ Other(1) = 2 /\ 1 \in Speakers
  BY DEF Old, Other, Speakers
<1>6. /\ ~old => Common(cfg[1], cfg[2])
      /\ old => ~Large(cfg[1]) /\ ~Large(cfg[2])
  BY <1>4, <1>5
<1>. QED
  BY <1>4, <1>6, Zenon DEF Compatible

\* Whatever is lost, damaged, repacked or refused, and for every pair of
\* configurations: the messages on their way and what each speaker holds are sound
\* (every handler of the connection).
THEOREM ExchangeIsSound == Spec => []Inv
<1>1. Init => Inv
  BY InitSound
<1>2. Inv /\ [Next]_vars => Inv'
  BY StepKeeps
<1>. QED
  BY <1>1, <1>2, PTL DEF Spec

\* Two speakers that have each other's OPEN write what the other reads, know the
\* other's restart times, agree on the winner of a collision and mean the same by
\* their messages (enter_open_confirm, send_format, receive_format,
\* local_wins_collision, error_code).
THEOREM SpeakersAlwaysAgree == Spec => []SpeakersAgree
<1>1. Inv => SpeakersAgree
  BY SoundAgree
<1>. QED
  BY <1>1, ExchangeIsSound, PTL

\* A session is only ever up between speakers that can work together
\* (open_from_bytes, enter_open_confirm).
THEOREM SessionsAlwaysCompatible == Spec => []SessionsAreCompatible
<1>1. Inv => SessionsAreCompatible
  BY SoundCompatible
<1>. QED
  BY <1>1, ExchangeIsSound, PTL

=============================================================================
