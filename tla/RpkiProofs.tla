----------------------------- MODULE RpkiProofs -----------------------------
(***************************************************************************)
(* The session with an RPKI cache, and the manager of the sessions.        *)
(*                                                                         *)
(* CacheSession.  What a session holds and sends to the manager is a       *)
(* version of the cache's data, for any VRPs, any width of serial numbers  *)
(* and any number of versions and restarts of the cache.  The properties   *)
(* speak of moments between exchanges; the invariant says what an exchange *)
(* that is under way will come to.  Exchange lists the PDUs that can be on *)
(* the connection, and Leads says of the rest of an answer that, together  *)
(* with what was read of it, it takes the session from the data it has to  *)
(* a version of the cache.                                                 *)
(*                                                                         *)
(* RtrManager.  TableFollowsCaches and UpdatesAreChanges for any set of    *)
(* caches and VRPs and queues of any length.  An update is computed from   *)
(* the change of one cache and what the others hold, queued, and applied   *)
(* later.  The invariant therefore speaks of the table after the whole     *)
(* queue: two lemmas say what an update at either end of the queue does to *)
(* that, and every handler is then a fact about unions of sets.  That the  *)
(* update at the head is a change follows from the same knowledge of every *)
(* prefix of the queue (Real).                                             *)
(***************************************************************************)
EXTENDS CacheSession, RtrManager, FiniteSetTheorems, TLAPS

-----------------------------------------------------------------------------
(* The session: what its invariant says *)

Queries == [pdu : {"ResetQuery"}] \cup [pdu : {"SerialQuery"}, id : 0..MaxId, serial : Serials]

Pdus == [pdu : {"SerialNotify", "EndOfData"}, serial : Serials] \cup [pdu : {"CacheResponse"}, id : {cache.id}]
          \cup [pdu : {"Prefix"}, announce : BOOLEAN, vrp : Vrps] \cup [pdu : {"CacheReset", "NoDataAvailable"}]

Sessions == [id : {None} \cup 0..MaxId, serial : {None} \cup Serials, vrps : SUBSET Vrps,
             syncing : BOOLEAN, announced : SUBSET Vrps, withdrawn : SUBSET Vrps,
             link : {"down", "up", "ended"}]

\* A serial number comes with a session identifier and with the VRPs the manager
\* has, and identifiers grow.
WellFormed(s) ==
  /\ s \in Sessions /\ s.id <= cache.id
  /\ HasSerial(s) => s.id # None /\ known = s.vrps

Core ==
  /\ setup \in Setups
  /\ cache \in [id : 0..MaxId, versions : Seq(SUBSET Vrps)] /\ Current <= MaxVersions
  /\ queries \in Seq(Queries) /\ answers \in Seq(Pdus)
  /\ known \in SUBSET Vrps /\ blamed \in BOOLEAN
  /\ event.kind \in {"none", "Disconnected", "Batch", "Expired"}
  /\ session.link # "up" => queries = <<>> /\ answers = <<>>
  /\ session.link = "up" /\ session.syncing => session.id # None
  /\ WellFormed(session)

Announcement(v) == [pdu |-> "Prefix", announce |-> TRUE, vrp |-> v]

Withdrawal(v) == [pdu |-> "Prefix", announce |-> FALSE, vrp |-> v]

Announces(q, v) == \E i \in 1..Len(q) : q[i] = Announcement(v)

Withdraws(q, v) == \E i \in 1..Len(q) : q[i] = Withdrawal(v)

\* q is the rest of an answer to a router with the VRPs of base that has read the
\* announcements ann and the withdrawals wd of it: in the end it has those of goal.
Leads(q, base, ann, wd, goal, serial) ==
  /\ q # <<>> /\ q[Len(q)] = [pdu |-> "EndOfData", serial |-> serial]
  /\ \A i \in 1..(Len(q) - 1) : q[i].pdu = "Prefix"
  /\ \A i, j \in 1..(Len(q) - 1) : q[i].vrp = q[j].vrp => i = j
  /\ \A v \in Vrps :
       /\ v \in goal <=> (v \in base \/ v \in ann \/ Announces(q, v)) /\ v \notin wd /\ ~Withdraws(q, v)
       /\ v \in ann \/ Announces(q, v) => v \notin base
       /\ v \in wd \/ Withdraws(q, v) => v \in base
       /\ v \in ann => ~Announces(q, v)

Base == IF HasSerial(session) THEN session.vrps ELSE {}

Answered ==
  /\ Head(answers).pdu = "CacheResponse" /\ Head(answers).id = cache.id
  /\ session.id \in {None, cache.id} \/ ~HasSerial(session)
  /\ ~session.syncing
  /\ \E n \in 1..Current : Leads(Tail(answers), Base, {}, {}, Content(n), SerialOf(n))

Reading ==
  /\ session.syncing /\ session.id = cache.id
  /\ \E n \in 1..Current :
       Leads(answers, Base, session.announced, session.withdrawn, Content(n), SerialOf(n))

Exchange ==
  \/ queries = <<>> /\ answers = <<>>
  \/ queries = <<BuildQuery(session)>> /\ answers = <<>> /\ ~session.syncing
  \/ /\ queries = <<>> /\ Len(answers) = 1
     /\ Head(answers).pdu \in {"SerialNotify", "CacheReset", "NoDataAvailable"}
  \/ queries = <<>> /\ answers # <<>> /\ (Answered \/ Reading)

Inv == Core /\ DataIsCacheState /\ (Undisturbed => Exchange)

-----------------------------------------------------------------------------
(* Serial numbers and sequences *)

\* Numbers closer than S with the same remainder are equal: the serial number of a
\* version names only that version.
LEMMA ModUnique ==
  ASSUME NEW S \in Nat \ {0}, NEW a \in Nat, NEW b \in Nat, a % S = b % S, a <= b, b - a < S
  PROVE  a = b
<1> DEFINE qa == a \div S
<1> DEFINE qb == b \div S
<1>1. a = S * qa + (a % S) /\ b = S * qb + (b % S) /\ qa \in Int /\ qb \in Int
  OBVIOUS
<1> HIDE DEF qa, qb
<1>2. b - a = S * (qb - qa)
  BY <1>1
<1>3. qb - qa \in Int
  BY <1>1
<1>4. qb - qa <= 0
  <2> SUFFICES ASSUME qb - qa >= 1 PROVE FALSE
    BY <1>3
  <2>1. S * (qb - qa) >= S
    BY <1>3
  <2> QED BY <2>1, <1>2
<1>5. S * (qb - qa) <= 0
  BY <1>3, <1>4
<1> QED BY <1>5, <1>2

LEMMA EmptySeq ==
  ASSUME NEW S, NEW q \in Seq(S), Len(q) = 0
  PROVE  q = <<>>
OBVIOUS

-----------------------------------------------------------------------------
(* Answers *)

\* What a PDU does to what is left to announce and to withdraw.
LEMMA TailAnnounces ==
  ASSUME NEW q \in Seq(Pdus), q # <<>>, NEW v
  PROVE  /\ Announces(q, v) <=> (Head(q) = Announcement(v) \/ Announces(Tail(q), v))
         /\ Withdraws(q, v) <=> (Head(q) = Withdrawal(v) \/ Withdraws(Tail(q), v))
<1> DEFINE t == Tail(q)
<1>1. Len(q) \in Nat \ {0} /\ Len(t) = Len(q) - 1 /\ Head(q) = q[1]
  OBVIOUS
<1>2. \A i \in 1..Len(t) : t[i] = q[i + 1]
  OBVIOUS
<1> HIDE DEF t
<1>3. ASSUME NEW x
      PROVE  (\E i \in 1..Len(q) : q[i] = x) <=> (q[1] = x \/ \E i \in 1..Len(t) : t[i] = x)
  <2>1. ASSUME NEW i \in 1..Len(q), q[i] = x, i # 1
        PROVE  \E j \in 1..Len(t) : t[j] = x
    <3>1. i - 1 \in 1..Len(t) /\ t[i - 1] = q[i - 1 + 1] /\ i - 1 + 1 = i
      BY <2>1, <1>1, <1>2
    <3> QED BY <3>1, <2>1
  <2>2. ASSUME NEW j \in 1..Len(t), t[j] = x
        PROVE  \E i \in 1..Len(q) : q[i] = x
    <3>1. j + 1 \in 1..Len(q) /\ q[j + 1] = t[j]
      BY <1>1, <1>2
    <3> QED BY <3>1, <2>2
  <2> QED BY <2>1, <2>2, <1>1
<1> QED BY <1>1, <1>3, Zenon DEF Announces, Withdraws, t

\* Reading a prefix PDU of an answer leaves the rest of an answer, and the PDU is
\* neither a duplicate nor unknown.
LEMMA LeadsPrefix ==
  ASSUME NEW q \in Seq(Pdus), NEW base, NEW ann, NEW wd, NEW goal, NEW serial, NEW u \in Vrps,
         Leads(q, base, ann, wd, goal, serial)
  PROVE  /\ Head(q) = Announcement(u) => /\ u \notin base /\ u \notin ann
                                         /\ Leads(Tail(q), base, ann \cup {u}, wd, goal, serial)
         /\ Head(q) = Withdrawal(u) => /\ u \in base
                                       /\ Leads(Tail(q), base, ann, wd \cup {u}, goal, serial)
<1> DEFINE t == Tail(q)
<1>1. Len(q) \in Nat \ {0} /\ Len(t) = Len(q) - 1 /\ Head(q) = q[1] /\ t \in Seq(Pdus) /\ q # <<>>
  BY DEF Leads
<1>2. \A i \in 1..Len(t) : t[i] = q[i + 1]
  OBVIOUS
<1>3. \A v : /\ Announces(q, v) <=> (q[1] = Announcement(v) \/ Announces(t, v))
             /\ Withdraws(q, v) <=> (q[1] = Withdrawal(v) \/ Withdraws(t, v))
  BY <1>1, TailAnnounces
<1>4. /\ \A v : Announcement(v) # Withdrawal(u) /\ Announcement(v) # [pdu |-> "EndOfData", serial |-> serial]
      /\ \A v : Withdrawal(v) # [pdu |-> "EndOfData", serial |-> serial]
      /\ \A v : Announcement(v) = Announcement(u) => v = u
      /\ \A v : Withdrawal(v) = Withdrawal(u) => v = u
      /\ \A v : Announcement(v).vrp = v /\ Withdrawal(v).vrp = v
  BY DEF Announcement, Withdrawal
<1> HIDE DEF t
<1>5. ASSUME q[1] = Announcement(u) \/ q[1] = Withdrawal(u)
      PROVE  /\ t # <<>> /\ t[Len(t)] = [pdu |-> "EndOfData", serial |-> serial]
             /\ \A i \in 1..(Len(t) - 1) : t[i].pdu = "Prefix"
             /\ \A i, j \in 1..(Len(t) - 1) : t[i].vrp = t[j].vrp => i = j
             /\ ~Announces(t, u) /\ ~Withdraws(t, u)
  <2>1. Len(q) # 1
    BY <1>4, <1>5 DEF Leads
  <2>2. Len(t) \in Nat \ {0} /\ t # <<>> /\ t[Len(t)] = q[Len(q)]
    BY <1>1, <1>2, <2>1
  <2>3. \A i \in 1..(Len(t) - 1) : t[i] = q[i + 1] /\ i + 1 \in 1..(Len(q) - 1)
    BY <1>1, <1>2
  <2>4. \A i \in 1..(Len(t) - 1) : t[i].pdu = "Prefix"
    BY <2>3 DEF Leads
  <2>5. \A i, j \in 1..(Len(t) - 1) : t[i].vrp = t[j].vrp => i = j
    <3> SUFFICES ASSUME NEW i \in 1..(Len(t) - 1), NEW j \in 1..(Len(t) - 1), t[i].vrp = t[j].vrp
                 PROVE  i = j
      OBVIOUS
    <3>1. /\ i + 1 \in 1..(Len(q) - 1) /\ j + 1 \in 1..(Len(q) - 1)
          /\ q[i + 1].vrp = q[j + 1].vrp
      BY <2>3, SMTT(60)
    <3>2. i + 1 = j + 1
      BY <3>1, Zenon DEF Leads
    <3> QED BY <3>2
  <2>6. ASSUME NEW i \in 1..Len(t), t[i] = Announcement(u) \/ t[i] = Withdrawal(u)
        PROVE  FALSE
    <3>1. i # Len(t)
      BY <2>6, <2>2, <1>4 DEF Leads
    <3>2. i \in 1..(Len(t) - 1) /\ i + 1 # 1 /\ 1 \in 1..(Len(q) - 1)
      BY <3>1, <2>2, <1>1
    <3>3. q[i + 1].vrp = q[1].vrp
      BY <3>2, <2>3, <2>6, <1>4, <1>5
    <3> QED BY <3>2, <3>3, <2>3 DEF Leads
  <2>7. ~Announces(t, u) /\ ~Withdraws(t, u)
    BY <2>6 DEF Announces, Withdraws
  <2> QED BY <2>2, <2>4, <2>5, <2>7 DEF Leads
<1>6. ASSUME q[1] = Announcement(u)
      PROVE  u \notin base /\ u \notin ann /\ Leads(t, base, ann \cup {u}, wd, goal, serial)
  <2>1. Announces(q, u) /\ u \notin base /\ u \notin ann
    BY <1>3, <1>6 DEF Leads
  <2>2. \A v \in Vrps : /\ Withdraws(q, v) <=> Withdraws(t, v)
                        /\ (v \in ann \/ Announces(q, v)) <=> (v \in ann \cup {u} \/ Announces(t, v))
    BY <1>3, <1>4, <1>6
  <2>3. \A v \in Vrps : v \in ann \cup {u} => ~Announces(t, v)
    BY <1>3, <1>5, <1>6 DEF Leads
  <2> QED BY <1>5, <1>6, <2>1, <2>2, <2>3, Zenon DEF Leads
<1>7. ASSUME q[1] = Withdrawal(u)
      PROVE  u \in base /\ Leads(t, base, ann, wd \cup {u}, goal, serial)
  <2>1. Withdraws(q, u) /\ u \in base
    BY <1>3, <1>7 DEF Leads
  <2>2. \A v \in Vrps : /\ Announces(q, v) <=> Announces(t, v)
                        /\ (v \in wd \/ Withdraws(q, v)) <=> (v \in wd \cup {u} \/ Withdraws(t, v))
    BY <1>3, <1>4, <1>7
  <2> QED BY <1>5, <1>7, <2>1, <2>2 DEF Leads
<1> QED BY <1>1, <1>6, <1>7 DEF t

\* At its End of Data an answer has brought the data of the version it is about.
LEMMA LeadsEnd ==
  ASSUME NEW q \in Seq(Pdus), NEW base, NEW ann, NEW wd, NEW goal, NEW serial,
         Leads(q, base, ann, wd, goal, serial), Head(q).pdu = "EndOfData"
  PROVE  /\ Tail(q) = <<>> /\ Head(q).serial = serial
         /\ \A v \in Vrps : v \in goal <=> v \in (base \cup ann) \ wd
<1>1. Len(q) \in Nat \ {0} /\ Head(q) = q[1]
  BY DEF Leads
<1>2. Len(q) = 1
  <2> SUFFICES ASSUME Len(q) # 1 PROVE FALSE
    OBVIOUS
  <2> DEFINE m == Len(q) - 1
  <2>1. m \in Nat \ {0}
    BY <1>1
  <2> HIDE DEF m
  <2>2. 1 \in 1..m
    BY <2>1
  <2> QED BY <1>1, <2>2 DEF Leads, m
<1>3. q[1] = [pdu |-> "EndOfData", serial |-> serial]
  BY <1>2 DEF Leads
<1>4. \A v : q[1] # Announcement(v) /\ q[1] # Withdrawal(v)
  BY <1>3 DEF Announcement, Withdrawal
<1>5. \A v : ~Announces(q, v) /\ ~Withdraws(q, v)
  BY <1>2, <1>4 DEF Announces, Withdraws
<1>6. \A v \in Vrps : v \in goal <=> v \in (base \cup ann) \ wd
  BY <1>5 DEF Leads
<1>7. Tail(q) \in Seq(Pdus) /\ Len(Tail(q)) = 0
  BY <1>1, <1>2
<1>8. Tail(q) = <<>>
  BY <1>7
<1> QED BY <1>1, <1>3, <1>6, <1>8

LEMMA ChangesFinite ==
  ASSUME NEW A \in SUBSET Vrps, NEW R \in SUBSET Vrps
  PROVE  IsFiniteSet(Changes(A, R))
<1> DEFINE an == {Announcement(v) : v \in A}
<1> DEFINE wd == {Withdrawal(v) : v \in R}
<1> DEFINE f == [v \in A |-> Announcement(v)]
<1> DEFINE g == [v \in R |-> Withdrawal(v)]
<1>1. IsFiniteSet(A) /\ IsFiniteSet(R)
  BY SessionAssumption, FS_Subset
<1>2. f \in Surjection(A, an) /\ g \in Surjection(R, wd)
  BY DEF Surjection
<1>3. IsFiniteSet(an) /\ IsFiniteSet(wd)
  <2> HIDE DEF f, g, an, wd
  <2> QED BY <1>1, <1>2, FS_Surjection
<1>4. Changes(A, R) = an \cup wd
  BY DEF Changes, Announcement, Withdrawal
<1> HIDE DEF an, wd
<1> QED BY <1>3, <1>4, FS_Union, Zenon

\* A conforming cache's answer leads a router that has base to base with the
\* added VRPs and without the removed ones.
LEMMA ResponseLeads ==
  ASSUME NEW base \in SUBSET Vrps, NEW A \in SUBSET Vrps, NEW R \in SUBSET Vrps,
         A \cap base = {}, R \subseteq base, cache.id \in 0..MaxId, SerialOf(Current) \in Serials,
         NEW a \in Responses(A, R)
  PROVE  /\ a \in Seq(Pdus) /\ a # <<>>
         /\ Head(a) = [pdu |-> "CacheResponse", id |-> cache.id]
         /\ Leads(Tail(a), base, {}, {}, (base \cup A) \ R, SerialOf(Current))
<1> DEFINE c == [pdu |-> "CacheResponse", id |-> cache.id]
<1> DEFINE e == [pdu |-> "EndOfData", serial |-> SerialOf(Current)]
<1> DEFINE S == Changes(A, R)
<1> DEFINE n == Cardinality(S)
<1>1. PICK l \in Bijection(1..n, S) : a = <<c>> \o l \o <<e>>
  BY Zenon DEF Responses
<1>2. n \in Nat
  BY ChangesFinite, FS_CardinalityType
<1>3. /\ l \in [1..n -> S]
      /\ \A i, j \in 1..n : l[i] = l[j] => i = j
      /\ \A p \in S : \E i \in 1..n : l[i] = p
  <2> HIDE DEF n, S
  <2> QED BY <1>1, Zenon DEF Bijection, Injection, Surjection, IsInjective
<1>4. S = {Announcement(v) : v \in A} \cup {Withdrawal(v) : v \in R}
  BY DEF Changes, Announcement, Withdrawal
<1>5. c \in Pdus /\ e \in Pdus /\ \A v \in Vrps : Announcement(v) \in Pdus /\ Withdrawal(v) \in Pdus
  BY DEF Pdus, Announcement, Withdrawal
<1>6. S \subseteq Pdus
  BY <1>4, <1>5
<1>7. \A v : /\ e # Announcement(v) /\ e # Withdrawal(v)
             /\ Announcement(v).pdu = "Prefix" /\ Withdrawal(v).pdu = "Prefix"
             /\ Announcement(v).vrp = v /\ Withdrawal(v).vrp = v
  BY DEF Announcement, Withdrawal
<1>8. \A u, v : Announcement(v) # Withdrawal(u)
  BY DEF Announcement, Withdrawal
<1>9. e = [pdu |-> "EndOfData", serial |-> SerialOf(Current)]
  OBVIOUS
<1>10. c = [pdu |-> "CacheResponse", id |-> cache.id]
  OBVIOUS
<1> HIDE DEF c, e, S, n
<1> DEFINE x == l \o <<e>>
<1>11. l \in Seq(Pdus) /\ Len(l) = n
  BY <1>2, <1>3, <1>6
<1>12. x \in Seq(Pdus) /\ Len(x) = n + 1 /\ x[n + 1] = e /\ \A i \in 1..n : x[i] = l[i]
  BY <1>2, <1>5, <1>11
<1>13. a = <<c>> \o x
  BY <1>1, <1>5, <1>11
<1> HIDE DEF x
<1>14. a \in Seq(Pdus) /\ a # <<>> /\ Head(a) = c /\ Tail(a) = x
  BY <1>5, <1>12, <1>13
<1>15. \A v \in Vrps : Announces(x, v) <=> v \in A
  <2> SUFFICES ASSUME NEW v \in Vrps PROVE Announces(x, v) <=> v \in A
    OBVIOUS
  <2>1. ASSUME NEW i \in 1..Len(x), x[i] = Announcement(v) PROVE v \in A
    <3>1. i \in 1..n
      BY <2>1, <1>2, <1>7, <1>12
    <3>2. Announcement(v) \in S
      BY <2>1, <3>1, <1>3, <1>12
    <3>3. PICK u \in A : Announcement(v) = Announcement(u)
      BY <3>2, <1>4, <1>8, Zenon
    <3> QED BY <3>3, <1>7
  <2>2. ASSUME v \in A PROVE \E i \in 1..Len(x) : x[i] = Announcement(v)
    <3>1. PICK i \in 1..n : l[i] = Announcement(v)
      BY <2>2, <1>3, <1>4, ZenonT(60)
    <3>2. i \in 1..Len(x)
      BY <1>2, <1>12
    <3> QED BY <3>1, <3>2, <1>12
  <2> QED BY <2>1, <2>2 DEF Announces
<1>16. \A v \in Vrps : Withdraws(x, v) <=> v \in R
  <2> SUFFICES ASSUME NEW v \in Vrps PROVE Withdraws(x, v) <=> v \in R
    OBVIOUS
  <2>1. ASSUME NEW i \in 1..Len(x), x[i] = Withdrawal(v) PROVE v \in R
    <3>1. i \in 1..n
      BY <2>1, <1>2, <1>7, <1>12
    <3>2. Withdrawal(v) \in S
      BY <2>1, <3>1, <1>3, <1>12
    <3>3. PICK u \in R : Withdrawal(v) = Withdrawal(u)
      BY <3>2, <1>4, <1>8
    <3> QED BY <3>3, <1>7
  <2>2. ASSUME v \in R PROVE \E i \in 1..Len(x) : x[i] = Withdrawal(v)
    <3>1. PICK i \in 1..n : l[i] = Withdrawal(v)
      BY <2>2, <1>3, <1>4
    <3>2. i \in 1..Len(x)
      BY <1>2, <1>12
    <3> QED BY <3>1, <3>2, <1>12
  <2> QED BY <2>1, <2>2 DEF Withdraws
<1>17. Len(x) - 1 = n /\ x # <<>> /\ x[Len(x)] = e
  BY <1>2, <1>12
<1>18. \A i \in 1..n : x[i].pdu = "Prefix"
  BY <1>3, <1>4, <1>7, <1>12
<1>19. \A i, j \in 1..n : x[i].vrp = x[j].vrp => i = j
  <2> SUFFICES ASSUME NEW i \in 1..n, NEW j \in 1..n, x[i].vrp = x[j].vrp PROVE i = j
    OBVIOUS
  <2>1. \A p, q \in S : p.vrp = q.vrp => p = q
    BY <1>4, <1>7
  <2> QED BY <2>1, <1>3, <1>12
<1>20. Leads(x, base, {}, {}, (base \cup A) \ R, SerialOf(Current))
  BY <1>9, <1>15, <1>16, <1>17, <1>18, <1>19, Zenon DEF Leads
<1> QED BY <1>10, <1>14, <1>20, Zenon

-----------------------------------------------------------------------------
(* Types, and what the session has to do with the manager *)

LEMMA Constants ==
  ASSUME setup \in Setups
  PROVE  /\ MaxVersions \in Nat /\ MaxVersions < SerialSpace /\ SerialSpace \in Nat \ {0}
         /\ MaxId \in Nat /\ MaxUnderWay \in Nat /\ Expiry \in BOOLEAN
         /\ FirstSerial \in Nat /\ None \notin Serials /\ None \notin 0..MaxId
         /\ \A n \in Nat : SerialOf(n) \in Serials
BY SessionAssumption DEF MaxVersions, MaxId, MaxUnderWay, Expiry, None, Serials, SerialOf

LEMMA QueryType ==
  ASSUME NEW s \in Sessions
  PROVE  BuildQuery(s) \in Queries /\ [pdu |-> "ResetQuery"] \in Queries
BY DEF BuildQuery, Queries, Sessions, HasSerial

LEMMA DisconnectCore ==
  ASSUME Core, NEW s, WellFormed(s), Disconnect(s), blamed' \in BOOLEAN,
         UNCHANGED <<setup, cache>>
  PROVE  Core'
<1>1. session' = [s EXCEPT !.link = "down"] /\ UNCHANGED <<setup, cache, known>>
  BY DEF Disconnect
<1>2. Sessions' = Sessions /\ Queries' = Queries /\ Pdus' = Pdus /\ MaxId' = MaxId
      /\ MaxVersions' = MaxVersions /\ Current' = Current
  BY <1>1 DEF Sessions, Queries, Pdus, MaxId, MaxVersions, Current
<1>3. session' \in Sessions /\ session'.id = s.id /\ session'.serial = s.serial /\ session'.vrps = s.vrps
  BY <1>1 DEF WellFormed, Sessions
<1>4. WellFormed(session)'
  BY <1>1, <1>2, <1>3 DEF WellFormed, HasSerial
<1>5. /\ queries' = <<>> /\ answers' = <<>> /\ event'.kind = "Disconnected"
      /\ session'.link = "down"
  BY <1>1, Zenon DEF Disconnect, WellFormed, Sessions
<1> QED BY <1>1, <1>2, <1>4, <1>5 DEF Core

\* A step that changes neither the cache nor what the manager holds.
LEMMA SessionCore ==
  ASSUME Core, session.link = "up", UNCHANGED <<setup, cache, known>>,
         WellFormed(session'), session'.link = "up", session'.syncing => session'.id # None,
         queries' \in Seq(Queries), answers' \in Seq(Pdus), blamed' \in BOOLEAN,
         event' = NoEvent
  PROVE  Core'
<1>1. Sessions' = Sessions /\ Queries' = Queries /\ Pdus' = Pdus /\ MaxId' = MaxId
      /\ MaxVersions' = MaxVersions /\ Current' = Current
  BY DEF Sessions, Queries, Pdus, MaxId, MaxVersions, Current
<1>2. WellFormed(session)'
  BY <1>1 DEF WellFormed, HasSerial
<1> QED BY <1>1, <1>2 DEF Core, NoEvent

\* A query is written, or its write fails.
LEMMA SendQueryCore ==
  ASSUME Core, session.link = "up", NEW s, NEW t, WellFormed(s), s.link = "up", WellFormed(t),
         NEW q \in Queries, NEW unread \in Seq(Pdus),
         SendQuery(s, q, t, unread), blamed' \in BOOLEAN, UNCHANGED <<setup, cache>>
  PROVE  Core'
<1>1. CASE Disconnect(t)
  BY <1>1, DisconnectCore
<1>2. CASE /\ session' = [s EXCEPT !.syncing = FALSE] /\ queries' = Append(queries, q)
           /\ answers' = unread /\ event' = NoEvent /\ UNCHANGED known
  <2>1. /\ session' \in Sessions /\ session'.id = s.id /\ session'.serial = s.serial
        /\ session'.vrps = s.vrps /\ session'.link = "up" /\ ~session'.syncing
    BY <1>2, Zenon DEF WellFormed, Sessions
  <2>2. WellFormed(session')
    BY <2>1 DEF WellFormed, HasSerial
  <2>3. queries' \in Seq(Queries)
    BY <1>2 DEF Core
  <2> QED BY <1>2, <2>1, <2>2, <2>3, SessionCore
<1> QED BY <1>1, <1>2 DEF SendQuery

LEMMA ReceiveCore == Core /\ Receive => Core'
<1> SUFFICES ASSUME Core, Receive PROVE Core'
  OBVIOUS
<1> DEFINE m == Head(answers)
<1>1. /\ session.link = "up" /\ answers # <<>> /\ UNCHANGED <<setup, cache>>
      /\ m \in Pdus /\ Tail(answers) \in Seq(Pdus)
  BY DEF Receive, Core
<1>2. WellFormed(session) /\ session \in Sessions /\ queries \in Seq(Queries) /\ known \in SUBSET Vrps
  BY DEF Core, WellFormed
<1>3. session.syncing => session.id # None
  BY <1>1 DEF Core
<1>4. WellFormed(ResetSession(session)) /\ ResetSession(session).link = "up"
  <2>1. cache.id \in Nat
    BY Constants DEF Core
  <2>2. /\ ResetSession(session) \in Sessions /\ ResetSession(session).id = None
        /\ ResetSession(session).serial = None /\ ResetSession(session).link = "up"
    BY <1>1, <1>2, Zenon DEF ResetSession, Sessions
  <2> QED BY <2>1, <2>2 DEF WellFormed, HasSerial, None
<1>5. ASSUME ProtocolError PROVE Core'
  BY <1>1, <1>4, <1>5, DisconnectCore DEF ProtocolError
<1>6. ASSUME NEW s, WellFormed(s), s.link = "up", s.syncing => s.id # None,
             Continue(s), answers' = Tail(answers), blamed' = FALSE
      PROVE  Core'
  BY <1>1, <1>2, <1>6, SessionCore, Zenon DEF Continue
<1>7. CASE m.pdu = "SerialNotify"
  <2>1. SerialNotify(m) /\ blamed' = FALSE
    BY <1>7, Zenon DEF Receive
  <2>2. CASE Continue(session) /\ answers' = Tail(answers)
    BY <1>1, <1>2, <1>3, <1>6, <2>1, <2>2, Zenon
  <2>3. CASE SendQuery(session, BuildQuery(session), ResetSession(session), Tail(answers))
    BY <1>1, <1>2, <1>4, <2>1, <2>3, QueryType, SendQueryCore, Zenon
  <2> QED BY <2>1, <2>2, <2>3 DEF SerialNotify
<1>8. CASE m.pdu = "CacheResponse"
  <2>1. CacheResponse(m)
    BY <1>8, Zenon DEF Receive
  <2>2. CASE ProtocolError
    BY <1>5, <2>2
  <2> DEFINE s == [session EXCEPT !.id = m.id, !.syncing = TRUE, !.announced = {}, !.withdrawn = {}]
  <2>3. CASE session.id \in {None, m.id} /\ Continue(s) /\ answers' = Tail(answers) /\ blamed' = FALSE
    <3>1. m.id = cache.id /\ cache.id \in 0..MaxId /\ MaxId \in Nat
      BY <1>1, <1>8, Constants DEF Pdus, Core
    <3>2. /\ s \in Sessions /\ s.id = m.id /\ s.serial = session.serial /\ s.vrps = session.vrps
          /\ s.link = "up"
      BY <1>1, <1>2, <3>1, Zenon DEF Sessions
    <3>3. WellFormed(s)
      BY <1>2, <3>1, <3>2, Constants DEF WellFormed, HasSerial, None
    <3> HIDE DEF s
    <3>4. s.id # None
      BY <3>1, <3>2, Constants DEF Core
    <3> QED BY <1>6, <2>3, <3>2, <3>3, <3>4, Zenon
  <2> QED BY <2>1, <2>2, <2>3, Zenon DEF CacheResponse
<1>9. CASE m.pdu = "Prefix"
  <2>1. Prefix(m)
    BY <1>9, Zenon DEF Receive
  <2>2. CASE ProtocolError
    BY <1>5, <2>2
  <2> DEFINE a == [session EXCEPT !.announced = @ \cup {m.vrp}]
  <2> DEFINE w == [session EXCEPT !.withdrawn = @ \cup {m.vrp}]
  <2>3. m.vrp \in Vrps
    BY <1>1, <1>9 DEF Pdus
  <2>4. /\ a \in Sessions /\ a.id = session.id /\ a.serial = session.serial /\ a.vrps = session.vrps
        /\ a.link = "up" /\ a.syncing = session.syncing
    BY <1>1, <1>2, <2>3, Zenon DEF Sessions
  <2>5. /\ w \in Sessions /\ w.id = session.id /\ w.serial = session.serial /\ w.vrps = session.vrps
        /\ w.link = "up" /\ w.syncing = session.syncing
    BY <1>1, <1>2, <2>3, Zenon DEF Sessions
  <2> HIDE DEF a, w
  <2>6. WellFormed(a) /\ WellFormed(w)
    BY <1>2, <2>4, <2>5 DEF WellFormed, HasSerial
  <2>7. CASE (Continue(a) \/ Continue(w)) /\ answers' = Tail(answers) /\ blamed' = FALSE
    BY <1>6, <1>3, <2>4, <2>5, <2>6, <2>7, Zenon
  <2> QED BY <2>1, <2>2, <2>7, Zenon DEF Prefix, a, w
<1>10. CASE m.pdu = "EndOfData"
  <2>1. EndOfData(m)
    BY <1>10, Zenon DEF Receive
  <2>2. CASE ProtocolError
    BY <1>5, <2>2
  <2> DEFINE vrps == IF HasSerial(session) THEN (session.vrps \cup session.announced) \ session.withdrawn
                     ELSE session.announced
  <2>3. CASE /\ session' = [session EXCEPT !.syncing = FALSE, !.vrps = vrps, !.serial = m.serial,
                                           !.announced = {}, !.withdrawn = {}]
             /\ event' = [kind |-> "Batch", serial |-> m.serial, vrps |-> vrps]
             /\ known' = vrps /\ session.syncing
             /\ answers' = Tail(answers) /\ blamed' = FALSE /\ UNCHANGED queries
    <3>1. m.serial \in Serials
      BY <1>1, <1>10 DEF Pdus
    <3>2. vrps \in SUBSET Vrps
      BY <1>2 DEF Sessions
    <3> HIDE DEF vrps
    <3>3. /\ session' \in Sessions /\ session'.id = session.id /\ session'.vrps = vrps
          /\ session'.link = "up" /\ ~session'.syncing
      BY <1>1, <1>2, <2>3, <3>1, <3>2, Zenon DEF Sessions
    <3>4. Sessions' = Sessions /\ Queries' = Queries /\ Pdus' = Pdus /\ MaxId' = MaxId
          /\ MaxVersions' = MaxVersions /\ Current' = Current
      BY <1>1 DEF Sessions, Queries, Pdus, MaxId, MaxVersions, Current
    <3>5. WellFormed(session)'
      BY <1>1, <1>2, <1>3, <2>3, <3>3, <3>4, Zenon DEF WellFormed, HasSerial
    <3>6. event'.kind = "Batch"
      BY <2>3
    <3> QED BY <1>1, <1>2, <2>3, <3>2, <3>3, <3>4, <3>5, <3>6, Zenon DEF Core
  <2> QED BY <2>1, <2>2, <2>3, Zenon DEF EndOfData
<1>11. CASE m.pdu = "CacheReset"
  <2> DEFINE s == [ResetSession(session) EXCEPT !.vrps = {}]
  <2>1. SendQuery(s, [pdu |-> "ResetQuery"], s, Tail(answers)) /\ blamed' = FALSE
    BY <1>11, Zenon DEF Receive, CacheReset
  <2>2. s \in Sessions /\ s.id = ResetSession(session).id /\ s.serial = None /\ s.link = "up"
    BY <1>1, <1>2, Zenon DEF ResetSession, Sessions
  <2>3. WellFormed(s)
    BY <1>4, <2>2 DEF WellFormed, HasSerial
  <2> HIDE DEF s
  <2> QED BY <1>1, <1>2, <2>1, <2>2, <2>3, QueryType, SendQueryCore, Zenon
<1>12. CASE m.pdu = "NoDataAvailable"
  <2>1. Continue(session) /\ answers' = Tail(answers) /\ blamed' = FALSE
    BY <1>12, Zenon DEF Receive
  <2> QED BY <1>1, <1>2, <1>3, <1>6, <2>1, Zenon
<1>13. m.pdu \in {"SerialNotify", "CacheResponse", "Prefix", "EndOfData", "CacheReset", "NoDataAvailable"}
  BY <1>1, Zenon DEF Pdus
<1> QED BY <1>7, <1>8, <1>9, <1>10, <1>11, <1>12, <1>13, Zenon

LEMMA AnswerForm ==
  ASSUME Core, NEW q \in Queries, NEW a \in Answer(q)
  PROVE  /\ a \in Seq(Pdus) /\ a # <<>>
         /\ \/ Len(a) = 1 /\ Head(a).pdu \in {"CacheReset", "NoDataAvailable"}
            \/ /\ Head(a) = [pdu |-> "CacheResponse", id |-> cache.id] /\ Current \in 1..Current
               /\ \/ /\ q.pdu = "ResetQuery"
                     /\ Leads(Tail(a), {}, {}, {}, Content(Current), SerialOf(Current))
                  \/ /\ q.pdu = "SerialQuery" /\ q.id = cache.id
                     /\ \E k \in 1..Current :
                          /\ q.serial = SerialOf(k)
                          /\ Leads(Tail(a), Content(k), {}, {}, Content(Current), SerialOf(Current))
<1>1. /\ Current \in Nat /\ cache.id \in 0..MaxId /\ SerialOf(Current) \in Serials
      /\ \A n \in 1..Current : Content(n) \in SUBSET Vrps
  BY Constants, SMTT(60) DEF Core, Current, Content
<1>2. CASE Current = 0
  <2>1. a = <<[pdu |-> "NoDataAvailable"]>>
    BY <1>2 DEF Answer
  <2>2. [pdu |-> "NoDataAvailable"] \in Pdus
    BY Zenon DEF Pdus
  <2> QED BY <2>1, <2>2
<1>3. CASE Current # 0 /\ q.pdu = "ResetQuery"
  <2>1. a \in Responses(Content(Current), {})
    BY <1>3 DEF Answer
  <2>2. Current \in 1..Current
    BY <1>1, <1>3
  <2> DEFINE C == Content(Current)
  <2>3. C \in SUBSET Vrps /\ ({} \cup C) \ {} = C
    BY <1>1, <2>2
  <2> HIDE DEF C
  <2>4. /\ a \in Seq(Pdus) /\ a # <<>> /\ Head(a) = [pdu |-> "CacheResponse", id |-> cache.id]
        /\ Leads(Tail(a), {}, {}, {}, ({} \cup C) \ {}, SerialOf(Current))
    <3>1. a \in Responses(C, {})
      BY <2>1 DEF C
    <3>2. {} \in SUBSET Vrps /\ C \cap {} = {} /\ {} \subseteq {}
      OBVIOUS
    <3> QED BY <1>1, <2>3, <3>1, <3>2, ResponseLeads, Zenon
  <2>5. Leads(Tail(a), {}, {}, {}, C, SerialOf(Current))
    BY <2>3, <2>4
  <2> QED BY <1>3, <2>2, <2>4, <2>5, Zenon DEF C
<1>4. CASE Current # 0 /\ q.pdu # "ResetQuery"
  <2>1. q.pdu = "SerialQuery"
    BY <1>4, Zenon DEF Queries
  <2>2. CASE a = <<[pdu |-> "CacheReset"]>>
    <3>1. [pdu |-> "CacheReset"] \in Pdus
      BY Zenon DEF Pdus
    <3> QED BY <2>2, <3>1
  <2>3. CASE \E n \in {k \in 1..Current : q.id = cache.id /\ q.serial = SerialOf(k)} :
               a \in Responses(Content(Current) \ Content(n), Content(n) \ Content(Current))
    <3>1. PICK n \in 1..Current : /\ q.id = cache.id /\ q.serial = SerialOf(n)
            /\ a \in Responses(Content(Current) \ Content(n), Content(n) \ Content(Current))
      BY <2>3, Zenon
    <3>2. Current \in 1..Current
      BY <1>1, <1>4
    <3> DEFINE C == Content(Current)
    <3> DEFINE B == Content(n)
    <3>3. C \in SUBSET Vrps /\ B \in SUBSET Vrps
      BY <1>1, <3>2
    <3> HIDE DEF C, B
    <3>4. (B \cup (C \ B)) \ (B \ C) = C
      OBVIOUS
    <3>5. a \in Responses(C \ B, B \ C)
      BY <3>1 DEF B, C
    <3>6. (C \ B) \in SUBSET Vrps /\ (B \ C) \in SUBSET Vrps /\ (C \ B) \cap B = {} /\ (B \ C) \subseteq B
      BY <3>3
    <3>7. /\ a \in Seq(Pdus) /\ a # <<>> /\ Head(a) = [pdu |-> "CacheResponse", id |-> cache.id]
          /\ Leads(Tail(a), B, {}, {}, (B \cup (C \ B)) \ (B \ C), SerialOf(Current))
      BY <1>1, <3>3, <3>5, <3>6, ResponseLeads, Zenon
    <3>8. Leads(Tail(a), B, {}, {}, C, SerialOf(Current))
      BY <3>4, <3>7, Zenon
    <3> QED BY <2>1, <3>1, <3>2, <3>7, <3>8, Zenon DEF B, C
  <2> QED BY <1>4, <2>2, <2>3, Zenon DEF Answer
<1> QED BY <1>2, <1>3, <1>4, Zenon

LEMMA CoreStep == Core /\ [Next]_vars => Core'
<1> SUFFICES ASSUME Core, [Next]_vars PROVE Core'
  BY Zenon
<1>1. /\ WellFormed(session) /\ session \in Sessions /\ queries \in Seq(Queries) /\ answers \in Seq(Pdus)
      /\ known \in SUBSET Vrps /\ cache.id \in Nat /\ MaxId \in Nat
  BY Constants DEF Core, WellFormed
<1>2. CASE Connect
  <2>1. UNCHANGED <<setup, cache, answers, known>> /\ blamed' = FALSE
    BY <1>2 DEF Connect
  <2>2. Sessions' = Sessions /\ Queries' = Queries /\ Pdus' = Pdus /\ MaxId' = MaxId
        /\ MaxVersions' = MaxVersions /\ Current' = Current
    BY <2>1 DEF Sessions, Queries, Pdus, MaxId, MaxVersions, Current
  <2>3. CASE /\ session' = [session EXCEPT !.link = "up", !.syncing = FALSE]
             /\ queries' = <<BuildQuery(session)>> /\ event' = NoEvent
    <3>1. /\ session' \in Sessions /\ session'.id = session.id /\ session'.serial = session.serial
          /\ session'.vrps = session.vrps /\ session'.link = "up" /\ ~session'.syncing
      BY <1>1, <2>3, Zenon DEF Sessions
    <3>2. WellFormed(session)'
      BY <1>1, <2>1, <2>2, <3>1 DEF WellFormed, HasSerial
    <3>3. queries' \in Seq(Queries)
      BY <1>1, <2>3, QueryType
    <3> QED BY <2>1, <2>2, <2>3, <3>1, <3>2, <3>3, Zenon DEF Core, NoEvent
  <2>4. CASE event' = [kind |-> "Disconnected"] /\ UNCHANGED <<session, queries>>
    <3>1. WellFormed(session)'
      BY <1>1, <2>1, <2>2, <2>4 DEF WellFormed, HasSerial
    <3> QED BY <2>1, <2>2, <2>4, <3>1, Zenon DEF Core
  <2> QED BY <1>2, <2>3, <2>4 DEF Connect
<1>3. CASE LoseConnection
  BY <1>1, <1>3, DisconnectCore, Zenon DEF LoseConnection
<1>4. CASE Receive
  BY <1>4, ReceiveCore
<1>5. CASE RefreshTimer
  BY <1>1, <1>5, QueryType, SendQueryCore, Zenon DEF RefreshTimer
<1>6. CASE ExpireTimer
  <2>1. UNCHANGED <<setup, cache, queries, answers>> /\ blamed' = FALSE /\ known' = {}
        /\ session' = [session EXCEPT !.vrps = {}] /\ event' = [kind |-> "Expired"]
    BY <1>6 DEF ExpireTimer
  <2>2. Sessions' = Sessions /\ Queries' = Queries /\ Pdus' = Pdus /\ MaxId' = MaxId
        /\ MaxVersions' = MaxVersions /\ Current' = Current
    BY <2>1 DEF Sessions, Queries, Pdus, MaxId, MaxVersions, Current
  <2>3. /\ session' \in Sessions /\ session'.id = session.id /\ session'.serial = session.serial
        /\ session'.vrps = {} /\ session'.link = session.link /\ session'.syncing = session.syncing
    BY <1>1, <2>1, Zenon DEF Sessions
  <2>4. WellFormed(session)'
    BY <1>1, <2>1, <2>2, <2>3 DEF WellFormed, HasSerial
  <2> QED BY <2>1, <2>2, <2>3, <2>4, Zenon DEF Core
<1>7. CASE Shutdown
  <2>1. UNCHANGED <<setup, cache, known>> /\ queries' = <<>> /\ answers' = <<>> /\ blamed' = FALSE
        /\ session' = [session EXCEPT !.link = "ended"] /\ event' = NoEvent
    BY <1>7 DEF Shutdown
  <2>2. Sessions' = Sessions /\ Queries' = Queries /\ Pdus' = Pdus /\ MaxId' = MaxId
        /\ MaxVersions' = MaxVersions /\ Current' = Current
    BY <2>1 DEF Sessions, Queries, Pdus, MaxId, MaxVersions, Current
  <2>3. /\ session' \in Sessions /\ session'.id = session.id /\ session'.serial = session.serial
        /\ session'.vrps = session.vrps /\ session'.link = "ended"
    BY <1>1, <2>1, Zenon DEF Sessions
  <2>4. WellFormed(session)'
    BY <1>1, <2>1, <2>2, <2>3 DEF WellFormed, HasSerial
  <2>5. queries' \in Seq(Queries) /\ answers' \in Seq(Pdus) /\ event'.kind = "none"
    BY <2>1 DEF NoEvent
  <2> QED BY <2>1, <2>2, <2>3, <2>4, <2>5, Zenon DEF Core
<1>8. CASE CacheAnswers
  <2>1. PICK a \in Answer(Head(queries)) : answers' = answers \o a
    BY <1>8, Zenon DEF CacheAnswers
  <2>2. Head(queries) \in Queries /\ Tail(queries) \in Seq(Queries)
    BY <1>1, <1>8 DEF CacheAnswers
  <2>3. answers' \in Seq(Pdus)
    BY <1>1, <2>1, <2>2, AnswerForm
  <2>4. session.link = "up" /\ session' = session
    BY <1>8 DEF CacheAnswers
  <2>5. session'.syncing => session'.id # None
    BY <2>4 DEF Core
  <2> QED BY <1>1, <1>8, <2>2, <2>3, <2>4, <2>5, SessionCore, Zenon DEF CacheAnswers
<1>9. CASE CacheUpdates
  <2>1. PICK S \in SUBSET Vrps : cache' = [cache EXCEPT !.versions = Append(@, S)]
    BY <1>9, Zenon DEF CacheUpdates
  <2>2. UNCHANGED <<setup, session, queries, known>> /\ blamed' = FALSE /\ event' = NoEvent
        /\ Current < MaxVersions
    BY <1>9 DEF CacheUpdates
  <2>3. cache \in [id : 0..MaxId, versions : Seq(SUBSET Vrps)]
    BY DEF Core
  <2>4. cache' \in [id : 0..MaxId, versions : Seq(SUBSET Vrps)] /\ cache'.id = cache.id
        /\ Len(cache'.versions) = Current + 1 /\ Current \in Nat /\ MaxVersions \in Nat
    <3> DEFINE vs == cache.versions
    <3>1. vs \in Seq(SUBSET Vrps)
      BY <2>3
    <3>2. Append(vs, S) \in Seq(SUBSET Vrps) /\ Len(Append(vs, S)) = Len(vs) + 1 /\ Len(vs) \in Nat
      BY <3>1
    <3>3. cache'.id = cache.id /\ cache'.versions = Append(vs, S)
          /\ (Append(vs, S) \in Seq(SUBSET Vrps) => cache' \in [id : 0..MaxId, versions : Seq(SUBSET Vrps)])
      BY <2>1, <2>3, Zenon
    <3> QED BY <3>2, <3>3, Constants DEF Current, Core
  <2>5. Sessions' = Sessions /\ Queries' = Queries /\ Pdus' = Pdus /\ MaxId' = MaxId
        /\ MaxVersions' = MaxVersions /\ Current' = Current + 1
    BY <2>2, <2>4, Zenon DEF Sessions, Queries, Pdus, MaxId, MaxVersions, Current
  <2>6. WellFormed(session)'
    BY <1>1, <2>2, <2>4, <2>5, Zenon DEF WellFormed, HasSerial
  <2>7. [pdu |-> "SerialNotify", serial |-> SerialOf(Current + 1)] \in Pdus
    BY <2>4, Constants DEF Pdus, Core
  <2>8. answers' \in Seq(Pdus)
    BY <1>1, <1>9, <2>7, SMTT(60) DEF CacheUpdates
  <2>9. session.link # "up" => answers' = answers
    BY <1>9 DEF CacheUpdates
  <2>10. Current' <= MaxVersions' /\ event'.kind = "none"
    BY <2>2, <2>4, <2>5 DEF NoEvent
  <2> QED BY <2>2, <2>4, <2>5, <2>6, <2>8, <2>9, <2>10, Zenon DEF Core
<1>10. CASE CacheRestarts
  <2>1. cache' = [id |-> cache.id + 1, versions |-> <<>>] /\ UNCHANGED <<setup, known>> /\ blamed' = FALSE
        /\ cache.id < MaxId
    BY <1>10, Zenon DEF CacheRestarts, Disconnect
  <2>2. cache' \in [id : 0..MaxId, versions : Seq(SUBSET Vrps)] /\ cache'.id = cache.id + 1
        /\ Len(cache'.versions) = 0 /\ MaxVersions \in Nat
    BY <1>1, <2>1, Constants DEF Core
  <2>3. Sessions' = Sessions /\ Queries' = Queries /\ MaxId' = MaxId
        /\ MaxVersions' = MaxVersions /\ Current' = 0
    BY <2>1, <2>2, Zenon DEF Sessions, Queries, MaxId, MaxVersions, Current
  <2>4. /\ session' \in Sessions /\ session'.id = session.id /\ session'.serial = session.serial
        /\ session'.vrps = session.vrps /\ session'.link # "up" /\ queries' = <<>> /\ answers' = <<>>
        /\ event'.kind \in {"none", "Disconnected"}
    <3>1. CASE session.link = "up"
      <4>1. /\ session' = [session EXCEPT !.link = "down"] /\ queries' = <<>> /\ answers' = <<>>
            /\ event'.kind = "Disconnected"
        BY <1>10, <3>1 DEF CacheRestarts, Disconnect
      <4> QED BY <1>1, <4>1, Zenon DEF Sessions
    <3>2. CASE session.link # "up"
      BY <1>1, <1>10, <3>2 DEF CacheRestarts, Core, NoEvent
    <3> QED BY <3>1, <3>2
  <2>5. session'.id <= cache'.id
    BY <1>1, <2>2, <2>4 DEF WellFormed, Sessions, None
  <2>6. WellFormed(session)'
    BY <1>1, <2>1, <2>3, <2>4, <2>5, Zenon DEF WellFormed, HasSerial
  <2>7. queries' \in Seq(Queries') /\ answers' \in Seq(Pdus') /\ Current' <= MaxVersions'
    BY <2>2, <2>3, <2>4
  <2> QED BY <1>1, <2>1, <2>2, <2>3, <2>4, <2>6, <2>7, Zenon DEF Core
<1>11. CASE UNCHANGED vars
  <2>1. Sessions' = Sessions /\ Queries' = Queries /\ Pdus' = Pdus /\ MaxId' = MaxId
        /\ MaxVersions' = MaxVersions /\ Current' = Current
    BY <1>11, Zenon DEF vars, Sessions, Queries, Pdus, MaxId, MaxVersions, Current
  <2>2. WellFormed(session)'
    BY <1>1, <1>11, <2>1 DEF vars, WellFormed, HasSerial
  <2> QED BY <1>11, <2>1, <2>2, Zenon DEF vars, Core
<1> QED BY <1>2, <1>3, <1>4, <1>5, <1>6, <1>7, <1>8, <1>9, <1>10, <1>11, ZenonT(60) DEF Next

-----------------------------------------------------------------------------
(* Exchanges *)

\* The serial number of a version names no other version.
LEMMA SerialUnique ==
  ASSUME Core, NEW i \in 1..Current, NEW j \in 1..Current, SerialOf(i) = SerialOf(j)
  PROVE  i = j
<1>1. /\ Current \in Nat /\ SerialSpace \in Nat \ {0} /\ Current < SerialSpace /\ FirstSerial \in Nat
  BY Constants, SMTT(60) DEF Core, Current
<1>2. ASSUME NEW a \in 1..Current, NEW b \in 1..Current, SerialOf(a) = SerialOf(b), a <= b
      PROVE  a = b
  <2>1. FirstSerial + a \in Nat /\ FirstSerial + b \in Nat /\ (FirstSerial + b) - (FirstSerial + a) < SerialSpace
        /\ FirstSerial + a <= FirstSerial + b
    BY <1>1, <1>2
  <2>2. (FirstSerial + a) % SerialSpace = (FirstSerial + b) % SerialSpace
    BY <1>2 DEF SerialOf
  <2>3. FirstSerial + a = FirstSerial + b
    BY <1>1, <2>1, <2>2, ModUnique, Zenon
  <2> QED BY <1>1, <2>3
<1>3. i <= j \/ j <= i
  BY <1>1
<1> QED BY <1>2, <1>3

\* The query depends on the identifier and the serial number only.
LEMMA SameQuery ==
  ASSUME NEW s, NEW t, s.id = t.id, s.serial = t.serial
  PROVE  BuildQuery(s) = BuildQuery(t)
BY DEF BuildQuery, HasSerial

\* Nothing is on the connection, and the session's data is as it was or will be
\* asked for from the start.
LEMMA QuietSafe ==
  ASSUME Inv, UNCHANGED <<setup, cache>>, queries' = <<>>, answers' = <<>>, event'.kind # "Batch",
         \/ session'.serial = None
         \/ session'.id = session.id /\ session'.serial = session.serial /\ session'.vrps = session.vrps
  PROVE  DataIsCacheState' /\ (Undisturbed => Exchange)'
<1>1. Undisturbed' = Undisturbed /\ Current' = Current /\ \A n : Content(n)' = Content(n)
  BY DEF Undisturbed, Expiry, MaxUnderWay, Current, Content
<1>2. BatchIsCacheState'
  BY DEF BatchIsCacheState, BatchIsComplete
<1>3. SerialNamesVersion'
  BY <1>1 DEF Inv, DataIsCacheState, SerialNamesVersion, HasSerial
<1>4. Exchange'
  BY DEF Exchange
<1> QED BY <1>2, <1>3, <1>4 DEF DataIsCacheState

\* A query goes out while nothing else is under way.
LEMMA QuerySafe ==
  ASSUME Inv, UNCHANGED <<setup, cache>>, NEW s, NEW t, NEW unread, NEW q,
         SendQuery(s, q, t, unread), queries = <<>>, unread = <<>>, q = BuildQuery(s),
         s \in Sessions, t \in Sessions,
         \/ s.serial = None
         \/ s.id = session.id /\ s.serial = session.serial /\ s.vrps = session.vrps,
         \/ t.serial = None
         \/ t.id = session.id /\ t.serial = session.serial /\ t.vrps = session.vrps
  PROVE  DataIsCacheState' /\ (Undisturbed => Exchange)'
<1>1. CASE Disconnect(t)
  <2>1. queries' = <<>> /\ answers' = <<>> /\ event'.kind # "Batch" /\ session' = [t EXCEPT !.link = "down"]
    BY <1>1 DEF Disconnect
  <2>2. session'.id = t.id /\ session'.serial = t.serial /\ session'.vrps = t.vrps
    BY <2>1 DEF Sessions
  <2> QED BY <2>1, <2>2, QuietSafe
<1>2. CASE /\ session' = [s EXCEPT !.syncing = FALSE] /\ queries' = Append(queries, q)
           /\ answers' = unread /\ event' = NoEvent
  <2>1. /\ session'.id = s.id /\ session'.serial = s.serial /\ session'.vrps = s.vrps
        /\ ~session'.syncing
    BY <1>2, Zenon DEF Sessions
  <2>2. Undisturbed' = Undisturbed /\ Current' = Current /\ \A n : Content(n)' = Content(n)
    BY DEF Undisturbed, Expiry, MaxUnderWay, Current, Content
  <2>3. BatchIsCacheState'
    BY <1>2, Zenon DEF BatchIsCacheState, BatchIsComplete, NoEvent
  <2>4. SerialNamesVersion'
    BY <2>1, <2>2 DEF Inv, DataIsCacheState, SerialNamesVersion, HasSerial
  <2>5. queries' = <<q>> /\ answers' = <<>>
    BY <1>2
  <2>6. q = BuildQuery(session')
    BY <2>1, SameQuery, Zenon
  <2>7. Exchange'
    BY <2>1, <2>5, <2>6, Zenon DEF Exchange, BuildQuery, HasSerial
  <2> QED BY <2>3, <2>4, <2>7 DEF DataIsCacheState
<1> QED BY <1>1, <1>2 DEF SendQuery

LEMMA ReceiveSafe ==
  ASSUME Inv, Receive, Undisturbed
  PROVE  /\ DataIsCacheState' /\ Exchange'
         /\ blamed' => session.id \notin {None, cache.id} /\ ~HasSerial(session)
<1> DEFINE m == Head(answers)
<1>1. /\ session.link = "up" /\ answers # <<>> /\ UNCHANGED <<setup, cache>>
      /\ answers \in Seq(Pdus) /\ m \in Pdus /\ session \in Sessions
  BY DEF Receive, Inv, Core, WellFormed
<1>2. Undisturbed' /\ Current' = Current /\ \A n : Content(n)' = Content(n)
  BY <1>1 DEF Undisturbed, Expiry, MaxUnderWay, Current, Content
<1>3. /\ Current \in Nat /\ \A n \in 1..Current : Content(n) \in SUBSET Vrps
      /\ (session.syncing => session.id # None)
  BY <1>1 DEF Inv, Core, Current, Content
<1>4. /\ queries = <<>>
      /\ \/ Len(answers) = 1 /\ m.pdu \in {"SerialNotify", "CacheReset", "NoDataAvailable"}
         \/ Answered \/ Reading
  BY <1>1 DEF Inv, Exchange
<1>5. ASSUME Continue(session), answers' = Tail(answers), Len(answers) = 1
      PROVE  DataIsCacheState' /\ Exchange'
  <2>1. answers' = <<>> /\ queries' = <<>> /\ event'.kind # "Batch"
    BY <1>1, <1>4, <1>5 DEF Continue, NoEvent
  <2> QED BY <1>1, <1>2, <1>5, <2>1, QuietSafe, Zenon DEF Continue
<1>6. /\ ResetSession(session) \in Sessions /\ ResetSession(session).serial = None
      /\ ResetSession(session).id = None
  BY <1>1, Zenon DEF ResetSession, Sessions
<1>7. ASSUME ProtocolError PROVE DataIsCacheState' /\ Exchange'
  <2>1. /\ session' = [ResetSession(session) EXCEPT !.link = "down"] /\ event'.kind # "Batch"
        /\ queries' = <<>> /\ answers' = <<>>
    BY <1>7 DEF ProtocolError, Disconnect
  <2>2. session'.serial = None
    BY <1>6, <2>1 DEF Sessions
  <2> QED BY <1>1, <1>2, <2>1, <2>2, QuietSafe
<1>8. CASE Len(answers) = 1 /\ m.pdu \in {"SerialNotify", "CacheReset", "NoDataAvailable"}
  <2>1. Tail(answers) = <<>>
    <3>1. Tail(answers) \in Seq(Pdus) /\ Len(Tail(answers)) = 0
      BY <1>1, <1>8
    <3> QED BY <3>1, EmptySeq, Zenon
  <2>2. CASE m.pdu = "SerialNotify"
    <3>1. SerialNotify(m) /\ blamed' = FALSE
      BY <2>2, Zenon DEF Receive
    <3>2. CASE Continue(session) /\ answers' = Tail(answers)
      BY <1>5, <1>8, <3>1, <3>2
    <3>3. CASE SendQuery(session, BuildQuery(session), ResetSession(session), Tail(answers))
      BY <1>1, <1>2, <1>4, <1>6, <2>1, <3>1, <3>3, QuerySafe, Zenon
    <3> QED BY <3>1, <3>2, <3>3 DEF SerialNotify
  <2>3. CASE m.pdu = "CacheReset"
    <3> DEFINE s == [ResetSession(session) EXCEPT !.vrps = {}]
    <3>1. SendQuery(s, [pdu |-> "ResetQuery"], s, Tail(answers)) /\ blamed' = FALSE
      BY <2>3, Zenon DEF Receive, CacheReset
    <3>2. s \in Sessions /\ s.id = None /\ s.serial = None
      BY <1>6 DEF Sessions
    <3> HIDE DEF s
    <3>3. BuildQuery(s) = [pdu |-> "ResetQuery"]
      BY <3>2 DEF BuildQuery
    <3> QED BY <1>1, <1>2, <1>4, <2>1, <3>1, <3>2, <3>3, QuerySafe, Zenon
  <2>4. CASE m.pdu = "NoDataAvailable"
    <3>1. Continue(session) /\ answers' = Tail(answers) /\ blamed' = FALSE
      BY <2>4, Zenon DEF Receive
    <3> QED BY <1>5, <1>8, <3>1
  <2> QED BY <1>8, <2>2, <2>3, <2>4
<1>9. CASE Answered
  <2>1. /\ m.pdu = "CacheResponse" /\ m.id = cache.id /\ ~session.syncing
        /\ session.id \in {None, cache.id} \/ ~HasSerial(session)
    BY <1>9 DEF Answered
  <2>2. CacheResponse(m)
    BY <2>1, Zenon DEF Receive
  <2>3. CASE session.id \notin {None, m.id}
    BY <1>7, <2>1, <2>2, <2>3 DEF CacheResponse
  <2>4. CASE session.id \in {None, m.id}
    <3>1. /\ session' = [session EXCEPT !.id = m.id, !.syncing = TRUE, !.announced = {}, !.withdrawn = {}]
          /\ event' = NoEvent /\ queries' = <<>> /\ answers' = Tail(answers) /\ blamed' = FALSE
      BY <1>4, <2>1, <2>2, <2>4 DEF CacheResponse, Continue
    <3>2. /\ session'.id = cache.id /\ session'.syncing /\ session'.announced = {}
          /\ session'.withdrawn = {} /\ session'.serial = session.serial /\ session'.vrps = session.vrps
      BY <1>1, <2>1, <3>1, Zenon DEF Sessions
    <3>3. PICK n \in 1..Current : Leads(Tail(answers), Base, {}, {}, Content(n), SerialOf(n))
      BY <1>9 DEF Answered
    <3>4. answers' # <<>> /\ Base' = Base
      BY <3>1, <3>2, <3>3 DEF Leads, Base, HasSerial
    <3>5. Leads(answers', Base', session'.announced, session'.withdrawn, Content(n)', SerialOf(n))
      BY <1>2, <3>1, <3>2, <3>3, <3>4, Zenon
    <3>6. Reading'
      BY <1>1, <1>2, <3>2, <3>5 DEF Reading
    <3>7. Exchange'
      BY <3>1, <3>4, <3>6 DEF Exchange
    <3>8. BatchIsCacheState'
      BY <3>1 DEF BatchIsCacheState, BatchIsComplete, NoEvent
    <3>9. HasSerial(session) => session.id = cache.id
      BY <2>1, <2>4, Zenon DEF Inv, Core, WellFormed
    <3>10. SerialNamesVersion'
      BY <1>1, <1>2, <3>2, <3>9, Zenon DEF Inv, DataIsCacheState, SerialNamesVersion, HasSerial
    <3> QED BY <3>1, <3>7, <3>8, <3>10 DEF DataIsCacheState
  <2> QED BY <2>3, <2>4, Zenon
<1>10. CASE Reading
  <2>1. session.syncing /\ session.id = cache.id
    BY <1>10, Zenon DEF Reading
  <2>2. PICK n \in 1..Current :
          Leads(answers, Base, session.announced, session.withdrawn, Content(n), SerialOf(n))
    BY <1>10 DEF Reading
  <2>3. m = answers[1] /\ Len(answers) \in Nat \ {0}
    BY <1>1
  <2>4. m.pdu \in {"Prefix", "EndOfData"}
    <3>1. CASE Len(answers) = 1
      BY <2>2, <2>3, <3>1 DEF Leads
    <3>2. CASE Len(answers) # 1
      <4>1. 1 \in 1..(Len(answers) - 1)
        BY <2>3, <3>2, SMTT(60)
      <4> QED BY <2>2, <2>3, <4>1 DEF Leads
    <3> QED BY <3>1, <3>2, Zenon
  <2>5. Base \in SUBSET Vrps /\ Content(n) \in SUBSET Vrps /\ session.announced \in SUBSET Vrps
        /\ \A v : v \in Base <=> HasSerial(session) /\ v \in session.vrps
    BY <1>1, <1>3 DEF Base, Sessions
  <2>8. ASSUME Continue(session'), answers' = Tail(answers), blamed' = FALSE,
               session'.id = session.id, session'.serial = session.serial,
               session'.vrps = session.vrps, session'.syncing = session.syncing,
               Leads(Tail(answers), Base, session'.announced, session'.withdrawn, Content(n), SerialOf(n))
        PROVE  DataIsCacheState' /\ Exchange' /\ ~blamed'
    <3>1. queries' = <<>> /\ event'.kind # "Batch" /\ answers' # <<>> /\ Base' = Base
      BY <1>4, <2>8, Zenon DEF Continue, NoEvent, Leads, Base, HasSerial
    <3>2. Leads(answers', Base', session'.announced, session'.withdrawn, Content(n)', SerialOf(n))
      BY <1>2, <2>8, <3>1, Zenon
    <3>3. Reading'
      BY <1>1, <1>2, <2>1, <2>8, <3>2, Zenon DEF Reading
    <3>4. Exchange'
      BY <3>1, <3>3 DEF Exchange
    <3>5. BatchIsCacheState'
      BY <3>1, Zenon DEF BatchIsCacheState, BatchIsComplete
    <3>6. SerialNamesVersion'
      BY <1>1, <1>2, <2>8 DEF Inv, DataIsCacheState, SerialNamesVersion, HasSerial
    <3> QED BY <2>8, <3>4, <3>5, <3>6 DEF DataIsCacheState
  <2>6. CASE m.pdu = "Prefix"
    <3> DEFINE u == m.vrp
    <3>1. u \in Vrps /\ m.announce \in BOOLEAN /\ m = [pdu |-> "Prefix", announce |-> m.announce, vrp |-> u]
      BY <1>1, <2>6 DEF Pdus
    <3>2. CASE m.announce = TRUE
      <4>1. m = Announcement(u)
        BY <3>1, <3>2 DEF Announcement
      <4>2. /\ u \notin Base /\ u \notin session.announced
            /\ Leads(Tail(answers), Base, session.announced \cup {u}, session.withdrawn, Content(n), SerialOf(n))
        <5>1. answers \in Seq(Pdus) /\ u \in Vrps /\ Head(answers) = Announcement(u)
          BY <1>1, <3>1, <4>1
        <5> QED BY <2>2, <5>1, LeadsPrefix, Zenon
      <4>3. Continue([session EXCEPT !.announced = @ \cup {m.vrp}]) /\ answers' = Tail(answers) /\ blamed' = FALSE
        BY <2>1, <2>5, <2>6, <3>2, <4>2, Zenon DEF Receive, Prefix
      <4>4. /\ session'.announced = session.announced \cup {u} /\ session'.withdrawn = session.withdrawn
            /\ session'.id = session.id /\ session'.serial = session.serial
            /\ session'.vrps = session.vrps /\ session'.syncing = session.syncing
        BY <1>1, <4>3 DEF Continue, Sessions
      <4> QED BY <2>8, <4>2, <4>3, <4>4, Zenon DEF Continue
    <3>3. CASE m.announce = FALSE
      <4>1. m = Withdrawal(u)
        BY <3>1, <3>3 DEF Withdrawal
      <4>2. /\ u \in Base
            /\ Leads(Tail(answers), Base, session.announced, session.withdrawn \cup {u}, Content(n), SerialOf(n))
        <5>1. answers \in Seq(Pdus) /\ u \in Vrps /\ Head(answers) = Withdrawal(u)
          BY <1>1, <3>1, <4>1
        <5> QED BY <2>2, <5>1, LeadsPrefix, Zenon
      <4>3. Continue([session EXCEPT !.withdrawn = @ \cup {m.vrp}]) /\ answers' = Tail(answers) /\ blamed' = FALSE
        <5>1. Prefix(m)
          BY <2>6, Zenon DEF Receive
        <5>2. HasSerial(session) /\ m.vrp \in session.vrps
          BY <2>5, <4>2
        <5> QED BY <2>1, <3>3, <5>1, <5>2, Zenon DEF Prefix
      <4>4. /\ session'.announced = session.announced /\ session'.withdrawn = session.withdrawn \cup {u}
            /\ session'.id = session.id /\ session'.serial = session.serial
            /\ session'.vrps = session.vrps /\ session'.syncing = session.syncing
        BY <1>1, <4>3 DEF Continue, Sessions
      <4> QED BY <2>8, <4>2, <4>3, <4>4, Zenon DEF Continue
    <3> QED BY <3>1, <3>2, <3>3, Zenon
  <2>7. CASE m.pdu = "EndOfData"
    <3> DEFINE vrps == IF HasSerial(session) THEN (session.vrps \cup session.announced) \ session.withdrawn
                       ELSE session.announced
    <3>1. /\ Tail(answers) = <<>> /\ m.serial = SerialOf(n)
          /\ Content(n) = (Base \cup session.announced) \ session.withdrawn
      <4>1. answers \in Seq(Pdus) /\ Head(answers).pdu = "EndOfData"
        BY <1>1, <2>7, Zenon
      <4>2. /\ Tail(answers) = <<>> /\ m.serial = SerialOf(n)
            /\ \A v \in Vrps : v \in Content(n) <=> v \in (Base \cup session.announced) \ session.withdrawn
        <5> DEFINE b == Base
        <5> DEFINE a == session.announced
        <5> DEFINE w == session.withdrawn
        <5> DEFINE g == Content(n)
        <5> DEFINE k == SerialOf(n)
        <5>1. Leads(answers, b, a, w, g, k)
          BY <2>2, Zenon
        <5> HIDE DEF b, a, w, g, k
        <5>2. /\ Tail(answers) = <<>> /\ Head(answers).serial = k
              /\ \A v \in Vrps : v \in g <=> v \in (b \cup a) \ w
          BY <4>1, <5>1, LeadsEnd
        <5> QED BY <5>2 DEF b, a, w, g, k
      <4> QED BY <2>5, <4>2
    <3>2. ~HasSerial(session) => session.withdrawn = {}
      BY <1>1, <2>2, <2>5 DEF Leads, Sessions
    <3>3. vrps = Content(n)
      BY <3>1, <3>2 DEF Base
    <3> HIDE DEF vrps
    <3>4. /\ session' = [session EXCEPT !.syncing = FALSE, !.vrps = vrps, !.serial = m.serial,
                                        !.announced = {}, !.withdrawn = {}]
          /\ event' = [kind |-> "Batch", serial |-> m.serial, vrps |-> vrps]
          /\ answers' = <<>> /\ queries' = <<>> /\ blamed' = FALSE
      BY <1>4, <2>1, <2>7, <3>1, Zenon DEF Receive, EndOfData, vrps
    <3>5. session'.vrps = Content(n) /\ session'.serial = SerialOf(n)
      BY <1>1, <3>1, <3>3, <3>4, Zenon DEF Sessions
    <3>6. BatchIsCacheState'
      BY <1>2, <3>1, <3>3, <3>4, Zenon DEF BatchIsCacheState, BatchIsComplete
    <3>7. SerialNamesVersion'
      BY <1>2, <3>5 DEF SerialNamesVersion
    <3> QED BY <3>4, <3>6, <3>7, Zenon DEF DataIsCacheState, Exchange
  <2> QED BY <2>4, <2>6, <2>7, Zenon
<1> QED BY <1>4, <1>8, <1>9, <1>10

LEMMA InvStep == Inv /\ [Next]_vars => Inv'
<1> SUFFICES ASSUME Inv, [Next]_vars PROVE DataIsCacheState' /\ (Undisturbed => Exchange)'
  BY CoreStep, Zenon DEF Inv
<1>1. /\ session \in Sessions /\ queries \in Seq(Queries) /\ answers \in Seq(Pdus) /\ WellFormed(session)
      /\ MaxUnderWay \in Nat /\ Current \in Nat /\ MaxId \in Nat /\ cache.id \in Nat
      /\ cache.versions \in Seq(SUBSET Vrps)
      /\ session.link # "up" => queries = <<>> /\ answers = <<>>
  BY Constants DEF Inv, Core, WellFormed, Current
<1>2. ASSUME UNCHANGED <<setup, cache>>, ~Undisturbed PROVE DataIsCacheState' /\ (Undisturbed => Exchange)'
  <2>1. ~Undisturbed'
    BY <1>2 DEF Undisturbed, Expiry, MaxUnderWay
  <2> QED BY <2>1 DEF DataIsCacheState, BatchIsCacheState, SerialNamesVersion
<1>3. ASSUME MaxUnderWay = 0, UnderWay <= MaxUnderWay PROVE queries = <<>> /\ answers = <<>>
  <2>1. Len(queries) \in Nat /\ Len(answers) \in Nat
    BY <1>1
  <2>2. Len(queries) = 0 /\ Len(answers) = 0
    BY <1>3, <2>1 DEF UnderWay
  <2> QED BY <1>1, <2>2, EmptySeq, Zenon
<1>4. CASE Connect
  <2>1. UNCHANGED <<setup, cache, answers>> /\ answers = <<>> /\ queries = <<>>
    BY <1>1, <1>4 DEF Connect
  <2>2. CASE /\ session' = [session EXCEPT !.link = "up", !.syncing = FALSE]
             /\ queries' = <<BuildQuery(session)>> /\ event' = NoEvent
    <3>1. /\ session'.id = session.id /\ session'.serial = session.serial
          /\ session'.vrps = session.vrps /\ ~session'.syncing
      BY <1>1, <2>2, Zenon DEF Sessions
    <3>2. Undisturbed' = Undisturbed /\ Current' = Current /\ \A n : Content(n)' = Content(n)
      BY <2>1 DEF Undisturbed, Expiry, MaxUnderWay, Current, Content
    <3>3. BatchIsCacheState'
      BY <2>2, Zenon DEF BatchIsCacheState, BatchIsComplete, NoEvent
    <3>4. SerialNamesVersion'
      BY <2>1, <3>1, <3>2, Zenon DEF Inv, DataIsCacheState, SerialNamesVersion, HasSerial
    <3>5. BuildQuery(session) = BuildQuery(session')
      BY <3>1, SameQuery
    <3>6. Exchange'
      BY <2>1, <2>2, <3>1, <3>5, Zenon DEF Exchange, BuildQuery, HasSerial
    <3> QED BY <3>3, <3>4, <3>6 DEF DataIsCacheState
  <2>3. CASE event' = [kind |-> "Disconnected"] /\ UNCHANGED <<session, queries>>
    <3>1. event'.kind # "Batch" /\ queries' = <<>> /\ answers' = <<>>
      BY <2>1, <2>3
    <3> QED BY <2>1, <2>3, <3>1, QuietSafe
  <2> QED BY <1>4, <2>2, <2>3 DEF Connect
<1>5. CASE LoseConnection
  <2>1. /\ UNCHANGED <<setup, cache>> /\ queries' = <<>> /\ answers' = <<>> /\ event'.kind # "Batch"
        /\ session' = [session EXCEPT !.link = "down"]
    BY <1>5 DEF LoseConnection, Disconnect
  <2>2. session'.id = session.id /\ session'.serial = session.serial /\ session'.vrps = session.vrps
    BY <1>1, <2>1 DEF Sessions
  <2> QED BY <2>1, <2>2, QuietSafe
<1>6. CASE Receive
  <2>1. UNCHANGED <<setup, cache>>
    BY <1>6 DEF Receive
  <2> QED BY <1>2, <1>6, <2>1, ReceiveSafe
<1>7. CASE RefreshTimer
  <2>1. UNCHANGED <<setup, cache>> /\ SendQuery(session, BuildQuery(session), session, answers)
    BY <1>7 DEF RefreshTimer
  <2>2. CASE Undisturbed
    <3>1. queries = <<>> /\ answers = <<>>
      BY <1>3, <1>7, <2>2 DEF RefreshTimer, Undisturbed
    <3> QED BY <1>1, <2>1, <3>1, QuerySafe
  <2> QED BY <1>2, <2>1, <2>2
<1>8. CASE ExpireTimer
  BY <1>2, <1>8 DEF ExpireTimer, Undisturbed
<1>9. CASE Shutdown
  <2>1. /\ UNCHANGED <<setup, cache>> /\ queries' = <<>> /\ answers' = <<>> /\ event'.kind # "Batch"
        /\ session' = [session EXCEPT !.link = "ended"]
    BY <1>9 DEF Shutdown, NoEvent
  <2>2. session'.id = session.id /\ session'.serial = session.serial /\ session'.vrps = session.vrps
    BY <1>1, <2>1 DEF Sessions
  <2> QED BY <2>1, <2>2, QuietSafe
<1>10. CASE CacheAnswers
  <2>1. /\ UNCHANGED <<setup, session, cache, known>> /\ event' = NoEvent /\ queries # <<>>
        /\ queries' = Tail(queries)
    BY <1>10, Zenon DEF CacheAnswers
  <2>2. CASE Undisturbed
    <3> DEFINE q == BuildQuery(session)
    <3>1. queries = <<q>> /\ answers = <<>> /\ ~session.syncing
      BY <2>1, <2>2 DEF Inv, Exchange
    <3>2. PICK a \in Answer(Head(queries)) : answers' = answers \o a
      BY <1>10 DEF CacheAnswers
    <3>3. q \in Queries /\ Head(queries) = q /\ queries' = <<>>
      BY <1>1, <2>1, <3>1, QueryType
    <3>4. a \in Answer(q) /\ Core
      BY <3>2, <3>3, Zenon DEF Inv
    <3>5. a \in Seq(Pdus) /\ a # <<>>
      BY <3>3, <3>4, AnswerForm
    <3>6. answers' = a
      BY <3>1, <3>2, <3>5
    <3>7. /\ Undisturbed' = Undisturbed /\ Current' = Current /\ Base' = Base
          /\ \A n : Content(n)' = Content(n)
      BY <2>1 DEF Undisturbed, Expiry, MaxUnderWay, Current, Content, Base
    <3>8. BatchIsCacheState'
      BY <2>1, Zenon DEF BatchIsCacheState, BatchIsComplete, NoEvent
    <3>9. SerialNamesVersion'
      BY <2>1, <3>7 DEF Inv, DataIsCacheState, SerialNamesVersion, HasSerial
    <3>10. CASE Len(a) = 1 /\ Head(a).pdu \in {"CacheReset", "NoDataAvailable"}
      <4>1. Exchange'
        BY <3>3, <3>6, <3>10, Zenon DEF Exchange
      <4> QED BY <3>8, <3>9, <4>1 DEF DataIsCacheState
    <3>11. ASSUME Head(a) = [pdu |-> "CacheResponse", id |-> cache.id], Current \in 1..Current,
                  session.id \in {None, cache.id} \/ ~HasSerial(session),
                  Leads(Tail(a), Base, {}, {}, Content(Current), SerialOf(Current))
           PROVE  DataIsCacheState' /\ (Undisturbed => Exchange)'
      <4>1. Head(answers').pdu = "CacheResponse" /\ Head(answers').id = cache'.id
        <5>1. cache' = cache
          BY <2>1
        <5>2. Head(a).pdu = "CacheResponse" /\ Head(a).id = cache.id
          BY <3>11
        <5> QED BY <3>6, <5>1, <5>2, Zenon
      <4>2. Leads(Tail(answers'), Base', {}, {}, Content(Current)', SerialOf(Current))
        BY <3>6, <3>7, <3>11, Zenon
      <4>3. \E n \in 1..Current' : Leads(Tail(answers'), Base', {}, {}, Content(n)', SerialOf(n))
        BY <3>7, <3>11, <4>2, Zenon
      <4>4. Answered'
        BY <2>1, <3>1, <3>11, <4>1, <4>3, Zenon DEF Answered, HasSerial
      <4>5. Exchange'
        BY <3>3, <3>5, <3>6, <4>4, Zenon DEF Exchange
      <4> QED BY <3>8, <3>9, <4>5 DEF DataIsCacheState
    <3>12. CASE /\ Head(a) = [pdu |-> "CacheResponse", id |-> cache.id] /\ Current \in 1..Current
                /\ q.pdu = "ResetQuery"
                /\ Leads(Tail(a), {}, {}, {}, Content(Current), SerialOf(Current))
      <4>1. ~HasSerial(session)
        BY <1>1, <3>12 DEF BuildQuery, WellFormed
      <4>2. Base = {}
        BY <4>1, Zenon DEF Base
      <4> QED BY <3>11, <3>12, <4>1, <4>2, Zenon
    <3>13. CASE /\ Head(a) = [pdu |-> "CacheResponse", id |-> cache.id] /\ Current \in 1..Current
                /\ q.pdu = "SerialQuery" /\ q.id = cache.id
                /\ \E k \in 1..Current :
                     /\ q.serial = SerialOf(k)
                     /\ Leads(Tail(a), Content(k), {}, {}, Content(Current), SerialOf(Current))
      <4>1. HasSerial(session) /\ session.id = cache.id /\ q.serial = session.serial
        BY <3>13, Zenon DEF BuildQuery
      <4>2. PICK k \in 1..Current :
              /\ q.serial = SerialOf(k)
              /\ Leads(Tail(a), Content(k), {}, {}, Content(Current), SerialOf(Current))
        BY <3>13, Zenon
      <4>3. PICK n \in 1..Current : SerialOf(n) = session.serial /\ session.vrps = Content(n)
        BY <2>2, <4>1, Zenon DEF Inv, DataIsCacheState, SerialNamesVersion
      <4>4. k = n
        BY <3>4, <4>1, <4>2, <4>3, SerialUnique, Zenon
      <4>5. Base = Content(k)
        BY <4>1, <4>3, <4>4, Zenon DEF Base
      <4> QED BY <3>11, <3>13, <4>1, <4>2, <4>5, Zenon
    <3> HIDE DEF q
    <3> QED BY <3>3, <3>4, <3>10, <3>12, <3>13, AnswerForm, Zenon
  <2> QED BY <1>2, <2>1, <2>2, Zenon
<1>11. CASE CacheUpdates
  <2>1. PICK S \in SUBSET Vrps : cache' = [cache EXCEPT !.versions = Append(@, S)]
    BY <1>11, Zenon DEF CacheUpdates
  <2>2. /\ UNCHANGED <<setup, session, queries>> /\ event' = NoEvent
        /\ \/ /\ UnderWay <= MaxUnderWay
              /\ answers' = Append(answers, [pdu |-> "SerialNotify", serial |-> SerialOf(Current + 1)])
           \/ answers' = answers
    BY <1>11 DEF CacheUpdates
  <2>3. cache'.id = cache.id /\ cache'.versions = Append(cache.versions, S)
    BY <2>1, Zenon DEF Inv, Core
  <2>4. /\ Current' = Current + 1 /\ \A n \in 1..Current : n \in 1..Current' /\ Content(n)' = Content(n)
    BY <1>1, <2>3 DEF Current, Content
  <2>5. Undisturbed' = Undisturbed /\ Base' = Base
    BY <2>2, Zenon DEF Undisturbed, Expiry, MaxUnderWay, Base
  <2>6. BatchIsCacheState'
    BY <2>2, Zenon DEF BatchIsCacheState, BatchIsComplete, NoEvent
  <2>7. SerialNamesVersion'
    BY <2>2, <2>3, <2>4, <2>5, Zenon DEF Inv, DataIsCacheState, SerialNamesVersion, HasSerial
  <2>8. ASSUME Undisturbed PROVE Exchange'
    <3>1. CASE answers' = answers
      <4>1. Answered => Answered'
        BY <2>2, <2>3, <2>4, <2>5, <3>1, Zenon DEF Answered, HasSerial
      <4>2. Reading => Reading'
        BY <2>2, <2>3, <2>4, <2>5, <3>1, Zenon DEF Reading
      <4>3. BuildQuery(session') = BuildQuery(session)
        BY <2>2, Zenon
      <4> QED BY <2>2, <2>8, <3>1, <4>1, <4>2, <4>3, Zenon DEF Inv, Exchange, BuildQuery, HasSerial
    <3>2. CASE /\ UnderWay <= MaxUnderWay
               /\ answers' = Append(answers, [pdu |-> "SerialNotify", serial |-> SerialOf(Current + 1)])
      <4>1. queries = <<>> /\ answers = <<>>
        BY <1>3, <2>8, <3>2, Zenon DEF Undisturbed
      <4>2. answers' = <<[pdu |-> "SerialNotify", serial |-> SerialOf(Current + 1)]>>
        BY <3>2, <4>1
      <4>3. Len(answers') = 1 /\ Head(answers').pdu = "SerialNotify"
        BY <4>2
      <4> QED BY <2>2, <4>1, <4>3, Zenon DEF Exchange
    <3> QED BY <2>2, <3>1, <3>2, Zenon
  <2> QED BY <2>5, <2>6, <2>7, <2>8, Zenon DEF DataIsCacheState
<1>12. CASE CacheRestarts
  <2>1. cache'.id = cache.id + 1
    BY <1>12 DEF CacheRestarts
  <2>2. /\ session'.id = session.id /\ queries' = <<>> /\ answers' = <<>> /\ event'.kind # "Batch"
    <3>1. CASE session.link = "up"
      <4>1. /\ session' = [session EXCEPT !.link = "down"] /\ queries' = <<>> /\ answers' = <<>>
            /\ event'.kind = "Disconnected"
        BY <1>12, <3>1 DEF CacheRestarts, Disconnect
      <4> QED BY <1>1, <4>1, Zenon DEF Sessions
    <3>2. CASE session.link # "up"
      BY <1>1, <1>12, <3>2 DEF CacheRestarts, NoEvent
    <3> QED BY <3>1, <3>2
  <2>3. session'.id # cache'.id
    BY <1>1, <2>1, <2>2 DEF WellFormed, Sessions, None
  <2> QED BY <2>2, <2>3, Zenon DEF DataIsCacheState, BatchIsCacheState, BatchIsComplete, SerialNamesVersion, Exchange
<1>13. CASE UNCHANGED vars
  <2>1. /\ Undisturbed' = Undisturbed /\ Current' = Current /\ Base' = Base
        /\ \A n : Content(n)' = Content(n)
    BY <1>13, Zenon DEF vars, Undisturbed, Expiry, MaxUnderWay, Current, Content, Base
  <2>2. DataIsCacheState'
    BY <1>13, <2>1, Zenon DEF vars, Inv, DataIsCacheState, BatchIsCacheState, BatchIsComplete,
                       SerialNamesVersion, HasSerial
  <2>3. Answered' = Answered /\ Reading' = Reading
    BY <1>13, <2>1, Zenon DEF vars, Answered, Reading, HasSerial
  <2>4. Exchange' = Exchange
    BY <1>13, <2>3 DEF vars, Exchange, BuildQuery, HasSerial
  <2> QED BY <2>1, <2>2, <2>4, Zenon DEF Inv
<1> QED BY <1>4, <1>5, <1>6, <1>7, <1>8, <1>9, <1>10, <1>11, <1>12, <1>13, ZenonT(60) DEF Next

LEMMA InvInit == Init => Inv
<1> SUFFICES ASSUME Init PROVE Inv
  BY Zenon
<1>1. /\ setup \in Setups /\ session.id = None /\ session.serial = None /\ session.vrps = {}
      /\ session.link = "down" /\ cache = [id |-> 0, versions |-> <<>>]
      /\ queries = <<>> /\ answers = <<>> /\ known = {} /\ blamed = FALSE /\ event.kind = "none"
  BY Zenon DEF Init, NoEvent
<1>2. session \in Sessions
  BY Zenon DEF Init, Sessions
<1>3. MaxId \in Nat /\ MaxVersions \in Nat
  BY <1>1, Constants, Zenon
<1>4. cache \in [id : 0..MaxId, versions : Seq(SUBSET Vrps)] /\ Current = 0 /\ cache.id = 0
  BY <1>1, <1>3 DEF Current
<1>5. WellFormed(session)
  BY <1>1, <1>2, <1>4 DEF WellFormed, HasSerial, None
<1>6. /\ queries \in Seq(Queries) /\ answers \in Seq(Pdus) /\ known \in SUBSET Vrps
      /\ blamed \in BOOLEAN /\ Current <= MaxVersions /\ session.link # "up"
  <2>1. <<>> \in Seq(Queries) /\ <<>> \in Seq(Pdus) /\ {} \in SUBSET Vrps /\ FALSE \in BOOLEAN
    OBVIOUS
  <2>2. Current <= MaxVersions /\ session.link # "up"
    BY <1>1, <1>3, <1>4
  <2> QED BY <1>1, <2>1, <2>2, Zenon
<1>7. Core
  BY <1>1, <1>4, <1>5, <1>6, Zenon DEF Core
<1>8. DataIsCacheState /\ Exchange
  BY <1>1 DEF DataIsCacheState, BatchIsCacheState, BatchIsComplete, SerialNamesVersion, HasSerial, Exchange
<1> QED BY <1>7, <1>8 DEF Inv

LEMMA InvHolds == Spec => []Inv
<1>1. Init => Inv
  BY InvInit
<1>2. Inv /\ [Next]_vars => Inv'
  BY InvStep
<1> QED BY <1>1, <1>2, PTL DEF Spec

-----------------------------------------------------------------------------
(* Theorems *)

\* Whatever is on the wire and whatever the timers do, the fields of the session,
\* of its cache and of what the manager has are of their types (CacheSession).
THEOREM TypesAreKept == Spec => []TypeOK
<1>1. Inv => TypeOK
  <2> SUFFICES ASSUME Inv PROVE TypeOK
    BY Zenon
  <2>1. session \in Sessions /\ cache.id \in 0..MaxId /\ \A n \in 1..Current : Content(n) \in SUBSET Vrps
    BY DEF Inv, Core, WellFormed, Current, Content
  <2>2. session.link # "up" => UnderWay = 0
    BY DEF Inv, Core, UnderWay
  <2> QED BY <2>1, <2>2 DEF Inv, Core, TypeOK, Sessions
<1> QED BY <1>1, InvHolds, PTL

\* While one exchange follows the other, what handle_msg_end_of_data sends to the
\* manager, and what the session holds under a serial number of the cache it talks
\* to, is the cache's data at that serial number: through deltas, resets, lost
\* connections, restarts of the cache and the wrap of the serial numbers.
THEOREM SessionHoldsAVersion == Spec => []DataIsCacheState
BY InvHolds, PTL DEF Inv

\* With a serial number, the VRPs a session applies the next delta to are those
\* the manager has, also when the timers and the answers overlap.
THEOREM ManagerHasTheSame == Spec => []ManagerAgrees
<1>1. Inv => ManagerAgrees
  BY DEF Inv, Core, WellFormed, ManagerAgrees
<1> QED BY <1>1, InvHolds, PTL

\* protocol_error reports a conforming cache only when the session kept the
\* identifier of the cache's former life without a serial number.
THEOREM OnlyRestartedCacheIsBlamed == Spec => BlamesOnlyRestartedCache
<1> DEFINE Blame == blamed' /\ Undisturbed => session.id \notin {None, cache.id} /\ ~HasSerial(session)
<1>1. Inv /\ [Next]_vars => [Blame]_vars
  <2> SUFFICES ASSUME Inv, Next, blamed', Undisturbed
               PROVE  session.id \notin {None, cache.id} /\ ~HasSerial(session)
    OBVIOUS
  <2>1. Receive
    BY Zenon DEF Next, Connect, LoseConnection, RefreshTimer, ExpireTimer, Shutdown, CacheAnswers,
           CacheUpdates, CacheRestarts
  <2> QED BY <2>1, ReceiveSafe, Zenon
<1> QED BY <1>1, InvHolds, PTL DEF Spec, BlamesOnlyRestartedCache

-----------------------------------------------------------------------------
(* The manager: the queue of updates *)

\* An update at the end of the queue has the last word on what it mentions.
LEMMA FinallyAppend ==
  ASSUME NEW t, NEW q \in Seq(Updates), NEW u \in Updates, NEW v
  PROVE  FinallyIn(t, Append(q, u), v) <=>
           v \notin u.removed /\ (v \in u.added \/ FinallyIn(t, q, v))
<1> DEFINE r == Append(q, u)
<1>1. /\ Len(r) = Len(q) + 1 /\ Len(q) \in Nat
      /\ \A i \in 1..Len(q) : r[i] = q[i]
      /\ r[Len(q) + 1] = u
  OBVIOUS
<1> HIDE DEF r
<1>2. (\A j \in 1..Len(r) : v \notin r[j].removed)
        <=> v \notin u.removed /\ \A j \in 1..Len(q) : v \notin q[j].removed
  <2>1. ASSUME \A j \in 1..Len(r) : v \notin r[j].removed
        PROVE  v \notin u.removed /\ \A j \in 1..Len(q) : v \notin q[j].removed
    BY <1>1, <2>1
  <2>2. ASSUME v \notin u.removed, \A j \in 1..Len(q) : v \notin q[j].removed,
               NEW j \in 1..Len(r)
        PROVE  v \notin r[j].removed
    <3>1. CASE j = Len(q) + 1
      BY <1>1, <2>2, <3>1, Zenon
    <3>2. CASE j \in 1..Len(q)
      BY <1>1, <2>2, <3>2, Zenon
    <3> QED BY <1>1, <3>1, <3>2
  <2> QED BY <2>1, <2>2, Zenon
<1>3. ASSUME NEW i \in 1..Len(q)
      PROVE  (\A j \in i..Len(r) : v \notin r[j].removed)
               <=> v \notin u.removed /\ \A j \in i..Len(q) : v \notin q[j].removed
  <2>1. ASSUME \A j \in i..Len(r) : v \notin r[j].removed
        PROVE  v \notin u.removed /\ \A j \in i..Len(q) : v \notin q[j].removed
    BY <1>1, <2>1
  <2>2. ASSUME v \notin u.removed, \A j \in i..Len(q) : v \notin q[j].removed,
               NEW j \in i..Len(r)
        PROVE  v \notin r[j].removed
    <3>1. CASE j = Len(q) + 1
      BY <1>1, <2>2, <3>1, Zenon
    <3>2. CASE j \in i..Len(q)
      BY <1>1, <2>2, <3>2
    <3>3. j = Len(q) + 1 \/ j \in i..Len(q)
      BY <1>1
    <3> QED BY <3>1, <3>2, <3>3, Zenon
  <2> QED BY <2>1, <2>2, Zenon
<1>4. (\E i \in 1..Len(r) : v \in r[i].added /\ \A j \in i..Len(r) : v \notin r[j].removed)
        <=> v \notin u.removed
            /\ \/ v \in u.added
               \/ \E i \in 1..Len(q) : v \in q[i].added /\ \A j \in i..Len(q) : v \notin q[j].removed
  <2>1. ASSUME NEW i \in 1..Len(r), v \in r[i].added, \A j \in i..Len(r) : v \notin r[j].removed
        PROVE  v \notin u.removed
               /\ \/ v \in u.added
                  \/ \E k \in 1..Len(q) : v \in q[k].added /\ \A j \in k..Len(q) : v \notin q[j].removed
    <3>1. CASE i = Len(q) + 1
      BY <1>1, <2>1, <3>1
    <3>2. CASE i \in 1..Len(q)
      BY <1>1, <1>3, <2>1, <3>2, Zenon
    <3>3. i = Len(q) + 1 \/ i \in 1..Len(q)
      BY <1>1
    <3> QED BY <3>1, <3>2, <3>3, Zenon
  <2>2. ASSUME v \notin u.removed, v \in u.added
        PROVE  \E i \in 1..Len(r) : v \in r[i].added /\ \A j \in i..Len(r) : v \notin r[j].removed
    <3>1. \A j \in (Len(q) + 1)..Len(r) : v \notin r[j].removed
      BY <1>1, <2>2
    <3> QED BY <1>1, <2>2, <3>1
  <2>3. ASSUME v \notin u.removed, NEW i \in 1..Len(q), v \in q[i].added,
               \A j \in i..Len(q) : v \notin q[j].removed
        PROVE  \E k \in 1..Len(r) : v \in r[k].added /\ \A j \in k..Len(r) : v \notin r[j].removed
    <3>1. \A j \in i..Len(r) : v \notin r[j].removed
      BY <1>3, <2>3, Zenon
    <3>2. i \in 1..Len(r) /\ v \in r[i].added
      BY <1>1, <2>3
    <3> QED BY <3>1, <3>2, Zenon
  <2> QED BY <2>1, <2>2, <2>3, Zenon
<1> QED BY <1>2, <1>4, Zenon DEF FinallyIn, r

\* Applying the update at the head of the queue changes nothing in the end.
LEMMA FinallyHead ==
  ASSUME NEW t, NEW q \in Seq(Updates), q # <<>>, NEW v
  PROVE  FinallyIn((t \cup Head(q).added) \ Head(q).removed, Tail(q), v) <=> FinallyIn(t, q, v)
<1> DEFINE r == Tail(q)
           s == (t \cup Head(q).added) \ Head(q).removed
<1>1. /\ Len(q) \in Nat /\ Len(q) >= 1 /\ Len(r) = Len(q) - 1 /\ Head(q) = q[1]
      /\ \A i \in 1..Len(r) : r[i] = q[i + 1]
  OBVIOUS
<1> HIDE DEF r
<1>2. v \in s <=> v \notin q[1].removed /\ (v \in t \/ v \in q[1].added)
  BY <1>1, Zenon
<1> HIDE DEF s
<1>3. ASSUME NEW i \in 1..Len(r)
      PROVE  (\A j \in i..Len(r) : v \notin r[j].removed)
               <=> \A j \in (i + 1)..Len(q) : v \notin q[j].removed
  <2>1. ASSUME \A j \in i..Len(r) : v \notin r[j].removed, NEW j \in (i + 1)..Len(q)
        PROVE  v \notin q[j].removed
    <3>1. j - 1 \in i..Len(r) /\ j - 1 \in 1..Len(r) /\ (j - 1) + 1 = j
      BY <1>1
    <3>2. r[j - 1] = q[j]
      BY <1>1, <3>1, Zenon
    <3> QED BY <2>1, <3>1, <3>2, Zenon
  <2>2. ASSUME \A j \in (i + 1)..Len(q) : v \notin q[j].removed, NEW j \in i..Len(r)
        PROVE  v \notin r[j].removed
    <3>1. j + 1 \in (i + 1)..Len(q) /\ j \in 1..Len(r)
      BY <1>1
    <3> QED BY <1>1, <2>2, <3>1, Zenon
  <2> QED BY <2>1, <2>2, Zenon
<1>4. (\A j \in 1..Len(q) : v \notin q[j].removed)
        <=> v \notin q[1].removed /\ \A j \in 1..Len(r) : v \notin r[j].removed
  <2>1. ASSUME \A j \in 1..Len(q) : v \notin q[j].removed
        PROVE  v \notin q[1].removed /\ \A j \in 1..Len(r) : v \notin r[j].removed
    BY <1>1, <2>1
  <2>2. ASSUME v \notin q[1].removed, \A j \in 1..Len(r) : v \notin r[j].removed,
               NEW j \in 1..Len(q)
        PROVE  v \notin q[j].removed
    <3>1. CASE j = 1
      BY <2>2, <3>1
    <3>2. CASE j # 1
      <4>1. j - 1 \in 1..Len(r) /\ (j - 1) + 1 = j
        BY <1>1, <3>2
      <4>2. r[j - 1] = q[j]
        BY <1>1, <4>1, Zenon
      <4> QED BY <2>2, <4>1, <4>2
    <3> QED BY <3>1, <3>2
  <2> QED BY <2>1, <2>2, Zenon
<1>5. (\E i \in 1..Len(q) : v \in q[i].added /\ \A j \in i..Len(q) : v \notin q[j].removed)
        <=> \/ v \in q[1].added /\ \A j \in 1..Len(q) : v \notin q[j].removed
            \/ \E i \in 1..Len(r) : v \in r[i].added /\ \A j \in i..Len(r) : v \notin r[j].removed
  <2>1. ASSUME NEW i \in 1..Len(q), v \in q[i].added, \A j \in i..Len(q) : v \notin q[j].removed
        PROVE  \/ v \in q[1].added /\ \A j \in 1..Len(q) : v \notin q[j].removed
               \/ \E k \in 1..Len(r) : v \in r[k].added /\ \A j \in k..Len(r) : v \notin r[j].removed
    <3>1. CASE i = 1
      BY <2>1, <3>1, Zenon
    <3>2. CASE i # 1
      <4>1. i - 1 \in 1..Len(r) /\ (i - 1) + 1 = i
        BY <1>1, <3>2
      <4>2. r[i - 1] = q[i]
        BY <1>1, <4>1, Zenon
      <4>3. \A j \in (i - 1)..Len(r) : v \notin r[j].removed
        BY <1>3, <2>1, <4>1, Zenon
      <4> QED BY <2>1, <4>1, <4>2, <4>3, Zenon
    <3> QED BY <3>1, <3>2, Zenon
  <2>2. ASSUME v \in q[1].added, \A j \in 1..Len(q) : v \notin q[j].removed
        PROVE  \E i \in 1..Len(q) : v \in q[i].added /\ \A j \in i..Len(q) : v \notin q[j].removed
    BY <1>1, <2>2
  <2>3. ASSUME NEW i \in 1..Len(r), v \in r[i].added, \A j \in i..Len(r) : v \notin r[j].removed
        PROVE  \E k \in 1..Len(q) : v \in q[k].added /\ \A j \in k..Len(q) : v \notin q[j].removed
    <3>1. i + 1 \in 1..Len(q) /\ v \in q[i + 1].added
      BY <1>1, <2>3
    <3>2. \A j \in (i + 1)..Len(q) : v \notin q[j].removed
      BY <1>3, <2>3, Zenon
    <3> QED BY <3>1, <3>2, Zenon
  <2> QED BY <2>1, <2>2, <2>3, Zenon
<1>6. FinallyIn(s, r, v) <=> FinallyIn(t, q, v)
  BY <1>2, <1>4, <1>5, Zenon DEF FinallyIn
<1> QED BY <1>6 DEF r, s

\* WithUpdate keeps the type of the queue.
LEMMA WithUpdateType ==
  ASSUME NEW q \in Seq(Updates), NEW a \in SUBSET Payloads, NEW d \in SUBSET Payloads
  PROVE  WithUpdate(q, a, d) \in Seq(Updates)
<1>1. [added |-> a, removed |-> d] \in Updates
  BY DEF Updates
<1> QED BY <1>1 DEF WithUpdate

\* WithUpdate never shortens the queue.
LEMMA WithUpdateLength ==
  ASSUME NEW S, NEW q \in Seq(S), NEW a, NEW d
  PROVE  Len(WithUpdate(q, a, d)) >= Len(q)
BY DEF WithUpdate

\* WithUpdate adds and removes what it says.
LEMMA WithUpdateEffect ==
  ASSUME NEW t, NEW q \in Seq(Updates), NEW a \in SUBSET Payloads, NEW d \in SUBSET Payloads, NEW v,
         v \in a => v \notin d
  PROVE  FinallyIn(t, WithUpdate(q, a, d), v) <=> v \in a \/ (FinallyIn(t, q, v) /\ v \notin d)
<1> DEFINE u == [added |-> a, removed |-> d]
<1>1. u \in Updates /\ u.added = a /\ u.removed = d
  BY DEF Updates
<1> HIDE DEF u
<1>2. CASE a = {} /\ d = {}
  BY <1>2, Zenon DEF WithUpdate
<1>3. CASE ~(a = {} /\ d = {})
  <2>1. WithUpdate(q, a, d) = Append(q, u)
    BY <1>3, Zenon DEF WithUpdate, u
  <2> QED BY <1>1, <2>1, FinallyAppend
<1> QED BY <1>2, <1>3, Zenon

\* Each update of q, when it is applied to what t has become by then, adds v only
\* where it is missing and removes v only where it is present.
Real(t, q, v) ==
  \A i \in 1..Len(q) :
    /\ v \in q[i].added => v \notin q[i].removed /\ ~FinallyIn(t, SubSeq(q, 1, i - 1), v)
    /\ v \in q[i].removed => FinallyIn(t, SubSeq(q, 1, i - 1), v)

\* Appending an update that is a change of the table to come.
LEMMA RealAppend ==
  ASSUME NEW t, NEW q \in Seq(Updates), NEW u \in Updates, NEW v, Real(t, q, v),
         v \in u.added => v \notin u.removed /\ ~FinallyIn(t, q, v),
         v \in u.removed => FinallyIn(t, q, v)
  PROVE  Real(t, Append(q, u), v)
<1> DEFINE r == Append(q, u)
<1>1. /\ Len(r) = Len(q) + 1 /\ Len(q) \in Nat
      /\ \A i \in 1..Len(q) : r[i] = q[i]
      /\ r[Len(q) + 1] = u
  OBVIOUS
<1>2. \A i \in 1..(Len(q) + 1) : SubSeq(r, 1, i - 1) = SubSeq(q, 1, i - 1)
  OBVIOUS
<1>3. SubSeq(q, 1, (Len(q) + 1) - 1) = q
  OBVIOUS
<1> HIDE DEF r
<1> SUFFICES ASSUME NEW i \in 1..Len(r)
             PROVE  /\ v \in r[i].added => v \notin r[i].removed /\ ~FinallyIn(t, SubSeq(r, 1, i - 1), v)
                    /\ v \in r[i].removed => FinallyIn(t, SubSeq(r, 1, i - 1), v)
  BY DEF Real, r
<1>4. CASE i = Len(q) + 1
  <2>1. r[i] = u /\ SubSeq(r, 1, i - 1) = q
    BY <1>1, <1>2, <1>3, <1>4, Zenon
  <2> QED BY <2>1, Zenon
<1>5. CASE i \in 1..Len(q)
  <2>1. r[i] = q[i] /\ SubSeq(r, 1, i - 1) = SubSeq(q, 1, i - 1)
    BY <1>1, <1>2, <1>5
  <2> QED BY <1>5, <2>1, Zenon DEF Real
<1> QED BY <1>1, <1>4, <1>5

\* Applying the update at the head.
LEMMA RealHead ==
  ASSUME NEW t, NEW q \in Seq(Updates), q # <<>>, NEW v, Real(t, q, v)
  PROVE  Real((t \cup Head(q).added) \ Head(q).removed, Tail(q), v)
<1> DEFINE r == Tail(q)
<1> DEFINE s == (t \cup Head(q).added) \ Head(q).removed
<1> SUFFICES ASSUME NEW i \in 1..Len(r)
             PROVE  /\ v \in r[i].added => v \notin r[i].removed /\ ~FinallyIn(s, SubSeq(r, 1, i - 1), v)
                    /\ v \in r[i].removed => FinallyIn(s, SubSeq(r, 1, i - 1), v)
  BY Zenon DEF Real
<1> DEFINE p == SubSeq(q, 1, i)
<1>1. Len(q) \in Nat /\ Len(r) = Len(q) - 1 /\ r[i] = q[i + 1] /\ i + 1 \in 1..Len(q)
  OBVIOUS
<1>2. p \in Seq(Updates) /\ Len(p) = i /\ \A k \in 1..i : p[k] = q[k]
  BY <1>1
<1>3. p # <<>> /\ Head(p) = Head(q)
  BY <1>1, <1>2
<1>4. Tail(p) = SubSeq(r, 1, i - 1)
  BY <1>1
<1>5. FinallyIn(s, SubSeq(r, 1, i - 1), v) <=> FinallyIn(t, p, v)
  <2>1. s = (t \cup Head(p).added) \ Head(p).removed
    BY <1>3, Zenon
  <2> HIDE DEF p, r, s
  <2>2. FinallyIn((t \cup Head(p).added) \ Head(p).removed, Tail(p), v) <=> FinallyIn(t, p, v)
    BY <1>2, <1>3, FinallyHead, Zenon
  <2> QED BY <1>4, <2>1, <2>2, Zenon
<1>6. SubSeq(q, 1, (i + 1) - 1) = p
  BY <1>1
<1> HIDE DEF p, r, s
<1> QED BY <1>1, <1>5, <1>6, Zenon DEF Real

\* WithUpdate keeps the updates real.
LEMMA WithUpdateReal ==
  ASSUME NEW t, NEW q \in Seq(Updates), NEW a \in SUBSET Payloads, NEW d \in SUBSET Payloads, NEW v,
         Real(t, q, v), v \in a => v \notin d /\ ~FinallyIn(t, q, v), v \in d => FinallyIn(t, q, v)
  PROVE  Real(t, WithUpdate(q, a, d), v)
<1> DEFINE u == [added |-> a, removed |-> d]
<1>1. u \in Updates /\ u.added = a /\ u.removed = d
  BY Zenon DEF Updates
<1> HIDE DEF u
<1>2. CASE a = {} /\ d = {}
  BY <1>2, Zenon DEF WithUpdate
<1>3. CASE ~(a = {} /\ d = {})
  <2>1. WithUpdate(q, a, d) = Append(q, u)
    BY <1>3, Zenon DEF WithUpdate, u
  <2> QED BY <1>1, <2>1, RealAppend, Zenon
<1> QED BY <1>2, <1>3, Zenon

-----------------------------------------------------------------------------
(* Unions *)

\* What all caches hold is what those in S hold and what the others hold.
LEMMA HeldSplit ==
  ASSUME NEW h, NEW S \in SUBSET Caches, NEW v
  PROVE  v \in HeldBy(h, Caches) <=> v \in HeldBy(h, S) \/ v \in HeldBy(h, Caches \ S)
BY Zenon DEF HeldBy

\* Forgetting some caches leaves what the others hold, and the types.
LEMMA ForgetEffect ==
  ASSUME NEW h \in [Caches -> SUBSET Payloads], NEW S \in SUBSET Caches, NEW v
  PROVE  /\ Forget(h, S) \in [Caches -> SUBSET Payloads]
         /\ v \in HeldBy(Forget(h, S), Caches) <=> v \in HeldBy(h, Caches \ S)
<1>1. Forget(h, S) \in [Caches -> SUBSET Payloads]
  BY DEF Forget
<1>2. ASSUME v \in HeldBy(Forget(h, S), Caches)
      PROVE  v \in HeldBy(h, Caches \ S)
  <2>1. PICK c \in Caches : v \in Forget(h, S)[c]
    BY <1>2 DEF HeldBy
  <2>2. c \notin S /\ v \in h[c]
    BY <2>1, Zenon DEF Forget
  <2> QED BY <2>2, Zenon DEF HeldBy
<1>3. ASSUME v \in HeldBy(h, Caches \ S)
      PROVE  v \in HeldBy(Forget(h, S), Caches)
  <2>1. PICK c \in Caches \ S : v \in h[c]
    BY <1>3 DEF HeldBy
  <2>2. v \in Forget(h, S)[c]
    BY <2>1, Zenon DEF Forget
  <2> QED BY <2>2 DEF HeldBy
<1> QED BY <1>1, <1>2, <1>3, Zenon

\* The two together: dropping S with the update RemovalDiff computes.
LEMMA DropCaches ==
  ASSUME NEW h \in [Caches -> SUBSET Payloads], NEW S \in SUBSET Caches,
         NEW t, NEW q \in Seq(Updates),
         \A v \in Payloads : FinallyIn(t, q, v) <=> v \in HeldBy(h, Caches),
         \A v \in Payloads : Real(t, q, v)
  PROVE  LET r == WithUpdate(q, {}, RemovalDiff(h, S))
             g == Forget(h, S)
         IN  /\ r \in Seq(Updates)
             /\ g \in [Caches -> SUBSET Payloads]
             /\ \A v \in Payloads : FinallyIn(t, r, v) <=> v \in HeldBy(g, Caches)
             /\ \A v \in Payloads : Real(t, r, v)
<1> DEFINE d == RemovalDiff(h, S)
           r == WithUpdate(q, {}, d)
           g == Forget(h, S)
<1>1. d \in SUBSET Payloads
  BY DEF RemovalDiff, HeldBy
<1>2. \A v : v \in d <=> v \in HeldBy(h, S) /\ v \notin HeldBy(h, Caches \ S)
  BY DEF RemovalDiff
<1>3. g \in [Caches -> SUBSET Payloads]
  BY ForgetEffect, Zenon
<1> HIDE DEF d
<1>4. r \in Seq(Updates)
  BY <1>1, WithUpdateType, Zenon
<1>5. ASSUME NEW v \in Payloads
      PROVE  FinallyIn(t, r, v) <=> v \in HeldBy(g, Caches)
  <2>1. FinallyIn(t, r, v) <=> FinallyIn(t, q, v) /\ v \notin d
    BY <1>1, WithUpdateEffect
  <2>2. v \in HeldBy(g, Caches) <=> v \in HeldBy(h, Caches \ S)
    BY ForgetEffect, Zenon
  <2>3. v \in HeldBy(h, Caches) <=> v \in HeldBy(h, S) \/ v \in HeldBy(h, Caches \ S)
    BY HeldSplit, Zenon
  <2> QED BY <1>2, <2>1, <2>2, <2>3, Zenon
<1>6. ASSUME NEW v \in Payloads
      PROVE  Real(t, r, v)
  <2>1. v \in d => FinallyIn(t, q, v)
    BY <1>2, HeldSplit, Zenon
  <2> QED BY <1>1, <2>1, WithUpdateReal, Zenon
<1> QED BY <1>3, <1>4, <1>5, <1>6, Zenon DEF d

-----------------------------------------------------------------------------
(* The invariant *)

UpdatesAreReal == \A v \in Payloads : Real(table, updates, v)

ManagerInv == ManagerTypeOK /\ TableFollowsCaches /\ SessionsAreConfigured /\ UpdatesAreReal

\* Shutting sessions down keeps the types, and the handles that stay are the old ones.
LEMMA ShutdownTypes ==
  ASSUME ManagerTypeOK, NEW S \in SUBSET Caches, ShutdownSessions(S)
  PROVE  /\ sessions' \in [Caches -> Preferences \cup {NoPreference}]
         /\ lingering' \in SUBSET Caches
         /\ \A c \in Caches : sessions'[c] # NoPreference => c \notin S /\ sessions'[c] = sessions[c]
BY DEF ManagerTypeOK, ShutdownSessions, Running

\* Nothing is configured and nothing is held at first.
LEMMA InitInv == ManagerInit => ManagerInv
<1> SUFFICES ASSUME ManagerInit PROVE ManagerInv
  OBVIOUS
<1>1. ManagerTypeOK
  BY SMTT(60) DEF ManagerInit, ManagerTypeOK
<1>2. TableFollowsCaches
  BY DEF ManagerInit, TableFollowsCaches, FinallyIn, HeldBy
<1>3. SessionsAreConfigured
  BY Zenon DEF ManagerInit, SessionsAreConfigured, Running
<1>4. UpdatesAreReal
  BY DEF ManagerInit, UpdatesAreReal, Real
<1> QED BY <1>1, <1>2, <1>3, <1>4, Zenon DEF ManagerInv

\* A batch: its own difference first, then the tiers it makes superfluous.
LEMMA BatchKeepsInv ==
  ASSUME ManagerInv, HandleBatch
  PROVE  ManagerInv'
<1> DEFINE c       == Next1.cache
           vrps    == Next1.vrps
           others  == HeldBy(held, Caches \ {c})
           batched == [held EXCEPT ![c] = vrps]
           added   == (vrps \ held[c]) \ others
           removed == (held[c] \ vrps) \ others
           first   == WithUpdate(updates, added, removed)
           killed  == IF SessionConfig(c) = NoPreference THEN {} ELSE LessPreferred(SessionConfig(c))
<1>1. ManagerTypeOK /\ TableFollowsCaches /\ SessionsAreConfigured /\ UpdatesAreReal
  BY DEF ManagerInv
<1>2. /\ events \in Seq(Events) /\ events # <<>>
      /\ Next1 \in Events /\ Next1.kind = "Batch" /\ events' = Tail(events)
  <2>1. events # <<>> /\ Next1.kind = "Batch" /\ events' = Tail(events)
    BY Zenon DEF HandleBatch, Dequeue
  <2>2. events \in Seq(Events)
    BY <1>1, Zenon DEF ManagerTypeOK
  <2>3. Next1 \in Events
    BY <2>1, <2>2 DEF Next1
  <2>. QED
    BY <2>1, <2>2, <2>3, Zenon
<1>3. c \in Caches /\ vrps \in SUBSET Payloads
  BY <1>2, Zenon DEF Events
<1>4. killed \in SUBSET Caches
  BY Zenon DEF LessPreferred, Running
<1>5. /\ ShutdownSessions(killed) /\ configs' = configs /\ table' = table
      /\ updates' = WithUpdate(first, {}, RemovalDiff(batched, killed))
      /\ held' = Forget(batched, killed)
  BY Zenon DEF HandleBatch
<1>6. held \in [Caches -> SUBSET Payloads] /\ updates \in Seq(Updates)
  BY <1>1, Zenon DEF ManagerTypeOK
<1> HIDE DEF c, vrps, killed
<1>7. batched \in [Caches -> SUBSET Payloads] /\ added \in SUBSET Payloads /\ removed \in SUBSET Payloads
  BY <1>3, <1>6, Zenon
<1>8. \A v \in Payloads : v \in added => v \notin removed
  OBVIOUS
<1> HIDE DEF added, removed
<1>9. first \in Seq(Updates)
  BY <1>6, <1>7, WithUpdateType, Zenon
<1>10. ASSUME NEW v \in Payloads
      PROVE  FinallyIn(table, first, v) <=> v \in HeldBy(batched, Caches)
  <2>1. FinallyIn(table, first, v) <=> v \in added \/ (FinallyIn(table, updates, v) /\ v \notin removed)
    BY <1>6, <1>7, <1>8, WithUpdateEffect, Zenon
  <2>2. FinallyIn(table, updates, v) <=> v \in held[c] \/ v \in others
    BY <1>1, <1>3, HeldSplit, ZenonT(60) DEF TableFollowsCaches, HeldBy
  <2>3. v \in HeldBy(batched, Caches) <=> v \in vrps \/ v \in others
    <3>1. batched[c] = vrps /\ \A d \in Caches \ {c} : batched[d] = held[d]
      BY <1>3, <1>6, Zenon
    <3> HIDE DEF batched
    <3>2. v \in HeldBy(batched, Caches) <=> \E d \in Caches : v \in batched[d]
      BY Zenon DEF HeldBy
    <3>3. v \in others <=> \E d \in Caches \ {c} : v \in held[d]
      BY Zenon DEF HeldBy
    <3> QED BY <1>3, <3>1, <3>2, <3>3, Zenon
  <2> QED BY <2>1, <2>2, <2>3, Zenon DEF added, removed
<1>11. ASSUME NEW v \in Payloads
      PROVE  Real(table, first, v)
  <2>1. FinallyIn(table, updates, v) <=> v \in held[c] \/ v \in others
    BY <1>1, <1>3, HeldSplit DEF TableFollowsCaches, HeldBy
  <2>2. v \in added => v \notin removed /\ ~FinallyIn(table, updates, v)
    BY <1>8, <2>1, Zenon DEF added
  <2>3. v \in removed => FinallyIn(table, updates, v)
    BY <2>1 DEF removed
  <2>4. Real(table, updates, v)
    BY <1>1 DEF UpdatesAreReal
  <2> QED BY <1>6, <1>7, <2>2, <2>3, <2>4, WithUpdateReal, Zenon
<1> HIDE DEF first, batched
<1>12. /\ updates' \in Seq(Updates) /\ held' \in [Caches -> SUBSET Payloads]
       /\ \A v \in Payloads : FinallyIn(table, updates', v) <=> v \in HeldBy(held', Caches)
       /\ \A v \in Payloads : Real(table, updates', v)
  BY <1>4, <1>5, <1>7, <1>10, <1>9, <1>11, DropCaches, Zenon
<1>13. ManagerTypeOK'
  BY <1>1, <1>2, <1>4, <1>5, <1>12, ShutdownTypes DEF ManagerTypeOK
<1>14. SessionsAreConfigured'
  BY <1>1, <1>4, <1>5, ShutdownTypes, Zenon DEF SessionsAreConfigured, Running
<1> QED BY <1>5, <1>12, <1>13, <1>14, Zenon DEF ManagerInv, TableFollowsCaches, UpdatesAreReal

\* Every step keeps the invariant.
LEMMA NextInv == ManagerInv /\ [ManagerNext]_managerVars => ManagerInv'
<1> SUFFICES ASSUME ManagerInv, [ManagerNext]_managerVars PROVE ManagerInv'
  OBVIOUS
<1>1. /\ ManagerTypeOK /\ TableFollowsCaches /\ SessionsAreConfigured /\ UpdatesAreReal
      /\ held \in [Caches -> SUBSET Payloads] /\ updates \in Seq(Updates)
  BY Zenon DEF ManagerInv, ManagerTypeOK
<1>2. ASSUME NEW c \in Caches, NEW p \in Preferences, AddCache(c, p)
      PROVE  ManagerInv'
  <2>1. /\ configs' = [configs EXCEPT ![c] = p]
        /\ sessions' = [sessions EXCEPT ![c] = p] \/ sessions' = sessions
        /\ configs[c] = NoPreference
        /\ UNCHANGED <<lingering, held, events, updates, table>>
    BY <1>2, Zenon DEF AddCache, Configured
  <2>2. ManagerTypeOK'
    BY <1>1, <2>1, Zenon DEF ManagerTypeOK
  <2>3. SessionsAreConfigured'
    BY <1>1, <2>1 DEF SessionsAreConfigured, Running, ManagerTypeOK
  <2> QED BY <1>1, <2>1, <2>2, <2>3, Zenon DEF ManagerInv, TableFollowsCaches, UpdatesAreReal
<1>3. ASSUME NEW c \in Caches, RemoveCache(c)
      PROVE  ManagerInv'
  <2>1. /\ ShutdownSessions({c}) /\ configs' = [configs EXCEPT ![c] = NoPreference]
        /\ updates' = WithUpdate(updates, {}, RemovalDiff(held, {c}))
        /\ held' = Forget(held, {c})
        /\ UNCHANGED <<events, table>>
    BY <1>3 DEF RemoveCache
  <2>2. /\ updates' \in Seq(Updates) /\ held' \in [Caches -> SUBSET Payloads]
        /\ \A v \in Payloads : FinallyIn(table, updates', v) <=> v \in HeldBy(held', Caches)
        /\ \A v \in Payloads : Real(table, updates', v)
    BY <1>1, <2>1, DropCaches, Zenon DEF TableFollowsCaches, UpdatesAreReal
  <2>3. ManagerTypeOK'
    BY <1>1, <2>1, <2>2, ShutdownTypes, Zenon DEF ManagerTypeOK
  <2>4. SessionsAreConfigured'
    <3> SUFFICES ASSUME NEW d \in Caches, sessions'[d] # NoPreference
                 PROVE  sessions'[d] = configs'[d]
      BY Zenon DEF SessionsAreConfigured, Running
    <3>1. d # c /\ sessions'[d] = sessions[d]
      BY <1>1, <2>1, ShutdownTypes, Zenon
    <3> QED BY <1>1, <2>1, <3>1, Zenon DEF SessionsAreConfigured, Running, ManagerTypeOK
  <2> QED BY <2>1, <2>2, <2>3, <2>4, Zenon DEF ManagerInv, TableFollowsCaches, UpdatesAreReal
<1>4. CASE HandleBatch
  BY <1>4, BatchKeepsInv, Zenon
<1>5. CASE HandleDisconnected
  <2>1. /\ events' = Tail(events) /\ events # <<>> /\ UNCHANGED <<configs, lingering, held, updates, table>>
        /\ sessions' = sessions \/ \E p : sessions' = Spawn(NextTier(p))
    BY <1>5, Zenon DEF HandleDisconnected, Dequeue
  <2>2. \A p : \A d \in Caches :
          Spawn(NextTier(p))[d] = IF d \in NextTier(p) /\ sessions[d] = NoPreference THEN configs[d]
                                  ELSE sessions[d]
    BY DEF Spawn
  <2>3. \A p : Spawn(NextTier(p)) \in [Caches -> Preferences \cup {NoPreference}]
    BY <1>1, Zenon DEF Spawn, ManagerTypeOK
  <2>4. ManagerTypeOK'
    BY <1>1, <2>1, <2>3 DEF ManagerTypeOK
  <2>5. SessionsAreConfigured'
    BY <1>1, <2>1, <2>2 DEF SessionsAreConfigured, Running
  <2> QED BY <1>1, <2>1, <2>4, <2>5, Zenon DEF ManagerInv, TableFollowsCaches, UpdatesAreReal
<1>6. CASE HandleExpired
  <2>1. Next1 \in Events /\ Next1.kind = "Expired" /\ events \in Seq(Events) /\ events # <<>>
    BY <1>1, <1>6 DEF HandleExpired, ManagerTypeOK, Next1
  <2>2. Next1.cache \in Caches
    BY <2>1, Zenon DEF Events
  <2>3. /\ updates' = WithUpdate(updates, {}, RemovalDiff(held, {Next1.cache}))
        /\ held' = Forget(held, {Next1.cache}) /\ events' = Tail(events)
        /\ UNCHANGED <<configs, sessions, lingering, table>>
    BY <1>6 DEF HandleExpired, Dequeue
  <2>4. /\ updates' \in Seq(Updates) /\ held' \in [Caches -> SUBSET Payloads]
        /\ \A v \in Payloads : FinallyIn(table, updates', v) <=> v \in HeldBy(held', Caches)
        /\ \A v \in Payloads : Real(table, updates', v)
    BY <1>1, <2>2, <2>3, DropCaches, Zenon DEF TableFollowsCaches, UpdatesAreReal
  <2>5. events' \in Seq(Events)
    BY <2>1, <2>3
  <2>6. ManagerTypeOK'
    BY <1>1, <2>3, <2>4, <2>5, Zenon DEF ManagerTypeOK
  <2> QED BY <1>1, <2>3, <2>4, <2>6, Zenon DEF ManagerInv, TableFollowsCaches, UpdatesAreReal, SessionsAreConfigured, Running
<1>7. ASSUME NEW c \in Caches, SendsBatch(c) \/ SendsDisconnected(c) \/ SendsExpired(c)
      PROVE  ManagerInv'
  <2>1. \E e \in Events : SessionSends(c, e)
    BY <1>7, Zenon DEF SendsBatch, SendsDisconnected, SendsExpired, Events
  <2>2. /\ \E e \in Events : events' = Append(events, e)
        /\ UNCHANGED <<configs, sessions, lingering, held, updates, table>>
    BY <2>1, Zenon DEF SessionSends
  <2>3. ManagerTypeOK'
    BY <1>1, <2>2 DEF ManagerTypeOK
  <2> QED BY <1>1, <2>2, <2>3, Zenon DEF ManagerInv, TableFollowsCaches, UpdatesAreReal, SessionsAreConfigured, Running
<1>8. ASSUME NEW c \in Caches, TaskEnds(c)
      PROVE  ManagerInv'
  <2>1. /\ lingering' = lingering \ {c}
        /\ UNCHANGED <<configs, sessions, held, events, updates, table>>
    BY <1>8, Zenon DEF TaskEnds
  <2>2. ManagerTypeOK'
    BY <1>1, <2>1 DEF ManagerTypeOK
  <2> QED BY <1>1, <2>1, <2>2, Zenon DEF ManagerInv, TableFollowsCaches, UpdatesAreReal, SessionsAreConfigured, Running
<1>9. CASE HandleVrpUpdate
  <2>1. /\ updates # <<>> /\ updates' = Tail(updates)
        /\ table' = (table \cup Head(updates).added) \ Head(updates).removed
        /\ UNCHANGED <<configs, sessions, lingering, held, events>>
    BY <1>9, Zenon DEF HandleVrpUpdate
  <2>2. Head(updates) \in Updates /\ updates' \in Seq(Updates)
    BY <1>1, <2>1
  <2>3. Head(updates).added \in SUBSET Payloads
    BY <2>2, Zenon DEF Updates
  <2>4. ManagerTypeOK'
    BY <1>1, <2>1, <2>2, <2>3, Zenon DEF ManagerTypeOK
  <2>5. ASSUME NEW v \in Payloads
        PROVE  FinallyIn(table', updates', v) <=> v \in HeldBy(held', Caches)
    BY <1>1, <2>1, FinallyHead, Zenon DEF TableFollowsCaches
  <2>6. ASSUME NEW v \in Payloads
        PROVE  Real(table', updates', v)
    BY <1>1, <2>1, RealHead, Zenon DEF UpdatesAreReal
  <2> QED BY <1>1, <2>1, <2>4, <2>5, <2>6, Zenon DEF ManagerInv, TableFollowsCaches, UpdatesAreReal, SessionsAreConfigured, Running
<1>10. CASE UNCHANGED managerVars
  BY <1>1, <1>10, Zenon DEF managerVars, ManagerInv, ManagerTypeOK, TableFollowsCaches, UpdatesAreReal, SessionsAreConfigured, Running
<1> QED BY <1>2, <1>3, <1>4, <1>5, <1>6, <1>7, <1>8, <1>9, <1>10, Zenon DEF ManagerNext

\* The inductive invariant.
THEOREM ManagerInvHolds == ManagerSpec => []ManagerInv
BY InitInv, NextInv, PTL DEF ManagerSpec

\* The manager's maps and queues keep their types.
THEOREM ManagerTypes == ManagerSpec => []ManagerTypeOK
<1>1. ManagerInv => ManagerTypeOK
  BY DEF ManagerInv
<1> QED BY <1>1, ManagerInvHolds, PTL

\* Whatever the caches deliver, in whatever order batches, expiries, kills and
\* removals are handled, the server's table ends up as the union of what the
\* caches hold (handle_batch, handle_expired, handle_remove_cache,
\* kill_less_preferred_tiers, handle_vrp_update).
THEOREM TableFollows == ManagerSpec => []TableFollowsCaches
<1>1. ManagerInv => TableFollowsCaches
  BY DEF ManagerInv
<1> QED BY <1>1, ManagerInvHolds, PTL

\* Every session handle carries the preference its cache is configured with.
THEOREM SessionsConfigured == ManagerSpec => []SessionsAreConfigured
<1>1. ManagerInv => SessionsAreConfigured
  BY DEF ManagerInv
<1> QED BY <1>1, ManagerInvHolds, PTL

\* Every update the server takes from its queue changes its table: it adds only
\* VRPs that are missing and removes only VRPs that are there, and none is both
\* added and removed (handle_vrp_update), however many updates were queued between
\* its computation and its application.
THEOREM UpdatesChangeTheTable == ManagerSpec => UpdatesAreChanges
<1> DEFINE Change == Len(updates') < Len(updates) =>
                       /\ Head(updates).added \cap (table \cup Head(updates).removed) = {}
                       /\ Head(updates).removed \subseteq table
<1>1. ManagerInv /\ [ManagerNext]_managerVars => [Change]_managerVars
  <2> SUFFICES ASSUME ManagerInv, ManagerNext, Len(updates') < Len(updates)
               PROVE  /\ Head(updates).added \cap (table \cup Head(updates).removed) = {}
                      /\ Head(updates).removed \subseteq table
    OBVIOUS
  <2>1. updates \in Seq(Updates) /\ UpdatesAreReal
    BY DEF ManagerInv, ManagerTypeOK
  <2>2. HandleVrpUpdate
    <3>1. ASSUME NEW c \in Caches, RemoveCache(c) PROVE FALSE
      BY <2>1, <3>1, WithUpdateLength, SMTT(60) DEF RemoveCache, RemovalDiff, HeldBy
    <3>2. ASSUME HandleExpired PROVE FALSE
      BY <2>1, <3>2, WithUpdateLength, SMTT(60) DEF HandleExpired, RemovalDiff, HeldBy
    <3>3. ASSUME HandleBatch PROVE FALSE
      <4>1. PICK a, d, b, e : updates' = WithUpdate(WithUpdate(updates, a, d), b, e)
        BY <3>3, Zenon DEF HandleBatch
      <4>2. WithUpdate(updates, a, d) \in Seq(Updates \cup {[added |-> a, removed |-> d]})
        BY <2>1 DEF WithUpdate
      <4>3. Len(WithUpdate(updates, a, d)) >= Len(updates)
        BY <2>1, WithUpdateLength, Zenon
      <4> DEFINE S == Updates \cup {[added |-> a, removed |-> d]}
      <4> DEFINE w == WithUpdate(updates, a, d)
      <4>4. Len(w) \in Nat /\ Len(updates) \in Nat
        BY <2>1, <4>2
      <4> HIDE DEF S, w
      <4>5. w \in Seq(S)
        BY <4>2 DEF w, S
      <4>6. Len(WithUpdate(w, b, e)) >= Len(w)
        BY <4>5, WithUpdateLength
      <4> QED BY <4>1, <4>3, <4>4, <4>6 DEF w
    <3>4. ASSUME UNCHANGED updates PROVE FALSE
      BY <2>1, <3>4
    <3> QED BY <3>1, <3>2, <3>3, <3>4, Zenon DEF ManagerNext, AddCache, HandleDisconnected, SendsBatch,
                 SendsDisconnected, SendsExpired, SessionSends, TaskEnds
  <2>3. updates # <<>> /\ 1 \in 1..Len(updates) /\ updates[1] = Head(updates) /\ Head(updates) \in Updates
    BY <2>1, <2>2 DEF HandleVrpUpdate
  <2>4. SubSeq(updates, 1, 1 - 1) = <<>>
    BY <2>1
  <2>5. \A v : FinallyIn(table, <<>>, v) <=> v \in table
    BY DEF FinallyIn
  <2>6. \A v \in Payloads :
          /\ v \in Head(updates).added => v \notin Head(updates).removed /\ v \notin table
          /\ v \in Head(updates).removed => v \in table
    BY <2>1, <2>3, <2>4, <2>5, Zenon DEF UpdatesAreReal, Real
  <2>7. Head(updates).added \in SUBSET Payloads /\ Head(updates).removed \in SUBSET Payloads
    BY <2>3 DEF Updates
  <2> QED BY <2>6, <2>7, Zenon
<1> QED BY <1>1, ManagerInvHolds, PTL DEF ManagerSpec, UpdatesAreChanges

=============================================================================
