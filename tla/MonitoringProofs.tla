-------------------------- MODULE MonitoringProofs --------------------------
(***************************************************************************)
(* What a BMP collector is shown, for any number of collectors and peers,  *)
(* any batch size and any length of the queues.                            *)
(*                                                                         *)
(* A collector lags behind the server by what its task has batched and     *)
(* what still waits for the task.  The invariant is therefore about what   *)
(* the collector will have read when all that is written (ToldTo): from    *)
(* there on one broadcast changes the server's state and what collectors   *)
(* will know alike, and the task only moves the border between what is     *)
(* written and what waits.                                                 *)
(***************************************************************************)
EXTENDS Monitoring, PropagationProofs

Kinds == {"Initiation", "PeerUp", "PeerDown", "RouteMonitoring", "StatisticsReport", "Termination"}
Messages == [kind : Kinds, peer : Sources, attr : Attrs \cup {None}]
Views == [init : BOOLEAN, up : SUBSET Sources, routes : [Peers -> Attrs \cup {None}],
          framed : BOOLEAN, counted : BOOLEAN, closed : BOOLEAN]
Tasks == [state : {"none", "starting", "running"}, open : BOOLEAN, rx : Seq(Messages), batch : Seq(Messages),
          conn : BOOLEAN, lossy : BOOLEAN]

\* The view that the messages not yet written are read with.
Beginning(t, v) == IF t.state = "starting" THEN Read(Blank, Initiation) ELSE v

\* What a collector knows when its task has written everything.
ToldTo(t, v) == ReadAll(Beginning(t, v), t.batch \o t.rx)

\* The view is that of a well-formed stream and, as long as the server tells the
\* task what happens, it has what the server has.
Shown(v, open, est, in) ==
  /\ v.framed /\ v.init
  /\ open => v.up = est /\ (MaxBatch = 1 /\ Looped = {} => v.routes = in)

\* A task that has lost nothing, and the view of its collector.
Faithful(t, v, est, in) ==
  /\ t.state = "none" => ~t.open
  /\ ~t.lossy => /\ v.framed
                 /\ t.state = "none" /\ t.conn => v.closed
                 /\ t.state = "starting" => ~t.conn /\ t.batch = <<>>
                 /\ t.state = "running" => t.conn
                 /\ t.state # "none" => Shown(ToldTo(t, v), t.open, est, in)

TaskTypes == bmp \in [Collectors -> Tasks] /\ seen \in [Collectors -> Views]

MonitoredInv ==
  Inv /\ TaskTypes /\ \A c \in Collectors : Faithful(bmp[c], seen[c], established, ribIn)

-----------------------------------------------------------------------------
(* The collector *)

LEMMA BlankType == Blank \in Views /\ Blank.framed
<1>1. [p \in Peers |-> None] \in [Peers -> Attrs \cup {None}]
  OBVIOUS
<1>. QED
  BY <1>1 DEF Blank, Views

LEMMA ReadType ==
  ASSUME NEW v \in Views, NEW m \in Messages
  PROVE  Read(v, m) \in Views /\ (Read(v, m).framed => v.framed)
<1>1. m.kind \in Kinds /\ m.peer \in Sources /\ m.attr \in Attrs \cup {None}
  BY DEF Messages
<1>2. CASE m.kind = "Initiation"
  <2>1. Read(v, m) = [v EXCEPT !.init = TRUE]
    BY <1>2 DEF Read
  <2>. QED
    BY <2>1, Zenon DEF Views
<1>3. CASE m.kind = "PeerUp"
  <2>. DEFINE k == v.framed /\ v.init /\ ~Known(v, m)
              u == v.up \cup {m.peer}
  <2>1. Read(v, m) = [v EXCEPT !.up = u, !.framed = k]
    BY <1>3 DEF Read
  <2>2. k \in BOOLEAN /\ (k => v.framed) /\ u \in SUBSET Sources
    BY <1>1 DEF Views
  <2>. HIDE DEF k, u
  <2>. QED
    BY <1>1, <2>1, <2>2, Zenon DEF Views
<1>4. CASE m.kind = "PeerDown"
  <2>. DEFINE k == v.framed /\ Known(v, m)
              r == [v.routes EXCEPT ![m.peer] = None]
  <2>1. Read(v, m) = [v EXCEPT !.up = v.up \ {m.peer}, !.routes = r, !.framed = k]
    BY <1>4 DEF Read
  <2>2. k \in BOOLEAN /\ (k => v.framed)
    BY DEF Views
  <2>3. r \in [Peers -> Attrs \cup {None}]
    BY Zenon DEF Views
  <2>. HIDE DEF k, r
  <2>. QED
    BY <1>1, <2>1, <2>2, <2>3, ZenonT(60) DEF Views
<1>5. CASE m.kind = "RouteMonitoring"
  <2>. DEFINE k == v.framed /\ Known(v, m)
              r == [v.routes EXCEPT ![m.peer] = m.attr]
  <2>1. Read(v, m) = [v EXCEPT !.routes = r, !.framed = k]
    BY <1>5 DEF Read
  <2>2. k \in BOOLEAN /\ (k => v.framed)
    BY DEF Views
  <2>3. r \in [Peers -> Attrs \cup {None}]
    BY <1>1, Zenon DEF Views
  <2>. HIDE DEF k, r
  <2>. QED
    BY <1>1, <2>1, <2>2, <2>3, Zenon DEF Views
<1>6. CASE m.kind = "StatisticsReport"
  <2>. DEFINE k == v.counted /\ Known(v, m)
  <2>1. Read(v, m) = [v EXCEPT !.counted = k]
    BY <1>6 DEF Read
  <2>2. k \in BOOLEAN
    BY DEF Views
  <2>. HIDE DEF k
  <2>. QED
    BY <2>1, <2>2 DEF Views
<1>7. CASE m.kind = "Termination"
  <2>1. Read(v, m) = [v EXCEPT !.closed = TRUE]
    BY <1>7 DEF Read
  <2>. QED
    BY <2>1, Zenon DEF Views
<1>. QED
  BY <1>1, <1>2, <1>3, <1>4, <1>5, <1>6, <1>7, Zenon DEF Kinds

\* f has what is known after each of the messages.
Reading(f, v, msgs) == f[0] = v /\ \A i \in 1..Len(msgs) : f[i] = Read(f[i - 1], msgs[i])

LEMMA ReadAllIs ==
  ASSUME NEW v, NEW msgs \in Seq(Messages), NEW f, Reading(f, v, msgs)
  PROVE  ReadAll(v, msgs) = f[Len(msgs)]
<1>. DEFINE n == Len(msgs)
            F(g) == [i \in 0..n |-> IF i = 0 THEN v ELSE Read(g[i - 1], msgs[i])]
            after == CHOOSE g : g = F(g)
            h == [i \in 0..n |-> f[i]]
            T == [i \in 0..n |-> {f[i]}]
<1>1. ReadAll(v, msgs) = after[n]
  BY DEF ReadAll
<1>2. n \in Nat
  OBVIOUS
<1>3. h = F(h)
  <2>1. ASSUME NEW i \in 0..n PROVE h[i] = IF i = 0 THEN v ELSE Read(h[i - 1], msgs[i])
    <3>1. CASE i = 0
      BY <3>1 DEF Reading
    <3>2. CASE i # 0
      <4>1. i \in 1..n /\ i - 1 \in 0..n
        BY <3>2, <1>2
      <4>. QED
        BY <4>1, <3>2 DEF Reading
    <3>. QED
      BY <3>1, <3>2
  <2>. QED
    BY <2>1
<1>4. after = F(after)
  BY <1>3
<1>. HIDE DEF after
<1>5. after[0] = v /\ \A i \in 1..n : after[i] = Read(after[i - 1], msgs[i])
  <2>1. 0 \in 0..n /\ \A i \in 1..n : i \in 0..n /\ i # 0
    BY <1>2
  <2>. QED
    BY <1>4, <2>1
<1>6. after[0] \in T[0]
  BY <1>5, <1>2 DEF Reading
<1>7. \A i \in 1..n : after[i - 1] \in T[i - 1] => after[i] \in T[i]
  <2>1. ASSUME NEW i \in 1..n, after[i - 1] \in T[i - 1] PROVE after[i] \in T[i]
    <3>1. i - 1 \in 0..n /\ i \in 0..n
      BY <1>2
    <3>2. after[i - 1] = f[i - 1]
      BY <3>1, <2>1
    <3>3. after[i] = f[i]
      BY <3>2, <1>5 DEF Reading
    <3>. QED
      BY <3>1, <3>3
  <2>. QED
    BY <2>1, Zenon
<1>8. \A i \in 0..n : after[i] \in T[i]
  <2>. HIDE DEF T, F, n, h
  <2>. QED
    BY <1>2, <1>6, <1>7, AllStages, Zenon
<1>9. n \in 0..n
  BY <1>2
<1>. QED
  BY <1>1, <1>8, <1>9

LEMMA ReadingExists ==
  ASSUME NEW v \in Views, NEW msgs \in Seq(Messages)
  PROVE  \E f \in [0..Len(msgs) -> Views] : Reading(f, v, msgs)
<1>. DEFINE n == Len(msgs)
            g == [i \in 1..n |-> [x \in Views |-> Read(x, msgs[i])]]
<1>1. n \in Nat /\ \A i \in 1..n : msgs[i] \in Messages
  OBVIOUS
<1>2. g \in [1..n -> [Views -> Views]]
  BY <1>1, ReadType
<1>3. PICK f \in [0..n -> Views] : Stages(f, v, n, g)
  <2>. HIDE DEF g, n
  <2>. QED
    BY <1>1, <1>2, FunctionExists, Zenon
<1>4. \A i \in 1..n : f[i] = Read(f[i - 1], msgs[i])
  <2>1. ASSUME NEW i \in 1..n PROVE f[i] = Read(f[i - 1], msgs[i])
    <3>1. i - 1 \in 0..n
      BY <1>1
    <3>2. f[i - 1] \in Views
      BY <3>1
    <3>. QED
      BY <1>3, <3>2 DEF Stages
  <2>. QED
    BY <2>1
<1>. QED
  BY <1>3, <1>4 DEF Reading, Stages

\* A property of the view that every message carries on.
LEMMA ReadAllKeeps ==
  ASSUME NEW v \in Views, NEW msgs \in Seq(Messages), NEW T, v \in T[0],
         \A i \in 1..Len(msgs) : \A x \in Views : x \in T[i - 1] => Read(x, msgs[i]) \in T[i]
  PROVE  ReadAll(v, msgs) \in Views /\ ReadAll(v, msgs) \in T[Len(msgs)]
<1>. DEFINE n == Len(msgs)
<1>1. PICK f \in [0..n -> Views] : Reading(f, v, msgs)
  BY ReadingExists
<1>2. n \in Nat
  OBVIOUS
<1>3. f[0] \in T[0]
  BY <1>1 DEF Reading
<1>4. \A i \in 1..n : f[i - 1] \in T[i - 1] => f[i] \in T[i]
  <2>1. ASSUME NEW i \in 1..n, f[i - 1] \in T[i - 1] PROVE f[i] \in T[i]
    <3>1. i - 1 \in 0..n
      BY <1>2
    <3>2. f[i - 1] \in Views
      BY <3>1, <1>1
    <3>. QED
      BY <1>1, <2>1, <3>2 DEF Reading
  <2>. QED
    BY <2>1
<1>5. \A i \in 0..n : f[i] \in T[i]
  <2>. HIDE DEF n
  <2>. QED
    BY <1>2, <1>3, <1>4, AllStages, Zenon
<1>6. ReadAll(v, msgs) = f[n]
  BY <1>1, ReadAllIs
<1>7. n \in 0..n
  BY <1>2
<1>. QED
  BY <1>1, <1>5, <1>6, <1>7

LEMMA ReadAllType ==
  ASSUME NEW v \in Views, NEW msgs \in Seq(Messages)
  PROVE  ReadAll(v, msgs) \in Views /\ (ReadAll(v, msgs).framed => v.framed)
<1>. DEFINE T == [i \in 0..Len(msgs) |-> {x \in Views : x.framed => v.framed}]
<1>1. Len(msgs) \in Nat /\ 0 \in 0..Len(msgs) /\ Len(msgs) \in 0..Len(msgs)
  OBVIOUS
<1>2. v \in T[0]
  BY <1>1
<1>3. \A i \in 1..Len(msgs) : \A x \in Views : x \in T[i - 1] => Read(x, msgs[i]) \in T[i]
  <2>1. ASSUME NEW i \in 1..Len(msgs), NEW x \in Views, x \in T[i - 1] PROVE Read(x, msgs[i]) \in T[i]
    <3>1. i - 1 \in 0..Len(msgs) /\ i \in 0..Len(msgs) /\ msgs[i] \in Messages
      BY <1>1
    <3>2. Read(x, msgs[i]) \in Views /\ (Read(x, msgs[i]).framed => x.framed)
      BY <3>1, ReadType
    <3>. QED
      BY <2>1, <3>1, <3>2
  <2>. QED
    BY <2>1, Zenon
<1>4. ReadAll(v, msgs) \in Views /\ ReadAll(v, msgs) \in T[Len(msgs)]
  <2>. HIDE DEF T
  <2>. QED
    BY <1>2, <1>3, ReadAllKeeps
<1>. QED
  BY <1>1, <1>4

LEMMA ReadNothing ==
  ASSUME NEW v
  PROVE  ReadAll(v, <<>>) = v
<1>1. <<>> \in Seq(Messages) /\ Len(<<>>) = 0
  OBVIOUS
<1>2. Reading([i \in 0..0 |-> v], v, <<>>)
  BY <1>1 DEF Reading
<1>. QED
  BY <1>1, <1>2, ReadAllIs

LEMMA ReadOne ==
  ASSUME NEW v, NEW m \in Messages
  PROVE  ReadAll(v, <<m>>) = Read(v, m)
<1>. DEFINE f == [i \in 0..1 |-> IF i = 0 THEN v ELSE Read(v, m)]
<1>1. <<m>> \in Seq(Messages) /\ Len(<<m>>) = 1 /\ <<m>>[1] = m
  OBVIOUS
<1>2. f[0] = v /\ f[1] = Read(v, m) /\ 1 - 1 = 0
  OBVIOUS
<1>. HIDE DEF f
<1>3. Reading(f, v, <<m>>)
  BY <1>1, <1>2 DEF Reading
<1>. QED
  BY <1>1, <1>2, <1>3, ReadAllIs, Zenon

\* It does not matter in how many pieces the messages are written.
LEMMA ReadConcat ==
  ASSUME NEW v \in Views, NEW a \in Seq(Messages), NEW b \in Seq(Messages)
  PROVE  ReadAll(v, a \o b) = ReadAll(ReadAll(v, a), b)
<1>. DEFINE m == Len(a)
            n == Len(b)
<1>1. m \in Nat /\ n \in Nat /\ a \o b \in Seq(Messages) /\ Len(a \o b) = m + n
  OBVIOUS
<1>2. PICK f \in [0..m -> Views] : Reading(f, v, a)
  BY ReadingExists
<1>3. ReadAll(v, a) = f[m] /\ f[m] \in Views
  BY <1>1, <1>2, ReadAllIs
<1>4. PICK g \in [0..n -> Views] : Reading(g, f[m], b)
  BY <1>3, ReadingExists, Zenon
<1>5. ReadAll(f[m], b) = g[n]
  BY <1>4, ReadAllIs
<1>. DEFINE h == [i \in 0..(m + n) |-> IF i <= m THEN f[i] ELSE g[i - m]]
<1>6. h[0] = v
  BY <1>1, <1>2 DEF Reading
<1>7. ASSUME NEW i \in 1..(m + n) PROVE h[i] = Read(h[i - 1], (a \o b)[i])
  <2>1. CASE i <= m
    <3>1. i \in 1..m /\ (a \o b)[i] = a[i] /\ h[i] = f[i] /\ h[i - 1] = f[i - 1]
      BY <2>1, <1>1
    <3>. QED
      BY <3>1, <1>2 DEF Reading
  <2>2. CASE i > m
    <3>1. i - m \in 1..n /\ (a \o b)[i] = b[i - m] /\ h[i] = g[i - m]
      BY <2>2, <1>1
    <3>2. h[i - 1] = g[(i - m) - 1]
      <4>1. CASE i - 1 = m
        <5>1. (i - m) - 1 = 0 /\ h[i - 1] = f[m]
          BY <4>1, <1>1
        <5>. QED
          BY <5>1, <1>4 DEF Reading
      <4>2. CASE i - 1 # m
        <5>1. i - 1 \in 0..(m + n) /\ ~(i - 1 <= m) /\ (i - 1) - m = (i - m) - 1
          BY <4>2, <2>2, <1>1
        <5>. QED
          BY <5>1
      <4>. QED
        BY <4>1, <4>2
    <3>. QED
      BY <3>1, <3>2, <1>4, Zenon DEF Reading
  <2>. QED
    BY <2>1, <2>2, <1>1
<1>8. h[m + n] = g[n]
  <2>1. CASE n = 0
    <3>1. h[m + n] = f[m]
      BY <2>1, <1>1
    <3>. QED
      BY <3>1, <2>1, <1>4 DEF Reading
  <2>2. CASE n # 0
    <3>1. m + n \in 0..(m + n) /\ ~(m + n <= m) /\ (m + n) - m = n
      BY <2>2, <1>1
    <3>. QED
      BY <3>1
  <2>. QED
    BY <2>1, <2>2
<1>. HIDE DEF h
<1>9. Reading(h, v, a \o b)
  BY <1>1, <1>6, <1>7 DEF Reading
<1>. QED
  BY <1>1, <1>3, <1>5, <1>8, <1>9, ReadAllIs, ZenonT(60)

\* What the messages about a peer tell.
LEMMA MessageTypes ==
  ASSUME NEW p \in Peers, NEW attr \in Attrs \cup {None}
  PROVE  /\ PeerUp(p) \in Messages /\ PeerDown(p) \in Messages /\ Statistics(p) \in Messages
         /\ RouteMonitoring(p, attr) \in Messages /\ Initiation \in Messages /\ Termination \in Messages
BY DEF PeerUp, PeerDown, Statistics, RouteMonitoring, Initiation, Termination, Msg, Messages, Kinds, Sources

LEMMA EndMessageTypes == Initiation \in Messages /\ Termination \in Messages
BY DEF Initiation, Termination, Msg, Messages, Kinds, Sources

LEMMA ReadInitiation ==
  /\ Read(Blank, Initiation) \in Views
  /\ Read(Blank, Initiation).init /\ Read(Blank, Initiation).framed
  /\ Read(Blank, Initiation).up = {} /\ Read(Blank, Initiation).routes = [p \in Peers |-> None]
<1>1. Read(Blank, Initiation) = [Blank EXCEPT !.init = TRUE]
  BY DEF Read, Initiation, Msg
<1>2. Read(Blank, Initiation) \in Views
  BY BlankType, EndMessageTypes, ReadType
<1>. QED
  BY <1>1, <1>2, Zenon DEF Blank

LEMMA ReadPeerUp ==
  ASSUME NEW v \in Views, NEW p \in Peers, v.framed, v.init, p \notin v.up
  PROVE  LET w == Read(v, PeerUp(p))
         IN  w \in Views /\ w.framed /\ w.init /\ w.up = v.up \cup {p} /\ w.routes = v.routes
<1>. DEFINE w == Read(v, PeerUp(p))
            k == v.framed /\ v.init /\ ~(p \in v.up)
<1>1. w = [v EXCEPT !.up = v.up \cup {p}, !.framed = k]
  BY DEF Read, PeerUp, Msg, Known
<1>2. w \in Views
  BY MessageTypes, ReadType
<1>3. k
  OBVIOUS
<1>. HIDE DEF k
<1>4. w.framed = k /\ w.init = v.init /\ w.up = v.up \cup {p} /\ w.routes = v.routes
  BY <1>1, Zenon DEF Views
<1>. HIDE DEF w
<1>. QED
  BY <1>2, <1>3, <1>4 DEF w

LEMMA ReadPeerDown ==
  ASSUME NEW v \in Views, NEW p \in Peers, v.framed, v.init, p \in v.up
  PROVE  LET w == Read(v, PeerDown(p))
         IN  w \in Views /\ w.framed /\ w.init /\ w.up = v.up \ {p} /\ w.routes = [v.routes EXCEPT ![p] = None]
<1>. DEFINE w == Read(v, PeerDown(p))
            k == v.framed /\ p \in v.up
            r == [v.routes EXCEPT ![p] = None]
<1>1. w = [v EXCEPT !.up = v.up \ {p}, !.routes = r, !.framed = k]
  BY DEF Read, PeerDown, Msg, Known
<1>2. w \in Views
  BY MessageTypes, ReadType
<1>3. k
  OBVIOUS
<1>. HIDE DEF k, r
<1>4. w.framed = k /\ w.init = v.init /\ w.up = v.up \ {p} /\ w.routes = r
  BY <1>1, Zenon DEF Views
<1>. HIDE DEF w
<1>. QED
  BY <1>2, <1>3, <1>4 DEF w, r

LEMMA ReadRouteMonitoring ==
  ASSUME NEW v \in Views, NEW p \in Peers, NEW attr \in Attrs \cup {None}, v.framed, v.init, p \in v.up
  PROVE  LET w == Read(v, RouteMonitoring(p, attr))
         IN  w \in Views /\ w.framed /\ w.init /\ w.up = v.up /\ w.routes = [v.routes EXCEPT ![p] = attr]
<1>. DEFINE w == Read(v, RouteMonitoring(p, attr))
            k == v.framed /\ p \in v.up
            r == [v.routes EXCEPT ![p] = attr]
<1>1. w = [v EXCEPT !.routes = r, !.framed = k]
  BY DEF Read, RouteMonitoring, Msg, Known
<1>2. w \in Views
  BY MessageTypes, ReadType
<1>3. k
  OBVIOUS
<1>. HIDE DEF k, r
<1>4. w.framed = k /\ w.init = v.init /\ w.up = v.up /\ w.routes = r
  BY <1>1, Zenon DEF Views
<1>. HIDE DEF w
<1>. QED
  BY <1>2, <1>3, <1>4 DEF w, r

LEMMA ReadTermination ==
  ASSUME NEW v \in Views
  PROVE  LET w == Read(v, Termination) IN w \in Views /\ w.framed = v.framed /\ w.closed
<1>1. Read(v, Termination) = [v EXCEPT !.closed = TRUE]
  BY DEF Read, Termination, Msg
<1>2. Read(v, Termination) \in Views
  BY EndMessageTypes, ReadType
<1>. QED
  BY <1>1, <1>2 DEF Views

\* Views that differ in what statistics reports have shown only.
Alike(x, y) ==
  x.init = y.init /\ x.up = y.up /\ x.routes = y.routes /\ x.framed = y.framed /\ x.closed = y.closed

LEMMA ReadStatistics ==
  ASSUME NEW v \in Views, NEW p \in Peers
  PROVE  Read(v, Statistics(p)) \in Views /\ Alike(Read(v, Statistics(p)), v)
<1>. DEFINE k == v.counted /\ Known(v, Statistics(p))
<1>1. Read(v, Statistics(p)) = [v EXCEPT !.counted = k]
  BY DEF Read, Statistics, Msg
<1>2. Read(v, Statistics(p)) \in Views
  BY MessageTypes, ReadType
<1>. HIDE DEF k
<1>. QED
  BY <1>1, <1>2 DEF Views, Alike

LEMMA ReadAlike ==
  ASSUME NEW x \in Views, NEW y \in Views, NEW m \in Messages, Alike(x, y)
  PROVE  Alike(Read(x, m), Read(y, m))
<1>0. m.kind \in Kinds
  BY DEF Messages
<1>1. CASE m.kind = "Initiation"
  <2>1. Read(x, m) = [x EXCEPT !.init = TRUE] /\ Read(y, m) = [y EXCEPT !.init = TRUE]
    BY <1>1 DEF Read
  <2>. QED
    BY <2>1 DEF Views, Alike
<1>2. CASE m.kind = "PeerUp"
  <2>. DEFINE k(v) == v.framed /\ v.init /\ ~Known(v, m)
              u(v) == v.up \cup {m.peer}
  <2>1. Read(x, m) = [x EXCEPT !.up = u(x), !.framed = k(x)] /\ Read(y, m) = [y EXCEPT !.up = u(y), !.framed = k(y)]
    BY <1>2 DEF Read
  <2>2. k(x) = k(y) /\ u(x) = u(y)
    BY DEF Alike, Known
  <2>. HIDE DEF k, u
  <2>. QED
    BY <2>1, <2>2 DEF Views, Alike
<1>3. CASE m.kind = "PeerDown"
  <2>. DEFINE k(v) == v.framed /\ Known(v, m)
              u(v) == v.up \ {m.peer}
              r(v) == [v.routes EXCEPT ![m.peer] = None]
  <2>1. /\ Read(x, m) = [x EXCEPT !.up = u(x), !.routes = r(x), !.framed = k(x)]
        /\ Read(y, m) = [y EXCEPT !.up = u(y), !.routes = r(y), !.framed = k(y)]
    BY <1>3 DEF Read
  <2>2. k(x) = k(y) /\ u(x) = u(y) /\ r(x) = r(y)
    BY DEF Alike, Known
  <2>. HIDE DEF k, u, r
  <2>. QED
    BY <2>1, <2>2 DEF Views, Alike
<1>4. CASE m.kind = "RouteMonitoring"
  <2>. DEFINE k(v) == v.framed /\ Known(v, m)
              r(v) == [v.routes EXCEPT ![m.peer] = m.attr]
  <2>1. /\ Read(x, m) = [x EXCEPT !.routes = r(x), !.framed = k(x)]
        /\ Read(y, m) = [y EXCEPT !.routes = r(y), !.framed = k(y)]
    BY <1>4 DEF Read
  <2>2. k(x) = k(y) /\ r(x) = r(y)
    BY DEF Alike, Known
  <2>. HIDE DEF k, r
  <2>. QED
    BY <2>1, <2>2 DEF Views, Alike
<1>5. CASE m.kind = "StatisticsReport"
  <2>. DEFINE k(v) == v.counted /\ Known(v, m)
  <2>1. Read(x, m) = [x EXCEPT !.counted = k(x)] /\ Read(y, m) = [y EXCEPT !.counted = k(y)]
    BY <1>5 DEF Read
  <2>. HIDE DEF k
  <2>. QED
    BY <2>1 DEF Views, Alike
<1>6. CASE m.kind = "Termination"
  <2>1. Read(x, m) = [x EXCEPT !.closed = TRUE] /\ Read(y, m) = [y EXCEPT !.closed = TRUE]
    BY <1>6 DEF Read
  <2>. QED
    BY <2>1 DEF Views, Alike
<1>. QED
  BY <1>0, <1>1, <1>2, <1>3, <1>4, <1>5, <1>6, Zenon DEF Kinds

LEMMA ReadAllAlike ==
  ASSUME NEW x \in Views, NEW y \in Views, NEW msgs \in Seq(Messages), Alike(x, y)
  PROVE  Alike(ReadAll(x, msgs), ReadAll(y, msgs))
<1>. DEFINE n == Len(msgs)
<1>1. PICK f \in [0..n -> Views] : Reading(f, y, msgs)
  BY ReadingExists
<1>. DEFINE T == [i \in 0..n |-> {z \in Views : Alike(z, f[i])}]
<1>2. n \in Nat /\ 0 \in 0..n /\ n \in 0..n
  OBVIOUS
<1>3. x \in T[0]
  BY <1>1, <1>2 DEF Reading
<1>4. \A i \in 1..n : \A z \in Views : z \in T[i - 1] => Read(z, msgs[i]) \in T[i]
  <2>1. ASSUME NEW i \in 1..n, NEW z \in Views, z \in T[i - 1] PROVE Read(z, msgs[i]) \in T[i]
    <3>1. i - 1 \in 0..n /\ i \in 0..n /\ msgs[i] \in Messages
      BY <1>2
    <3>2. Alike(z, f[i - 1]) /\ f[i - 1] \in Views /\ f[i] = Read(f[i - 1], msgs[i])
      BY <1>1, <2>1, <3>1 DEF Reading
    <3>3. Alike(Read(z, msgs[i]), f[i]) /\ Read(z, msgs[i]) \in Views
      BY <3>1, <3>2, ReadAlike, ReadType, Zenon
    <3>. QED
      BY <3>1, <3>3
  <2>. QED
    BY <2>1, Zenon
<1>5. ReadAll(x, msgs) \in T[n]
  <2>. HIDE DEF T
  <2>. QED
    BY <1>3, <1>4, ReadAllKeeps
<1>6. ReadAll(y, msgs) = f[n]
  BY <1>1, ReadAllIs
<1>. QED
  BY <1>2, <1>5, <1>6

-----------------------------------------------------------------------------
(* The writes of a task *)

Writing == [task : Tasks, view : Views]

\* The fields of a task that its writes leave alone.
SameWork(t, u) == t.state = u.state /\ t.open = u.open /\ t.rx = u.rx /\ t.batch = u.batch

LEMMA SendRawType ==
  ASSUME NEW s \in Writing, NEW msgs \in Seq(Messages), NEW ok \in BOOLEAN
  PROVE  LET r == send_raw(s, msgs, ok)
         IN  /\ r \in Writing /\ SameWork(r.task, s.task)
             /\ ~r.task.lossy => /\ ok /\ ~s.task.lossy /\ r.task.conn
                                 /\ r.view = ReadAll(IF s.task.conn THEN s.view ELSE Blank, msgs)
<1>. DEFINE r == send_raw(s, msgs, ok)
            base == IF s.task.conn THEN s.view ELSE Blank
<1>0. s.task \in Tasks /\ s.view \in Views /\ base \in Views
  BY BlankType DEF Writing
<1>. HIDE DEF base
<1>1. CASE ok
  <2>. DEFINE t == [s.task EXCEPT !.conn = TRUE]
              v == ReadAll(base, msgs)
  <2>1. r = [task |-> t, view |-> v]
    BY <1>1 DEF send_raw, base
  <2>2. t \in Tasks /\ SameWork(t, s.task) /\ t.lossy = s.task.lossy /\ t.conn
    BY <1>0, Zenon DEF Tasks, SameWork
  <2>3. v \in Views
    BY <1>0, ReadAllType
  <2>. HIDE DEF t, v
  <2>4. r \in Writing /\ r.task = t /\ r.view = v
    BY <2>1, <2>2, <2>3 DEF Writing
  <2>. HIDE DEF r
  <2>5. r \in Writing /\ SameWork(r.task, s.task)
    BY <2>2, <2>4
  <2>6. ~r.task.lossy => ok /\ ~s.task.lossy /\ r.task.conn /\ r.view = v
    BY <1>1, <2>2, <2>4
  <2>. QED
    BY <2>5, <2>6 DEF r, v, base
<1>2. CASE ~ok
  <2>. DEFINE t == [s.task EXCEPT !.conn = FALSE, !.lossy = TRUE]
  <2>1. r = [task |-> t, view |-> Blank]
    BY <1>2 DEF send_raw
  <2>2. t \in Tasks /\ SameWork(t, s.task) /\ t.lossy
    BY <1>0, Zenon DEF Tasks, SameWork
  <2>. HIDE DEF t
  <2>3. r \in Writing /\ r.task = t
    BY <2>1, <2>2, BlankType DEF Writing
  <2>. HIDE DEF r
  <2>4. r \in Writing /\ SameWork(r.task, s.task) /\ r.task.lossy
    BY <2>2, <2>3
  <2>. QED
    BY <2>4 DEF r
<1>. QED
  BY <1>1, <1>2

\* A property of task and view that every write carries on.
LEMMA SendAllKeeps ==
  ASSUME NEW s \in Writing, NEW groups \in Seq(Seq(Messages)), NEW ok \in [1..Len(groups) -> BOOLEAN],
         NEW T, s \in T[0],
         \A i \in 1..Len(groups) : \A x \in Writing : x \in T[i - 1] => send_raw(x, groups[i], ok[i]) \in T[i]
  PROVE  SendAll(s, groups, ok) \in Writing /\ SendAll(s, groups, ok) \in T[Len(groups)]
<1>. DEFINE n == Len(groups)
            F(f) == [i \in 0..n |-> IF i = 0 THEN s ELSE send_raw(f[i - 1], groups[i], ok[i])]
            after == CHOOSE f : f = F(f)
            g == [i \in 1..n |-> [x \in Writing |-> send_raw(x, groups[i], ok[i])]]
            U == [i \in 0..n |-> T[i] \cap Writing]
<1>1. SendAll(s, groups, ok) = after[n]
  BY DEF SendAll
<1>2. n \in Nat /\ 0 \in 0..n /\ n \in 0..n /\ \A i \in 1..n : groups[i] \in Seq(Messages)
  OBVIOUS
<1>3. \A x \in Writing : \A i \in 1..n : send_raw(x, groups[i], ok[i]) \in Writing
  <2>1. \A i \in 1..n : ok[i] \in BOOLEAN
    BY Zenon
  <2>. QED
    BY <1>2, <2>1, SendRawType, Zenon
<1>4. g \in [1..n -> [Writing -> Writing]]
  BY <1>3
<1>5. PICK h \in [0..n -> Writing] : Stages(h, s, n, g)
  <2>. HIDE DEF g, n
  <2>. QED
    BY <1>2, <1>4, FunctionExists, Zenon
<1>6. h = F(h)
  <2>1. ASSUME NEW i \in 0..n PROVE h[i] = IF i = 0 THEN s ELSE send_raw(h[i - 1], groups[i], ok[i])
    <3>1. CASE i = 0
      BY <3>1, <1>5 DEF Stages
    <3>2. CASE i # 0
      <4>1. i \in 1..n /\ i - 1 \in 0..n
        BY <3>2, <1>2
      <4>2. h[i - 1] \in Writing
        BY <4>1, Zenon
      <4>. QED
        BY <4>1, <4>2, <3>2, <1>5, Zenon DEF Stages
    <3>. QED
      BY <3>1, <3>2
  <2>. QED
    BY <2>1, SMTT(60)
<1>7. after = F(after)
  BY <1>6, Zenon
<1>. HIDE DEF after
<1>8. after[0] = s /\ \A i \in 1..n : after[i] = send_raw(after[i - 1], groups[i], ok[i])
  <2>1. \A i \in 1..n : i \in 0..n /\ i # 0
    BY <1>2
  <2>. QED
    BY <1>2, <1>7, <2>1, Zenon
<1>9. after[0] \in U[0]
  BY <1>8, <1>2
<1>10. \A i \in 1..n : after[i - 1] \in U[i - 1] => after[i] \in U[i]
  <2>1. ASSUME NEW i \in 1..n, after[i - 1] \in U[i - 1] PROVE after[i] \in U[i]
    <3>1. i - 1 \in 0..n /\ i \in 0..n
      BY <1>2
    <3>2. after[i - 1] \in T[i - 1] /\ after[i - 1] \in Writing
      BY <2>1, <3>1, Zenon
    <3>3. after[i] \in T[i] /\ after[i] \in Writing
      BY <3>2, <1>3, <1>8
    <3>. QED
      BY <3>1, <3>3, Zenon
  <2>. QED
    BY <2>1, Zenon
<1>11. \A i \in 0..n : after[i] \in U[i]
  <2>. HIDE DEF U, F, n, g
  <2>. QED
    BY <1>2, <1>9, <1>10, AllStages, Zenon
<1>. QED
  BY <1>1, <1>2, <1>11

\* What is left of the task and the view when its writes are done.
Wrote(c, t, v, task) ==
  /\ t \in Tasks /\ v \in Views /\ SameWork(t, task) /\ (~t.lossy => ~task.lossy)
  /\ bmp' = [bmp EXCEPT ![c] = t] /\ seen' = [seen EXCEPT ![c] = v]

\* W has the views that are possible after each of the groups, if none is lost.
LEMMA WritesKeeps ==
  ASSUME NEW c \in Collectors, TaskTypes, NEW task \in Tasks, NEW groups \in Seq(Seq(Messages)),
         groups # <<>>, NEW W,
         ReadAll(IF task.conn THEN seen[c] ELSE Blank, groups[1]) \in W[1],
         \A i \in 2..Len(groups) : \A v \in Views : v \in W[i - 1] => ReadAll(v, groups[i]) \in W[i],
         Writes(c, task, groups)
  PROVE  \E t \in Tasks, v \in Views : Wrote(c, t, v, task) /\ (~t.lossy => t.conn /\ v \in W[Len(groups)])
<1>. DEFINE n == Len(groups)
            s == [task |-> task, view |-> seen[c]]
            T == [i \in 0..n |-> IF i = 0 THEN {s}
                                 ELSE {x \in Writing : /\ SameWork(x.task, task)
                                                       /\ ~x.task.lossy => ~task.lossy /\ x.task.conn /\ x.view \in W[i]}]
<1>1. n \in Nat /\ n # 0 /\ 0 \in 0..n /\ n \in 0..n /\ \A i \in 1..n : groups[i] \in Seq(Messages)
  OBVIOUS
<1>2. s \in Writing
  BY DEF Writing, TaskTypes
<1>3. PICK ok \in [1..n -> BOOLEAN] :
        bmp' = [bmp EXCEPT ![c] = SendAll(s, groups, ok).task] /\ seen' = [seen EXCEPT ![c] = SendAll(s, groups, ok).view]
  BY Zenon DEF Writes
<1>4. s \in T[0]
  BY <1>1
<1>5. \A i \in 1..n : \A x \in Writing : x \in T[i - 1] => send_raw(x, groups[i], ok[i]) \in T[i]
  <2>1. ASSUME NEW i \in 1..n, NEW x \in Writing, x \in T[i - 1] PROVE send_raw(x, groups[i], ok[i]) \in T[i]
    <3>. DEFINE r == send_raw(x, groups[i], ok[i])
                base == IF x.task.conn THEN x.view ELSE Blank
    <3>0. i \in 0..n /\ i # 0 /\ i - 1 \in 0..n /\ groups[i] \in Seq(Messages) /\ ok[i] \in BOOLEAN
      BY <1>1
    <3>1. /\ r \in Writing /\ SameWork(r.task, x.task)
          /\ ~r.task.lossy => ~x.task.lossy /\ r.task.conn /\ r.view = ReadAll(base, groups[i])
      BY <3>0, SendRawType, Zenon
    <3>. HIDE DEF r
    <3>2. SameWork(x.task, task) /\ (~x.task.lossy => ~task.lossy /\ ReadAll(base, groups[i]) \in W[i])
      <4>1. CASE i = 1
        <5>1. x = s
          BY <2>1, <4>1, <1>1
        <5>2. x.task = task /\ x.view = seen[c]
          BY <5>1, Zenon
        <5>. QED
          BY <5>2, <4>1, Zenon DEF SameWork
      <4>2. CASE i # 1
        <5>1. i - 1 # 0 /\ i \in 2..n
          BY <4>2, <1>1
        <5>2. SameWork(x.task, task) /\ (~x.task.lossy => ~task.lossy /\ x.task.conn /\ x.view \in W[i - 1])
          BY <5>1, <3>0, <2>1, Zenon
        <5>3. x.view \in Views
          BY Zenon DEF Writing
        <5>. QED
          BY <5>1, <5>2, <5>3, Zenon
      <4>. QED
        BY <4>1, <4>2, Zenon
    <3>. HIDE DEF base
    <3>3. SameWork(r.task, task)
      BY <3>1, <3>2, Zenon DEF SameWork
    <3>4. ~r.task.lossy => ~task.lossy /\ r.task.conn /\ r.view \in W[i]
      BY <3>1, <3>2, Zenon
    <3>. QED
      BY <3>0, <3>1, <3>3, <3>4, Zenon DEF r
  <2>. QED
    BY <2>1, Zenon
<1>. DEFINE end == SendAll(s, groups, ok)
<1>6. end \in Writing /\ end \in T[n]
  <2>. HIDE DEF T, s
  <2>. QED
    BY <1>2, <1>4, <1>5, SendAllKeeps, Zenon
<1>. HIDE DEF end, s
<1>7. SameWork(end.task, task) /\ (~end.task.lossy => ~task.lossy /\ end.task.conn /\ end.view \in W[n])
  BY <1>1, <1>6, Zenon
<1>8. end.task \in Tasks /\ end.view \in Views
  BY <1>6 DEF Writing
<1>9. bmp' = [bmp EXCEPT ![c] = end.task] /\ seen' = [seen EXCEPT ![c] = end.view]
  BY <1>3 DEF end
<1>. QED
  BY <1>7, <1>8, <1>9, Zenon DEF Wrote

LEMMA WritesNothing ==
  ASSUME NEW c \in Collectors, TaskTypes, NEW task \in Tasks, Writes(c, task, <<>>)
  PROVE  Wrote(c, task, seen[c], task)
<1>. DEFINE s == [task |-> task, view |-> seen[c]]
            T == [i \in 0..0 |-> {s}]
<1>1. s \in Writing /\ s.task = task /\ s.view = seen[c] /\ seen[c] \in Views
  BY DEF Writing, TaskTypes
<1>2. PICK ok \in [1..Len(<<>>) -> BOOLEAN] :
        bmp' = [bmp EXCEPT ![c] = SendAll(s, <<>>, ok).task] /\ seen' = [seen EXCEPT ![c] = SendAll(s, <<>>, ok).view]
  BY Zenon DEF Writes
<1>3. <<>> \in Seq(Seq(Messages)) /\ Len(<<>>) = 0
  OBVIOUS
<1>4. SendAll(s, <<>>, ok) \in T[0]
  <2>1. s \in T[0]
    OBVIOUS
  <2>2. \A i \in 1..Len(<<>>) : \A x \in Writing : x \in T[i - 1] => send_raw(x, <<>>[i], ok[i]) \in T[i]
    BY <1>3
  <2>. HIDE DEF T, s
  <2>. QED
    BY <1>1, <1>3, <2>1, <2>2, SendAllKeeps, Zenon
<1>5. SendAll(s, <<>>, ok) = s
  BY <1>4
<1>. HIDE DEF s
<1>. QED
  BY <1>1, <1>2, <1>5, Zenon DEF Wrote, SameWork

-----------------------------------------------------------------------------
(* The steps of a task *)

\* The network does not change, so what is true of the new state is meant by the
\* primed formula.
LEMMA InvOfNewState ==
  ASSUME Inv', setup' = setup, bmp' \in [Collectors -> Tasks], seen' \in [Collectors -> Views],
         \A c \in Collectors : Faithful(bmp'[c], seen'[c], established', ribIn')
  PROVE  MonitoredInv'
<1>1. Peers' = Peers /\ Collectors' = Collectors /\ MaxBatch' = MaxBatch /\ Looped' = Looped
  BY DEF Peers, Collectors, MaxBatch, Looped
<1>2. Sources' = Sources /\ Blank' = Blank
  BY <1>1 DEF Sources, Blank
<1>3. Messages' = Messages /\ Views' = Views
  BY <1>1, <1>2, Zenon DEF Messages, Views
<1>4. Tasks' = Tasks
  BY <1>3 DEF Tasks
<1>5. TaskTypes'
  BY <1>1, <1>3, <1>4, Zenon DEF TaskTypes
<1>6. ASSUME NEW c \in Collectors PROVE Faithful(bmp[c], seen[c], established, ribIn)'
  <2>1. Faithful(bmp'[c], seen'[c], established', ribIn')
    OBVIOUS
  <2>. QED
    BY <2>1, <1>1, <1>2, Zenon DEF Faithful, Shown, ToldTo, Beginning
<1>. QED
  BY <1>1, <1>5, <1>6, Zenon DEF MonitoredInv

\* A step of the task of one collector.
LEMMA TaskKeeps ==
  ASSUME MonitoredInv, UNCHANGED vars, NEW c \in Collectors, NEW t \in Tasks, NEW v \in Views,
         bmp' = [bmp EXCEPT ![c] = t], seen' = [seen EXCEPT ![c] = v], Faithful(t, v, established, ribIn)
  PROVE  MonitoredInv'
<1>1. Inv' /\ setup' = setup /\ established' = established /\ ribIn' = ribIn
  <2>1. Inv /\ [Next]_vars
    BY DEF MonitoredInv
  <2>. QED
    BY <2>1, InvNext, Zenon DEF vars
<1>2. bmp \in [Collectors -> Tasks] /\ seen \in [Collectors -> Views]
  BY DEF MonitoredInv, TaskTypes
<1>3. bmp' \in [Collectors -> Tasks] /\ seen' \in [Collectors -> Views]
  BY <1>2
<1>4. ASSUME NEW d \in Collectors PROVE Faithful(bmp'[d], seen'[d], established', ribIn')
  <2>1. CASE d = c
    BY <1>1, <1>2, <2>1, ZenonT(60)
  <2>2. CASE d # c
    <3>1. bmp'[d] = bmp[d] /\ seen'[d] = seen[d]
      BY <1>2, <2>2
    <3>. QED
      BY <1>1, <3>1 DEF MonitoredInv
  <2>. QED
    BY <2>1, <2>2
<1>. QED
  BY <1>1, <1>3, <1>4, InvOfNewState, ZenonT(60)

\* What holds of the task and the view of a collector.
LEMMA OfCollector ==
  ASSUME MonitoredInv, NEW c \in Collectors
  PROVE  TaskTypes /\ bmp[c] \in Tasks /\ seen[c] \in Views /\ Faithful(bmp[c], seen[c], established, ribIn)
BY DEF MonitoredInv, TaskTypes

\* A write of one group of messages.
LEMMA WritesOne ==
  ASSUME NEW c \in Collectors, TaskTypes, NEW task \in Tasks, NEW msgs \in Seq(Messages),
         Writes(c, task, <<msgs>>)
  PROVE  \E t \in Tasks, v \in Views :
           /\ Wrote(c, t, v, task)
           /\ ~t.lossy => t.conn /\ v = ReadAll(IF task.conn THEN seen[c] ELSE Blank, msgs)
<1>. DEFINE w == ReadAll(IF task.conn THEN seen[c] ELSE Blank, msgs)
            W == [i \in 1..1 |-> {w}]
            groups == <<msgs>>
<1>1. groups \in Seq(Seq(Messages)) /\ groups # <<>> /\ Len(groups) = 1 /\ groups[1] = msgs
  OBVIOUS
<1>2. W[1] = {w}
  OBVIOUS
<1>. HIDE DEF W, w
<1>3. ReadAll(IF task.conn THEN seen[c] ELSE Blank, groups[1]) \in W[1]
  BY <1>1, <1>2, Zenon DEF w
<1>4. \A i \in 2..Len(groups) : \A v \in Views : v \in W[i - 1] => ReadAll(v, groups[i]) \in W[i]
  BY <1>1, SMTT(60)
<1>. HIDE DEF groups
<1>5. Writes(c, task, groups)
  BY DEF groups
<1>6. PICK t \in Tasks, v \in Views : Wrote(c, t, v, task) /\ (~t.lossy => t.conn /\ v \in W[Len(groups)])
  BY <1>1, <1>3, <1>4, <1>5, WritesKeeps, Zenon
<1>. QED
  BY <1>1, <1>2, <1>6 DEF w

LEMMA StartKeeps ==
  ASSUME MonitoredInv, UNCHANGED vars, NEW c \in Collectors, Start(c)
  PROVE  MonitoredInv'
<1>. DEFINE b == bmp[c]
            task == [b EXCEPT !.state = "running"]
            msgs == <<Initiation>>
<1>1. TaskTypes /\ b \in Tasks /\ seen[c] \in Views /\ Faithful(b, seen[c], established, ribIn)
  BY OfCollector
<1>2. b.state = "starting" /\ Writes(c, task, <<msgs>>)
  BY DEF Start
<1>. HIDE DEF b
<1>3. /\ task \in Tasks /\ task.state = "running" /\ task.open = b.open /\ task.rx = b.rx /\ task.batch = b.batch
      /\ task.conn = b.conn /\ task.lossy = b.lossy
  BY <1>1 DEF Tasks
<1>4. msgs \in Seq(Messages)
  BY EndMessageTypes
<1>. HIDE DEF task, msgs
<1>5. PICK t \in Tasks, v \in Views :
        Wrote(c, t, v, task) /\ (~t.lossy => t.conn /\ v = ReadAll(IF task.conn THEN seen[c] ELSE Blank, msgs))
  BY <1>1, <1>2, <1>3, <1>4, WritesOne, SMTT(60)
<1>6. /\ bmp' = [bmp EXCEPT ![c] = t] /\ seen' = [seen EXCEPT ![c] = v]
      /\ t.state = "running" /\ t.open = b.open /\ t.rx = b.rx /\ t.batch = b.batch /\ (~t.lossy => ~b.lossy)
  BY <1>3, <1>5, ZenonT(60) DEF Wrote, SameWork
<1>7. ASSUME ~t.lossy PROVE v.framed /\ t.conn /\ Shown(ToldTo(t, v), t.open, established, ribIn)
  <2>1. ~b.conn /\ Shown(ToldTo(b, seen[c]), b.open, established, ribIn)
    BY <1>1, <1>2, <1>6, <1>7, Zenon DEF Faithful
  <2>2. v = Read(Blank, Initiation)
    BY <2>1, <1>3, <1>5, <1>7, EndMessageTypes, ReadOne DEF msgs
  <2>3. ToldTo(t, v) = ToldTo(b, seen[c])
    BY <1>2, <1>6, <2>2, ZenonT(60) DEF ToldTo, Beginning
  <2>4. v.framed
    BY <2>2, ReadInitiation, Zenon
  <2>. QED
    BY <1>5, <1>6, <1>7, <2>1, <2>3, <2>4, Zenon
<1>8. Faithful(t, v, established, ribIn)
  BY <1>6, <1>7 DEF Faithful
<1>. QED
  BY <1>6, <1>8, TaskKeeps, Zenon

\* Writing out the batch, after it took in an operation or as it was.
LEMMA FlushKeeps ==
  ASSUME MonitoredInv, UNCHANGED vars, NEW c \in Collectors, Works(c),
         NEW batch \in Seq(Messages), NEW rx \in Seq(Messages), batch \o rx = bmp[c].batch \o bmp[c].rx,
         Writes(c, [bmp[c] EXCEPT !.rx = rx, !.batch = <<>>], <<batch>>)
  PROVE  MonitoredInv'
<1>. DEFINE b == bmp[c]
            task == [b EXCEPT !.rx = rx, !.batch = <<>>]
<1>1. TaskTypes /\ b \in Tasks /\ seen[c] \in Views /\ Faithful(b, seen[c], established, ribIn)
  BY OfCollector
<1>2. b.state = "running" /\ Writes(c, task, <<batch>>) /\ batch \o rx = b.batch \o b.rx
  BY DEF Works
<1>. HIDE DEF b
<1>3. /\ task \in Tasks /\ task.state = b.state /\ task.open = b.open /\ task.rx = rx /\ task.batch = <<>>
      /\ task.conn = b.conn /\ task.lossy = b.lossy
  <2>1. <<>> \in Seq(Messages)
    OBVIOUS
  <2>. QED
    BY <1>1, <2>1, Zenon DEF Tasks
<1>. HIDE DEF task
<1>4. PICK t \in Tasks, v \in Views :
        Wrote(c, t, v, task) /\ (~t.lossy => t.conn /\ v = ReadAll(IF task.conn THEN seen[c] ELSE Blank, batch))
  BY <1>1, <1>2, <1>3, WritesOne
<1>5. /\ bmp' = [bmp EXCEPT ![c] = t] /\ seen' = [seen EXCEPT ![c] = v]
      /\ t.state = "running" /\ t.open = b.open /\ t.rx = rx /\ t.batch = <<>> /\ (~t.lossy => ~b.lossy)
  BY <1>2, <1>3, <1>4, Zenon DEF Wrote, SameWork
<1>6. ASSUME ~t.lossy PROVE v.framed /\ t.conn /\ Shown(ToldTo(t, v), t.open, established, ribIn)
  <2>1. b.conn /\ Shown(ToldTo(b, seen[c]), b.open, established, ribIn)
    BY <1>1, <1>2, <1>5, <1>6, ZenonT(60) DEF Faithful
  <2>2. v = ReadAll(seen[c], batch)
    BY <2>1, <1>3, <1>4, <1>6, Zenon
  <2>3. ToldTo(t, v) = ReadAll(v, rx)
    <3>1. <<>> \o rx = rx
      OBVIOUS
    <3>. QED
      BY <1>5, <3>1, Zenon DEF ToldTo, Beginning
  <2>4. ToldTo(b, seen[c]) = ReadAll(seen[c], batch \o rx)
    BY <1>2 DEF ToldTo, Beginning
  <2>5. ToldTo(t, v) = ToldTo(b, seen[c])
    BY <1>1, <2>2, <2>3, <2>4, ReadConcat, Zenon
  <2>6. v.framed
    BY <2>1, <2>3, <2>5, ReadAllType, ZenonT(60) DEF Shown
  <2>. QED
    BY <1>4, <1>5, <1>6, <2>1, <2>5, <2>6, ZenonT(60)
<1>7. Faithful(t, v, established, ribIn)
  BY <1>5, <1>6 DEF Faithful
<1>. QED
  BY <1>5, <1>7, TaskKeeps, Zenon

LEMMA FlushTimerKeeps ==
  ASSUME MonitoredInv, UNCHANGED vars, NEW c \in Collectors, FlushTimer(c)
  PROVE  MonitoredInv'
<1>1. bmp[c] \in Tasks
  BY OfCollector
<1>2. Works(c) /\ Writes(c, Flushed(bmp[c]), <<bmp[c].batch>>)
  BY DEF FlushTimer
<1>3. Flushed(bmp[c]) = [bmp[c] EXCEPT !.rx = bmp[c].rx, !.batch = <<>>]
  BY <1>1, Zenon DEF Flushed, Tasks
<1>4. bmp[c].rx \in Seq(Messages) /\ bmp[c].batch \in Seq(Messages)
  BY <1>1 DEF Tasks
<1>. QED
  BY <1>2, <1>3, <1>4, FlushKeeps, Zenon

LEMMA TakeOpKeeps ==
  ASSUME MonitoredInv, UNCHANGED vars, NEW c \in Collectors, TakeOp(c)
  PROVE  MonitoredInv'
<1>. DEFINE b == bmp[c]
            rx == Tail(b.rx)
            batch == Append(b.batch, Head(b.rx))
            task == [b EXCEPT !.rx = rx, !.batch = batch]
<1>1. TaskTypes /\ b \in Tasks /\ seen[c] \in Views /\ Faithful(b, seen[c], established, ribIn)
  BY OfCollector
<1>2. Works(c) /\ b.rx # <<>> /\ b.state = "running"
  BY DEF TakeOp, Works
<1>3. IF Len(task.batch) < BatchSize THEN Writes(c, task, <<>>) ELSE Writes(c, Flushed(task), <<task.batch>>)
  BY DEF TakeOp
<1>. HIDE DEF b
<1>4. b.rx \in Seq(Messages) /\ b.batch \in Seq(Messages)
  BY <1>1 DEF Tasks
<1>5. rx \in Seq(Messages) /\ batch \in Seq(Messages) /\ batch \o rx = b.batch \o b.rx
  <2>. DEFINE q == b.rx
              a == b.batch
  <2>1. q \in Seq(Messages) /\ q # <<>> /\ a \in Seq(Messages)
    BY <1>2, <1>4
  <2>. HIDE DEF q, a
  <2>2. Append(a, Head(q)) \o Tail(q) = a \o q
    BY <2>1
  <2>3. Tail(q) \in Seq(Messages) /\ Append(a, Head(q)) \in Seq(Messages)
    BY <2>1
  <2>. QED
    BY <2>2, <2>3, Zenon DEF q, a
<1>. HIDE DEF rx, batch
<1>6. /\ task \in Tasks /\ task.state = b.state /\ task.open = b.open /\ task.rx = rx /\ task.batch = batch
      /\ task.conn = b.conn /\ task.lossy = b.lossy
  BY <1>1, <1>5, Zenon DEF Tasks
<1>7. CASE Len(task.batch) < BatchSize
  <2>1. Writes(c, task, <<>>)
    BY <1>3, <1>7
  <2>. HIDE DEF task
  <2>2. Wrote(c, task, seen[c], task)
    BY <1>1, <1>6, <2>1, WritesNothing, ZenonT(60)
  <2>3. ToldTo(task, seen[c]) = ToldTo(b, seen[c])
    BY <1>5, <1>6, Zenon DEF ToldTo, Beginning
  <2>4. Faithful(task, seen[c], established, ribIn)
    BY <1>1, <1>2, <1>6, <2>3, Zenon DEF Faithful
  <2>. QED
    BY <1>1, <1>6, <2>2, <2>4, TaskKeeps, Zenon DEF Wrote
<1>8. CASE ~(Len(task.batch) < BatchSize)
  <2>1. Writes(c, Flushed(task), <<batch>>)
    BY <1>3, <1>6, <1>8
  <2>2. Flushed(task) = [b EXCEPT !.rx = rx, !.batch = <<>>]
    BY <1>1, Zenon DEF Flushed, Tasks
  <2>3. Writes(c, [bmp[c] EXCEPT !.rx = rx, !.batch = <<>>], <<batch>>)
    BY <2>1, <2>2, ZenonT(60) DEF b
  <2>4. batch \o rx = bmp[c].batch \o bmp[c].rx
    BY <1>5 DEF b
  <2>. QED
    BY <1>2, <1>5, <2>3, <2>4, FlushKeeps, Zenon
<1>. QED
  BY <1>7, <1>8, Zenon

\* Reports go past the batch and tell nothing of sessions and routes.
LEMMA StatisticsKeeps ==
  ASSUME MonitoredInv, UNCHANGED vars, NEW c \in Collectors, send_statistics(c)
  PROVE  MonitoredInv'
<1>. DEFINE b == bmp[c]
<1>1. TaskTypes /\ b \in Tasks /\ seen[c] \in Views /\ Faithful(b, seen[c], established, ribIn)
  BY OfCollector
<1>2. b.state = "running" /\ established # {} /\ established \in SUBSET Peers /\ IsFiniteSet(established)
  <2>1. b.state = "running" /\ established # {}
    BY DEF send_statistics, Works
  <2>2. setup \in Setups /\ established \in SUBSET Peers
    BY Zenon DEF MonitoredInv, Inv, Types
  <2>3. IsFiniteSet(Peers)
    BY <2>2, PropagationAssumption DEF Peers
  <2>. QED
    BY <2>1, <2>2, <2>3, FS_Subset, Zenon
<1>3. PICK peers \in Orders(established) : Writes(c, bmp[c], [i \in DOMAIN peers |-> <<Statistics(peers[i])>>])
  BY Zenon DEF send_statistics
<1>. DEFINE n == Cardinality(established)
            groups == [i \in DOMAIN peers |-> <<Statistics(peers[i])>>]
            W == [i \in 1..n |-> {v \in Views : Alike(v, seen[c])}]
<1>4. n \in Nat /\ n # 0
  BY <1>2, FS_CardinalityType, FS_EmptySet, Zenon
<1>5. peers \in [1..n -> established] /\ DOMAIN peers = 1..n
  BY Zenon DEF Orders, Bijection, Injection
<1>. HIDE DEF n
<1>6. \A i \in 1..n : Statistics(peers[i]) \in Messages /\ peers[i] \in Peers
  BY <1>2, <1>5, MessageTypes, Zenon
<1>7. groups \in [1..n -> Seq(Messages)]
  <2>1. \A m \in Messages : <<m>> \in Seq(Messages)
    OBVIOUS
  <2>. QED
    BY <1>5, <1>6, <2>1, Zenon
<1>8. groups \in Seq(Seq(Messages)) /\ Len(groups) = n /\ groups # <<>>
  <2>. HIDE DEF groups
  <2>. QED
    BY <1>4, <1>7
<1>9. \A i \in 1..n : \A v \in Views : Alike(v, seen[c]) => ReadAll(v, groups[i]) \in W[i]
  <2>1. ASSUME NEW i \in 1..n, NEW v \in Views, Alike(v, seen[c]) PROVE ReadAll(v, groups[i]) \in W[i]
    <3>1. groups[i] = <<Statistics(peers[i])>>
      BY <1>5, Zenon
    <3>2. ReadAll(v, groups[i]) = Read(v, Statistics(peers[i]))
      BY <1>6, <3>1, ReadOne, Zenon
    <3>3. Read(v, Statistics(peers[i])) \in Views /\ Alike(Read(v, Statistics(peers[i])), v)
      BY <1>6, ReadStatistics, Zenon
    <3>4. Alike(Read(v, Statistics(peers[i])), seen[c])
      BY <2>1, <3>3 DEF Alike
    <3>. QED
      BY <3>2, <3>3, <3>4
  <2>. QED
    BY <2>1
<1>10. \A i \in 1..n : W[i] = {v \in Views : Alike(v, seen[c])}
  OBVIOUS
<1>. HIDE DEF groups, W
<1>11. Writes(c, b, groups)
  BY <1>3 DEF groups
<1>12. CASE b.lossy
  <2>. DEFINE W2 == [i \in 1..n |-> Views]
  <2>0. \A i \in 1..n : groups[i] \in Seq(Messages) /\ W2[i] = Views
    BY <1>7
  <2>. HIDE DEF W2
  <2>1. ReadAll(IF b.conn THEN seen[c] ELSE Blank, groups[1]) \in W2[1]
    <3>1. (IF b.conn THEN seen[c] ELSE Blank) \in Views /\ 1 \in 1..n
      BY <1>1, <1>4, BlankType
    <3>. QED
      BY <2>0, <3>1, ReadAllType, Zenon
  <2>2. \A i \in 2..Len(groups) : \A v \in Views : v \in W2[i - 1] => ReadAll(v, groups[i]) \in W2[i]
    <3>1. \A i \in 2..Len(groups) : i \in 1..n
      BY <1>8, <1>4
    <3>. QED
      BY <2>0, <3>1, ReadAllType, Zenon
  <2>3. PICK t \in Tasks, v \in Views : Wrote(c, t, v, b)
    BY <1>1, <1>8, <1>11, <2>1, <2>2, WritesKeeps, Zenon
  <2>4. /\ bmp' = [bmp EXCEPT ![c] = t] /\ seen' = [seen EXCEPT ![c] = v] /\ t.lossy /\ t.state = "running"
    BY <1>2, <1>12, <2>3, Zenon DEF Wrote, SameWork
  <2>5. Faithful(t, v, established, ribIn)
    BY <2>4 DEF Faithful
  <2>. QED
    BY <2>4, <2>5, TaskKeeps, Zenon
<1>13. CASE ~b.lossy
  <2>0. b.conn /\ seen[c].framed /\ Shown(ToldTo(b, seen[c]), b.open, established, ribIn)
    BY <1>1, <1>2, <1>13, Zenon DEF Faithful
  <2>1. ReadAll(IF b.conn THEN seen[c] ELSE Blank, groups[1]) \in W[1]
    <3>1. Alike(seen[c], seen[c]) /\ 1 \in 1..n
      BY <1>4 DEF Alike
    <3>. QED
      BY <1>1, <1>9, <2>0, <3>1, Zenon
  <2>2. \A i \in 2..Len(groups) : \A v \in Views : v \in W[i - 1] => ReadAll(v, groups[i]) \in W[i]
    <3>1. \A i \in 2..Len(groups) : i \in 1..n /\ i - 1 \in 1..n
      BY <1>8, <1>4
    <3>. QED
      BY <1>9, <1>10, <3>1, Zenon
  <2>3. PICK t \in Tasks, v \in Views : Wrote(c, t, v, b) /\ (~t.lossy => t.conn /\ v \in W[Len(groups)])
    BY <1>1, <1>8, <1>11, <2>1, <2>2, WritesKeeps, Zenon
  <2>4. /\ bmp' = [bmp EXCEPT ![c] = t] /\ seen' = [seen EXCEPT ![c] = v]
        /\ t.state = "running" /\ t.open = b.open /\ t.rx = b.rx /\ t.batch = b.batch
    BY <1>2, <2>3, Zenon DEF Wrote, SameWork
  <2>5. ASSUME ~t.lossy PROVE v.framed /\ t.conn /\ Shown(ToldTo(t, v), t.open, established, ribIn)
    <3>1. Alike(v, seen[c]) /\ t.conn
      <4>1. n \in 1..n
        BY <1>4
      <4>. QED
        BY <1>8, <1>10, <2>3, <2>5, <4>1, Zenon
    <3>. DEFINE q == b.batch \o b.rx
    <3>2. q \in Seq(Messages)
      BY <1>1 DEF Tasks
    <3>3. ToldTo(t, v) = ReadAll(v, q) /\ ToldTo(b, seen[c]) = ReadAll(seen[c], q)
      BY <1>2, <2>4, Zenon DEF ToldTo, Beginning
    <3>. HIDE DEF q
    <3>4. Alike(ToldTo(t, v), ToldTo(b, seen[c]))
      BY <1>1, <3>1, <3>2, <3>3, ReadAllAlike, Zenon
    <3>5. Shown(ToldTo(t, v), t.open, established, ribIn)
      BY <2>0, <2>4, <3>4, Zenon DEF Alike, Shown
    <3>6. v.framed
      BY <2>0, <3>1, Zenon DEF Alike
    <3>. QED
      BY <3>1, <3>5, <3>6, Zenon
  <2>6. Faithful(t, v, established, ribIn)
    BY <2>4, <2>5 DEF Faithful
  <2>. QED
    BY <2>4, <2>6, TaskKeeps, Zenon
<1>. QED
  BY <1>12, <1>13, Zenon

LEMMA EndKeeps ==
  ASSUME MonitoredInv, UNCHANGED vars, NEW c \in Collectors, End(c)
  PROVE  MonitoredInv'
<1>. DEFINE b == bmp[c]
            task == [Flushed(b) EXCEPT !.state = "none"]
            last == <<Termination>>
            groups == (IF b.batch = <<>> THEN <<>> ELSE <<b.batch>>) \o <<last>>
            n == Len(groups)
<1>1. TaskTypes /\ b \in Tasks /\ seen[c] \in Views /\ Faithful(b, seen[c], established, ribIn)
  BY OfCollector
<1>2. b.state = "running" /\ ~b.open /\ b.rx = <<>>
  BY DEF End, Works
<1>3. Writes(c, task, groups)
  BY DEF End
<1>. HIDE DEF b
<1>4. last \in Seq(Messages) /\ b.batch \in Seq(Messages)
  BY <1>1, EndMessageTypes DEF Tasks
<1>. HIDE DEF last
<1>6. /\ groups \in Seq(Seq(Messages)) /\ groups # <<>> /\ n \in 1..2 /\ groups[n] = last
      /\ n = 2 => groups[1] = b.batch
      /\ n = 1 => b.batch = <<>>
  <2>. DEFINE S == Seq(Messages)
              batch == b.batch
  <2>0. last \in S /\ batch \in S
    BY <1>4
  <2>. HIDE DEF S, batch
  <2>1. <<>> \o <<last>> = <<last>>
    BY <2>0
  <2>2. <<last>> \in Seq(S) /\ <<batch>> \in Seq(S) /\ Len(<<last>>) = 1 /\ Len(<<batch>>) = 1
    BY <2>0
  <2>3. /\ Len(<<batch>> \o <<last>>) = 2 /\ <<batch>> \o <<last>> \in Seq(S)
        /\ (<<batch>> \o <<last>>)[1] = batch /\ (<<batch>> \o <<last>>)[2] = last
    BY <2>2
  <2>4. CASE batch = <<>>
    BY <2>1, <2>2, <2>4 DEF S, batch
  <2>5. CASE batch # <<>>
    <3>1. groups = <<batch>> \o <<last>>
      BY <2>5 DEF batch
    <3>. HIDE DEF groups
    <3>. QED
      BY <2>3, <3>1 DEF S, batch, n
  <2>. QED
    BY <2>4, <2>5
<1>7. /\ task \in Tasks /\ task.state = "none" /\ task.open = b.open
      /\ task.conn = b.conn /\ task.lossy = b.lossy
  <2>1. <<>> \in Seq(Messages)
    OBVIOUS
  <2>. QED
    BY <1>1, <2>1, Zenon DEF Tasks, Flushed
<1>. HIDE DEF task, groups, n
<1>. DEFINE Framed == {v \in Views : ~b.lossy => v.framed}
            Ended == {v \in Views : ~b.lossy => v.framed /\ v.closed}
            W == [i \in 1..n |-> IF i = n THEN Ended ELSE Framed]
            base == IF task.conn THEN seen[c] ELSE Blank
<1>8. ~b.lossy => b.conn /\ seen[c].framed /\ ReadAll(seen[c], b.batch).framed
  <2>1. ASSUME ~b.lossy PROVE b.conn /\ seen[c].framed /\ ToldTo(b, seen[c]).framed
    BY <1>1, <1>2, <2>1, ZenonT(60) DEF Faithful, Shown
  <2>2. b.batch \o <<>> = b.batch
    BY <1>4
  <2>3. ToldTo(b, seen[c]) = ReadAll(seen[c], b.batch)
    BY <1>2, <2>2, Zenon DEF ToldTo, Beginning
  <2>. QED
    BY <2>1, <2>3, Zenon
<1>9. \A v \in Framed : ReadAll(v, last) \in Ended
  <2>1. ASSUME NEW v \in Framed PROVE ReadAll(v, last) \in Ended
    <3>1. ReadAll(v, last) = Read(v, Termination)
      BY EndMessageTypes, ReadOne DEF last
    <3>2. Read(v, Termination) \in Views /\ Read(v, Termination).framed = v.framed /\ Read(v, Termination).closed
      BY ReadTermination
    <3>. QED
      BY <3>1, <3>2
  <2>. QED
    BY <2>1
<1>10. base \in Framed
  BY <1>1, <1>7, <1>8, BlankType, Zenon
<1>11. ReadAll(base, groups[1]) \in W[1]
  <2>1. CASE n = 1
    BY <1>6, <1>9, <1>10, <2>1
  <2>2. CASE n = 2
    <3>1. ReadAll(base, b.batch) \in Views
      BY <1>4, <1>10, ReadAllType, Zenon
    <3>2. ~b.lossy => ReadAll(base, b.batch).framed
      BY <1>7, <1>8
    <3>. QED
      BY <1>6, <2>2, <3>1, <3>2
  <2>. QED
    BY <1>6, <2>1, <2>2
<1>12. \A i \in 2..n : \A v \in Views : v \in W[i - 1] => ReadAll(v, groups[i]) \in W[i]
  <2>1. ASSUME NEW i \in 2..n, NEW v \in Views, v \in W[i - 1] PROVE ReadAll(v, groups[i]) \in W[i]
    <3>1. n = 2 /\ i = 2
      BY <1>6
    <3>2. v \in Framed
      BY <2>1, <3>1
    <3>. QED
      BY <1>6, <1>9, <3>1, <3>2, ZenonT(60)
  <2>. QED
    BY <2>1, Zenon
<1>13. W[n] = Ended
  BY <1>6
<1>. HIDE DEF W
<1>14. PICK t \in Tasks, v \in Views : Wrote(c, t, v, task) /\ (~t.lossy => t.conn /\ v \in W[n])
  BY <1>1, <1>3, <1>6, <1>7, <1>11, <1>12, WritesKeeps, ZenonT(60) DEF n, base
<1>15. /\ bmp' = [bmp EXCEPT ![c] = t] /\ seen' = [seen EXCEPT ![c] = v]
       /\ t.state = "none" /\ ~t.open /\ (~t.lossy => ~b.lossy)
  BY <1>2, <1>7, <1>14, Zenon DEF Wrote, SameWork
<1>16. ~t.lossy => v.framed /\ v.closed
  BY <1>13, <1>14, <1>15, Zenon
<1>17. Faithful(t, v, established, ribIn)
  BY <1>15, <1>16, Zenon DEF Faithful
<1>. QED
  BY <1>15, <1>17, TaskKeeps, Zenon

-----------------------------------------------------------------------------
(* The steps of the server *)

LEMMA RemoveKeeps ==
  ASSUME MonitoredInv, UNCHANGED vars, NEW c \in Collectors, handle_remove_bmp_server(c)
  PROVE  MonitoredInv'
<1>. DEFINE b == bmp[c]
            t == [b EXCEPT !.open = FALSE]
<1>1. TaskTypes /\ b \in Tasks /\ seen[c] \in Views /\ Faithful(b, seen[c], established, ribIn)
  BY OfCollector
<1>2. bmp' = [bmp EXCEPT ![c] = t] /\ seen' = [seen EXCEPT ![c] = seen[c]]
  BY <1>1 DEF handle_remove_bmp_server, TaskTypes
<1>. HIDE DEF b
<1>3. /\ t \in Tasks /\ ~t.open /\ t.state = b.state /\ t.rx = b.rx /\ t.batch = b.batch
      /\ t.conn = b.conn /\ t.lossy = b.lossy
  BY <1>1, Zenon DEF Tasks
<1>. HIDE DEF t
<1>4. ToldTo(t, seen[c]) = ToldTo(b, seen[c])
  BY <1>3 DEF ToldTo, Beginning
<1>5. Faithful(t, seen[c], established, ribIn)
  BY <1>1, <1>3, <1>4, Zenon DEF Faithful, Shown
<1>. QED
  BY <1>1, <1>2, <1>3, <1>5, TaskKeeps, Zenon

\* Facts about peers and their routes that the invariant has.
LEMMA OfPeers ==
  ASSUME MonitoredInv
  PROVE  /\ established \in SUBSET Peers /\ IsFiniteSet(established) /\ ribIn \in [Peers -> Attrs \cup {None}]
         /\ \A p \in Peers \ established : ribIn[p] = None
<1>1. setup \in Setups /\ established \in SUBSET Peers /\ ribIn \in [Peers -> Attrs \cup {None}]
  BY Zenon DEF MonitoredInv, Inv, Types
<1>2. \A p \in Peers \ established : ribIn[p] = None
  BY Zenon DEF MonitoredInv, Inv, Sessions
<1>3. IsFiniteSet(Peers)
  BY <1>1, PropagationAssumption, Zenon DEF Peers
<1>. QED
  BY <1>1, <1>2, <1>3, FS_Subset, Zenon

LEMMA OrderIs ==
  ASSUME NEW S, IsFiniteSet(S), NEW f \in Orders(S)
  PROVE  /\ Cardinality(S) \in Nat /\ f \in [1..Cardinality(S) -> S] /\ DOMAIN f = 1..Cardinality(S)
         /\ \A i, j \in 1..Cardinality(S) : f[i] = f[j] => i = j
         /\ \A x \in S : \E i \in 1..Cardinality(S) : f[i] = x
<1>1. Cardinality(S) \in Nat
  BY FS_CardinalityType
<1>2. f \in [1..Cardinality(S) -> S]
  BY DEF Orders, Bijection, Injection
<1>3. \A i, j \in 1..Cardinality(S) : f[i] = f[j] => i = j
  BY DEF Orders, Bijection, Injection, IsInjective
<1>4. \A x \in S : \E i \in 1..Cardinality(S) : f[i] = x
  BY DEF Orders, Bijection, Surjection
<1>. QED
  BY <1>1, <1>2, <1>3, <1>4, Zenon

\* The initial state shows a collector what the server has.
LEMMA InitialStateShown ==
  ASSUME MonitoredInv, NEW peers \in Orders(established), NEW heard \in Orders({p \in established : ribIn[p] # None})
  PROVE  /\ send_initial_bmp_state(peers, heard) \in Seq(Messages)
         /\ Shown(ReadAll(Read(Blank, Initiation), send_initial_bmp_state(peers, heard)), TRUE, established, ribIn)
<1>. DEFINE H == {p \in established : ribIn[p] # None}
            m == Cardinality(established)
            n == Cardinality(H)
            ups == [i \in DOMAIN peers |-> PeerUp(peers[i])]
            routes == [i \in DOMAIN heard |-> RouteMonitoring(heard[i], ribIn[heard[i]])]
            start == Read(Blank, Initiation)
            Nothing == [p \in Peers |-> None]
            Some(i) == [p \in Peers |-> IF p \in {heard[j] : j \in 1..i} THEN ribIn[p] ELSE None]
<1>1. /\ established \in SUBSET Peers /\ IsFiniteSet(established) /\ ribIn \in [Peers -> Attrs \cup {None}]
      /\ \A p \in Peers \ established : ribIn[p] = None
  BY OfPeers, Zenon
<1>2. H \in SUBSET established /\ IsFiniteSet(H)
  BY <1>1, FS_Subset, Zenon
<1>3. heard \in Orders(H)
  BY Zenon
<1>. HIDE DEF H
<1>4. /\ m \in Nat /\ peers \in [1..m -> established] /\ DOMAIN peers = 1..m
      /\ \A i, j \in 1..m : peers[i] = peers[j] => i = j
      /\ \A x \in established : \E i \in 1..m : peers[i] = x
  BY <1>1, OrderIs
<1>5. /\ n \in Nat /\ heard \in [1..n -> H] /\ DOMAIN heard = 1..n
      /\ \A x \in H : \E i \in 1..n : heard[i] = x
  BY <1>2, <1>3, OrderIs, ZenonT(60)
<1>. HIDE DEF m, n
<1>6. ups \in [1..m -> Messages] /\ routes \in [1..n -> Messages]
  <2>1. \A i \in 1..m : PeerUp(peers[i]) \in Messages
    BY <1>1, <1>4, MessageTypes, ZenonT(60)
  <2>2. \A i \in 1..n : RouteMonitoring(heard[i], ribIn[heard[i]]) \in Messages
    <3>1. ASSUME NEW i \in 1..n PROVE RouteMonitoring(heard[i], ribIn[heard[i]]) \in Messages
      <4>1. heard[i] \in Peers /\ ribIn[heard[i]] \in Attrs \cup {None}
        BY <1>1, <1>2, <1>5, Zenon
      <4>. QED
        BY <4>1, MessageTypes, Zenon
    <3>. QED
      BY <3>1, Zenon
  <2>. QED
    BY <1>4, <1>5, <2>1, <2>2, Zenon
<1>7. ups \in Seq(Messages) /\ Len(ups) = m /\ routes \in Seq(Messages) /\ Len(routes) = n
  <2>. HIDE DEF ups, routes
  <2>. QED
    BY <1>4, <1>5, <1>6
<1>8. \A i \in 1..m : ups[i] = PeerUp(peers[i])
  BY <1>4
<1>9. \A i \in 1..n : routes[i] = RouteMonitoring(heard[i], ribIn[heard[i]])
  BY <1>5
<1>10. send_initial_bmp_state(peers, heard) = ups \o routes
  BY Zenon DEF send_initial_bmp_state
<1>. HIDE DEF ups, routes
<1>11. start \in Views /\ start.init /\ start.framed /\ start.up = {} /\ start.routes = Nothing
  BY ReadInitiation
<1>. HIDE DEF start, Nothing
<1>. DEFINE T == [i \in 0..m |-> {x \in Views : x.framed /\ x.init /\ x.up = {peers[j] : j \in 1..i} /\ x.routes = Nothing}]
            all == ReadAll(start, ups)
<1>12. all \in Views /\ all.framed /\ all.init /\ all.up = established /\ all.routes = Nothing
  <2>1. start \in T[0]
    <3>1. {peers[j] : j \in 1..0} = {} /\ 0 \in 0..m
      BY <1>4
    <3>. QED
      BY <1>11, <3>1, Zenon
  <2>2. ASSUME NEW i \in 1..Len(ups), NEW x \in Views, x \in T[i - 1] PROVE Read(x, ups[i]) \in T[i]
    <3>1. i \in 1..m /\ i - 1 \in 0..m /\ i \in 0..m
      BY <1>4, <1>7
    <3>2. x.framed /\ x.init /\ x.up = {peers[j] : j \in 1..(i - 1)} /\ x.routes = Nothing
      BY <2>2, <3>1, Zenon
    <3>3. peers[i] \in Peers /\ peers[i] \notin x.up
      <4>1. \A j \in 1..(i - 1) : j \in 1..m /\ j # i
        BY <3>1, <1>4, SMTT(60)
      <4>. QED
        BY <1>1, <1>4, <3>1, <3>2, <4>1, ZenonT(60)
    <3>. DEFINE w == Read(x, PeerUp(peers[i]))
    <3>4. w \in Views /\ w.framed /\ w.init /\ w.up = x.up \cup {peers[i]} /\ w.routes = x.routes
      BY <3>2, <3>3, ReadPeerUp, ZenonT(60)
    <3>5. {peers[j] : j \in 1..i} = {peers[j] : j \in 1..(i - 1)} \cup {peers[i]}
      <4>1. \A j : j \in 1..i <=> j \in 1..(i - 1) \/ j = i
        BY <3>1, <1>4
      <4>. QED
        BY <4>1, ZenonT(60)
    <3>6. Read(x, ups[i]) = w
      BY <1>8, <3>1, Zenon
    <3>. HIDE DEF w
    <3>. QED
      BY <3>1, <3>2, <3>4, <3>5, <3>6, ZenonT(60)
  <2>3. all \in Views /\ all \in T[Len(ups)]
    <3>. HIDE DEF T
    <3>. QED
      BY <1>7, <1>11, <2>1, <2>2, ReadAllKeeps, ZenonT(60)
  <2>. HIDE DEF all
  <2>4. {peers[j] : j \in 1..m} = established
    BY <1>4
  <2>5. m \in 0..m
    BY <1>4
  <2>. QED
    BY <1>7, <2>3, <2>4, <2>5, Zenon
<1>. HIDE DEF all, T
<1>. DEFINE U == [i \in 0..n |-> {x \in Views : x.framed /\ x.init /\ x.up = established /\ x.routes = Some(i)}]
            both == ReadAll(all, routes)
<1>13. both \in Views /\ both.framed /\ both.init /\ both.up = established /\ both.routes = ribIn
  <2>1. all \in U[0]
    <3>1. {heard[j] : j \in 1..0} = {} /\ 0 \in 0..n
      BY <1>5
    <3>2. Some(0) = Nothing
      BY <3>1, Zenon DEF Nothing
    <3>. HIDE DEF Some
    <3>. QED
      BY <1>12, <3>1, <3>2, Zenon
  <2>2. ASSUME NEW i \in 1..Len(routes), NEW x \in Views, x \in U[i - 1] PROVE Read(x, routes[i]) \in U[i]
    <3>1. i \in 1..n /\ i - 1 \in 0..n /\ i \in 0..n
      BY <1>5, <1>7
    <3>2. x.framed /\ x.init /\ x.up = established /\ x.routes = Some(i - 1)
      <4>. HIDE DEF Some
      <4>. QED
        BY <2>2, <3>1, Zenon
    <3>3. heard[i] \in established /\ heard[i] \in Peers /\ ribIn[heard[i]] \in Attrs \cup {None}
      BY <1>1, <1>2, <1>5, <3>1, ZenonT(60)
    <3>. DEFINE w == Read(x, RouteMonitoring(heard[i], ribIn[heard[i]]))
    <3>4. w \in Views /\ w.framed /\ w.init /\ w.up = x.up /\ w.routes = [x.routes EXCEPT ![heard[i]] = ribIn[heard[i]]]
      BY <3>2, <3>3, ReadRouteMonitoring
    <3>5. {heard[j] : j \in 1..i} = {heard[j] : j \in 1..(i - 1)} \cup {heard[i]}
      <4>1. \A j : j \in 1..i <=> j \in 1..(i - 1) \/ j = i
        BY <3>1, <1>5
      <4>. QED
        BY <4>1
    <3>6. [Some(i - 1) EXCEPT ![heard[i]] = ribIn[heard[i]]] = Some(i)
      <4>. DEFINE A == {heard[j] : j \in 1..(i - 1)}
                  B == {heard[j] : j \in 1..i}
                  h == heard[i]
      <4>1. B = A \cup {h} /\ h \in Peers
        BY <3>3, <3>5
      <4>. HIDE DEF A, B, h
      <4>2. [[p \in Peers |-> IF p \in A THEN ribIn[p] ELSE None] EXCEPT ![h] = ribIn[h]]
              = [p \in Peers |-> IF p \in B THEN ribIn[p] ELSE None]
        BY <4>1, Zenon
      <4>. QED
        BY <4>2, Zenon DEF A, B, h
    <3>7. Read(x, routes[i]) = w
      BY <1>9, <3>1, Zenon
    <3>. HIDE DEF w, Some
    <3>. QED
      BY <3>1, <3>2, <3>4, <3>6, <3>7, ZenonT(60)
  <2>3. both \in Views /\ both \in U[Len(routes)]
    <3>. HIDE DEF U
    <3>. QED
      BY <1>7, <1>12, <2>1, <2>2, ReadAllKeeps, ZenonT(60)
  <2>. HIDE DEF both
  <2>4. Some(n) = ribIn
    <3>1. {heard[j] : j \in 1..n} = H
      BY <1>5
    <3>2. \A p \in Peers : p \notin H => ribIn[p] = None
      BY <1>1 DEF H
    <3>3. Some(n) = [p \in Peers |-> IF p \in H THEN ribIn[p] ELSE None]
      BY <3>1
    <3>4. [p \in Peers |-> IF p \in H THEN ribIn[p] ELSE None] = ribIn
      BY <1>1, <3>2
    <3>. QED
      BY <3>3, <3>4, Zenon
  <2>5. n \in 0..n
    BY <1>5
  <2>. HIDE DEF Some
  <2>. QED
    BY <1>7, <2>3, <2>4, <2>5, Zenon
<1>14. ReadAll(start, ups \o routes) = both /\ ups \o routes \in Seq(Messages)
  BY <1>7, <1>11, ReadConcat, SMTT(60) DEF all
<1>. HIDE DEF both
<1>15. Shown(both, TRUE, established, ribIn)
  BY <1>13 DEF Shown
<1>. QED
  BY <1>10, <1>14, <1>15, Zenon DEF start

LEMMA AddKeeps ==
  ASSUME MonitoredInv, UNCHANGED vars, NEW c \in Collectors, handle_add_bmp_server(c)
  PROVE  MonitoredInv'
<1>1. PICK peers \in Orders(established) : \E heard \in Orders({p \in established : ribIn[p] # None}) :
        bmp' = [bmp EXCEPT ![c] = spawn_single_bmp_task(peers, heard)]
  BY Zenon DEF handle_add_bmp_server
<1>2. PICK heard \in Orders({p \in established : ribIn[p] # None}) :
        bmp' = [bmp EXCEPT ![c] = spawn_single_bmp_task(peers, heard)]
  BY <1>1, Zenon
<1>. DEFINE q == send_initial_bmp_state(peers, heard)
            t == spawn_single_bmp_task(peers, heard)
<1>3. q \in Seq(Messages) /\ Shown(ReadAll(Read(Blank, Initiation), q), TRUE, established, ribIn)
  BY InitialStateShown, Zenon
<1>4. t = [NoTask EXCEPT !.state = "starting", !.open = TRUE, !.rx = q]
  BY DEF spawn_single_bmp_task
<1>. HIDE DEF q, t
<1>5. /\ t \in Tasks /\ t.state = "starting" /\ t.open /\ t.rx = q /\ t.batch = <<>> /\ ~t.conn
  <2>1. <<>> \in Seq(Messages)
    OBVIOUS
  <2>2. NoTask \in Tasks /\ NoTask.batch = <<>> /\ ~NoTask.conn
    BY <2>1, Zenon DEF NoTask, Tasks
  <2>. QED
    BY <1>3, <1>4, <2>2, Zenon DEF Tasks
<1>6. ToldTo(t, Blank) = ReadAll(Read(Blank, Initiation), q)
  <2>1. <<>> \o q = q
    BY <1>3
  <2>. QED
    BY <1>5, <2>1, ZenonT(60) DEF ToldTo, Beginning
<1>7. Faithful(t, Blank, established, ribIn)
  <2>1. Shown(ToldTo(t, Blank), t.open, established, ribIn)
    BY <1>3, <1>5, <1>6, Zenon DEF Shown
  <2>. QED
    BY <1>5, <2>1, BlankType, Zenon DEF Faithful
<1>8. bmp' = [bmp EXCEPT ![c] = t] /\ seen' = [seen EXCEPT ![c] = Blank]
  BY <1>2, Zenon DEF handle_add_bmp_server, t
<1>. QED
  BY <1>5, <1>7, <1>8, BlankType, TaskKeeps, Zenon

LEMMA Associates ==
  ASSUME NEW x \in Seq(Messages), NEW y \in Seq(Messages), NEW z \in Seq(Messages)
  PROVE  x \o (y \o z) = (x \o y) \o z
<1>1. PICK S : S = Messages
  BY Zenon
<1>2. x \in Seq(S) /\ y \in Seq(S) /\ z \in Seq(S)
  BY <1>1, Zenon
<1>3. (x \o y) \o z = x \o (y \o z)
  BY <1>2, SMTT(60)
<1>. QED
  BY <1>3, Zenon

\* What the server tells all tasks, and does itself, keeps views and server alike.
LEMMA BroadcastKeeps ==
  ASSUME MonitoredInv, Inv', setup' = setup, NEW msgs \in Seq(Messages), broadcast_bmp(msgs),
         \A v \in Views : Shown(v, TRUE, established, ribIn) => Shown(ReadAll(v, msgs), TRUE, established', ribIn')
  PROVE  MonitoredInv'
<1>. DEFINE B(c) == IF bmp[c].open THEN [bmp[c] EXCEPT !.rx = bmp[c].rx \o msgs] ELSE bmp[c]
<1>1. bmp' = [c \in Collectors |-> B(c)] /\ seen' = seen
  BY DEF broadcast_bmp
<1>2. ASSUME NEW c \in Collectors PROVE B(c) \in Tasks /\ Faithful(B(c), seen[c], established', ribIn')
  <2>. DEFINE b == bmp[c]
  <2>1. b \in Tasks /\ seen[c] \in Views /\ Faithful(b, seen[c], established, ribIn)
    BY OfCollector, Zenon
  <2>2. CASE ~b.open
    <3>1. B(c) = b
      BY <2>2, Zenon
    <3>. QED
      BY <2>1, <2>2, <3>1 DEF Faithful, Shown
  <2>3. CASE b.open
    <3>. DEFINE rx == b.rx \o msgs
                t == [b EXCEPT !.rx = rx]
                q == b.batch \o b.rx
                start == Beginning(b, seen[c])
    <3>1. B(c) = t
      BY <2>3
    <3>. HIDE DEF b, B
    <3>2. b.rx \in Seq(Messages) /\ b.batch \in Seq(Messages) /\ q \in Seq(Messages) /\ rx \in Seq(Messages)
      BY <2>1 DEF Tasks
    <3>. HIDE DEF rx
    <3>3. /\ t \in Tasks /\ t.open = b.open /\ t.state = b.state /\ t.batch = b.batch /\ t.rx = rx
          /\ t.conn = b.conn /\ t.lossy = b.lossy
      BY <2>1, <3>2, Zenon DEF Tasks
    <3>. HIDE DEF t
    <3>4. start \in Views
      BY <2>1, ReadInitiation, Zenon DEF Beginning
    <3>5. ToldTo(b, seen[c]) = ReadAll(start, q)
      BY Zenon DEF ToldTo
    <3>6. ToldTo(t, seen[c]) = ReadAll(start, q \o msgs)
      <4>1. b.batch \o (b.rx \o msgs) = (b.batch \o b.rx) \o msgs
        BY <3>2, Associates, ZenonT(60)
      <4>2. t.batch \o t.rx = q \o msgs
        BY <3>3, <4>1 DEF rx
      <4>. QED
        BY <3>3, <4>2 DEF ToldTo, Beginning
    <3>. HIDE DEF start, q
    <3>7. ToldTo(t, seen[c]) = ReadAll(ToldTo(b, seen[c]), msgs) /\ ToldTo(b, seen[c]) \in Views
      BY <3>2, <3>4, <3>5, <3>6, ReadConcat, ReadAllType, SMTT(60)
    <3>8. b.state # "none"
      BY <2>1, <2>3, ZenonT(60) DEF Faithful
    <3>9. ASSUME ~b.lossy PROVE Shown(ToldTo(t, seen[c]), t.open, established', ribIn')
      <4>1. Shown(ToldTo(b, seen[c]), TRUE, established, ribIn)
        BY <2>1, <2>3, <3>8, <3>9, Zenon DEF Faithful, Shown
      <4>2. Shown(ToldTo(t, seen[c]), TRUE, established', ribIn')
        BY <3>7, <4>1, Zenon
      <4>. QED
        BY <4>2 DEF Shown
    <3>10. Faithful(t, seen[c], established', ribIn')
      BY <2>1, <3>3, <3>8, <3>9, Zenon DEF Faithful
    <3>. QED
      BY <3>1, <3>3, <3>10, Zenon
  <2>. QED
    BY <2>2, <2>3, ZenonT(60)
<1>. HIDE DEF B
<1>3. bmp' \in [Collectors -> Tasks] /\ seen' \in [Collectors -> Views]
  BY <1>1, <1>2, Zenon DEF MonitoredInv, TaskTypes
<1>4. \A c \in Collectors : Faithful(bmp'[c], seen'[c], established', ribIn')
  BY <1>1, <1>2, ZenonT(60)
<1>. QED
  BY <1>3, <1>4, InvOfNewState, Zenon

\* Steps that concern neither sessions nor what peers announce.
LEMMA SilentKeeps ==
  ASSUME MonitoredInv, Inv', setup' = setup, established' = established, ribIn' = ribIn, Silent
  PROVE  MonitoredInv'
<1>1. bmp' = bmp /\ seen' = seen
  BY DEF Silent
<1>2. bmp' \in [Collectors -> Tasks] /\ seen' \in [Collectors -> Views]
  BY <1>1 DEF MonitoredInv, TaskTypes
<1>3. \A c \in Collectors : Faithful(bmp'[c], seen'[c], established', ribIn')
  BY <1>1 DEF MonitoredInv
<1>. QED
  BY <1>2, <1>3, InvOfNewState, Zenon

LEMMA EstablishedKeeps ==
  ASSUME MonitoredInv, Inv', NEW p \in Peers, PeerEstablished(p), broadcast_bmp(<<PeerUp(p)>>)
  PROVE  MonitoredInv'
<1>1. setup' = setup /\ established' = established \cup {p} /\ ribIn' = ribIn /\ p \notin established
  BY DEF PeerEstablished
<1>2. PeerUp(p) \in Messages
  BY MessageTypes
<1>3. <<PeerUp(p)>> \in Seq(Messages)
  BY <1>2
<1>4. ASSUME NEW v \in Views, Shown(v, TRUE, established, ribIn)
      PROVE  Shown(ReadAll(v, <<PeerUp(p)>>), TRUE, established', ribIn')
  <2>. DEFINE w == Read(v, PeerUp(p))
  <2>1. v.framed /\ v.init /\ v.up = established
    BY <1>4, Zenon DEF Shown
  <2>2. w.framed /\ w.init /\ w.up = v.up \cup {p} /\ w.routes = v.routes
    BY <1>1, <2>1, ReadPeerUp, ZenonT(60)
  <2>3. ReadAll(v, <<PeerUp(p)>>) = w
    BY <1>2, ReadOne
  <2>. HIDE DEF w
  <2>. QED
    BY <1>1, <1>4, <2>1, <2>2, <2>3, ZenonT(60) DEF Shown
<1>. QED
  BY <1>1, <1>3, <1>4, BroadcastKeeps, Zenon

LEMMA DisconnectedKeeps ==
  ASSUME MonitoredInv, Inv', NEW p \in Peers, PeerDisconnected(p), broadcast_bmp(<<PeerDown(p)>>)
  PROVE  MonitoredInv'
<1>1. setup' = setup /\ established' = established \ {p} /\ ribIn' = [ribIn EXCEPT ![p] = None] /\ p \in established
  BY DEF PeerDisconnected
<1>2. PeerDown(p) \in Messages
  BY MessageTypes
<1>3. <<PeerDown(p)>> \in Seq(Messages)
  BY <1>2
<1>4. ASSUME NEW v \in Views, Shown(v, TRUE, established, ribIn)
      PROVE  Shown(ReadAll(v, <<PeerDown(p)>>), TRUE, established', ribIn')
  <2>. DEFINE w == Read(v, PeerDown(p))
  <2>1. v.framed /\ v.init /\ v.up = established
    BY <1>4 DEF Shown
  <2>2. w.framed /\ w.init /\ w.up = v.up \ {p} /\ w.routes = [v.routes EXCEPT ![p] = None]
    BY <1>1, <2>1, ReadPeerDown, Zenon
  <2>3. ReadAll(v, <<PeerDown(p)>>) = w
    BY <1>2, ReadOne
  <2>. HIDE DEF w
  <2>. QED
    BY <1>1, <1>4, <2>1, <2>2, <2>3, Zenon DEF Shown
<1>. QED
  BY <1>1, <1>3, <1>4, BroadcastKeeps, Zenon

\* Route monitoring messages of a peer that is up leave a stream well-formed, and
\* the last of them has its route.
LEMMA MonitoringShown ==
  ASSUME NEW p \in Peers, NEW n \in Nat, NEW attrs \in [1..n -> Attrs \cup {None}],
         NEW msgs, msgs = [i \in 1..n |-> RouteMonitoring(p, attrs[i])],
         NEW v \in Views, v.framed, v.init, p \in v.up
  PROVE  /\ msgs \in Seq(Messages)
         /\ LET w == ReadAll(v, msgs)
            IN  /\ w \in Views /\ w.framed /\ w.init /\ w.up = v.up
                /\ n = 0 => w.routes = v.routes
                /\ n = 1 => w.routes = [v.routes EXCEPT ![p] = attrs[1]]
<1>. DEFINE T == [i \in 0..n |-> {x \in Views : x.framed /\ x.init /\ x.up = v.up}]
            w == ReadAll(v, msgs)
<1>1. \A i \in 1..n : RouteMonitoring(p, attrs[i]) \in Messages
  BY MessageTypes
<1>2. msgs \in Seq(Messages) /\ Len(msgs) = n /\ \A i \in 1..n : msgs[i] = RouteMonitoring(p, attrs[i])
  BY <1>1
<1>3. v \in T[0] /\ n \in 0..n
  OBVIOUS
<1>4. ASSUME NEW i \in 1..Len(msgs), NEW x \in Views, x \in T[i - 1] PROVE Read(x, msgs[i]) \in T[i]
  <2>1. i \in 1..n /\ i \in 0..n /\ i - 1 \in 0..n
    BY <1>2
  <2>2. x.framed /\ x.init /\ x.up = v.up
    BY <1>4, <2>1
  <2>. DEFINE y == Read(x, RouteMonitoring(p, attrs[i]))
  <2>3. y \in Views /\ y.framed /\ y.init /\ y.up = x.up
    <3>1. attrs[i] \in Attrs \cup {None}
      BY <2>1, Zenon
    <3>. QED
      BY <2>2, <3>1, ReadRouteMonitoring, Zenon
  <2>4. Read(x, msgs[i]) = y
    BY <1>2, <2>1, Zenon
  <2>. HIDE DEF y
  <2>. QED
    BY <2>1, <2>2, <2>3, <2>4, ZenonT(60)
<1>5. w \in T[Len(msgs)]
  <2>. HIDE DEF T
  <2>. QED
    BY <1>2, <1>3, <1>4, ReadAllKeeps, ZenonT(60)
<1>6. n = 1 => w.routes = [v.routes EXCEPT ![p] = attrs[1]]
  <2>1. SUFFICES ASSUME n = 1 PROVE w.routes = [v.routes EXCEPT ![p] = attrs[1]]
    OBVIOUS
  <2>. DEFINE m == RouteMonitoring(p, attrs[1])
  <2>2. 1 \in 1..n /\ attrs[1] \in Attrs \cup {None} /\ m \in Messages /\ msgs[1] = m
    BY <1>1, <1>2, <2>1
  <2>3. msgs = <<m>>
    <3>. HIDE DEF m
    <3>. QED
      BY <1>2, <2>1, <2>2
  <2>4. w = Read(v, m)
    <3>. HIDE DEF m
    <3>. QED
      BY <2>2, <2>3, ReadOne, Zenon
  <2>. QED
    BY <2>2, <2>4, ReadRouteMonitoring
<1>7. n = 0 => w.routes = v.routes
  <2>1. n = 0 => msgs = <<>>
    BY <1>2
  <2>. QED
    BY <2>1, ReadNothing, ZenonT(60)
<1>. HIDE DEF w
<1>8. w \in Views /\ w.framed /\ w.init /\ w.up = v.up
  BY <1>2, <1>3, <1>5, Zenon
<1>. QED
  BY <1>2, <1>6, <1>7, <1>8, Zenon DEF w

\* The same, as it is used: v becomes w when p's n attributes attrs are monitored.
Monitored(v, w, p, n, attrs) ==
    /\ w \in Views /\ w.framed /\ w.init /\ w.up = v.up
    /\ n = 0 => w.routes = v.routes
    /\ n = 1 => w.routes = [v.routes EXCEPT ![p] = attrs[1]]
LEMMA MonitoringRead ==
  \A p \in Peers, n \in Nat, v \in Views : \A attrs \in [1..n -> Attrs \cup {None}] : \A msgs :
      /\ msgs = [i \in 1..n |-> RouteMonitoring(p, attrs[i])]
      /\ v.framed /\ v.init /\ p \in v.up
      => Monitored(v, ReadAll(v, msgs), p, n, attrs)
<1>. SUFFICES ASSUME NEW p \in Peers, NEW n \in Nat, NEW v \in Views, NEW attrs \in [1..n -> Attrs \cup {None}], NEW msgs,
                     msgs = [i \in 1..n |-> RouteMonitoring(p, attrs[i])], v.framed, v.init, p \in v.up
              PROVE  Monitored(v, ReadAll(v, msgs), p, n, attrs)
  BY Zenon
<1>. QED
  BY MonitoringShown DEF Monitored

LEMMA UpdateKeeps ==
  ASSUME MonitoredInv, Inv', NEW p \in Peers, NEW routes \in Batches, PeerUpdate(p, routes),
         send_bmp_route_monitoring(p, RejectAnnouncements(routes))
  PROVE  MonitoredInv'
<1>. DEFINE R == RejectAnnouncements(routes)
            S == Range(R) \ {Withdraw}
            k == Cardinality(Range(R) \cap {Withdraw})
            n == Cardinality(S)
<1>1. setup' = setup /\ established' = established /\ ribIn' = [ribIn EXCEPT ![p] = StoreIn(routes)] /\ p \in established
  BY Zenon DEF PeerUpdate
<1>2. routes \in Seq(Routes) /\ routes # <<>> /\ (MaxBatch = 1 => Len(routes) = 1)
  BY BatchIsSeq DEF MonitoredInv, Inv, Types
<1>3. R \in Seq(Routes) /\ (Looped = {} => R = routes)
  BY <1>2, RejectIs, Zenon
<1>4. Len(routes) = 1 => StoreIn(routes) = routes[1]
  BY <1>2, StoreInIs, Zenon
<1>5. PICK attrs \in Orders(S) :
        broadcast_bmp([i \in 1..k |-> RouteMonitoring(p, None)] \o [i \in DOMAIN attrs |-> RouteMonitoring(p, attrs[i])])
  BY DEF send_bmp_route_monitoring
<1>. HIDE DEF R
<1>6. IsFiniteSet(Range(R)) /\ Range(R) \in SUBSET Routes
  <2>1. DOMAIN R = 1..Len(R) /\ Len(R) \in Nat
    BY <1>3
  <2>2. R \in Surjection(1..Len(R), Range(R))
    BY <1>3, <2>1 DEF Surjection, Range
  <2>3. IsFiniteSet(1..Len(R))
    BY <2>1, FS_Interval
  <2>4. IsFiniteSet(Range(R))
    BY <2>2, <2>3, FS_Surjection, ZenonT(60)
  <2>5. Range(R) \in SUBSET Routes
    BY <1>3, <2>1 DEF Range
  <2>. QED
    BY <2>4, <2>5, Zenon
<1>7. IsFiniteSet(S) /\ k \in Nat
  <2>1. IsFiniteSet(S) /\ IsFiniteSet(Range(R) \cap {Withdraw})
    BY <1>6, FS_Subset, Zenon
  <2>. QED
    BY <2>1, FS_CardinalityType, Zenon
<1>8. /\ n \in Nat /\ attrs \in [1..n -> S] /\ DOMAIN attrs = 1..n /\ S \in SUBSET Attrs
  <2>1. S \in SUBSET Attrs
    BY <1>6, Zenon DEF Routes
  <2>. HIDE DEF S
  <2>. QED
    BY <1>7, <2>1, OrderIs, Zenon
<1>9. ASSUME MaxBatch = 1, Looped = {}
      PROVE  IF StoreIn(routes) = None THEN k = 1 /\ n = 0 ELSE k = 0 /\ n = 1 /\ attrs[1] = StoreIn(routes)
  <2>. DEFINE x == routes[1]
  <2>1. Len(routes) = 1 /\ StoreIn(routes) = x /\ DOMAIN R = 1..1 /\ R[1] = x
    BY <1>2, <1>3, <1>4, <1>9, SMTT(60)
  <2>. HIDE DEF x
  <2>2. Range(R) = {x}
    <3>1. 1..1 = {1}
      OBVIOUS
    <3>. QED
      BY <2>1, <3>1 DEF Range
  <2>3. CASE x = None
    <3>1. S = {} /\ Range(R) \cap {Withdraw} = {x}
      BY <2>2, <2>3 DEF None, Withdraw
    <3>2. n = 0 /\ k = 1
      <4>. HIDE DEF S
      <4>. QED
        BY <3>1, FS_EmptySet, FS_Singleton, Zenon
    <3>. QED
      BY <2>1, <2>3, <3>2, Zenon
  <2>4. CASE x # None
    <3>1. S = {x} /\ Range(R) \cap {Withdraw} = {}
      BY <2>2, <2>4 DEF None, Withdraw
    <3>2. n = 1 /\ k = 0
      <4>. HIDE DEF S
      <4>. QED
        BY <3>1, FS_EmptySet, FS_Singleton, Zenon
    <3>3. attrs[1] = x
      <4>. HIDE DEF S, n
      <4>. QED
        BY <1>8, <3>1, <3>2
    <3>. QED
      BY <2>1, <2>4, <3>2, <3>3, Zenon
  <2>. QED
    BY <2>3, <2>4, Zenon
<1>. HIDE DEF S, k, n
<1>. DEFINE none == [i \in 1..k |-> None]
            gone == [i \in 1..k |-> RouteMonitoring(p, None)]
            news == [i \in DOMAIN attrs |-> RouteMonitoring(p, attrs[i])]
<1>10. /\ none \in [1..k -> Attrs \cup {None}] /\ attrs \in [1..n -> Attrs \cup {None}]
       /\ gone = [i \in 1..k |-> RouteMonitoring(p, none[i])] /\ news = [i \in 1..n |-> RouteMonitoring(p, attrs[i])]
       /\ k = 1 => none[1] = None
  BY <1>7, <1>8
<1>11. broadcast_bmp(gone \o news)
  BY <1>5
<1>. HIDE DEF none, gone, news
<1>12. gone \in Seq(Messages) /\ news \in Seq(Messages) /\ gone \o news \in Seq(Messages)
  <2>1. \A i \in 1..k : RouteMonitoring(p, none[i]) \in Messages
    BY <1>10, MessageTypes, Zenon
  <2>2. \A i \in 1..n : RouteMonitoring(p, attrs[i]) \in Messages
    BY <1>10, MessageTypes, Zenon
  <2>3. gone \in Seq(Messages) /\ news \in Seq(Messages)
    BY <1>7, <1>8, <1>10, <2>1, <2>2, SMTT(60)
  <2>. QED
    BY <2>3
<1>13. ASSUME NEW v \in Views, Shown(v, TRUE, established, ribIn)
       PROVE  Shown(ReadAll(v, gone \o news), TRUE, established', ribIn')
  <2>. DEFINE x == ReadAll(v, gone)
              y == ReadAll(x, news)
  <2>1. v.framed /\ v.init /\ v.up = established /\ (MaxBatch = 1 /\ Looped = {} => v.routes = ribIn)
    BY <1>13, Zenon DEF Shown
  <2>2. /\ x \in Views /\ x.framed /\ x.init /\ x.up = v.up
        /\ k = 0 => x.routes = v.routes
        /\ k = 1 => x.routes = [v.routes EXCEPT ![p] = none[1]]
    <3>1. v \in Views /\ v.framed /\ v.init /\ p \in v.up
      BY <1>1, <2>1, Zenon
    <3>2. k \in Nat /\ none \in [1..k -> Attrs \cup {None}] /\ gone = [i \in 1..k |-> RouteMonitoring(p, none[i])]
      BY <1>7, <1>10
    <3>3. Monitored(v, x, p, k, none)
      BY <3>1, <3>2, MonitoringRead, Zenon
    <3>. QED
      BY <3>3, Zenon DEF Monitored
  <2>. HIDE DEF x
  <2>3. /\ y \in Views /\ y.framed /\ y.init /\ y.up = x.up
        /\ n = 0 => y.routes = x.routes
        /\ n = 1 => y.routes = [x.routes EXCEPT ![p] = attrs[1]]
    <3>1. x \in Views /\ x.framed /\ x.init /\ p \in x.up
      BY <1>1, <2>1, <2>2, ZenonT(60)
    <3>2. n \in Nat /\ attrs \in [1..n -> Attrs \cup {None}] /\ news = [i \in 1..n |-> RouteMonitoring(p, attrs[i])]
      BY <1>8, <1>10, Zenon
    <3>3. Monitored(x, y, p, n, attrs)
      BY <3>1, <3>2, MonitoringRead, Zenon
    <3>. QED
      BY <3>3, Zenon DEF Monitored
  <2>4. ReadAll(v, gone \o news) = y
    BY <1>12, ReadConcat, Zenon DEF x
  <2>. HIDE DEF y
  <2>5. MaxBatch = 1 /\ Looped = {} => y.routes = [ribIn EXCEPT ![p] = StoreIn(routes)]
    BY <1>9, <1>10, <2>1, <2>2, <2>3, ZenonT(60)
  <2>. QED
    BY <1>1, <2>1, <2>2, <2>3, <2>4, <2>5, Zenon DEF Shown
<1>. QED
  BY <1>1, <1>11, <1>12, <1>13, BroadcastKeeps, Zenon

-----------------------------------------------------------------------------
(* The invariant *)

LEMMA ServerStepIsNext == ServerStep => Next
BY Zenon DEF ServerStep, Next

LEMMA MonitoredInvInit == MonitoredInit => MonitoredInv
<1>1. SUFFICES ASSUME MonitoredInit PROVE MonitoredInv
  OBVIOUS
<1>2. Inv
  BY <1>1, InvInit, Zenon DEF MonitoredInit
<1>3. NoTask \in Tasks /\ ~NoTask.conn /\ ~NoTask.open /\ NoTask.state = "none"
  <2>1. <<>> \in Seq(Messages)
    OBVIOUS
  <2>. QED
    BY <2>1, Zenon DEF NoTask, Tasks
<1>4. bmp = [c \in Collectors |-> NoTask] /\ seen = [c \in Collectors |-> Blank]
  BY <1>1 DEF MonitoredInit
<1>5. TaskTypes
  BY <1>3, <1>4, BlankType, ZenonT(60) DEF TaskTypes
<1>6. Faithful(NoTask, Blank, established, ribIn)
  BY <1>3, BlankType, Zenon DEF Faithful
<1>. QED
  BY <1>2, <1>4, <1>5, <1>6, Zenon DEF MonitoredInv

LEMMA MonitoredInvNext == MonitoredInv /\ [MonitoredNext]_monitored => MonitoredInv'
<1>1. SUFFICES ASSUME MonitoredInv, [MonitoredNext]_monitored PROVE MonitoredInv'
  OBVIOUS
<1>2. CASE UNCHANGED monitored
  <2>1. UNCHANGED vars /\ bmp' = bmp /\ seen' = seen
    BY <1>2, Zenon DEF monitored, vars
  <2>2. Inv' /\ setup' = setup /\ established' = established /\ ribIn' = ribIn
    BY <1>1, <2>1, InvNext, ZenonT(60) DEF MonitoredInv, vars
  <2>. QED
    BY <1>1, <2>1, <2>2, SilentKeeps, Zenon DEF Silent
<1>3. CASE ServerStep
  <2>1. Inv'
    BY <1>1, <1>3, ServerStepIsNext, InvNext, Zenon DEF MonitoredInv
  <2>2. ASSUME NEW p \in Peers, PeerEstablished(p), broadcast_bmp(<<PeerUp(p)>>) PROVE MonitoredInv'
    BY <1>1, <2>1, <2>2, EstablishedKeeps, ZenonT(60)
  <2>3. ASSUME NEW p \in Peers, PeerDisconnected(p), broadcast_bmp(<<PeerDown(p)>>) PROVE MonitoredInv'
    BY <1>1, <2>1, <2>3, DisconnectedKeeps, ZenonT(60)
  <2>4. ASSUME NEW p \in Peers, RouteRefresh(p), Silent PROVE MonitoredInv'
    BY <1>1, <2>1, <2>4, SilentKeeps, ZenonT(60) DEF RouteRefresh
  <2>5. ASSUME NEW p \in Peers, NEW routes \in Batches, PeerUpdate(p, routes),
               send_bmp_route_monitoring(p, RejectAnnouncements(routes))
        PROVE  MonitoredInv'
    BY <1>1, <2>1, <2>5, UpdateKeeps, ZenonT(60)
  <2>6. ASSUME NEW attr \in setup.originated, AddLocalRoute(attr), Silent PROVE MonitoredInv'
    BY <1>1, <2>1, <2>6, SilentKeeps, ZenonT(60) DEF AddLocalRoute
  <2>7. ASSUME RemoveLocalRoute, Silent PROVE MonitoredInv'
    BY <1>1, <2>1, <2>7, SilentKeeps, ZenonT(60) DEF RemoveLocalRoute
  <2>8. ASSUME NEW inv \in SUBSET Attrs, VrpUpdate(inv), Silent PROVE MonitoredInv'
    BY <1>1, <2>1, <2>8, SilentKeeps, Zenon DEF VrpUpdate
  <2>. QED
    BY <1>3, <2>2, <2>3, <2>4, <2>5, <2>6, <2>7, <2>8, Zenon DEF ServerStep
<1>4. ASSUME NEW c \in Collectors, TaskStep(c) \/ handle_add_bmp_server(c) \/ handle_remove_bmp_server(c), UNCHANGED vars
      PROVE  MonitoredInv'
  BY <1>1, <1>4, StartKeeps, TakeOpKeeps, FlushTimerKeeps, StatisticsKeeps, EndKeeps, AddKeeps, RemoveKeeps DEF TaskStep
<1>. QED
  BY <1>1, <1>2, <1>3, <1>4, Zenon DEF MonitoredNext

LEMMA MonitoredInvariance == MonitoredSpec => []MonitoredInv
BY MonitoredInvInit, MonitoredInvNext, PTL DEF MonitoredSpec

-----------------------------------------------------------------------------
(* What follows *)

\* A collector whose task has lost no write reads a well-formed stream that ends
\* with the Termination, and when all is written it has the sessions and routes of
\* the server (spawn_single_bmp_task, broadcast_bmp, BmpTask): for any number of
\* collectors that come and go at any time, whatever the batch size.
THEOREM CollectorsAreAlwaysShown == MonitoredSpec => []CollectorsAreShown
<1>1. MonitoredInv => CollectorsAreShown
  <2>1. SUFFICES ASSUME MonitoredInv PROVE CollectorsAreShown
    BY Zenon
  <2>2. ASSUME NEW c \in Collectors, CaughtUp(c)
        PROVE  Shown(seen[c], TRUE, established, ribIn)
    <3>1. Faithful(bmp[c], seen[c], established, ribIn)
      BY <2>1, OfCollector, Zenon
    <3>2. bmp[c].state = "running" /\ bmp[c].open /\ ~bmp[c].lossy /\ bmp[c].rx = <<>> /\ bmp[c].batch = <<>>
      BY <2>2 DEF CaughtUp, Works
    <3>3. ToldTo(bmp[c], seen[c]) = seen[c]
      <4>1. <<>> \o <<>> = <<>>
        OBVIOUS
      <4>. QED
        BY <3>2, <4>1, ReadNothing DEF ToldTo, Beginning
    <3>. QED
      BY <3>1, <3>2, <3>3, ZenonT(60) DEF Faithful, Shown
  <2>3. CollectorsSeeAdjIn
    BY <2>2, Zenon DEF CollectorsSeeAdjIn, Shown
  <2>4. MonitoringIsFramed
    BY <2>1, OfCollector DEF MonitoringIsFramed, Faithful
  <2>. QED
    BY <2>3, <2>4, Zenon DEF CollectorsAreShown
<1>. QED
  BY <1>1, MonitoredInvariance, PTL

\* Monitoring only watches: whatever collectors, their connections and their tasks
\* do, the server goes on as it would without them, so all that is proved of the
\* route processing holds beside them.
THEOREM MonitoringOnlyWatches == MonitoredSpec => Spec
<1>1. MonitoredInit => Init
  BY DEF MonitoredInit
<1>2. [MonitoredNext]_monitored => [Next]_vars
  <2>1. SUFFICES ASSUME [MonitoredNext]_monitored PROVE [Next]_vars
    OBVIOUS
  <2>2. UNCHANGED monitored => UNCHANGED vars
    BY DEF monitored, vars
  <2>. QED
    BY <2>1, <2>2, ServerStepIsNext DEF MonitoredNext
<1>. QED
  BY <1>1, <1>2, PTL DEF MonitoredSpec, Spec
=============================================================================
