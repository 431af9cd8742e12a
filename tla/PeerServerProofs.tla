-------------------------- MODULE PeerServerProofs --------------------------
(***************************************************************************)
(* The server's picture of a peer, for any families, keys, capabilities,   *)
(* number of tasks and length of the queue.                                *)
(*                                                                         *)
(* The properties compare the server with the task, which may be ahead of  *)
(* it by all the operations that wait.  Leads says that these take the     *)
(* server from what it knows to what the task has said, each step allowed  *)
(* by the protocol of SessionReports.                                      *)
(***************************************************************************)
EXTENDS PeerServer, TLAPS

Admins == {"Up", "Down", "PrefixLimitReached"}
Ages == {"none", "fresh", "stale", "llgr", "revived"}
Caps == setup.caps \cup {NoCaps}

Infos == [task : Nat, admin : Admins, state : {"Idle", "Established"}, asn : BOOLEAN, caps : Caps, conn : BOOLEAN,
          adjIn : SUBSET Keys, disabled : SUBSET Families, llgr : [Families -> {"off", "running", "fired"}],
          rr : [Families -> {"off", "running"}], bmp : BOOLEAN]

\* What the reports say of the session, told by the task or known to the server.
Views == [state : {"Idle", "Established"}, asn : BOOLEAN, info : BOOLEAN]

TaskRecs == [told : Views, alive : BOOLEAN, shut : BOOLEAN, caps : Caps, awaiting : SUBSET Families,
             timer : BOOLEAN, llgr : SUBSET Families]

FamilyOps == {"GracefulRestartComplete", "LlgrTimerExpired", "RouteRefreshBoRR", "RouteRefreshEoRR",
              "EnhancedRrStaleTimerExpired"}

Ops ==
  [op : {"StateChanged"}, from : Nat, state : {"Established"}]
    \cup [op : {"SetAdminState"}, from : Nat, state : {"Down"}]
    \cup [op : {"ConnectionInfo"}, from : Nat, caps : setup.caps]
    \cup [op : {"Disconnected"}, from : Nat, gr : SUBSET Families]
    \cup [op : {"GracefulRestartTimerExpired"}, from : Nat, llgr : SUBSET Families]
    \cup [op : FamilyOps, from : Nat, fam : Families]
    \cup [op : {"Update"}, from : Nat, ann : SUBSET Keys, wd : SUBSET Keys, looped : BOOLEAN]
    \cup [op : {"HandshakeComplete"}, from : Nat]
    \cup [op : {"VrpUpdate"}, from : {0}, keys : SUBSET Keys, reject : SUBSET Keys]

Pasts == [mixed : BOOLEAN, limit : BOOLEAN, partial : BOOLEAN]

Types ==
  /\ setup \in Setups
  /\ info \in Infos /\ info.task \in 0..Len(tasks)
  /\ tasks \in Seq(TaskRecs) /\ Len(tasks) \in 1..setup.tasks
  /\ loc \in [Keys -> Ages]
  /\ ops \in Seq(Ops) /\ \A i \in 1..Len(ops) : ops[i].from \in 0..Len(tasks)
  /\ mon \in {"up", "down", "confused"}
  /\ past \in Pasts

\* What an operation of task n makes of the view.
Moves(n, v, d, w) ==
  IF d.from # n THEN w = v
  ELSE CASE d.op = "StateChanged"      -> v.asn /\ w = [v EXCEPT !.state = "Established"]
         [] d.op = "HandshakeComplete" -> v.state # "Established" /\ w = [v EXCEPT !.asn = TRUE]
         [] d.op = "ConnectionInfo"    -> v.state # "Established" /\ w = [v EXCEPT !.info = TRUE]
         [] d.op = "Disconnected"      -> w = R!Unknown
         [] OTHER                      -> w = v

\* The operations of q take the view v to w.
Leads(n, v, q, w) ==
  \E f \in [0..Len(q) -> Views] :
    f[0] = v /\ f[Len(q)] = w /\ \A i \in 1..Len(q) : Moves(n, f[i - 1], q[i], f[i])

View(i) == [state |-> i.state, asn |-> i.asn, info |-> i.conn]

\* bmp_session says what the collector was told, whatever tasks have reported.
CollectorHasBmp == ~past.limit => mon = IF Present /\ info.bmp THEN "up" ELSE "down"

Regular == Present /\ ~past.mixed /\ ~past.limit

ServerFollowsTask ==
  Regular => /\ info.bmp <=> IsUp(info) /\ info.conn
             /\ Leads(Current, View(info), ops, tasks[Current].told)

Inv == Types /\ FreshIsLive /\ CollectorHasBmp /\ ServerFollowsTask

-----------------------------------------------------------------------------
(* The queue *)

LEMMA LeadsEmpty ==
  ASSUME NEW n, NEW v, NEW w, Leads(n, v, <<>>, w)
  PROVE  v = w
<1>1. Len(<<>>) = 0
  OBVIOUS
<1>. QED
  BY <1>1 DEF Leads

\* Operations of other tasks lead nowhere.
LEMMA LeadsOthers ==
  ASSUME NEW S, NEW q \in Seq(S), NEW n, NEW v \in Views, \A i \in 1..Len(q) : q[i].from # n
  PROVE  Leads(n, v, q, v)
<1>. DEFINE f == [i \in 0..Len(q) |-> v]
<1>1. Len(q) \in Nat
  OBVIOUS
<1>2. f \in [0..Len(q) -> Views] /\ f[0] = v /\ f[Len(q)] = v
  BY <1>1
<1>3. ASSUME NEW i \in 1..Len(q) PROVE Moves(n, f[i - 1], q[i], f[i])
  <2>1. f[i - 1] = v /\ f[i] = v
    BY <1>1
  <2>. QED
    BY <2>1 DEF Moves
<1>. HIDE DEF f
<1>. QED
  BY <1>2, <1>3 DEF Leads

\* The server takes the first operation.
LEMMA LeadsTail ==
  ASSUME NEW S, NEW q \in Seq(S), q # <<>>, NEW n, NEW v, NEW w, Leads(n, v, q, w)
  PROVE  \E u \in Views : Moves(n, v, Head(q), u) /\ Leads(n, u, Tail(q), w)
<1>1. PICK f \in [0..Len(q) -> Views] :
        f[0] = v /\ f[Len(q)] = w /\ \A i \in 1..Len(q) : Moves(n, f[i - 1], q[i], f[i])
  BY DEF Leads
<1>2. Len(q) \in Nat \ {0} /\ Tail(q) \in Seq(S) /\ Len(Tail(q)) = Len(q) - 1 /\ Head(q) = q[1]
      /\ \A i \in 1..Len(Tail(q)) : Tail(q)[i] = q[i + 1]
  OBVIOUS
<1>. DEFINE m == Len(Tail(q))
            g == [i \in 0..m |-> f[i + 1]]
<1>3. m \in Nat /\ m + 1 = Len(q)
  BY <1>2
<1>4. g \in [0..m -> Views] /\ g[0] = f[1] /\ g[m] = w
  BY <1>1, <1>3
<1>5. ASSUME NEW i \in 1..m PROVE Moves(n, g[i - 1], Tail(q)[i], g[i])
  <2>1. i + 1 \in 1..Len(q) /\ i - 1 \in 0..m /\ i \in 0..m /\ (i - 1) + 1 = i /\ (i + 1) - 1 = i
    BY <1>3
  <2>2. g[i - 1] = f[(i + 1) - 1] /\ g[i] = f[i + 1] /\ Tail(q)[i] = q[i + 1]
    BY <1>2, <2>1
  <2>3. Moves(n, f[(i + 1) - 1], q[i + 1], f[i + 1])
    BY <1>1, <2>1
  <2>. QED
    BY <2>2, <2>3
<1>6. Moves(n, v, Head(q), f[1]) /\ f[1] \in Views
  <2>1. 1 \in 1..Len(q) /\ 1 \in 0..Len(q) /\ 1 - 1 = 0
    BY <1>2
  <2>2. Moves(n, f[1 - 1], q[1], f[1])
    BY <1>1, <2>1
  <2>. QED
    BY <1>1, <1>2, <2>1, <2>2
<1>. HIDE DEF g
<1>7. Leads(n, f[1], Tail(q), w)
  BY <1>4, <1>5, Zenon DEF Leads
<1>. QED
  BY <1>6, <1>7

\* A task adds one.
LEMMA LeadsAppend ==
  ASSUME NEW S, NEW q \in Seq(S), NEW d \in S, NEW n, NEW v, NEW w, NEW x \in Views,
         Leads(n, v, q, w), Moves(n, w, d, x)
  PROVE  Leads(n, v, Append(q, d), x)
<1>1. PICK f \in [0..Len(q) -> Views] :
        f[0] = v /\ f[Len(q)] = w /\ \A i \in 1..Len(q) : Moves(n, f[i - 1], q[i], f[i])
  BY SMTT(60) DEF Leads
<1>. DEFINE m == Len(q) + 1
            p == Append(q, d)
            g == [i \in 0..m |-> IF i = m THEN x ELSE f[i]]
<1>2. Len(q) \in Nat /\ p \in Seq(S) /\ Len(p) = m /\ p[m] = d /\ \A i \in 1..Len(q) : p[i] = q[i]
  OBVIOUS
<1>3. g \in [0..m -> Views] /\ g[0] = v /\ g[m] = x
  BY <1>1, <1>2
<1>4. ASSUME NEW i \in 1..m PROVE Moves(n, g[i - 1], p[i], g[i])
  <2>1. i - 1 \in 0..m /\ i \in 0..m /\ g[i - 1] = f[i - 1]
    BY <1>2
  <2>2. CASE i = m
    <3>1. g[i - 1] = w /\ p[i] = d /\ g[i] = x
      BY <1>1, <1>2, <2>1, <2>2
    <3>. QED
      BY <3>1
  <2>3. CASE i # m
    <3>1. i \in 1..Len(q) /\ g[i] = f[i] /\ p[i] = q[i]
      BY <1>2, <2>1, <2>3
    <3>2. Moves(n, f[i - 1], q[i], f[i])
      BY <1>1, <3>1
    <3>. QED
      BY <2>1, <3>1, <3>2
  <2>. QED
    BY <2>2, <2>3
<1>. HIDE DEF g
<1>. QED
  BY <1>2, <1>3, <1>4, Zenon DEF Leads

-----------------------------------------------------------------------------
(* Types *)

LEMMA SameSets ==
  ASSUME setup' = setup
  PROVE  Infos' = Infos /\ Ops' = Ops /\ TaskRecs' = TaskRecs /\ Caps' = Caps
BY DEF Infos, Ops, TaskRecs, Caps, Views

LEMMA InfoFields ==
  ASSUME NEW i \in Infos
  PROVE  /\ i.task \in Nat /\ i.admin \in Admins /\ i.state \in {"Idle", "Established"}
         /\ i.asn \in BOOLEAN /\ i.caps \in Caps /\ i.conn \in BOOLEAN /\ i.adjIn \in SUBSET Keys
         /\ i.disabled \in SUBSET Families /\ i.llgr \in [Families -> {"off", "running", "fired"}]
         /\ i.rr \in [Families -> {"off", "running"}] /\ i.bmp \in BOOLEAN
BY DEF Infos

LEMMA Edits ==
  ASSUME NEW i \in Infos
  PROVE  /\ \A x \in Admins : [i EXCEPT !.admin = x] \in Infos
         /\ \A x \in {"Idle", "Established"} : [i EXCEPT !.state = x] \in Infos
         /\ [i EXCEPT !.asn = TRUE] \in Infos
         /\ \A x \in Caps : [i EXCEPT !.conn = TRUE, !.caps = x] \in Infos
         /\ \A x \in SUBSET Keys : [i EXCEPT !.adjIn = x] \in Infos
         /\ \A x \in SUBSET Keys, y \in SUBSET Families : [i EXCEPT !.adjIn = x, !.disabled = y] \in Infos
         /\ \A x \in [Families -> {"off", "running", "fired"}] : [i EXCEPT !.llgr = x] \in Infos
         /\ \A x \in [Families -> {"off", "running"}] : [i EXCEPT !.rr = x] \in Infos
         /\ \A x \in BOOLEAN : [i EXCEPT !.bmp = x] \in Infos
BY ZenonT(60) DEF Infos

LEMMA ResetConnType ==
  ASSUME NEW i \in Infos
  PROVE  ResetConn(i) \in Infos
BY Zenon DEF Infos, ResetConn, Caps

LEMMA EndSessionType ==
  ASSUME NEW i \in Infos, NEW F
  PROVE  EndSession(i, F) \in Infos
BY ResetConnType, ZenonT(60) DEF Infos, EndSession, Unset

LEMMA OpFields ==
  ASSUME NEW d \in Ops
  PROVE  /\ d.op = "StateChanged" => d.state = "Established"
         /\ d.op = "SetAdminState" => d.state = "Down"
         /\ d.op = "ConnectionInfo" => d.caps \in Caps
         /\ d.op = "Disconnected" => d.gr \in SUBSET Families
         /\ d.op = "GracefulRestartTimerExpired" => d.llgr \in SUBSET Families
         /\ d.op \in FamilyOps => d.fam \in Families
         /\ d.op = "Update" => d.ann \in SUBSET Keys /\ d.wd \in SUBSET Keys /\ d.looped \in BOOLEAN
         /\ d.op = "VrpUpdate" => d.from = 0 /\ d.keys \in SUBSET Keys /\ d.reject \in SUBSET Keys
         /\ d.from \in Nat
BY DEF Ops, FamilyOps, Caps

LEMMA LocTypes ==
  ASSUME NEW l \in [Keys -> Ages]
  PROVE  /\ \A K : Drop(l, K) \in [Keys -> Ages] /\ \A k \in Keys : Drop(l, K)[k] = IF k \in K THEN "none" ELSE l[k]
         /\ \A F : MarkStale(l, F) \in [Keys -> Ages]
         /\ \A F : Sweep(l, F) \in [Keys -> Ages]
         /\ \A F : ApplyLlgr(l, F) \in [Keys -> Ages]
         /\ \A A, W : Apply(l, A, W) \in [Keys -> Ages]
<1>1. \A K : Drop(l, K) \in [Keys -> Ages] /\ \A k \in Keys : Drop(l, K)[k] = IF k \in K THEN "none" ELSE l[k]
  BY DEF Drop, Ages
<1>2. \A F : MarkStale(l, F) \in [Keys -> Ages]
  BY DEF MarkStale, Ages
<1>3. \A F : Sweep(l, F) \in [Keys -> Ages]
  BY <1>1 DEF Sweep
<1>4. \A F : ApplyLlgr(l, F) \in [Keys -> Ages]
  BY DEF ApplyLlgr, Ages
<1>5. \A A, W : Apply(l, A, W) \in [Keys -> Ages]
  BY DEF Apply, Ages
<1>. QED
  BY <1>1, <1>2, <1>3, <1>4, <1>5

\* Sweeping and entering the long-lived phase make no path fresh.
LEMMA NoneFresh ==
  ASSUME NEW l \in [Keys -> Ages], NEW F, NEW k \in Keys
  PROVE  /\ MarkStale(l, F)[k] = "fresh" => l[k] = "fresh" /\ FamilyOf[k] \notin F
         /\ Sweep(l, F)[k] = "fresh" => l[k] = "fresh"
         /\ ApplyLlgr(l, F)[k] = "fresh" => l[k] = "fresh"
         /\ l[k] = "none" => MarkStale(l, F)[k] = "none" /\ Sweep(l, F)[k] = "none" /\ ApplyLlgr(l, F)[k] = "none"
<1>1. /\ MarkStale(l, F)[k] = "fresh" => l[k] = "fresh" /\ FamilyOf[k] \notin F
      /\ l[k] = "none" => MarkStale(l, F)[k] = "none"
  BY DEF MarkStale, Ages
<1>2. /\ Sweep(l, F)[k] = "fresh" => l[k] = "fresh"
      /\ l[k] = "none" => Sweep(l, F)[k] = "none"
  BY DEF Sweep, Drop, Ages
<1>3. /\ ApplyLlgr(l, F)[k] = "fresh" => l[k] = "fresh"
      /\ l[k] = "none" => ApplyLlgr(l, F)[k] = "none"
  BY DEF ApplyLlgr, IsStaleIn, Ages
<1>. QED
  BY <1>1, <1>2, <1>3

LEMMA HeadOfQueue ==
  ASSUME Types, ops # <<>>
  PROVE  /\ Head(ops) \in Ops /\ Head(ops).from \in 0..Len(tasks)
         /\ Tail(ops) \in Seq(Ops) /\ \A i \in 1..Len(Tail(ops)) : Tail(ops)[i].from \in 0..Len(tasks)
<1>1. ops \in Seq(Ops) /\ \A i \in 1..Len(ops) : ops[i].from \in 0..Len(tasks)
  BY DEF Types
<1>. DEFINE n == Len(tasks)
<1>. HIDE DEF n
<1>2. \A i \in 1..Len(ops) : ops[i].from \in 0..n
  BY <1>1 DEF n
<1>3. Len(ops) \in Nat \ {0} /\ Head(ops) = ops[1] /\ Tail(ops) \in Seq(Ops) /\ Len(Tail(ops)) = Len(ops) - 1
      /\ \A i \in 1..Len(Tail(ops)) : Tail(ops)[i] = ops[i + 1]
  BY <1>1
<1>4. Head(ops) \in Ops /\ Head(ops).from \in 0..n
  BY <1>1, <1>2, <1>3
<1>5. \A i \in 1..Len(Tail(ops)) : Tail(ops)[i].from \in 0..n
  BY <1>2, <1>3
<1>. QED
  BY <1>3, <1>4, <1>5 DEF n

Mons == {"up", "down", "confused"}

\* A step of the server keeps the types if what it writes has them.
HandlesTypes ==
  /\ ops # <<>> /\ ops' = Tail(ops)
  /\ info' \in Infos /\ info'.task = info.task
  /\ loc' \in [Keys -> Ages]
  /\ tasks' \in Seq(TaskRecs) /\ Len(tasks') = Len(tasks)
  /\ mon' \in Mons /\ past' \in Pasts

LEMMA HandledTypes ==
  ASSUME Types, setup' = setup, HandlesTypes
  PROVE  Types'
<1>1. Infos' = Infos /\ Ops' = Ops /\ TaskRecs' = TaskRecs
  BY SameSets
<1>2. Tail(ops) \in Seq(Ops) /\ \A i \in 1..Len(Tail(ops)) : Tail(ops)[i].from \in 0..Len(tasks)
  BY HeadOfQueue DEF HandlesTypes
<1>. QED
  BY <1>1, <1>2 DEF Types, HandlesTypes, Mons

LEMMA TakenTypes ==
  ASSUME Types, Taken
  PROVE  /\ ops' = Tail(ops) /\ past' \in Pasts
         /\ past'.limit = past.limit /\ past'.partial = past.partial
         /\ past'.mixed = (past.mixed \/ (Present /\ Head(ops).from # Current))
BY Zenon DEF Types, Taken, Pasts

-----------------------------------------------------------------------------
(* Handlers that leave the session alone *)

SameSession(i, j) ==
  j.task = i.task /\ j.state = i.state /\ j.asn = i.asn /\ j.conn = i.conn /\ j.bmp = i.bmp

SameRoutes(i, j) == j.task = i.task /\ j.adjIn = i.adjIn /\ j.disabled = i.disabled

NoNewFresh(l, m) ==
  \A k \in Keys : (l[k] = "none" => m[k] = "none") /\ (m[k] = "fresh" => l[k] = "fresh")

Quiet(i, j) == j \in Infos /\ SameSession(i, j) /\ SameRoutes(i, j)

LEMMA QuietEdits ==
  ASSUME NEW i \in Infos
  PROVE  /\ Quiet(i, i)
         /\ \A x \in Admins : Quiet(i, [i EXCEPT !.admin = x])
         /\ \A x \in [Families -> {"off", "running", "fired"}] : Quiet(i, [i EXCEPT !.llgr = x])
         /\ \A x \in [Families -> {"off", "running"}] : Quiet(i, [i EXCEPT !.rr = x])
<1>1. Quiet(i, i)
  BY DEF Quiet, SameSession, SameRoutes
<1>2. ASSUME NEW x \in Admins PROVE Quiet(i, [i EXCEPT !.admin = x])
  <2>1. [i EXCEPT !.admin = x] \in Infos
    BY Edits, Zenon
  <2>2. SameSession(i, [i EXCEPT !.admin = x]) /\ SameRoutes(i, [i EXCEPT !.admin = x])
    BY DEF SameSession, SameRoutes, Infos
  <2>. QED
    BY <2>1, <2>2 DEF Quiet
<1>3. ASSUME NEW x \in [Families -> {"off", "running", "fired"}] PROVE Quiet(i, [i EXCEPT !.llgr = x])
  <2>1. [i EXCEPT !.llgr = x] \in Infos
    BY Edits, Zenon
  <2>2. SameSession(i, [i EXCEPT !.llgr = x]) /\ SameRoutes(i, [i EXCEPT !.llgr = x])
    BY DEF SameSession, SameRoutes, Infos
  <2>. QED
    BY <2>1, <2>2 DEF Quiet
<1>4. ASSUME NEW x \in [Families -> {"off", "running"}] PROVE Quiet(i, [i EXCEPT !.rr = x])
  <2>1. [i EXCEPT !.rr = x] \in Infos
    BY Edits, Zenon
  <2>2. SameSession(i, [i EXCEPT !.rr = x]) /\ SameRoutes(i, [i EXCEPT !.rr = x])
    BY DEF SameSession, SameRoutes, Infos
  <2>. QED
    BY <2>1, <2>2 DEF Quiet
<1>. QED
  BY <1>1, <1>2, <1>3, <1>4

LEMMA CancelLlgrQuiet ==
  ASSUME NEW i \in Infos, NEW F
  PROVE  Quiet(i, CancelLlgr(i, F))
<1>. DEFINE x == [f \in Families |-> IF f \in F THEN "off" ELSE i.llgr[f]]
<1>1. x \in [Families -> {"off", "running", "fired"}]
  BY InfoFields
<1>2. CancelLlgr(i, F) = [i EXCEPT !.llgr = x]
  BY DEF CancelLlgr, Infos
<1>. HIDE DEF x
<1>. QED
  BY <1>1, <1>2, QuietEdits

LEMMA RunRefreshTimerQuiet ==
  ASSUME NEW i \in Infos, NEW f \in Families
  PROVE  Quiet(i, RunRefreshTimer(i, f)) /\ Quiet(i, [i EXCEPT !.rr[f] = "off"])
<1>. DEFINE x(v) == [i.rr EXCEPT ![f] = v]
<1>1. x("running") \in [Families -> {"off", "running"}] /\ x("off") \in [Families -> {"off", "running"}]
  BY InfoFields
<1>2. [i EXCEPT !.rr[f] = "running"] = [i EXCEPT !.rr = x("running")]
      /\ [i EXCEPT !.rr[f] = "off"] = [i EXCEPT !.rr = x("off")]
  BY DEF Infos
<1>3. Quiet(i, [i EXCEPT !.rr[f] = "running"]) /\ Quiet(i, [i EXCEPT !.rr[f] = "off"])
  <2>. HIDE DEF x
  <2>. QED
    BY <1>1, <1>2, QuietEdits
<1>. QED
  BY <1>3, QuietEdits DEF RunRefreshTimer

QuietStep ==
  /\ ops # <<>> /\ Taken /\ UNCHANGED <<tasks, mon>>
  /\ Head(ops).op \notin {"StateChanged", "HandshakeComplete", "ConnectionInfo", "Disconnected"}
  /\ Quiet(info, info')
  /\ loc' \in [Keys -> Ages] /\ NoNewFresh(loc, loc')

LEMMA QuietSteps ==
  ASSUME Types,
         \/ HandleGrTimerExpired \/ ClearStaleFamily \/ HandleRouteRefreshBoRR \/ HandleRouteRefreshEoRR
         \/ HandleEnhancedRrStaleExpired \/ HandleSetAdminState
  PROVE  QuietStep
<1>. DEFINE d == Head(ops)
            I == info
            L == loc
<1>1. ops # <<>> /\ Taken /\ UNCHANGED <<tasks, mon>>
      /\ d.op \in FamilyOps \cup {"GracefulRestartTimerExpired", "SetAdminState"}
  BY DEF HandleGrTimerExpired, ClearStaleFamily, HandleRouteRefreshBoRR, HandleRouteRefreshEoRR,
         HandleEnhancedRrStaleExpired, HandleSetAdminState, Handling, FamilyOps
<1>2. d \in Ops /\ info \in Infos /\ loc \in [Keys -> Ages]
  BY <1>1, HeadOfQueue DEF Types
<1>3. d.op \in FamilyOps => d.fam \in Families
  BY <1>2, OpFields
<1>4. \A F : /\ MarkStale(loc, F) \in [Keys -> Ages] /\ NoNewFresh(loc, MarkStale(loc, F))
             /\ Sweep(loc, F) \in [Keys -> Ages] /\ NoNewFresh(loc, Sweep(loc, F))
  BY <1>2, LocTypes, NoneFresh DEF NoNewFresh
<1>5. Quiet(info, info') /\ loc' \in [Keys -> Ages] /\ NoNewFresh(loc, loc')
  <2>1. CASE HandleGrTimerExpired
    <3>. DEFINE m == Sweep(loc, StaleFamilies(loc) \ d.llgr)
                x == [f \in Families |-> IF f \in d.llgr THEN "running" ELSE info.llgr[f]]
    <3>1. loc' = ApplyLlgr(m, d.llgr)
      BY <2>1 DEF HandleGrTimerExpired
    <3>2. m \in [Keys -> Ages] /\ NoNewFresh(loc, m)
      BY <1>4
    <3>3. loc' \in [Keys -> Ages] /\ NoNewFresh(m, loc')
      <4>. HIDE DEF m
      <4>. QED
        BY <3>1, <3>2, LocTypes, NoneFresh DEF NoNewFresh
    <3>4. NoNewFresh(loc, loc')
      BY <3>2, <3>3 DEF NoNewFresh
    <3>5. x \in [Families -> {"off", "running", "fired"}]
      BY <1>2, InfoFields
    <3>6. info' = IF ~Present THEN info ELSE [info EXCEPT !.llgr = x]
      BY <2>1, <1>2 DEF HandleGrTimerExpired, Infos
    <3>. HIDE DEF x
    <3>. QED
      BY <1>2, <3>3, <3>4, <3>5, <3>6, QuietEdits
  <2>2. CASE ClearStaleFamily
    <3>1. info' = (IF Present THEN CancelLlgr(info, {d.fam}) ELSE info) /\ loc' = Sweep(loc, {d.fam})
      BY <2>2 DEF ClearStaleFamily
    <3>. QED
      BY <1>2, <1>4, <3>1, CancelLlgrQuiet, QuietEdits
  <2>3. CASE HandleRouteRefreshBoRR
    <3>1. info' = (IF Present THEN RunRefreshTimer(info, d.fam) ELSE info) /\ loc' = MarkStale(loc, {d.fam})
          /\ d.fam \in Families
      BY <2>3, <1>3 DEF HandleRouteRefreshBoRR, Handling, FamilyOps
    <3>. QED
      BY <1>2, <1>4, <3>1, RunRefreshTimerQuiet, QuietEdits, Zenon
  <2>4. CASE HandleRouteRefreshEoRR
    <3>1. info' = (IF Present THEN [info EXCEPT !.rr[d.fam] = "off"] ELSE info) /\ loc' = Sweep(loc, {d.fam})
          /\ d.fam \in Families
      BY <2>4, <1>3 DEF HandleRouteRefreshEoRR, Handling, FamilyOps
    <3>. QED
      BY <1>2, <1>4, <3>1, RunRefreshTimerQuiet, QuietEdits, SMTT(60)
  <2>5. CASE HandleEnhancedRrStaleExpired
    <3>1. info' = info /\ loc' = Sweep(loc, {d.fam})
      BY <2>5 DEF HandleEnhancedRrStaleExpired
    <3>. QED
      BY <1>2, <1>4, <3>1, QuietEdits
  <2>6. CASE HandleSetAdminState
    <3>1. info' = (IF Present THEN [info EXCEPT !.admin = d.state] ELSE info) /\ loc' = loc /\ d.state = "Down"
      BY <2>6, <1>2, OpFields DEF HandleSetAdminState, Handling
    <3>2. "Down" \in Admins /\ NoNewFresh(loc, loc)
      BY DEF Admins, NoNewFresh
    <3>. QED
      BY <1>2, <3>1, <3>2, QuietEdits
  <2>. QED
    BY <2>1, <2>2, <2>3, <2>4, <2>5, <2>6
<1>. QED
  BY <1>1, <1>5 DEF QuietStep, FamilyOps

-----------------------------------------------------------------------------
(* Handlers of the session *)

LEMMA SetBmp ==
  ASSUME NEW i \in Infos, NEW b \in BOOLEAN
  PROVE  LET j == [i EXCEPT !.bmp = b]
         IN  /\ j \in Infos /\ SameRoutes(i, j) /\ j.bmp = b
             /\ j.state = i.state /\ j.asn = i.asn /\ j.conn = i.conn
<1>1. [i EXCEPT !.bmp = b] \in Infos
  BY Edits, Zenon
<1>. QED
  BY <1>1 DEF SameRoutes, Infos

LEMMA StateChangedStep ==
  ASSUME Types, HandlePeerStateChanged
  PROVE  /\ ops # <<>> /\ Head(ops).op = "StateChanged" /\ Taken /\ tasks' = tasks
         /\ info' \in Infos /\ SameRoutes(info, info') /\ info'.asn = info.asn /\ info'.conn = info.conn
         /\ loc' \in [Keys -> Ages] /\ NoNewFresh(loc, loc')
         /\ ~Present => info' = info /\ mon' = mon
         /\ Present => info'.state = "Established"
         /\ Present /\ ~info.conn => info'.bmp = info.bmp /\ mon' = mon
         /\ Present /\ info.conn => /\ info'.bmp = (info.bmp \/ info.asn)
                                    /\ mon' = IF ~info.bmp /\ info.asn THEN PeerUp(mon) ELSE mon
<1>. DEFINE i == [info EXCEPT !.state = "Established"]
<1>1. ops # <<>> /\ Head(ops).op = "StateChanged" /\ Taken /\ tasks' = tasks
  BY DEF HandlePeerStateChanged, Handling
<1>2. Head(ops).state = "Established" /\ info \in Infos /\ loc \in [Keys -> Ages]
  BY <1>1, HeadOfQueue, OpFields DEF Types
<1>3. i \in Infos
  BY <1>2, Edits, Zenon
<1>4. /\ SameRoutes(info, i) /\ i.state = "Established"
      /\ i.asn = info.asn /\ i.conn = info.conn /\ i.bmp = info.bmp
  BY <1>2 DEF SameRoutes, Infos
<1>5. NoNewFresh(loc, loc) /\ SameRoutes(info, info)
  BY DEF NoNewFresh, SameRoutes
<1>6. CASE ~Present
  <2>1. info' = info /\ loc' = loc /\ mon' = mon
    BY <1>6 DEF HandlePeerStateChanged
  <2>. QED
    BY <1>1, <1>2, <1>5, <1>6, <2>1
<1>7. CASE Present
  <2>1. Establish(i)
    BY <1>2, <1>4, <1>7 DEF HandlePeerStateChanged, IsUp
  <2>. HIDE DEF i
  <2>2. CASE ~i.conn
    <3>1. info' = i /\ loc' = loc /\ mon' = mon
      BY <2>1, <2>2 DEF Establish
    <3>. QED
      BY <1>1, <1>2, <1>3, <1>4, <1>5, <1>7, <2>2, <3>1
  <2>3. CASE i.conn
    <3>. DEFINE c == CancelLlgr(i, SweptLlgr(i.caps, i))
                m == Sweep(loc, SweptGr(i.caps, loc))
    <3>1. Quiet(i, c)
      BY <1>3, CancelLlgrQuiet
    <3>2. loc' = Sweep(m, SweptLlgr(i.caps, i)) /\ mon' = IF ~i.bmp /\ i.asn THEN PeerUp(mon) ELSE mon
      BY <2>1, <2>3 DEF Establish, SweepStale
    <3>3. info' = [c EXCEPT !.bmp = @ \/ i.asn]
      BY <2>1, <2>3 DEF Establish
    <3>4. m \in [Keys -> Ages] /\ NoNewFresh(loc, m)
      BY <1>2, LocTypes, NoneFresh DEF NoNewFresh
    <3>. HIDE DEF m, c
    <3>5. loc' \in [Keys -> Ages] /\ NoNewFresh(loc, loc')
      BY <3>2, <3>4, LocTypes, NoneFresh DEF NoNewFresh
    <3>6. c \in Infos /\ SameSession(i, c) /\ SameRoutes(i, c)
      BY <3>1 DEF Quiet
    <3>. DEFINE b == c.bmp \/ i.asn
    <3>7. b \in BOOLEAN
      OBVIOUS
    <3>8. info' = [c EXCEPT !.bmp = b]
      BY <3>3, <3>6 DEF Infos
    <3>9. b = (info.bmp \/ info.asn)
      BY <1>4, <3>6 DEF SameSession
    <3>. HIDE DEF b
    <3>10. /\ info' \in Infos /\ SameRoutes(c, info') /\ info'.bmp = b
           /\ info'.state = c.state /\ info'.asn = c.asn /\ info'.conn = c.conn
      BY <3>6, <3>7, <3>8, SetBmp
    <3>11. /\ SameRoutes(info, info') /\ info'.bmp = (info.bmp \/ info.asn)
           /\ info'.state = "Established" /\ info'.asn = info.asn /\ info'.conn = info.conn
      BY <1>4, <3>6, <3>9, <3>10 DEF SameRoutes, SameSession
    <3>12. mon' = IF ~info.bmp /\ info.asn THEN PeerUp(mon) ELSE mon
      BY <1>4, <3>2
    <3>. QED
      BY <1>1, <1>4, <1>7, <2>3, <3>5, <3>10, <3>11, <3>12, Zenon
  <2>. QED
    BY <2>2, <2>3
<1>. QED
  BY <1>6, <1>7

LEMMA HandshakeStep ==
  ASSUME Types, HandlePeerHandshakeComplete
  PROVE  /\ ops # <<>> /\ Head(ops).op = "HandshakeComplete" /\ Taken /\ tasks' = tasks /\ mon' = mon /\ loc' = loc
         /\ info' \in Infos /\ SameRoutes(info, info')
         /\ info'.state = info.state /\ info'.conn = info.conn /\ info'.bmp = info.bmp
         /\ Present => info'.asn = TRUE
         /\ ~Present => info' = info
<1>1. /\ ops # <<>> /\ Head(ops).op = "HandshakeComplete" /\ Taken /\ tasks' = tasks /\ mon' = mon /\ loc' = loc
      /\ info' = IF Present THEN [info EXCEPT !.asn = TRUE] ELSE info
  BY DEF HandlePeerHandshakeComplete, Handling
<1>2. info \in Infos
  BY DEF Types
<1>3. [info EXCEPT !.asn = TRUE] \in Infos
  BY <1>2, Edits, Zenon
<1>4. LET j == [info EXCEPT !.asn = TRUE]
      IN  SameRoutes(info, j) /\ j.state = info.state /\ j.conn = info.conn /\ j.bmp = info.bmp /\ j.asn = TRUE
  BY <1>2 DEF SameRoutes, Infos
<1>5. CASE Present
  BY <1>1, <1>3, <1>4, <1>5
<1>6. CASE ~Present
  BY <1>1, <1>2, <1>6 DEF SameRoutes
<1>. QED
  BY <1>5, <1>6, Zenon

LEMMA ConnectionInfoStep ==
  ASSUME Types, HandlePeerConnectionInfo
  PROVE  /\ ops # <<>> /\ Head(ops).op = "ConnectionInfo" /\ Taken /\ tasks' = tasks /\ mon' = mon /\ loc' = loc
         /\ info' \in Infos /\ SameRoutes(info, info')
         /\ info'.state = info.state /\ info'.asn = info.asn /\ info'.bmp = info.bmp
         /\ Present => info'.conn = TRUE
         /\ ~Present => info' = info
<1>. DEFINE c == Head(ops).caps
            j == [info EXCEPT !.conn = TRUE, !.caps = c]
<1>1. /\ ops # <<>> /\ Head(ops).op = "ConnectionInfo" /\ Taken /\ tasks' = tasks /\ mon' = mon /\ loc' = loc
      /\ info' = IF Present THEN j ELSE info
  BY DEF HandlePeerConnectionInfo, Handling
<1>2. info \in Infos /\ c \in Caps
  BY <1>1, HeadOfQueue, OpFields DEF Types
<1>3. j \in Infos
  <2>. HIDE DEF c
  <2>. QED
    BY <1>2, Edits, Zenon
<1>4. SameRoutes(info, j) /\ j.state = info.state /\ j.asn = info.asn /\ j.bmp = info.bmp /\ j.conn = TRUE
  BY <1>2 DEF SameRoutes, Infos
<1>. HIDE DEF j
<1>5. CASE Present
  BY <1>1, <1>3, <1>4, <1>5
<1>6. CASE ~Present
  BY <1>1, <1>2, <1>6 DEF SameRoutes
<1>. QED
  BY <1>5, <1>6, Zenon

LEMMA ResetConnFields ==
  ASSUME NEW i \in Infos
  PROVE  LET j == ResetConn(i)
         IN  /\ j.task = i.task /\ j.state = "Idle" /\ j.asn = FALSE /\ j.conn = FALSE /\ j.bmp = i.bmp
             /\ j.adjIn = i.adjIn /\ j.disabled = i.disabled
BY DEF Infos, ResetConn

LEMMA EndSessionFields ==
  ASSUME NEW i \in Infos, NEW F
  PROVE  LET j == EndSession(i, F)
         IN  /\ j.task = i.task /\ j.state = "Idle" /\ j.asn = FALSE /\ j.conn = FALSE /\ j.bmp = FALSE
             /\ F # {} => j.adjIn = i.adjIn /\ j.disabled = i.disabled
<1>. DEFINE r == ResetConn(i)
<1>1. r \in Infos /\ r.task = i.task /\ r.state = "Idle" /\ r.asn = FALSE /\ r.conn = FALSE
      /\ r.adjIn = i.adjIn /\ r.disabled = i.disabled
  BY ResetConnType, ResetConnFields, Zenon
<1>2. EndSession(i, F) = [r EXCEPT !.rr = Unset, !.bmp = FALSE,
        !.adjIn = IF F = {} THEN {} ELSE @, !.disabled = IF F = {} THEN {} ELSE @]
  BY DEF EndSession
<1>. HIDE DEF r
<1>. QED
  BY <1>1, <1>2 DEF Infos

LEMMA DisconnectedStep ==
  ASSUME Types, HandlePeerDisconnected
  PROVE  /\ ops # <<>> /\ Head(ops).op = "Disconnected" /\ ops' = Tail(ops) /\ tasks' = tasks
         /\ info' \in Infos /\ info'.task = info.task /\ loc' \in [Keys -> Ages] /\ past' \in Pasts
         /\ mon' = (IF Present /\ info.bmp THEN PeerDown(mon) ELSE mon)
         /\ past'.limit = past.limit /\ past'.mixed = (past.mixed \/ (Present /\ Head(ops).from # Current))
         /\ past.partial => past'.partial
         /\ ~Present => info' = info /\ loc' = loc
         /\ Present => /\ info'.state = "Idle" /\ info'.asn = FALSE /\ info'.conn = FALSE /\ info'.bmp = FALSE
                       /\ Head(ops).gr # {} => /\ info'.adjIn = info.adjIn /\ info'.disabled = info.disabled
                                               /\ loc' = MarkStale(loc, Head(ops).gr)
                                               /\ ~past'.partial => \A k \in Keys : loc[k] = "fresh" => FamilyOf[k] \in Head(ops).gr
                       /\ Head(ops).gr = {} => loc' = IF IsUp(info) THEN Drop(loc, Keys) ELSE loc
<1>. DEFINE g == Head(ops).gr
<1>1. ops # <<>> /\ Head(ops).op = "Disconnected" /\ tasks' = tasks
  BY DEF HandlePeerDisconnected, Handling
<1>2. info \in Infos /\ loc \in [Keys -> Ages] /\ past \in Pasts
  BY DEF Types
<1>3. CASE ~Present
  <2>1. Taken /\ info' = info /\ loc' = loc /\ mon' = mon
    BY <1>3, Zenon DEF HandlePeerDisconnected
  <2>. QED
    BY <1>1, <1>2, <1>3, <2>1, TakenTypes
<1>4. CASE Present
  <2>. DEFINE part == past.partial \/ (g # {} /\ \E k \in Keys : loc[k] = "fresh" /\ FamilyOf[k] \notin g)
              mix == past.mixed \/ Head(ops).from # Current
  <2>1. /\ ops' = Tail(ops) /\ info' = EndSession(info, g)
        /\ loc' = IF g # {} THEN MarkStale(loc, g) ELSE IF IsUp(info) THEN Drop(loc, Keys) ELSE loc
        /\ mon' = IF info.bmp THEN PeerDown(mon) ELSE mon
    BY <1>4 DEF HandlePeerDisconnected
  <2>2. past' = [past EXCEPT !.mixed = mix, !.partial = part]
    BY <1>2, <1>4 DEF HandlePeerDisconnected, Pasts
  <2>3. mix \in BOOLEAN /\ part \in BOOLEAN
    OBVIOUS
  <2>4. past' \in Pasts /\ past'.limit = past.limit /\ past'.mixed = mix /\ past'.partial = part
    <3>. HIDE DEF mix, part
    <3>. QED
      BY <1>2, <2>2, <2>3, Zenon DEF Pasts
  <2>5. info' \in Infos
    BY <1>2, <2>1, EndSessionType
  <2>6. /\ info'.task = info.task
        /\ info'.state = "Idle" /\ info'.asn = FALSE /\ info'.conn = FALSE /\ info'.bmp = FALSE
        /\ g # {} => info'.adjIn = info.adjIn /\ info'.disabled = info.disabled
    BY <1>2, <2>1, EndSessionFields, Zenon
  <2>7. loc' \in [Keys -> Ages]
    BY <1>2, <2>1, LocTypes
  <2>8. past.partial => past'.partial
    BY <2>4, Zenon
  <2>9. g # {} /\ ~past'.partial => \A k \in Keys : loc[k] = "fresh" => FamilyOf[k] \in g
    BY <2>4, Zenon
  <2>10. past'.mixed = (past.mixed \/ (Present /\ Head(ops).from # Current))
    BY <1>4, <2>4
  <2>11. g # {} => loc' = MarkStale(loc, g)
    BY <2>1
  <2>12. g = {} => loc' = IF IsUp(info) THEN Drop(loc, Keys) ELSE loc
    BY <2>1
  <2>. QED
    BY <1>1, <1>4, <2>1, <2>4, <2>5, <2>6, <2>7, <2>8, <2>9, <2>10, <2>11, <2>12, Zenon
<1>. QED
  BY <1>3, <1>4, Zenon

LEMMA Replaced ==
  ASSUME NEW S, NEW q \in Seq(S), NEW n \in 1..Len(q), NEW x \in S
  PROVE  LET p == [q EXCEPT ![n] = x]
         IN  p \in Seq(S) /\ Len(p) = Len(q) /\ p[n] = x /\ \A m \in 1..Len(q) : m # n => p[m] = q[m]
OBVIOUS

LEMMA ShutType ==
  ASSUME Types, Present
  PROVE  LET q == [tasks EXCEPT ![Current].shut = TRUE] IN q \in Seq(TaskRecs) /\ Len(q) = Len(tasks)
<1>1. tasks \in Seq(TaskRecs) /\ Current \in 1..Len(tasks)
  BY DEF Types, Present, Current
<1>2. tasks[Current] \in TaskRecs
  BY <1>1
<1>. DEFINE r == [tasks[Current] EXCEPT !.shut = TRUE]
<1>3. r \in TaskRecs
  BY <1>2, Zenon DEF TaskRecs
<1>4. [tasks EXCEPT ![Current].shut = TRUE] = [tasks EXCEPT ![Current] = r]
  BY <1>1
<1>. HIDE DEF r
<1>5. [tasks EXCEPT ![Current] = r] \in Seq(TaskRecs) /\ Len([tasks EXCEPT ![Current] = r]) = Len(tasks)
  BY <1>1, <1>3, Replaced
<1>. QED
  BY <1>4, <1>5, Zenon

-----------------------------------------------------------------------------
(* UPDATEs *)

LEMMA StoreInFields ==
  ASSUME NEW i \in Infos, NEW u, u.ann \in SUBSET Keys, u.wd \in SUBSET Keys
  PROVE  LET j == StoreIn(i, u)
         IN  /\ j \in Infos /\ SameSession(i, j) /\ j.disabled = i.disabled
             /\ j.adjIn = (i.adjIn \ u.wd) \cup u.ann
<1>. DEFINE x == (i.adjIn \ u.wd) \cup u.ann
<1>1. x \in SUBSET Keys
  BY InfoFields
<1>2. StoreIn(i, u) = [i EXCEPT !.adjIn = x]
  BY DEF StoreIn, Infos
<1>3. [i EXCEPT !.adjIn = x].adjIn = x
  BY DEF Infos
<1>. HIDE DEF x
<1>4. [i EXCEPT !.adjIn = x] \in Infos
  BY <1>1, Edits, Zenon
<1>5. SameSession(i, [i EXCEPT !.adjIn = x]) /\ [i EXCEPT !.adjIn = x].disabled = i.disabled
  BY DEF SameSession, Infos
<1>. QED
  BY <1>2, <1>3, <1>4, <1>5 DEF x

\* handle_max_prefix_terminate.
LimitStep ==
  /\ Present /\ ops # <<>> /\ HandlesTypes
  /\ \A k \in Keys : loc'[k] = "none"
  /\ past'.limit = TRUE

\* An update of the session that is stored.
AcceptStep ==
  /\ Present /\ IsUp(info) /\ ops # <<>> /\ Taken /\ UNCHANGED <<tasks, mon>>
  /\ info' \in Infos /\ SameSession(info, info') /\ loc' \in [Keys -> Ages]
  /\ AllowAutoStop /\ info'.disabled = {} =>
       /\ info.disabled = {}
       /\ \A k \in Keys : loc'[k] = "fresh" /\ (loc[k] = "fresh" => k \in info.adjIn) => k \in info'.adjIn

LEMMA LimitSteps ==
  ASSUME Types, Present, ops # <<>>, NEW i \in Infos, i.task = info.task, TerminateForLimit(i)
  PROVE  LimitStep
<1>. DEFINE r == ResetConn(i)
            mix == past.mixed \/ Head(ops).from # Current
            c == "PrefixLimitReached"
<1>1. loc \in [Keys -> Ages] /\ past \in Pasts /\ mon \in Mons
  BY DEF Types, Mons
<1>2. /\ info' = [r EXCEPT !.admin = c, !.adjIn = {}, !.disabled = {}]
      /\ loc' = Drop(loc, Keys) /\ mon' = (IF i.asn /\ i.conn THEN PeerDown(mon) ELSE mon)
      /\ tasks' = [tasks EXCEPT ![Current].shut = TRUE] /\ ops' = Tail(ops)
  BY DEF TerminateForLimit
<1>3. past' = [past EXCEPT !.limit = TRUE, !.mixed = mix]
  BY <1>1 DEF TerminateForLimit, Pasts
<1>4. mix \in BOOLEAN
  OBVIOUS
<1>5. past' \in Pasts /\ past'.limit = TRUE
  <2>. HIDE DEF mix
  <2>. QED
    BY <1>1, <1>3, <1>4, Zenon DEF Pasts
<1>6. r \in Infos /\ r.task = info.task /\ c \in Admins /\ {} \in SUBSET Keys /\ {} \in SUBSET Families
  BY ResetConnType, ResetConnFields, Zenon DEF Admins
<1>7. info' \in Infos /\ info'.task = info.task
  <2>. HIDE DEF r, c
  <2>. QED
    BY <1>2, <1>6, Zenon DEF Infos
<1>8. loc' \in [Keys -> Ages] /\ \A k \in Keys : loc'[k] = "none"
  BY <1>1, <1>2, LocTypes
<1>9. tasks' \in Seq(TaskRecs) /\ Len(tasks') = Len(tasks)
  BY <1>2, ShutType
<1>10. mon' \in Mons
  BY <1>1, <1>2 DEF Mons, PeerDown
<1>. QED
  BY <1>2, <1>5, <1>7, <1>8, <1>9, <1>10 DEF LimitStep, HandlesTypes

LEMMA AcceptSteps ==
  ASSUME Types, Present, IsUp(info), ops # <<>>, NEW u, u.ann \in SUBSET Keys, u.wd \in SUBSET Keys,
         AcceptUpdate(StoreIn(info, u), u),
         IsDisabled(StoreIn(info, u), u) \/ NotNegotiated(StoreIn(info, u), u) # {}
           \/ ~Terminates(StoreIn(info, u), u) \/ ~AllowAutoStop
  PROVE  AcceptStep
<1>. DEFINE i == StoreIn(info, u)
            N == NotNegotiated(i, u)
<1>1. loc \in [Keys -> Ages] /\ info \in Infos
  BY DEF Types
<1>2. i \in Infos /\ SameSession(info, i) /\ i.disabled = info.disabled /\ i.adjIn = (info.adjIn \ u.wd) \cup u.ann
  BY <1>1, StoreInFields
<1>3. N \in SUBSET Families
  BY PeerServerAssumption DEF NotNegotiated
<1>4. IsDisabled(i, u) => i.disabled # {}
  BY DEF IsDisabled
<1>5. Taken /\ UNCHANGED <<tasks, mon>>
  BY DEF AcceptUpdate
<1>6. CASE IsDisabled(i, u)
  <2>1. info' = i /\ loc' = loc
    BY <1>6 DEF AcceptUpdate
  <2>. HIDE DEF i
  <2>. QED
    BY <1>1, <1>2, <1>4, <1>5, <1>6, <2>1 DEF AcceptStep
<1>7. CASE ~IsDisabled(i, u) /\ N # {}
  <2>. DEFINE x == i.adjIn \ KeysOf(N)
              y == i.disabled \cup N
  <2>1. info' = [i EXCEPT !.adjIn = @ \ KeysOf(N), !.disabled = @ \cup N] /\ loc' = loc
    BY <1>7 DEF AcceptUpdate
  <2>. HIDE DEF i, N
  <2>2. info' = [i EXCEPT !.adjIn = x, !.disabled = y]
    BY <1>2, <2>1 DEF Infos
  <2>3. x \in SUBSET Keys /\ y \in SUBSET Families /\ y # {}
    BY <1>2, <1>3, <1>7, InfoFields
  <2>. HIDE DEF x, y
  <2>4. info' \in Infos
    BY <1>2, <2>2, <2>3, Edits, Zenon
  <2>5. SameSession(i, info') /\ info'.disabled = y
    BY <1>2, <2>2 DEF SameSession, Infos
  <2>6. SameSession(info, info')
    BY <1>2, <2>5, Zenon DEF SameSession
  <2>. QED
    BY <1>1, <1>5, <2>1, <2>3, <2>4, <2>5, <2>6 DEF AcceptStep
<1>8. CASE ~IsDisabled(i, u) /\ N = {}
  <2>. DEFINE A == Announced(i, u)
              W == Withdrawn(u)
  <2>1. info' = i /\ loc' = IF Terminates(i, u) THEN loc ELSE Apply(loc, A, W)
    BY <1>8, Zenon DEF AcceptUpdate
  <2>2. loc' \in [Keys -> Ages]
    BY <1>1, <2>1, LocTypes
  <2>3. A \subseteq u.ann /\ u.wd \subseteq W
    BY DEF Announced, Withdrawn
  <2>4. ASSUME AllowAutoStop, NEW k \in Keys, loc'[k] = "fresh", loc[k] = "fresh" => k \in info.adjIn
        PROVE  k \in info'.adjIn
    <3>1. loc' = Apply(loc, A, W)
      BY <1>8, <2>1, <2>4, Zenon
    <3>2. k \in A \/ (k \notin W /\ loc[k] = "fresh")
      <4>. HIDE DEF A, W
      <4>. QED
        BY <2>4, <3>1 DEF Apply
    <3>3. k \in u.ann \/ (k \notin u.wd /\ k \in info.adjIn)
      <4>. HIDE DEF A, W
      <4>. QED
        BY <2>3, <2>4, <3>2
    <3>. QED
      BY <1>2, <2>1, <3>3, Zenon
  <2>. HIDE DEF i
  <2>. QED
    BY <1>2, <1>5, <2>1, <2>2, <2>4 DEF AcceptStep
<1>. QED
  BY <1>6, <1>7, <1>8

LEMMA UpdateSteps ==
  ASSUME Types, HandlePeerUpdate
  PROVE  ops # <<>> /\ Head(ops).op = "Update" /\ (Ignored \/ LimitStep \/ AcceptStep)
<1>. DEFINE u == Head(ops)
            i == StoreIn(info, u)
<1>1. ops # <<>> /\ u.op = "Update"
  BY DEF HandlePeerUpdate, Handling
<1>2. u.ann \in SUBSET Keys /\ u.wd \in SUBSET Keys /\ info \in Infos
  BY <1>1, HeadOfQueue, OpFields DEF Types
<1>3. i \in Infos /\ i.task = info.task
  BY <1>2, StoreInFields DEF SameSession
<1>4. CASE ~Present \/ ~IsUp(info) \/ ~info.asn
  BY <1>1, <1>4 DEF HandlePeerUpdate
<1>5. CASE Present /\ IsUp(info) /\ info.asn
  <2>1. IF ~IsDisabled(i, u) /\ NotNegotiated(i, u) = {} /\ Terminates(i, u) /\ AllowAutoStop
          THEN TerminateForLimit(i) ELSE AcceptUpdate(i, u)
    BY <1>5 DEF HandlePeerUpdate
  <2>2. CASE ~IsDisabled(i, u) /\ NotNegotiated(i, u) = {} /\ Terminates(i, u) /\ AllowAutoStop
    <3>1. TerminateForLimit(i)
      BY <2>1, <2>2
    <3>. HIDE DEF i
    <3>. QED
      BY <1>1, <1>3, <1>5, <3>1, LimitSteps
  <2>3. CASE ~(~IsDisabled(i, u) /\ NotNegotiated(i, u) = {} /\ Terminates(i, u) /\ AllowAutoStop)
    <3>1. AcceptUpdate(i, u)
      BY <2>1, <2>3
    <3>2. AcceptStep
      <4>. HIDE DEF u
      <4>. QED
        BY <1>1, <1>2, <1>5, <2>3, <3>1, AcceptSteps, Zenon
    <3>. QED
      BY <1>1, <3>2
  <2>. QED
    BY <2>2, <2>3
<1>. QED
  BY <1>4, <1>5

-----------------------------------------------------------------------------
(* Tasks *)

Reports ==
  [op : {"HandshakeComplete", "ConnectionInfo", "GracefulRestartComplete", "RouteRefreshBoRR",
         "RouteRefreshEoRR", "SetAdminState"}]
    \cup [op : {"StateChanged"}, state : {"Established"}] \cup [op : {"Disconnected"}, gr : BOOLEAN]
    \cup [op : {"Update"}, routes : {{}}]

LEMMA ScriptReports ==
  ASSUME NEW s \in TaskScripts
  PROVE  \/ Len(s) = 1 /\ s[1] \in Reports
         \/ Len(s) = 2 /\ s[1] \in Reports /\ s[2] \in Reports
<1>. DEFINE N == {"HandshakeComplete", "GracefulRestartComplete", "RouteRefreshBoRR", "RouteRefreshEoRR"}
<1>1. \A x : x \in N \cup {"ConnectionInfo", "SetAdminState"} => [op |-> x] \in Reports
  BY DEF Reports
<1>2. [op |-> "StateChanged", state |-> "Established"] \in Reports /\ [op |-> "Update", routes |-> {}] \in Reports
  BY DEF Reports
<1>3. TRUE \in BOOLEAN /\ FALSE \in BOOLEAN
  OBVIOUS
<1>4. \A x \in BOOLEAN : [op |-> "Disconnected", gr |-> x] \in Reports
  BY DEF Reports
<1>5. \/ \E x \in N : s = <<[op |-> x]>>
      \/ s = <<[op |-> "ConnectionInfo"], [op |-> "StateChanged", state |-> "Established"]>>
      \/ s = <<[op |-> "Update", routes |-> {}]>>
      \/ s = <<[op |-> "Disconnected", gr |-> FALSE]>> \/ s = <<[op |-> "Disconnected", gr |-> TRUE]>>
      \/ s = <<[op |-> "Disconnected", gr |-> FALSE], [op |-> "SetAdminState"]>>
  BY DEF TaskScripts, R!Op, R!StateChanged, R!Update, R!Disconnected
<1>6. \A x : Len(<<x>>) = 1 /\ <<x>>[1] = x
  OBVIOUS
<1>7. \A x, y : Len(<<x, y>>) = 2 /\ <<x, y>>[1] = x /\ <<x, y>>[2] = y
  OBVIOUS
<1>8. CASE \E x \in N : s = <<[op |-> x]>>
  <2>1. PICK x \in N : s = <<[op |-> x]>>
    BY <1>8
  <2>2. [op |-> x] \in Reports
    BY <1>1
  <2>. QED
    BY <1>6, <2>1, <2>2
<1>9. CASE s = <<[op |-> "ConnectionInfo"], [op |-> "StateChanged", state |-> "Established"]>>
  <2>1. [op |-> "ConnectionInfo"] \in Reports
    BY <1>1
  <2>. QED
    BY <1>2, <1>7, <1>9, <2>1
<1>10. CASE s = <<[op |-> "Update", routes |-> {}]>>
  BY <1>2, <1>6, <1>10
<1>11. CASE s = <<[op |-> "Disconnected", gr |-> FALSE]>> \/ s = <<[op |-> "Disconnected", gr |-> TRUE]>>
  <2>1. [op |-> "Disconnected", gr |-> FALSE] \in Reports /\ [op |-> "Disconnected", gr |-> TRUE] \in Reports
    BY <1>3, <1>4, Zenon
  <2>. QED
    BY <1>6, <1>11, <2>1, Zenon
<1>12. CASE s = <<[op |-> "Disconnected", gr |-> FALSE], [op |-> "SetAdminState"]>>
  <2>1. [op |-> "Disconnected", gr |-> FALSE] \in Reports /\ [op |-> "SetAdminState"] \in Reports
    BY <1>1, <1>3, <1>4, Zenon
  <2>. QED
    BY <1>7, <1>12, <2>1
<1>. QED
  BY <1>5, <1>8, <1>9, <1>10, <1>11, <1>12

LEMMA CapsFields ==
  ASSUME Types
  PROVE  \A c \in Caps : c.gr \in SUBSET Families /\ c.llgr \in SUBSET Families
BY PeerServerAssumption DEF Types, Caps, NoCaps

LEMMA TaskFields ==
  ASSUME NEW t \in TaskRecs
  PROVE  /\ t.told \in Views /\ t.caps \in Caps /\ t.awaiting \in SUBSET Families /\ t.llgr \in SUBSET Families
         /\ t.alive \in BOOLEAN /\ t.shut \in BOOLEAN /\ t.timer \in BOOLEAN
BY DEF TaskRecs

\* What the server receives for a report.
LEMMA DecoratedOps ==
  ASSUME Types, NEW n \in Nat, NEW t \in TaskRecs, NEW r \in Reports, NEW d \in Decorated(r, n, t)
  PROVE  d \in Ops /\ d.op = r.op /\ d.from = n
<1>1. setup.refreshed \subseteq Families /\ setup.routes \subseteq Keys
  BY PeerServerAssumption DEF Types
<1>2. t.caps.gr \in SUBSET Families /\ t.awaiting \in SUBSET Families
  BY TaskFields, CapsFields
<1>3. CASE r.op \in {"HandshakeComplete", "SetAdminState", "StateChanged"}
  BY <1>3 DEF Reports, Decorated, Ops, R!RefreshOps
<1>4. CASE r.op = "ConnectionInfo"
  <2>1. PICK c \in setup.caps : d = [op |-> "ConnectionInfo", from |-> n, caps |-> c]
    BY <1>4, Zenon DEF Decorated, R!RefreshOps
  <2>. QED
    BY <1>4, <2>1 DEF Ops
<1>5. CASE r.op = "Disconnected"
  <2>1. d = [op |-> "Disconnected", from |-> n, gr |-> IF r.gr THEN t.caps.gr ELSE {}]
    BY <1>5, Zenon DEF Decorated, R!RefreshOps
  <2>2. (IF r.gr THEN t.caps.gr ELSE {}) \in SUBSET Families
    BY <1>2
  <2>. QED
    BY <1>5, <2>1, <2>2 DEF Ops
<1>6. CASE r.op = "GracefulRestartComplete"
  <2>1. PICK f \in t.awaiting : d = [op |-> "GracefulRestartComplete", from |-> n, fam |-> f]
    BY <1>6 DEF Decorated, R!RefreshOps
  <2>. QED
    BY <1>2, <1>6, <2>1 DEF Ops, FamilyOps
<1>7. CASE r.op \in {"RouteRefreshBoRR", "RouteRefreshEoRR"}
  <2>1. PICK f \in setup.refreshed : d = [op |-> r.op, from |-> n, fam |-> f]
    BY <1>7 DEF Decorated, R!RefreshOps
  <2>. QED
    BY <1>1, <1>7, <2>1 DEF Ops, FamilyOps
<1>8. CASE r.op = "Update"
  <2>1. PICK u \in Updates : d = [op |-> "Update", from |-> n, ann |-> u.ann, wd |-> u.wd, looped |-> u.looped]
    BY <1>8 DEF Decorated, R!RefreshOps
  <2>2. u.ann \in SUBSET Keys /\ u.wd \in SUBSET Keys
    BY <1>1 DEF Updates, AtMostOne
  <2>3. u.looped \in BOOLEAN
    BY DEF Updates
  <2>. QED
    BY <1>8, <2>1, <2>2, <2>3 DEF Ops
<1>. QED
  BY <1>3, <1>4, <1>5, <1>6, <1>7, <1>8 DEF Reports

LEMMA RememberType ==
  ASSUME Types, NEW t \in TaskRecs, NEW d \in Ops
  PROVE  Remember(t, d) \in TaskRecs /\ Remember(t, d).told = t.told
<1>1. NoCaps \in Caps /\ {} \in SUBSET Families /\ t.caps \in Caps /\ t.caps.llgr \in SUBSET Families
  BY TaskFields, CapsFields DEF Caps
<1>2. CASE d.op = "ConnectionInfo"
  <2>1. d.caps \in Caps /\ Remember(t, d) = [t EXCEPT !.caps = d.caps]
    BY <1>2, OpFields DEF Remember
  <2>. QED
    BY <2>1 DEF TaskRecs
<1>3. CASE d.op = "Disconnected"
  <2>1. d.gr \in SUBSET Families
    BY <1>3, OpFields
  <2>2. Remember(t, d) = IF d.gr # {} THEN [t EXCEPT !.awaiting = d.gr, !.timer = TRUE, !.llgr = t.caps.llgr, !.caps = NoCaps]
                         ELSE [t EXCEPT !.caps = NoCaps]
    BY <1>3 DEF Remember
  <2>3. [t EXCEPT !.awaiting = d.gr, !.timer = TRUE, !.llgr = t.caps.llgr, !.caps = NoCaps] \in TaskRecs
        /\ [t EXCEPT !.awaiting = d.gr, !.timer = TRUE, !.llgr = t.caps.llgr, !.caps = NoCaps].told = t.told
    BY <1>1, <2>1, Zenon DEF TaskRecs
  <2>4. [t EXCEPT !.caps = NoCaps] \in TaskRecs /\ [t EXCEPT !.caps = NoCaps].told = t.told
    BY <1>1 DEF TaskRecs
  <2>. QED
    BY <2>2, <2>3, <2>4
<1>4. CASE d.op = "GracefulRestartComplete"
  <2>1. Remember(t, d) = IF t.awaiting = {d.fam} THEN [t EXCEPT !.awaiting = {}, !.timer = FALSE, !.llgr = {}]
                         ELSE [t EXCEPT !.awaiting = @ \ {d.fam}]
    BY <1>4 DEF Remember
  <2>2. [t EXCEPT !.awaiting = {}, !.timer = FALSE, !.llgr = {}] \in TaskRecs
        /\ [t EXCEPT !.awaiting = {}, !.timer = FALSE, !.llgr = {}].told = t.told
    BY <1>1, Zenon DEF TaskRecs
  <2>3. [t EXCEPT !.awaiting = @ \ {d.fam}] \in TaskRecs /\ [t EXCEPT !.awaiting = @ \ {d.fam}].told = t.told
    BY DEF TaskRecs
  <2>. QED
    BY <2>1, <2>2, <2>3
<1>5. CASE d.op \notin {"ConnectionInfo", "Disconnected", "GracefulRestartComplete"}
  BY <1>5 DEF Remember
<1>. QED
  BY <1>2, <1>3, <1>4, <1>5

\* A report that the protocol allows moves the view as the server's handler will.
LEMMA ReportMoves ==
  ASSUME NEW v \in Views, NEW r \in Reports, R!Allowed(v, r), NEW d, NEW n, d.op = r.op, d.from = n
  PROVE  Moves(n, v, d, R!Learned(v, r)) /\ R!Learned(v, r) \in Views
<1>1. CASE r.op = "StateChanged"
  <2>1. r.state = "Established"
    BY <1>1 DEF Reports
  <2>2. v.asn /\ R!Learned(v, r) = [v EXCEPT !.state = "Established"]
    BY <1>1, <2>1 DEF R!Allowed, R!Learned, R!RefreshOps
  <2>3. [v EXCEPT !.state = "Established"] \in Views
    BY DEF Views
  <2>. QED
    BY <1>1, <2>2, <2>3 DEF Moves
<1>2. CASE r.op = "HandshakeComplete"
  <2>1. v.state # "Established" /\ R!Learned(v, r) = [v EXCEPT !.asn = TRUE]
    BY <1>2 DEF R!Allowed, R!Learned
  <2>2. [v EXCEPT !.asn = TRUE] \in Views
    BY Zenon DEF Views
  <2>. QED
    BY <1>2, <2>1, <2>2 DEF Moves
<1>3. CASE r.op = "ConnectionInfo"
  <2>1. v.state # "Established" /\ R!Learned(v, r) = [v EXCEPT !.info = TRUE]
    BY <1>3 DEF R!Allowed, R!Learned
  <2>2. [v EXCEPT !.info = TRUE] \in Views
    BY Zenon DEF Views
  <2>. QED
    BY <1>3, <2>1, <2>2 DEF Moves
<1>4. CASE r.op = "Disconnected"
  <2>1. R!Learned(v, r) = R!Unknown
    BY <1>4 DEF R!Learned
  <2>2. R!Unknown \in Views
    BY DEF Views, R!Unknown
  <2>. QED
    BY <1>4, <2>1, <2>2 DEF Moves
<1>5. CASE r.op \notin {"StateChanged", "HandshakeComplete", "ConnectionInfo", "Disconnected"}
  <2>1. R!Learned(v, r) = v
    BY <1>5 DEF R!Learned
  <2>. QED
    BY <1>5, <2>1 DEF Moves
<1>. QED
  BY <1>1, <1>2, <1>3, <1>4, <1>5

LEMMA OtherMoves ==
  ASSUME NEW v, NEW d, NEW n, d.from # n \/ d.op \notin {"StateChanged", "HandshakeComplete", "ConnectionInfo", "Disconnected"}
  PROVE  Moves(n, v, d, v)
BY DEF Moves

\* A step that is not the server's: operations are added, and they say what the task
\* has said.
OutsideStep ==
  /\ UNCHANGED <<loc, mon, past>> /\ Quiet(info, info')
  /\ tasks' \in Seq(TaskRecs) /\ Len(tasks') = Len(tasks)
  /\ ops' \in Seq(Ops) /\ \A i \in 1..Len(ops') : ops'[i].from \in 0..Len(tasks)
  /\ \A c \in 1..Len(tasks), v \in Views :
       Leads(c, v, ops, tasks[c].told) => Leads(c, v, ops', tasks'[c].told)

LEMMA AppendTwo ==
  ASSUME NEW S, NEW q \in Seq(S), NEW d \in S, NEW e \in S
  PROVE  q \o <<d, e>> = Append(Append(q, d), e)
OBVIOUS

LEMMA AppendOp ==
  ASSUME Types, NEW q \in Seq(Ops), \A i \in 1..Len(q) : q[i].from \in 0..Len(tasks),
         NEW d \in Ops, d.from \in 0..Len(tasks)
  PROVE  Append(q, d) \in Seq(Ops) /\ \A i \in 1..Len(Append(q, d)) : Append(q, d)[i].from \in 0..Len(tasks)
<1>. DEFINE N == 0..Len(tasks)
<1>. HIDE DEF N
<1>1. (\A i \in 1..Len(q) : q[i].from \in N) /\ d.from \in N
  BY DEF N
<1>2. Append(q, d) \in Seq(Ops) /\ \A i \in 1..Len(Append(q, d)) : Append(q, d)[i].from \in N
  BY <1>1
<1>. QED
  BY <1>2 DEF N

\* One operation of task n after which the task has the record t.
LEMMA OneReport ==
  ASSUME Types, NEW n \in 1..Len(tasks), NEW q \in Seq(TaskRecs), Len(q) = Len(tasks),
         NEW p \in Seq(Ops), NEW d \in Ops, d.from = n, NEW t \in TaskRecs,
         Moves(n, q[n].told, d, t.told),
         NEW c \in 1..Len(tasks), NEW v \in Views, Leads(c, v, p, q[c].told)
  PROVE  Leads(c, v, Append(p, d), [q EXCEPT ![n] = t][c].told)
<1>1. q[c] \in TaskRecs /\ t.told \in Views
  BY TaskFields
<1>2. q[c].told \in Views
  BY <1>1, TaskFields
<1>3. CASE c = n
  <2>1. [q EXCEPT ![n] = t][c] = t
    BY <1>3
  <2>. QED
    BY <1>1, <1>3, <2>1, LeadsAppend
<1>4. CASE c # n
  <2>1. [q EXCEPT ![n] = t][c] = q[c]
    BY <1>4
  <2>2. Moves(c, q[c].told, d, q[c].told)
    BY <1>4, OtherMoves
  <2>. QED
    BY <1>2, <2>1, <2>2, LeadsAppend
<1>. QED
  BY <1>3, <1>4

LEMMA TaskReportsSteps ==
  ASSUME Types, NEW n \in 1..Len(tasks), TaskReports(n)
  PROVE  OutsideStep
<1>1. PICK s \in TaskScripts :
        /\ R!IsAllowed(tasks[n].told, s)
        /\ IF Len(s) = 1 THEN TaskReports1(n, s) ELSE TaskReports2(n, s)
  BY DEF TaskReports
<1>2. UNCHANGED <<info, loc, mon, past>>
  BY DEF TaskReports
<1>. DEFINE t == tasks[n]
<1>3. /\ info \in Infos /\ tasks \in Seq(TaskRecs) /\ t \in TaskRecs
      /\ ops \in Seq(Ops) /\ \A i \in 1..Len(ops) : ops[i].from \in 0..Len(tasks)
  BY DEF Types
<1>4. Len(tasks) \in Nat /\ n \in Nat /\ n \in 0..Len(tasks)
  BY <1>3
<1>5. t.told \in Views
  BY <1>3, TaskFields
<1>6. Quiet(info, info')
  BY <1>2, <1>3, QuietEdits
<1>7. CASE Len(s) = 1
  <2>1. s[1] \in Reports /\ R!Allowed(t.told, s[1]) /\ R!Says(t.told, s) = R!Learned(t.told, s[1])
    BY <1>1, <1>7, ScriptReports DEF R!IsAllowed, R!Says
  <2>2. PICK d \in Decorated(s[1], n, t) :
          /\ ops' = Append(ops, d)
          /\ tasks' = [tasks EXCEPT ![n] = [Remember(@, d) EXCEPT !.told = R!Says(t.told, s)]]
    BY <1>1, <1>7 DEF TaskReports1
  <2>3. d \in Ops /\ d.op = s[1].op /\ d.from = n
    BY <1>3, <1>4, <2>1, DecoratedOps, ZenonT(60)
  <2>4. Moves(n, t.told, d, R!Learned(t.told, s[1])) /\ R!Learned(t.told, s[1]) \in Views
    BY <1>5, <2>1, <2>3, ReportMoves, Zenon
  <2>. DEFINE x == [Remember(t, d) EXCEPT !.told = R!Learned(t.told, s[1])]
  <2>5. Remember(t, d) \in TaskRecs /\ Remember(t, d).told = t.told
    BY <1>3, <2>3, RememberType, Zenon
  <2>6. x \in TaskRecs /\ x.told = R!Learned(t.told, s[1])
    BY <2>4, <2>5 DEF TaskRecs
  <2>7. tasks' = [tasks EXCEPT ![n] = x]
    <3>1. x = [Remember(t, d) EXCEPT !.told = R!Says(t.told, s)]
      BY <2>1, <2>5 DEF TaskRecs
    <3>. QED
      BY <1>3, <2>2, <3>1, Zenon
  <2>. HIDE DEF x
  <2>8. tasks' \in Seq(TaskRecs) /\ Len(tasks') = Len(tasks)
    BY <1>3, <2>6, <2>7, Replaced
  <2>9. ops' \in Seq(Ops) /\ \A i \in 1..Len(ops') : ops'[i].from \in 0..Len(tasks)
    BY <1>3, <1>4, <2>2, <2>3, AppendOp, Zenon
  <2>10. ASSUME NEW c \in 1..Len(tasks), NEW v \in Views, Leads(c, v, ops, tasks[c].told)
         PROVE  Leads(c, v, ops', tasks'[c].told)
    <3>1. Moves(n, tasks[n].told, d, x.told)
      BY <2>4, <2>6
    <3>2. Leads(c, v, Append(ops, d), [tasks EXCEPT ![n] = x][c].told)
      BY <1>3, <2>3, <2>6, <2>10, <3>1, OneReport, Zenon
    <3>. QED
      BY <2>2, <2>7, <3>2, Zenon
  <2>. QED
    BY <1>2, <1>6, <2>8, <2>9, <2>10 DEF OutsideStep
<1>8. CASE Len(s) # 1
  <2>. DEFINE w1 == R!Learned(t.told, s[1])
              w2 == R!Learned(w1, s[2])
  <2>1. Len(s) = 2 /\ s[1] \in Reports /\ s[2] \in Reports
    BY <1>8, ScriptReports
  <2>2. R!Allowed(t.told, s[1]) /\ R!Allowed(w1, s[2]) /\ R!Says(t.told, s) = w2
    BY <1>1, <2>1 DEF R!IsAllowed, R!Says
  <2>a. PICK d \in Decorated(s[1], n, t) : \E e \in Decorated(s[2], n, Remember(t, d)) :
          /\ ops' = ops \o <<d, e>>
          /\ tasks' = [tasks EXCEPT ![n] = [Remember(Remember(@, d), e) EXCEPT !.told = R!Says(t.told, s)]]
    BY <1>1, <1>8, Zenon DEF TaskReports2
  <2>3. PICK e \in Decorated(s[2], n, Remember(t, d)) :
          /\ ops' = ops \o <<d, e>>
          /\ tasks' = [tasks EXCEPT ![n] = [Remember(Remember(@, d), e) EXCEPT !.told = R!Says(t.told, s)]]
    BY <2>a, Zenon
  <2>. DEFINE t1 == Remember(t, d)
              t2 == Remember(t1, e)
  <2>b. s[1] \in Reports /\ s[2] \in Reports /\ n \in Nat /\ t \in TaskRecs
    BY <1>3, <1>4, <2>1
  <2>4. d \in Ops /\ d.op = s[1].op /\ d.from = n
    BY <2>b, DecoratedOps, ZenonT(60)
  <2>5. t1 \in TaskRecs /\ t1.told = t.told
    BY <1>3, <2>4, RememberType, Zenon
  <2>6. e \in Ops /\ e.op = s[2].op /\ e.from = n
    <3>. DEFINE r == s[2]
    <3>1. e \in Decorated(r, n, t1) /\ t1 \in TaskRecs /\ r \in Reports /\ n \in Nat
      BY <2>b, <2>5, Zenon
    <3>. HIDE DEF t1, r
    <3>2. e \in Ops /\ e.op = r.op /\ e.from = n
      BY <3>1, DecoratedOps
    <3>. QED
      BY <3>2, Zenon DEF r
  <2>7. t2 \in TaskRecs /\ t2.told = t.told
    BY <2>5, <2>6, RememberType, Zenon
  <2>8. Moves(n, t.told, d, w1) /\ w1 \in Views
    BY <1>5, <2>1, <2>2, <2>4, ReportMoves, Zenon
  <2>9. Moves(n, w1, e, w2) /\ w2 \in Views
    BY <2>1, <2>2, <2>6, <2>8, ReportMoves, Zenon
  <2>. HIDE DEF w1, w2, t1, t2
  <2>. DEFINE x == [t2 EXCEPT !.told = w2]
              y == [t1 EXCEPT !.told = w1]
  <2>10. x \in TaskRecs /\ x.told = w2 /\ y \in TaskRecs /\ y.told = w1
    BY <2>5, <2>7, <2>8, <2>9 DEF TaskRecs
  <2>11. tasks' = [tasks EXCEPT ![n] = x]
    <3>1. x = [Remember(Remember(t, d), e) EXCEPT !.told = R!Says(t.told, s)]
      BY <2>2, <2>7, Zenon DEF TaskRecs, t1, t2
    <3>. QED
      BY <1>3, <2>3, <3>1, Zenon
  <2>. DEFINE q == [tasks EXCEPT ![n] = y]
  <2>. HIDE DEF x, y
  <2>12. tasks' \in Seq(TaskRecs) /\ Len(tasks') = Len(tasks)
    BY <1>3, <2>10, <2>11, Replaced
  <2>13. q \in Seq(TaskRecs) /\ Len(q) = Len(tasks) /\ q[n] = y
    BY <1>3, <2>10, Replaced
  <2>14. [q EXCEPT ![n] = x] = tasks'
    BY <1>3, <2>10, <2>11, Zenon
  <2>. HIDE DEF q
  <2>15. ops' = Append(Append(ops, d), e)
    BY <1>3, <2>3, <2>4, <2>6, AppendTwo
  <2>16. Append(ops, d) \in Seq(Ops) /\ \A i \in 1..Len(Append(ops, d)) : Append(ops, d)[i].from \in 0..Len(tasks)
    BY <1>3, <1>4, <2>4, AppendOp, Zenon
  <2>17. ops' \in Seq(Ops) /\ \A i \in 1..Len(ops') : ops'[i].from \in 0..Len(tasks)
    BY <1>4, <2>6, <2>15, <2>16, AppendOp, Zenon
  <2>18. ASSUME NEW c \in 1..Len(tasks), NEW v \in Views, Leads(c, v, ops, tasks[c].told)
         PROVE  Leads(c, v, ops', tasks'[c].told)
    <3>1. Moves(n, tasks[n].told, d, y.told)
      BY <2>8, <2>10
    <3>2. Leads(c, v, Append(ops, d), q[c].told)
      BY <1>3, <2>4, <2>10, <2>18, <3>1, OneReport, Zenon DEF q
    <3>3. Moves(n, q[n].told, e, x.told)
      BY <2>9, <2>10, <2>13
    <3>4. Leads(c, v, Append(Append(ops, d), e), [q EXCEPT ![n] = x][c].told)
      BY <2>6, <2>10, <2>13, <2>16, <3>2, <3>3, OneReport, Zenon
    <3>. QED
      BY <2>14, <2>15, <3>4, Zenon
  <2>. QED
    BY <1>2, <1>6, <2>12, <2>17, <2>18 DEF OutsideStep
<1>. QED
  BY <1>7, <1>8

\* A timer's operation tells nothing of the session.
LEMMA TimerReport ==
  ASSUME Types, Quiet(info, info'), UNCHANGED <<loc, mon, past>>,
         tasks' \in Seq(TaskRecs), Len(tasks') = Len(tasks),
         \A c \in 1..Len(tasks) : tasks'[c].told = tasks[c].told,
         \/ ops' = ops
         \/ \E d \in Ops : /\ ops' = Append(ops, d) /\ d.from \in 0..Len(tasks)
                           /\ d.op \notin {"StateChanged", "HandshakeComplete", "ConnectionInfo", "Disconnected"}
  PROVE  OutsideStep
<1>1. /\ ops \in Seq(Ops) /\ \A i \in 1..Len(ops) : ops[i].from \in 0..Len(tasks)
      /\ tasks \in Seq(TaskRecs)
  BY DEF Types
<1>2. CASE ops' = ops
  BY <1>1, <1>2, Zenon DEF OutsideStep
<1>3. ASSUME NEW d \in Ops, ops' = Append(ops, d), d.from \in 0..Len(tasks),
             d.op \notin {"StateChanged", "HandshakeComplete", "ConnectionInfo", "Disconnected"}
      PROVE  OutsideStep
  <2>1. ops' \in Seq(Ops) /\ \A i \in 1..Len(ops') : ops'[i].from \in 0..Len(tasks)
    BY <1>1, <1>3, AppendOp
  <2>2. ASSUME NEW c \in 1..Len(tasks), NEW v \in Views, Leads(c, v, ops, tasks[c].told)
        PROVE  Leads(c, v, ops', tasks'[c].told)
    <3>1. tasks[c].told \in Views
      BY <1>1, TaskFields
    <3>2. Moves(c, tasks[c].told, d, tasks[c].told)
      BY <1>3, OtherMoves, Zenon
    <3>3. Leads(c, v, Append(ops, d), tasks[c].told)
      BY <1>1, <2>2, <3>1, <3>2, LeadsAppend, Zenon
    <3>. QED
      BY <1>3, <3>3
  <2>. QED
    BY <2>1, <2>2 DEF OutsideStep
<1>. QED
  BY <1>2, <1>3

LEMMA TaskEndsSteps ==
  ASSUME Types, NEW n \in 1..Len(tasks), TaskEnds(n)
  PROVE  OutsideStep
<1>1. tasks \in Seq(TaskRecs) /\ tasks[n] \in TaskRecs /\ info \in Infos
  BY DEF Types
<1>. DEFINE x == [tasks[n] EXCEPT !.alive = FALSE]
<1>2. x \in TaskRecs /\ x.told = tasks[n].told
  BY <1>1, Zenon DEF TaskRecs
<1>3. tasks' = [tasks EXCEPT ![n] = x] /\ UNCHANGED <<info, loc, ops, mon, past>>
  BY <1>1 DEF TaskEnds
<1>. HIDE DEF x
<1>4. tasks' \in Seq(TaskRecs) /\ Len(tasks') = Len(tasks) /\ \A c \in 1..Len(tasks) : tasks'[c].told = tasks[c].told
  BY <1>1, <1>2, <1>3, Replaced
<1>5. Quiet(info, info')
  BY <1>1, <1>3, QuietEdits
<1>. QED
  BY <1>3, <1>4, <1>5, TimerReport

LEMMA RestartTimerSteps ==
  ASSUME Types, NEW n \in 1..Len(tasks), RestartTimerFires(n)
  PROVE  OutsideStep
<1>1. tasks \in Seq(TaskRecs) /\ tasks[n] \in TaskRecs /\ info \in Infos
  BY DEF Types
<1>. DEFINE x == [tasks[n] EXCEPT !.timer = FALSE, !.llgr = {}]
            d == [op |-> "GracefulRestartTimerExpired", from |-> n, llgr |-> tasks[n].llgr]
<1>2. x \in TaskRecs /\ x.told = tasks[n].told
  BY <1>1, Zenon DEF TaskRecs
<1>3. tasks' = [tasks EXCEPT ![n] = x] /\ UNCHANGED <<info, loc, mon, past>> /\ ops' = Append(ops, d)
  BY <1>1, Zenon DEF RestartTimerFires
<1>4. d \in Ops /\ d.from \in 0..Len(tasks) /\ d.op = "GracefulRestartTimerExpired"
  <2>1. n \in Nat /\ tasks[n].llgr \in SUBSET Families
    BY <1>1, TaskFields
  <2>. QED
    BY <2>1 DEF Ops
<1>. HIDE DEF x, d
<1>5. tasks' \in Seq(TaskRecs) /\ Len(tasks') = Len(tasks) /\ \A c \in 1..Len(tasks) : tasks'[c].told = tasks[c].told
  BY <1>1, <1>2, <1>3, Replaced
<1>6. Quiet(info, info')
  BY <1>1, <1>3, QuietEdits
<1>7. \E e \in Ops : /\ ops' = Append(ops, e) /\ e.from \in 0..Len(tasks)
                     /\ e.op \notin {"StateChanged", "HandshakeComplete", "ConnectionInfo", "Disconnected"}
  BY <1>3, <1>4
<1>. QED
  BY <1>3, <1>5, <1>6, <1>7, TimerReport

LEMMA ServerTimerSteps ==
  ASSUME Types, NEW f \in Families, LlgrTimerFires(f) \/ RefreshTimerFires(f)
  PROVE  OutsideStep
<1>1. /\ tasks \in Seq(TaskRecs) /\ info \in Infos /\ tasks' = tasks /\ UNCHANGED <<loc, mon, past>>
      /\ info.task \in 0..Len(tasks)
  BY DEF Types, LlgrTimerFires, RefreshTimerFires, Present
<1>. DEFINE d(name) == [op |-> name, from |-> info.task, fam |-> f]
<1>2. \A name \in {"LlgrTimerExpired", "EnhancedRrStaleTimerExpired"} :
        d(name) \in Ops /\ d(name).from = info.task /\ d(name).op = name
  BY <1>1 DEF Ops, FamilyOps
<1>3. \E name \in {"LlgrTimerExpired", "EnhancedRrStaleTimerExpired"} : ops' = Append(ops, d(name))
  BY DEF LlgrTimerFires, RefreshTimerFires, Current
<1>4. Quiet(info, info')
  <2>1. CASE LlgrTimerFires(f)
    <3>. DEFINE x == [info.llgr EXCEPT ![f] = "fired"]
    <3>1. x \in [Families -> {"off", "running", "fired"}]
      BY <1>1, InfoFields, Zenon
    <3>2. info' = [info EXCEPT !.llgr = x]
      BY <1>1, <2>1 DEF LlgrTimerFires, Infos
    <3>. HIDE DEF x
    <3>. QED
      BY <1>1, <3>1, <3>2, QuietEdits, ZenonT(60)
  <2>2. CASE RefreshTimerFires(f)
    <3>1. info' = [info EXCEPT !.rr[f] = "off"]
      BY <2>2 DEF RefreshTimerFires
    <3>. QED
      BY <1>1, <3>1, RunRefreshTimerQuiet, Zenon
  <2>. QED
    BY <2>1, <2>2
<1>. HIDE DEF d
<1>5. \E e \in Ops : /\ ops' = Append(ops, e) /\ e.from \in 0..Len(tasks)
                     /\ e.op \notin {"StateChanged", "HandshakeComplete", "ConnectionInfo", "Disconnected"}
  BY <1>1, <1>2, <1>3, Zenon
<1>. QED
  BY <1>1, <1>4, <1>5, TimerReport

LEMMA VrpsChangeStep ==
  ASSUME Types, VrpsChange
  PROVE  OutsideStep
<1>1. tasks \in Seq(TaskRecs) /\ info \in Infos /\ setup \in Setups /\ Len(tasks) \in Nat
  BY DEF Types
<1>2. UNCHANGED <<info, loc, tasks, mon, past>>
  BY Zenon DEF VrpsChange
<1>3. PICK K \in SUBSET setup.vrps : \E D \in SUBSET K :
        ops' = Append(ops, [op |-> "VrpUpdate", from |-> 0, keys |-> K, reject |-> D])
  BY Zenon DEF VrpsChange
<1>4. PICK D \in SUBSET K : ops' = Append(ops, [op |-> "VrpUpdate", from |-> 0, keys |-> K, reject |-> D])
  BY <1>3, Zenon
<1>. DEFINE d == [op |-> "VrpUpdate", from |-> 0, keys |-> K, reject |-> D]
<1>5. d \in Ops /\ d.from \in 0..Len(tasks) /\ d.op = "VrpUpdate"
  <2>1. K \in SUBSET Keys /\ D \in SUBSET Keys
    BY <1>1, PeerServerAssumption
  <2>. QED
    BY <1>1, <2>1 DEF Ops
<1>6. Quiet(info, info')
  BY <1>1, <1>2, QuietEdits
<1>. HIDE DEF d
<1>7. \E e \in Ops : /\ ops' = Append(ops, e) /\ e.from \in 0..Len(tasks)
                     /\ e.op \notin {"StateChanged", "HandshakeComplete", "ConnectionInfo", "Disconnected"}
  BY <1>4, <1>5 DEF d
<1>. QED
  BY <1>1, <1>2, <1>6, <1>7, TimerReport

-----------------------------------------------------------------------------
(* The inductive invariant *)

LEMMA PastFields ==
  ASSUME Types
  PROVE  past.mixed \in BOOLEAN /\ past.limit \in BOOLEAN /\ past.partial \in BOOLEAN
BY Zenon DEF Types, Pasts

\* The server follows the task if its handler does what the operation says.
LEMMA FollowsNext ==
  ASSUME Types, ServerFollowsTask, ops # <<>>, ops' = Tail(ops), info'.task = info.task, tasks' = tasks,
         past'.limit = past.limit, past'.mixed = (past.mixed \/ (Present /\ Head(ops).from # Current)),
         ASSUME NEW u \in Views, Regular, Head(ops).from = Current, Moves(Current, View(info), Head(ops), u),
                info.bmp <=> IsUp(info) /\ info.conn
         PROVE  u = View(info') /\ (info'.bmp <=> IsUp(info') /\ info'.conn)
  PROVE  ServerFollowsTask'
<1>. SUFFICES ASSUME Regular'
              PROVE  /\ info'.bmp <=> IsUp(info') /\ info'.conn
                     /\ Leads(Current', View(info'), ops', tasks'[Current'].told)
  BY DEF ServerFollowsTask, IsUp, View, Current
<1>1. Regular /\ Head(ops).from = Current /\ Current' = Current
  BY Zenon DEF Regular, Present, Current
<1>2. (info.bmp <=> IsUp(info) /\ info.conn) /\ Leads(Current, View(info), ops, tasks[Current].told)
  BY <1>1, Zenon DEF ServerFollowsTask
<1>3. ops \in Seq(Ops)
  BY Zenon DEF Types
<1>. DEFINE n == Current
            v == View(info)
            w == tasks[Current].told
<1>4. \E u \in Views : Moves(n, v, Head(ops), u) /\ Leads(n, u, Tail(ops), w)
  <2>1. Leads(n, v, ops, w)
    BY <1>2, Zenon
  <2>. HIDE DEF n, v, w
  <2>. QED
    BY <1>3, <2>1, LeadsTail, Zenon
<1>5. PICK u \in Views : Moves(n, v, Head(ops), u) /\ Leads(n, u, Tail(ops), w)
  BY <1>4, Zenon
<1>6. u = View(info') /\ (info'.bmp <=> IsUp(info') /\ info'.conn)
  BY <1>1, <1>2, <1>5
<1>. QED
  BY <1>1, <1>5, <1>6, Zenon

LEMMA FreshKept ==
  ASSUME Types, FreshIsLive, SameRoutes(info, info'), NoNewFresh(loc, loc'),
         IsUp(info) /\ Present => IsUp(info'),
         past.mixed => past'.mixed, past.partial => past'.partial
  PROVE  FreshIsLive'
<1>1. Present' <=> Present
  BY Zenon DEF SameRoutes, Present
<1>2. FreshHasSession'
  BY <1>1 DEF FreshIsLive, FreshHasSession, NoNewFresh, IsUp
<1>3. FreshIsInAdjIn'
  BY <1>1 DEF FreshIsLive, FreshIsInAdjIn, NoNewFresh, SameRoutes
<1>. QED
  BY <1>2, <1>3 DEF FreshIsLive

LEMMA SameView ==
  ASSUME NEW i, NEW j, SameSession(i, j)
  PROVE  View(j) = View(i) /\ (IsUp(j) <=> IsUp(i)) /\ j.bmp = i.bmp /\ j.conn = i.conn /\ j.task = i.task
BY DEF SameSession, View, IsUp

LEMMA OutsideInv ==
  ASSUME Inv, setup' = setup, OutsideStep
  PROVE  Inv'
<1>1. /\ UNCHANGED <<loc, mon, past>> /\ info' \in Infos /\ SameSession(info, info') /\ SameRoutes(info, info')
      /\ Types
  BY DEF OutsideStep, Quiet, Inv
<1>2. /\ View(info') = View(info) /\ (IsUp(info') <=> IsUp(info))
      /\ info'.bmp = info.bmp /\ info'.conn = info.conn /\ info'.task = info.task
  BY <1>1, SameView, Zenon
<1>3. Types'
  <2>1. Infos' = Infos /\ Ops' = Ops /\ TaskRecs' = TaskRecs
    BY SameSets
  <2>. QED
    BY <1>1, <1>2, <2>1, Zenon DEF Types, OutsideStep
<1>4. FreshIsLive'
  <2>1. NoNewFresh(loc, loc')
    BY <1>1 DEF NoNewFresh
  <2>. QED
    BY <1>1, <1>2, <2>1, FreshKept DEF Inv
<1>5. CollectorHasBmp'
  BY <1>1, <1>2, Zenon DEF Inv, CollectorHasBmp, Present
<1>6. ServerFollowsTask'
  <2>. SUFFICES ASSUME Regular'
                PROVE  /\ info'.bmp <=> IsUp(info') /\ info'.conn
                       /\ Leads(info'.task, View(info'), ops', tasks'[info'.task].told)
    BY DEF ServerFollowsTask, IsUp, View, Current
  <2>1. Regular
    BY <1>1, <1>2, Zenon DEF Regular, Present
  <2>2. (info.bmp <=> IsUp(info) /\ info.conn) /\ Leads(info.task, View(info), ops, tasks[info.task].told)
    BY <2>1 DEF Inv, ServerFollowsTask, Current
  <2>3. info.task \in 1..Len(tasks)
    BY <1>1, <2>1 DEF Types, Regular, Present
  <2>4. View(info) \in Views
    BY <1>1, InfoFields DEF Types, View, Views
  <2>5. Leads(info.task, View(info), ops', tasks'[info.task].told)
    BY <2>2, <2>3, <2>4, Zenon DEF OutsideStep
  <2>. QED
    BY <1>2, <2>2, <2>5, Zenon
<1>. QED
  BY <1>3, <1>4, <1>5, <1>6, Zenon DEF Inv

LEMMA QuietInv ==
  ASSUME Inv, setup' = setup, QuietStep
  PROVE  Inv'
<1>1. /\ Types /\ ops # <<>> /\ Taken /\ UNCHANGED <<tasks, mon>> /\ info' \in Infos
      /\ SameSession(info, info') /\ SameRoutes(info, info') /\ loc' \in [Keys -> Ages] /\ NoNewFresh(loc, loc')
  BY DEF QuietStep, Quiet, Inv
<1>2. /\ View(info') = View(info) /\ (IsUp(info') <=> IsUp(info))
      /\ info'.bmp = info.bmp /\ info'.conn = info.conn /\ info'.task = info.task
  BY <1>1, SameView
<1>3. /\ ops' = Tail(ops) /\ past' \in Pasts /\ past'.limit = past.limit /\ past'.partial = past.partial
      /\ past'.mixed = (past.mixed \/ (Present /\ Head(ops).from # Current))
  BY <1>1, TakenTypes
<1>4. Types'
  <2>1. tasks \in Seq(TaskRecs) /\ mon \in Mons
    BY <1>1, Zenon DEF Types, Mons
  <2>2. HandlesTypes
    BY <1>1, <1>2, <1>3, <2>1 DEF HandlesTypes
  <2>. QED
    BY <1>1, <2>2, HandledTypes, Zenon
<1>5. FreshIsLive'
  BY <1>1, <1>2, <1>3, FreshKept, Zenon DEF Inv
<1>6. CollectorHasBmp'
  BY <1>1, <1>2, <1>3 DEF Inv, CollectorHasBmp, Present
<1>7. ServerFollowsTask'
  <2>1. ASSUME NEW u \in Views, Regular, Head(ops).from = Current, Moves(Current, View(info), Head(ops), u),
               info.bmp <=> IsUp(info) /\ info.conn
        PROVE  u = View(info') /\ (info'.bmp <=> IsUp(info') /\ info'.conn)
    <3>1. u = View(info)
      BY <2>1 DEF Moves, QuietStep
    <3>. QED
      BY <1>2, <2>1, <3>1
  <2>. QED
    BY <1>1, <1>2, <1>3, <2>1, FollowsNext, Zenon DEF Inv
<1>. QED
  BY <1>4, <1>5, <1>6, <1>7 DEF Inv

\* The handlers of a session's begin have this in common.
BeginStep ==
  /\ ops # <<>> /\ Taken /\ tasks' = tasks
  /\ info' \in Infos /\ SameRoutes(info, info') /\ (IsUp(info) => IsUp(info'))
  /\ loc' \in [Keys -> Ages] /\ NoNewFresh(loc, loc') /\ mon' \in Mons

LEMMA BeginInv ==
  ASSUME Inv, setup' = setup, BeginStep, CollectorHasBmp',
         ASSUME NEW u \in Views, Regular, Head(ops).from = Current, Moves(Current, View(info), Head(ops), u),
                info.bmp <=> IsUp(info) /\ info.conn
         PROVE  u = View(info') /\ (info'.bmp <=> IsUp(info') /\ info'.conn)
  PROVE  Inv'
<1>1. /\ Types /\ ops # <<>> /\ Taken /\ tasks' = tasks /\ info' \in Infos /\ SameRoutes(info, info')
      /\ info'.task = info.task /\ loc' \in [Keys -> Ages] /\ NoNewFresh(loc, loc')
  BY Zenon DEF BeginStep, Inv, SameRoutes
<1>2. /\ ops' = Tail(ops) /\ past' \in Pasts /\ past'.limit = past.limit /\ past'.partial = past.partial
      /\ past'.mixed = (past.mixed \/ (Present /\ Head(ops).from # Current))
  BY <1>1, TakenTypes
<1>3. Types'
  <2>1. tasks \in Seq(TaskRecs)
    BY <1>1, Zenon DEF Types
  <2>2. HandlesTypes
    BY <1>1, <1>2, <2>1 DEF HandlesTypes, BeginStep
  <2>. QED
    BY <1>1, <2>2, HandledTypes, Zenon
<1>4. FreshIsLive'
  BY <1>1, <1>2, FreshKept, Zenon DEF Inv, BeginStep
<1>5. ServerFollowsTask'
  BY <1>1, <1>2, FollowsNext, Zenon DEF Inv
<1>. QED
  BY <1>3, <1>4, <1>5, Zenon DEF Inv

LEMMA StateChangedInv ==
  ASSUME Inv, setup' = setup, HandlePeerStateChanged
  PROVE  Inv'
<1>. Types
  BY DEF Inv
<1>0. info \in Infos /\ mon \in Mons
  BY DEF Types, Mons
<1>1. BeginStep
  <2>1. mon' \in Mons
    BY <1>0, StateChangedStep DEF Mons, PeerUp
  <2>2. IsUp(info) => IsUp(info')
    BY StateChangedStep DEF IsUp
  <2>. QED
    BY <2>1, <2>2, StateChangedStep DEF BeginStep
<1>2. past'.limit = past.limit /\ info'.task = info.task
  BY <1>1, TakenTypes DEF BeginStep, SameRoutes
<1>3. CollectorHasBmp'
  <2>. SUFFICES ASSUME ~past.limit
                PROVE  mon' = IF Present /\ info'.bmp THEN "up" ELSE "down"
    BY <1>2 DEF CollectorHasBmp, Present
  <2>1. mon = IF Present /\ info.bmp THEN "up" ELSE "down"
    BY DEF Inv, CollectorHasBmp
  <2>2. CASE ~Present
    BY <2>1, <2>2, StateChangedStep
  <2>3. CASE Present /\ ~info.conn
    BY <2>1, <2>3, StateChangedStep
  <2>4. CASE Present /\ info.conn
    <3>1. /\ info'.bmp = (info.bmp \/ info.asn)
          /\ mon' = IF ~info.bmp /\ info.asn THEN PeerUp(mon) ELSE mon
      BY <2>4, StateChangedStep
    <3>2. CASE info.bmp
      BY <2>1, <2>4, <3>1, <3>2, Zenon
    <3>3. CASE ~info.bmp /\ info.asn
      BY <2>1, <2>4, <3>1, <3>3, Zenon DEF PeerUp
    <3>4. CASE ~info.bmp /\ ~info.asn
      BY <2>1, <2>4, <3>1, <3>4, Zenon
    <3>. QED
      BY <3>2, <3>3, <3>4, Zenon
  <2>. QED
    BY <2>2, <2>3, <2>4
<1>4. ASSUME NEW u \in Views, Regular, Head(ops).from = Current, Moves(Current, View(info), Head(ops), u),
             info.bmp <=> IsUp(info) /\ info.conn
      PROVE  u = View(info') /\ (info'.bmp <=> IsUp(info') /\ info'.conn)
  <2>1. Present /\ Head(ops).op = "StateChanged"
    BY <1>4, StateChangedStep DEF Regular
  <2>2. View(info).asn /\ u = [View(info) EXCEPT !.state = "Established"]
    BY <1>4, <2>1 DEF Moves
  <2>3. info.asn
    BY <2>2 DEF View
  <2>4. info'.state = "Established" /\ info'.asn = info.asn /\ info'.conn = info.conn
    BY <2>1, StateChangedStep
  <2>5. u = View(info')
    BY <2>2, <2>4 DEF View
  <2>6. CASE info.conn
    BY <2>1, <2>3, <2>4, <2>5, <2>6, StateChangedStep, Zenon DEF IsUp
  <2>7. CASE ~info.conn
    <3>1. info'.bmp = info.bmp /\ ~info.bmp
      BY <1>4, <2>1, <2>7, StateChangedStep, Zenon
    <3>. QED
      BY <2>4, <2>5, <2>7, <3>1, Zenon
  <2>. QED
    BY <2>6, <2>7
<1>. QED
  BY <1>1, <1>3, <1>4, BeginInv, Zenon

LEMMA HandshakeInv ==
  ASSUME Inv, setup' = setup, HandlePeerHandshakeComplete
  PROVE  Inv'
<1>. Types
  BY DEF Inv
<1>0. info \in Infos /\ mon \in Mons /\ loc \in [Keys -> Ages] /\ NoNewFresh(loc, loc)
  BY DEF Types, Mons, NoNewFresh
<1>1. BeginStep
  BY <1>0, HandshakeStep, Zenon DEF BeginStep, IsUp
<1>2. past'.limit = past.limit /\ info'.task = info.task
  BY <1>1, TakenTypes DEF BeginStep, SameRoutes
<1>3. CollectorHasBmp'
  BY <1>2, HandshakeStep DEF Inv, CollectorHasBmp, Present
<1>4. ASSUME NEW u \in Views, Regular, Head(ops).from = Current, Moves(Current, View(info), Head(ops), u),
             info.bmp <=> IsUp(info) /\ info.conn
      PROVE  u = View(info') /\ (info'.bmp <=> IsUp(info') /\ info'.conn)
  <2>1. Present /\ Head(ops).op = "HandshakeComplete"
    BY <1>4, HandshakeStep DEF Regular
  <2>2. u = [View(info) EXCEPT !.asn = TRUE]
    BY <1>4, <2>1 DEF Moves
  <2>3. info'.state = info.state /\ info'.asn = TRUE /\ info'.conn = info.conn /\ info'.bmp = info.bmp
    BY <2>1, HandshakeStep, Zenon
  <2>4. u = View(info')
    BY <2>2, <2>3, Zenon DEF View
  <2>. QED
    BY <1>4, <2>3, <2>4 DEF IsUp
<1>. QED
  BY <1>1, <1>3, <1>4, BeginInv, Zenon

LEMMA ConnectionInfoInv ==
  ASSUME Inv, setup' = setup, HandlePeerConnectionInfo
  PROVE  Inv'
<1>. Types
  BY DEF Inv
<1>0. info \in Infos /\ mon \in Mons /\ loc \in [Keys -> Ages] /\ NoNewFresh(loc, loc)
  BY DEF Types, Mons, NoNewFresh
<1>1. BeginStep
  BY <1>0, ConnectionInfoStep, Zenon DEF BeginStep, IsUp
<1>2. past'.limit = past.limit /\ info'.task = info.task
  BY <1>1, TakenTypes DEF BeginStep, SameRoutes
<1>3. CollectorHasBmp'
  BY <1>2, ConnectionInfoStep DEF Inv, CollectorHasBmp, Present
<1>4. ASSUME NEW u \in Views, Regular, Head(ops).from = Current, Moves(Current, View(info), Head(ops), u),
             info.bmp <=> IsUp(info) /\ info.conn
      PROVE  u = View(info') /\ (info'.bmp <=> IsUp(info') /\ info'.conn)
  <2>1. Present /\ Head(ops).op = "ConnectionInfo"
    BY <1>4, ConnectionInfoStep DEF Regular
  <2>2. View(info).state # "Established" /\ u = [View(info) EXCEPT !.info = TRUE]
    BY <1>4, <2>1 DEF Moves
  <2>3. info'.state = info.state /\ info'.asn = info.asn /\ info'.conn = TRUE /\ info'.bmp = info.bmp
    BY <2>1, ConnectionInfoStep, Zenon
  <2>4. u = View(info')
    BY <2>2, <2>3, Zenon DEF View
  <2>5. ~IsUp(info) /\ ~IsUp(info')
    BY <2>2, <2>3, Zenon DEF View, IsUp
  <2>. QED
    BY <1>4, <2>3, <2>4, <2>5
<1>. QED
  BY <1>1, <1>3, <1>4, BeginInv, Zenon

LEMMA DisconnectedInv ==
  ASSUME Inv, setup' = setup, HandlePeerDisconnected
  PROVE  Inv'
<1>. DEFINE g == Head(ops).gr
<1>0. Types /\ FreshHasSession /\ FreshIsInAdjIn
  BY Zenon DEF Inv, FreshIsLive
<1>1. /\ info \in Infos /\ mon \in Mons /\ loc \in [Keys -> Ages] /\ tasks \in Seq(TaskRecs)
      /\ past.mixed \in BOOLEAN /\ past.partial \in BOOLEAN
  BY <1>0, PastFields DEF Types, Mons
<1>2. Types'
  <2>1. mon' \in Mons
    BY <1>0, <1>1, DisconnectedStep, Zenon DEF Mons, PeerDown
  <2>2. HandlesTypes
    BY <1>0, <1>1, <2>1, DisconnectedStep DEF HandlesTypes
  <2>. QED
    BY <1>0, <2>2, HandledTypes, Zenon
<1>3. CollectorHasBmp'
  <2>. SUFFICES ASSUME ~past.limit
                PROVE  mon' = IF Present /\ info'.bmp THEN "up" ELSE "down"
    BY <1>0, DisconnectedStep DEF CollectorHasBmp, Present
  <2>1. mon = IF Present /\ info.bmp THEN "up" ELSE "down"
    BY DEF Inv, CollectorHasBmp
  <2>2. mon' = (IF Present /\ info.bmp THEN PeerDown(mon) ELSE mon) /\ (Present => info'.bmp = FALSE)
    BY <1>0, DisconnectedStep, Zenon
  <2>. QED
    BY <2>1, <2>2, Zenon DEF PeerDown
<1>4. ServerFollowsTask'
  <2>1. ASSUME NEW u \in Views, Regular, Head(ops).from = Current, Moves(Current, View(info), Head(ops), u),
               info.bmp <=> IsUp(info) /\ info.conn
        PROVE  u = View(info') /\ (info'.bmp <=> IsUp(info') /\ info'.conn)
    <3>1. Present /\ Head(ops).op = "Disconnected"
      BY <1>0, <2>1, DisconnectedStep DEF Regular
    <3>2. u = R!Unknown
      BY <2>1, <3>1 DEF Moves
    <3>3. info'.state = "Idle" /\ info'.asn = FALSE /\ info'.conn = FALSE /\ info'.bmp = FALSE
      BY <1>0, <3>1, DisconnectedStep, Zenon
    <3>. QED
      BY <3>2, <3>3, Zenon DEF View, IsUp, R!Unknown
  <2>. QED
    BY <1>0, <2>1, DisconnectedStep, FollowsNext, Zenon DEF Inv
<1>5. FreshHasSession'
  <2>. SUFFICES ASSUME NEW k \in Keys
                PROVE  /\ ~Present' => loc'[k] = "none"
                       /\ Present' /\ loc'[k] = "fresh" => IsUp(info') \/ past'.partial \/ past'.mixed
    BY DEF FreshHasSession, IsUp
  <2>1. (Present' <=> Present) /\ (past.partial => past'.partial) /\ (past.mixed => past'.mixed)
    BY <1>0, DisconnectedStep, Zenon DEF Present
  <2>2. /\ ~Present => loc[k] = "none"
        /\ Present /\ loc[k] = "fresh" => IsUp(info) \/ past.partial \/ past.mixed
    BY <1>0, Zenon DEF FreshHasSession
  <2>3. CASE ~Present
    BY <1>0, <2>1, <2>2, <2>3, DisconnectedStep, Zenon
  <2>4. CASE Present /\ g # {}
    <3>1. loc' = MarkStale(loc, g) /\ (~past'.partial /\ loc[k] = "fresh" => FamilyOf[k] \in g)
      BY <1>0, <2>4, DisconnectedStep, Zenon
    <3>2. loc'[k] = "fresh" => loc[k] = "fresh" /\ FamilyOf[k] \notin g
      BY <1>1, <3>1, NoneFresh
    <3>. QED
      BY <2>1, <2>4, <3>1, <3>2, Zenon
  <2>5. CASE Present /\ g = {}
    <3>1. loc' = IF IsUp(info) THEN Drop(loc, Keys) ELSE loc
      BY <1>0, <2>5, DisconnectedStep, Zenon
    <3>2. Drop(loc, Keys)[k] = "none"
      BY <1>1, LocTypes
    <3>. QED
      BY <2>1, <2>2, <2>5, <3>1, <3>2, Zenon
  <2>. QED
    BY <2>3, <2>4, <2>5
<1>6. FreshIsInAdjIn'
  <2>. SUFFICES ASSUME Present', ~past'.mixed, ~past'.partial, info'.disabled = {}, AllowAutoStop,
                       NEW k \in Keys, loc'[k] = "fresh"
                PROVE  k \in info'.adjIn
    BY DEF FreshIsInAdjIn
  <2>1. Present /\ ~past.mixed /\ ~past.partial
    BY <1>0, DisconnectedStep, Zenon DEF Present
  <2>2. CASE g # {}
    <3>1. loc' = MarkStale(loc, g) /\ info'.adjIn = info.adjIn /\ info'.disabled = info.disabled
      BY <1>0, <2>1, <2>2, DisconnectedStep, Zenon
    <3>2. loc[k] = "fresh"
      BY <1>1, <3>1, NoneFresh
    <3>. QED
      BY <1>0, <2>1, <3>1, <3>2, Zenon DEF FreshIsInAdjIn
  <2>3. CASE g = {}
    <3>1. loc' = IF IsUp(info) THEN Drop(loc, Keys) ELSE loc
      BY <1>0, <2>1, <2>3, DisconnectedStep, Zenon
    <3>2. Drop(loc, Keys)[k] = "none"
      BY <1>1, LocTypes
    <3>3. loc[k] = "fresh" => IsUp(info)
      BY <1>0, <2>1 DEF FreshHasSession
    <3>. QED
      BY <3>1, <3>2, <3>3, Zenon
  <2>. QED
    BY <2>2, <2>3
<1>. QED
  BY <1>2, <1>3, <1>4, <1>5, <1>6, Zenon DEF Inv, FreshIsLive

LEMMA UpdateInv ==
  ASSUME Inv, setup' = setup, HandlePeerUpdate
  PROVE  Inv'
<1>0. Types /\ FreshHasSession /\ FreshIsInAdjIn /\ ops # <<>> /\ Head(ops).op = "Update"
  BY UpdateSteps DEF Inv, FreshIsLive
<1>1. info \in Infos /\ mon \in Mons /\ loc \in [Keys -> Ages] /\ tasks \in Seq(TaskRecs)
  BY <1>0 DEF Types, Mons
<1>2. CASE Ignored
  <2>1. Quiet(info, info') /\ NoNewFresh(loc, loc') /\ loc' \in [Keys -> Ages] /\ UNCHANGED <<tasks, mon>> /\ Taken
    BY <1>1, <1>2, QuietEdits DEF Ignored, NoNewFresh
  <2>2. QuietStep
    BY <1>0, <2>1 DEF QuietStep
  <2>. QED
    BY <2>2, QuietInv
<1>3. CASE LimitStep
  <2>1. Types' /\ (Present' <=> Present) /\ Present /\ past'.limit /\ \A k \in Keys : loc'[k] = "none"
    BY <1>0, <1>3, HandledTypes, Zenon DEF LimitStep, HandlesTypes, Present
  <2>2. FreshIsLive'
    BY <2>1 DEF FreshIsLive, FreshHasSession, FreshIsInAdjIn
  <2>3. CollectorHasBmp' /\ ServerFollowsTask'
    BY <2>1, Zenon DEF CollectorHasBmp, ServerFollowsTask, Regular
  <2>. QED
    BY <2>1, <2>2, <2>3, Zenon DEF Inv
<1>4. CASE AcceptStep
  <2>1. /\ Present /\ IsUp(info) /\ Taken /\ UNCHANGED <<tasks, mon>> /\ info' \in Infos
        /\ SameSession(info, info') /\ loc' \in [Keys -> Ages]
    BY <1>4 DEF AcceptStep
  <2>2. /\ View(info') = View(info) /\ (IsUp(info') <=> IsUp(info))
        /\ info'.bmp = info.bmp /\ info'.conn = info.conn /\ info'.task = info.task
    BY <2>1, SameView, Zenon
  <2>3. /\ ops' = Tail(ops) /\ past' \in Pasts /\ past'.limit = past.limit /\ past'.partial = past.partial
        /\ past'.mixed = (past.mixed \/ (Present /\ Head(ops).from # Current))
    BY <1>0, <2>1, TakenTypes
  <2>4. Types'
    <3>1. HandlesTypes
      BY <1>0, <1>1, <2>1, <2>2, <2>3, Zenon DEF HandlesTypes
    <3>. QED
      BY <1>0, <3>1, HandledTypes, Zenon
  <2>5. CollectorHasBmp'
    BY <2>1, <2>2, <2>3 DEF Inv, CollectorHasBmp, Present
  <2>6. ServerFollowsTask'
    <3>1. ASSUME NEW u \in Views, Regular, Head(ops).from = Current, Moves(Current, View(info), Head(ops), u),
                 info.bmp <=> IsUp(info) /\ info.conn
          PROVE  u = View(info') /\ (info'.bmp <=> IsUp(info') /\ info'.conn)
      <4>1. u = View(info)
        BY <1>0, <3>1 DEF Moves
      <4>. QED
        BY <2>2, <3>1, <4>1
    <3>. QED
      BY <1>0, <2>1, <2>2, <2>3, <3>1, FollowsNext, Zenon DEF Inv
  <2>7. FreshHasSession'
    BY <2>1, <2>2 DEF FreshHasSession, Present, IsUp
  <2>8. FreshIsInAdjIn'
    <3>. SUFFICES ASSUME Present', ~past'.mixed, ~past'.partial, info'.disabled = {}, AllowAutoStop,
                         NEW k \in Keys, loc'[k] = "fresh"
                  PROVE  k \in info'.adjIn
      BY DEF FreshIsInAdjIn
    <3>1. ~past.mixed /\ ~past.partial
      BY <2>3, Zenon
    <3>2. /\ info.disabled = {}
          /\ (loc[k] = "fresh" => k \in info.adjIn) => k \in info'.adjIn
      BY <1>4, Zenon DEF AcceptStep
    <3>3. loc[k] = "fresh" => k \in info.adjIn
      BY <1>0, <2>1, <3>1, <3>2 DEF FreshIsInAdjIn
    <3>. QED
      BY <3>2, <3>3
  <2>. QED
    BY <2>4, <2>5, <2>6, <2>7, <2>8 DEF Inv, FreshIsLive
<1>. QED
  BY <1>0, <1>2, <1>3, <1>4, UpdateSteps

\* What a VRP update makes fresh is in the Adj-RIB-In of a session that is up.
LEMMA VrpUpdateInv ==
  ASSUME Inv, setup' = setup, HandleVrpUpdate
  PROVE  Inv'
<1>0. Types
  BY Zenon DEF Inv
<1>1. /\ ops # <<>> /\ Head(ops).op = "VrpUpdate" /\ ops' = Tail(ops)
      /\ UNCHANGED <<info, tasks, mon, past>>
  BY Zenon DEF HandleVrpUpdate, Handling
<1>2. /\ info \in Infos /\ tasks \in Seq(TaskRecs) /\ loc \in [Keys -> Ages] /\ mon \in Mons /\ past \in Pasts
      /\ ops \in Seq(Ops)
  BY <1>0, Zenon DEF Types, Mons
<1>3. Head(ops) \in Ops /\ Head(ops).from = 0
  BY <1>0, <1>1, HeadOfQueue, OpFields, Zenon
<1>4. PICK acc, rej : /\ loc' = Reimport(loc, acc, rej)
                      /\ \A k \in acc : Present /\ k \in info.adjIn
  <2>. DEFINE A == {k \in Head(ops).keys : Present /\ k \in info.adjIn}
  <2>1. loc' = Reimport(loc, A \ Head(ops).reject, A \cap Head(ops).reject)
    BY Zenon DEF HandleVrpUpdate
  <2>2. \A k \in A \ Head(ops).reject : Present /\ k \in info.adjIn
    OBVIOUS
  <2>. HIDE DEF A
  <2>. QED
    BY <2>1, <2>2, Zenon
<1>5. loc' \in [Keys -> Ages]
  BY <1>2, <1>4, Zenon DEF Reimport, Ages
<1>6. ASSUME NEW k \in Keys
      PROVE  /\ loc'[k] = "fresh" => loc[k] = "fresh" \/ (Present /\ IsUp(info) /\ k \in info.adjIn)
             /\ loc[k] = "none" /\ ~Present => loc'[k] = "none"
  <2>1. loc'[k] = IF k \in acc THEN IF IsUp(info) /\ loc[k] \in {"none", "fresh"} THEN "fresh" ELSE "revived"
                  ELSE IF k \in rej THEN "none" ELSE loc[k]
    BY <1>4, Zenon DEF Reimport
  <2>. QED
    BY <1>4, <2>1
<1>7. Types'
  <2>1. HandlesTypes
    BY <1>1, <1>2, <1>5, Zenon DEF HandlesTypes
  <2>. QED
    BY <1>0, <2>1, HandledTypes, Zenon
<1>8. (Present' <=> Present) /\ (IsUp(info') <=> IsUp(info)) /\ View(info') = View(info) /\ Current' = Current
  BY <1>1, Zenon DEF Present, IsUp, View, Current
<1>9. FreshIsLive'
  <2>1. FreshHasSession'
    BY <1>1, <1>6, <1>8, Zenon DEF Inv, FreshIsLive, FreshHasSession
  <2>2. FreshIsInAdjIn'
    BY <1>1, <1>6, <1>8, Zenon DEF Inv, FreshIsLive, FreshIsInAdjIn
  <2>. QED
    BY <2>1, <2>2, Zenon DEF FreshIsLive
<1>10. CollectorHasBmp'
  BY <1>1, <1>8, Zenon DEF Inv, CollectorHasBmp
<1>11. ServerFollowsTask'
  <2>. DEFINE n == Current
              v == View(info)
              w == tasks[Current].told
  <2>. SUFFICES ASSUME Regular'
                PROVE  /\ info.bmp <=> IsUp(info) /\ info.conn
                       /\ Leads(n, v, Tail(ops), w)
    BY <1>1, <1>8, Zenon DEF ServerFollowsTask
  <2>1. Regular
    BY <1>1, <1>8, Zenon DEF Regular
  <2>2. (info.bmp <=> IsUp(info) /\ info.conn) /\ Leads(n, v, ops, w)
    BY <2>1, Zenon DEF Inv, ServerFollowsTask
  <2>3. Head(ops).from # n
    BY <1>3, <2>1, Zenon DEF Regular, Present, Current
  <2>. HIDE DEF n, v, w
  <2>4. PICK u \in Views : Moves(n, v, Head(ops), u) /\ Leads(n, u, Tail(ops), w)
    BY <1>1, <1>2, <2>2, LeadsTail, Zenon
  <2>5. u = v
    BY <2>3, <2>4, Zenon DEF Moves
  <2>. QED
    BY <2>2, <2>4, <2>5, Zenon
<1>. QED
  BY <1>7, <1>9, <1>10, <1>11, Zenon DEF Inv

LEMMA NewTypes ==
  /\ NewTask \in TaskRecs /\ NewTask.told = R!Unknown
  /\ \A n \in Nat : /\ NewInfo(n) \in Infos /\ NewInfo(n).task = n /\ View(NewInfo(n)) = R!Unknown
                    /\ NewInfo(n).bmp = FALSE /\ NewInfo(n).conn = FALSE
<1>1. NoCaps \in Caps /\ Unset \in [Families -> {"off", "running", "fired"}] /\ Unset \in [Families -> {"off", "running"}]
      /\ {} \in SUBSET Keys /\ {} \in SUBSET Families /\ "Up" \in Admins
  BY DEF Caps, Unset, Admins
<1>2. R!Unknown \in Views
  BY Zenon DEF R!Unknown, Views
<1>3. NewTask \in TaskRecs /\ NewTask.told = R!Unknown
  BY <1>1, <1>2 DEF NewTask, TaskRecs
<1>4. ASSUME NEW n \in Nat
      PROVE  /\ NewInfo(n) \in Infos /\ NewInfo(n).task = n /\ View(NewInfo(n)) = R!Unknown
             /\ NewInfo(n).bmp = FALSE /\ NewInfo(n).conn = FALSE
  <2>1. NewInfo(n) \in Infos
    BY <1>1, Zenon DEF NewInfo, Infos
  <2>2. /\ NewInfo(n).task = n /\ View(NewInfo(n)) = R!Unknown
        /\ NewInfo(n).bmp = FALSE /\ NewInfo(n).conn = FALSE
    BY DEF NewInfo, View, R!Unknown
  <2>. QED
    BY <2>1, <2>2
<1>. QED
  BY <1>3, <1>4, Zenon

\* The operations that wait when a peer is added are all of earlier tasks.
LEMMA AddPeerInv ==
  ASSUME Inv, setup' = setup, AddPeer
  PROVE  Inv'
<1>. DEFINE n == Len(tasks) + 1
<1>0. Types /\ FreshHasSession /\ ~Present
  BY DEF Inv, FreshIsLive, AddPeer
<1>1. /\ info' = NewInfo(n) /\ tasks' = Append(tasks, NewTask) /\ UNCHANGED <<loc, ops, mon>>
      /\ past' = [past EXCEPT !.mixed = FALSE, !.partial = FALSE] /\ Len(tasks) < setup.tasks
  BY DEF AddPeer, SpawnPeer
<1>2. /\ tasks \in Seq(TaskRecs) /\ Len(tasks) \in Nat /\ ops \in Seq(Ops) /\ loc \in [Keys -> Ages] /\ past \in Pasts
      /\ \A i \in 1..Len(ops) : ops[i].from \in 0..Len(tasks)
  BY <1>0 DEF Types
<1>3. /\ info' \in Infos /\ info'.task = n /\ View(info') = R!Unknown /\ info'.bmp = FALSE /\ info'.conn = FALSE
      /\ NewTask \in TaskRecs /\ NewTask.told = R!Unknown
  BY <1>1, <1>2, NewTypes
<1>4. past' \in Pasts /\ past'.limit = past.limit
  BY <1>1, <1>2, Zenon DEF Pasts
<1>5. tasks' \in Seq(TaskRecs) /\ Len(tasks') = n /\ tasks'[n] = NewTask /\ n \in Nat /\ n # 0 /\ Len(tasks) < n
  BY <1>1, <1>2, <1>3
<1>6. \A i \in 1..Len(ops) : ops[i].from \in 0..n /\ ops[i].from # n
  BY <1>2
<1>. HIDE DEF n
<1>7. Types'
  <2>1. Infos' = Infos /\ Ops' = Ops /\ TaskRecs' = TaskRecs
    BY SameSets
  <2>2. n \in 1..setup.tasks /\ n \in 0..n
    BY <1>0, <1>1, <1>2, <1>5, PeerServerAssumption DEF Types, n
  <2>. QED
    BY <1>0, <1>1, <1>3, <1>4, <1>5, <1>6, <2>1, <2>2, Zenon DEF Types
<1>8. \A k \in Keys : loc'[k] = "none"
  BY <1>0, <1>1 DEF FreshHasSession
<1>9. Present'
  BY <1>3, <1>5, Zenon DEF Present
<1>10. FreshIsLive'
  BY <1>8, <1>9 DEF FreshIsLive, FreshHasSession, FreshIsInAdjIn
<1>11. CollectorHasBmp'
  BY <1>0, <1>1, <1>3, <1>4, Zenon DEF Inv, CollectorHasBmp
<1>12. ServerFollowsTask'
  <2>1. R!Unknown \in Views
    BY Zenon DEF R!Unknown, Views
  <2>2. Leads(n, R!Unknown, ops, R!Unknown)
    BY <1>2, <1>6, <2>1, LeadsOthers, Zenon
  <2>3. tasks'[n].told = R!Unknown
    BY <1>3, <1>5
  <2>4. Leads(info'.task, View(info'), ops', tasks'[info'.task].told)
    BY <1>1, <1>3, <2>2, <2>3
  <2>5. info'.bmp <=> IsUp(info') /\ info'.conn
    BY <1>3
  <2>. QED
    BY <2>4, <2>5 DEF ServerFollowsTask, Current, View, IsUp
<1>. QED
  BY <1>7, <1>10, <1>11, <1>12 DEF Inv

LEMMA RemovePeerInv ==
  ASSUME Inv, setup' = setup, RemovePeer
  PROVE  Inv'
<1>0. Types /\ Present
  BY DEF Inv, RemovePeer
<1>1. /\ info' = NewInfo(0) /\ tasks' = [tasks EXCEPT ![Current].shut = TRUE] /\ loc' = Drop(loc, Keys)
      /\ mon' = (IF info.bmp THEN PeerDown(mon) ELSE mon) /\ UNCHANGED <<ops, past>>
  BY DEF RemovePeer, NoPeer, ShutdownAndRemove
<1>2. info' \in Infos /\ info'.task = 0
  <2>1. 0 \in Nat
    OBVIOUS
  <2>. QED
    BY <1>1, <2>1, NewTypes
<1>3. loc' \in [Keys -> Ages] /\ \A k \in Keys : loc'[k] = "none"
  BY <1>0, <1>1, LocTypes DEF Types
<1>4. tasks' \in Seq(TaskRecs) /\ Len(tasks') = Len(tasks)
  BY <1>0, <1>1, ShutType
<1>5. Types'
  <2>1. Infos' = Infos /\ Ops' = Ops /\ TaskRecs' = TaskRecs
    BY SameSets
  <2>2. mon' \in {"up", "down", "confused"}
    BY <1>0, <1>1 DEF Types, PeerDown
  <2>3. 0 \in 0..Len(tasks')
    BY <1>4
  <2>. QED
    BY <1>0, <1>1, <1>2, <1>3, <1>4, <2>1, <2>2, <2>3, Zenon DEF Types
<1>6. ~Present'
  BY <1>2 DEF Present
<1>7. FreshIsLive'
  BY <1>3, <1>6 DEF FreshIsLive, FreshHasSession, FreshIsInAdjIn
<1>8. CollectorHasBmp'
  <2>. SUFFICES ASSUME ~past.limit PROVE mon' = "down"
    BY <1>1, <1>6 DEF CollectorHasBmp
  <2>1. mon = IF info.bmp THEN "up" ELSE "down"
    BY <1>0 DEF Inv, CollectorHasBmp
  <2>. QED
    BY <1>1, <2>1 DEF PeerDown
<1>9. ServerFollowsTask'
  BY <1>6 DEF ServerFollowsTask, Regular
<1>. QED
  BY <1>5, <1>7, <1>8, <1>9 DEF Inv

LEMMA InitInv == Init => Inv
<1>. SUFFICES ASSUME Init PROVE Inv
  OBVIOUS
<1>1. /\ info = NewInfo(1) /\ tasks = <<NewTask>> /\ loc = [k \in Keys |-> "none"] /\ ops = <<>> /\ mon = "down"
      /\ past = [mixed |-> FALSE, limit |-> FALSE, partial |-> FALSE] /\ setup \in Setups
  BY DEF Init
<1>2. /\ info \in Infos /\ info.task = 1 /\ View(info) = R!Unknown /\ info.bmp = FALSE /\ info.conn = FALSE
      /\ NewTask \in TaskRecs /\ NewTask.told = R!Unknown
  <2>1. 1 \in Nat
    OBVIOUS
  <2>. QED
    BY <1>1, <2>1, NewTypes
<1>3. tasks \in Seq(TaskRecs) /\ Len(tasks) = 1 /\ tasks[1] = NewTask
  BY <1>1, <1>2, SMTT(60)
<1>4. setup.tasks \in Nat \ {0}
  BY <1>1, PeerServerAssumption, Zenon
<1>5. past \in Pasts
  BY <1>1 DEF Pasts
<1>6. ops \in Seq(Ops) /\ Len(ops) = 0
  BY <1>1
<1>7. loc \in [Keys -> Ages] /\ \A k \in Keys : loc[k] = "none"
  BY <1>1, Zenon DEF Ages
<1>8. Types
  <2>1. 1 \in 0..Len(tasks) /\ Len(tasks) \in 1..setup.tasks /\ \A i \in 1..Len(ops) : FALSE
    BY <1>3, <1>4, <1>6
  <2>. QED
    BY <1>1, <1>2, <1>3, <1>5, <1>6, <1>7, <2>1, Zenon DEF Types
<1>9. Present
  BY <1>2 DEF Present
<1>10. FreshIsLive
  BY <1>7, <1>9, Zenon DEF FreshIsLive, FreshHasSession, FreshIsInAdjIn
<1>11. CollectorHasBmp
  BY <1>1, <1>2 DEF CollectorHasBmp
<1>12. ServerFollowsTask
  <2>1. R!Unknown \in Views
    BY DEF R!Unknown, Views
  <2>2. Leads(1, R!Unknown, ops, R!Unknown)
    <3>1. \A i \in 1..Len(ops) : ops[i].from # 1
      BY <1>6
    <3>. QED
      BY <1>6, <2>1, <3>1, LeadsOthers, Zenon
  <2>3. Leads(Current, View(info), ops, tasks[Current].told)
    BY <1>2, <1>3, <2>2 DEF Current
  <2>. QED
    BY <1>2, <2>3 DEF ServerFollowsTask
<1>. QED
  BY <1>8, <1>10, <1>11, <1>12 DEF Inv

LEMMA NextInv == Inv /\ [Next]_vars => Inv'
<1>. SUFFICES ASSUME Inv, [Next]_vars PROVE Inv'
  OBVIOUS
<1>0. Types
  BY DEF Inv
<1>1. CASE UNCHANGED vars
  <2>1. UNCHANGED <<info, loc, ops, tasks, mon, past, setup>>
    BY <1>1 DEF vars, state
  <2>2. Quiet(info, info')
    BY <1>0, <2>1, QuietEdits, Zenon DEF Types
  <2>3. OutsideStep
    BY <1>0, <2>1, <2>2 DEF Types, OutsideStep
  <2>. QED
    BY <2>1, <2>3, OutsideInv
<1>2. CASE Next
  <2>1. Step /\ setup' = setup
    BY <1>2 DEF Next
  <2>2. CASE ServerStep
    <3>1. CASE \/ HandleGrTimerExpired \/ ClearStaleFamily \/ HandleRouteRefreshBoRR \/ HandleRouteRefreshEoRR
               \/ HandleEnhancedRrStaleExpired \/ HandleSetAdminState
      BY <1>0, <2>1, <3>1, QuietSteps, QuietInv, Zenon
    <3>. QED
      BY <2>1, <2>2, <3>1, StateChangedInv, HandshakeInv, ConnectionInfoInv, DisconnectedInv, UpdateInv, VrpUpdateInv,
         Zenon DEF ServerStep
  <2>3. CASE \E f \in Families : LlgrTimerFires(f) \/ RefreshTimerFires(f)
    BY <1>0, <2>1, <2>3, ServerTimerSteps, OutsideInv, Zenon
  <2>4. CASE AddPeer \/ RemovePeer \/ VrpsChange
    BY <1>0, <2>1, <2>4, AddPeerInv, RemovePeerInv, VrpsChangeStep, OutsideInv
  <2>5. CASE \E n \in DOMAIN tasks : TaskReports(n) \/ TaskEnds(n) \/ RestartTimerFires(n)
    <3>1. DOMAIN tasks = 1..Len(tasks)
      BY <1>0 DEF Types
    <3>. QED
      BY <1>0, <2>1, <2>5, <3>1, TaskReportsSteps, TaskEndsSteps, RestartTimerSteps, OutsideInv, Zenon
  <2>. QED
    BY <2>1, <2>2, <2>3, <2>4, <2>5 DEF Step
<1>. QED
  BY <1>1, <1>2

LEMMA InvHolds == Spec => []Inv
BY InitInv, NextInv, PTL DEF Spec

-----------------------------------------------------------------------------
(* The properties *)

LEMMA InvSeesSession == Inv => SessionIsSeen
<1>. SUFFICES ASSUME Inv PROVE SessionIsSeen
  OBVIOUS
<1>0. Types
  BY Zenon DEF Inv
<1>1. info \in Infos /\ tasks \in Seq(TaskRecs) /\ info.task \in 0..Len(tasks)
  BY <1>0, Zenon DEF Types
<1>2. TypeOK
  <2>1. info.admin \in Admins /\ info.state \in {"Idle", "Established"} /\ info.caps \in Caps
        /\ info.adjIn \subseteq Keys /\ info.disabled \subseteq Families
    BY <1>1, InfoFields
  <2>2. Present => info.task \in DOMAIN tasks
    BY <1>1 DEF Present
  <2>. QED
    BY <1>0, <2>1, <2>2, Zenon DEF Types, TypeOK, Admins, Caps, Ages, Pasts
<1>3. MonitorSeesSession
  BY DEF Inv, CollectorHasBmp, ServerFollowsTask, Regular, MonitorSeesSession
<1>4. ServerAgreesWithTask
  <2>. SUFFICES ASSUME Regular, ops = <<>>
                PROVE  LET t == tasks[Current].told
                       IN  /\ info.state = (IF t.state = "Established" THEN "Established" ELSE "Idle")
                           /\ info.asn = t.asn /\ info.conn = t.info
    BY DEF ServerAgreesWithTask, Regular
  <2>1. Leads(Current, View(info), <<>>, tasks[Current].told)
    BY DEF Inv, ServerFollowsTask
  <2>2. View(info) = tasks[Current].told
    BY <2>1, LeadsEmpty, Zenon
  <2>3. info.state \in {"Idle", "Established"}
    BY <1>1, InfoFields, Zenon
  <2>4. View(info).state = info.state /\ View(info).asn = info.asn /\ View(info).info = info.conn
    BY DEF View
  <2>. QED
    BY <2>2, <2>3, <2>4, Zenon
<1>. QED
  BY <1>2, <1>3, <1>4 DEF SessionIsSeen

\* Task, server and collector have the same picture of the session, for a queue of any
\* length and any number of tasks of the address (handle_peer_state_changed,
\* handle_peer_disconnected, bmp_session).
THEOREM SessionIsAlwaysSeen == Spec => []SessionIsSeen
BY InvHolds, InvSeesSession, PTL

\* A fresh path is one of an established session and of its Adj-RIB-In, VRP updates
\* during a restart aside, for any families, keys, limits and capabilities
\* (handle_peer_update, handle_peer_disconnected, handle_vrp_update).
THEOREM FreshIsAlwaysLive == Spec => []FreshIsLive
<1>1. Inv => FreshIsLive
  BY DEF Inv
<1>. QED
  BY <1>1, InvHolds, PTL
=============================================================================
