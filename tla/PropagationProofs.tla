-------------------------- MODULE PropagationProofs --------------------------
(***************************************************************************)
(* The invariants of the route processing, for any peers, attributes,      *)
(* policies and lengths of batches.                                        *)
(*                                                                         *)
(* apply_peer_update and reevaluate_routes are loops, here recursive       *)
(* functions on the indices of what they go through: FunctionExists and    *)
(* AllStages carry a property of one step to all of them.                  *)
(***************************************************************************)
EXTENDS Propagation, FiniteSetTheorems, WellFoundedInduction, TLAPS

Sources == Peers \cup {Local}

Routes == Attrs \cup {Withdraw}

\* A Loc-RIB: one path for a source, and identifiers that tell them apart.
Rib(paths) ==
  /\ paths \in SUBSET Paths /\ IsFiniteSet(paths)
  /\ \A x, y \in paths : x.src = y.src => x = y
  /\ \A x, y \in paths : x.id = y.id => x = y

Types ==
  /\ setup \in Setups
  /\ established \in SUBSET Peers /\ invalid \in SUBSET Attrs
  /\ ribIn \in [Peers -> Attrs \cup {None}] /\ said \in [Peers -> Attrs \cup {None}]
  /\ ribOut \in [Peers -> SUBSET Paths]
  /\ told = [p \in Peers |-> told[p]]

\* A peer without a session has nothing, and what is in the Loc-RIB is in the
\* Adj-RIB-In of its peer.
Sessions ==
  /\ \A p \in Peers \ established : ribOut[p] = {} /\ told[p] = {} /\ ribIn[p] = None /\ said[p] = None
  /\ \A x \in loc : x.src # Local => x.src \in established /\ ribIn[x.src] # None

\* Adj-RIB-In has the last announcement of a batch, not what was said last.
InIsSaid == MaxBatch = 1 => said = ribIn

LastSaidHolds == MaxBatch = 1 \/ ~VrpsChange => LocIsLastSaid

Inv ==
  /\ Types /\ Rib(loc) /\ Sessions /\ InIsSaid
  /\ ~VrpsChange => invalid = {}
  /\ PathIdsDistinct /\ RibOutIsTold /\ ExportsInSync /\ LocIsValidated /\ LastSaidHolds

-----------------------------------------------------------------------------
(* Naturals and loops *)

\* A set of numbers that is not empty has a least element.
LEMMA LeastExists ==
  ASSUME NEW T \in SUBSET Nat, T # {}
  PROVE  \E n \in T : \A m \in T : n <= m
<1>1. PICK n \in T : \A m \in T : ~(<<m, n>> \in OpToRel(<, Nat))
  BY WFMin, NatLessThanWellFounded, Zenon
<1>2. \A m \in T : ~(m < n)
  BY <1>1, Zenon DEF OpToRel
<1>. QED
  BY <1>2

\* ... and, when it is bounded, a greatest one.
LEMMA GreatestExists ==
  ASSUME NEW b \in Nat, NEW T \in SUBSET (0..b), T # {}
  PROVE  \E n \in T : \A m \in T : m <= n
<1>. DEFINE D == {d \in Nat : b - d \in T}
<1>1. D \in SUBSET Nat /\ D # {}
  <2>1. PICK t \in T : TRUE
    BY Zenon
  <2>2. b - t \in Nat /\ b - (b - t) = t
    BY <2>1
  <2>. QED
    BY <2>1, <2>2
<1>2. PICK d \in D : \A e \in D : d <= e
  BY <1>1, LeastExists, Zenon
<1>3. \A m \in T : m <= b - d
  <2>1. SUFFICES ASSUME NEW m \in T PROVE m <= b - d
    OBVIOUS
  <2>2. b - m \in Nat /\ b - (b - m) = m
    OBVIOUS
  <2>3. b - m \in D
    BY <2>2
  <2>. QED
    BY <1>2, <2>2, <2>3
<1>. QED
  BY <1>2, <1>3

\* A property of the first stage that every step carries on is one of all stages.
LEMMA AllStages ==
  ASSUME NEW n \in Nat, NEW T, NEW f, f[0] \in T[0],
         \A i \in 1..n : f[i - 1] \in T[i - 1] => f[i] \in T[i]
  PROVE  \A i \in 0..n : f[i] \in T[i]
<1>. DEFINE Bad == {i \in 0..n : f[i] \notin T[i]}
<1>1. SUFFICES ASSUME Bad # {} PROVE FALSE
  OBVIOUS
<1>2. PICK i \in Bad : \A j \in Bad : i <= j
  <2>1. Bad \in SUBSET Nat
    OBVIOUS
  <2>. QED
    BY <1>1, <2>1, LeastExists, Zenon
<1>3. CASE i = 0
  BY <1>2, <1>3
<1>4. CASE i # 0
  <2>1. i \in 1..n /\ i - 1 \in 0..n /\ ~(i <= i - 1)
    BY <1>2, <1>4
  <2>2. f[i - 1] \in T[i - 1]
    BY <1>2, <2>1
  <2>. QED
    BY <1>2, <2>1, <2>2
<1>. QED
  BY <1>3, <1>4

\* The stages of a loop with n steps: g[i] is what its i-th step does.
Stages(f, a, n, g) == f[0] = a /\ \A i \in 1..n : f[i] = g[i][f[i - 1]]

\* They exist, and stay in the set that the steps do not leave.
LEMMA FunctionExists ==
  ASSUME NEW S, NEW a \in S, NEW n \in Nat, NEW g \in [1..n -> [S -> S]]
  PROVE  \E f \in [0..n -> S] : Stages(f, a, n, g)
<1>. USE DEF Stages
<1>. DEFINE Bad == {k \in 0..n : ~\E f \in [0..k -> S] : Stages(f, a, k, g)}
<1>1. SUFFICES ASSUME Bad # {} PROVE FALSE
  <2>1. n \in 0..n
    OBVIOUS
  <2>. QED
    BY <2>1, Zenon
<1>2. PICK k \in Bad : \A j \in Bad : k <= j
  <2>1. Bad \in SUBSET Nat
    OBVIOUS
  <2>. QED
    BY <1>1, <2>1, LeastExists, Zenon
<1>3. CASE k = 0
  <2>. DEFINE f == [i \in 0..0 |-> a]
  <2>1. f \in [0..0 -> S] /\ Stages(f, a, 0, g)
    OBVIOUS
  <2>. QED
    BY <1>2, <1>3, <2>1, Zenon
<1>4. CASE k # 0
  <2>1. k \in 1..n /\ k - 1 \in 0..n /\ ~(k <= k - 1)
    BY <1>2, <1>4
  <2>2. PICK f \in [0..(k - 1) -> S] : Stages(f, a, k - 1, g)
    BY <1>2, <2>1, Zenon
  <2>. DEFINE h == [i \in 0..k |-> IF i = k THEN g[k][f[k - 1]] ELSE f[i]]
  <2>3. g[k][f[k - 1]] \in S
    BY <2>1, <2>2
  <2>4. h \in [0..k -> S]
    BY <2>1, <2>2, <2>3
  <2>5. h[0] = a
    BY <2>1, <2>2
  <2>6. ASSUME NEW i \in 1..k PROVE h[i] = g[i][h[i - 1]]
    <3>1. i - 1 \in 0..k /\ i - 1 # k /\ h[i - 1] = f[i - 1]
      BY <2>1
    <3>2. CASE i = k
      BY <3>1, <3>2, <2>1
    <3>3. CASE i # k
      BY <3>1, <3>3, <2>1, <2>2
    <3>. QED
      BY <3>2, <3>3
  <2>. QED
    BY <1>2, <2>4, <2>5, <2>6, Zenon
<1>. QED
  BY <1>3, <1>4

-----------------------------------------------------------------------------
(* The Loc-RIB *)

\* What the last route r of an update from src makes of the paths.
Outcome(src, r, old, new) ==
  /\ Rib(new) /\ Without(new, src) = Without(old, src)
  /\ \A x \in new : x.src = src => r # Withdraw /\ Imports(r) /\ x.attr = r /\ x.invalid = (r \in invalid')
  /\ r # Withdraw /\ Imports(r) => \E x \in new : x.src = src

\* There is always an identifier to give, and it is a free one: n paths do not
\* hold all of n + 1 identifiers.
LEMMA AllocIdFree ==
  ASSUME NEW paths, Rib(paths)
  PROVE  AllocId(paths) \in Nat \ {0} /\ \A x \in paths : x.id # AllocId(paths)
<1>. DEFINE c == Cardinality(paths)
            free == {id \in 1..(c + 1) : \A x \in paths : x.id # id}
<1>1. IsFiniteSet(paths) /\ c \in Nat
  BY FS_CardinalityType DEF Rib
<1>. HIDE DEF c
<1>2. free # {}
  <2>1. SUFFICES ASSUME free = {} PROVE FALSE
    OBVIOUS
  <2>. DEFINE I == {x.id : x \in paths}
              f == [x \in paths |-> x.id]
  <2>2. f \in Surjection(paths, I)
    BY DEF Surjection
  <2>3. IsFiniteSet(I) /\ Cardinality(I) <= c
    <3>. HIDE DEF f, I
    <3>. QED
      BY <1>1, <2>2, FS_Surjection DEF c
  <2>4. 1..(c + 1) \in SUBSET I
    BY <2>1
  <2>. HIDE DEF I, f
  <2>5. Cardinality(1..(c + 1)) <= Cardinality(I)
    BY <2>3, <2>4, FS_Subset, Zenon
  <2>6. Cardinality(1..(c + 1)) = c + 1
    <3>1. 1 \in Int /\ c + 1 \in Int /\ ~(1 > c + 1) /\ (c + 1) - 1 + 1 = c + 1
      BY <1>1
    <3>. QED
      BY <3>1, FS_Interval
  <2>7. Cardinality(I) \in Nat
    BY <2>3, FS_CardinalityType
  <2>. QED
    BY <1>1, <2>3, <2>5, <2>6, <2>7
<1>3. free \in SUBSET Nat
  BY <1>1
<1>4. AllocId(paths) \in free
  <2>1. \E id \in free : \A other \in free : id <= other
    <3>. HIDE DEF free
    <3>. QED
      BY <1>2, <1>3, LeastExists
  <2>2. AllocId(paths) = CHOOSE id \in free : \A other \in free : id <= other
    BY DEF AllocId, c
  <2>. QED
    BY <2>1, <2>2
<1>. QED
  BY <1>1, <1>4

LEMMA WithoutRib ==
  ASSUME NEW paths, Rib(paths), NEW src
  PROVE  Rib(Without(paths, src)) /\ Without(Without(paths, src), src) = Without(paths, src)
<1>1. Without(paths, src) \in SUBSET paths
  BY DEF Without
<1>2. IsFiniteSet(Without(paths, src))
  BY <1>1, FS_Subset DEF Rib
<1>3. Rib(Without(paths, src))
  BY <1>1, <1>2 DEF Rib
<1>. QED
  BY <1>3 DEF Without

\* upsert_path_in_route: the path of the source is the new one, under the
\* identifier of the one it replaces or a free one, and the others stay.
LEMMA UpsertRib ==
  ASSUME NEW paths, Rib(paths), NEW src \in Sources, NEW attr \in Attrs, NEW inv \in BOOLEAN
  PROVE  /\ Rib(Upsert(paths, src, attr, inv))
         /\ Without(Upsert(paths, src, attr, inv), src) = Without(paths, src)
         /\ \A x \in Upsert(paths, src, attr, inv) : x.src = src => x.attr = attr /\ x.invalid = inv
         /\ \E x \in Upsert(paths, src, attr, inv) : x.src = src
<1>. DEFINE rest == Without(paths, src)
            old == paths \ rest
            id == IF old = {} THEN AllocId(paths) ELSE (CHOOSE x \in old : TRUE).id
            x == [src |-> src, attr |-> attr, invalid |-> inv, id |-> id]
<1>1. Rib(rest) /\ \A y \in rest : y \in paths /\ y.src # src
  BY WithoutRib, Zenon DEF Without
<1>2. \A y \in old : y \in paths /\ y.src = src
  BY DEF Without
<1>3. id \in Nat \ {0} /\ \A y \in rest : y.id # id
  <2>1. CASE old = {}
    BY <2>1, <1>1, AllocIdFree
  <2>2. CASE old # {}
    <3>1. PICK z \in old : id = z.id
      BY <2>2, Zenon
    <3>2. z \in paths /\ z.src = src /\ z.id \in Nat \ {0}
      BY <1>2 DEF Rib, Paths
    <3>. QED
      BY <1>1, <3>1, <3>2 DEF Rib
  <2>. QED
    BY <2>1, <2>2
<1>4. Upsert(paths, src, attr, inv) = rest \cup {x}
  BY DEF Upsert
<1>. HIDE DEF rest, old, id
<1>5. x \in Paths
  BY <1>3 DEF Paths, Sources
<1>6. x.src = src /\ x.attr = attr /\ x.invalid = inv /\ x.id = id
  OBVIOUS
<1>. HIDE DEF x
<1>7. IsFiniteSet(rest \cup {x})
  BY <1>1, FS_AddElement DEF Rib
<1>8. Rib(rest \cup {x})
  BY <1>1, <1>3, <1>5, <1>6, <1>7 DEF Rib
<1>9. Without(rest \cup {x}, src) = rest
  BY <1>1, <1>6 DEF Without
<1>. QED
  BY <1>1, <1>4, <1>6, <1>8, <1>9 DEF rest

LEMMA ApplyOneOutcome ==
  ASSUME NEW src \in Sources, NEW r \in Routes, NEW s \in [paths : SUBSET Paths, renewed : BOOLEAN], Rib(s.paths)
  PROVE  /\ ApplyOne(src, r, s) \in [paths : SUBSET Paths, renewed : BOOLEAN]
         /\ Outcome(src, r, s.paths, ApplyOne(src, r, s).paths)
<1>1. CASE r = Withdraw \/ ~Imports(r)
  <2>1. ApplyOne(src, r, s) = [s EXCEPT !.paths = Without(s.paths, src)]
    BY <1>1 DEF ApplyOne
  <2>2. Rib(Without(s.paths, src)) /\ Without(Without(s.paths, src), src) = Without(s.paths, src)
    BY WithoutRib
  <2>3. ApplyOne(src, r, s).paths = Without(s.paths, src) /\ ApplyOne(src, r, s).renewed = s.renewed
    BY <2>1
  <2>4. ApplyOne(src, r, s) \in [paths : SUBSET Paths, renewed : BOOLEAN]
    BY <2>1, <2>2 DEF Rib
  <2>5. \A x \in Without(s.paths, src) : x.src # src
    BY DEF Without
  <2>. QED
    BY <1>1, <2>2, <2>3, <2>4, <2>5 DEF Outcome
<1>2. CASE r # Withdraw /\ Imports(r)
  <2>. DEFINE inv == r \in invalid'
              up == Upsert(s.paths, src, r, inv)
              new == s.renewed \/ ~\E x \in s.paths : x.src = src /\ x.attr = r
  <2>1. ApplyOne(src, r, s) = [paths |-> up, renewed |-> new]
    BY <1>2 DEF ApplyOne
  <2>2. r \in Attrs /\ inv \in BOOLEAN /\ new \in BOOLEAN
    BY <1>2 DEF Routes
  <2>. HIDE DEF inv, new
  <2>3. /\ Rib(up) /\ Without(up, src) = Without(s.paths, src)
        /\ \A x \in up : x.src = src => x.attr = r /\ x.invalid = inv
        /\ \E x \in up : x.src = src
    BY <2>2, UpsertRib
  <2>. HIDE DEF up
  <2>4. up \in SUBSET Paths
    BY <2>3 DEF Rib
  <2>. QED
    BY <1>2, <2>1, <2>2, <2>3, <2>4 DEF Outcome, inv
<1>. QED
  BY <1>1, <1>2

\* apply_peer_update ends with what the last of the routes calls for.
LEMMA ApplyUpdateOutcome ==
  ASSUME NEW src \in Sources, NEW paths, Rib(paths), NEW routes \in Seq(Routes), routes # <<>>
  PROVE  /\ ApplyUpdate(paths, src, routes) \in [paths : SUBSET Paths, renewed : BOOLEAN]
         /\ Outcome(src, routes[Len(routes)], paths, ApplyUpdate(paths, src, routes).paths)
<1>. DEFINE n == Len(routes)
            States == [paths : SUBSET Paths, renewed : BOOLEAN]
            S == {s \in States : Rib(s.paths) /\ Without(s.paths, src) = Without(paths, src)}
            a == [paths |-> paths, renewed |-> FALSE]
            F(f) == [i \in 0..n |-> IF i = 0 THEN a ELSE ApplyOne(src, routes[i], f[i - 1])]
            after == CHOOSE f : f = F(f)
            g == [i \in 1..n |-> [s \in S |-> ApplyOne(src, routes[i], s)]]
            T == [i \in 0..n |-> S]
<1>1. ApplyUpdate(paths, src, routes) = after[n]
  BY DEF ApplyUpdate
<1>2. n \in Nat /\ n # 0 /\ \A i \in 1..n : routes[i] \in Routes
  OBVIOUS
<1>3. a \in S
  <2>1. paths \in SUBSET Paths /\ FALSE \in BOOLEAN
    BY DEF Rib
  <2>2. a \in States /\ a.paths = paths
    BY <2>1
  <2>. HIDE DEF a
  <2>. QED
    BY <2>2
<1>4. ASSUME NEW i \in 1..n, NEW s \in S
      PROVE  ApplyOne(src, routes[i], s) \in S /\ Outcome(src, routes[i], paths, ApplyOne(src, routes[i], s).paths)
  <2>1. routes[i] \in Routes
    BY <1>2
  <2>2. /\ ApplyOne(src, routes[i], s) \in States
        /\ Outcome(src, routes[i], s.paths, ApplyOne(src, routes[i], s).paths)
    BY <2>1, ApplyOneOutcome
  <2>. QED
    BY <2>2 DEF Outcome
<1>. HIDE DEF n, S, a
<1>5. g \in [1..n -> [S -> S]]
  BY <1>4
<1>6. PICK f \in [0..n -> S] : Stages(f, a, n, g)
  <2>. HIDE DEF g
  <2>1. n \in Nat
    BY <1>2
  <2>. QED
    BY <1>3, <1>5, <2>1, FunctionExists, Zenon
<1>7. f = F(f)
  <2>. USE DEF Stages
  <2>1. ASSUME NEW i \in 0..n PROVE f[i] = IF i = 0 THEN a ELSE ApplyOne(src, routes[i], f[i - 1])
    <3>1. CASE i = 0
      BY <1>6, <3>1
    <3>2. CASE i # 0
      <4>1. i \in 1..n /\ i - 1 \in 0..n
        BY <1>2, <3>2
      <4>. QED
        BY <1>6, <3>2, <4>1, Zenon
    <3>. QED
      BY <3>1, <3>2
  <2>. QED
    BY <1>6, <2>1
<1>8. after = F(after)
  <2>. HIDE DEF F
  <2>. QED
    BY <1>7
<1>9. after[0] = a /\ \A i \in 1..n : after[i] = ApplyOne(src, routes[i], after[i - 1])
  <2>. HIDE DEF after
  <2>1. 0 \in 0..n /\ \A i \in 1..n : i \in 0..n /\ i # 0
    BY <1>2
  <2>. QED
    BY <1>8, <2>1, Zenon
<1>. HIDE DEF after
<1>10. \A i \in 0..n : after[i] \in T[i]
  <2>1. after[0] \in T[0]
    BY <1>2, <1>3, <1>9
  <2>2. ASSUME NEW i \in 1..n, after[i - 1] \in T[i - 1] PROVE after[i] \in T[i]
    <3>1. i - 1 \in 0..n /\ i \in 0..n
      BY <1>2
    <3>. QED
      BY <1>4, <1>9, <2>2, <3>1
  <2>. HIDE DEF T
  <2>. QED
    BY <1>2, <2>1, <2>2, AllStages, Zenon
<1>11. n \in 1..n /\ n - 1 \in 0..n /\ after[n - 1] \in S
  BY <1>2, <1>10
<1>12. after[n] \in S /\ Outcome(src, routes[n], paths, after[n].paths)
  BY <1>4, <1>9, <1>11
<1>. QED
  BY <1>1, <1>12 DEF S, n

Heard == {p \in Peers : ribIn[p] # None}

\* The path is what Adj-RIB-In has, with the validation state of the new VRPs.
Revalidated(x) ==
  /\ x.src \in Heard /\ x.attr = ribIn[x.src]
  /\ x.invalid = (x.attr \in invalid') /\ Imports(x.attr)

\* reevaluate_routes goes through all peers with an Adj-RIB-In, so every path from a
\* peer is revalidated, and a change of the best path on the way is noticed.
LEMMA ReevaluateOutcome ==
  ASSUME setup \in Setups, Rib(loc), ribIn \in [Peers -> Attrs \cup {None}], IsFiniteSet(Heard),
         \A x \in loc : x.src # Local => x.src \in Heard,
         NEW sources \in Bijection(1..Cardinality(Heard), Heard)
  PROVE  /\ Rib(ReevaluateRoutes(sources).paths)
         /\ \A x \in ReevaluateRoutes(sources).paths : x.src # Local => Revalidated(x)
         /\ ~ReevaluateRoutes(sources).changed => Best(ReevaluateRoutes(sources).paths) = Best(loc)
         /\ Heard = {} => ReevaluateRoutes(sources).paths = loc
<1>. DEFINE n == Len(sources)
            States == [paths : SUBSET Paths, changed : BOOLEAN]
            S == {s \in States : Rib(s.paths)}
            a == [paths |-> loc, changed |-> FALSE]
            One(i, s) == ApplyUpdate(s.paths, sources[i], <<ribIn[sources[i]]>>)
            Step(i, s) == [paths |-> One(i, s).paths,
                           changed |-> s.changed \/ BestChanged(s.paths, One(i, s).paths, sources[i], One(i, s).renewed)]
            F(f) == [i \in 0..n |-> IF i = 0 THEN a ELSE Step(i, f[i - 1])]
            after == CHOOSE f : f = F(f)
            g == [i \in 1..n |-> [s \in S |-> Step(i, s)]]
            Done(i) == {sources[j] : j \in 1..i}
            Stage(i) == {s \in S : /\ ~s.changed => Best(s.paths) = Best(loc)
                                   /\ \A x \in s.paths : x.src # Local =>
                                        x.src \in Heard /\ (x.src \in Done(i) => Revalidated(x))}
            T == [i \in 0..n |-> Stage(i)]
<1>1. ReevaluateRoutes(sources) = after[n]
  BY DEF ReevaluateRoutes
<1>2. Cardinality(Heard) \in Nat
  BY FS_CardinalityType
<1>3. /\ n = Cardinality(Heard) /\ n \in Nat
      /\ \A i \in 1..n : sources[i] \in Heard
      /\ \A p \in Heard : \E i \in 1..n : sources[i] = p
  <2>1. /\ sources \in [1..Cardinality(Heard) -> Heard]
        /\ \A p \in Heard : \E i \in 1..Cardinality(Heard) : sources[i] = p
    BY DEF Bijection, Injection, Surjection
  <2>2. n = Cardinality(Heard)
    BY <1>2, <2>1
  <2>. QED
    BY <1>2, <2>1, <2>2
<1>. HIDE DEF n
<1>4. a \in S /\ a.paths = loc /\ a.changed = FALSE
  <2>1. loc \in SUBSET Paths /\ FALSE \in BOOLEAN
    BY DEF Rib
  <2>2. a \in States /\ a.paths = loc /\ a.changed = FALSE
    BY <2>1
  <2>. HIDE DEF a, States
  <2>. QED
    BY <2>2
<1>5. ASSUME NEW i \in 1..n, NEW s \in S
      PROVE  /\ One(i, s) \in [paths : SUBSET Paths, renewed : BOOLEAN]
             /\ Outcome(sources[i], ribIn[sources[i]], s.paths, One(i, s).paths)
  <2>1. sources[i] \in Sources /\ ribIn[sources[i]] \in Routes
    BY <1>3 DEF Heard, Sources, Routes, Withdraw, None
  <2>. DEFINE routes == <<ribIn[sources[i]]>>
  <2>2. routes \in Seq(Routes) /\ routes # <<>> /\ routes[Len(routes)] = ribIn[sources[i]]
    BY <2>1
  <2>3. Rib(s.paths)
    OBVIOUS
  <2>4. One(i, s) = ApplyUpdate(s.paths, sources[i], routes)
    OBVIOUS
  <2>. HIDE DEF routes, One, S
  <2>. QED
    BY <2>1, <2>2, <2>3, <2>4, ApplyUpdateOutcome
<1>6. ASSUME NEW i \in 1..n, NEW s \in S PROVE Step(i, s) \in S
  <2>1. /\ One(i, s).paths \in SUBSET Paths /\ Rib(One(i, s).paths)
    BY <1>5, Zenon DEF Outcome
  <2>. DEFINE ch == s.changed \/ BestChanged(s.paths, One(i, s).paths, sources[i], One(i, s).renewed)
  <2>2. ch \in BOOLEAN
    OBVIOUS
  <2>3. Step(i, s) = [paths |-> One(i, s).paths, changed |-> ch]
    OBVIOUS
  <2>. HIDE DEF ch, One, Step
  <2>4. Step(i, s) \in States /\ Step(i, s).paths = One(i, s).paths
    BY <2>1, <2>2, <2>3
  <2>. HIDE DEF States
  <2>. QED
    BY <2>1, <2>4
<1>. HIDE DEF S, a
<1>7. g \in [1..n -> [S -> S]]
  <2>. HIDE DEF Step
  <2>. QED
    BY <1>6
<1>8. PICK f \in [0..n -> S] : Stages(f, a, n, g)
  <2>. HIDE DEF g
  <2>1. n \in Nat
    BY <1>3
  <2>. QED
    BY <1>4, <1>7, <2>1, FunctionExists
<1>9. f = F(f)
  <2>. USE DEF Stages
  <2>. HIDE DEF Step
  <2>1. ASSUME NEW i \in 0..n PROVE f[i] = IF i = 0 THEN a ELSE Step(i, f[i - 1])
    <3>1. CASE i = 0
      BY <1>8, <3>1
    <3>2. CASE i # 0
      <4>1. i \in 1..n /\ i - 1 \in 0..n
        BY <1>3, <3>2
      <4>. QED
        BY <1>8, <3>2, <4>1, Zenon
    <3>. QED
      BY <3>1, <3>2
  <2>. QED
    BY <1>8, <2>1
<1>10. after = F(after)
  <2>. HIDE DEF F
  <2>. QED
    BY <1>9
<1>11. after[0] = a /\ \A i \in 1..n : after[i] = Step(i, after[i - 1])
  <2>. HIDE DEF after, Step
  <2>1. 0 \in 0..n /\ \A i \in 1..n : i \in 0..n /\ i # 0
    BY <1>3
  <2>. QED
    BY <1>10, <2>1, Zenon
<1>. HIDE DEF after
<1>12. after[0] \in T[0]
  <2>1. Done(0) = {}
    OBVIOUS
  <2>2. 0 \in 0..n
    BY <1>3
  <2>. HIDE DEF Done
  <2>. QED
    BY <1>4, <1>11, <2>1, <2>2
<1>13. ASSUME NEW i \in 1..n, after[i - 1] \in T[i - 1] PROVE after[i] \in T[i]
  <2>. DEFINE s == after[i - 1]
              p == sources[i]
              new == One(i, s).paths
  <2>1. i - 1 \in 0..n /\ i \in 0..n
    BY <1>3
  <2>2. /\ s \in S /\ (~s.changed => Best(s.paths) = Best(loc))
        /\ \A x \in s.paths : x.src # Local => x.src \in Heard /\ (x.src \in Done(i - 1) => Revalidated(x))
    <3>. HIDE DEF Done
    <3>1. s \in Stage(i - 1)
      <4>. HIDE DEF Stage
      <4>. QED
        BY <1>13, <2>1
    <3>. HIDE DEF s
    <3>. QED
      BY <3>1
  <2>3. after[i] = Step(i, s)
    BY <1>11, Zenon
  <2>4. after[i] \in S
    BY <1>6, <2>2, <2>3
  <2>5. Outcome(p, ribIn[p], s.paths, new)
    BY <1>5, <2>2
  <2>6. after[i].paths = new /\ (~after[i].changed => ~s.changed /\ ~BestChanged(s.paths, new, p, One(i, s).renewed))
    <3>. DEFINE b == BestChanged(s.paths, new, p, One(i, s).renewed)
    <3>1. after[i] = [paths |-> new, changed |-> s.changed \/ b]
      BY <2>3
    <3>. HIDE DEF b, new, s
    <3>2. after[i].paths = new /\ after[i].changed = (s.changed \/ b)
      BY <3>1
    <3>3. after[i].paths = new /\ (~after[i].changed => ~s.changed /\ ~b)
      BY <3>2, Zenon
    <3>. QED
      BY <3>3 DEF b
  <2>. HIDE DEF s, new
  <2>7. ~after[i].changed => Best(after[i].paths) = Best(loc)
    BY <2>2, <2>6 DEF BestChanged
  <2>8. p \in Heard
    BY <1>3
  <2>9. \A q \in Done(i) : q = p \/ q \in Done(i - 1)
    BY <1>3
  <2>. HIDE DEF p, Done
  <2>10. ASSUME NEW x \in new, x.src # Local PROVE x.src \in Heard /\ (x.src \in Done(i) => Revalidated(x))
    <3>1. CASE x.src = p
      BY <2>5, <2>8, <3>1 DEF Outcome, Revalidated
    <3>2. CASE x.src # p
      <4>1. x \in s.paths
        BY <2>5, <3>2 DEF Outcome, Without
      <4>. QED
        BY <2>2, <2>9, <2>10, <3>2, <4>1
    <3>. QED
      BY <3>1, <3>2
  <2>. QED
    BY <2>1, <2>4, <2>6, <2>7, <2>10
<1>14. after[n] \in T[n]
  <2>1. n \in Nat /\ n \in 0..n
    BY <1>3
  <2>2. \A i \in 0..n : after[i] \in T[i]
    <3>. HIDE DEF T
    <3>. QED
      BY <1>12, <1>13, <2>1, AllStages, Zenon
  <2>. QED
    BY <2>1, <2>2
<1>15. /\ after[n] \in S /\ (~after[n].changed => Best(after[n].paths) = Best(loc))
       /\ \A x \in after[n].paths : x.src # Local => x.src \in Heard /\ (x.src \in Done(n) => Revalidated(x))
  <2>1. n \in 0..n
    BY <1>3
  <2>. HIDE DEF Done
  <2>. QED
    BY <1>14, <2>1
<1>16. Heard \in SUBSET Done(n)
  BY <1>3
<1>17. Heard = {} => after[n].paths = loc
  <2>1. Heard = {} => n = 0
    BY <1>3, FS_EmptySet
  <2>. QED
    BY <1>4, <1>11, <2>1
<1>. HIDE DEF Done
<1>. QED
  BY <1>1, <1>15, <1>16, <1>17 DEF S

-----------------------------------------------------------------------------
(* Export *)

LEMMA BestSubset == \A S : Best(S) \in SUBSET S
BY DEF Best

LEMMA SelectSubset ==
  ASSUME NEW p, NEW paths
  PROVE  SelectPaths(p, paths) \in SUBSET paths
<1>1. \A S : Best(S) \in SUBSET S
  BY BestSubset
<1>. QED
  BY <1>1 DEF SelectPaths

\* A peer is not sent its own paths: what it says changes nothing for it, if its
\* selection is not the global best path.
LEMMA OwnPathsDoNotCount ==
  ASSUME NEW p \in AddPath \cup RsClients, NEW old, NEW new, Without(new, p) = Without(old, p)
  PROVE  SelectPaths(p, new) = SelectPaths(p, old)
<1>. DEFINE Exportable(S) == {x \in S : ShouldExport(p, x)}
<1>1. Exportable(new) = Exportable(old)
  BY DEF Without, ShouldExport
<1>2. \A S : SelectPaths(p, S) = IF p \in AddPath THEN Exportable(S) ELSE Best(Exportable(S))
  BY DEF SelectPaths
<1>. HIDE DEF Exportable
<1>. QED
  BY <1>1, <1>2

\* A peer that gets best paths is not concerned while the best path stays.
LEMMA OnlyBestCounts ==
  ASSUME NEW p, p \notin AddPath \cup RsClients, NEW old, NEW new, Best(new) = Best(old)
  PROVE  SelectPaths(p, new) = SelectPaths(p, old)
<1>1. \A S : Best(S) \in SUBSET S
  BY BestSubset
<1>2. \A S : SelectPaths(p, S) = Best(S) \cap {x \in S : ShouldExport(p, x)}
  BY DEF SelectPaths
<1>3. \A S : SelectPaths(p, S) = {x \in Best(S) : ShouldExport(p, x)}
  BY <1>1, <1>2
<1>. QED
  BY <1>3

\* The peers that propagate_routes passes over would be sent what they have.
LEMMA PassedOver ==
  ASSUME NEW old, NEW new, NEW p,
         \/ new = old
         \/ p \in AddPath \cup RsClients /\ Without(new, p) = Without(old, p)
         \/ p \notin AddPath \cup RsClients /\ Best(new) = Best(old)
  PROVE  SelectPaths(p, new) = SelectPaths(p, old)
BY OwnPathsDoNotCount, OnlyBestCounts

\* After the UPDATEs the peer has what was selected and nothing else: what it had
\* was replaced or withdrawn.
LEMMA ToldIsSelected ==
  ASSUME Oversize = {}, NEW p, NEW out, NEW has, has = {Sent(p, x) : x \in out}, NEW export
  PROVE  ToldAfter(p, has, export, {x \in out : \A y \in export : y.id # x.id}) = {Sent(p, x) : x \in export}
<1>. DEFINE stale == {x \in out : \A y \in export : y.id # x.id}
            withdrawn == IF p \in AddPath THEN {x.id : x \in stale}
                         ELSE IF export = {} /\ stale # {} THEN {0} ELSE {}
            news == {Sent(p, x) : x \in export}
            kept == {u \in has : u.nlri \notin withdrawn /\ \A n \in news : n.nlri # u.nlri}
<1>1. {y \in export : y.attr \notin Oversize} = export
  OBVIOUS
<1>2. ToldAfter(p, has, export, stale) = kept \cup news
  BY <1>1 DEF ToldAfter
<1>3. \A x : Sent(p, x).nlri = IF p \in AddPath THEN x.id ELSE 0
  BY DEF Sent, Nlri
<1>4. ASSUME NEW u \in kept PROVE FALSE
  <2>1. PICK x \in out : u = Sent(p, x)
    BY <1>4
  <2>2. CASE p \in AddPath
    <3>1. CASE x \in stale
      BY <1>3, <1>4, <2>1, <2>2, <3>1
    <3>2. CASE x \notin stale
      <4>1. PICK y \in export : y.id = x.id
        BY <3>2
      <4>2. Sent(p, y) \in news /\ Sent(p, y).nlri = u.nlri
        BY <1>3, <2>1, <2>2, <4>1
      <4>. QED
        BY <1>4, <4>2
    <3>. QED
      BY <3>1, <3>2
  <2>3. CASE p \notin AddPath
    <3>1. CASE export = {}
      <4>1. x \in stale
        BY <3>1
      <4>. QED
        BY <1>3, <1>4, <2>1, <2>3, <3>1, <4>1
    <3>2. CASE export # {}
      <4>1. PICK y \in export : TRUE
        BY <3>2
      <4>2. Sent(p, y) \in news /\ Sent(p, y).nlri = u.nlri
        BY <1>3, <2>1, <2>3, <4>1
      <4>. QED
        BY <1>4, <4>2
    <3>. QED
      BY <3>1, <3>2
  <2>. QED
    BY <2>2, <2>3
<1>. QED
  BY <1>2, <1>4, Zenon

\* An Adj-RIB-Out and what the peers have.
Outs(out, has) ==
  /\ out \in [Peers -> SUBSET Paths] /\ has = [p \in Peers |-> has[p]]
  /\ \A p \in Peers : \A x, y \in out[p] : x.id = y.id => x = y
  /\ Oversize = {} => \A p \in Peers : has[p] = {Sent(p, x) : x \in out[p]}

LEMMA ExportToOuts ==
  ASSUME NEW targets, NEW paths, Rib(paths), NEW out, NEW has, Outs(out, has), ExportTo(targets, paths, out, has)
  PROVE  /\ Outs(ribOut', told')
         /\ \A p \in Peers : ribOut'[p] = IF p \in targets THEN SelectPaths(p, paths) ELSE out[p]
         /\ \A p \in Peers : p \notin targets => told'[p] = has[p]
<1>. DEFINE stale(p) == {x \in out[p] : \A y \in SelectPaths(p, paths) : y.id # x.id}
            after(p) == ToldAfter(p, has[p], SelectPaths(p, paths), stale(p))
<1>1. /\ ribOut' = [p \in Peers |-> IF p \in targets THEN SelectPaths(p, paths) ELSE out[p]]
      /\ told' = [p \in Peers |-> IF p \in targets THEN after(p) ELSE has[p]]
  BY DEF ExportTo
<1>2. \A p \in Peers : SelectPaths(p, paths) \in SUBSET paths
  BY SelectSubset
<1>3. paths \in SUBSET Paths
  BY DEF Rib
<1>4. ASSUME Oversize = {}, NEW p \in Peers PROVE after(p) = {Sent(p, x) : x \in SelectPaths(p, paths)}
  <2>1. has[p] = {Sent(p, x) : x \in out[p]}
    BY <1>4 DEF Outs
  <2>. QED
    BY <1>4, <2>1, ToldIsSelected
<1>. HIDE DEF after
<1>5. \A p \in Peers : ribOut'[p] = IF p \in targets THEN SelectPaths(p, paths) ELSE out[p]
  BY <1>1
<1>6. \A p \in Peers : told'[p] = IF p \in targets THEN after(p) ELSE has[p]
  BY <1>1
<1>7. ribOut' \in [Peers -> SUBSET Paths]
  <2>1. \A p \in Peers : SelectPaths(p, paths) \in SUBSET Paths /\ out[p] \in SUBSET Paths
    BY <1>2, <1>3 DEF Outs
  <2>. QED
    BY <1>1, <2>1
<1>8. told' = [p \in Peers |-> told'[p]]
  BY <1>1
<1>9. \A p \in Peers : \A x, y \in ribOut'[p] : x.id = y.id => x = y
  BY <1>2, <1>5 DEF Outs, Rib
<1>10. ASSUME Oversize = {}, NEW p \in Peers PROVE told'[p] = {Sent(p, x) : x \in ribOut'[p]}
  <2>1. CASE p \in targets
    BY <1>4, <1>5, <1>6, <1>10, <2>1
  <2>2. CASE p \notin targets
    BY <1>5, <1>6, <1>10, <2>2, Zenon DEF Outs
  <2>. QED
    BY <2>1, <2>2
<1>. QED
  BY <1>5, <1>6, <1>7, <1>8, <1>9, <1>10 DEF Outs

-----------------------------------------------------------------------------
(* The invariant *)

\* Sessions, LastSaidHolds and LocIsValidated of another state of the same network.
Held(est, in, paths, out, has, sd) ==
  /\ \A p \in Peers \ est : out[p] = {} /\ has[p] = {} /\ in[p] = None /\ sd[p] = None
  /\ \A x \in paths : x.src # Local => x.src \in est /\ in[x.src] # None

LastSaid(est, paths, sd) ==
  MaxBatch = 1 \/ ~VrpsChange =>
    /\ \A x \in paths : x.src # Local => x.src \in est /\ sd[x.src] = x.attr
    /\ ~VrpsChange /\ (MaxBatch = 1 \/ Looped = {}) =>
         \A p \in est : sd[p] # None => (sd[p] \notin Looped <=> \E x \in paths : x.src = p)

Validated(paths, inv) ==
  \A x \in paths : x.src # Local => x.invalid = (x.attr \in inv) /\ ~(RejectsInvalid /\ x.invalid)

Synced(est, paths, out) == \A p \in est \ Exempt : out[p] = SelectPaths(p, paths)

Sound(est, in, paths, out, inv, has, sd) ==
  /\ est \in SUBSET Peers /\ inv \in SUBSET Attrs
  /\ in \in [Peers -> Attrs \cup {None}] /\ sd \in [Peers -> Attrs \cup {None}]
  /\ Rib(paths) /\ Outs(out, has) /\ Held(est, in, paths, out, has, sd)
  /\ MaxBatch = 1 => sd = in
  /\ ~VrpsChange => inv = {}
  /\ LastSaid(est, paths, sd) /\ Validated(paths, inv) /\ Synced(est, paths, out)

\* The network does not change: the invariant, with the variables as parameters.
LEMMA InvIsSound ==
  Inv <=> setup \in Setups /\ Sound(established, ribIn, loc, ribOut, invalid, told, said)
<1>. USE DEF Sound, Inv, Types, Outs, Held, Sessions, InIsSaid, LastSaid, LastSaidHolds, LocIsLastSaid,
             Validated, LocIsValidated, Synced, ExportsInSync
<1>1. ASSUME Inv PROVE Sound(established, ribIn, loc, ribOut, invalid, told, said)
  <2>1. Oversize = {} => \A p \in Peers : told[p] = {Sent(p, x) : x \in ribOut[p]}
    <3>1. \A p \in Peers \ established : told[p] = {} /\ ribOut[p] = {}
      BY <1>1
    <3>2. Oversize = {} => \A p \in established : told[p] = {Sent(p, x) : x \in ribOut[p]}
      BY <1>1, Zenon DEF RibOutIsTold
    <3>. QED
      BY <3>1, <3>2
  <2>. QED
    BY <1>1, <2>1 DEF PathIdsDistinct
<1>2. ASSUME setup \in Setups, Sound(established, ribIn, loc, ribOut, invalid, told, said) PROVE Inv
  BY <1>2 DEF PathIdsDistinct, RibOutIsTold, Rib
<1>. QED
  BY <1>1, <1>2

LEMMA InvIsSoundNext ==
  Inv' <=> (setup \in Setups)' /\ Sound(established, ribIn, loc, ribOut, invalid, told, said)'
BY InvIsSound, PTL

LEMMA SoundIsInvNext ==
  ASSUME setup \in Setups, setup' = setup, Sound(established', ribIn', loc', ribOut', invalid', told', said')
  PROVE  Inv'
<1>1. Sound(established, ribIn, loc, ribOut, invalid, told, said)'
        <=> Sound(established', ribIn', loc', ribOut', invalid', told', said')
  <2>1. Peers' = Peers /\ Paths' = Paths /\ MaxBatch' = MaxBatch /\ VrpsChange' = VrpsChange /\ Looped' = Looped
        /\ Oversize' = Oversize /\ Exempt' = Exempt /\ RejectsInvalid' = RejectsInvalid
    BY DEF Peers, Paths, MaxBatch, VrpsChange, Looped, Oversize, Exempt, Speakers, AddPath, RsClients, RejectsInvalid
  <2>2. Rib(loc)' <=> Rib(loc')
    BY <2>1 DEF Rib
  <2>3. Outs(ribOut, told)' <=> Outs(ribOut', told')
    BY <2>1 DEF Outs, Sent, Nlri, AddPath
  <2>4. Held(established, ribIn, loc, ribOut, told, said)' <=> Held(established', ribIn', loc', ribOut', told', said')
    BY <2>1 DEF Held
  <2>5. LastSaid(established, loc, said)' <=> LastSaid(established', loc', said')
    BY <2>1 DEF LastSaid
  <2>6. Validated(loc, invalid)' <=> Validated(loc', invalid')
    BY <2>1 DEF Validated
  <2>7. Synced(established, loc, ribOut)' <=> Synced(established', loc', ribOut')
    <3>1. ASSUME NEW p PROVE SelectPaths(p, loc)' = SelectPaths(p, loc')
      BY DEF SelectPaths, ShouldExport, Best, Better, Rank, AddPath, RsClients, Ibgp, RrClients, Denied
    <3>. QED
      BY <2>1, <3>1 DEF Synced
  <2>. QED
    BY <2>1, <2>2, <2>3, <2>4, <2>5, <2>6, <2>7, ZenonT(60) DEF Sound
<1>. QED
  BY <1>1, InvIsSoundNext

-----------------------------------------------------------------------------
(* Updates from peers *)

LEMMA StoreInIs ==
  ASSUME NEW routes \in Seq(Routes), routes # <<>>
  PROVE  /\ StoreIn(routes) \in Attrs \cup {None}
         /\ routes[Len(routes)] # Withdraw => StoreIn(routes) # None
         /\ Len(routes) = 1 => StoreIn(routes) = routes[1]
<1>. DEFINE announced == {i \in DOMAIN routes : routes[i] # Withdraw}
            last == CHOOSE i \in announced : \A j \in announced : j <= i
<1>1. StoreIn(routes) = IF announced = {} THEN None ELSE routes[last]
  BY DEF StoreIn
<1>2. Len(routes) \in Nat \ {0} /\ DOMAIN routes = 1..Len(routes)
  OBVIOUS
<1>3. \A i \in announced : i \in 1..Len(routes) /\ routes[i] \in Attrs /\ routes[i] # Withdraw
  BY <1>2 DEF Routes
<1>4. announced # {} => last \in announced
  <2>1. announced \in SUBSET (0..Len(routes))
    BY <1>2, <1>3
  <2>2. announced # {} => \E i \in announced : \A j \in announced : j <= i
    <3>. HIDE DEF announced
    <3>. QED
      BY <1>2, <2>1, GreatestExists, Zenon
  <2>. QED
    BY <2>2
<1>5. routes[Len(routes)] # Withdraw => Len(routes) \in announced
  BY <1>2
<1>. HIDE DEF last
<1>6. Len(routes) = 1 => StoreIn(routes) = routes[1]
  <2>1. CASE routes[1] = Withdraw /\ Len(routes) = 1
    <3>1. announced = {}
      BY <1>2, <2>1
    <3>. QED
      BY <1>1, <2>1, <3>1 DEF None, Withdraw
  <2>2. CASE routes[1] # Withdraw /\ Len(routes) = 1
    <3>1. announced # {} /\ last = 1
      BY <1>3, <1>4, <1>5, <2>2
    <3>. QED
      BY <1>1, <3>1
  <2>. QED
    BY <2>1, <2>2
<1>. HIDE DEF announced
<1>. QED
  BY <1>1, <1>3, <1>4, <1>5, <1>6 DEF None, Withdraw

LEMMA RejectIs ==
  ASSUME NEW routes \in Seq(Routes), routes # <<>>
  PROVE  /\ RejectAnnouncements(routes) \in Seq(Routes) /\ RejectAnnouncements(routes) # <<>>
         /\ Len(RejectAnnouncements(routes)) = Len(routes)
         /\ RejectAnnouncements(routes)[Len(routes)] \in {routes[Len(routes)], Withdraw}
         /\ Looped = {} => RejectAnnouncements(routes) = routes
         /\ Len(routes) = 1 => RejectAnnouncements(routes)[1] = IF routes[1] \in Looped THEN Withdraw ELSE routes[1]
<1>. DEFINE loops == \E i \in DOMAIN routes : routes[i] \in Looped /\ \A j \in 1..(i - 1) : routes[j] = Withdraw
            none == [i \in DOMAIN routes |-> Withdraw]
<1>1. RejectAnnouncements(routes) = IF loops THEN none ELSE routes
  BY DEF RejectAnnouncements
<1>2. Len(routes) \in Nat \ {0} /\ DOMAIN routes = 1..Len(routes)
  OBVIOUS
<1>3. none \in Seq(Routes) /\ Len(none) = Len(routes) /\ \A i \in 1..Len(routes) : none[i] = Withdraw
  BY <1>2 DEF Routes
<1>4. none # <<>>
  BY <1>2, <1>3, Zenon
<1>5. Len(routes) = 1 => (loops <=> routes[1] \in Looped)
  <2>1. 1..(1 - 1) = {}
    OBVIOUS
  <2>. QED
    BY <1>2, <2>1
<1>6. Looped = {} => ~loops
  OBVIOUS
<1>. HIDE DEF none, loops
<1>. QED
  BY <1>1, <1>2, <1>3, <1>4, <1>5, <1>6

LEMMA BatchIsSeq ==
  ASSUME setup \in Setups, NEW routes \in Batches
  PROVE  routes \in Seq(Routes) /\ routes # <<>> /\ (MaxBatch = 1 => Len(routes) = 1)
<1>1. MaxBatch \in Nat
  BY PropagationAssumption DEF MaxBatch
<1>2. PICK n \in 1..MaxBatch : routes \in [1..n -> Routes]
  BY DEF Batches, Routes
<1>3. routes \in Seq(Routes) /\ Len(routes) = n
  BY <1>1, <1>2
<1>. QED
  BY <1>1, <1>2, <1>3

LEMMA PeerUpdateSound ==
  ASSUME Inv, NEW p \in Peers, NEW routes \in Batches, PeerUpdate(p, routes)
  PROVE  Inv'
<1>. DEFINE R == RejectAnnouncements(routes)
            n == Len(routes)
            s == ApplyUpdate(loc, p, R)
            bc == BestChanged(loc, s.paths, p, s.renewed)
            targets == Targets(TRUE, bc, p)
<1>1. setup \in Setups /\ Sound(established, ribIn, loc, ribOut, invalid, told, said)
  BY InvIsSound
<1>2. /\ p \in established /\ p \in Speakers
      /\ said' = [said EXCEPT ![p] = routes[n]] /\ ribIn' = [ribIn EXCEPT ![p] = StoreIn(routes)]
      /\ setup' = setup /\ established' = established /\ invalid' = invalid
      /\ loc' = s.paths /\ ExportTo(targets, s.paths, ribOut, told)
  BY Zenon DEF PeerUpdate
<1>3. /\ routes \in Seq(Routes) /\ routes # <<>> /\ n \in Nat \ {0} /\ routes[n] \in Routes
      /\ MaxBatch = 1 => n = 1
  BY <1>1, BatchIsSeq
<1>4. /\ StoreIn(routes) \in Attrs \cup {None} /\ (routes[n] # Withdraw => StoreIn(routes) # None)
      /\ n = 1 => StoreIn(routes) = routes[1]
  BY <1>3, StoreInIs
<1>5. /\ R \in Seq(Routes) /\ R # <<>> /\ Len(R) = n /\ R[n] \in {routes[n], Withdraw}
      /\ Looped = {} => R = routes
      /\ n = 1 => R[1] = IF routes[1] \in Looped THEN Withdraw ELSE routes[1]
  BY <1>3, RejectIs, Zenon
<1>6. Rib(loc) /\ Outs(ribOut, told) /\ p \in Sources /\ p # Local
  BY <1>1, PropagationAssumption DEF Sound, Sources, Peers
<1>7. Outcome(p, R[n], loc, loc')
  <2>. HIDE DEF R, n
  <2>. QED
    BY <1>2, <1>5, <1>6, ApplyUpdateOutcome, Zenon
<1>8. Rib(loc') /\ Without(loc', p) = Without(loc, p)
  BY <1>7, Zenon DEF Outcome
<1>9. ASSUME NEW x \in loc', x.src = p
      PROVE  R[n] = routes[n] /\ routes[n] # Withdraw /\ x.attr = routes[n] /\ x.invalid = (x.attr \in invalid)
             /\ ~(RejectsInvalid /\ x.attr \in invalid)
  BY <1>2, <1>5, <1>7, <1>9, Zenon DEF Outcome, Imports
<1>10. \A x : x.src # p => (x \in loc' <=> x \in loc)
  BY <1>8 DEF Without
<1>11. /\ Outs(ribOut', told')
       /\ \A q \in Peers : ribOut'[q] = IF q \in targets THEN SelectPaths(q, loc') ELSE ribOut[q]
       /\ \A q \in Peers : q \notin targets => told'[q] = told[q]
  <2>. HIDE DEF s, targets
  <2>. QED
    <3>1. PICK ts, paths, out, has : ts = targets /\ paths = loc' /\ out = ribOut /\ has = told
      BY Zenon
    <3>2. Rib(paths) /\ Outs(out, has) /\ ExportTo(ts, paths, out, has)
      BY <1>2, <1>6, <1>8, <3>1, Zenon
    <3>3. /\ Outs(ribOut', told')
          /\ \A q \in Peers : ribOut'[q] = IF q \in ts THEN SelectPaths(q, paths) ELSE out[q]
          /\ \A q \in Peers : q \notin ts => told'[q] = has[q]
      BY <3>2, ExportToOuts
    <3>. QED
      BY <3>1, <3>3, Zenon
<1>12. Synced(established', loc', ribOut')
  <2>1. SUFFICES ASSUME NEW q \in established \ Exempt, q \notin targets PROVE ribOut[q] = SelectPaths(q, loc')
    <3>. HIDE DEF targets
    <3>1. established \in SUBSET Peers
      BY <1>1 DEF Sound
    <3>. QED
      BY <1>2, <1>11, <3>1, Zenon DEF Synced
  <2>2. ribOut[q] = SelectPaths(q, loc)
    BY <1>1 DEF Sound, Synced
  <2>3. q = p => q \in AddPath \cup RsClients
    BY <1>2, <2>1, Zenon DEF Exempt
  <2>4. ~bc => Best(loc') = Best(loc)
    BY <1>2 DEF BestChanged
  <2>. HIDE DEF bc
  <2>5. q # p => q \notin AddPath \cup RsClients /\ ~bc
    BY <2>1 DEF Targets
  <2>6. SelectPaths(q, loc') = SelectPaths(q, loc)
    BY <1>8, <2>3, <2>4, <2>5, PassedOver
  <2>. QED
    BY <2>2, <2>6
<1>. HIDE DEF R, n, s, bc
<1>13. Held(established', ribIn', loc', ribOut', told', said')
  <2>1. ASSUME NEW q \in Peers \ established'
        PROVE  ribOut'[q] = {} /\ told'[q] = {} /\ ribIn'[q] = None /\ said'[q] = None
    <3>1. q \notin targets /\ q # p
      BY <1>2, Zenon DEF Targets
    <3>. HIDE DEF targets
    <3>2. ribOut[q] = {} /\ told[q] = {} /\ ribIn[q] = None /\ said[q] = None
      BY <1>1, <1>2, Zenon DEF Sound, Held
    <3>3. ribIn'[q] = ribIn[q] /\ said'[q] = said[q]
      BY <1>1, <1>2, <3>1 DEF Sound
    <3>. QED
      BY <1>11, <3>1, <3>2, <3>3
  <2>. HIDE DEF targets
  <2>2. ASSUME NEW x \in loc', x.src # Local PROVE x.src \in established' /\ ribIn'[x.src] # None
    <3>1. CASE x.src = p
      BY <1>1, <1>2, <1>4, <1>9, <3>1, Zenon DEF Sound
    <3>2. CASE x.src # p
      <4>1. x \in loc /\ x.src \in established /\ ribIn[x.src] # None /\ established \in SUBSET Peers
        BY <1>1, <1>10, <2>2, <3>2 DEF Sound, Held
      <4>. QED
        BY <1>1, <1>2, <3>2, <4>1, Zenon DEF Sound
    <3>. QED
      BY <3>1, <3>2, Zenon
  <2>. QED
    BY <2>1, <2>2, Zenon DEF Held
<1>. HIDE DEF targets
<1>14. Validated(loc', invalid')
  <2>1. SUFFICES ASSUME NEW x \in loc', x.src # Local
                 PROVE  x.invalid = (x.attr \in invalid) /\ ~(RejectsInvalid /\ x.invalid)
    BY <1>2 DEF Validated
  <2>2. CASE x.src = p
    <3>1. x.invalid = (x.attr \in invalid) /\ ~(RejectsInvalid /\ x.attr \in invalid)
      BY <1>9, <2>2, Zenon
    <3>. QED
      BY <3>1, Zenon
  <2>3. CASE x.src # p
    <3>1. x \in loc
      BY <1>10, <2>3, Zenon
    <3>. QED
      BY <1>1, <2>1, <3>1 DEF Sound, Validated
  <2>. QED
    BY <2>2, <2>3, Zenon
<1>15. LastSaid(established', loc', said')
  <2>0. said \in [Peers -> Attrs \cup {None}] /\ established \in SUBSET Peers
    BY <1>1, Zenon DEF Sound
  <2>1. SUFFICES ASSUME MaxBatch = 1 \/ ~VrpsChange
                 PROVE  /\ \A x \in loc' : x.src # Local => x.src \in established /\ said'[x.src] = x.attr
                        /\ ~VrpsChange /\ (MaxBatch = 1 \/ Looped = {}) =>
                             \A q \in established : said'[q] # None => (said'[q] \notin Looped <=> \E x \in loc' : x.src = q)
    BY <1>2 DEF LastSaid
  <2>2. /\ \A x \in loc : x.src # Local => x.src \in established /\ said[x.src] = x.attr
        /\ ~VrpsChange /\ (MaxBatch = 1 \/ Looped = {}) =>
             \A q \in established : said[q] # None => (said[q] \notin Looped <=> \E x \in loc : x.src = q)
    BY <1>1, <2>1 DEF Sound, LastSaid
  <2>3. said'[p] = routes[n] /\ \A q \in established : q # p => said'[q] = said[q]
    BY <1>2, <2>0, Zenon
  <2>4. ASSUME NEW x \in loc', x.src # Local PROVE x.src \in established /\ said'[x.src] = x.attr
    <3>1. CASE x.src = p
      BY <1>2, <1>9, <2>3, <3>1, Zenon
    <3>2. CASE x.src # p
      BY <1>10, <2>2, <2>3, <2>4, <3>2, Zenon
    <3>. QED
      BY <3>1, <3>2, Zenon
  <2>5. ASSUME ~VrpsChange, MaxBatch = 1 \/ Looped = {}, NEW q \in established, said'[q] # None
        PROVE  said'[q] \notin Looped <=> \E x \in loc' : x.src = q
    <3>1. CASE q # p
      <4>1. (\E x \in loc' : x.src = q) <=> (\E x \in loc : x.src = q)
        BY <1>10, <3>1
      <4>2. said'[q] = said[q]
        BY <2>3, <3>1
      <4>. QED
        BY <2>2, <2>5, <4>1, <4>2
    <3>2. CASE q = p
      <4>1. invalid' = {} /\ Imports(R[n])
        BY <1>1, <1>2, <2>5, Zenon DEF Sound, Imports
      <4>2. (\E x \in loc' : x.src = p) <=> R[n] # Withdraw
        BY <1>7, <4>1, Zenon DEF Outcome
      <4>3. routes[n] # Withdraw /\ said'[q] = routes[n]
        BY <2>3, <2>5, <3>2, Zenon DEF None, Withdraw
      <4>4. CASE Looped = {}
        BY <1>5, <3>2, <4>2, <4>3, <4>4, Zenon
      <4>5. CASE MaxBatch = 1
        BY <1>3, <1>5, <3>2, <4>2, <4>3, <4>5, Zenon
      <4>. QED
        BY <2>5, <4>4, <4>5, Zenon
    <3>. QED
      BY <3>1, <3>2, Zenon
  <2>. QED
    BY <2>4, <2>5
<1>16. /\ established' \in SUBSET Peers /\ invalid' \in SUBSET Attrs
       /\ ribIn' \in [Peers -> Attrs \cup {None}] /\ said' \in [Peers -> Attrs \cup {None}]
       /\ ~VrpsChange => invalid' = {}
  BY <1>1, <1>2, <1>3, <1>4 DEF Sound, Routes, None, Withdraw
<1>17. MaxBatch = 1 => said' = ribIn'
  BY <1>1, <1>2, <1>3, <1>4, Zenon DEF Sound
<1>18. Sound(established', ribIn', loc', ribOut', invalid', told', said')
  BY <1>8, <1>11, <1>12, <1>13, <1>14, <1>15, <1>16, <1>17, ZenonT(60) DEF Sound
<1>. QED
  BY <1>1, <1>2, <1>18, SoundIsInvNext

-----------------------------------------------------------------------------
(* The other operations *)

\* Local routes come and go, or nothing does and a peer is sent all there is again.
LEMMA LocalChangeSound ==
  ASSUME Inv, NEW targets \in SUBSET established, Rib(loc'), Without(loc', Local) = Without(loc, Local),
         ExportTo(targets, loc', ribOut, told), UNCHANGED <<setup, established, ribIn, invalid, said>>,
         \A q \in established : q \notin targets => SelectPaths(q, loc') = SelectPaths(q, loc)
  PROVE  Inv'
<1>1. setup \in Setups /\ Sound(established, ribIn, loc, ribOut, invalid, told, said)
  BY InvIsSound
<1>2. established \in SUBSET Peers /\ Outs(ribOut, told)
  BY <1>1, Zenon DEF Sound
<1>3. /\ Outs(ribOut', told')
      /\ \A q \in Peers : ribOut'[q] = IF q \in targets THEN SelectPaths(q, loc') ELSE ribOut[q]
      /\ \A q \in Peers : q \notin targets => told'[q] = told[q]
  BY <1>2, ExportToOuts
<1>4. \A x : x.src # Local => (x \in loc' <=> x \in loc)
  BY Zenon DEF Without
<1>5. Synced(established', loc', ribOut')
  BY <1>1, <1>2, <1>3 DEF Sound, Synced
<1>6. Held(established', ribIn', loc', ribOut', told', said')
  BY <1>1, <1>2, <1>3, <1>4, Zenon DEF Sound, Held
<1>7. Validated(loc', invalid')
  BY <1>1, <1>4, Zenon DEF Sound, Validated
<1>8. LastSaid(established', loc', said')
  <2>1. Local \notin established
    BY <1>1, <1>2, PropagationAssumption, Zenon DEF Peers
  <2>2. \A q \in established : (\E x \in loc' : x.src = q) <=> (\E x \in loc : x.src = q)
    BY <1>4, <2>1
  <2>. QED
    BY <1>1, <1>4, <2>2 DEF Sound, LastSaid
<1>9. Sound(established', ribIn', loc', ribOut', invalid', told', said')
  BY <1>1, <1>3, <1>5, <1>6, <1>7, <1>8, Zenon DEF Sound
<1>. QED
  BY <1>1, <1>9, SoundIsInvNext

LEMMA AddLocalRouteSound ==
  ASSUME Inv, NEW attr \in setup.originated, AddLocalRoute(attr)
  PROVE  Inv'
<1>. DEFINE inv == FALSE
            up == Upsert(loc, Local, attr, inv)
            bc == BestChanged(loc, up, Local, \A x \in loc : x.src = Local => x.attr # attr)
            targets == Targets(TRUE, bc, Local)
<1>1. setup \in Setups /\ Rib(loc) /\ established \in SUBSET Peers
  BY InvIsSound, Zenon DEF Sound
<1>2. attr \in Attrs /\ Local \in Sources /\ inv \in BOOLEAN /\ Local \notin established
  BY <1>1, PropagationAssumption DEF Sources, Peers
<1>3. /\ loc' = up /\ ExportTo(targets, up, ribOut, told)
      /\ UNCHANGED <<setup, established, ribIn, invalid, said>>
  BY Zenon DEF AddLocalRoute
<1>. HIDE DEF inv
<1>4. Rib(up) /\ Without(up, Local) = Without(loc, Local)
  BY <1>1, <1>2, UpsertRib
<1>5. targets \in SUBSET established
  BY Zenon DEF Targets
<1>6. ~bc => Best(up) = Best(loc)
  BY DEF BestChanged
<1>. HIDE DEF up, bc
<1>7. ASSUME NEW q \in established, q \notin targets PROVE SelectPaths(q, up) = SelectPaths(q, loc)
  <2>1. q \notin AddPath \cup RsClients /\ ~bc
    BY <1>2, <1>7 DEF Targets
  <2>. QED
    BY <1>6, <2>1, PassedOver
<1>. HIDE DEF targets
<1>. QED
  BY <1>3, <1>4, <1>5, <1>7, LocalChangeSound, Zenon

LEMMA RemoveLocalRouteSound ==
  ASSUME Inv, RemoveLocalRoute
  PROVE  Inv'
<1>. DEFINE rest == Without(loc, Local)
            targets == Targets(rest # loc, Best(rest) # Best(loc), Local)
<1>1. setup \in Setups /\ Rib(loc) /\ established \in SUBSET Peers
  BY InvIsSound DEF Sound
<1>2. Local \notin established
  BY <1>1, PropagationAssumption, Zenon DEF Peers
<1>3. /\ loc' = rest /\ ExportTo(targets, rest, ribOut, told)
      /\ UNCHANGED <<setup, established, ribIn, invalid, said>>
  BY DEF RemoveLocalRoute, RemovePathsOf
<1>4. Rib(rest) /\ Without(rest, Local) = Without(loc, Local)
  BY <1>1, WithoutRib
<1>5. targets \in SUBSET established
  BY DEF Targets
<1>. HIDE DEF rest
<1>6. ASSUME NEW q \in established, q \notin targets PROVE SelectPaths(q, rest) = SelectPaths(q, loc)
  <2>1. rest = loc \/ (q \notin AddPath \cup RsClients /\ Best(rest) = Best(loc))
    BY <1>2, <1>6 DEF Targets
  <2>. QED
    BY <2>1, PassedOver
<1>. HIDE DEF targets
<1>. QED
  BY <1>3, <1>4, <1>5, <1>6, LocalChangeSound, Zenon

LEMMA RouteRefreshSound ==
  ASSUME Inv, NEW p \in Peers, RouteRefresh(p)
  PROVE  Inv'
<1>. DEFINE targets == IF loc = {} THEN {} ELSE {p}
<1>1. /\ p \in established /\ loc' = loc /\ ExportTo(targets, loc', ribOut, told)
      /\ UNCHANGED <<setup, established, ribIn, invalid, said>>
  BY DEF RouteRefresh
<1>2. Rib(loc') /\ Without(loc', Local) = Without(loc, Local)
  BY <1>1, InvIsSound DEF Sound
<1>3. targets \in SUBSET established /\ \A q \in established : SelectPaths(q, loc') = SelectPaths(q, loc)
  BY <1>1
<1>. HIDE DEF targets
<1>. QED
  BY <1>1, <1>2, <1>3, LocalChangeSound

\* A new session: the peer has nothing yet, and is sent all there is.
LEMMA PeerEstablishedSound ==
  ASSUME Inv, NEW p \in Peers, PeerEstablished(p)
  PROVE  Inv'
<1>. DEFINE targets == IF loc = {} THEN {} ELSE {p}
<1>1. setup \in Setups /\ Sound(established, ribIn, loc, ribOut, invalid, told, said)
  BY InvIsSound
<1>2. /\ p \notin established /\ established' = established \cup {p}
      /\ ExportTo(targets, loc, ribOut, told)
      /\ UNCHANGED <<setup, ribIn, loc, invalid, said>>
  BY DEF PeerEstablished
<1>3. established \in SUBSET Peers /\ Outs(ribOut, told) /\ Rib(loc)
  BY <1>1, Zenon DEF Sound
<1>4. ribOut[p] = {} /\ said[p] = None
  BY <1>1, <1>2, Zenon DEF Sound, Held
<1>5. /\ Outs(ribOut', told')
      /\ \A q \in Peers : ribOut'[q] = IF q \in targets THEN SelectPaths(q, loc) ELSE ribOut[q]
      /\ \A q \in Peers : q \notin targets => told'[q] = told[q]
  <2>. HIDE DEF targets
  <2>. QED
    BY <1>2, <1>3, ExportToOuts
<1>6. \A q \in targets : q = p
  OBVIOUS
<1>7. Synced(established', loc', ribOut')
  <2>1. SUFFICES ASSUME NEW q \in established' \ Exempt PROVE ribOut'[q] = SelectPaths(q, loc)
    BY <1>2, Zenon DEF Synced
  <2>2. CASE q \in targets
    BY <1>5, <1>6, <2>2
  <2>3. CASE q \notin targets /\ q = p
    <3>1. loc = {} /\ ribOut'[q] = {}
      BY <1>4, <1>5, <2>3
    <3>2. SelectPaths(q, loc) \in SUBSET loc
      BY SelectSubset
    <3>. QED
      BY <3>1, <3>2, Zenon
  <2>4. CASE q \notin targets /\ q # p
    BY <1>1, <1>2, <1>3, <1>5, <2>4, Zenon DEF Sound, Synced
  <2>. QED
    BY <2>2, <2>3, <2>4
<1>. HIDE DEF targets
<1>8. Held(established', ribIn', loc', ribOut', told', said')
  BY <1>1, <1>2, <1>3, <1>5, <1>6, Zenon DEF Sound, Held
<1>9. LastSaid(established', loc', said') /\ Validated(loc', invalid')
  BY <1>1, <1>2, <1>4, Zenon DEF Sound, LastSaid, Validated
<1>10. Sound(established', ribIn', loc', ribOut', invalid', told', said')
  BY <1>1, <1>2, <1>3, <1>5, <1>7, <1>8, <1>9, Zenon DEF Sound
<1>. QED
  BY <1>1, <1>2, <1>10, SoundIsInvNext

\* A session ends: what came from the peer is gone, and so is what it was told.
LEMMA PeerDisconnectedSound ==
  ASSUME Inv, NEW p \in Peers, PeerDisconnected(p)
  PROVE  Inv'
<1>. DEFINE rest == Without(loc, p)
            targets == Targets(rest # loc, Best(rest) # Best(loc), p)
            out == [ribOut EXCEPT ![p] = {}]
            has == [told EXCEPT ![p] = {}]
<1>1. setup \in Setups /\ Sound(established, ribIn, loc, ribOut, invalid, told, said)
  BY InvIsSound
<1>2. /\ p \in established /\ established' = established \ {p}
      /\ ribIn' = [ribIn EXCEPT ![p] = None] /\ said' = [said EXCEPT ![p] = None]
      /\ setup' = setup /\ invalid' = invalid
      /\ loc' = rest /\ ExportTo(targets, rest, out, has)
  BY Zenon DEF PeerDisconnected, RemovePathsOf
<1>3. established \in SUBSET Peers /\ Outs(ribOut, told) /\ Rib(loc) /\ p # Local
  BY <1>1, PropagationAssumption DEF Sound, Peers
<1>4. Rib(rest) /\ \A x \in rest : x \in loc /\ x.src # p
  BY <1>3, WithoutRib DEF Without
<1>5. /\ out[p] = {} /\ has[p] = {}
      /\ \A q \in Peers : q # p => out[q] = ribOut[q] /\ has[q] = told[q]
  BY <1>3 DEF Outs
<1>6. Outs(out, has)
  <2>1. out \in [Peers -> SUBSET Paths] /\ has = [q \in Peers |-> has[q]]
    BY <1>3, Zenon DEF Outs
  <2>. HIDE DEF out, has
  <2>2. Oversize = {} => \A q \in Peers : has[q] = {Sent(q, x) : x \in out[q]}
    <3>1. SUFFICES ASSUME Oversize = {}, NEW q \in Peers PROVE has[q] = {Sent(q, x) : x \in out[q]}
      OBVIOUS
    <3>2. CASE q = p
      BY <1>5, <3>2
    <3>3. CASE q # p
      BY <1>3, <1>5, <3>1, <3>3, Zenon DEF Outs
    <3>. QED
      BY <3>2, <3>3
  <2>3. \A q \in Peers : \A x, y \in out[q] : x.id = y.id => x = y
    BY <1>3, <1>5 DEF Outs
  <2>. QED
    BY <2>1, <2>2, <2>3 DEF Outs
<1>7. \A q \in targets : q \in established /\ q # p
  BY DEF Targets
<1>8. ASSUME NEW q \in established, q # p, q \notin targets PROVE SelectPaths(q, rest) = SelectPaths(q, loc)
  <2>. HIDE DEF rest
  <2>1. rest = loc \/ (q \notin AddPath \cup RsClients /\ Best(rest) = Best(loc))
    BY <1>8, Zenon DEF Targets
  <2>. QED
    BY <2>1, PassedOver, Zenon
<1>. HIDE DEF targets, out, has
<1>9. /\ Outs(ribOut', told')
      /\ \A q \in Peers : ribOut'[q] = IF q \in targets THEN SelectPaths(q, rest) ELSE out[q]
      /\ \A q \in Peers : q \notin targets => told'[q] = has[q]
  <2>. HIDE DEF rest
  <2>. QED
    BY <1>2, <1>4, <1>6, ExportToOuts
<1>10. \A q : q # p => ((\E x \in rest : x.src = q) <=> (\E x \in loc : x.src = q))
  BY DEF Without
<1>. HIDE DEF rest
<1>11. Synced(established', loc', ribOut')
  BY <1>1, <1>2, <1>3, <1>5, <1>8, <1>9, ZenonT(60) DEF Sound, Synced
<1>12. \A q \in Peers : q # p => ribIn'[q] = ribIn[q] /\ said'[q] = said[q]
  BY <1>1, <1>2, Zenon DEF Sound
<1>13. ribIn'[p] = None /\ said'[p] = None
  BY <1>1, <1>2, Zenon DEF Sound
<1>14. Held(established', ribIn', loc', ribOut', told', said')
  <2>1. ASSUME NEW q \in Peers \ established'
        PROVE  ribOut'[q] = {} /\ told'[q] = {} /\ ribIn'[q] = None /\ said'[q] = None
    <3>1. q \notin targets /\ (q = p \/ q \notin established)
      BY <1>2, <1>7, Zenon
    <3>2. q # p => ribOut[q] = {} /\ told[q] = {} /\ ribIn[q] = None /\ said[q] = None
      BY <1>1, <3>1, Zenon DEF Sound, Held
    <3>. QED
      BY <1>5, <1>9, <1>12, <1>13, <3>1, <3>2, Zenon
  <2>2. ASSUME NEW x \in loc', x.src # Local PROVE x.src \in established' /\ ribIn'[x.src] # None
    <3>1. x \in loc /\ x.src # p
      BY <1>2, <1>4, Zenon
    <3>2. x.src \in established /\ ribIn[x.src] # None
      BY <1>1, <2>2, <3>1, Zenon DEF Sound, Held
    <3>. QED
      BY <1>2, <1>3, <1>12, <3>1, <3>2, Zenon
  <2>. QED
    BY <2>1, <2>2, Zenon DEF Held
<1>15. Validated(loc', invalid')
  BY <1>1, <1>2, <1>4, Zenon DEF Sound, Validated
<1>16. LastSaid(established', loc', said')
  <2>1. SUFFICES ASSUME MaxBatch = 1 \/ ~VrpsChange
                 PROVE  /\ \A x \in loc' : x.src # Local => x.src \in established' /\ said'[x.src] = x.attr
                        /\ ~VrpsChange /\ (MaxBatch = 1 \/ Looped = {}) =>
                             \A q \in established' : said'[q] # None => (said'[q] \notin Looped <=> \E x \in loc' : x.src = q)
    BY DEF LastSaid
  <2>2. /\ \A x \in loc : x.src # Local => x.src \in established /\ said[x.src] = x.attr
        /\ ~VrpsChange /\ (MaxBatch = 1 \/ Looped = {}) =>
             \A q \in established : said[q] # None => (said[q] \notin Looped <=> \E x \in loc : x.src = q)
    BY <1>1, <2>1 DEF Sound, LastSaid
  <2>. QED
    BY <1>2, <1>3, <1>4, <1>10, <1>12, <2>2, Zenon
<1>17. /\ established' \in SUBSET Peers /\ invalid' \in SUBSET Attrs
       /\ ribIn' \in [Peers -> Attrs \cup {None}] /\ said' \in [Peers -> Attrs \cup {None}]
       /\ (~VrpsChange => invalid' = {}) /\ (MaxBatch = 1 => said' = ribIn')
  BY <1>1, <1>2, Zenon DEF Sound
<1>18. Sound(established', ribIn', loc', ribOut', invalid', told', said')
  BY <1>2, <1>4, <1>9, <1>11, <1>14, <1>15, <1>16, <1>17, Zenon DEF Sound
<1>. QED
  BY <1>1, <1>2, <1>18, SoundIsInvNext, Zenon

\* Other VRPs: a path that is not revalidated is not in the Loc-RIB.
LEMMA VrpUpdateSound ==
  ASSUME Inv, NEW inv \in SUBSET Attrs, VrpUpdate(inv)
  PROVE  Inv'
<1>1. setup \in Setups /\ Sound(established, ribIn, loc, ribOut, invalid, told, said)
  BY InvIsSound, Zenon
<1>2. VrpsChange /\ invalid' = inv /\ UNCHANGED <<setup, established, ribIn, said>>
  BY DEF VrpUpdate
<1>3. established \in SUBSET Peers /\ Outs(ribOut, told) /\ Rib(loc) /\ ribIn \in [Peers -> Attrs \cup {None}]
  BY <1>1 DEF Sound
<1>4. CASE loc = {}
  <2>1. UNCHANGED <<loc, ribOut, told>>
    BY <1>4 DEF VrpUpdate
  <2>2. Validated(loc', invalid')
    BY <1>4, <2>1, Zenon DEF Validated
  <2>3. Sound(established', ribIn', loc', ribOut', invalid', told', said')
    BY <1>1, <1>2, <2>1, <2>2, Zenon DEF Sound
  <2>. QED
    BY <1>1, <1>2, <2>3, SoundIsInvNext, Zenon
<1>5. CASE loc # {}
  <2>1. PICK sources \in Bijection(1..Cardinality(Heard), Heard) :
          /\ loc' = ReevaluateRoutes(sources).paths
          /\ ExportTo(Targets(Heard # {}, ReevaluateRoutes(sources).changed, Local),
                      ReevaluateRoutes(sources).paths, ribOut, told)
    BY <1>5 DEF VrpUpdate, Heard
  <2>. DEFINE end == ReevaluateRoutes(sources)
              targets == Targets(Heard # {}, end.changed, Local)
  <2>2. IsFiniteSet(Heard)
    <3>1. Heard \in SUBSET Peers /\ IsFiniteSet(Peers)
      BY <1>1, PropagationAssumption, Zenon DEF Heard, Peers
    <3>. QED
      BY <3>1, FS_Subset, Zenon
  <2>3. \A x \in loc : x.src # Local => x.src \in Heard
    BY <1>1, <1>3 DEF Sound, Held, Heard
  <2>4. /\ Rib(loc') /\ \A x \in loc' : x.src # Local => Revalidated(x)
        /\ ~end.changed => Best(loc') = Best(loc)
        /\ Heard = {} => loc' = loc
    BY <1>1, <1>3, <2>1, <2>2, <2>3, ReevaluateOutcome, Zenon
  <2>5. \A q \in targets : q \in established
    BY DEF Targets
  <2>6. ASSUME NEW q \in established, q \notin targets PROVE SelectPaths(q, loc') = SelectPaths(q, loc)
    <3>. HIDE DEF end
    <3>1. q # Local
      BY <1>1, <1>3, PropagationAssumption DEF Peers
    <3>2. loc' = loc \/ (q \notin AddPath \cup RsClients /\ Best(loc') = Best(loc))
      BY <2>4, <2>6, <3>1 DEF Targets
    <3>. QED
      BY <3>2, PassedOver, Zenon
  <2>. HIDE DEF targets
  <2>7. /\ Outs(ribOut', told')
        /\ \A q \in Peers : ribOut'[q] = IF q \in targets THEN SelectPaths(q, loc') ELSE ribOut[q]
        /\ \A q \in Peers : q \notin targets => told'[q] = told[q]
    <3>1. loc' = end.paths /\ ExportTo(targets, end.paths, ribOut, told)
      BY <2>1, Zenon DEF targets
    <3>. HIDE DEF end
    <3>. QED
      <4>1. PICK ts, paths, out, has : ts = targets /\ paths = loc' /\ out = ribOut /\ has = told
        BY Zenon
      <4>2. Rib(paths) /\ Outs(out, has) /\ ExportTo(ts, paths, out, has)
        BY <1>3, <2>4, <3>1, <4>1, Zenon
      <4>3. /\ Outs(ribOut', told')
            /\ \A q \in Peers : ribOut'[q] = IF q \in ts THEN SelectPaths(q, paths) ELSE out[q]
            /\ \A q \in Peers : q \notin ts => told'[q] = has[q]
        BY <4>2, ExportToOuts
      <4>. QED
        BY <4>1, <4>3, Zenon
  <2>8. Synced(established', loc', ribOut')
    BY <1>1, <1>2, <1>3, <2>6, <2>7 DEF Sound, Synced
  <2>9. \A x \in loc' : x.src # Local =>
          x.src \in established /\ ribIn[x.src] # None /\ x.attr = ribIn[x.src]
    BY <1>1, <2>4, Zenon DEF Revalidated, Heard, Sound, Held
  <2>10. Held(established', ribIn', loc', ribOut', told', said')
    BY <1>1, <1>2, <2>5, <2>7, <2>9, Zenon DEF Sound, Held
  <2>11. Validated(loc', invalid')
    <3>1. SUFFICES ASSUME NEW x \in loc', x.src # Local
                   PROVE  x.invalid = (x.attr \in invalid') /\ ~(RejectsInvalid /\ x.invalid)
      BY DEF Validated
    <3>2. x.invalid = (x.attr \in invalid') /\ ~(RejectsInvalid /\ x.attr \in invalid')
      BY <2>4, <3>1, Zenon DEF Revalidated, Imports
    <3>. QED
      BY <3>2, Zenon
  <2>12. LastSaid(established', loc', said')
    BY <1>1, <1>2, <2>9 DEF Sound, LastSaid
  <2>13. Sound(established', ribIn', loc', ribOut', invalid', told', said')
    BY <1>1, <1>2, <2>4, <2>7, <2>8, <2>10, <2>11, <2>12, Zenon DEF Sound
  <2>. QED
    BY <1>1, <1>2, <2>13, SoundIsInvNext, Zenon
<1>. QED
  BY <1>4, <1>5

LEMMA InvInit == Init => Inv
<1>1. SUFFICES ASSUME Init PROVE setup \in Setups /\ Sound(established, ribIn, loc, ribOut, invalid, told, said)
  BY InvIsSound
<1>2. Rib(loc)
  BY <1>1, FS_EmptySet DEF Init, Rib
<1>3. Outs(ribOut, told)
  BY <1>1 DEF Init, Outs
<1>4. Synced(established, loc, ribOut) /\ Validated(loc, invalid) /\ LastSaid(established, loc, said)
  BY <1>1 DEF Init, Synced, Validated, LastSaid
<1>5. Held(established, ribIn, loc, ribOut, told, said)
  BY <1>1, Zenon DEF Init, Held
<1>. QED
  BY <1>1, <1>2, <1>3, <1>4, <1>5 DEF Init, Sound

LEMMA InvNext == Inv /\ [Next]_vars => Inv'
<1>1. SUFFICES ASSUME Inv, [Next]_vars PROVE Inv'
  OBVIOUS
<1>2. CASE UNCHANGED vars
  <2>1. Sound(established', ribIn', loc', ribOut', invalid', told', said') /\ setup' = setup /\ setup \in Setups
    BY <1>1, <1>2, InvIsSound DEF vars
  <2>. QED
    BY <2>1, SoundIsInvNext
<1>3. ASSUME NEW p \in Peers, PeerEstablished(p) PROVE Inv'
  BY <1>1, <1>3, PeerEstablishedSound
<1>4. ASSUME NEW p \in Peers, PeerDisconnected(p) PROVE Inv'
  BY <1>1, <1>4, PeerDisconnectedSound
<1>5. ASSUME NEW p \in Peers, RouteRefresh(p) PROVE Inv'
  BY <1>1, <1>5, RouteRefreshSound
<1>6. ASSUME NEW p \in Peers, NEW routes \in Batches, PeerUpdate(p, routes) PROVE Inv'
  BY <1>1, <1>6, PeerUpdateSound
<1>7. ASSUME NEW attr \in setup.originated, AddLocalRoute(attr) PROVE Inv'
  BY <1>1, <1>7, AddLocalRouteSound
<1>8. CASE RemoveLocalRoute
  BY <1>1, <1>8, RemoveLocalRouteSound
<1>9. ASSUME NEW inv \in SUBSET Attrs, VrpUpdate(inv) PROVE Inv'
  BY <1>1, <1>9, VrpUpdateSound
<1>. QED
  BY <1>1, <1>2, <1>3, <1>4, <1>5, <1>6, <1>7, <1>8, <1>9, Zenon DEF Next

LEMMA Invariance == Spec => []Inv
BY InvInit, InvNext, PTL DEF Spec

-----------------------------------------------------------------------------
(* What follows *)

\* No two paths of the Loc-RIB, nor of an Adj-RIB-Out, ever share an identifier,
\* whatever the allocator of path_id.rs has handed out and taken back.
THEOREM IdsTellPathsApart == Spec => []PathIdsDistinct
<1>1. Inv => PathIdsDistinct
  BY DEF Inv
<1>. QED
  BY <1>1, Invariance, PTL

\* What propagate_routes_to_peer sends leaves every peer with what its Adj-RIB-Out
\* records, unless an UPDATE is too large to be sent.
THEOREM PeersHaveTheirRibOut == Spec => []RibOutIsTold
<1>1. Inv => RibOutIsTold
  BY DEF Inv
<1>. QED
  BY <1>1, Invariance, PTL

\* The prefixes and peers that propagate_routes passes over need nothing: every
\* peer that does not speak itself, or has its own selection, is up to date.
THEOREM ExportsAreInSync == Spec => []ExportsInSync
<1>1. Inv => ExportsInSync
  BY DEF Inv
<1>. QED
  BY <1>1, Invariance, PTL

\* A VRP update leaves no path from a peer in the Loc-RIB with a validation state
\* of earlier VRPs, or that the import policy would now reject.
THEOREM PathsAreValidated == Spec => []LocIsValidated
<1>1. Inv => LocIsValidated
  BY DEF Inv
<1>. QED
  BY <1>1, Invariance, PTL

\* The Loc-RIB has of every peer the path it announced last, when updates are not
\* coalesced or the VRPs do not change; with both, handle_vrp_update may bring back
\* from adj_rib_in a path that was announced and withdrawn in one batch.
THEOREM LocFollowsThePeers ==
  Spec => [](MaxBatch = 1 \/ ~VrpsChange => LocIsLastSaid)
<1>1. Inv => (MaxBatch = 1 \/ ~VrpsChange => LocIsLastSaid)
  BY DEF Inv, LastSaidHolds
<1>. QED
  BY <1>1, Invariance, PTL

=============================================================================
