--------------------------- MODULE BundlesProofs ---------------------------
(***************************************************************************)
(* Bundles are whole, no number is without its module, and a handle calls  *)
(* the file it was made for, for any files and graphs and any number of    *)
(* variables, snapshots and activations.                                   *)
(***************************************************************************)
EXTENDS Bundles, FiniteSetTheorems, WellFoundedInduction, TLAPS

(***************************************************************************)
(* The work list.  What is on it or behind it is in every set that is      *)
(* closed under references; what is behind it refers to nothing else.      *)
(***************************************************************************)
Closed(S, r) == \A p \in S \cup {r} : uses[p] \subseteq S \cup {r}

Building == [root : Roots, seen : SUBSET Paths, pending : SUBSET Paths,
             compiled : SUBSET Paths]

BuildTyped ==
  /\ uses \in [Paths -> SUBSET Paths]
  /\ uses \in Graphs
  /\ building \in Building \cup {None}
  /\ bundles \in [Roots -> (SUBSET Paths) \cup {None}]

Work ==
  building # None =>
    /\ bundles[building.root] = None
    /\ building.seen = building.compiled \cup {building.root}
    /\ building.root \notin building.compiled
    /\ \A p \in building.seen : uses[p] \subseteq building.seen \cup building.pending
    /\ \A S \in SUBSET Paths :
         Closed(S, building.root) =>
           building.seen \cup building.pending \subseteq S \cup {building.root}

BInv == BuildTyped /\ Work /\ BundlesAreWhole

LEMMA WholeIsClosed ==
  ASSUME BundlesAreWhole, NEW r \in Roots, bundles[r] # None
  PROVE  /\ Closed(bundles[r], r)
         /\ \A S \in SUBSET bundles[r] : Closed(S, r) => S = bundles[r]
BY DEF BundlesAreWhole, Closed

LEMMA BuildUnchanged ==
  ASSUME BInv, UNCHANGED <<uses, building, bundles>>
  PROVE  BInv'
<1>1. BuildTyped'
  BY DEF BInv, BuildTyped
<1>2. Work'
  BY DEF BInv, Work, Closed
<1>3. BundlesAreWhole'
  BY DEF BInv, BundlesAreWhole
<1> QED BY <1>1, <1>2, <1>3 DEF BInv

LEMMA BuildBeginInv ==
  ASSUME BInv, NEW r \in Roots, BuildBegin(r)
  PROVE  BInv'
<1> USE DEF BInv
<1>1. r \in Paths
  BY BundlesAssumption
<1>2. BuildTyped'
  BY <1>1 DEF BuildBegin, BuildTyped, Building
<1>3. Work'
  BY <1>1 DEF BuildBegin, BuildTyped, Work, Closed
<1>4. BundlesAreWhole'
  BY DEF BuildBegin, BundlesAreWhole
<1> QED BY <1>2, <1>3, <1>4

LEMMA BuildStepInv ==
  ASSUME BInv, NEW p \in Paths, BuildStep(p)
  PROVE  BInv'
<1> USE DEF BInv
<1>1. building \in Building /\ building # None /\ p \in building.pending
  BY DEF BuildStep, BuildTyped
<1>2. UNCHANGED <<uses, bundles>>
  BY DEF BuildStep
<1>3. BundlesAreWhole'
  BY <1>2 DEF BundlesAreWhole
<1>4. CASE p \in building.seen
  <2>1. building' = [building EXCEPT !.pending = @ \ {p}]
    BY <1>4 DEF BuildStep
  <2>2. /\ building' \in Building
        /\ building'.root = building.root
        /\ building'.seen = building.seen
        /\ building'.compiled = building.compiled
        /\ building'.pending = building.pending \ {p}
    BY <2>1, <1>1 DEF Building
  <2>3. BuildTyped'
    BY <2>2, <1>2 DEF BuildTyped
  <2>4. Work'
    BY <2>2, <1>1, <1>2, <1>4 DEF Work, Closed
  <2> QED BY <2>3, <2>4, <1>3
<1>5. CASE p \notin building.seen
  <2>1. building' = [building EXCEPT
                       !.pending = (@ \ {p}) \cup (uses[p] \ (building.seen \cup {p})),
                       !.seen = @ \cup {p},
                       !.compiled = @ \cup {p}]
    BY <1>5 DEF BuildStep
  <2>2. /\ building' \in Building
        /\ building'.root = building.root
        /\ building'.seen = building.seen \cup {p}
        /\ building'.compiled = building.compiled \cup {p}
        /\ building'.pending = (building.pending \ {p}) \cup (uses[p] \ (building.seen \cup {p}))
    BY <2>1, <1>1 DEF Building, BuildTyped
  <2>3. BuildTyped'
    BY <2>2, <1>2 DEF BuildTyped
  <2>4. ASSUME NEW S \in SUBSET Paths, Closed(S, building.root)
        PROVE  building'.seen \cup building'.pending \subseteq S \cup {building.root}
    <3>1. p \in S \cup {building.root} /\ building.seen \cup building.pending \subseteq S \cup {building.root}
      BY <1>1, <2>4 DEF Work
    <3>2. uses[p] \subseteq S \cup {building.root}
      BY <3>1, <2>4 DEF Closed
    <3> QED BY <3>1, <3>2, <2>2
  <2>5. Work'
    BY <2>2, <2>4, <1>1, <1>2, <1>5 DEF Work, Closed
  <2> QED BY <2>3, <2>5, <1>3
<1> QED BY <1>4, <1>5

LEMMA BuildEndInv ==
  ASSUME BInv, BuildEnd
  PROVE  /\ BInv'
         /\ \A r \in Roots : bundles[r] # None => bundles'[r] = bundles[r]
<1> USE DEF BInv
<1> DEFINE root == building.root
<1>1. building \in Building /\ building # None /\ building.pending = {}
  BY DEF BuildEnd, BuildTyped
<1>2. /\ uses' = uses
      /\ building' = None
      /\ bundles' = [bundles EXCEPT ![root] = building.compiled]
  BY DEF BuildEnd
<1>3. root \in Roots /\ building.compiled \subseteq Paths
  BY <1>1 DEF Building
<1>4. BuildTyped'
  BY <1>2, <1>3 DEF BuildTyped
<1>5. Work'
  BY <1>2 DEF Work
<1>6. ASSUME NEW r \in Roots, bundles'[r] # None
      PROVE  /\ Closed(bundles'[r], r)
             /\ \A S \in SUBSET bundles'[r] : Closed(S, r) => S = bundles'[r]
  <2>1. CASE r = root
    <3>1. bundles'[r] = building.compiled
      BY <2>1, <1>2, <1>3 DEF BuildTyped
    <3>2. Closed(building.compiled, root)
      BY <1>1 DEF Work, Closed
    <3>3. ASSUME NEW S \in SUBSET building.compiled, Closed(S, root)
          PROVE  S = building.compiled
      <4>1. building.seen \subseteq S \cup {root}
        BY <3>3, <1>1, <1>3 DEF Work
      <4>2. building.seen = building.compiled \cup {root} /\ root \notin building.compiled
        BY <1>1 DEF Work
      <4> QED BY <4>1, <4>2, <3>3
    <3> QED BY <2>1, <3>1, <3>2, <3>3
  <2>2. CASE r # root
    <3>1. bundles'[r] = bundles[r]
      BY <2>2, <1>2 DEF BuildTyped
    <3> QED BY <3>1, <1>6, WholeIsClosed
  <2> QED BY <2>1, <2>2
<1>7. BundlesAreWhole'
  <2>1. \A r \in Roots : bundles'[r] # None =>
          /\ Closed(bundles'[r], r)
          /\ \A S \in SUBSET bundles'[r] : Closed(S, r) => S = bundles'[r]
    BY <1>6
  <2> QED BY <2>1, <1>2 DEF BundlesAreWhole, Closed
<1>8. \A r \in Roots : bundles[r] # None => bundles'[r] = bundles[r]
  BY <1>1, <1>2 DEF Work, BuildTyped
<1> QED BY <1>4, <1>5, <1>7, <1>8

-----------------------------------------------------------------------------
(***************************************************************************)
(* Registries.  A module is Rooted in a set of numbers when its bundle is  *)
(* there, with the module in it, and the set has all numbers of the bundle.*)
(***************************************************************************)
Partial(D) == UNION {[E -> Modules] : E \in SUBSET D}

Registries == [paths : Partial(Paths), ids : Partial(Ids)]

Number(b, r, p) == Cardinality({q \in b[r] : q < p})

Rooted(b, m, D) ==
  /\ m \in Modules
  /\ b[m.build] # None
  /\ m.path \in b[m.build] \cup {m.build}
  /\ \A p \in b[m.build] : Number(b, m.build, p) \in D

AllRooted(b, f, D) == \A x \in DOMAIN f : Rooted(b, f[x], D)

Sound(b, reg, D) ==
  /\ reg \in Registries
  /\ \A p \in DOMAIN reg.paths : reg.paths[p].path = p
  /\ AllRooted(b, reg.paths, D)
  /\ AllRooted(b, reg.ids, D)

LEMMA PartialIs ==
  ASSUME NEW D, NEW f
  PROVE  f \in Partial(D) <=>
           /\ f = [x \in DOMAIN f |-> f[x]]
           /\ DOMAIN f \subseteq D
           /\ \A x \in DOMAIN f : f[x] \in Modules
<1>1. ASSUME f \in Partial(D)
      PROVE  /\ f = [x \in DOMAIN f |-> f[x]]
             /\ DOMAIN f \subseteq D
             /\ \A x \in DOMAIN f : f[x] \in Modules
  <2>1. PICK E \in SUBSET D : f \in [E -> Modules]
    BY <1>1 DEF Partial
  <2> QED BY <2>1
<1>2. ASSUME f = [x \in DOMAIN f |-> f[x]], DOMAIN f \subseteq D,
             \A x \in DOMAIN f : f[x] \in Modules
      PROVE  f \in Partial(D)
  <2>1. f \in [DOMAIN f -> Modules]
    BY <1>2
  <2> QED BY <2>1, <1>2 DEF Partial
<1> QED BY <1>1, <1>2

(* Over has the entries of both, those of the first where both have one.   *)
LEMMA OverIs ==
  ASSUME NEW f, NEW g
  PROVE  /\ Over(f, g) = [x \in DOMAIN Over(f, g) |-> Over(f, g)[x]]
         /\ DOMAIN Over(f, g) = DOMAIN f \cup DOMAIN g
         /\ \A x \in DOMAIN f : Over(f, g)[x] = f[x]
         /\ \A x \in DOMAIN g : x \notin DOMAIN f => Over(f, g)[x] = g[x]
BY DEF Over

LEMMA OverEntry ==
  ASSUME NEW f, NEW g, NEW x \in DOMAIN Over(f, g)
  PROVE  \/ x \in DOMAIN f /\ Over(f, g)[x] = f[x]
         \/ x \in DOMAIN g /\ Over(f, g)[x] = g[x]
BY DEF Over

LEMMA OverPartial ==
  ASSUME NEW D, NEW f \in Partial(D), NEW g \in Partial(D)
  PROVE  Over(f, g) \in Partial(D)
<1> DEFINE h == Over(f, g)
<1>1. /\ h = [x \in DOMAIN h |-> h[x]]
      /\ DOMAIN h = DOMAIN f \cup DOMAIN g
      /\ \A x \in DOMAIN f : h[x] = f[x]
      /\ \A x \in DOMAIN g : x \notin DOMAIN f => h[x] = g[x]
  BY OverIs, Zenon
<1> HIDE DEF h
<1>2. /\ DOMAIN f \subseteq D /\ \A x \in DOMAIN f : f[x] \in Modules
      /\ DOMAIN g \subseteq D /\ \A x \in DOMAIN g : g[x] \in Modules
  BY PartialIs
<1>3. DOMAIN h \subseteq D /\ \A x \in DOMAIN h : h[x] \in Modules
  BY <1>1, <1>2
<1>4. h \in Partial(D)
  BY <1>1, <1>3, PartialIs
<1> QED BY <1>4 DEF h

LEMMA OverRooted ==
  ASSUME NEW b, NEW D, NEW f, NEW g, AllRooted(b, f, D), AllRooted(b, g, D)
  PROVE  AllRooted(b, Over(f, g), D)
<1> DEFINE h == Over(f, g)
<1>1. /\ h = [x \in DOMAIN h |-> h[x]]
      /\ DOMAIN h = DOMAIN f \cup DOMAIN g
      /\ \A x \in DOMAIN f : h[x] = f[x]
      /\ \A x \in DOMAIN g : x \notin DOMAIN f => h[x] = g[x]
  BY OverIs, Zenon
<1> HIDE DEF h
<1>2. AllRooted(b, h, D)
  BY <1>1 DEF AllRooted
<1> QED BY <1>2 DEF h

(* More numbers do no harm.                                                *)
LEMMA RootedGrows ==
  ASSUME NEW b, NEW D, NEW E, D \subseteq E, NEW f, AllRooted(b, f, D)
  PROVE  AllRooted(b, f, E)
BY DEF AllRooted, Rooted

LEMMA SoundGrows ==
  ASSUME NEW b, NEW D, NEW E, D \subseteq E, NEW reg, Sound(b, reg, D)
  PROVE  Sound(b, reg, E)
BY RootedGrows DEF Sound

(* A bounded set of numbers has a last one.                                *)
LEMMA LastExists ==
  ASSUME NEW n \in Nat, NEW S, S \subseteq 0 .. n, S # {}
  PROVE  \E x \in S : \A y \in S : y <= x
<1> DEFINE T == {{y \in S : y >= x} : x \in S}
<1>1. IsWellFoundedOn(StrictSubsetOrdering(S), FiniteSubsetsOf(S))
  BY FS_StrictSubsetOrderingWellFounded
<1>2. IsFiniteSet(S)
  BY FS_BoundedSetOfNaturals
<1>3. FiniteSubsetsOf(S) = SUBSET S
  BY <1>2, FS_FiniteSubsetsOfFinite
<1>4. T \subseteq FiniteSubsetsOf(S) /\ T # {}
  <2>1. \A A \in T : A \in SUBSET S
    OBVIOUS
  <2>2. \E A : A \in T
    OBVIOUS
  <2> QED BY <2>1, <2>2, <1>3
<1>5. \E A \in T : \A B \in T : <<B, A>> \notin StrictSubsetOrdering(S)
  <2> HIDE DEF T
  <2> QED BY <1>1, <1>4, WFMin
<1>6. PICK x \in S : \A B \in T : <<B, {y \in S : y >= x}>> \notin StrictSubsetOrdering(S)
  BY <1>5
<1>7. ASSUME NEW y \in S, ~ (y <= x) PROVE FALSE
  <2> DEFINE A == {z \in S : z >= x}
             B == {z \in S : z >= y}
  <2>1. B \in T
    OBVIOUS
  <2>2. x \in Nat /\ y \in Nat /\ S \subseteq Nat
    OBVIOUS
  <2>3. B \subseteq A /\ x \in A /\ x \notin B
    <3>1. x < y
      BY <1>7, <2>2
    <3>2. \A z \in S : z >= y => z >= x
      BY <3>1, <2>2
    <3>3. x \in A /\ x \notin B
      BY <3>1, <2>2
    <3> QED BY <3>2, <3>3
  <2>4. <<B, A>> \in StrictSubsetOrdering(S)
    <3>1. B # A /\ A \in SUBSET S /\ B \in SUBSET S
      BY <2>3
    <3> HIDE DEF A, B
    <3> QED BY <2>3, <3>1 DEF StrictSubsetOrdering
  <2> QED BY <2>1, <2>4, <1>6
<1> QED BY <1>7

(* Each module is found by its path: of those that have it, the last.      *)
LEMMA ByPathIs ==
  ASSUME NEW b, NEW D, NEW mods \in Partial(Ids), AllRooted(b, mods, D)
  PROVE  /\ ByPath(mods) \in Partial(Paths)
         /\ \A p \in DOMAIN ByPath(mods) : ByPath(mods)[p].path = p
         /\ AllRooted(b, ByPath(mods), D)
<1> DEFINE f == ByPath(mods)
           Ps == {mods[i].path : i \in DOMAIN mods}
           Last(p, i) == /\ mods[i].path = p
                         /\ \A j \in DOMAIN mods : mods[j].path = p => j <= i
<1>1. f = [p \in Ps |-> mods[CHOOSE i \in DOMAIN mods : Last(p, i)]]
  BY DEF ByPath
<1>2. DOMAIN f = Ps /\ f = [p \in DOMAIN f |-> f[p]]
  BY <1>1
<1>3. DOMAIN mods \subseteq Ids /\ \A i \in DOMAIN mods : mods[i] \in Modules
  BY PartialIs
<1>4. ASSUME NEW p \in Ps
      PROVE  \E i \in DOMAIN mods : f[p] = mods[i] /\ mods[i].path = p
  <2> DEFINE S == {i \in DOMAIN mods : mods[i].path = p}
  <2>1. S # {} /\ S \subseteq 0 .. 2 * FileCount
    BY <1>3 DEF Ids
  <2>2. 2 * FileCount \in Nat
    BY BundlesAssumption
  <2>3. \E i \in S : \A j \in S : j <= i
    BY <2>1, <2>2, LastExists
  <2>4. \E i \in DOMAIN mods : Last(p, i)
    BY <2>3
  <2>5. f[p] = mods[CHOOSE i \in DOMAIN mods : Last(p, i)]
    BY <1>1
  <2> HIDE DEF Last
  <2>6. Last(p, CHOOSE i \in DOMAIN mods : Last(p, i))
        /\ (CHOOSE i \in DOMAIN mods : Last(p, i)) \in DOMAIN mods
    BY <2>4
  <2> USE DEF Last
  <2> QED BY <2>5, <2>6
<1>5. Ps \subseteq Paths /\ \A p \in Ps : f[p] \in Modules /\ f[p].path = p
  BY <1>3, <1>4 DEF Modules
<1>6. f \in Partial(Paths)
  BY <1>2, <1>5, PartialIs
<1>7. AllRooted(b, f, D)
  BY <1>2, <1>4 DEF AllRooted
<1> QED BY <1>2, <1>5, <1>6, <1>7

LEMMA SoundRegistry ==
  ASSUME NEW b, NEW D, NEW ps \in Partial(Paths), NEW is \in Partial(Ids),
         \A p \in DOMAIN ps : ps[p].path = p,
         AllRooted(b, ps, D), AllRooted(b, is, D)
  PROVE  Sound(b, [paths |-> ps, ids |-> is], D)
BY DEF Sound, Registries

LEMMA OverByPath ==
  ASSUME NEW f, NEW g, \A p \in DOMAIN f : f[p].path = p, \A p \in DOMAIN g : g[p].path = p
  PROVE  \A p \in DOMAIN Over(f, g) : Over(f, g)[p].path = p
<1> SUFFICES ASSUME NEW p \in DOMAIN Over(f, g) PROVE Over(f, g)[p].path = p
  OBVIOUS
<1>1. \/ p \in DOMAIN f /\ Over(f, g)[p] = f[p]
      \/ p \in DOMAIN g /\ Over(f, g)[p] = g[p]
  BY OverEntry
<1> QED BY <1>1

(* What current_bundle_registries merges.                                  *)
LEMMA MergeSound ==
  ASSUME NEW b, NEW D, NEW f, NEW g, Sound(b, f, D), Sound(b, g, D)
  PROVE  Sound(b, [paths |-> Over(f.paths, g.paths), ids |-> Over(f.ids, g.ids)], D)
<1>1. /\ f.paths \in Partial(Paths) /\ f.ids \in Partial(Ids)
      /\ g.paths \in Partial(Paths) /\ g.ids \in Partial(Ids)
      /\ AllRooted(b, f.paths, D) /\ AllRooted(b, f.ids, D)
      /\ AllRooted(b, g.paths, D) /\ AllRooted(b, g.ids, D)
      /\ \A p \in DOMAIN f.paths : f.paths[p].path = p
      /\ \A p \in DOMAIN g.paths : g.paths[p].path = p
  BY DEF Sound, Registries
<1>2. Over(f.paths, g.paths) \in Partial(Paths) /\ Over(f.ids, g.ids) \in Partial(Ids)
  BY <1>1, OverPartial
<1>3. AllRooted(b, Over(f.paths, g.paths), D) /\ AllRooted(b, Over(f.ids, g.ids), D)
  BY <1>1, OverRooted
<1>4. \A p \in DOMAIN Over(f.paths, g.paths) : Over(f.paths, g.paths)[p].path = p
  BY <1>1, OverByPath
<1> QED BY <1>2, <1>3, <1>4, SoundRegistry

(* What install_bundled_modules makes of a registry.                       *)
LEMMA InstallSound ==
  ASSUME NEW b, NEW D, NEW reg, NEW mods \in Partial(Ids),
         Sound(b, reg, D), AllRooted(b, mods, D)
  PROVE  /\ Sound(b, Install(reg, mods), D)
         /\ DOMAIN Install(reg, mods).ids = DOMAIN mods \cup DOMAIN reg.ids
<1>1. Sound(b, [paths |-> ByPath(mods), ids |-> mods], D)
  BY ByPathIs, SoundRegistry
<1>2. Install(reg, mods) = [paths |-> Over(ByPath(mods), reg.paths), ids |-> Over(mods, reg.ids)]
  BY DEF Install
<1>3. Sound(b, Install(reg, mods), D)
  <2> DEFINE new == [paths |-> ByPath(mods), ids |-> mods]
  <2>1. new.paths = ByPath(mods) /\ new.ids = mods
    OBVIOUS
  <2>2. Sound(b, new, D)
    BY <1>1
  <2> HIDE DEF new
  <2>3. Sound(b, [paths |-> Over(new.paths, reg.paths), ids |-> Over(new.ids, reg.ids)], D)
    BY <2>2, MergeSound
  <2> QED BY <2>1, <2>3, <1>2
<1>4. Install(reg, mods).ids = Over(mods, reg.ids)
  BY <1>2
<1>5. DOMAIN Over(mods, reg.ids) = DOMAIN mods \cup DOMAIN reg.ids
  BY DEF Over
<1> QED BY <1>3, <1>4, <1>5

(* The registries of a bundle, which have the numbers its code has.        *)
LEMMA BundledSound ==
  ASSUME BuildTyped, NEW r \in Roots, bundles[r] # None
  PROVE  /\ Sound(bundles, Bundled(r), DOMAIN Bundled(r).ids)
         /\ Rooted(bundles, Module(r, r), DOMAIN Bundled(r).ids)
<1> DEFINE D == {DepId(r, p) : p \in bundles[r]}
           ps == [p \in bundles[r] |-> Module(p, r)]
           is == [i \in D |-> Module(CHOOSE p \in bundles[r] : DepId(r, p) = i, r)]
<1>1. bundles[r] \subseteq Paths /\ r \in Paths
  <2>1. bundles[r] \in (SUBSET Paths) \cup {None}
    BY DEF BuildTyped
  <2>2. r \in Paths
    BY BundlesAssumption
  <2> QED BY <2>1, <2>2
<1>2. Bundled(r) = [paths |-> ps, ids |-> is]
  BY DEF Bundled
<1>3. ASSUME NEW p \in bundles[r] PROVE DepId(r, p) \in Ids
  <2> DEFINE S == {q \in bundles[r] : q < p}
  <2>1. IsFiniteSet(1 .. FileCount) /\ Cardinality(1 .. FileCount) = FileCount
    BY FS_Interval, BundlesAssumption
  <2>2. S \subseteq 1 .. FileCount
    BY <1>1 DEF Paths
  <2>3. IsFiniteSet(S) /\ Cardinality(S) <= FileCount
    BY <2>1, <2>2, FS_Subset
  <2>4. Cardinality(S) \in Nat
    BY <2>3, FS_CardinalityType
  <2> QED BY <2>3, <2>4, BundlesAssumption DEF DepId, Ids
<1>4. ASSUME NEW p \in bundles[r] \cup {r}
      PROVE  /\ Module(p, r) \in Modules
             /\ Rooted(bundles, Module(p, r), D)
  <2>1. Module(p, r) \in Modules
    BY <1>1 DEF Module, Modules
  <2>2. Module(p, r).path = p /\ Module(p, r).build = r
    BY DEF Module
  <2>3. \A q \in bundles[r] : Number(bundles, r, q) \in D
    BY DEF Number, DepId
  <2> HIDE DEF D
  <2> QED BY <2>1, <2>2, <2>3 DEF Rooted
<1>5. \A i \in D : \E p \in bundles[r] : is[i] = Module(p, r)
  <2> SUFFICES ASSUME NEW i \in D PROVE \E p \in bundles[r] : is[i] = Module(p, r)
    OBVIOUS
  <2>1. \E p \in bundles[r] : DepId(r, p) = i
    OBVIOUS
  <2> QED BY <2>1
<1>6. ps \in Partial(Paths) /\ AllRooted(bundles, ps, D)
      /\ \A p \in DOMAIN ps : ps[p].path = p
  <2>1. DOMAIN ps = bundles[r] /\ \A p \in bundles[r] : ps[p] = Module(p, r)
    OBVIOUS
  <2>2. ps = [p \in DOMAIN ps |-> ps[p]]
    OBVIOUS
  <2>3. \A p \in bundles[r] : Module(p, r).path = p
    BY DEF Module
  <2> HIDE DEF ps, D
  <2>4. ps \in Partial(Paths)
    BY <2>1, <2>2, <1>1, <1>4, PartialIs
  <2> QED BY <2>1, <2>3, <2>4, <1>4 DEF AllRooted
<1>7. is \in Partial(Ids) /\ AllRooted(bundles, is, D) /\ DOMAIN is = D
  <2>1. DOMAIN is = D /\ is = [i \in DOMAIN is |-> is[i]]
    OBVIOUS
  <2>2. D \subseteq Ids
    BY <1>3
  <2> HIDE DEF is, D
  <2>3. is \in Partial(Ids)
    BY <2>1, <2>2, <1>4, <1>5, PartialIs
  <2> QED BY <2>1, <2>3, <1>4, <1>5 DEF AllRooted
<1>8. Rooted(bundles, Module(r, r), D)
  BY <1>4
<1>9. Bundled(r).ids = is
  BY <1>2
<1> HIDE DEF ps, is, D
<1> QED BY <1>2, <1>6, <1>7, <1>8, <1>9, SoundRegistry

-----------------------------------------------------------------------------
(***************************************************************************)
(* A run.                                                                  *)
(***************************************************************************)
Activations == [at : Modules \cup {None}, src : Paths \cup {None}, own : Registries,
                engine : {"vm", "interpreter"}]

Snapshots == [vars : [Vars -> Handles \cup {None}], met : SUBSET Roots,
              mods : Partial(Ids)]

Backed(ws, D) ==
  \A v \in Vars : ws[v] # None /\ ws[v].kind = "id" => ws[v].ref \in D

Numbers == DOMAIN shared.ids

Active(b, act, D) ==
  Sound(b, act.own, D) /\ (act.at # None => Rooted(b, act.at, D))

RunInv ==
  /\ frames \in Seq(Activations)
  /\ vars \in [Vars -> Handles \cup {None}]
  /\ met \subseteq Roots
  /\ Sound(bundles, shared, DOMAIN shared.ids)
  /\ \A k \in 1 .. Len(frames) : Active(bundles, frames[k], DOMAIN shared.ids)
  /\ Backed(vars, DOMAIN shared.ids)
  /\ frames = << >> => vars = NoVars

Stored(b, snapshot) ==
  /\ AllRooted(b, snapshot.mods, DOMAIN snapshot.mods)
  /\ Backed(snapshot.vars, DOMAIN snapshot.mods)

FilesInv ==
  /\ files \in [Files -> Snapshots \cup {None}]
  /\ \A f \in Files : files[f] # None => Stored(bundles, files[f])
  /\ orphaned \subseteq Paths

IInv == BInv /\ RunInv /\ FilesInv

(* A bundle that is finished does not change.                              *)
LEMMA RootedStays ==
  ASSUME NEW b, NEW c, \A r \in Roots : b[r] # None => c[r] = b[r]
  PROVE  /\ \A m, D : Rooted(b, m, D) => Rooted(c, m, D)
         /\ \A f, D : AllRooted(b, f, D) => AllRooted(c, f, D)
         /\ \A reg, D : Sound(b, reg, D) => Sound(c, reg, D)
<1>1. ASSUME NEW m, NEW D, Rooted(b, m, D) PROVE Rooted(c, m, D)
  <2>1. m.build \in Roots
    BY <1>1 DEF Rooted, Modules
  <2>2. c[m.build] = b[m.build]
    BY <1>1, <2>1 DEF Rooted
  <2> QED BY <1>1, <2>2 DEF Rooted, Number
<1>2. \A f, D : AllRooted(b, f, D) => AllRooted(c, f, D)
  BY <1>1 DEF AllRooted
<1>3. \A reg, D : Sound(b, reg, D) => Sound(c, reg, D)
  BY <1>2 DEF Sound
<1> QED BY <1>1, <1>2, <1>3

(* Building leaves runs and snapshots alone.                               *)
LEMMA BuildKeeps ==
  ASSUME IInv, UNCHANGED <<run, outside>>,
         \A r \in Roots : bundles[r] # None => bundles'[r] = bundles[r]
  PROVE  RunInv' /\ FilesInv'
<1>1. UNCHANGED <<shared, frames, vars, met, files, orphaned>>
  BY DEF run, outside
<1>2. /\ \A m, D : Rooted(bundles, m, D) => Rooted(bundles', m, D)
      /\ \A f, D : AllRooted(bundles, f, D) => AllRooted(bundles', f, D)
      /\ \A reg, D : Sound(bundles, reg, D) => Sound(bundles', reg, D)
  <2> DEFINE b == bundles
             c == bundles'
  <2>1. \A r \in Roots : b[r] # None => c[r] = b[r]
    OBVIOUS
  <2> HIDE DEF b, c
  <2>2. /\ \A m, D : Rooted(b, m, D) => Rooted(c, m, D)
        /\ \A f, D : AllRooted(b, f, D) => AllRooted(c, f, D)
        /\ \A reg, D : Sound(b, reg, D) => Sound(c, reg, D)
    BY <2>1, RootedStays
  <2> QED BY <2>2 DEF b, c
<1>3. RunInv'
  BY <1>1, <1>2 DEF IInv, RunInv, Active
<1>4. FilesInv'
  BY <1>1, <1>2 DEF IInv, FilesInv, Stored
<1> QED BY <1>3, <1>4

(* What the running activation looks modules up in.                        *)
LEMMA MergedSound ==
  ASSUME IInv, Running
  PROVE  /\ Top \in Activations
         /\ Active(bundles, Top, Numbers)
         /\ Sound(bundles, Merged(Top), Numbers)
         /\ Numbers \subseteq DOMAIN Merged(Top).ids
<1>1. Len(frames) \in 1 .. Len(frames) /\ frames \in Seq(Activations)
  BY DEF IInv, RunInv, Running
<1>2. Top \in Activations /\ Active(bundles, Top, Numbers)
  BY <1>1 DEF Top, IInv, RunInv, Numbers
<1>3. Sound(bundles, Own(Top), Numbers) /\ Sound(bundles, shared, Numbers)
  BY <1>2 DEF Own, Active, IInv, RunInv, Numbers
<1>4. Merged(Top) = [paths |-> Over(Own(Top).paths, shared.paths),
                     ids   |-> Over(Own(Top).ids, shared.ids)]
  BY DEF Merged
<1>5. Sound(bundles, Merged(Top), Numbers)
  BY <1>3, <1>4, MergeSound
<1>6. Numbers \subseteq DOMAIN Merged(Top).ids
  <2>1. Merged(Top).ids = Over(Own(Top).ids, shared.ids)
    BY <1>4
  <2> QED BY <2>1 DEF Over, Numbers
<1> QED BY <1>2, <1>5, <1>6

(***************************************************************************)
(* A call.  Every module it may run is registered, so that its bundle is   *)
(* there and its numbers are.                                              *)
(***************************************************************************)
Runnable(c) ==
  /\ Rooted(bundles, c.at, Numbers)
  /\ c.src \in Paths \cup {None}

LEMMA RegisteredRunnable ==
  ASSUME IInv, Running
  PROVE  /\ \A i \in DOMAIN Merged(Top).ids : Runnable(Callee(Merged(Top).ids[i], Source(i)))
         /\ \A p \in DOMAIN Merged(Top).paths : Runnable(Callee(Merged(Top).paths[p], p))
<1> DEFINE reg == Merged(Top)
<1>1. Sound(bundles, reg, Numbers) /\ Sound(bundles, shared, Numbers)
  BY MergedSound DEF IInv, RunInv, Numbers
<1> HIDE DEF reg
<1>2. /\ \A i \in DOMAIN reg.ids : Rooted(bundles, reg.ids[i], Numbers)
      /\ \A p \in DOMAIN reg.paths : Rooted(bundles, reg.paths[p], Numbers)
      /\ \A i \in DOMAIN shared.ids : shared.ids[i] \in Modules
  BY <1>1 DEF Sound, AllRooted, Rooted
<1>3. DOMAIN reg.paths \subseteq Paths
  BY <1>1, PartialIs DEF Sound, Registries
<1>4. \A i : Source(i) \in Paths \cup {None}
  BY <1>2 DEF Source, Modules
<1>5. \A m, s : Callee(m, s).at = m /\ Callee(m, s).src = s
  BY DEF Callee
<1>6. \A i \in DOMAIN reg.ids : Runnable(Callee(reg.ids[i], Source(i)))
  BY <1>2, <1>4, <1>5 DEF Runnable
<1>7. \A p \in DOMAIN reg.paths : Runnable(Callee(reg.paths[p], p))
  BY <1>2, <1>3, <1>5 DEF Runnable
<1> QED BY <1>6, <1>7 DEF reg

Registered(c) ==
  \/ \E i \in DOMAIN Merged(Top).ids : c = Callee(Merged(Top).ids[i], Source(i))
  \/ \E p \in DOMAIN Merged(Top).paths : c = Callee(Merged(Top).paths[p], p)

LEMMA HandleCalleesRegistered ==
  ASSUME NEW h \in Handles, NEW c \in HandleCallees(Top, h)
  PROVE  Registered(c)
<1> DEFINE reg == Merged(Top)
           named == Named(reg, Name[h.ref])
<1>1. named \subseteq DOMAIN reg.paths
  BY DEF Named
<1>2. \/ h.ref \in DOMAIN reg.ids /\ c = Callee(reg.ids[h.ref], Source(h.ref))
      \/ \E p \in named : c = Callee(reg.paths[p], p)
      \/ h.ref \in DOMAIN reg.paths /\ c = Callee(reg.paths[h.ref], h.ref)
  <2> HIDE DEF reg, named
  <2>1. h.kind \in {"id", "path", "scoped"}
    BY DEF Handles
  <2>2. CASE h.kind = "id"
    BY <2>2 DEF HandleCallees, reg, named
  <2>3. CASE h.kind = "path"
    BY <2>3 DEF HandleCallees, reg, named
  <2>4. CASE h.kind = "scoped"
    BY <2>4 DEF HandleCallees, reg, named
  <2> QED BY <2>1, <2>2, <2>3, <2>4
<1> HIDE DEF named
<1> QED BY <1>1, <1>2 DEF Registered

LEMMA StaticCalleesRegistered ==
  ASSUME NEW t, NEW c \in StaticCallees(Top, t)
  PROVE  Registered(c)
BY DEF StaticCallees, Registered

LEMMA RegisteredIsRunnable ==
  ASSUME IInv, Running, NEW c, Registered(c)
  PROVE  Runnable(c)
BY RegisteredRunnable DEF Registered

LEMMA EnterInv ==
  ASSUME IInv, Running, NEW c, Runnable(c), Enter(c)
  PROVE  IInv'
<1> DEFINE act == [at |-> c.at, src |-> c.src, own |-> Merged(Top), engine |-> "vm"]
<1>1. /\ frames' = Append(frames, act)
      /\ UNCHANGED <<uses, building, bundles, shared, vars, met, files, orphaned>>
  BY DEF Enter, build, outside
<1>2. act \in Activations /\ Active(bundles, act, Numbers)
  <2>1. Sound(bundles, Merged(Top), Numbers)
    BY MergedSound
  <2>2. c.at \in Modules /\ Rooted(bundles, c.at, Numbers) /\ c.src \in Paths \cup {None}
    BY DEF Runnable, Rooted
  <2> QED BY <2>1, <2>2 DEF Activations, Active, Sound
<1>3. frames \in Seq(Activations)
  BY DEF IInv, RunInv
<1>4. /\ frames' \in Seq(Activations)
      /\ frames' # << >>
      /\ \A k \in 1 .. Len(frames') : frames'[k] = act \/ (k \in 1 .. Len(frames) /\ frames'[k] = frames[k])
  <2> HIDE DEF act
  <2> QED BY <1>1, <1>2, <1>3
<1> HIDE DEF act
<1>5. RunInv'
  <2>1. \A k \in 1 .. Len(frames') : Active(bundles, frames'[k], DOMAIN shared.ids)
    BY <1>2, <1>4 DEF IInv, RunInv, Numbers
  <2> QED BY <1>1, <1>4, <2>1 DEF IInv, RunInv, Backed
<1>6. BInv'
  BY <1>1, BuildUnchanged DEF IInv
<1>7. FilesInv'
  BY <1>1 DEF IInv, FilesInv, Stored, Backed
<1> QED BY <1>5, <1>6, <1>7 DEF IInv

LEMMA RunBundleInv ==
  ASSUME IInv, NEW r \in Roots, RunBundle(r)
  PROVE  IInv'
<1> DEFINE reg == Bundled(r)
           act == [at |-> Module(r, r), src |-> r, own |-> reg, engine |-> "vm"]
           root == [p \in {r} |-> Module(r, r)]
<1>1. /\ bundles[r] # None
      /\ shared' = [paths |-> Over(root, ByPath(reg.ids)), ids |-> reg.ids]
      /\ frames' = << act >>
      /\ frames = << >>
      /\ met' = {r}
      /\ UNCHANGED <<uses, building, bundles, vars, files, orphaned>>
  BY DEF RunBundle, Idle, build, outside
<1>2. /\ Sound(bundles, reg, DOMAIN reg.ids)
      /\ Rooted(bundles, Module(r, r), DOMAIN reg.ids)
  BY <1>1, BundledSound DEF IInv, BInv
<1>3. r \in Paths /\ Module(r, r) \in Modules /\ Module(r, r).path = r
  <2>1. r \in Paths
    BY BundlesAssumption
  <2> QED BY <2>1 DEF Module, Modules
<1> HIDE DEF reg
<1>4. act \in Activations /\ Active(bundles, act, DOMAIN reg.ids)
  BY <1>2, <1>3 DEF Activations, Active, Sound
<1>5. /\ root \in Partial(Paths)
      /\ AllRooted(bundles, root, DOMAIN reg.ids)
      /\ \A p \in DOMAIN root : root[p].path = p
  <2>1. DOMAIN root = {r} /\ root[r] = Module(r, r) /\ root = [p \in DOMAIN root |-> root[p]]
    OBVIOUS
  <2> HIDE DEF root
  <2>2. root \in Partial(Paths)
    BY <2>1, <1>3, PartialIs
  <2> QED BY <2>1, <2>2, <1>2, <1>3 DEF AllRooted
<1>6. reg.ids \in Partial(Ids) /\ AllRooted(bundles, reg.ids, DOMAIN reg.ids)
  BY <1>2 DEF Sound, Registries
<1>7. Sound(bundles, shared', DOMAIN shared'.ids)
  <2> DEFINE ps == Over(root, ByPath(reg.ids))
  <2> HIDE DEF root
  <2>1. /\ ByPath(reg.ids) \in Partial(Paths)
        /\ \A p \in DOMAIN ByPath(reg.ids) : ByPath(reg.ids)[p].path = p
        /\ AllRooted(bundles, ByPath(reg.ids), DOMAIN reg.ids)
    BY <1>6, ByPathIs
  <2>2. ps \in Partial(Paths)
    BY <2>1, <1>5, OverPartial
  <2>3. AllRooted(bundles, ps, DOMAIN reg.ids)
    BY <2>1, <1>5, OverRooted
  <2>4. \A p \in DOMAIN ps : ps[p].path = p
    BY <2>1, <1>5, OverByPath
  <2>5. shared' = [paths |-> ps, ids |-> reg.ids]
    BY <1>1 DEF root
  <2> HIDE DEF ps
  <2>6. Sound(bundles, [paths |-> ps, ids |-> reg.ids], DOMAIN reg.ids)
    BY <2>2, <2>3, <2>4, <1>6, SoundRegistry
  <2>7. shared'.ids = reg.ids
    BY <2>5
  <2> QED BY <2>5, <2>6, <2>7
<1>8. DOMAIN shared'.ids = DOMAIN reg.ids
  BY <1>1
<1>9. vars = NoVars /\ vars \in [Vars -> Handles \cup {None}]
  BY <1>1 DEF IInv, RunInv
<1> HIDE DEF act, root
<1>10. /\ frames' \in Seq(Activations)
       /\ frames' # << >>
       /\ \A k \in 1 .. Len(frames') : frames'[k] = act
  BY <1>1, <1>4
<1>11. \A k \in 1 .. Len(frames') : Active(bundles, frames'[k], DOMAIN shared'.ids)
  BY <1>4, <1>8, <1>10
<1>12. Backed(vars, DOMAIN shared'.ids)
  BY <1>9 DEF Backed, NoVars
<1>13. RunInv'
  BY <1>1, <1>7, <1>9, <1>10, <1>11, <1>12 DEF RunInv, Backed
<1>14. BInv'
  BY <1>1, BuildUnchanged DEF IInv
<1>15. FilesInv'
  BY <1>1 DEF IInv, FilesInv, Stored, Backed
<1> QED BY <1>13, <1>14, <1>15 DEF IInv

LEMMA EmptySound ==
  /\ Sound(bundles, NoModules, {})
  /\ DOMAIN NoModules.ids = {}
  /\ << >> \in Partial(Ids)
<1>1. << >> \in Partial(Paths) /\ << >> \in Partial(Ids)
  <2>1. << >> = [x \in DOMAIN << >> |-> << >>[x]] /\ DOMAIN << >> = {}
    OBVIOUS
  <2> QED BY <2>1, PartialIs
<1>2. NoModules = [paths |-> << >>, ids |-> << >>] /\ DOMAIN << >> = {}
  BY DEF NoModules
<1> QED BY <1>1, <1>2 DEF Sound, Registries, AllRooted

LEMMA RunScriptInv ==
  ASSUME IInv, NEW engine \in {"vm", "interpreter"}, RunScript(engine)
  PROVE  IInv'
<1> DEFINE act == [at |-> None, src |-> None, own |-> NoModules, engine |-> engine]
<1>1. /\ frames' = << act >>
      /\ UNCHANGED <<uses, building, bundles, shared, vars, met, files, orphaned>>
  BY DEF RunScript, build, outside
<1>2. Sound(bundles, NoModules, DOMAIN shared.ids)
  BY EmptySound, SoundGrows
<1>3. act \in Activations /\ Active(bundles, act, DOMAIN shared.ids)
  BY <1>2 DEF Activations, Active, Sound
<1> HIDE DEF act
<1>4. /\ frames' \in Seq(Activations)
      /\ frames' # << >>
      /\ \A k \in 1 .. Len(frames') : frames'[k] = act
  BY <1>1, <1>3
<1>5. \A k \in 1 .. Len(frames') : Active(bundles, frames'[k], DOMAIN shared.ids)
  BY <1>3, <1>4
<1>6. RunInv'
  BY <1>1, <1>4, <1>5 DEF IInv, RunInv, Backed
<1>7. BInv'
  BY <1>1, BuildUnchanged DEF IInv
<1>8. FilesInv'
  BY <1>1 DEF IInv, FilesInv, Stored, Backed
<1> QED BY <1>6, <1>7, <1>8 DEF IInv

(* A handle that is made has the number of a dependency of the running     *)
(* module's bundle, or none.                                               *)
LEMMA HoldInv ==
  ASSUME IInv, Running, NEW v \in Vars, NEW p \in Paths,
         NEW t, t.kind \in {"id", "path", "scoped"}, t.ref \in Ids,
         t.kind = "id" => t.ref \in Numbers,
         Hold(v, t, p)
  PROVE  IInv'
<1> DEFINE h == [kind |-> t.kind, ref |-> t.ref, means |-> p]
<1>1. /\ vars' = [vars EXCEPT ![v] = h]
      /\ UNCHANGED <<uses, building, bundles, shared, frames, met, files, orphaned>>
  BY DEF Hold, build, outside
<1>2. h \in Handles /\ (h.kind = "id" => h.ref \in Numbers)
  BY DEF Handles
<1> HIDE DEF h
<1>3. vars \in [Vars -> Handles \cup {None}] /\ Backed(vars, Numbers)
  BY DEF IInv, RunInv, Numbers
<1>4. vars' \in [Vars -> Handles \cup {None}]
  BY <1>1, <1>2, <1>3
<1>5. Backed(vars', Numbers)
  BY <1>1, <1>2, <1>3 DEF Backed
<1>6. frames # << >>
  BY DEF Running
<1>7. RunInv'
  BY <1>1, <1>4, <1>5, <1>6 DEF IInv, RunInv, Numbers, Backed
<1>8. BInv'
  BY <1>1, BuildUnchanged DEF IInv
<1>9. FilesInv'
  BY <1>1 DEF IInv, FilesInv, Stored, Backed
<1> QED BY <1>7, <1>8, <1>9 DEF IInv

LEMMA PathIsId == \A p \in Paths : p \in Ids
BY BundlesAssumption DEF Paths, Ids

LEMMA MakeHandleInv ==
  ASSUME IInv, NEW v \in Vars, NEW p \in Paths, MakeHandle(v, p)
  PROVE  IInv'
<1> DEFINE m == Top.at
           t == Target(m, p)
<1>1. Running /\ m # None /\ Hold(v, t, p)
  BY DEF MakeHandle
<1>2. Rooted(bundles, m, Numbers)
  BY <1>1, MergedSound DEF Active
<1>3. /\ t.kind \in {"id", "path", "scoped"}
      /\ t.ref \in Ids
      /\ t.kind = "id" => t.ref \in Numbers
  <2>1. CASE p \in bundles[m.build]
    <3>1. t.kind = "id" /\ t.ref = Number(bundles, m.build, p)
      BY <2>1 DEF Target, DepId, Number
    <3>2. t.ref \in Numbers
      BY <3>1, <2>1, <1>2 DEF Rooted
    <3>3. Numbers \subseteq Ids
      BY PartialIs DEF IInv, RunInv, Sound, Registries, Numbers
    <3> QED BY <3>1, <3>2, <3>3
  <2>2. CASE p \notin bundles[m.build]
    <3>1. t.kind = "path" /\ t.ref = p
      BY <2>2 DEF Target
    <3> QED BY <3>1, PathIsId
  <2> QED BY <2>1, <2>2
<1> HIDE DEF t
<1> QED BY <1>1, <1>3, HoldInv

LEMMA MakeScopedHandleInv ==
  ASSUME IInv, NEW v \in Vars, MakeScopedHandle(v)
  PROVE  IInv'
<1> DEFINE t == [kind |-> "scoped", ref |-> Top.src]
<1>1. Running /\ Top.at # None /\ Top.src # None /\ Hold(v, t, Top.at.path)
  BY DEF MakeScopedHandle
<1>2. Top.at \in Modules /\ Top.src \in Paths
  BY <1>1, MergedSound DEF Activations
<1>3. Top.at.path \in Paths /\ t.ref \in Ids /\ t.kind = "scoped"
  BY <1>2, PathIsId DEF Modules
<1> HIDE DEF t
<1> QED BY <1>1, <1>3, HoldInv

LEMMA Str2funcInv ==
  ASSUME IInv, NEW v \in Vars, NEW n, Str2func(v, n)
  PROVE  IInv'
<1>1. PICK p \in Named(shared, n) : Running /\ Hold(v, [kind |-> "path", ref |-> p], p)
  BY DEF Str2func
<1>2. p \in Paths
  BY PartialIs DEF Named, IInv, RunInv, Sound, Registries
<1> DEFINE t == [kind |-> "path", ref |-> p]
<1>3. Hold(v, t, p) /\ t.kind = "path" /\ t.ref \in Ids
  BY <1>1, <1>2, PathIsId
<1> HIDE DEF t
<1> QED BY <1>1, <1>2, <1>3, HoldInv

-----------------------------------------------------------------------------
(***************************************************************************)
(* Snapshots.                                                              *)
(***************************************************************************)

(* What is packed has every number of the run and the modules it needs.    *)
LEMMA SnapshotSound ==
  ASSUME IInv, NEW ws
  PROVE  LET mods == SnapshotModules(ws) IN
         /\ mods \in Partial(Ids)
         /\ AllRooted(bundles, mods, Numbers)
         /\ Numbers \subseteq DOMAIN mods
<1> DEFINE I == {RootId(p) : p \in RootPaths(ws)}
           roots == [i \in I |-> shared.paths[CHOOSE p \in RootPaths(ws) : RootId(p) = i]]
<1>1. /\ shared.paths \in Partial(Paths) /\ shared.ids \in Partial(Ids)
      /\ AllRooted(bundles, shared.paths, Numbers)
      /\ AllRooted(bundles, shared.ids, Numbers)
  BY DEF IInv, RunInv, Sound, Registries, Numbers
<1>2. RootPaths(ws) \subseteq DOMAIN shared.paths /\ DOMAIN shared.paths \subseteq Paths
  BY <1>1, PartialIs DEF RootPaths
<1>3. I \subseteq Ids
  BY <1>2, BundlesAssumption DEF RootId, Paths, Ids
<1>4. \A i \in I : \E p \in RootPaths(ws) : roots[i] = shared.paths[p]
  <2> SUFFICES ASSUME NEW i \in I PROVE \E p \in RootPaths(ws) : roots[i] = shared.paths[p]
    OBVIOUS
  <2>1. \E p \in RootPaths(ws) : RootId(p) = i
    OBVIOUS
  <2> QED BY <2>1
<1>5. DOMAIN roots = I /\ roots = [i \in DOMAIN roots |-> roots[i]]
  OBVIOUS
<1>6. SnapshotModules(ws) = Over(shared.ids, roots)
  BY DEF SnapshotModules
<1> HIDE DEF roots, I
<1>7. \A p \in RootPaths(ws) : shared.paths[p] \in Modules
  BY <1>1, <1>2, PartialIs
<1>8. roots \in Partial(Ids)
  BY <1>3, <1>4, <1>5, <1>7, PartialIs
<1>9. AllRooted(bundles, roots, Numbers)
  BY <1>1, <1>2, <1>4, <1>5 DEF AllRooted
<1>10. Over(shared.ids, roots) \in Partial(Ids)
  BY <1>1, <1>8, OverPartial
<1>11. AllRooted(bundles, Over(shared.ids, roots), Numbers)
  BY <1>1, <1>9, OverRooted
<1>12. Numbers \subseteq DOMAIN Over(shared.ids, roots)
  BY DEF Over, Numbers
<1> QED BY <1>6, <1>10, <1>11, <1>12

(* Writing a sound snapshot.                                               *)
LEMMA WriteInv ==
  ASSUME IInv, NEW f \in Files, NEW snapshot \in Snapshots,
         Stored(bundles, snapshot),
         files' = [files EXCEPT ![f] = snapshot], UNCHANGED bundles
  PROVE  /\ files' \in [Files -> Snapshots \cup {None}]
         /\ \A g \in Files : files'[g] # None => Stored(bundles', files'[g])
<1>1. files \in [Files -> Snapshots \cup {None}]
      /\ \A g \in Files : files[g] # None => Stored(bundles, files[g])
  BY DEF IInv, FilesInv
<1>2. \A g \in Files : files'[g] = IF g = f THEN snapshot ELSE files[g]
  BY <1>1
<1> QED BY <1>1, <1>2

LEMMA RunUnchanged ==
  ASSUME IInv, UNCHANGED <<build, run>>
  PROVE  BInv' /\ RunInv'
<1>1. UNCHANGED <<uses, building, bundles, shared, frames, vars, met>>
  BY DEF build, run
<1>2. BInv'
  BY <1>1, BuildUnchanged DEF IInv
<1>3. RunInv'
  BY <1>1 DEF IInv, RunInv, Backed
<1> QED BY <1>2, <1>3

LEMMA SaveInv ==
  ASSUME IInv, NEW f \in Files, NEW names, Save(f, names)
  PROVE  IInv'
<1> DEFINE ws == Selected(names)
           mods == IF BundleBacked(ws) THEN SnapshotModules(ws) ELSE << >>
           snapshot == [vars |-> ws, met |-> met, mods |-> mods]
<1>1. /\ files' = [files EXCEPT ![f] = snapshot]
      /\ UNCHANGED <<build, run, orphaned>>
  BY DEF Save
<1>2. ws \in [Vars -> Handles \cup {None}]
  BY DEF Selected, IInv, RunInv
<1>3. /\ mods \in Partial(Ids)
      /\ AllRooted(bundles, mods, DOMAIN mods)
      /\ Backed(ws, DOMAIN mods)
  <2>1. Backed(ws, Numbers)
    BY DEF Selected, Backed, IInv, RunInv, Numbers
  <2> HIDE DEF ws
  <2>2. CASE BundleBacked(ws)
    <3>1. mods = SnapshotModules(ws)
      BY <2>2
    <3> HIDE DEF mods
    <3>2. mods \in Partial(Ids) /\ AllRooted(bundles, mods, Numbers) /\ Numbers \subseteq DOMAIN mods
      BY <3>1, SnapshotSound
    <3>3. AllRooted(bundles, mods, DOMAIN mods)
      BY <3>2, RootedGrows
    <3> QED BY <3>2, <3>3, <2>1 DEF Backed
  <2>3. CASE ~BundleBacked(ws)
    <3>1. mods = << >> /\ DOMAIN mods = {}
      BY <2>3
    <3>2. Backed(ws, {})
      BY <2>3 DEF BundleBacked, Backed
    <3> QED BY <3>1, <3>2, EmptySound DEF AllRooted
  <2> QED BY <2>2, <2>3
<1>4. met \subseteq Roots
  BY DEF IInv, RunInv
<1> HIDE DEF ws, mods
<1>5. snapshot \in Snapshots /\ Stored(bundles, snapshot)
  BY <1>2, <1>3, <1>4 DEF Snapshots, Stored
<1> HIDE DEF snapshot
<1>6. UNCHANGED bundles /\ UNCHANGED orphaned
  BY <1>1 DEF build
<1>7. FilesInv'
  BY <1>1, <1>5, <1>6, WriteInv DEF IInv, FilesInv
<1> QED BY <1>1, <1>7, RunUnchanged DEF IInv

LEMMA SaveAppendInv ==
  ASSUME IInv, NEW f \in Files, NEW names, SaveAppend(f, names)
  PROVE  IInv'
<1> DEFINE old == files[f]
           ws == Appended(f, names)
           mods == IF BundleBacked(ws) THEN Over(SnapshotModules(ws), old.mods) ELSE old.mods
           snapshot == [vars |-> ws, met |-> met \cup old.met, mods |-> mods]
<1>1. /\ files' = [files EXCEPT ![f] = snapshot]
      /\ old # None
      /\ UNCHANGED <<build, run, orphaned>>
  BY DEF SaveAppend
<1>2. old \in Snapshots /\ Stored(bundles, old)
  BY <1>1 DEF IInv, FilesInv
<1>3. ws \in [Vars -> Handles \cup {None}]
  BY <1>2 DEF Appended, IInv, RunInv, Snapshots
<1>4. /\ mods \in Partial(Ids)
      /\ AllRooted(bundles, mods, DOMAIN mods)
      /\ Backed(ws, DOMAIN mods)
  <2>1. \A v \in Vars : ws[v] # None /\ ws[v].kind = "id" =>
          ws[v].ref \in Numbers \/ ws[v].ref \in DOMAIN old.mods
    BY <1>2 DEF Appended, Backed, Stored, IInv, RunInv, Numbers
  <2>2. old.mods \in Partial(Ids) /\ AllRooted(bundles, old.mods, DOMAIN old.mods)
        /\ Backed(old.vars, DOMAIN old.mods)
    BY <1>2 DEF Stored, Snapshots
  <2>3. CASE BundleBacked(ws)
    <3> DEFINE new == SnapshotModules(ws)
    <3>1. new \in Partial(Ids) /\ AllRooted(bundles, new, Numbers) /\ Numbers \subseteq DOMAIN new
      BY SnapshotSound
    <3>2. mods = Over(new, old.mods)
      BY <2>3
    <3> HIDE DEF new, mods, ws, old
    <3>3. mods \in Partial(Ids)
      BY <3>1, <3>2, <2>2, OverPartial
    <3>4. DOMAIN mods = DOMAIN new \cup DOMAIN old.mods
      BY <3>2 DEF Over
    <3>5. AllRooted(bundles, new, DOMAIN mods) /\ AllRooted(bundles, old.mods, DOMAIN mods)
      BY <3>1, <3>4, <2>2, RootedGrows
    <3>6. AllRooted(bundles, mods, DOMAIN mods)
      BY <3>2, <3>5, OverRooted
    <3>7. Backed(ws, DOMAIN mods)
      BY <2>1, <3>1, <3>4 DEF Backed
    <3> QED BY <3>3, <3>6, <3>7
  <2>4. CASE ~BundleBacked(ws)
    <3>1. mods = old.mods
      BY <2>4
    <3> HIDE DEF mods, ws, old
    <3>2. Backed(ws, DOMAIN mods)
      BY <2>4 DEF BundleBacked, Backed
    <3> QED BY <3>1, <3>2, <2>2
  <2> QED BY <2>3, <2>4
<1>5. met \cup old.met \subseteq Roots
  BY <1>2 DEF IInv, RunInv, Snapshots
<1> HIDE DEF ws, mods, old
<1>6. snapshot \in Snapshots /\ Stored(bundles, snapshot)
  BY <1>3, <1>4, <1>5 DEF Snapshots, Stored
<1> HIDE DEF snapshot
<1>7. UNCHANGED bundles /\ UNCHANGED orphaned
  BY <1>1 DEF build
<1>8. FilesInv'
  BY <1>1, <1>6, <1>7, WriteInv DEF IInv, FilesInv
<1> QED BY <1>1, <1>8, RunUnchanged DEF IInv

LEMMA LoadInv ==
  ASSUME IInv, NEW f \in Files, NEW names, Load(f, names)
  PROVE  IInv'
<1> DEFINE s == files[f]
<1>1. /\ s # None
      /\ frames # << >>
      /\ shared' = Install(shared, s.mods)
      /\ vars' = [v \in Vars |-> IF v \in names /\ s.vars[v] # None THEN s.vars[v] ELSE vars[v]]
      /\ met' = met \cup s.met
      /\ UNCHANGED <<uses, building, bundles, frames, files, orphaned>>
  BY DEF Load, Running, build, outside
<1>2. s \in Snapshots /\ Stored(bundles, s)
  BY <1>1 DEF IInv, FilesInv
<1> HIDE DEF s
<1>3. /\ s.vars \in [Vars -> Handles \cup {None}] /\ s.met \subseteq Roots
      /\ s.mods \in Partial(Ids)
      /\ AllRooted(bundles, s.mods, DOMAIN s.mods) /\ Backed(s.vars, DOMAIN s.mods)
  BY <1>2 DEF Snapshots, Stored
<1> DEFINE D == DOMAIN s.mods \cup Numbers
<1>4. Sound(bundles, shared, D) /\ AllRooted(bundles, s.mods, D)
  BY <1>3, SoundGrows, RootedGrows DEF IInv, RunInv, Numbers
<1>5. Sound(bundles, shared', D) /\ DOMAIN shared'.ids = D
  <2> DEFINE new == Install(shared, s.mods)
  <2> HIDE DEF D
  <2>1. Sound(bundles, new, D) /\ DOMAIN new.ids = DOMAIN s.mods \cup DOMAIN shared.ids
    BY <1>3, <1>4, InstallSound
  <2> HIDE DEF new
  <2>2. DOMAIN new.ids = D
    BY <2>1 DEF D, Numbers
  <2> QED BY <2>1, <2>2, <1>1 DEF new
<1>6. vars' \in [Vars -> Handles \cup {None}] /\ Backed(vars', D)
  BY <1>1, <1>3 DEF Backed, IInv, RunInv, Numbers
<1>7. \A k \in 1 .. Len(frames) : Active(bundles, frames[k], D)
  <2> SUFFICES ASSUME NEW k \in 1 .. Len(frames) PROVE Active(bundles, frames[k], D)
    OBVIOUS
  <2>1. Active(bundles, frames[k], Numbers) /\ Numbers \subseteq D
    BY DEF IInv, RunInv, Numbers
  <2> HIDE DEF D
  <2>2. Sound(bundles, frames[k].own, D)
    BY <2>1, SoundGrows DEF Active
  <2> QED BY <2>1, <2>2 DEF Active, Rooted
<1> HIDE DEF D
<1>8. RunInv'
  BY <1>1, <1>3, <1>5, <1>6, <1>7 DEF IInv, RunInv, Backed
<1>9. BInv'
  BY <1>1, BuildUnchanged DEF IInv
<1>10. FilesInv'
  BY <1>1 DEF IInv, FilesInv, Stored, Backed
<1> QED BY <1>8, <1>9, <1>10 DEF IInv

LEMMA ReturnInv ==
  ASSUME IInv, Return
  PROVE  IInv'
<1>1. /\ Len(frames) > 1
      /\ frames' = SubSeq(frames, 1, Len(frames) - 1)
      /\ UNCHANGED <<uses, building, bundles, shared, vars, met, files, orphaned>>
  BY DEF Return, build, outside
<1>2. frames \in Seq(Activations)
  BY DEF IInv, RunInv
<1>3. /\ frames' \in Seq(Activations)
      /\ Len(frames') = Len(frames) - 1
      /\ \A k \in 1 .. Len(frames') : k \in 1 .. Len(frames) /\ frames'[k] = frames[k]
  BY <1>1, <1>2
<1>4. frames' # << >>
  <2>1. Len(frames) \in Nat
    BY <1>2
  <2>2. Len(frames) > 1 /\ Len(frames') = Len(frames) - 1
    BY <1>1, <1>3
  <2>3. Len(frames') # 0
    BY <2>1, <2>2
  <2>4. frames' = << >> => Len(frames') = 0
    OBVIOUS
  <2> QED BY <2>3, <2>4
<1>5. \A k \in 1 .. Len(frames') : Active(bundles, frames'[k], DOMAIN shared.ids)
  BY <1>3 DEF IInv, RunInv
<1>6. RunInv'
  BY <1>1, <1>3, <1>4, <1>5 DEF IInv, RunInv, Backed
<1>7. BInv'
  BY <1>1, BuildUnchanged DEF IInv
<1>8. FilesInv'
  BY <1>1 DEF IInv, FilesInv, Stored, Backed
<1> QED BY <1>6, <1>7, <1>8 DEF IInv

(* Nothing of a run is left, and nothing holds of nothing.                 *)
LEMMA EndRunInv ==
  ASSUME IInv, EndRun
  PROVE  BInv' /\ RunInv'
<1>1. /\ frames' = << >> /\ shared' = NoModules /\ vars' = NoVars /\ met' = {}
      /\ UNCHANGED <<uses, building, bundles>>
  BY DEF EndRun, build
<1>2. BInv'
  BY <1>1, BuildUnchanged DEF IInv
<1>3. NoModules' = NoModules /\ NoVars' = NoVars
  BY DEF NoModules, NoVars
<1>4. RunInv'
  <2>1. vars' \in [Vars -> Handles \cup {None}] /\ Backed(vars', {})
    BY <1>1 DEF NoVars, Backed
  <2>2. Sound(bundles, shared', DOMAIN shared'.ids) /\ DOMAIN shared'.ids = {}
    BY <1>1, EmptySound
  <2>3. frames' \in Seq(Activations) /\ Len(frames') = 0
    BY <1>1
  <2> QED BY <1>1, <2>1, <2>2, <2>3 DEF RunInv, Backed, NoVars
<1> QED BY <1>2, <1>4

LEMMA ExportInv ==
  ASSUME IInv, NEW f \in Files, Export(f)
  PROVE  IInv'
<1> DEFINE snapshot == [vars |-> vars, met |-> met, mods |-> shared.ids]
<1>1. /\ files' = [files EXCEPT ![f] = snapshot]
      /\ orphaned' = orphaned \cup RootPaths(vars)
      /\ EndRun
  BY DEF Export
<1>2. snapshot \in Snapshots /\ Stored(bundles, snapshot)
  BY DEF IInv, RunInv, Snapshots, Stored, Sound, Registries
<1> HIDE DEF snapshot
<1>3. UNCHANGED bundles
  BY <1>1 DEF EndRun, build
<1>4. orphaned' \subseteq Paths
  <2>1. RootPaths(vars) \subseteq DOMAIN shared.paths
    BY DEF RootPaths
  <2>2. DOMAIN shared.paths \subseteq Paths
    BY PartialIs DEF IInv, RunInv, Sound, Registries
  <2> QED BY <1>1, <2>1, <2>2 DEF IInv, FilesInv
<1>5. FilesInv'
  BY <1>1, <1>2, <1>3, <1>4, WriteInv DEF FilesInv
<1> QED BY <1>1, <1>5, EndRunInv DEF IInv

-----------------------------------------------------------------------------
(***************************************************************************)
(* The theorems.                                                           *)
(***************************************************************************)

LEMMA IInvInit == Init => IInv
<1> SUFFICES ASSUME Init PROVE IInv
  OBVIOUS
<1> USE DEF Init
<1>1. BInv
  BY BundlesAssumption DEF BInv, BuildTyped, Work, BundlesAreWhole
<1>2. RunInv
  <2>1. vars \in [Vars -> Handles \cup {None}] /\ Backed(vars, {})
    BY DEF NoVars, Backed
  <2>2. Sound(bundles, shared, DOMAIN shared.ids) /\ DOMAIN shared.ids = {}
    BY EmptySound
  <2>3. frames \in Seq(Activations) /\ Len(frames) = 0
    OBVIOUS
  <2> QED BY <2>1, <2>2, <2>3 DEF RunInv
<1>3. FilesInv
  BY DEF FilesInv
<1> QED BY <1>1, <1>2, <1>3 DEF IInv

LEMMA BuildInv ==
  ASSUME IInv, (\E r \in Roots : BuildBegin(r)) \/ (\E p \in Paths : BuildStep(p)) \/ BuildEnd
  PROVE  IInv'
<1>1. CASE \E r \in Roots : BuildBegin(r)
  <2>1. PICK r \in Roots : BuildBegin(r)
    BY <1>1
  <2>2. BInv'
    BY <2>1, BuildBeginInv DEF IInv
  <2>3. UNCHANGED <<bundles, run, outside>>
    BY <2>1 DEF BuildBegin
  <2> QED BY <2>2, <2>3, BuildKeeps DEF IInv
<1>2. CASE \E p \in Paths : BuildStep(p)
  <2>1. PICK p \in Paths : BuildStep(p)
    BY <1>2
  <2>2. BInv'
    BY <2>1, BuildStepInv DEF IInv
  <2>3. UNCHANGED <<bundles, run, outside>>
    BY <2>1 DEF BuildStep
  <2> QED BY <2>2, <2>3, BuildKeeps DEF IInv
<1>3. CASE BuildEnd
  <2>1. BInv' /\ \A r \in Roots : bundles[r] # None => bundles'[r] = bundles[r]
    BY <1>3, BuildEndInv DEF IInv
  <2>2. UNCHANGED <<run, outside>>
    BY <1>3 DEF BuildEnd
  <2> QED BY <2>1, <2>2, BuildKeeps DEF IInv
<1> QED BY <1>1, <1>2, <1>3

LEMMA CallInv ==
  ASSUME IInv,
         \/ \E v \in Vars : CallHandle(v)
         \/ \E p \in Paths : CallStatic(p)
         \/ \E n \in Names : CallName(n)
  PROVE  IInv'
<1>1. CASE \E v \in Vars : CallHandle(v)
  <2>1. PICK v \in Vars : CallHandle(v)
    BY <1>1
  <2>2. Running /\ vars[v] \in Handles
    BY <2>1 DEF CallHandle, IInv, RunInv
  <2>3. PICK c \in HandleCallees(Top, vars[v]) : Enter(c)
    BY <2>1 DEF CallHandle
  <2>4. Runnable(c)
    BY <2>2, <2>3, HandleCalleesRegistered, RegisteredIsRunnable
  <2> QED BY <2>2, <2>3, <2>4, EnterInv
<1>2. CASE \E p \in Paths : CallStatic(p)
  <2>1. PICK p \in Paths : CallStatic(p)
    BY <1>2
  <2>2. Running
    BY <2>1 DEF CallStatic
  <2>3. PICK c \in StaticCallees(Top, Target(Top.at, p)) : Enter(c)
    BY <2>1 DEF CallStatic
  <2>4. Runnable(c)
    BY <2>2, <2>3, StaticCalleesRegistered, RegisteredIsRunnable
  <2> QED BY <2>2, <2>3, <2>4, EnterInv
<1>3. CASE \E n \in Names : CallName(n)
  <2>1. PICK n \in Names : CallName(n)
    BY <1>3
  <2>2. Running
    BY <2>1 DEF CallName
  <2>3. PICK p \in Named(Merged(Top), n) : Enter(Callee(Merged(Top).paths[p], p))
    BY <2>1 DEF CallName
  <2>4. Runnable(Callee(Merged(Top).paths[p], p))
    BY <2>2, <2>3, RegisteredRunnable DEF Named
  <2> QED BY <2>2, <2>3, <2>4, EnterInv
<1> QED BY <1>1, <1>2, <1>3

LEMMA IInvNext == IInv /\ [Next]_all => IInv'
<1> SUFFICES ASSUME IInv, [Next]_all PROVE IInv'
  OBVIOUS
<1>1. CASE UNCHANGED all
  <2>1. UNCHANGED <<build, run, files, orphaned>>
    BY <1>1 DEF all, outside
  <2>2. UNCHANGED bundles
    BY <2>1 DEF build
  <2>3. FilesInv'
    BY <2>1, <2>2 DEF IInv, FilesInv, Stored, Backed
  <2> QED BY <2>1, <2>3, RunUnchanged DEF IInv
<1>2. CASE (\E r \in Roots : BuildBegin(r)) \/ (\E p \in Paths : BuildStep(p)) \/ BuildEnd
  BY <1>2, BuildInv
<1>3. CASE \E r \in Roots : RunBundle(r)
  BY <1>3, RunBundleInv
<1>4. CASE \E engine \in {"vm", "interpreter"} : RunScript(engine)
  BY <1>4, RunScriptInv
<1>5. CASE \/ \E v \in Vars : CallHandle(v)
           \/ \E p \in Paths : CallStatic(p)
           \/ \E n \in Names : CallName(n)
  BY <1>5, CallInv
<1>6. CASE \/ \E v \in Vars : MakeScopedHandle(v)
           \/ \E v \in Vars, p \in Paths : MakeHandle(v, p)
           \/ \E v \in Vars, n \in Names : Str2func(v, n)
  BY <1>6, MakeScopedHandleInv, MakeHandleInv, Str2funcInv
<1>7. CASE \E f \in Files, names \in SUBSET Vars :
             Save(f, names) \/ SaveAppend(f, names) \/ Load(f, names)
  BY <1>7, SaveInv, SaveAppendInv, LoadInv
<1>8. CASE Return
  BY <1>8, ReturnInv
<1>9. CASE End
  <2>1. EndRun /\ UNCHANGED outside
    BY <1>9 DEF End
  <2>2. UNCHANGED <<bundles, files, orphaned>>
    BY <2>1 DEF EndRun, build, outside
  <2>3. FilesInv'
    BY <2>2 DEF IInv, FilesInv, Stored, Backed
  <2> QED BY <2>1, <2>3, EndRunInv DEF IInv
<1>10. CASE \E f \in Files : Export(f)
  BY <1>10, ExportInv
<1> QED BY <1>1, <1>2, <1>3, <1>4, <1>5, <1>6, <1>7, <1>8, <1>9, <1>10 DEF Next

LEMMA Invariance == Spec => []IInv
BY IInvInit, IInvNext, PTL DEF Spec

LEMMA RegistryTyped ==
  ASSUME NEW D, NEW reg, Sound(bundles, reg, D)
  PROVE  Registry(reg)
<1>1. /\ DOMAIN reg = {"paths", "ids"}
      /\ reg.paths \in Partial(Paths) /\ reg.ids \in Partial(Ids)
      /\ \A p \in DOMAIN reg.paths : reg.paths[p].path = p
  BY DEF Sound, Registries
<1>2. Holds(reg.paths, Paths) /\ Holds(reg.ids, Ids)
  BY <1>1, PartialIs DEF Holds, Image
<1> QED BY <1>1, <1>2 DEF Registry

(* The type invariant: registries hold modules under their own paths, and  *)
(* numbers stay among those of dependencies and packed roots.              *)
THEOREM BundlesTypeCorrect == Spec => []TypeOK
<1>1. IInv => TypeOK
  <2> SUFFICES ASSUME IInv PROVE TypeOK
    OBVIOUS
  <2>1. /\ uses \in Graphs /\ building \in Building \cup {None}
        /\ bundles \in [Roots -> (SUBSET Paths) \cup {None}]
    BY DEF IInv, BInv, BuildTyped
  <2>2. Registry(shared)
    BY RegistryTyped DEF IInv, RunInv
  <2>3. /\ frames \in Seq(Activations)
        /\ \A k \in 1 .. Len(frames) : Active(bundles, frames[k], DOMAIN shared.ids)
        /\ vars \in [Vars -> Handles \cup {None}]
        /\ met \subseteq Roots
    BY DEF IInv, RunInv
  <2>4. \A k \in DOMAIN frames : /\ frames[k].at \in Modules \cup {None}
                                 /\ frames[k].src \in Paths \cup {None}
                                 /\ Registry(frames[k].own)
    <3> SUFFICES ASSUME NEW k \in DOMAIN frames
                 PROVE  /\ frames[k].at \in Modules \cup {None}
                        /\ frames[k].src \in Paths \cup {None}
                        /\ Registry(frames[k].own)
      OBVIOUS
    <3>1. frames[k] \in Activations /\ Active(bundles, frames[k], DOMAIN shared.ids)
      BY <2>3
    <3>2. Registry(frames[k].own)
      BY <3>1, RegistryTyped DEF Active
    <3> QED BY <3>1, <3>2 DEF Activations
  <2>5. \A f \in Files : files[f] # None =>
          /\ files[f].vars \in [Vars -> Handles \cup {None}]
          /\ Holds(files[f].mods, Ids)
          /\ files[f].met \subseteq Roots
    <3> SUFFICES ASSUME NEW f \in Files, files[f] # None
                 PROVE  /\ files[f].vars \in [Vars -> Handles \cup {None}]
                        /\ Holds(files[f].mods, Ids)
                        /\ files[f].met \subseteq Roots
      OBVIOUS
    <3>1. files[f] \in Snapshots
      BY DEF IInv, FilesInv
    <3>2. Holds(files[f].mods, Ids)
      BY <3>1, PartialIs DEF Snapshots, Holds, Image
    <3> QED BY <3>1, <3>2 DEF Snapshots
  <2>6. orphaned \subseteq Paths
    BY DEF IInv, FilesInv
  <2> QED BY <2>1, <2>2, <2>3, <2>4, <2>5, <2>6 DEF TypeOK, Building
<1> QED BY <1>1, Invariance, PTL

(* A bundle is what its root reaches (build_bytecode_bundle), whatever the *)
(* files refer to.                                                         *)
THEOREM BundlesStayWhole == Spec => []BundlesAreWhole
<1>1. IInv => BundlesAreWhole
  BY DEF IInv, BInv
<1> QED BY <1>1, Invariance, PTL

(* However runs save, append and load, a module is registered for the      *)
(* number of every handle, and for every number in the code of a module.   *)
THEOREM NumbersStayBacked == Spec => []NumbersAreBacked
<1>1. IInv => NumbersAreBacked
  <2> SUFFICES ASSUME IInv, Running PROVE NumbersAreBacked
    BY DEF NumbersAreBacked
  <2> DEFINE reg == Merged(Top)
  <2>1. Sound(bundles, reg, Numbers) /\ Numbers \subseteq DOMAIN reg.ids
    BY MergedSound
  <2> HIDE DEF reg
  <2>2. \A v \in Held : vars[v].kind = "id" => vars[v].ref \in DOMAIN reg.ids
    BY <2>1 DEF Held, IInv, RunInv, Backed, Numbers
  <2>3. ASSUME NEW m \in Image(reg.ids) \cup Image(reg.paths),
               NEW p \in uses[m.path] \ {m.build}
        PROVE  DepId(m.build, p) \in DOMAIN reg.ids
    <3>1. Rooted(bundles, m, Numbers)
      BY <2>1 DEF Sound, AllRooted, Image
    <3>2. m.build \in Roots /\ bundles[m.build] # None
      BY <3>1 DEF Rooted, Modules
    <3>3. Closed(bundles[m.build], m.build)
      BY <3>2, WholeIsClosed DEF IInv, BInv
    <3>4. p \in bundles[m.build]
      BY <3>1, <3>3 DEF Rooted, Closed
    <3>5. DepId(m.build, p) = Number(bundles, m.build, p)
      BY DEF DepId, Number
    <3> QED BY <2>1, <3>1, <3>4, <3>5 DEF Rooted
  <2> QED BY <2>2, <2>3 DEF NumbersAreBacked, reg
<1> QED BY <1>1, Invariance, PTL

-----------------------------------------------------------------------------
(***************************************************************************)
(* What a number means.  A numbered module is a dependency under its       *)
(* number in its own bundle, or was packed for a handle under RootId.  What *)
(* an activation can see of its own is registered for all: by number, and  *)
(* the file by its path.  Nothing is of a bundle that had no part in it.   *)
(***************************************************************************)
PathsOf(f) == {f[i].path : i \in DOMAIN f}

Numbered(b, i, m) ==
  \/ m.path \in b[m.build] /\ i = Number(b, m.build, m.path)
  \/ i = RootId(m.path)

AllNumbered(b, M, f) == \A i \in DOMAIN f : f[i].build \in M /\ Numbered(b, i, f[i])

AllOf(M, f) == \A p \in DOMAIN f : f[p].build \in M

Kept(b, M, P, N, reg) ==
  /\ AllNumbered(b, M, reg.ids)
  /\ DOMAIN reg.ids \subseteq N
  /\ PathsOf(reg.ids) \subseteq P
  /\ DOMAIN reg.paths \subseteq P
  /\ AllOf(M, reg.paths)

KeptBy(b, M, P, N, act) ==
  /\ Kept(b, M, P, N, act.own)
  /\ act.at # None => act.at.build \in M /\ act.at.path \in P

Reachable == DOMAIN shared.paths

RunKept ==
  /\ Kept(bundles, met, Reachable, Numbers, shared)
  /\ \A k \in 1 .. Len(frames) : KeptBy(bundles, met, Reachable, Numbers, frames[k])

FilesKept ==
  \A f \in Files : files[f] # None => AllNumbered(bundles, files[f].met, files[f].mods)

(* Where only bundle r has a part, a handle has the number of its file, or *)
(* its path.  P has the paths that modules are there for, O those of roots *)
(* that were left behind.                                                  *)
MeansIt(b, r, h, P, O) ==
  /\ h.kind = "id" => /\ r \in Roots /\ b[r] # None
                      /\ h.means \in b[r] /\ h.ref = Number(b, r, h.means)
  /\ h.kind = "path" => h.ref = h.means /\ h.ref \in Roots \cup P
  /\ h.kind = "scoped" => h.ref = h.means /\ h.ref \in O \cup P

AllMeanIt(b, r, ws, P, O) == \A v \in Vars : ws[v] # None => MeansIt(b, r, ws[v], P, O)

KnowsItself(act) == act.at # None => act.src = act.at.path

RunMeans ==
  \A r : met \subseteq {r} =>
    /\ \A k \in 1 .. Len(frames) : KnowsItself(frames[k])
    /\ AllMeanIt(bundles, r, vars, Reachable, orphaned)

SnapshotMeans(b, s, O) ==
  \A r : s.met \subseteq {r} => AllMeanIt(b, r, s.vars, PathsOf(s.mods), O)

FilesMean == \A f \in Files : files[f] # None => SnapshotMeans(bundles, files[f], orphaned)

JInv == IInv /\ RunKept /\ FilesKept /\ RunMeans /\ FilesMean

(* Two files of a bundle have two numbers, below all that roots have.      *)
LEMMA NumbersAreApart ==
  ASSUME BuildTyped, NEW r \in Roots, bundles[r] # None,
         NEW p \in bundles[r], NEW q \in bundles[r]
  PROVE  /\ Number(bundles, r, p) \in Nat
         /\ Number(bundles, r, p) <= FileCount
         /\ Number(bundles, r, p) = Number(bundles, r, q) => p = q
<1> DEFINE Below(x) == {y \in bundles[r] : y < x}
<1>1. bundles[r] \subseteq 1 .. FileCount
  BY DEF BuildTyped, Paths
<1>2. IsFiniteSet(1 .. FileCount) /\ Cardinality(1 .. FileCount) = FileCount
  BY FS_Interval, BundlesAssumption
<1>3. ASSUME NEW x \in bundles[r]
      PROVE  /\ IsFiniteSet(Below(x))
             /\ Cardinality(Below(x)) \in Nat
             /\ Cardinality(Below(x)) <= FileCount
             /\ Number(bundles, r, x) = Cardinality(Below(x))
  <2>1. Below(x) \in SUBSET (1 .. FileCount)
    BY <1>1
  <2> HIDE DEF Below
  <2>2. IsFiniteSet(Below(x)) /\ Cardinality(Below(x)) <= FileCount
    BY <2>1, <1>2, FS_Subset
  <2>3. Cardinality(Below(x)) \in Nat
    BY <2>2, FS_CardinalityType
  <2>4. Number(bundles, r, x) = Cardinality(Below(x))
    BY DEF Number, Below
  <2> QED BY <2>2, <2>3, <2>4
<1>4. ASSUME NEW x \in bundles[r], NEW y \in bundles[r], x < y
      PROVE  Cardinality(Below(x)) # Cardinality(Below(y))
  <2>1. x \in Nat /\ y \in Nat /\ \A z \in bundles[r] : z \in Nat
    BY <1>1, BundlesAssumption
  <2>2. Below(x) \in SUBSET Below(y)
    BY <2>1, <1>4
  <2>3. x \in Below(y) /\ x \notin Below(x)
    BY <2>1, <1>4
  <2> HIDE DEF Below
  <2>4. IsFiniteSet(Below(y))
    BY <1>3
  <2> QED BY <2>2, <2>3, <2>4, FS_Subset
<1>5. p \in Nat /\ q \in Nat
  BY <1>1, BundlesAssumption
<1> HIDE DEF Below
<1>6. p < q \/ q < p \/ p = q
  BY <1>5
<1> QED BY <1>3, <1>4, <1>6

(* A number of one bundle means one file.                                  *)
LEMMA OneFileOfANumber ==
  ASSUME BuildTyped, NEW i, NEW D, NEW E, NEW m, NEW n,
         Rooted(bundles, m, D), Rooted(bundles, n, E), m.build = n.build,
         Numbered(bundles, i, m), Numbered(bundles, i, n)
  PROVE  m.path = n.path
<1> DEFINE r == m.build
<1>1. /\ r \in Roots /\ bundles[r] # None
      /\ m.path \in Paths /\ n.path \in Paths
  BY DEF Rooted, Modules
<1>2. m.path \in Nat /\ n.path \in Nat /\ m.path > 0 /\ n.path > 0 /\ FileCount \in Nat
  BY <1>1, BundlesAssumption DEF Paths
<1>3. CASE m.path \in bundles[r] /\ i = Number(bundles, r, m.path)
  <2>1. i <= FileCount /\ i \in Nat
    BY <1>1, <1>3, NumbersAreApart
  <2>2. i # RootId(n.path)
    BY <2>1, <1>2 DEF RootId
  <2>3. n.path \in bundles[r] /\ i = Number(bundles, r, n.path)
    BY <2>2 DEF Numbered
  <2> QED BY <1>1, <1>3, <2>3, NumbersAreApart
<1>4. CASE i = RootId(m.path)
  <2>1. CASE n.path \in bundles[r] /\ i = Number(bundles, r, n.path)
    <3>1. i <= FileCount /\ i \in Nat
      BY <1>1, <2>1, NumbersAreApart
    <3> QED BY <3>1, <1>2, <1>4 DEF RootId
  <2>2. CASE i = RootId(n.path)
    BY <1>2, <1>4, <2>2 DEF RootId
  <2> QED BY <2>1, <2>2 DEF Numbered
<1> QED BY <1>3, <1>4 DEF Numbered

(* More bundles, paths and numbers do no harm.                             *)
LEMMA KeptGrows ==
  ASSUME NEW b, NEW M, NEW P, NEW N, NEW L, NEW Q, NEW E,
         M \subseteq L, P \subseteq Q, N \subseteq E
  PROVE  /\ \A f : AllNumbered(b, M, f) => AllNumbered(b, L, f)
         /\ \A f : AllOf(M, f) => AllOf(L, f)
         /\ \A reg : Kept(b, M, P, N, reg) => Kept(b, L, Q, E, reg)
         /\ \A act : KeptBy(b, M, P, N, act) => KeptBy(b, L, Q, E, act)
<1>1. \A f : AllNumbered(b, M, f) => AllNumbered(b, L, f)
  BY DEF AllNumbered
<1>2. \A f : AllOf(M, f) => AllOf(L, f)
  BY DEF AllOf
<1>3. \A reg : Kept(b, M, P, N, reg) => Kept(b, L, Q, E, reg)
  BY <1>1, <1>2 DEF Kept
<1>4. \A act : KeptBy(b, M, P, N, act) => KeptBy(b, L, Q, E, act)
  BY <1>3 DEF KeptBy
<1> QED BY <1>1, <1>2, <1>3, <1>4

LEMMA OverKept ==
  ASSUME NEW b, NEW M, NEW f, NEW g
  PROVE  /\ AllNumbered(b, M, f) /\ AllNumbered(b, M, g) => AllNumbered(b, M, Over(f, g))
         /\ AllOf(M, f) /\ AllOf(M, g) => AllOf(M, Over(f, g))
         /\ PathsOf(Over(f, g)) \subseteq PathsOf(f) \cup PathsOf(g)
         /\ DOMAIN Over(f, g) = DOMAIN f \cup DOMAIN g
<1>1. ASSUME NEW x \in DOMAIN Over(f, g)
      PROVE  \/ x \in DOMAIN f /\ Over(f, g)[x] = f[x]
             \/ x \in DOMAIN g /\ Over(f, g)[x] = g[x]
  BY OverEntry
<1>2. AllNumbered(b, M, f) /\ AllNumbered(b, M, g) => AllNumbered(b, M, Over(f, g))
  BY <1>1 DEF AllNumbered
<1>3. AllOf(M, f) /\ AllOf(M, g) => AllOf(M, Over(f, g))
  BY <1>1 DEF AllOf
<1>4. PathsOf(Over(f, g)) \subseteq PathsOf(f) \cup PathsOf(g)
  BY <1>1 DEF PathsOf
<1>5. DOMAIN Over(f, g) = DOMAIN f \cup DOMAIN g
  BY DEF Over
<1> QED BY <1>2, <1>3, <1>4, <1>5

LEMMA MergeKept ==
  ASSUME NEW b, NEW M, NEW P, NEW N, NEW f, NEW g,
         Kept(b, M, P, N, f), Kept(b, M, P, N, g)
  PROVE  Kept(b, M, P, N, [paths |-> Over(f.paths, g.paths), ids |-> Over(f.ids, g.ids)])
<1> DEFINE ps == Over(f.paths, g.paths)
           is == Over(f.ids, g.ids)
<1>1. /\ AllNumbered(b, M, is)
      /\ PathsOf(is) \subseteq PathsOf(f.ids) \cup PathsOf(g.ids)
      /\ DOMAIN is = DOMAIN f.ids \cup DOMAIN g.ids
  BY OverKept DEF Kept
<1>2. AllOf(M, ps) /\ DOMAIN ps = DOMAIN f.paths \cup DOMAIN g.paths
  BY OverKept DEF Kept
<1> HIDE DEF ps, is
<1>3. PathsOf(is) \subseteq P /\ DOMAIN is \subseteq N /\ DOMAIN ps \subseteq P
  BY <1>1, <1>2 DEF Kept
<1>4. Kept(b, M, P, N, [paths |-> ps, ids |-> is])
  BY <1>1, <1>2, <1>3 DEF Kept
<1> QED BY <1>4 DEF ps, is

(* Every numbered module is found by its path, and no other.               *)
LEMMA ByPathKept ==
  ASSUME NEW mods \in Partial(Ids), NEW M, \A i \in DOMAIN mods : mods[i].build \in M
  PROVE  DOMAIN ByPath(mods) = PathsOf(mods) /\ AllOf(M, ByPath(mods))
<1> DEFINE Last(p, i) == /\ mods[i].path = p
                         /\ \A j \in DOMAIN mods : mods[j].path = p => j <= i
<1>1. ByPath(mods) = [p \in PathsOf(mods) |-> mods[CHOOSE i \in DOMAIN mods : Last(p, i)]]
  BY DEF ByPath, PathsOf
<1>2. DOMAIN ByPath(mods) = PathsOf(mods)
  BY <1>1
<1>3. ASSUME NEW p \in PathsOf(mods) PROVE ByPath(mods)[p].build \in M
  <2> DEFINE S == {i \in DOMAIN mods : mods[i].path = p}
  <2>1. DOMAIN mods \subseteq Ids
    BY PartialIs
  <2>2. S # {} /\ S \subseteq 0 .. 2 * FileCount
    BY <2>1 DEF Ids, PathsOf
  <2>3. 2 * FileCount \in Nat
    BY BundlesAssumption
  <2>4. \E i \in S : \A j \in S : j <= i
    BY <2>2, <2>3, LastExists
  <2>5. \E i \in DOMAIN mods : Last(p, i)
    BY <2>4
  <2>6. ByPath(mods)[p] = mods[CHOOSE i \in DOMAIN mods : Last(p, i)]
    BY <1>1
  <2> HIDE DEF Last
  <2>7. (CHOOSE i \in DOMAIN mods : Last(p, i)) \in DOMAIN mods
    BY <2>5
  <2> QED BY <2>6, <2>7
<1> QED BY <1>2, <1>3 DEF AllOf

(* What the running activation sees, and what it may call.                 *)
LEMMA KeptMerged ==
  ASSUME JInv, Running
  PROVE  /\ KeptBy(bundles, met, Reachable, Numbers, Top)
         /\ Kept(bundles, met, Reachable, Numbers, Merged(Top))
<1>1. Len(frames) \in 1 .. Len(frames)
  BY DEF JInv, IInv, RunInv, Running
<1>2. KeptBy(bundles, met, Reachable, Numbers, Top)
  BY <1>1 DEF Top, JInv, RunKept
<1>3. Kept(bundles, met, Reachable, Numbers, Own(Top)) /\ Kept(bundles, met, Reachable, Numbers, shared)
  BY <1>2 DEF Own, KeptBy, JInv, RunKept
<1>4. Merged(Top) = [paths |-> Over(Own(Top).paths, shared.paths),
                     ids   |-> Over(Own(Top).ids, shared.ids)]
  BY DEF Merged
<1>5. Kept(bundles, met, Reachable, Numbers, Merged(Top))
  BY <1>3, <1>4, MergeKept
<1> QED BY <1>2, <1>5

LEMMA TopKnowsItself ==
  ASSUME JInv, Running, NEW r, met \subseteq {r}
  PROVE  KnowsItself(Top)
<1>1. Len(frames) \in 1 .. Len(frames)
  BY DEF JInv, IInv, RunInv, Running
<1> QED BY <1>1 DEF Top, JInv, RunMeans

Known(c) ==
  /\ c.at.build \in met /\ c.at.path \in Reachable
  /\ \A r : met \subseteq {r} => c.src = c.at.path

(* What is found by a number is the file the number has for all.           *)
LEMMA RegisteredIsKnown ==
  ASSUME JInv, Running, NEW c, Registered(c)
  PROVE  Known(c)
<1> DEFINE reg == Merged(Top)
<1>1. /\ Kept(bundles, met, Reachable, Numbers, reg)
      /\ Kept(bundles, met, Reachable, Numbers, shared)
      /\ Sound(bundles, reg, Numbers) /\ Sound(bundles, shared, Numbers)
  BY KeptMerged, MergedSound DEF JInv, RunKept, IInv, RunInv, Numbers
<1> HIDE DEF reg
<1>2. \A m, s : Callee(m, s).at = m /\ Callee(m, s).src = s
  BY DEF Callee
<1>3. ASSUME NEW i \in DOMAIN reg.ids, c = Callee(reg.ids[i], Source(i)) PROVE Known(c)
  <2>1. i \in DOMAIN shared.ids
    BY <1>1 DEF Kept, Numbers
  <2>2. Source(i) = shared.ids[i].path
    BY <2>1 DEF Source
  <2>3. reg.ids[i].build \in met /\ reg.ids[i].path \in Reachable
    BY <1>1 DEF Kept, AllNumbered, PathsOf
  <2>4. ASSUME NEW r, met \subseteq {r} PROVE Source(i) = reg.ids[i].path
    <3> DEFINE m == reg.ids[i]
               n == shared.ids[i]
    <3>1. m.build = n.build /\ Numbered(bundles, i, m) /\ Numbered(bundles, i, n)
      BY <1>1, <2>1, <2>4 DEF Kept, AllNumbered
    <3>2. Rooted(bundles, m, Numbers) /\ Rooted(bundles, n, Numbers)
      BY <1>1, <2>1 DEF Sound, AllRooted
    <3> HIDE DEF m, n
    <3>3. m.path = n.path
      BY <3>1, <3>2, OneFileOfANumber DEF JInv, IInv, BInv
    <3> QED BY <3>3, <2>2 DEF m, n
  <2> QED BY <2>3, <2>4, <1>2, <1>3 DEF Known
<1>4. ASSUME NEW p \in DOMAIN reg.paths, c = Callee(reg.paths[p], p) PROVE Known(c)
  <2>1. reg.paths[p].path = p /\ reg.paths[p].build \in met /\ p \in Reachable
    BY <1>1 DEF Sound, Kept, AllOf
  <2> QED BY <2>1, <1>2, <1>4 DEF Known
<1> QED BY <1>3, <1>4 DEF Registered, reg

LEMMA RunStays ==
  ASSUME JInv, UNCHANGED <<bundles, shared, frames, vars, met, orphaned>>
  PROVE  RunKept' /\ RunMeans'
<1>1. RunKept'
  BY DEF JInv, RunKept, Reachable, Numbers
<1>2. RunMeans'
  BY DEF JInv, RunMeans, AllMeanIt, Reachable
<1> QED BY <1>1, <1>2

LEMMA FilesStay ==
  ASSUME JInv, UNCHANGED <<bundles, files, orphaned>>
  PROVE  FilesKept' /\ FilesMean'
<1>1. FilesKept'
  BY DEF JInv, FilesKept
<1>2. FilesMean'
  BY DEF JInv, FilesMean, SnapshotMeans, AllMeanIt
<1> QED BY <1>1, <1>2

JKept == RunKept /\ FilesKept /\ RunMeans /\ FilesMean

LEMMA EnterKeeps ==
  ASSUME JInv, Running, NEW c, Known(c), Enter(c)
  PROVE  JKept'
<1> DEFINE act == [at |-> c.at, src |-> c.src, own |-> Merged(Top), engine |-> "vm"]
<1>1. /\ frames' = Append(frames, act)
      /\ UNCHANGED <<uses, building, bundles, shared, vars, met, files, orphaned>>
  BY DEF Enter, build, outside
<1>2. KeptBy(bundles, met, Reachable, Numbers, act)
  BY KeptMerged DEF KeptBy, Known
<1>3. \A r : met \subseteq {r} => KnowsItself(act)
  BY DEF KnowsItself, Known
<1>4. frames \in Seq(Activations)
  BY DEF JInv, IInv, RunInv
<1> HIDE DEF act
<1>5. \A k \in 1 .. Len(frames') :
        frames'[k] = act \/ (k \in 1 .. Len(frames) /\ frames'[k] = frames[k])
  BY <1>1, <1>4
<1>6. RunKept'
  <2>1. \A k \in 1 .. Len(frames') : KeptBy(bundles, met, Reachable, Numbers, frames'[k])
    BY <1>2, <1>5 DEF JInv, RunKept
  <2> QED BY <1>1, <2>1 DEF JInv, RunKept, Reachable, Numbers
<1>7. RunMeans'
  <2>1. \A r : met \subseteq {r} => \A k \in 1 .. Len(frames') : KnowsItself(frames'[k])
    BY <1>3, <1>5 DEF JInv, RunMeans
  <2> QED BY <1>1, <2>1 DEF JInv, RunMeans, Reachable, AllMeanIt
<1> QED BY <1>1, <1>6, <1>7, FilesStay DEF JKept

LEMMA CallKeeps ==
  ASSUME JInv,
         \/ \E v \in Vars : CallHandle(v)
         \/ \E p \in Paths : CallStatic(p)
         \/ \E n \in Names : CallName(n)
  PROVE  JKept'
<1>1. Running /\ \E c : Registered(c) /\ Enter(c)
  <2>1. CASE \E v \in Vars : CallHandle(v)
    <3>1. PICK v \in Vars : CallHandle(v)
      BY <2>1
    <3>2. Running /\ vars[v] \in Handles
      BY <3>1 DEF CallHandle, JInv, IInv, RunInv
    <3>3. PICK c \in HandleCallees(Top, vars[v]) : Enter(c)
      BY <3>1 DEF CallHandle
    <3> QED BY <3>2, <3>3, HandleCalleesRegistered
  <2>2. CASE \E p \in Paths : CallStatic(p)
    <3>1. PICK p \in Paths : CallStatic(p)
      BY <2>2
    <3>2. Running
      BY <3>1 DEF CallStatic
    <3>3. PICK c \in StaticCallees(Top, Target(Top.at, p)) : Enter(c)
      BY <3>1 DEF CallStatic
    <3> QED BY <3>2, <3>3, StaticCalleesRegistered
  <2>3. CASE \E n \in Names : CallName(n)
    <3>1. PICK n \in Names : CallName(n)
      BY <2>3
    <3>2. Running
      BY <3>1 DEF CallName
    <3>3. PICK p \in Named(Merged(Top), n) : Enter(Callee(Merged(Top).paths[p], p))
      BY <3>1 DEF CallName
    <3>4. Registered(Callee(Merged(Top).paths[p], p))
      BY <3>3 DEF Named, Registered
    <3> QED BY <3>2, <3>3, <3>4
  <2> QED BY <2>1, <2>2, <2>3
<1>2. PICK c : Registered(c) /\ Enter(c)
  BY <1>1
<1> QED BY <1>1, <1>2, RegisteredIsKnown, EnterKeeps

(* A handle that is made.                                                  *)
LEMMA HoldKeeps ==
  ASSUME JInv, Running, NEW v \in Vars, NEW p \in Paths, NEW t, Hold(v, t, p),
         \A r : met \subseteq {r} =>
           MeansIt(bundles, r, [kind |-> t.kind, ref |-> t.ref, means |-> p], Reachable, orphaned)
  PROVE  JKept'
<1> DEFINE h == [kind |-> t.kind, ref |-> t.ref, means |-> p]
<1>1. /\ vars' = [vars EXCEPT ![v] = h]
      /\ UNCHANGED <<uses, building, bundles, shared, frames, met, files, orphaned>>
  BY DEF Hold, build, outside
<1>2. \A r : met \subseteq {r} => MeansIt(bundles, r, h, Reachable, orphaned)
  OBVIOUS
<1> HIDE DEF h
<1>3. vars \in [Vars -> Handles \cup {None}]
  BY DEF JInv, IInv, RunInv
<1>4. \A u \in Vars : vars'[u] = IF u = v THEN h ELSE vars[u]
  BY <1>1, <1>3
<1>5. \A r : met \subseteq {r} => AllMeanIt(bundles, r, vars', Reachable, orphaned)
  BY <1>2, <1>4 DEF AllMeanIt, JInv, RunMeans
<1>6. RunMeans'
  BY <1>1, <1>5 DEF JInv, RunMeans, Reachable, AllMeanIt
<1>7. RunKept'
  BY <1>1 DEF JInv, RunKept, Reachable, Numbers
<1> QED BY <1>1, <1>6, <1>7, FilesStay DEF JKept

LEMMA MakeHandleKeeps ==
  ASSUME JInv, NEW v \in Vars, NEW p \in Paths, MakeHandle(v, p)
  PROVE  JKept'
<1> DEFINE m == Top.at
           t == Target(m, p)
           h == [kind |-> t.kind, ref |-> t.ref, means |-> p]
<1>1. Running /\ m # None /\ p \in uses[m.path] /\ Hold(v, t, p)
  BY DEF MakeHandle
<1>2. Rooted(bundles, m, Numbers)
  BY <1>1, MergedSound DEF Active, JInv
<1>3. m.build \in met
  BY <1>1, KeptMerged DEF KeptBy
<1>4. m.build \in Roots /\ bundles[m.build] # None
  BY <1>2 DEF Rooted, Modules
<1>5. ASSUME NEW r, met \subseteq {r}
      PROVE  MeansIt(bundles, r, h, Reachable, orphaned)
  <2>1. r = m.build
    BY <1>3, <1>5
  <2>2. CASE p \in bundles[m.build]
    <3>1. t.kind = "id" /\ t.ref = Number(bundles, m.build, p)
      BY <2>2 DEF Target, DepId, Number
    <3> HIDE DEF t
    <3>2. h.kind = "id" /\ h.ref = Number(bundles, r, p) /\ h.means = p
      BY <2>1, <3>1
    <3> QED BY <1>4, <2>1, <2>2, <3>2 DEF MeansIt
  <2>3. CASE p \notin bundles[m.build]
    <3>1. t.kind = "path" /\ t.ref = p
      BY <2>3 DEF Target
    <3>2. Closed(bundles[m.build], m.build)
      BY <1>4, WholeIsClosed DEF JInv, IInv, BInv
    <3>3. p = r
      BY <1>1, <1>2, <2>1, <2>3, <3>2 DEF Closed, Rooted
    <3> HIDE DEF t
    <3>4. h.kind = "path" /\ h.ref = p /\ h.means = p
      BY <3>1
    <3> QED BY <1>4, <2>1, <3>3, <3>4 DEF MeansIt
  <2> QED BY <2>2, <2>3
<1> HIDE DEF t
<1> QED BY <1>1, <1>5, HoldKeeps

LEMMA MakeScopedHandleKeeps ==
  ASSUME JInv, NEW v \in Vars, MakeScopedHandle(v)
  PROVE  JKept'
<1> DEFINE t == [kind |-> "scoped", ref |-> Top.src]
           h == [kind |-> t.kind, ref |-> t.ref, means |-> Top.at.path]
<1>1. Running /\ Top.at # None /\ Top.src # None /\ Hold(v, t, Top.at.path)
  BY DEF MakeScopedHandle
<1>2. Top.at \in Modules
  BY <1>1, MergedSound DEF Activations, JInv
<1>3. Top.at.path \in Paths
  BY <1>2 DEF Modules
<1>4. Top.at.path \in Reachable
  BY <1>1, KeptMerged DEF KeptBy
<1>5. ASSUME NEW r, met \subseteq {r} PROVE MeansIt(bundles, r, h, Reachable, orphaned)
  <2>1. Top.src = Top.at.path
    BY <1>1, <1>5, TopKnowsItself DEF KnowsItself
  <2>2. h.kind = "scoped" /\ h.ref = Top.at.path /\ h.means = Top.at.path
    BY <2>1
  <2> HIDE DEF h
  <2> QED BY <1>4, <2>2 DEF MeansIt
<1> HIDE DEF t
<1> QED BY <1>1, <1>3, <1>5, HoldKeeps

LEMMA Str2funcKeeps ==
  ASSUME JInv, NEW v \in Vars, NEW n, Str2func(v, n)
  PROVE  JKept'
<1>1. PICK p \in Named(shared, n) : Running /\ Hold(v, [kind |-> "path", ref |-> p], p)
  BY DEF Str2func
<1>2. p \in Paths /\ p \in Reachable
  BY PartialIs DEF Named, JInv, IInv, RunInv, Sound, Registries, Reachable
<1> DEFINE t == [kind |-> "path", ref |-> p]
           h == [kind |-> t.kind, ref |-> t.ref, means |-> p]
<1>3. h.kind = "path" /\ h.ref = p /\ h.means = p
  OBVIOUS
<1>4. Hold(v, t, p)
  BY <1>1
<1> HIDE DEF t
<1>5. \A r : MeansIt(bundles, r, h, Reachable, orphaned)
  <2> HIDE DEF h
  <2> QED BY <1>2, <1>3 DEF MeansIt
<1> QED BY <1>1, <1>2, <1>4, <1>5, HoldKeeps

-----------------------------------------------------------------------------
(***************************************************************************)
(* Snapshots keep meanings.                                                *)
(***************************************************************************)
LEMMA MeansItGrows ==
  ASSUME NEW b, NEW r, NEW h, NEW P, NEW Q, NEW O, NEW U,
         P \subseteq Q, O \subseteq U, MeansIt(b, r, h, P, O)
  PROVE  MeansIt(b, r, h, Q, U)
BY DEF MeansIt

(* With one bundle, all that is registered but the root has a number.      *)
LEMMA ReachableIs ==
  ASSUME JInv, NEW r, met \subseteq {r}, NEW p \in Reachable
  PROVE  p \in Roots \cup PathsOf(shared.ids)
<1> DEFINE m == shared.paths[p]
<1>1. /\ Sound(bundles, shared, Numbers)
      /\ Kept(bundles, met, Reachable, Numbers, shared)
  BY DEF JInv, IInv, RunInv, RunKept, Numbers
<1>2. /\ m.path = p /\ Rooted(bundles, m, Numbers) /\ m.build \in met
  BY <1>1 DEF Sound, AllRooted, Kept, AllOf, Reachable
<1>3. m.build \in Roots /\ bundles[m.build] # None /\ p \in bundles[m.build] \cup {m.build}
  BY <1>2 DEF Rooted, Modules
<1>4. CASE p \in bundles[m.build]
  <2> DEFINE i == Number(bundles, m.build, p)
             n == shared.ids[i]
  <2>1. i \in DOMAIN shared.ids
    BY <1>2, <1>4 DEF Rooted, Numbers
  <2>2. Rooted(bundles, n, Numbers) /\ n.build \in met /\ Numbered(bundles, i, n)
    BY <1>1, <2>1 DEF Sound, AllRooted, Kept, AllNumbered
  <2>3. m.build = n.build
    BY <1>2, <2>2
  <2>4. Numbered(bundles, i, m)
    BY <1>2, <1>4 DEF Numbered
  <2> HIDE DEF m, n, i
  <2>5. m.path = n.path
    BY <1>2, <2>2, <2>3, <2>4, OneFileOfANumber DEF JInv, IInv, BInv
  <2> QED BY <1>2, <2>1, <2>5 DEF PathsOf, n
<1> QED BY <1>3, <1>4

(* What is packed has every number of the run under the same number, and   *)
(* every root that a handle needs.                                         *)
LEMMA SnapshotKept ==
  ASSUME JInv, NEW ws
  PROVE  /\ AllNumbered(bundles, met, SnapshotModules(ws))
         /\ PathsOf(shared.ids) \subseteq PathsOf(SnapshotModules(ws))
         /\ RootPaths(ws) \subseteq PathsOf(SnapshotModules(ws))
<1> DEFINE I == {RootId(p) : p \in RootPaths(ws)}
           roots == [i \in I |-> shared.paths[CHOOSE p \in RootPaths(ws) : RootId(p) = i]]
           mods == Over(shared.ids, roots)
<1>1. /\ Sound(bundles, shared, Numbers)
      /\ Kept(bundles, met, Reachable, Numbers, shared)
  BY DEF JInv, IInv, RunInv, RunKept, Numbers
<1>2. RootPaths(ws) \subseteq DOMAIN shared.paths /\ DOMAIN shared.paths \subseteq Paths
  BY <1>1, PartialIs DEF RootPaths, Sound, Registries
<1>3. \A p \in RootPaths(ws) : shared.paths[p].path = p /\ shared.paths[p].build \in met
  BY <1>1, <1>2 DEF Sound, Kept, AllOf
<1>4. SnapshotModules(ws) = mods
  BY DEF SnapshotModules
<1>5. \A i \in I : \E p \in RootPaths(ws) : RootId(p) = i /\ roots[i] = shared.paths[p]
  <2> SUFFICES ASSUME NEW i \in I
               PROVE  \E p \in RootPaths(ws) : RootId(p) = i /\ roots[i] = shared.paths[p]
    OBVIOUS
  <2>1. \E p \in RootPaths(ws) : RootId(p) = i
    OBVIOUS
  <2> QED BY <2>1
<1>6. DOMAIN roots = I
  OBVIOUS
<1>7. \A p \in RootPaths(ws) : RootId(p) \in I
  OBVIOUS
<1>8. \A p \in Paths : p \in Nat /\ p > 0 /\ RootId(p) = FileCount + p /\ FileCount \in Nat
  BY BundlesAssumption DEF Paths, RootId
<1> HIDE DEF roots, I
<1>9. AllNumbered(bundles, met, roots)
  BY <1>3, <1>5, <1>6 DEF AllNumbered, Numbered
<1>10. AllNumbered(bundles, met, shared.ids)
  BY <1>1 DEF Kept
<1>11. AllNumbered(bundles, met, mods)
  BY <1>9, <1>10, OverKept
<1>12. /\ DOMAIN mods = DOMAIN shared.ids \cup I
       /\ \A i \in DOMAIN shared.ids : mods[i] = shared.ids[i]
       /\ \A i \in I : i \notin DOMAIN shared.ids => mods[i] = roots[i]
  BY <1>6 DEF Over
<1> HIDE DEF mods
<1>13. PathsOf(shared.ids) \subseteq PathsOf(mods)
  BY <1>12 DEF PathsOf
<1>14. ASSUME NEW p \in RootPaths(ws) PROVE p \in PathsOf(mods)
  <2>1. p \in Paths /\ RootId(p) \in I
    BY <1>2, <1>7
  <2>2. CASE RootId(p) \in DOMAIN shared.ids
    <3> DEFINE m == shared.ids[RootId(p)]
    <3>1. Rooted(bundles, m, Numbers) /\ Numbered(bundles, RootId(p), m)
      BY <1>1, <2>2 DEF Sound, AllRooted, Kept, AllNumbered
    <3>2. m.build \in Roots /\ bundles[m.build] # None /\ m.path \in Paths
      BY <3>1 DEF Rooted, Modules
    <3>3. ASSUME m.path \in bundles[m.build], RootId(p) = Number(bundles, m.build, m.path)
          PROVE  FALSE
      <4> DEFINE i == Number(bundles, m.build, m.path)
      <4>1. i \in Nat /\ i <= FileCount
        BY <3>2, <3>3, NumbersAreApart DEF JInv, IInv, BInv
      <4>2. i = FileCount + p
        BY <2>1, <3>3, <1>8
      <4> HIDE DEF i
      <4> QED BY <4>1, <4>2, <2>1, <1>8
    <3>4. RootId(p) = RootId(m.path)
      BY <3>1, <3>3 DEF Numbered
    <3>5. m.path = p
      <4> HIDE DEF m
      <4> QED BY <2>1, <3>2, <3>4, <1>8
    <3> QED BY <2>2, <3>5, <1>13 DEF PathsOf
  <2>3. CASE RootId(p) \notin DOMAIN shared.ids
    <3>1. PICK q \in RootPaths(ws) : RootId(q) = RootId(p) /\ roots[RootId(p)] = shared.paths[q]
      BY <2>1, <1>5
    <3>2. q \in Paths
      BY <1>2
    <3>3. q = p
      BY <2>1, <3>1, <3>2, <1>8
    <3>4. RootId(p) \in DOMAIN mods /\ mods[RootId(p)].path = p
      BY <2>1, <2>3, <3>1, <3>3, <1>3, <1>12
    <3> QED BY <3>4 DEF PathsOf
  <2> QED BY <2>2, <2>3
<1> QED BY <1>4, <1>11, <1>13, <1>14

(* A handle of the run still means its file once it is saved.              *)
LEMMA SavedMeansIt ==
  ASSUME JInv, NEW r, met \subseteq {r}, NEW ws, NEW v \in Vars, ws[v] # None,
         ws[v].kind \in {"id", "path", "scoped"},
         MeansIt(bundles, r, ws[v], Reachable, orphaned)
  PROVE  /\ BundleBacked(ws) =>
              MeansIt(bundles, r, ws[v], PathsOf(SnapshotModules(ws)), orphaned)
         /\ ~ BundleBacked(ws) => MeansIt(bundles, r, ws[v], {}, orphaned)
<1> DEFINE h == ws[v]
           P == PathsOf(SnapshotModules(ws))
<1>1. PathsOf(shared.ids) \subseteq P /\ RootPaths(ws) \subseteq P
  BY SnapshotKept
<1>2. \A p \in Reachable : p \in Roots \cup P
  BY <1>1, ReachableIs
<1>3. ASSUME h.kind = "scoped", h.ref \in Reachable PROVE h.ref \in P
  <2>1. CASE \E i \in DOMAIN shared.ids : shared.ids[i].path = h.ref
    BY <1>1, <2>1 DEF PathsOf
  <2>2. CASE \A i \in DOMAIN shared.ids : shared.ids[i].path # h.ref
    <3>1. h.ref \in RootPaths(ws)
      BY <1>3, <2>2 DEF RootPaths, Reachable
    <3> QED BY <1>1, <3>1
  <2> QED BY <2>1, <2>2
<1>4. ASSUME BundleBacked(ws) PROVE MeansIt(bundles, r, h, P, orphaned)
  <2> HIDE DEF P
  <2> QED BY <1>2, <1>3 DEF MeansIt
<1>5. ASSUME ~ BundleBacked(ws) PROVE MeansIt(bundles, r, h, {}, orphaned)
  <2>1. h.kind # "id" /\ h.ref \notin Reachable
    BY <1>5 DEF BundleBacked, Reachable
  <2> QED BY <2>1 DEF MeansIt
<1> QED BY <1>4, <1>5

LEMMA WriteKeeps ==
  ASSUME JInv, NEW f \in Files, NEW snapshot, UNCHANGED bundles, orphaned \subseteq orphaned',
         files' = [files EXCEPT ![f] = snapshot],
         AllNumbered(bundles, snapshot.met, snapshot.mods),
         SnapshotMeans(bundles, snapshot, orphaned')
  PROVE  FilesKept' /\ FilesMean'
<1>1. files \in [Files -> Snapshots \cup {None}]
  BY DEF JInv, IInv, FilesInv
<1>2. \A g \in Files : files'[g] = IF g = f THEN snapshot ELSE files[g]
  BY <1>1
<1>3. FilesKept'
  BY <1>2 DEF JInv, FilesKept
<1>4. \A s : SnapshotMeans(bundles, s, orphaned) => SnapshotMeans(bundles, s, orphaned')
  <2> DEFINE O == orphaned
             U == orphaned'
  <2>1. O \subseteq U
    OBVIOUS
  <2> HIDE DEF O, U
  <2>2. \A s : SnapshotMeans(bundles, s, O) => SnapshotMeans(bundles, s, U)
    BY <2>1, MeansItGrows DEF SnapshotMeans, AllMeanIt
  <2> QED BY <2>2 DEF O, U
<1>5. \A g \in Files : files'[g] # None => SnapshotMeans(bundles, files'[g], orphaned')
  BY <1>2, <1>4 DEF JInv, FilesMean
<1>6. FilesMean'
  BY <1>5 DEF FilesMean
<1> QED BY <1>3, <1>6

LEMMA SaveKeeps ==
  ASSUME JInv, NEW f \in Files, NEW names, Save(f, names)
  PROVE  JKept'
<1> DEFINE ws == Selected(names)
           mods == IF BundleBacked(ws) THEN SnapshotModules(ws) ELSE << >>
           snapshot == [vars |-> ws, met |-> met, mods |-> mods]
<1>1. /\ files' = [files EXCEPT ![f] = snapshot]
      /\ UNCHANGED <<bundles, shared, frames, vars, met, orphaned>>
  BY DEF Save, build, run
<1>2. AllNumbered(bundles, met, mods)
  <2>1. CASE BundleBacked(ws)
    BY <2>1, SnapshotKept
  <2>2. CASE ~ BundleBacked(ws)
    BY <2>2 DEF AllNumbered
  <2> QED BY <2>1, <2>2
<1>3. vars \in [Vars -> Handles \cup {None}]
  BY DEF JInv, IInv, RunInv
<1>4. \A v \in Vars : ws[v] # None => ws[v] = vars[v] /\ ws[v].kind \in {"id", "path", "scoped"}
  BY <1>3 DEF Selected, Handles
<1>5. ASSUME NEW r, met \subseteq {r} PROVE AllMeanIt(bundles, r, ws, PathsOf(mods), orphaned)
  <2> SUFFICES ASSUME NEW v \in Vars, ws[v] # None
               PROVE  MeansIt(bundles, r, ws[v], PathsOf(mods), orphaned)
    BY DEF AllMeanIt
  <2>1. MeansIt(bundles, r, ws[v], Reachable, orphaned)
    BY <1>4, <1>5 DEF JInv, RunMeans, AllMeanIt
  <2>2. ws[v].kind \in {"id", "path", "scoped"}
    BY <1>4
  <2> HIDE DEF ws
  <2>3. CASE BundleBacked(ws)
    <3>1. mods = SnapshotModules(ws)
      BY <2>3
    <3> HIDE DEF mods
    <3> QED BY <2>1, <2>2, <2>3, <3>1, <1>5, SavedMeansIt
  <2>4. CASE ~ BundleBacked(ws)
    <3>1. MeansIt(bundles, r, ws[v], {}, orphaned)
      BY <2>1, <2>2, <2>4, <1>5, SavedMeansIt
    <3> HIDE DEF mods
    <3> QED BY <3>1, MeansItGrows
  <2> QED BY <2>3, <2>4
<1> HIDE DEF ws, mods
<1>6. AllNumbered(bundles, snapshot.met, snapshot.mods) /\ SnapshotMeans(bundles, snapshot, orphaned)
  BY <1>2, <1>5 DEF SnapshotMeans
<1> HIDE DEF snapshot
<1>7. FilesKept' /\ FilesMean'
  BY <1>1, <1>6, WriteKeeps
<1> QED BY <1>1, <1>7, RunStays DEF JKept

(* The modules of the file that have numbers of the run are the same ones, *)
(* if no second bundle has a part in either.                               *)
LEMMA AppendKeepsPaths ==
  ASSUME JInv, NEW ws, NEW f \in Files, files[f] # None, NEW r, met \cup files[f].met \subseteq {r}
  PROVE  PathsOf(files[f].mods) \subseteq PathsOf(Over(SnapshotModules(ws), files[f].mods))
<1> DEFINE new == SnapshotModules(ws)
           old == files[f].mods
           mods == Over(new, old)
<1>1. AllRooted(bundles, new, Numbers) /\ AllNumbered(bundles, met, new)
  BY SnapshotSound, SnapshotKept DEF JInv
<1>2. AllRooted(bundles, old, DOMAIN old) /\ AllNumbered(bundles, files[f].met, old)
  BY DEF JInv, IInv, FilesInv, Stored, FilesKept
<1>3. /\ DOMAIN mods = DOMAIN new \cup DOMAIN old
      /\ \A i \in DOMAIN new : mods[i] = new[i]
      /\ \A i \in DOMAIN old : i \notin DOMAIN new => mods[i] = old[i]
  BY DEF Over
<1> HIDE DEF mods, new, old
<1>4. ASSUME NEW i \in DOMAIN old PROVE i \in DOMAIN mods /\ mods[i].path = old[i].path
  <2>1. CASE i \in DOMAIN new
    <3> DEFINE m == new[i]
               n == old[i]
    <3>1. m.build = n.build /\ Numbered(bundles, i, m) /\ Numbered(bundles, i, n)
      BY <1>1, <1>2, <2>1 DEF AllNumbered
    <3>2. Rooted(bundles, m, Numbers) /\ Rooted(bundles, n, DOMAIN old)
      BY <1>1, <1>2, <2>1 DEF AllRooted
    <3> HIDE DEF m, n
    <3>3. m.path = n.path
      BY <3>1, <3>2, OneFileOfANumber DEF JInv, IInv, BInv
    <3> QED BY <1>3, <2>1, <3>3 DEF m, n
  <2>2. CASE i \notin DOMAIN new
    BY <1>3, <2>2
  <2> QED BY <2>1, <2>2
<1>5. PathsOf(old) \subseteq PathsOf(mods)
  BY <1>4 DEF PathsOf
<1> QED BY <1>5 DEF mods, new, old

LEMMA SaveAppendKeeps ==
  ASSUME JInv, NEW f \in Files, NEW names, SaveAppend(f, names)
  PROVE  JKept'
<1> DEFINE old == files[f]
           ws == Appended(f, names)
           new == SnapshotModules(ws)
           mods == IF BundleBacked(ws) THEN Over(new, old.mods) ELSE old.mods
           snapshot == [vars |-> ws, met |-> met \cup old.met, mods |-> mods]
<1>1. /\ files' = [files EXCEPT ![f] = snapshot]
      /\ old # None
      /\ UNCHANGED <<bundles, shared, frames, vars, met, orphaned>>
  BY DEF SaveAppend, build, run
<1>2. old \in Snapshots /\ vars \in [Vars -> Handles \cup {None}]
  BY <1>1 DEF JInv, IInv, RunInv, FilesInv
<1>3. AllNumbered(bundles, old.met, old.mods) /\ SnapshotMeans(bundles, old, orphaned)
  BY <1>1 DEF JInv, FilesKept, FilesMean
<1>4. AllNumbered(bundles, met \cup old.met, mods)
  <2>1. AllNumbered(bundles, met \cup old.met, new) /\ AllNumbered(bundles, met \cup old.met, old.mods)
    BY <1>3, SnapshotKept DEF AllNumbered
  <2> HIDE DEF new, old
  <2> QED BY <2>1, OverKept
<1>5. \A v \in Vars : ws[v] # None =>
        /\ ws[v] = vars[v] \/ ws[v] = old.vars[v]
        /\ ws[v].kind \in {"id", "path", "scoped"}
  BY <1>2 DEF Appended, Handles, Snapshots
<1>6. ASSUME NEW r, met \cup old.met \subseteq {r}
      PROVE  AllMeanIt(bundles, r, ws, PathsOf(mods), orphaned)
  <2> SUFFICES ASSUME NEW v \in Vars, ws[v] # None
               PROVE  MeansIt(bundles, r, ws[v], PathsOf(mods), orphaned)
    BY DEF AllMeanIt
  <2>1. PathsOf(old.mods) \subseteq PathsOf(Over(new, old.mods))
    BY <1>1, <1>6, AppendKeepsPaths
  <2>2. BundleBacked(ws) => PathsOf(new) \subseteq PathsOf(mods)
    <3>1. \A i \in DOMAIN new : i \in DOMAIN Over(new, old.mods) /\ Over(new, old.mods)[i] = new[i]
      BY DEF Over
    <3> HIDE DEF new, old
    <3>2. PathsOf(new) \subseteq PathsOf(Over(new, old.mods))
      BY <3>1 DEF PathsOf
    <3> QED BY <3>2
  <2>3. PathsOf(old.mods) \subseteq PathsOf(mods)
    BY <2>1
  <2>4. CASE ws[v] = old.vars[v]
    <3>1. MeansIt(bundles, r, ws[v], PathsOf(old.mods), orphaned)
      BY <1>3, <1>6, <2>4 DEF SnapshotMeans, AllMeanIt
    <3> HIDE DEF ws, old, mods
    <3> QED BY <2>3, <3>1, MeansItGrows
  <2>5. CASE ws[v] = vars[v]
    <3>1. MeansIt(bundles, r, ws[v], Reachable, orphaned) /\ met \subseteq {r}
      BY <1>6, <2>5 DEF JInv, RunMeans, AllMeanIt
    <3>2. ws[v].kind \in {"id", "path", "scoped"}
      BY <1>5
    <3> HIDE DEF ws, old, mods
    <3>3. CASE BundleBacked(ws)
      <4>1. MeansIt(bundles, r, ws[v], PathsOf(new), orphaned)
        BY <3>1, <3>2, <3>3, SavedMeansIt
      <4> HIDE DEF new
      <4> QED BY <2>2, <3>3, <4>1, MeansItGrows
    <3>4. CASE ~ BundleBacked(ws)
      <4>1. MeansIt(bundles, r, ws[v], {}, orphaned)
        BY <3>1, <3>2, <3>4, SavedMeansIt
      <4> QED BY <4>1, MeansItGrows
    <3> QED BY <3>3, <3>4
  <2> QED BY <1>5, <2>4, <2>5
<1> HIDE DEF ws, mods, old
<1>7. AllNumbered(bundles, snapshot.met, snapshot.mods) /\ SnapshotMeans(bundles, snapshot, orphaned)
  BY <1>4, <1>6 DEF SnapshotMeans
<1> HIDE DEF snapshot
<1>8. FilesKept' /\ FilesMean'
  BY <1>1, <1>7, WriteKeeps
<1> QED BY <1>1, <1>8, RunStays DEF JKept

LEMMA LoadKeeps ==
  ASSUME JInv, NEW f \in Files, NEW names, Load(f, names)
  PROVE  JKept'
<1> DEFINE s == files[f]
           M == met \cup s.met
           P == PathsOf(s.mods) \cup Reachable
           N == DOMAIN s.mods \cup Numbers
<1>1. /\ s # None
      /\ shared' = Install(shared, s.mods)
      /\ vars' = [v \in Vars |-> IF v \in names /\ s.vars[v] # None THEN s.vars[v] ELSE vars[v]]
      /\ met' = M
      /\ UNCHANGED <<uses, building, bundles, frames, files, orphaned>>
  BY DEF Load, build, outside
<1>2. /\ s \in Snapshots
      /\ AllNumbered(bundles, s.met, s.mods) /\ SnapshotMeans(bundles, s, orphaned)
  BY <1>1 DEF JInv, IInv, FilesInv, FilesKept, FilesMean
<1>3. s.mods \in Partial(Ids)
  BY <1>2 DEF Snapshots
<1>4. Kept(bundles, met, Reachable, Numbers, shared)
  BY DEF JInv, RunKept
<1> HIDE DEF s
<1>5. DOMAIN ByPath(s.mods) = PathsOf(s.mods) /\ AllOf(M, ByPath(s.mods))
  BY <1>2, <1>3, ByPathKept DEF AllNumbered
<1>6. /\ DOMAIN shared'.paths = P
      /\ DOMAIN shared'.ids = N
      /\ AllOf(M, shared'.paths)
      /\ AllNumbered(bundles, M, shared'.ids)
      /\ PathsOf(shared'.ids) \subseteq P
  <2> DEFINE ps == Over(ByPath(s.mods), shared.paths)
             is == Over(s.mods, shared.ids)
  <2>1. shared'.paths = ps /\ shared'.ids = is
    BY <1>1 DEF Install
  <2>2. /\ AllNumbered(bundles, M, s.mods) /\ AllNumbered(bundles, M, shared.ids)
        /\ AllOf(M, shared.paths)
    BY <1>2, <1>4 DEF Kept, AllNumbered, AllOf
  <2> HIDE DEF M
  <2>3. AllOf(M, ps) /\ DOMAIN ps = DOMAIN ByPath(s.mods) \cup DOMAIN shared.paths
    BY <1>5, <2>2, OverKept
  <2>4. /\ AllNumbered(bundles, M, is)
        /\ PathsOf(is) \subseteq PathsOf(s.mods) \cup PathsOf(shared.ids)
        /\ DOMAIN is = DOMAIN s.mods \cup DOMAIN shared.ids
    BY <2>2, OverKept
  <2> HIDE DEF ps, is
  <2> QED BY <1>4, <1>5, <2>1, <2>3, <2>4 DEF Kept, Reachable, Numbers
<1>7. met \subseteq M /\ Reachable \subseteq P /\ Numbers \subseteq N
  OBVIOUS
<1>8. Reachable' = P /\ Numbers' = N
  BY <1>6 DEF Reachable, Numbers
<1>9. \A k \in 1 .. Len(frames) : KeptBy(bundles, M, P, N, frames[k])
  <2>1. \A k \in 1 .. Len(frames) : KeptBy(bundles, met, Reachable, Numbers, frames[k])
    BY DEF JInv, RunKept
  <2> HIDE DEF M, P, N
  <2> QED BY <1>7, <2>1, KeptGrows
<1>10. RunKept'
  <2>1. Kept(bundles, M, P, N, shared')
    BY <1>6 DEF Kept
  <2> HIDE DEF M, P, N
  <2> QED BY <1>1, <1>8, <1>9, <2>1 DEF RunKept
<1>11. ASSUME NEW r, M \subseteq {r}
       PROVE  /\ \A k \in 1 .. Len(frames) : KnowsItself(frames[k])
              /\ AllMeanIt(bundles, r, vars', P, orphaned)
  <2>1. met \subseteq {r} /\ s.met \subseteq {r}
    BY <1>11
  <2>2. \A k \in 1 .. Len(frames) : KnowsItself(frames[k])
    BY <2>1 DEF JInv, RunMeans
  <2>3. AllMeanIt(bundles, r, vars, Reachable, orphaned)
    BY <2>1 DEF JInv, RunMeans
  <2>4. AllMeanIt(bundles, r, s.vars, PathsOf(s.mods), orphaned)
    BY <1>2, <2>1 DEF SnapshotMeans
  <2>5. \A v \in Vars : \/ vars'[v] = vars[v]
                        \/ vars'[v] = s.vars[v]
    BY <1>1
  <2>6. PathsOf(s.mods) \subseteq P
    OBVIOUS
  <2> HIDE DEF P
  <2>7. AllMeanIt(bundles, r, vars', P, orphaned)
    BY <1>7, <2>3, <2>4, <2>5, <2>6, MeansItGrows DEF AllMeanIt
  <2> QED BY <2>2, <2>7
<1>12. RunMeans'
  <2> HIDE DEF M, P, N
  <2> QED BY <1>1, <1>8, <1>11 DEF RunMeans, AllMeanIt
<1> QED BY <1>1, <1>10, <1>12, FilesStay DEF JKept

(* The registries a run of a bundle begins with.                           *)
LEMMA BundledKept ==
  ASSUME BuildTyped, NEW r \in Roots, bundles[r] # None
  PROVE  /\ AllNumbered(bundles, {r}, Bundled(r).ids)
         /\ DOMAIN Bundled(r).paths = PathsOf(Bundled(r).ids)
         /\ AllOf({r}, Bundled(r).paths)
<1> DEFINE D == {DepId(r, p) : p \in bundles[r]}
           ps == [p \in bundles[r] |-> Module(p, r)]
           is == [i \in D |-> Module(CHOOSE p \in bundles[r] : DepId(r, p) = i, r)]
<1>1. Bundled(r).paths = ps /\ Bundled(r).ids = is
  BY DEF Bundled
<1>2. \A p : Module(p, r).path = p /\ Module(p, r).build = r
  BY DEF Module
<1>3. ASSUME NEW i \in D PROVE \E p \in bundles[r] : is[i] = Module(p, r) /\ DepId(r, p) = i
  <2>1. \E p \in bundles[r] : DepId(r, p) = i
    OBVIOUS
  <2> QED BY <2>1
<1>4. DOMAIN is = D /\ \A p \in bundles[r] : DepId(r, p) \in D
  OBVIOUS
<1>5. DOMAIN ps = bundles[r] /\ \A p \in bundles[r] : ps[p] = Module(p, r)
  OBVIOUS
<1>6. \A p : DepId(r, p) = Number(bundles, r, p)
  BY DEF DepId, Number
<1> HIDE DEF D, ps, is
<1>7. AllNumbered(bundles, {r}, is)
  BY <1>2, <1>3, <1>4, <1>6 DEF AllNumbered, Numbered
<1>8. PathsOf(is) \subseteq bundles[r]
  BY <1>2, <1>3, <1>4 DEF PathsOf
<1>9. ASSUME NEW p \in bundles[r] PROVE p \in PathsOf(is)
  <2>1. PICK q \in bundles[r] : is[DepId(r, p)] = Module(q, r) /\ DepId(r, q) = DepId(r, p)
    BY <1>3, <1>4
  <2>2. q = p
    BY <2>1, <1>6, NumbersAreApart
  <2> QED BY <1>2, <1>4, <2>1, <2>2 DEF PathsOf
<1>10. AllOf({r}, ps)
  BY <1>2, <1>5 DEF AllOf
<1> QED BY <1>1, <1>5, <1>7, <1>8, <1>9, <1>10

LEMMA RunBundleKeeps ==
  ASSUME JInv, NEW r \in Roots, RunBundle(r)
  PROVE  JKept'
<1> DEFINE reg == Bundled(r)
           act == [at |-> Module(r, r), src |-> r, own |-> reg, engine |-> "vm"]
           root == [p \in {r} |-> Module(r, r)]
           P == {r} \cup PathsOf(reg.ids)
           N == DOMAIN reg.ids
<1>1. /\ bundles[r] # None
      /\ shared' = [paths |-> Over(root, ByPath(reg.ids)), ids |-> reg.ids]
      /\ frames' = << act >>
      /\ frames = << >>
      /\ met' = {r}
      /\ UNCHANGED <<uses, building, bundles, vars, files, orphaned>>
  BY DEF RunBundle, Idle, build, outside
<1>2. /\ AllNumbered(bundles, {r}, reg.ids)
      /\ DOMAIN reg.paths = PathsOf(reg.ids)
      /\ AllOf({r}, reg.paths)
      /\ reg.ids \in Partial(Ids)
  BY <1>1, BundledKept, BundledSound DEF JInv, IInv, BInv, Sound, Registries
<1>3. Module(r, r).path = r /\ Module(r, r).build = r
  BY DEF Module
<1> HIDE DEF reg
<1>4. DOMAIN ByPath(reg.ids) = PathsOf(reg.ids) /\ AllOf({r}, ByPath(reg.ids))
  BY <1>2, ByPathKept DEF AllNumbered
<1>5. DOMAIN root = {r} /\ AllOf({r}, root)
  BY <1>3 DEF AllOf
<1> HIDE DEF root
<1>6. /\ AllOf({r}, Over(root, ByPath(reg.ids)))
      /\ DOMAIN Over(root, ByPath(reg.ids)) = DOMAIN root \cup DOMAIN ByPath(reg.ids)
  BY <1>4, <1>5, OverKept
<1>7. shared'.paths = Over(root, ByPath(reg.ids)) /\ shared'.ids = reg.ids
  BY <1>1
<1>8. Reachable' = P /\ Numbers' = N /\ AllOf({r}, shared'.paths)
  BY <1>4, <1>5, <1>6, <1>7 DEF Reachable, Numbers
<1>9. Kept(bundles, {r}, P, N, shared') /\ Kept(bundles, {r}, P, N, reg)
  BY <1>2, <1>7, <1>8 DEF Kept, Reachable
<1>10. KeptBy(bundles, {r}, P, N, act) /\ KnowsItself(act)
  BY <1>3, <1>9 DEF KeptBy, KnowsItself
<1> HIDE DEF act, P, N
<1>11. \A k \in 1 .. Len(frames') : frames'[k] = act
  BY <1>1
<1>12. RunKept'
  BY <1>1, <1>8, <1>9, <1>10, <1>11 DEF RunKept
<1>13. vars = NoVars
  BY <1>1 DEF JInv, IInv, RunInv
<1>14. RunMeans'
  BY <1>1, <1>10, <1>11, <1>13 DEF RunMeans, AllMeanIt, NoVars
<1> QED BY <1>1, <1>12, <1>14, FilesStay DEF JKept

LEMMA EmptyKept ==
  ASSUME NEW b, NEW M, NEW P, NEW N
  PROVE  Kept(b, M, P, N, NoModules)
<1>1. NoModules.paths = << >> /\ NoModules.ids = << >> /\ DOMAIN << >> = {}
  BY DEF NoModules
<1> QED BY <1>1 DEF Kept, AllNumbered, AllOf, PathsOf

LEMMA RunScriptKeeps ==
  ASSUME JInv, NEW engine \in {"vm", "interpreter"}, RunScript(engine)
  PROVE  JKept'
<1> DEFINE act == [at |-> None, src |-> None, own |-> NoModules, engine |-> engine]
<1>1. /\ frames' = << act >>
      /\ UNCHANGED <<uses, building, bundles, shared, vars, met, files, orphaned>>
  BY DEF RunScript, build, outside
<1>2. KeptBy(bundles, met, Reachable, Numbers, act) /\ KnowsItself(act)
  BY EmptyKept DEF KeptBy, KnowsItself
<1> HIDE DEF act
<1>3. \A k \in 1 .. Len(frames') : frames'[k] = act
  BY <1>1
<1>4. RunKept'
  BY <1>1, <1>2, <1>3 DEF JInv, RunKept, Reachable, Numbers
<1>5. RunMeans'
  BY <1>1, <1>2, <1>3 DEF JInv, RunMeans, Reachable, AllMeanIt
<1> QED BY <1>1, <1>4, <1>5, FilesStay DEF JKept

LEMMA ReturnKeeps ==
  ASSUME JInv, Return
  PROVE  JKept'
<1>1. /\ Len(frames) > 1
      /\ frames' = SubSeq(frames, 1, Len(frames) - 1)
      /\ UNCHANGED <<uses, building, bundles, shared, vars, met, files, orphaned>>
  BY DEF Return, build, outside
<1>2. frames \in Seq(Activations)
  BY DEF JInv, IInv, RunInv
<1>3. \A k \in 1 .. Len(frames') : k \in 1 .. Len(frames) /\ frames'[k] = frames[k]
  BY <1>1, <1>2
<1>4. RunKept'
  BY <1>1, <1>3 DEF JInv, RunKept, Reachable, Numbers
<1>5. RunMeans'
  BY <1>1, <1>3 DEF JInv, RunMeans, Reachable, AllMeanIt
<1> QED BY <1>1, <1>4, <1>5, FilesStay DEF JKept

LEMMA EndRunKeeps ==
  ASSUME JInv, EndRun
  PROVE  RunKept' /\ RunMeans'
<1>1. /\ frames' = << >> /\ shared' = NoModules /\ vars' = NoVars /\ met' = {}
      /\ UNCHANGED <<uses, building, bundles>>
  BY DEF EndRun, build
<1>2. 1 .. Len(frames') = {}
  BY <1>1
<1>3. RunKept'
  BY <1>1, <1>2, EmptyKept DEF RunKept
<1>4. RunMeans'
  BY <1>1, <1>2 DEF RunMeans, AllMeanIt, NoVars
<1> QED BY <1>3, <1>4

LEMMA ExportKeeps ==
  ASSUME JInv, NEW f \in Files, Export(f)
  PROVE  JKept'
<1> DEFINE snapshot == [vars |-> vars, met |-> met, mods |-> shared.ids]
           O == orphaned \cup RootPaths(vars)
<1>1. /\ files' = [files EXCEPT ![f] = snapshot]
      /\ orphaned' = O
      /\ EndRun
      /\ UNCHANGED bundles
  BY DEF Export, EndRun, build
<1>2. AllNumbered(bundles, met, shared.ids)
  BY DEF JInv, RunKept, Kept
<1>3. ASSUME NEW r, met \subseteq {r}
      PROVE  AllMeanIt(bundles, r, vars, PathsOf(shared.ids), O)
  <2> SUFFICES ASSUME NEW v \in Vars, vars[v] # None
               PROVE  MeansIt(bundles, r, vars[v], PathsOf(shared.ids), O)
    BY DEF AllMeanIt
  <2> DEFINE h == vars[v]
  <2>1. MeansIt(bundles, r, h, Reachable, orphaned)
    BY <1>3 DEF JInv, RunMeans, AllMeanIt
  <2>2. \A p \in Reachable : p \in Roots \cup PathsOf(shared.ids)
    BY <1>3, ReachableIs
  <2>3. ASSUME h.kind = "scoped", h.ref \in Reachable PROVE h.ref \in O \cup PathsOf(shared.ids)
    <3>1. CASE \E i \in DOMAIN shared.ids : shared.ids[i].path = h.ref
      BY <3>1 DEF PathsOf
    <3>2. CASE \A i \in DOMAIN shared.ids : shared.ids[i].path # h.ref
      BY <2>3, <3>2 DEF RootPaths, Reachable
    <3> QED BY <3>1, <3>2
  <2>4. orphaned \subseteq O
    OBVIOUS
  <2> HIDE DEF h, O
  <2>5. MeansIt(bundles, r, h, PathsOf(shared.ids), O)
    BY <2>1, <2>2, <2>3, <2>4 DEF MeansIt
  <2> QED BY <2>5 DEF h
<1>4. AllNumbered(bundles, snapshot.met, snapshot.mods) /\ SnapshotMeans(bundles, snapshot, orphaned')
  <2> HIDE DEF O
  <2> QED BY <1>1, <1>2, <1>3 DEF SnapshotMeans
<1>5. orphaned \subseteq orphaned'
  BY <1>1
<1> HIDE DEF snapshot, O
<1>6. FilesKept' /\ FilesMean'
  BY <1>1, <1>4, <1>5, WriteKeeps
<1> QED BY <1>1, <1>6, EndRunKeeps DEF JKept

(* A bundle that is finished does not change, and nothing is of another.   *)
LEMMA MeaningStays ==
  ASSUME NEW b, NEW c, \A r \in Roots : b[r] # None => c[r] = b[r]
  PROVE  /\ \A f, M, D : AllRooted(b, f, D) /\ AllNumbered(b, M, f) => AllNumbered(c, M, f)
         /\ \A act, M, P, N, D : Active(b, act, D) /\ KeptBy(b, M, P, N, act) => KeptBy(c, M, P, N, act)
         /\ \A reg, M, P, N, D : Sound(b, reg, D) /\ Kept(b, M, P, N, reg) => Kept(c, M, P, N, reg)
         /\ \A r, ws, P, O : AllMeanIt(b, r, ws, P, O) => AllMeanIt(c, r, ws, P, O)
<1>1. ASSUME NEW m, NEW i, NEW D, Rooted(b, m, D), Numbered(b, i, m) PROVE Numbered(c, i, m)
  <2>1. m.build \in Roots
    BY <1>1 DEF Rooted, Modules
  <2>2. c[m.build] = b[m.build]
    BY <1>1, <2>1 DEF Rooted
  <2> QED BY <1>1, <2>2 DEF Numbered, Number
<1>2. \A f, M, D : AllRooted(b, f, D) /\ AllNumbered(b, M, f) => AllNumbered(c, M, f)
  BY <1>1 DEF AllRooted, AllNumbered
<1>3. \A reg, M, P, N, D : Sound(b, reg, D) /\ Kept(b, M, P, N, reg) => Kept(c, M, P, N, reg)
  BY <1>2 DEF Sound, Kept
<1>4. \A act, M, P, N, D : Active(b, act, D) /\ KeptBy(b, M, P, N, act) => KeptBy(c, M, P, N, act)
  BY <1>3 DEF Active, KeptBy
<1>5. \A r, h, P, O : MeansIt(b, r, h, P, O) => MeansIt(c, r, h, P, O)
  BY DEF MeansIt, Number
<1>6. \A r, ws, P, O : AllMeanIt(b, r, ws, P, O) => AllMeanIt(c, r, ws, P, O)
  BY <1>5 DEF AllMeanIt
<1> QED BY <1>2, <1>3, <1>4, <1>6

LEMMA BuildingKeeps ==
  ASSUME JInv, UNCHANGED <<run, outside>>,
         \A r \in Roots : bundles[r] # None => bundles'[r] = bundles[r]
  PROVE  JKept'
<1> DEFINE b == bundles
           c == bundles'
<1>1. UNCHANGED <<shared, frames, vars, met, files, orphaned>>
  BY DEF run, outside
<1>2. \A r \in Roots : b[r] # None => c[r] = b[r]
  OBVIOUS
<1>3. /\ Sound(b, shared, DOMAIN shared.ids)
      /\ \A k \in 1 .. Len(frames) : Active(b, frames[k], DOMAIN shared.ids)
      /\ \A f \in Files : files[f] # None => AllRooted(b, files[f].mods, DOMAIN files[f].mods)
  BY DEF JInv, IInv, RunInv, FilesInv, Stored
<1>4. /\ Kept(b, met, Reachable, Numbers, shared)
      /\ \A k \in 1 .. Len(frames) : KeptBy(b, met, Reachable, Numbers, frames[k])
      /\ \A f \in Files : files[f] # None => AllNumbered(b, files[f].met, files[f].mods)
  BY DEF JInv, RunKept, FilesKept
<1>5. /\ \A r : met \subseteq {r} =>
           /\ \A k \in 1 .. Len(frames) : KnowsItself(frames[k])
           /\ AllMeanIt(b, r, vars, Reachable, orphaned)
      /\ \A f \in Files : files[f] # None => \A r : files[f].met \subseteq {r} =>
           AllMeanIt(b, r, files[f].vars, PathsOf(files[f].mods), orphaned)
  BY DEF JInv, RunMeans, FilesMean, SnapshotMeans
<1> HIDE DEF b, c
<1>6. /\ Kept(c, met, Reachable, Numbers, shared)
      /\ \A k \in 1 .. Len(frames) : KeptBy(c, met, Reachable, Numbers, frames[k])
      /\ \A f \in Files : files[f] # None => AllNumbered(c, files[f].met, files[f].mods)
  BY <1>2, <1>3, <1>4, MeaningStays
<1>7. /\ \A r : met \subseteq {r} =>
           /\ \A k \in 1 .. Len(frames) : KnowsItself(frames[k])
           /\ AllMeanIt(c, r, vars, Reachable, orphaned)
      /\ \A f \in Files : files[f] # None => \A r : files[f].met \subseteq {r} =>
           AllMeanIt(c, r, files[f].vars, PathsOf(files[f].mods), orphaned)
  BY <1>2, <1>5, MeaningStays
<1> USE DEF c
<1>8. RunKept'
  BY <1>1, <1>6 DEF RunKept, Reachable, Numbers
<1>9. FilesKept'
  BY <1>1, <1>6 DEF FilesKept
<1>10. RunMeans'
  BY <1>1, <1>7 DEF RunMeans, Reachable, AllMeanIt
<1>11. FilesMean'
  BY <1>1, <1>7 DEF FilesMean, SnapshotMeans, AllMeanIt
<1> QED BY <1>8, <1>9, <1>10, <1>11 DEF JKept

LEMMA BuildStepsKeep ==
  ASSUME JInv, (\E r \in Roots : BuildBegin(r)) \/ (\E p \in Paths : BuildStep(p)) \/ BuildEnd
  PROVE  JKept'
<1>1. UNCHANGED <<run, outside>>
  BY DEF BuildBegin, BuildStep, BuildEnd
<1>2. CASE BuildEnd
  BY <1>1, <1>2, BuildEndInv, BuildingKeeps DEF JInv, IInv
<1>3. CASE ~ BuildEnd
  <2>1. UNCHANGED bundles
    BY <1>3 DEF BuildBegin, BuildStep
  <2> QED BY <1>1, <2>1, BuildingKeeps
<1> QED BY <1>2, <1>3

LEMMA JInvInit == Init => JInv
<1> SUFFICES ASSUME Init PROVE JInv
  OBVIOUS
<1>1. /\ frames = << >> /\ shared = NoModules /\ vars = NoVars /\ met = {}
      /\ files = [f \in Files |-> None]
  BY DEF Init
<1>2. 1 .. Len(frames) = {}
  BY <1>1
<1>3. RunKept
  BY <1>1, <1>2, EmptyKept DEF RunKept
<1>4. RunMeans
  BY <1>1, <1>2 DEF RunMeans, AllMeanIt, NoVars
<1>5. FilesKept /\ FilesMean
  BY <1>1 DEF FilesKept, FilesMean
<1> QED BY <1>3, <1>4, <1>5, IInvInit DEF JInv

LEMMA JInvNext == JInv /\ [Next]_all => JInv'
<1> SUFFICES ASSUME JInv, [Next]_all PROVE JKept'
  BY IInvNext DEF JInv, JKept
<1>1. CASE UNCHANGED all
  <2>1. UNCHANGED <<bundles, shared, frames, vars, met, files, orphaned>>
    BY <1>1 DEF all, build, run, outside
  <2> QED BY <2>1, RunStays, FilesStay DEF JKept
<1>2. CASE (\E r \in Roots : BuildBegin(r)) \/ (\E p \in Paths : BuildStep(p)) \/ BuildEnd
  BY <1>2, BuildStepsKeep
<1>3. CASE \E r \in Roots : RunBundle(r)
  BY <1>3, RunBundleKeeps
<1>4. CASE \E engine \in {"vm", "interpreter"} : RunScript(engine)
  BY <1>4, RunScriptKeeps
<1>5. CASE \/ \E v \in Vars : CallHandle(v)
           \/ \E p \in Paths : CallStatic(p)
           \/ \E n \in Names : CallName(n)
  BY <1>5, CallKeeps
<1>6. CASE \/ \E v \in Vars : MakeScopedHandle(v)
           \/ \E v \in Vars, p \in Paths : MakeHandle(v, p)
           \/ \E v \in Vars, n \in Names : Str2func(v, n)
  BY <1>6, MakeScopedHandleKeeps, MakeHandleKeeps, Str2funcKeeps
<1>7. CASE \E f \in Files, names \in SUBSET Vars :
             Save(f, names) \/ SaveAppend(f, names) \/ Load(f, names)
  BY <1>7, SaveKeeps, SaveAppendKeeps, LoadKeeps
<1>8. CASE Return
  BY <1>8, ReturnKeeps
<1>9. CASE End
  <2>1. EndRun /\ UNCHANGED outside
    BY <1>9 DEF End
  <2>2. UNCHANGED <<bundles, files, orphaned>>
    BY <2>1 DEF EndRun, build, outside
  <2> QED BY <2>1, <2>2, EndRunKeeps, FilesStay DEF JKept
<1>10. CASE \E f \in Files : Export(f)
  BY <1>10, ExportKeeps
<1> QED BY <1>1, <1>2, <1>3, <1>4, <1>5, <1>6, <1>7, <1>8, <1>9, <1>10 DEF Next

(* What a number calls, with one bundle about.                             *)
LEMMA NumberCalls ==
  ASSUME JInv, Running, NEW r \in Roots, met \subseteq {r}, bundles[r] # None,
         NEW p \in bundles[r], Number(bundles, r, p) \in DOMAIN Merged(Top).ids
  PROVE  Merged(Top).ids[Number(bundles, r, p)].path = p
<1> DEFINE i == Number(bundles, r, p)
           m == Merged(Top).ids[i]
           n == Module(p, r)
<1>1. /\ Sound(bundles, Merged(Top), Numbers)
      /\ Kept(bundles, met, Reachable, Numbers, Merged(Top))
  BY MergedSound, KeptMerged DEF JInv
<1>2. Rooted(bundles, m, Numbers) /\ m.build \in met /\ Numbered(bundles, i, m)
  BY <1>1 DEF Sound, AllRooted, Kept, AllNumbered
<1>3. n.build = r /\ n.path = p /\ n \in Modules
  <2>1. p \in Paths
    BY DEF JInv, IInv, BInv, BuildTyped
  <2> QED BY <2>1 DEF Module, Modules
<1>4. m.build = r
  BY <1>2
<1> HIDE DEF n
<1>5. Rooted(bundles, n, Numbers) /\ Numbered(bundles, i, n)
  BY <1>2, <1>3, <1>4 DEF Rooted, Numbered
<1> HIDE DEF m, i
<1>6. m.path = n.path
  BY <1>2, <1>3, <1>4, <1>5, OneFileOfANumber DEF JInv, IInv, BInv
<1> QED BY <1>3, <1>6 DEF m, i

PathsCalled(callees) == {c.at.path : c \in callees}

(* A handle calls its file, or is one of those that are left behind or     *)
(* called by a name that others have.                                      *)
LEMMA HandleCalls ==
  ASSUME JInv, Running, NEW r, met \subseteq {r}, NEW v \in Held
  PROVE  LET h == vars[v] IN
         \/ /\ HandleCallees(Top, h) = {}
            /\ \/ h.kind = "path" /\ h.ref \in Roots
               \/ h.kind = "scoped" /\ h.ref \in orphaned
         \/ PathsCalled(HandleCallees(Top, h)) = {h.means}
         \/ h.kind = "path" /\ Named(Merged(Top), Name[h.ref]) \ {h.ref} # {}
<1> DEFINE h == vars[v]
           reg == Merged(Top)
<1>1. v \in Vars /\ h # None /\ h \in Handles
  BY DEF Held, JInv, IInv, RunInv
<1>2. MeansIt(bundles, r, h, Reachable, orphaned)
  BY <1>1 DEF JInv, RunMeans, AllMeanIt
<1>3. Sound(bundles, reg, Numbers) /\ Numbers \subseteq DOMAIN reg.ids
  BY MergedSound DEF JInv
<1>4. \A m, s : Callee(m, s).at = m
  BY DEF Callee
<1>5. Reachable \subseteq DOMAIN reg.paths
  <2>1. reg.paths = Over(Own(Top).paths, shared.paths)
    BY DEF Merged
  <2> HIDE DEF reg
  <2> QED BY <2>1 DEF Over, Reachable
<1>6. \A p \in DOMAIN reg.paths : reg.paths[p].path = p
  BY <1>3 DEF Sound
<1>7. CASE h.kind = "id"
  <2> HIDE DEF h, reg
  <2>1. /\ r \in Roots /\ bundles[r] # None
        /\ h.means \in bundles[r] /\ h.ref = Number(bundles, r, h.means)
    BY <1>2, <1>7 DEF MeansIt
  <2>2. h.ref \in DOMAIN reg.ids
    BY <1>1, <1>3, <1>7 DEF h, JInv, IInv, RunInv, Backed, Numbers
  <2>3. reg.ids[h.ref].path = h.means
    BY <2>1, <2>2, NumberCalls DEF reg
  <2>4. HandleCallees(Top, h) = {Callee(reg.ids[h.ref], Source(h.ref))}
    BY <1>7, <2>2 DEF HandleCallees, reg
  <2>5. PathsCalled(HandleCallees(Top, h)) = {h.means}
    BY <2>3, <2>4, <1>4 DEF PathsCalled
  <2> QED BY <2>5 DEF h
<1>8. CASE h.kind = "path"
  <2> DEFINE named == Named(reg, Name[h.ref])
  <2> HIDE DEF h, reg
  <2>1. h.ref = h.means /\ h.ref \in Roots \cup Reachable
    BY <1>2, <1>8 DEF MeansIt
  <2>2. named \subseteq DOMAIN reg.paths
    BY DEF Named
  <2> HIDE DEF named
  <2>3. HandleCallees(Top, h) =
          IF h.ref \in DOMAIN Own(Top).paths /\ named # {}
            THEN {Callee(reg.paths[p], p) : p \in named}
            ELSE IF h.ref \in DOMAIN reg.paths
              THEN {Callee(reg.paths[h.ref], h.ref)} ELSE {}
    BY <1>8 DEF HandleCallees, reg, named
  <2>4. CASE named \ {h.ref} # {}
    BY <1>8, <2>4 DEF named, h, reg
  <2>5. CASE h.ref \in DOMAIN Own(Top).paths /\ named = {h.ref}
    <3>1. HandleCallees(Top, h) = {Callee(reg.paths[h.ref], h.ref)}
      BY <2>3, <2>5
    <3>2. reg.paths[h.ref].path = h.ref
      BY <1>6, <2>2, <2>5
    <3>3. PathsCalled(HandleCallees(Top, h)) = {h.means}
      BY <2>1, <3>1, <3>2, <1>4 DEF PathsCalled
    <3> QED BY <3>3 DEF h
  <2>6. CASE ~ (h.ref \in DOMAIN Own(Top).paths /\ named # {})
    <3>1. CASE h.ref \in DOMAIN reg.paths
      <4>1. HandleCallees(Top, h) = {Callee(reg.paths[h.ref], h.ref)}
        BY <2>3, <2>6, <3>1
      <4>2. PathsCalled(HandleCallees(Top, h)) = {h.means}
        BY <2>1, <3>1, <4>1, <1>4, <1>6 DEF PathsCalled
      <4> QED BY <4>2 DEF h
    <3>2. CASE h.ref \notin DOMAIN reg.paths
      <4>1. HandleCallees(Top, h) = {} /\ h.ref \in Roots
        BY <1>5, <2>1, <2>3, <2>6, <3>2
      <4> QED BY <1>8, <4>1 DEF h
    <3> QED BY <3>1, <3>2
  <2> QED BY <2>4, <2>5, <2>6
<1>9. CASE h.kind = "scoped"
  <2> HIDE DEF h, reg
  <2>1. h.ref = h.means /\ h.ref \in orphaned \cup Reachable
    BY <1>2, <1>9 DEF MeansIt
  <2>2. HandleCallees(Top, h) =
          IF h.ref \in DOMAIN reg.paths THEN {Callee(reg.paths[h.ref], h.ref)} ELSE {}
    BY <1>9 DEF HandleCallees, reg
  <2>3. CASE h.ref \in DOMAIN reg.paths
    <3>1. PathsCalled(HandleCallees(Top, h)) = {h.means}
      BY <2>1, <2>2, <2>3, <1>4, <1>6 DEF PathsCalled
    <3> QED BY <3>1 DEF h
  <2>4. CASE h.ref \notin DOMAIN reg.paths
    <3>1. HandleCallees(Top, h) = {} /\ h.ref \in orphaned
      BY <1>5, <2>1, <2>2, <2>4
    <3> QED BY <1>9, <3>1 DEF h
  <2> QED BY <2>3, <2>4
<1> QED BY <1>1, <1>7, <1>8, <1>9 DEF Handles

(* So does a call in the code of the running module.                       *)
LEMMA CodeCalls ==
  ASSUME JInv, Running, NEW r, met \subseteq {r}, Top.at # None,
         NEW p \in uses[Top.at.path] \ {Top.at.build}
  PROVE  PathsCalled(StaticCallees(Top, Target(Top.at, p))) = {p}
<1> DEFINE m == Top.at
           reg == Merged(Top)
           i == Number(bundles, m.build, p)
<1>1. Rooted(bundles, m, Numbers) /\ m.build \in met
  BY MergedSound, KeptMerged DEF Active, KeptBy, JInv
<1>2. m.build \in Roots /\ bundles[m.build] # None
  BY <1>1 DEF Rooted, Modules
<1>3. p \in bundles[m.build]
  <2>1. Closed(bundles[m.build], m.build)
    BY <1>2, WholeIsClosed DEF JInv, IInv, BInv
  <2> QED BY <1>1, <2>1 DEF Closed, Rooted
<1>4. i \in DOMAIN reg.ids
  BY <1>1, <1>3, MergedSound DEF Rooted, JInv
<1>5. reg.ids[i].path = p
  BY <1>1, <1>2, <1>3, <1>4, NumberCalls
<1>6. Target(m, p) = [kind |-> "id", ref |-> i]
  BY <1>3 DEF Target, DepId, Number
<1> HIDE DEF i, m, reg
<1>7. StaticCallees(Top, Target(m, p)) = {Callee(reg.ids[i], Source(i))}
  BY <1>4, <1>6 DEF StaticCallees, reg
<1>8. Callee(reg.ids[i], Source(i)).at = reg.ids[i]
  BY DEF Callee
<1>9. PathsCalled(StaticCallees(Top, Target(m, p))) = {p}
  BY <1>5, <1>7, <1>8 DEF PathsCalled
<1> QED BY <1>9 DEF m

(* Handles and the code of modules reach the files they were made for,     *)
(* through whatever saves, appends, loads, exports and calls, while one    *)
(* bundle has a part in the run and in what it loads.                      *)
THEOREM HandlesStayTrue == Spec => []HandlesKeepTheirMeaning
<1>1. Spec => []JInv
  BY JInvInit, JInvNext, PTL DEF Spec
<1>2. JInv => HandlesKeepTheirMeaning
  <2> SUFFICES ASSUME JInv, Running, Cardinality(met) <= 1 PROVE HandlesKeepTheirMeaning
    BY DEF HandlesKeepTheirMeaning
  <2>1. PICK r : met \subseteq {r}
    <3>1. IsFiniteSet(met)
      <4>1. met \subseteq 1 .. FileCount
        BY BundlesAssumption DEF JInv, IInv, RunInv, Paths
      <4>2. IsFiniteSet(1 .. FileCount)
        BY FS_Interval, BundlesAssumption
      <4> QED BY <4>1, <4>2, FS_Subset
    <3>2. Cardinality(met) = 0 \/ Cardinality(met) = 1
      BY <3>1, FS_CardinalityType
    <3>3. met = {} \/ \E x : met = {x}
      BY <3>1, <3>2, FS_EmptySet, FS_Singleton
    <3> QED BY <3>3
  <2>2. \A v \in Held : LET h == vars[v] IN
         \/ /\ HandleCallees(Top, h) = {}
            /\ \/ h.kind = "path" /\ h.ref \in Roots
               \/ h.kind = "scoped" /\ h.ref \in orphaned
         \/ {c.at.path : c \in HandleCallees(Top, h)} = {h.means}
         \/ h.kind = "path" /\ Named(Merged(Top), Name[h.ref]) \ {h.ref} # {}
    BY <2>1, HandleCalls DEF PathsCalled
  <2>3. ASSUME Top.at # None
        PROVE  /\ Top.src = Top.at.path
               /\ \A p \in uses[Top.at.path] \ {Top.at.build} :
                    {c.at.path : c \in StaticCallees(Top, Target(Top.at, p))} = {p}
    <3>1. Top.src = Top.at.path
      BY <2>1, <2>3, TopKnowsItself DEF KnowsItself
    <3>2. \A p \in uses[Top.at.path] \ {Top.at.build} :
            PathsCalled(StaticCallees(Top, Target(Top.at, p))) = {p}
      BY <2>1, <2>3, CodeCalls
    <3> QED BY <3>1, <3>2 DEF PathsCalled
  <2> QED BY <2>2, <2>3 DEF HandlesKeepTheirMeaning
<1> QED BY <1>1, <1>2, PTL

=============================================================================
