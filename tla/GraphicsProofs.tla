--------------------------- MODULE GraphicsProofs ---------------------------
(***************************************************************************)
(* What exists, what is current and what is linked, for any numbers of     *)
(* objects and calls.  The builtins are compositions of a few operators on *)
(* the state; each operator has a lemma that it keeps a state sound, and   *)
(* each builtin one that follows from those of the operators it is made of. *)
(***************************************************************************)
EXTENDS Graphics, FiniteSetTheorems, WellFoundedInduction, TLAPS

Positive == Nat \ {0}

FigureRecords ==
  [layout : Positive \X Positive, currentAxes : Positive, currentObject : Nat,
   links : SUBSET [handles : SUBSET Nat, mode : SUBSET Dims]]
AxesRecords ==
  [handle : Positive, hold : BOOLEAN, limits : [Dims -> Limits \cup {AutoLimit}]]

Typed(g) ==
  /\ DOMAIN g = {"figures", "axes", "series", "annotations", "current",
                 "nextFigure", "nextAxes", "nextSeries", "nextAnnotation"}
  /\ g.figures \in [DOMAIN g.figures -> FigureRecords]
  /\ DOMAIN g.figures \subseteq Positive
  /\ g.axes \in [DOMAIN g.axes -> AxesRecords]
  /\ DOMAIN g.axes \subseteq (DOMAIN g.figures) \X Positive
  /\ g.series \subseteq [slot : DOMAIN g.axes, handle : Positive]
  /\ g.annotations \subseteq [figure : DOMAIN g.figures, handle : Positive]
  /\ g.current \in DOMAIN g.figures \cup {None}
  /\ {g.nextFigure, g.nextAxes, g.nextSeries, g.nextAnnotation} \subseteq Nat
  /\ IsFiniteSet(DOMAIN g.figures) /\ IsFiniteSet(DOMAIN g.axes)
  /\ IsFiniteSet(g.series) /\ IsFiniteSet(g.annotations)

\* No two axes have one number, and none that of a figure.
Distinct(g) ==
  /\ \A s, t \in DOMAIN g.axes : g.axes[s].handle = g.axes[t].handle => s = t
  /\ \A s \in DOMAIN g.axes : g.axes[s].handle \notin DOMAIN g.figures

\* LinksAreSound, of any state.
Linked(g) ==
  \A f \in DOMAIN g.figures : \A l \in g.figures[f].links :
    /\ Cardinality(l.handles) >= 2
    /\ l.handles \subseteq AxesHandles(g, f)
    /\ \A m \in g.figures[f].links : m # l => m.handles \cap l.handles = {}

\* LinkedLimitsAgree, of any state.
Agreed(g) ==
  \A f \in DOMAIN g.figures : \A l \in g.figures[f].links :
    \A s, t \in SlotsOf(g, f) : \A d \in l.mode :
      /\ {g.axes[s].handle, g.axes[t].handle} \subseteq l.handles
      /\ AutoLimit \notin {g.axes[s].limits[d], g.axes[t].limits[d]}
      => g.axes[s].limits[d] = g.axes[t].limits[d]

\* Every number lies between the start of its kind and the counter.
Numbered(g) ==
  /\ \A f \in DOMAIN g.figures : f < g.nextFigure
  /\ \A s \in DOMAIN g.axes : FirstAxes <= g.axes[s].handle /\ g.axes[s].handle < g.nextAxes
  /\ \A x \in g.series : FirstSeries <= x.handle /\ x.handle < g.nextSeries
  /\ \A a \in g.annotations : FirstAnnotation <= a.handle /\ a.handle < g.nextAnnotation
  /\ \A x, y \in g.series : x.handle = y.handle => x = y
  /\ \A a, b \in g.annotations : a.handle = b.handle => a = b
  /\ \A x \in g.series, a \in g.annotations : x.handle # a.handle

\* The number is of no series and no annotation.
Undrawn(g, n) ==
  (\A x \in g.series : x.handle # n) /\ (\A a \in g.annotations : a.handle # n)

Sound(g) == Typed(g) /\ Distinct(g) /\ Linked(g) /\ Agreed(g) /\ Numbered(g)

\* The current axes of f are there, or it has none.
CurrentAt(g, f) ==
  \/ <<f, g.figures[f].currentAxes>> \in DOMAIN g.axes
  \/ SlotsOf(g, f) = {} /\ g.figures[f].currentAxes = 1
CurrentAxes(g) == \A f \in DOMAIN g.figures : CurrentAt(g, f)

\* The numbers of the kinds have not run into each other.
BelowSeries(g) == g.nextFigure <= FirstSeries /\ g.nextAxes <= FirstSeries
InRange(g) ==
  /\ g.nextFigure <= FirstSeries /\ g.nextAxes <= FirstSeries
  /\ g.nextSeries <= FirstAnnotation

\* Where the object o, if it is there, lies.
Lies(g, f, o) ==
  /\ \A s \in DOMAIN g.axes : g.axes[s].handle = o => s[1] = f
  /\ \A x \in g.series : x.handle = o => x.slot[1] = f
  /\ \A a \in g.annotations : a.handle = o => a.figure = f

\* The number was given out.
Spent(g, o) ==
  \/ FirstAxes <= o /\ o < g.nextAxes
  \/ FirstSeries <= o /\ o < g.nextSeries
  \/ FirstAnnotation <= o /\ o < g.nextAnnotation

ObjectOwn(g, f, o) == (o = None \/ Spent(g, o)) /\ Lies(g, f, o)
Objects(g) == \A f \in DOMAIN g.figures : ObjectOwn(g, f, g.figures[f].currentObject)

\* The program ends before the numbers of figures and axes come to those of
\* series: plots take the number of a series before they make their figure.
FiguresApart == MaxFigure < FirstSeries /\ MaxAxes < FirstSeries

\* Nor do the numbers of series come to those of annotations.
RangesApart == FiguresApart /\ MaxSeries < FirstAnnotation

\* The inductive invariant
GInv ==
  /\ Sound(graphics)
  /\ CurrentAxes(graphics)
  /\ halfDone = FALSE
  /\ FiguresApart => BelowSeries(graphics)
  /\ RangesApart => InRange(graphics) /\ Objects(graphics)

-----------------------------------------------------------------------------
(***************************************************************************)
(* Smallest and largest numbers, and numbers that are free.                *)
(***************************************************************************)
LEMMA Smallest ==
  ASSUME NEW S \in SUBSET Nat, S # {}
  PROVE  \E n \in S : \A k \in S : n <= k
<1>1. PICK n \in S : \A k \in S : ~ (<<k, n>> \in OpToRel(<, Nat))
  BY NatLessThanWellFounded, WFMin, Zenon
<1>2. ASSUME NEW k \in S
      PROVE  n <= k
  <2>1. ~ (k < n)
    BY <1>1 DEF OpToRel
  <2> QED BY <2>1
<1> QED BY <1>2

LEMMA MinIsSmallest ==
  ASSUME NEW S \in SUBSET Nat, S # {}
  PROVE  Min(S) \in S
<1>1. \E n \in S : \A k \in S : n =< k
  BY Smallest
<1> QED BY <1>1 DEF Min

LEMMA MaxIsLargest ==
  ASSUME NEW S \in SUBSET Nat, S # {}, IsFiniteSet(S)
  PROVE  Max(S) \in S /\ \A k \in S : Max(S) >= k
<1> DEFINE Bad == {A \in SUBSET S : A # {} /\ ~ \E m \in A : \A k \in A : m >= k}
<1>1. Bad = {}
  <2> SUFFICES ASSUME Bad # {} PROVE FALSE
    OBVIOUS
  <2>1. Bad \subseteq FiniteSubsetsOf(S)
    BY FS_FiniteSubsetsOfFinite
  <2>2. PICK A \in Bad : \A B \in Bad : ~ (<<B, A>> \in StrictSubsetOrdering(S))
    <3> HIDE DEF Bad
    <3> QED BY <2>1, FS_StrictSubsetOrderingWellFounded, WFMin
  <2>3. PICK a \in A : TRUE
    OBVIOUS
  <2>4. A \ {a} \notin Bad
    BY <2>2, <2>3 DEF StrictSubsetOrdering
  <2>5. CASE A \ {a} = {}
    BY <2>5, <2>3
  <2>6. CASE A \ {a} # {}
    <3>1. PICK m \in A \ {a} : \A k \in A \ {a} : m >= k
      BY <2>4, <2>6
    <3>2. CASE m >= a
      BY <3>1, <3>2
    <3>3. CASE ~ (m >= a)
      BY <3>1, <3>3, <2>3
    <3> QED BY <3>2, <3>3
  <2> QED BY <2>5, <2>6
<1>2. \E m \in S : \A k \in S : m >= k
  BY <1>1
<1> QED BY <1>2 DEF Max

Taken(g) ==
  DOMAIN g.figures \cup {g.axes[s].handle : s \in DOMAIN g.axes}
    \cup {x.handle : x \in g.series} \cup {a.handle : a \in g.annotations}

LEMMA NoneIsFree ==
  ASSUME NEW g, NEW h
  PROVE  Kind(g, h) = "none" <=> h \notin Taken(g)
BY DEF Kind, Taken

\* Where a handle is found, nothing later is asked.
LEMMA KindFound ==
  ASSUME NEW g, NEW h
  PROVE  LET IsAxes == \E s \in DOMAIN g.axes : g.axes[s].handle = h
             IsSeries == \E x \in g.series : x.handle = h
             IsAnnotation == \E a \in g.annotations : a.handle = h
         IN  /\ Kind(g, h) = "figure" <=> h \in DOMAIN g.figures
             /\ Kind(g, h) = "axes" <=> h \notin DOMAIN g.figures /\ IsAxes
             /\ Kind(g, h) = "annotation" <=>
                  h \notin DOMAIN g.figures /\ ~ IsAxes /\ IsAnnotation
             /\ Kind(g, h) = "series" <=>
                  h \notin DOMAIN g.figures /\ ~ IsAxes /\ ~ IsAnnotation /\ IsSeries
<1> DEFINE IsAxes == \E s \in DOMAIN g.axes : g.axes[s].handle = h
           IsSeries == \E x \in g.series : x.handle = h
           IsAnnotation == \E a \in g.annotations : a.handle = h
<1> QED BY DEF Kind

LEMMA ImageIsSmall ==
  ASSUME NEW S, IsFiniteSet(S), NEW f, DOMAIN f = S
  PROVE  /\ IsFiniteSet({f[x] : x \in S})
         /\ Cardinality({f[x] : x \in S}) <= Cardinality(S)
<1> DEFINE T == {f[x] : x \in S}
           m == [x \in S |-> f[x]]
<1>1. m \in Surjection(S, T)
  BY DEF Surjection
<1> QED BY <1>1, FS_Surjection

LEMMA UnionIsSmall ==
  ASSUME NEW S, NEW T, IsFiniteSet(S), IsFiniteSet(T)
  PROVE  /\ IsFiniteSet(S \cup T)
         /\ Cardinality(S \cup T) <= Cardinality(S) + Cardinality(T)
<1>1. IsFiniteSet(S \cup T) /\ IsFiniteSet(S \cap T)
  BY FS_Union, FS_Intersection
<1>2. Cardinality(S \cup T) = Cardinality(S) + Cardinality(T) - Cardinality(S \cap T)
  BY FS_Union
<1>3. /\ Cardinality(S) \in Nat /\ Cardinality(T) \in Nat
      /\ Cardinality(S \cap T) \in Nat
  BY <1>1, FS_CardinalityType
<1> QED BY <1>1, <1>2, <1>3

LEMMA TakenIsSmall ==
  ASSUME NEW g, Typed(g)
  PROVE  /\ IsFiniteSet(Taken(g))
         /\ Cardinality(Taken(g)) \in Nat
         /\ Cardinality(Taken(g)) <=
              Cardinality(DOMAIN g.figures) + Cardinality(DOMAIN g.axes)
                + Cardinality(g.series) + Cardinality(g.annotations)
<1> DEFINE F == DOMAIN g.figures
           A == {g.axes[s].handle : s \in DOMAIN g.axes}
           S == {x.handle : x \in g.series}
           N == {a.handle : a \in g.annotations}
<1>1. IsFiniteSet(F) /\ IsFiniteSet(DOMAIN g.axes) /\ IsFiniteSet(g.series) /\ IsFiniteSet(g.annotations)
  BY DEF Typed
<1>2. IsFiniteSet(A) /\ Cardinality(A) <= Cardinality(DOMAIN g.axes)
  <2> DEFINE f == [s \in DOMAIN g.axes |-> g.axes[s].handle]
  <2>1. A = {f[s] : s \in DOMAIN g.axes}
    OBVIOUS
  <2>2. DOMAIN f = DOMAIN g.axes
    OBVIOUS
  <2>3. /\ IsFiniteSet({f[s] : s \in DOMAIN g.axes})
        /\ Cardinality({f[s] : s \in DOMAIN g.axes}) <= Cardinality(DOMAIN g.axes)
    <3> HIDE DEF f
    <3> QED BY <2>2, <1>1, ImageIsSmall
  <2> QED BY <2>1, <2>3
<1>3. IsFiniteSet(S) /\ Cardinality(S) <= Cardinality(g.series)
  <2> DEFINE f == [x \in g.series |-> x.handle]
  <2>1. S = {f[x] : x \in g.series}
    OBVIOUS
  <2>2. DOMAIN f = g.series
    OBVIOUS
  <2>3. /\ IsFiniteSet({f[x] : x \in g.series})
        /\ Cardinality({f[x] : x \in g.series}) <= Cardinality(g.series)
    <3> HIDE DEF f
    <3> QED BY <2>2, <1>1, ImageIsSmall
  <2> QED BY <2>1, <2>3
<1>4. IsFiniteSet(N) /\ Cardinality(N) <= Cardinality(g.annotations)
  <2> DEFINE f == [a \in g.annotations |-> a.handle]
  <2>1. N = {f[a] : a \in g.annotations}
    OBVIOUS
  <2>2. DOMAIN f = g.annotations
    OBVIOUS
  <2>3. /\ IsFiniteSet({f[a] : a \in g.annotations})
        /\ Cardinality({f[a] : a \in g.annotations}) <= Cardinality(g.annotations)
    <3> HIDE DEF f
    <3> QED BY <2>2, <1>1, ImageIsSmall
  <2> QED BY <2>1, <2>3
<1> HIDE DEF A, S, N
<1>5. /\ IsFiniteSet(F \cup A)
      /\ Cardinality(F \cup A) <= Cardinality(F) + Cardinality(A)
  BY <1>1, <1>2, UnionIsSmall
<1>6. /\ IsFiniteSet(F \cup A \cup S)
      /\ Cardinality(F \cup A \cup S) <= Cardinality(F \cup A) + Cardinality(S)
  BY <1>5, <1>3, UnionIsSmall
<1>7. /\ IsFiniteSet(F \cup A \cup S \cup N)
      /\ Cardinality(F \cup A \cup S \cup N) <= Cardinality(F \cup A \cup S) + Cardinality(N)
  BY <1>6, <1>4, UnionIsSmall
<1>8. Taken(g) = F \cup A \cup S \cup N
  BY DEF Taken, A, S, N
<1>9. /\ Cardinality(F) \in Nat /\ Cardinality(A) \in Nat
      /\ Cardinality(S) \in Nat /\ Cardinality(N) \in Nat
      /\ Cardinality(DOMAIN g.axes) \in Nat /\ Cardinality(g.series) \in Nat
      /\ Cardinality(g.annotations) \in Nat /\ Cardinality(Taken(g)) \in Nat
      /\ Cardinality(F \cup A) \in Nat /\ Cardinality(F \cup A \cup S) \in Nat
  BY <1>1, <1>2, <1>3, <1>4, <1>5, <1>6, <1>7, <1>8, FS_CardinalityType
<1> QED BY <1>2, <1>3, <1>4, <1>5, <1>6, <1>7, <1>8, <1>9

\* The number Fresh gives out is no object's, and not below the counter.
LEMMA FreshIsFree ==
  ASSUME NEW g, Typed(g), NEW next \in Nat, NEW first \in Nat
  PROVE  /\ Fresh(g, next, first) \in Nat
         /\ Fresh(g, next, first) >= next /\ Fresh(g, next, first) >= first
         /\ Fresh(g, next, first) \notin Taken(g)
<1> DEFINE from == IF next > first THEN next ELSE first
           size == Cardinality(DOMAIN g.figures) + Cardinality(DOMAIN g.axes)
                     + Cardinality(g.series) + Cardinality(g.annotations)
           last == from + Cardinality(DOMAIN g.figures) + Cardinality(DOMAIN g.axes)
                     + Cardinality(g.series) + Cardinality(g.annotations)
           Free == (from .. last) \ Taken(g)
           First(h) == /\ Kind(g, h) = "none"
                       /\ \A k \in from .. h - 1 : Kind(g, k) # "none"
<1>1. /\ Cardinality(DOMAIN g.figures) \in Nat /\ Cardinality(DOMAIN g.axes) \in Nat
      /\ Cardinality(g.series) \in Nat /\ Cardinality(g.annotations) \in Nat
  BY FS_CardinalityType DEF Typed
<1>2. from \in Nat /\ last \in Nat /\ size \in Nat /\ last = from + size
      /\ from >= next /\ from >= first
  BY <1>1
<1>3. /\ IsFiniteSet(Taken(g)) /\ Cardinality(Taken(g)) \in Nat
      /\ Cardinality(Taken(g)) <= size
  BY TakenIsSmall
<1> HIDE DEF size, last, from
<1>4. Free # {}
  <2> SUFFICES ASSUME from .. last \subseteq Taken(g) PROVE FALSE
    OBVIOUS
  <2>1. Cardinality(from .. last) = last - from + 1
    BY <1>2, FS_Interval
  <2>2. Cardinality(from .. last) <= Cardinality(Taken(g))
    BY <1>3, FS_Subset
  <2> QED BY <2>1, <2>2, <1>2, <1>3
<1>5. PICK h \in Free : \A k \in Free : h <= k
  <2>1. Free \in SUBSET Nat
    BY <1>2
  <2> HIDE DEF Free
  <2> QED BY <2>1, <1>4, Smallest
<1>6. First(h)
  <2>1. Kind(g, h) = "none"
    BY NoneIsFree
  <2>2. ASSUME NEW k \in from .. h - 1
        PROVE  Kind(g, k) # "none"
    <3>1. k \notin Free /\ k \in from .. last
      BY <1>5, <1>2
    <3> QED BY <3>1, NoneIsFree
  <2> QED BY <2>1, <2>2
<1>7. \E n \in from .. last : First(n)
  BY <1>6
<1>8. Fresh(g, next, first) = CHOOSE n \in from .. last : First(n)
  BY DEF Fresh, from, last
<1> HIDE DEF First
<1>9. Fresh(g, next, first) \in from .. last /\ First(Fresh(g, next, first))
  BY <1>7, <1>8
<1>10. Fresh(g, next, first) \notin Taken(g)
  BY <1>9, NoneIsFree DEF First
<1> QED BY <1>9, <1>10, <1>2

-----------------------------------------------------------------------------
(***************************************************************************)
(* What a step from g to e may do to numbers: counters do not go back, what *)
(* is new has a number no object of the kind had, and a current object is  *)
(* forgotten or stays what it was.                                         *)
(***************************************************************************)
Counts(g, e) ==
  /\ g.nextFigure <= e.nextFigure /\ g.nextAxes <= e.nextAxes
  /\ g.nextSeries <= e.nextSeries /\ g.nextAnnotation <= e.nextAnnotation

NewOnly(g, e) ==
  /\ \A s \in DOMAIN e.axes :
       \/ s \in DOMAIN g.axes /\ g.axes[s].handle = e.axes[s].handle
       \/ FirstAxes <= e.axes[s].handle /\ g.nextAxes <= e.axes[s].handle
  /\ \A x \in e.series : x \in g.series \/ (FirstSeries <= x.handle /\ g.nextSeries <= x.handle)
  /\ \A a \in e.annotations :
       a \in g.annotations \/ (FirstAnnotation <= a.handle /\ g.nextAnnotation <= a.handle)

Forgets(g, e) ==
  \A f \in DOMAIN e.figures :
    \/ e.figures[f].currentObject = None
    \/ f \in DOMAIN g.figures /\ e.figures[f].currentObject = g.figures[f].currentObject

Grows(g, e) == Counts(g, e) /\ NewOnly(g, e) /\ Forgets(g, e)

LEMMA GrowsOn ==
  ASSUME NEW g, NEW e, NEW d, Typed(g), Typed(e), Typed(d), Grows(g, e), Grows(e, d)
  PROVE  Grows(g, d)
<1>1. Counts(g, d)
  BY DEF Typed, Grows, Counts
<1>2. NewOnly(g, d)
  <2>1. ASSUME NEW s \in DOMAIN d.axes
        PROVE  \/ s \in DOMAIN g.axes /\ g.axes[s].handle = d.axes[s].handle
               \/ FirstAxes <= d.axes[s].handle /\ g.nextAxes <= d.axes[s].handle
    <3>1. d.axes[s].handle \in Nat
      BY DEF Typed, AxesRecords, Positive
    <3> QED BY <3>1 DEF Typed, Grows, NewOnly, Counts
  <2>2. ASSUME NEW x \in d.series
        PROVE  x \in g.series \/ (FirstSeries <= x.handle /\ g.nextSeries <= x.handle)
    <3>1. x.handle \in Nat
      BY DEF Typed, Positive
    <3> QED BY <3>1 DEF Typed, Grows, NewOnly, Counts
  <2>3. ASSUME NEW a \in d.annotations
        PROVE  a \in g.annotations \/ (FirstAnnotation <= a.handle /\ g.nextAnnotation <= a.handle)
    <3>1. a.handle \in Nat
      BY DEF Typed, Positive
    <3> QED BY <3>1 DEF Typed, Grows, NewOnly, Counts
  <2> QED BY <2>1, <2>2, <2>3 DEF NewOnly
<1>3. Forgets(g, d)
  BY DEF Grows, Forgets
<1> QED BY <1>1, <1>2, <1>3 DEF Grows

LEMMA GrowsNot ==
  ASSUME NEW g, Typed(g)
  PROVE  Grows(g, g)
BY DEF Typed, Grows, Counts, NewOnly, Forgets

\* While the numbers of the kinds stay apart, no object comes to lie where a
\* figure has another for its current one.
LEMMA OwnObjectsStay ==
  ASSUME NEW g, NEW e, Sound(g), Sound(e), Grows(g, e), InRange(e),
         NEW f \in DOMAIN g.figures, ObjectOwn(g, f, g.figures[f].currentObject)
  PROVE  ObjectOwn(e, f, g.figures[f].currentObject)
<1> DEFINE o == g.figures[f].currentObject
<1>1. o \in Nat
  BY DEF Sound, Typed, FigureRecords
<1>2. ObjectOwn(g, f, o)
  OBVIOUS
<1> HIDE DEF o
<1>3. /\ g.nextAxes \in Nat /\ g.nextSeries \in Nat /\ g.nextAnnotation \in Nat
      /\ e.nextAxes \in Nat /\ e.nextSeries \in Nat /\ e.nextAnnotation \in Nat
      /\ g.nextAxes <= e.nextAxes /\ g.nextSeries <= e.nextSeries
      /\ g.nextAnnotation <= e.nextAnnotation
      /\ e.nextAxes <= FirstSeries /\ e.nextSeries <= FirstAnnotation
      /\ FirstAxes \in Nat /\ FirstSeries \in Nat /\ FirstAnnotation \in Nat
      /\ FirstAxes < FirstSeries /\ FirstSeries < FirstAnnotation
  BY GraphicsAssumption DEF Sound, Typed, Grows, Counts, InRange
<1>4. o = None \/ Spent(e, o)
  BY <1>1, <1>2, <1>3 DEF ObjectOwn, Spent
<1>5. ASSUME NEW s \in DOMAIN e.axes, e.axes[s].handle = o
      PROVE  s[1] = f
  <2>1. o # None /\ FirstAxes <= o /\ o < e.nextAxes
    BY <1>5, <1>3, GraphicsAssumption DEF Sound, Numbered, None
  <2>2. Spent(g, o)
    BY <2>1, <1>2 DEF ObjectOwn
  <2>3. o < g.nextAxes
    BY <2>1, <2>2, <1>1, <1>3 DEF Spent
  <2>4. s \in DOMAIN g.axes /\ g.axes[s].handle = o
    BY <1>1, <1>3, <1>5, <2>3 DEF Grows, NewOnly
  <2> QED BY <2>4, <1>2 DEF ObjectOwn, Lies
<1>6. ASSUME NEW x \in e.series, x.handle = o
      PROVE  x.slot[1] = f
  <2>1. o # None /\ FirstSeries <= o /\ o < e.nextSeries
    BY <1>6, <1>3, GraphicsAssumption DEF Sound, Numbered, None
  <2>2. Spent(g, o)
    BY <2>1, <1>2 DEF ObjectOwn
  <2>3. o < g.nextSeries
    BY <2>1, <2>2, <1>1, <1>3 DEF Spent
  <2>4. x \in g.series
    BY <1>1, <1>3, <1>6, <2>3 DEF Grows, NewOnly
  <2> QED BY <2>4, <1>6, <1>2 DEF ObjectOwn, Lies
<1>7. ASSUME NEW a \in e.annotations, a.handle = o
      PROVE  a.figure = f
  <2>1. o # None /\ FirstAnnotation <= o /\ o < e.nextAnnotation
    BY <1>7, <1>3, GraphicsAssumption DEF Sound, Numbered, None
  <2>2. Spent(g, o)
    BY <2>1, <1>2 DEF ObjectOwn
  <2>3. o < g.nextAnnotation
    BY <2>1, <2>2, <1>1, <1>3 DEF Spent
  <2>4. a \in g.annotations
    BY <1>1, <1>3, <1>7, <2>3 DEF Grows, NewOnly
  <2> QED BY <2>4, <1>7, <1>2 DEF ObjectOwn, Lies
<1>8. ObjectOwn(e, f, o)
  BY <1>4, <1>5, <1>6, <1>7 DEF ObjectOwn, Lies
<1> QED BY <1>8 DEF o

LEMMA ObjectsStay ==
  ASSUME NEW g, NEW e, Sound(g), Sound(e), Grows(g, e), InRange(e), Objects(g)
  PROVE  Objects(e)
<1> SUFFICES ASSUME NEW f \in DOMAIN e.figures
             PROVE  ObjectOwn(e, f, e.figures[f].currentObject)
  BY DEF Objects
<1>1. CASE e.figures[f].currentObject = None
  BY <1>1 DEF ObjectOwn, Lies, Sound, Typed, AxesRecords, Positive, None
<1>2. CASE f \in DOMAIN g.figures /\ e.figures[f].currentObject = g.figures[f].currentObject
  BY <1>2, OwnObjectsStay DEF Objects
<1> QED BY <1>1, <1>2 DEF Grows, Forgets

-----------------------------------------------------------------------------
(***************************************************************************)
(* Groups of linked axes stay sound as long as a figure with groups keeps  *)
(* its axes, gets new ones under new numbers, and no limit is fixed.       *)
(***************************************************************************)
LinksFrom(g, e) ==
  \A f \in DOMAIN e.figures :
    \/ e.figures[f].links = {}
    \/ /\ f \in DOMAIN g.figures
       /\ e.figures[f].links = g.figures[f].links
       /\ \A s \in SlotsOf(g, f) :
            s \in DOMAIN e.axes /\ e.axes[s].handle = g.axes[s].handle
       /\ \A s \in SlotsOf(e, f) :
            \/ /\ s \in DOMAIN g.axes
               /\ e.axes[s].handle = g.axes[s].handle
               /\ \A d \in Dims : e.axes[s].limits[d] \in {g.axes[s].limits[d], AutoLimit}
            \/ e.axes[s].handle \notin AxesHandles(g, f)

LEMMA LinksStay ==
  ASSUME NEW g, NEW e, Typed(g), Linked(g), Agreed(g), LinksFrom(g, e)
  PROVE  Linked(e) /\ Agreed(e)
<1>1. Linked(e)
  <2> SUFFICES ASSUME NEW f \in DOMAIN e.figures, NEW l \in e.figures[f].links
               PROVE  /\ Cardinality(l.handles) >= 2
                      /\ l.handles \subseteq AxesHandles(e, f)
                      /\ \A m \in e.figures[f].links : m # l => m.handles \cap l.handles = {}
    BY DEF Linked
  <2>1. /\ f \in DOMAIN g.figures
        /\ e.figures[f].links = g.figures[f].links
        /\ \A s \in SlotsOf(g, f) :
            s \in DOMAIN e.axes /\ e.axes[s].handle = g.axes[s].handle
    BY DEF LinksFrom
  <2>2. AxesHandles(g, f) \subseteq AxesHandles(e, f)
    BY <2>1 DEF AxesHandles, SlotsOf
  <2> QED BY <2>1, <2>2 DEF Linked
<1>2. Agreed(e)
  <2> SUFFICES ASSUME NEW f \in DOMAIN e.figures, NEW l \in e.figures[f].links,
                      NEW s \in SlotsOf(e, f), NEW t \in SlotsOf(e, f), NEW d \in l.mode,
                      {e.axes[s].handle, e.axes[t].handle} \subseteq l.handles,
                      AutoLimit \notin {e.axes[s].limits[d], e.axes[t].limits[d]}
               PROVE  e.axes[s].limits[d] = e.axes[t].limits[d]
    BY DEF Agreed
  <2>1. /\ f \in DOMAIN g.figures
        /\ e.figures[f].links = g.figures[f].links
        /\ \A r \in SlotsOf(e, f) :
            \/ /\ r \in DOMAIN g.axes
               /\ e.axes[r].handle = g.axes[r].handle
               /\ \A c \in Dims : e.axes[r].limits[c] \in {g.axes[r].limits[c], AutoLimit}
            \/ e.axes[r].handle \notin AxesHandles(g, f)
    BY DEF LinksFrom
  <2>2. l.handles \subseteq AxesHandles(g, f)
    BY <2>1 DEF Linked
  <2>3. d \in Dims
    BY <2>1 DEF Typed, FigureRecords
  <2>4. /\ s \in DOMAIN g.axes /\ e.axes[s].handle = g.axes[s].handle
        /\ t \in DOMAIN g.axes /\ e.axes[t].handle = g.axes[t].handle
        /\ e.axes[s].limits[d] = g.axes[s].limits[d]
        /\ e.axes[t].limits[d] = g.axes[t].limits[d]
    BY <2>1, <2>2, <2>3
  <2>5. s \in SlotsOf(g, f) /\ t \in SlotsOf(g, f)
    BY <2>4 DEF SlotsOf
  <2> QED BY <2>1, <2>4, <2>5 DEF Agreed
<1> QED BY <1>1, <1>2

LEMMA LinksSame ==
  ASSUME NEW g, NEW e, Typed(g), Linked(g), Agreed(g), e.axes = g.axes,
         \A f \in DOMAIN e.figures :
           \/ e.figures[f].links = {}
           \/ f \in DOMAIN g.figures /\ e.figures[f].links = g.figures[f].links
  PROVE  Linked(e) /\ Agreed(e)
<1>1. LinksFrom(g, e)
  BY DEF LinksFrom, SlotsOf
<1> QED BY <1>1, LinksStay

SameObjects(g, e) ==
  e.axes = g.axes /\ e.series = g.series /\ e.annotations = g.annotations
SameCounts(g, e) ==
  /\ e.nextFigure = g.nextFigure /\ e.nextAxes = g.nextAxes
  /\ e.nextSeries = g.nextSeries /\ e.nextAnnotation = g.nextAnnotation

-----------------------------------------------------------------------------
(***************************************************************************)
(* New figures.                                                            *)
(***************************************************************************)
LEMMA FigureAdded ==
  ASSUME NEW g, Sound(g), NEW h \in Positive, h \notin Taken(g),
         NEW e, DOMAIN e = DOMAIN g, e.figures = With(g.figures, h, NewFigure),
         e.current = h, SameObjects(g, e),
         e.nextFigure \in Nat, h < e.nextFigure, g.nextFigure <= e.nextFigure,
         e.nextAxes = g.nextAxes, e.nextSeries = g.nextSeries,
         e.nextAnnotation = g.nextAnnotation
  PROVE  /\ Sound(e) /\ Grows(g, e)
         /\ DOMAIN e.figures = DOMAIN g.figures \cup {h}
         /\ CurrentAxes(g) => CurrentAxes(e)
<1>1. e.axes = g.axes /\ e.series = g.series /\ e.annotations = g.annotations
  BY DEF SameObjects
<1>2. NewFigure \in FigureRecords
  BY DEF NewFigure, FigureRecords, Positive, None
<1>3. /\ DOMAIN e.figures = DOMAIN g.figures \cup {h}
      /\ e.figures[h] = NewFigure
      /\ \A f \in DOMAIN g.figures : e.figures[f] = g.figures[f]
  <2>1. h \notin DOMAIN g.figures
    BY DEF Taken
  <2> QED BY <1>1, <2>1 DEF With
<1>4. Typed(e)
  <2>1. e.figures \in [DOMAIN e.figures -> FigureRecords]
    BY <1>1, <1>2, <1>3 DEF With, Sound, Typed
  <2>2. DOMAIN e.figures \subseteq Positive /\ IsFiniteSet(DOMAIN e.figures)
    BY <1>3, FS_AddElement DEF Sound, Typed
  <2>3. /\ DOMAIN e.axes \subseteq (DOMAIN e.figures) \X Positive
        /\ e.annotations \subseteq [figure : DOMAIN e.figures, handle : Positive]
    BY <1>1, <1>3 DEF Sound, Typed
  <2> QED BY <1>1, <1>3, <2>1, <2>2, <2>3 DEF Sound, Typed
<1>5. Distinct(e)
  BY <1>1, <1>3 DEF Sound, Distinct, Taken
<1>6. Linked(e) /\ Agreed(e)
  <2>1. NewFigure.links = {}
    BY DEF NewFigure
  <2>2. \A f \in DOMAIN e.figures :
          \/ e.figures[f].links = {}
          \/ f \in DOMAIN g.figures /\ e.figures[f].links = g.figures[f].links
    BY <1>3, <2>1
  <2>3. Typed(g) /\ Linked(g) /\ Agreed(g) /\ e.axes = g.axes
    BY <1>1 DEF Sound
  <2> QED BY <2>2, <2>3, LinksSame
<1>7. Numbered(e)
  <2>1. \A f \in DOMAIN e.figures : f < e.nextFigure
    BY <1>1, <1>3 DEF Sound, Numbered, Typed, Positive
  <2> QED BY <1>1, <2>1 DEF Sound, Numbered
<1>8. Grows(g, e)
  <2>1. NewFigure.currentObject = None
    BY DEF NewFigure
  <2> QED BY <1>1, <1>3, <2>1 DEF Sound, Typed, Grows, Counts, NewOnly, Forgets
<1>9. CurrentAxes(g) => CurrentAxes(e)
  <2> SUFFICES ASSUME CurrentAxes(g), NEW f \in DOMAIN e.figures PROVE CurrentAt(e, f)
    BY DEF CurrentAxes
  <2>1. CASE f = h
    <3>1. SlotsOf(e, h) = {}
      <4>1. h \notin DOMAIN g.figures
        BY DEF Taken
      <4> QED BY <4>1, <1>1 DEF SlotsOf, Sound, Typed
    <3> QED BY <2>1, <3>1, <1>3 DEF CurrentAt, NewFigure
  <2>2. CASE f # h
    BY <2>2, <1>1, <1>3 DEF CurrentAxes, CurrentAt, SlotsOf
  <2> QED BY <2>1, <2>2
<1> QED BY <1>1, <1>3, <1>4, <1>5, <1>6, <1>7, <1>8, <1>9 DEF Sound

\* create_new_figure
LEMMA NewCurrentFigureSound ==
  ASSUME NEW g, Sound(g)
  PROVE  LET e == NewCurrentFigure(g) IN
         /\ Sound(e) /\ Grows(g, e)
         /\ e.current \in DOMAIN e.figures /\ DOMAIN g.figures \subseteq DOMAIN e.figures
         /\ SameObjects(g, e) /\ e.nextSeries = g.nextSeries
         /\ e.nextAnnotation = g.nextAnnotation
         /\ CurrentAxes(g) => CurrentAxes(e)
<1> DEFINE h == Fresh(g, g.nextFigure, 1)
           e == NewCurrentFigure(g)
<1>1. h \in Nat /\ h >= g.nextFigure /\ h >= 1 /\ h \notin Taken(g)
  BY FreshIsFree DEF Sound, Typed
<1>2. g.nextFigure \in Nat
  BY DEF Sound, Typed
<1> HIDE DEF h
<1>3. /\ DOMAIN e = DOMAIN g /\ e.figures = With(g.figures, h, NewFigure)
      /\ e.current = h /\ SameObjects(g, e) /\ e.nextFigure = h + 1
      /\ e.nextAxes = g.nextAxes /\ e.nextSeries = g.nextSeries
      /\ e.nextAnnotation = g.nextAnnotation
  BY DEF Sound, Typed, NewCurrentFigure, SameObjects, h
<1> HIDE DEF e
<1>4. h \in Positive /\ e.nextFigure \in Nat /\ h < e.nextFigure /\ g.nextFigure <= e.nextFigure
  BY <1>1, <1>2, <1>3 DEF Positive
<1>5. /\ Sound(e) /\ Grows(g, e) /\ DOMAIN e.figures = DOMAIN g.figures \cup {h}
      /\ CurrentAxes(g) => CurrentAxes(e)
  BY <1>1, <1>3, <1>4, FigureAdded
<1> QED BY <1>3, <1>5 DEF e

\* ensure_current_figure
LEMMA WithFigureSound ==
  ASSUME NEW g, Sound(g)
  PROVE  LET e == WithFigure(g) IN
         /\ Sound(e) /\ Grows(g, e)
         /\ e.current \in DOMAIN e.figures /\ DOMAIN g.figures \subseteq DOMAIN e.figures
         /\ SameObjects(g, e) /\ e.nextSeries = g.nextSeries
         /\ e.nextAnnotation = g.nextAnnotation
         /\ CurrentAxes(g) => CurrentAxes(e)
<1>1. CASE g.current \in DOMAIN g.figures
  <2>1. WithFigure(g) = g
    BY <1>1 DEF WithFigure
  <2> QED BY <1>1, <2>1, GrowsNot DEF Sound, SameObjects
<1>2. CASE g.current \notin DOMAIN g.figures
  <2>1. WithFigure(g) = NewCurrentFigure(g)
    BY <1>2 DEF WithFigure
  <2> QED BY <2>1, NewCurrentFigureSound
<1> QED BY <1>1, <1>2

-----------------------------------------------------------------------------
(***************************************************************************)
(* Steps that keep figures, axes and links, and lose other objects at most. *)
(***************************************************************************)
LEMMA OthersLost ==
  ASSUME NEW g, Sound(g), NEW e, DOMAIN e = DOMAIN g,
         DOMAIN e.figures = DOMAIN g.figures,
         e.figures \in [DOMAIN e.figures -> FigureRecords],
         \A f \in DOMAIN g.figures : e.figures[f].links = g.figures[f].links,
         e.axes = g.axes, e.series \subseteq g.series, e.annotations \subseteq g.annotations,
         e.current \in DOMAIN g.figures \cup {None},
         {e.nextFigure, e.nextAxes, e.nextSeries, e.nextAnnotation} \subseteq Nat,
         Counts(g, e)
  PROVE  /\ Sound(e)
         /\ Forgets(g, e) => Grows(g, e)
<1>1. Typed(e)
  <2>1. IsFiniteSet(e.series) /\ IsFiniteSet(e.annotations)
    <3>1. IsFiniteSet(g.series) /\ IsFiniteSet(g.annotations)
      BY DEF Sound, Typed
    <3> QED BY <3>1, FS_Subset
  <2>2. /\ e.series \subseteq [slot : DOMAIN e.axes, handle : Positive]
        /\ e.annotations \subseteq [figure : DOMAIN e.figures, handle : Positive]
    BY DEF Sound, Typed
  <2> QED BY <2>1, <2>2 DEF Sound, Typed
<1>2. Distinct(e)
  BY DEF Sound, Distinct
<1>3. Linked(e) /\ Agreed(e)
  <2>1. Typed(g) /\ Linked(g) /\ Agreed(g)
    BY DEF Sound
  <2>2. \A f \in DOMAIN e.figures :
          \/ e.figures[f].links = {}
          \/ f \in DOMAIN g.figures /\ e.figures[f].links = g.figures[f].links
    OBVIOUS
  <2> QED BY <2>1, <2>2, LinksSame
<1>4. Numbered(e)
  <2>1. \A f \in DOMAIN e.figures : f < e.nextFigure
    BY DEF Sound, Typed, Numbered, Counts, Positive
  <2>2. \A s \in DOMAIN e.axes : FirstAxes <= e.axes[s].handle /\ e.axes[s].handle < e.nextAxes
    <3>1. \A s \in DOMAIN g.axes : g.axes[s].handle \in Nat
      BY DEF Sound, Typed, AxesRecords, Positive
    <3> QED BY <3>1 DEF Sound, Typed, Numbered, Counts
  <2>3. \A x \in e.series : FirstSeries <= x.handle /\ x.handle < e.nextSeries
    <3>1. \A x \in g.series : x.handle \in Nat
      BY DEF Sound, Typed, Positive
    <3> QED BY <3>1 DEF Sound, Typed, Numbered, Counts
  <2>4. \A a \in e.annotations : FirstAnnotation <= a.handle /\ a.handle < e.nextAnnotation
    <3>1. \A a \in g.annotations : a.handle \in Nat
      BY DEF Sound, Typed, Positive
    <3> QED BY <3>1 DEF Sound, Typed, Numbered, Counts
  <2> QED BY <2>1, <2>2, <2>3, <2>4 DEF Sound, Numbered
<1>5. NewOnly(g, e)
  BY DEF NewOnly
<1> QED BY <1>1, <1>2, <1>3, <1>4, <1>5 DEF Sound, Grows

\* The current axes are looked up in the axes and in this field alone.
LEMMA CurrentAxesStay ==
  ASSUME NEW g, NEW e, DOMAIN e.figures \subseteq DOMAIN g.figures,
         DOMAIN e.axes = DOMAIN g.axes,
         \A f \in DOMAIN e.figures : e.figures[f].currentAxes = g.figures[f].currentAxes,
         CurrentAxes(g)
  PROVE  CurrentAxes(e)
BY DEF CurrentAxes, CurrentAt, SlotsOf

\* current
LEMMA CurrentChosen ==
  ASSUME NEW g, Sound(g), NEW f \in DOMAIN g.figures
  PROVE  LET e == [g EXCEPT !.current = f] IN
         /\ Sound(e) /\ Grows(g, e) /\ e.current = f
         /\ e.figures = g.figures /\ SameObjects(g, e) /\ SameCounts(g, e)
         /\ CurrentAxes(g) => CurrentAxes(e)
<1> DEFINE e == [g EXCEPT !.current = f]
<1>1. /\ DOMAIN e = DOMAIN g /\ e.figures = g.figures /\ e.current = f
      /\ SameObjects(g, e) /\ SameCounts(g, e)
  BY DEF Sound, Typed, SameObjects, SameCounts
<1> HIDE DEF e
<1>2. Counts(g, e) /\ {e.nextFigure, e.nextAxes, e.nextSeries, e.nextAnnotation} \subseteq Nat
  BY <1>1 DEF Sound, Typed, Counts, SameCounts
<1>3. Forgets(g, e)
  BY <1>1 DEF Forgets
<1>4. Sound(e) /\ Grows(g, e)
  <2>1. e.figures \in [DOMAIN e.figures -> FigureRecords]
    BY <1>1 DEF Sound, Typed
  <2> HIDE DEF Positive
  <2> QED BY <1>1, <1>2, <1>3, <2>1, OthersLost DEF SameObjects
<1>5. CurrentAxes(g) => CurrentAxes(e)
  BY <1>1, CurrentAxesStay DEF SameObjects
<1> QED BY <1>1, <1>4, <1>5 DEF e

HasObject(g, f, o, e) == e = [g EXCEPT !.figures[f].currentObject = o]

LEMMA RecordKept ==
  ASSUME NEW r \in FigureRecords
  PROVE  /\ \A o \in Nat : [r EXCEPT !.currentObject = o] \in FigureRecords
         /\ \A i \in Positive : [r EXCEPT !.currentAxes = i] \in FigureRecords
<1> HIDE DEF Positive
<1> QED BY DEF FigureRecords

\* set_current_object_for_handle, and an object forgotten
LEMMA ObjectSet ==
  ASSUME NEW g, Sound(g), NEW f, NEW o \in Nat,
         NEW e, HasObject(g, f, o, e)
  PROVE  /\ Sound(e) /\ DOMAIN e.figures = DOMAIN g.figures /\ e.current = g.current
         /\ SameObjects(g, e) /\ SameCounts(g, e)
         /\ \A k \in DOMAIN g.figures :
              /\ e.figures[k].currentAxes = g.figures[k].currentAxes
              /\ e.figures[k].currentObject =
                   IF k = f THEN o ELSE g.figures[k].currentObject
         /\ CurrentAxes(g) => CurrentAxes(e)
         /\ o = None => Grows(g, e)
<1>1. /\ DOMAIN e = DOMAIN g /\ DOMAIN e.figures = DOMAIN g.figures
      /\ e.figures \in [DOMAIN e.figures -> FigureRecords]
      /\ SameObjects(g, e) /\ SameCounts(g, e) /\ e.current = g.current
  <2>1. /\ DOMAIN e = DOMAIN g /\ DOMAIN e.figures = DOMAIN g.figures
        /\ SameObjects(g, e) /\ SameCounts(g, e) /\ e.current = g.current
        /\ e.figures = [g.figures EXCEPT ![f].currentObject = o]
    BY DEF HasObject, Sound, Typed, SameObjects, SameCounts
  <2>2. g.figures \in [DOMAIN g.figures -> FigureRecords]
    BY DEF Sound, Typed
  <2>3. \A k \in DOMAIN g.figures : [g.figures[k] EXCEPT !.currentObject = o] \in FigureRecords
    BY <2>2, RecordKept
  <2>4. e.figures \in [DOMAIN e.figures -> FigureRecords]
    BY <2>1, <2>2, <2>3
  <2> QED BY <2>1, <2>4
<1>2. \A k \in DOMAIN g.figures :
        /\ e.figures[k].links = g.figures[k].links
        /\ e.figures[k].currentAxes = g.figures[k].currentAxes
        /\ e.figures[k].currentObject = IF k = f THEN o ELSE g.figures[k].currentObject
  BY DEF HasObject, Sound, Typed, FigureRecords
<1>3. Counts(g, e) /\ {e.nextFigure, e.nextAxes, e.nextSeries, e.nextAnnotation} \subseteq Nat
  BY <1>1 DEF Sound, Typed, Counts, SameCounts
<1>4. o = None => Forgets(g, e)
  BY <1>1, <1>2 DEF Forgets
<1>5. e.current \in DOMAIN g.figures \cup {None}
  BY <1>1 DEF Sound, Typed
<1>6. Sound(e) /\ (o = None => Grows(g, e))
  <2>1. /\ \A k \in DOMAIN g.figures : e.figures[k].links = g.figures[k].links
        /\ e.axes = g.axes /\ e.series \subseteq g.series
        /\ e.annotations \subseteq g.annotations
    BY <1>1, <1>2 DEF SameObjects
  <2> QED BY <1>1, <1>3, <1>4, <1>5, <2>1, OthersLost
<1>7. CurrentAxes(g) => CurrentAxes(e)
  <2>1. /\ DOMAIN e.figures \subseteq DOMAIN g.figures /\ DOMAIN e.axes = DOMAIN g.axes
        /\ \A k \in DOMAIN e.figures : e.figures[k].currentAxes = g.figures[k].currentAxes
    BY <1>1, <1>2 DEF SameObjects
  <2> QED BY <2>1, CurrentAxesStay
<1> QED BY <1>1, <1>2, <1>6, <1>7

-----------------------------------------------------------------------------
(***************************************************************************)
(* New axes.                                                               *)
(***************************************************************************)
LEMMA AxesAdded ==
  ASSUME NEW g, Sound(g), NEW f \in DOMAIN g.figures, NEW i \in Positive,
         <<f, i>> \notin DOMAIN g.axes,
         NEW axes \in AxesRecords, axes.handle \notin Taken(g),
         FirstAxes <= axes.handle, g.nextAxes <= axes.handle,
         NEW e, DOMAIN e = DOMAIN g, e.axes = With(g.axes, <<f, i>>, axes),
         e.figures = g.figures, e.series = g.series, e.annotations = g.annotations,
         e.current = g.current, e.nextFigure = g.nextFigure,
         e.nextAxes = axes.handle + 1, e.nextSeries = g.nextSeries,
         e.nextAnnotation = g.nextAnnotation
  PROVE  /\ Sound(e) /\ Grows(g, e)
         /\ \A k \in DOMAIN g.figures : CurrentAt(g, k) /\ k # f => CurrentAt(e, k)
<1> DEFINE h == axes.handle
           slot == <<f, i>>
<1>1. h \in Positive /\ h \in Nat
  BY DEF AxesRecords, Positive
<1>2. /\ DOMAIN e.axes = DOMAIN g.axes \cup {slot}
      /\ e.axes[slot] = axes
      /\ \A s \in DOMAIN g.axes : e.axes[s] = g.axes[s]
  BY DEF With
<1>3. \A s \in DOMAIN g.axes : g.axes[s].handle # h
  BY DEF Taken
<1>4. g.nextAxes \in Nat /\ e.nextAxes \in Nat
  BY <1>1 DEF Sound, Typed
<1> HIDE DEF h
<1>5. Typed(e)
  <2>1. e.axes \in [DOMAIN e.axes -> AxesRecords]
    BY <1>2 DEF With, Sound, Typed
  <2>2. slot \in (DOMAIN g.figures) \X Positive
    OBVIOUS
  <2>3. DOMAIN e.axes \subseteq (DOMAIN e.figures) \X Positive
    BY <1>2, <2>2 DEF Sound, Typed
  <2>4. IsFiniteSet(DOMAIN e.axes)
    <3>1. IsFiniteSet(DOMAIN g.axes)
      BY DEF Sound, Typed
    <3>2. IsFiniteSet(DOMAIN g.axes \cup {slot})
      BY <3>1, FS_AddElement
    <3> QED BY <3>2, <1>2
  <2>5. e.series \subseteq [slot : DOMAIN e.axes, handle : Positive]
    BY <1>2 DEF Sound, Typed
  <2> QED BY <1>4, <2>1, <2>3, <2>4, <2>5 DEF Sound, Typed
<1>6. Distinct(e)
  <2>1. ASSUME NEW s \in DOMAIN e.axes, NEW t \in DOMAIN e.axes,
               e.axes[s].handle = e.axes[t].handle
        PROVE  s = t
    BY <2>1, <1>2, <1>3 DEF Sound, Distinct, h
  <2>2. h \notin DOMAIN e.figures
    BY DEF Taken, h
  <2> QED BY <2>1, <2>2, <1>2 DEF Sound, Distinct, h
<1>7. Linked(e) /\ Agreed(e)
  <2>1. LinksFrom(g, e)
    <3> SUFFICES ASSUME NEW k \in DOMAIN e.figures
                 PROVE /\ \A s \in SlotsOf(g, k) :
                            s \in DOMAIN e.axes /\ e.axes[s].handle = g.axes[s].handle
                       /\ \A s \in SlotsOf(e, k) :
                            \/ /\ s \in DOMAIN g.axes
                               /\ e.axes[s].handle = g.axes[s].handle
                               /\ \A d \in Dims : e.axes[s].limits[d] \in {g.axes[s].limits[d], AutoLimit}
                            \/ e.axes[s].handle \notin AxesHandles(g, k)
      BY DEF LinksFrom
    <3>1. \A s \in SlotsOf(g, k) : s \in DOMAIN e.axes /\ e.axes[s].handle = g.axes[s].handle
      BY <1>2 DEF SlotsOf
    <3>2. h \notin AxesHandles(g, k)
      BY <1>3 DEF AxesHandles, SlotsOf
    <3> QED BY <1>2, <3>1, <3>2 DEF SlotsOf, h
  <2>2. Typed(g) /\ Linked(g) /\ Agreed(g)
    BY DEF Sound
  <2> QED BY <2>1, <2>2, LinksStay
<1>8. Numbered(e)
  <2>1. \A s \in DOMAIN e.axes : FirstAxes <= e.axes[s].handle /\ e.axes[s].handle < e.nextAxes
    <3>1. \A s \in DOMAIN g.axes : g.axes[s].handle \in Nat
      BY DEF Sound, Typed, AxesRecords, Positive
    <3> QED BY <3>1, <1>1, <1>2, <1>4 DEF Sound, Numbered, h
  <2> QED BY <2>1 DEF Sound, Numbered
<1>9. Grows(g, e)
  <2>1. Counts(g, e)
    BY <1>1, <1>4 DEF Counts, Sound, Typed, h
  <2>2. NewOnly(g, e)
    BY <1>2 DEF NewOnly
  <2> QED BY <2>1, <2>2 DEF Grows, Forgets
<1>10. ASSUME NEW k \in DOMAIN g.figures, CurrentAt(g, k), k # f
       PROVE  CurrentAt(e, k)
  <2>1. SlotsOf(e, k) = SlotsOf(g, k)
    BY <1>2, <1>10 DEF SlotsOf
  <2> QED BY <1>2, <1>10, <2>1 DEF CurrentAt
<1> QED BY <1>5, <1>6, <1>7, <1>8, <1>9, <1>10 DEF Sound

\* ensure_axes_slot
LEMMA WithSlotSound ==
  ASSUME NEW g, Sound(g), NEW f \in DOMAIN g.figures, NEW i \in Positive
  PROVE  LET e == WithSlot(g, <<f, i>>) IN
         /\ Sound(e) /\ Grows(g, e) /\ <<f, i>> \in DOMAIN e.axes
         /\ e.figures = g.figures /\ e.series = g.series /\ e.annotations = g.annotations
         /\ e.current = g.current /\ e.nextSeries = g.nextSeries
         /\ e.nextAnnotation = g.nextAnnotation
         /\ \A k \in DOMAIN g.figures : CurrentAt(g, k) /\ k # f => CurrentAt(e, k)
         /\ g.figures[f].currentAxes = i => CurrentAt(e, f)
<1> DEFINE slot == <<f, i>>
           h == Fresh(g, g.nextAxes, FirstAxes)
           e == WithSlot(g, <<f, i>>)
<1>1. CASE slot \in DOMAIN g.axes
  <2>1. e = g
    BY <1>1 DEF WithSlot
  <2> QED BY <1>1, <2>1, GrowsNot DEF Sound, CurrentAt
<1>2. CASE slot \notin DOMAIN g.axes
  <2>1. /\ h \in Nat /\ h >= g.nextAxes /\ h >= FirstAxes /\ h \notin Taken(g)
        /\ FirstAxes \in Nat /\ 1 < FirstAxes /\ g.nextAxes \in Nat
    BY FreshIsFree, GraphicsAssumption DEF Sound, Typed
  <2> HIDE DEF h
  <2>2. NewAxes(h) \in AxesRecords /\ NewAxes(h).handle = h
    BY <2>1 DEF NewAxes, AxesRecords, Positive, AutoLimit
  <2>3. /\ DOMAIN e = DOMAIN g /\ e.axes = With(g.axes, slot, NewAxes(h))
        /\ e.figures = g.figures /\ e.series = g.series /\ e.annotations = g.annotations
        /\ e.current = g.current /\ e.nextFigure = g.nextFigure
        /\ e.nextAxes = h + 1 /\ e.nextSeries = g.nextSeries
        /\ e.nextAnnotation = g.nextAnnotation
    BY <1>2 DEF Sound, Typed, WithSlot, h
  <2> HIDE DEF e
  <2>4. FirstAxes <= h /\ g.nextAxes <= h
    BY <2>1
  <2>5. /\ <<f, i>> \notin DOMAIN g.axes
        /\ e.axes = With(g.axes, <<f, i>>, NewAxes(h))
    BY <1>2, <2>3
  <2>6. /\ Sound(e) /\ Grows(g, e)
        /\ \A k \in DOMAIN g.figures : CurrentAt(g, k) /\ k # f => CurrentAt(e, k)
    <3> DEFINE axes == NewAxes(h)
    <3>1. /\ axes \in AxesRecords /\ axes.handle \notin Taken(g) /\ FirstAxes <= axes.handle
          /\ g.nextAxes <= axes.handle /\ e.nextAxes = axes.handle + 1
          /\ e.axes = With(g.axes, <<f, i>>, axes)
      BY <2>1, <2>2, <2>3, <2>4, <2>5
    <3> HIDE DEF axes
    <3> QED BY <2>3, <2>5, <3>1, AxesAdded
  <2>7. <<f, i>> \in DOMAIN e.axes
    BY <2>5 DEF With
  <2> QED BY <2>3, <2>6, <2>7 DEF CurrentAt, e
<1> QED BY <1>1, <1>2

\* The current axes of f are in place but those of f, which WithSlot makes.
LEMMA ChosenSlotSound ==
  ASSUME NEW g, Sound(g), NEW f \in DOMAIN g.figures, NEW i \in Positive,
         \A k \in DOMAIN g.figures : k # f => CurrentAt(g, k)
  PROVE  LET e == WithSlot([g EXCEPT !.figures[f].currentAxes = i], <<f, i>>) IN
         /\ Sound(e) /\ Grows(g, e) /\ CurrentAxes(e)
         /\ <<f, i>> \in DOMAIN e.axes /\ DOMAIN e.figures = DOMAIN g.figures
         /\ e.series = g.series /\ e.annotations = g.annotations
         /\ e.current = g.current /\ e.nextSeries = g.nextSeries
<1> DEFINE m == [g EXCEPT !.figures[f].currentAxes = i]
           e == WithSlot(m, <<f, i>>)
<1>1. /\ DOMAIN m = DOMAIN g /\ DOMAIN m.figures = DOMAIN g.figures
      /\ m.figures \in [DOMAIN m.figures -> FigureRecords]
      /\ m.figures[f].currentAxes = i
      /\ \A k \in DOMAIN g.figures :
           /\ m.figures[k].links = g.figures[k].links
           /\ m.figures[k].currentObject = g.figures[k].currentObject
           /\ k # f => m.figures[k] = g.figures[k]
      /\ SameObjects(g, m) /\ SameCounts(g, m) /\ m.current = g.current
  BY DEF Sound, Typed, FigureRecords, SameObjects, SameCounts
<1>2. e = WithSlot(m, <<f, i>>)
  OBVIOUS
<1> HIDE DEF e
<1>8. e = WithSlot([g EXCEPT !.figures[f].currentAxes = i], <<f, i>>)
  BY DEF e
<1> HIDE DEF m
<1>3. Sound(m) /\ Grows(g, m)
  <2>1. Counts(g, m) /\ {m.nextFigure, m.nextAxes, m.nextSeries, m.nextAnnotation} \subseteq Nat
    BY <1>1 DEF Sound, Typed, Counts, SameCounts
  <2>2. Forgets(g, m)
    BY <1>1 DEF Forgets
  <2>3. /\ \A k \in DOMAIN g.figures : m.figures[k].links = g.figures[k].links
        /\ m.axes = g.axes /\ m.series \subseteq g.series
        /\ m.annotations \subseteq g.annotations
        /\ m.current \in DOMAIN g.figures \cup {None}
    BY <1>1 DEF SameObjects, Sound, Typed
  <2> QED BY <1>1, <2>1, <2>2, <2>3, OthersLost
<1>4. \A k \in DOMAIN g.figures : k # f => CurrentAt(m, k)
  BY <1>1 DEF CurrentAt, SlotsOf, SameObjects
<1>5. /\ Sound(e) /\ Grows(m, e) /\ <<f, i>> \in DOMAIN e.axes
      /\ e.figures = m.figures /\ e.series = m.series /\ e.annotations = m.annotations
      /\ e.current = m.current /\ e.nextSeries = m.nextSeries
      /\ \A k \in DOMAIN m.figures : CurrentAt(m, k) /\ k # f => CurrentAt(e, k)
      /\ m.figures[f].currentAxes = i => CurrentAt(e, f)
  BY <1>1, <1>2, <1>3, WithSlotSound
<1>6. CurrentAxes(e)
  BY <1>1, <1>4, <1>5 DEF CurrentAxes
<1>7. Grows(g, e)
  BY <1>3, <1>5, GrowsOn DEF Sound
<1>9. /\ Sound(e) /\ Grows(g, e) /\ CurrentAxes(e)
      /\ <<f, i>> \in DOMAIN e.axes /\ DOMAIN e.figures = DOMAIN g.figures
      /\ e.series = g.series /\ e.annotations = g.annotations
      /\ e.current = g.current /\ e.nextSeries = g.nextSeries
  BY <1>1, <1>5, <1>6, <1>7 DEF SameObjects, SameCounts
<1> QED BY <1>8, <1>9

\* current_axes_mut
LEMMA WithAxesSound ==
  ASSUME NEW g, Sound(g), CurrentAxes(g)
  PROVE  LET e == WithAxes(g) IN
         /\ Sound(e) /\ Grows(g, e) /\ CurrentAxes(e)
         /\ e.current \in DOMAIN e.figures /\ CurrentSlot(e) \in DOMAIN e.axes
         /\ e.series = g.series /\ e.annotations = g.annotations
         /\ e.nextSeries = g.nextSeries
<1> DEFINE m == WithFigure(g)
           f == m.current
           i == m.figures[f].currentAxes
           e == WithAxes(g)
<1>1. /\ Sound(m) /\ Grows(g, m) /\ f \in DOMAIN m.figures
      /\ SameObjects(g, m) /\ m.nextSeries = g.nextSeries /\ CurrentAxes(m)
  BY WithFigureSound
<1>2. i \in Positive
  BY <1>1 DEF Sound, Typed, FigureRecords
<1>3. e = WithSlot(m, <<f, i>>)
  BY DEF WithAxes, CurrentSlot
<1> HIDE DEF m, e
<1>4. /\ Sound(e) /\ Grows(m, e) /\ <<f, i>> \in DOMAIN e.axes
      /\ e.figures = m.figures /\ e.series = m.series /\ e.annotations = m.annotations
      /\ e.current = m.current
      /\ e.nextSeries = m.nextSeries
      /\ \A k \in DOMAIN m.figures : CurrentAt(m, k) /\ k # f => CurrentAt(e, k)
      /\ CurrentAt(e, f)
  BY <1>1, <1>2, <1>3, WithSlotSound
<1>5. CurrentAxes(e)
  BY <1>1, <1>4 DEF CurrentAxes
<1>6. Grows(g, e)
  BY <1>1, <1>4, GrowsOn DEF Sound
<1>7. /\ Sound(e) /\ Grows(g, e) /\ CurrentAxes(e)
      /\ e.current \in DOMAIN e.figures /\ CurrentSlot(e) \in DOMAIN e.axes
      /\ e.series = g.series /\ e.annotations = g.annotations
         /\ e.nextSeries = g.nextSeries
  BY <1>1, <1>4, <1>5, <1>6 DEF CurrentSlot, SameObjects
<1> QED BY <1>7 DEF e

-----------------------------------------------------------------------------
(***************************************************************************)
(* What every builtin shows.  While the kinds are apart, the object that   *)
(* becomes current lies in the figure that gets it.                        *)
(***************************************************************************)
Leads(g, e) ==
  /\ Sound(e) /\ CurrentAxes(e)
  /\ Objects(g) /\ InRange(e) => Objects(e)

LEMMA GrowsLeads ==
  ASSUME NEW g, NEW e, Sound(g), Sound(e), Grows(g, e), CurrentAxes(e)
  PROVE  Leads(g, e)
BY ObjectsStay DEF Leads

LEMMA FigureOfLies ==
  ASSUME NEW g, Sound(g), InRange(g), NEW h,
         \/ \E s \in DOMAIN g.axes : g.axes[s].handle = h
         \/ \E x \in g.series : x.handle = h
         \/ \E a \in g.annotations : a.handle = h
  PROVE  /\ Kind(g, h) # "figure"
         /\ Spent(g, h) /\ Lies(g, FigureOf(g, h), h)
<1> DEFINE IsAxes == \E s \in DOMAIN g.axes : g.axes[s].handle = h
           IsSeries == \E x \in g.series : x.handle = h
           IsAnnotation == \E a \in g.annotations : a.handle = h
<1>1. /\ g.nextFigure \in Nat /\ g.nextAxes \in Nat /\ g.nextSeries \in Nat
      /\ g.nextAnnotation \in Nat
      /\ g.nextFigure <= FirstSeries /\ g.nextAxes <= FirstSeries
      /\ g.nextSeries <= FirstAnnotation
      /\ FirstAxes \in Nat /\ FirstSeries \in Nat /\ FirstAnnotation \in Nat
      /\ FirstAxes < FirstSeries /\ FirstSeries < FirstAnnotation
  BY GraphicsAssumption DEF Sound, Typed, InRange
<1>2. /\ IsAxes => FirstAxes <= h /\ h < g.nextAxes
      /\ IsSeries => FirstSeries <= h /\ h < g.nextSeries
      /\ IsAnnotation => FirstAnnotation <= h /\ h < g.nextAnnotation
      /\ h \in Nat
  BY DEF Sound, Typed, Numbered, AxesRecords, Positive
<1>3. h \notin DOMAIN g.figures
  <2>1. IsAxes => h \notin DOMAIN g.figures
    BY DEF Sound, Distinct
  <2>2. h \in DOMAIN g.figures => h < g.nextFigure
    BY DEF Sound, Numbered
  <2> QED BY <2>1, <2>2, <1>1, <1>2
<1>4. Kind(g, h) # "figure"
  BY <1>3, KindFound
<1>5. Spent(g, h)
  BY <1>2 DEF Spent
<1>6. CASE IsAxes
  <2>1. ~ IsSeries /\ ~ IsAnnotation
    BY <1>1, <1>2, <1>6
  <2>2. Kind(g, h) = "axes"
    BY <1>3, <1>6, KindFound
  <2>3. FigureOf(g, h) = SlotOf(g, h)[1]
    BY <2>2 DEF FigureOf
  <2>4. SlotOf(g, h) \in DOMAIN g.axes /\ g.axes[SlotOf(g, h)].handle = h
    BY <1>6 DEF SlotOf
  <2> QED BY <1>4, <1>5, <2>1, <2>3, <2>4 DEF Lies, Sound, Distinct
<1>7. CASE IsSeries
  <2>1. ~ IsAxes /\ ~ IsAnnotation
    BY <1>1, <1>2, <1>7
  <2>2. Kind(g, h) = "series"
    BY <1>3, <1>7, <2>1, KindFound
  <2>3. FigureOf(g, h) = (CHOOSE x \in g.series : x.handle = h).slot[1]
    BY <2>2 DEF FigureOf
  <2>4. PICK x \in g.series : x.handle = h /\ x = CHOOSE y \in g.series : y.handle = h
    BY <1>7
  <2>5. \A y \in g.series : y.handle = h => y = x
    BY <2>4 DEF Sound, Numbered
  <2> QED BY <1>4, <1>5, <2>1, <2>3, <2>4, <2>5 DEF Lies
<1>8. CASE IsAnnotation
  <2>1. ~ IsAxes /\ ~ IsSeries
    BY <1>1, <1>2, <1>8
  <2>2. Kind(g, h) = "annotation"
    BY <1>3, <1>8, <2>1, KindFound
  <2>3. FigureOf(g, h) = (CHOOSE a \in g.annotations : a.handle = h).figure
    BY <2>2 DEF FigureOf
  <2>4. PICK a \in g.annotations : a.handle = h /\ a = CHOOSE b \in g.annotations : b.handle = h
    BY <1>8
  <2>5. \A b \in g.annotations : b.handle = h => b = a
    BY <2>4 DEF Sound, Numbered
  <2> QED BY <1>4, <1>5, <2>1, <2>3, <2>4, <2>5 DEF Lies
<1> QED BY <1>6, <1>7, <1>8

\* set_current_object_for_handle, at the end of a builtin
LEMMA WithObjectLeads ==
  ASSUME NEW g, NEW e, Sound(g), Sound(e), Grows(g, e), CurrentAxes(e), NEW h \in Nat,
         InRange(e) => \/ \E s \in DOMAIN e.axes : e.axes[s].handle = h
                       \/ \E x \in e.series : x.handle = h
                       \/ \E a \in e.annotations : a.handle = h
  PROVE  Leads(g, WithObject(e, h))
<1>1. CASE Kind(e, h) = "figure"
  <2>1. WithObject(e, h) = e
    BY <1>1 DEF WithObject
  <2> QED BY <2>1, GrowsLeads
<1>2. CASE Kind(e, h) # "figure"
  <2> DEFINE k == FigureOf(e, h)
             d == WithObject(e, h)
  <2>1. HasObject(e, k, h, d)
    BY <1>2 DEF WithObject, HasObject
  <2>2. k = FigureOf(e, h)
    OBVIOUS
  <2> HIDE DEF k, d
  <2>4. /\ Sound(d) /\ DOMAIN d.figures = DOMAIN e.figures /\ CurrentAxes(d)
        /\ SameObjects(e, d) /\ SameCounts(e, d)
        /\ \A j \in DOMAIN e.figures :
              d.figures[j].currentObject = IF j = k THEN h ELSE e.figures[j].currentObject
    <3>1. /\ Sound(d) /\ DOMAIN d.figures = DOMAIN e.figures /\ d.current = e.current
          /\ SameObjects(e, d) /\ SameCounts(e, d)
          /\ \A j \in DOMAIN e.figures :
               /\ d.figures[j].currentAxes = e.figures[j].currentAxes
               /\ d.figures[j].currentObject =
                    IF j = k THEN h ELSE e.figures[j].currentObject
          /\ CurrentAxes(e) => CurrentAxes(d)
          /\ h = None => Grows(e, d)
      BY <2>1, ObjectSet, Zenon
    <3> QED BY <3>1
  <2>5. ASSUME Objects(g), InRange(d) PROVE Objects(d)
    <3>1. InRange(e)
      BY <2>4, <2>5 DEF InRange, SameCounts
    <3>2. Objects(e)
      BY <2>5, <3>1, ObjectsStay
    <3>3. Spent(e, h) /\ Lies(e, k, h)
      BY <2>2, <3>1, FigureOfLies
    <3>4. \A j, o : ObjectOwn(e, j, o) => ObjectOwn(d, j, o)
      BY <2>4 DEF ObjectOwn, Spent, Lies, SameObjects, SameCounts
    <3> QED BY <2>4, <3>2, <3>3, <3>4 DEF Objects, ObjectOwn
  <2> QED BY <2>4, <2>5 DEF Leads, d
<1> QED BY <1>1, <1>2

-----------------------------------------------------------------------------
(***************************************************************************)
(* Series.                                                                 *)
(***************************************************************************)
\* next_series_handle
LEMMA ReservedSound ==
  ASSUME NEW g, Sound(g)
  PROVE  LET e == Reserved(g)
             n == SeriesNumber(g)
         IN  /\ Sound(e) /\ Grows(g, e) /\ (CurrentAxes(g) => CurrentAxes(e))
             /\ SameObjects(g, e) /\ e.figures = g.figures /\ e.current = g.current
             /\ e.nextAxes = g.nextAxes
             /\ n \in Positive /\ FirstSeries <= n /\ g.nextSeries <= n /\ n < e.nextSeries
             /\ Undrawn(g, n)
<1> DEFINE e == Reserved(g)
           n == SeriesNumber(g)
<1>1. /\ n \in Nat /\ n >= g.nextSeries /\ n >= FirstSeries /\ n \notin Taken(g)
      /\ FirstSeries \in Nat /\ 1 < FirstSeries /\ g.nextSeries \in Nat
  <2>1. FirstSeries \in Nat /\ 1 < FirstSeries /\ g.nextSeries \in Nat /\ Typed(g)
    BY GraphicsAssumption DEF Sound, Typed
  <2> QED BY <2>1, FreshIsFree DEF SeriesNumber
<1>2. /\ DOMAIN e = DOMAIN g /\ e.figures = g.figures /\ e.current = g.current
      /\ SameObjects(g, e) /\ e.nextFigure = g.nextFigure /\ e.nextAxes = g.nextAxes
      /\ e.nextSeries = n + 1 /\ e.nextAnnotation = g.nextAnnotation
  BY DEF Sound, Typed, Reserved, SameObjects
<1> HIDE DEF e, n
<1>3. Counts(g, e) /\ {e.nextFigure, e.nextAxes, e.nextSeries, e.nextAnnotation} \subseteq Nat
  BY <1>1, <1>2 DEF Sound, Typed, Counts
<1>4. Forgets(g, e)
  BY <1>2 DEF Forgets
<1>5. Sound(e) /\ Grows(g, e)
  <2>1. /\ \A k \in DOMAIN g.figures : e.figures[k].links = g.figures[k].links
        /\ e.axes = g.axes /\ e.series \subseteq g.series /\ e.annotations \subseteq g.annotations
        /\ e.current \in DOMAIN g.figures \cup {None}
        /\ e.figures \in [DOMAIN e.figures -> FigureRecords]
    BY <1>2 DEF SameObjects, Sound, Typed
  <2> QED BY <1>2, <1>3, <1>4, <2>1, OthersLost
<1>6. CurrentAxes(g) => CurrentAxes(e)
  BY <1>2, CurrentAxesStay DEF SameObjects
<1>7. n \in Positive /\ FirstSeries <= n /\ g.nextSeries <= n /\ n < e.nextSeries
  BY <1>1, <1>2 DEF Positive
<1>8. Undrawn(g, n)
  BY <1>1 DEF Taken, Undrawn
<1> QED BY <1>2, <1>5, <1>6, <1>7, <1>8 DEF e, n

\* Series drawn with numbers that were taken since g.
LEMMA SeriesAdded ==
  ASSUME NEW g, NEW m, Sound(g), Sound(m), Grows(g, m), CurrentAxes(m),
         NEW S, IsFiniteSet(S), S \subseteq [slot : DOMAIN m.axes, handle : Positive],
         \A x \in S : /\ FirstSeries <= x.handle /\ g.nextSeries <= x.handle
                      /\ x.handle < m.nextSeries,
         \A x \in S : Undrawn(m, x.handle),
         \A x, y \in S : x.handle = y.handle => x = y,
         NEW e, DOMAIN e = DOMAIN m, e.series = m.series \cup S,
         e.figures = m.figures, e.axes = m.axes, e.annotations = m.annotations,
         e.current = m.current, SameCounts(m, e)
  PROVE  Sound(e) /\ Grows(g, e) /\ CurrentAxes(e)
<1>1. Typed(e)
  <2>1. IsFiniteSet(m.series)
    BY DEF Sound, Typed
  <2>2. IsFiniteSet(m.series \cup S)
    BY <2>1, FS_Union
  <2>3. e.series \subseteq [slot : DOMAIN e.axes, handle : Positive]
    BY DEF Sound, Typed
  <2> QED BY <2>2, <2>3 DEF Sound, Typed, SameCounts
<1>2. Distinct(e)
  BY DEF Sound, Distinct
<1>3. Linked(e) /\ Agreed(e)
  <2>1. Typed(m) /\ Linked(m) /\ Agreed(m)
    BY DEF Sound
  <2> QED BY <2>1, LinksSame
<1>4. Numbered(e)
  <2>1. \A x \in e.series : FirstSeries <= x.handle /\ x.handle < e.nextSeries
    BY DEF Sound, Numbered, SameCounts
  <2>2. \A x, y \in e.series : x.handle = y.handle => x = y
    BY DEF Sound, Numbered, Undrawn
  <2>3. \A x \in e.series, a \in e.annotations : x.handle # a.handle
    BY DEF Sound, Numbered, Undrawn
  <2> QED BY <2>1, <2>2, <2>3 DEF Sound, Numbered, SameCounts
<1>5. Grows(g, e)
  <2>1. Counts(g, e) /\ Forgets(g, e)
    BY DEF Grows, Counts, Forgets, SameCounts
  <2>2. NewOnly(g, e)
    BY DEF Grows, NewOnly
  <2> QED BY <2>1, <2>2 DEF Grows
<1>6. CurrentAxes(e)
  BY DEF CurrentAxes, CurrentAt, SlotsOf
<1> QED BY <1>1, <1>2, <1>3, <1>4, <1>5, <1>6 DEF Sound

\* One series, in the current axes
LEMMA PushedSound ==
  ASSUME NEW g, NEW m, Sound(g), Sound(m), Grows(g, m), CurrentAxes(m),
         CurrentSlot(m) \in DOMAIN m.axes, NEW n \in Positive,
         FirstSeries <= n, g.nextSeries <= n, n < m.nextSeries,
         Undrawn(m, n)
  PROVE  LET e == Pushed(m, n) IN
         /\ Sound(e) /\ Grows(g, e) /\ CurrentAxes(e)
         /\ e.axes = m.axes /\ e.figures = m.figures /\ e.current = m.current
         /\ \E x \in e.series : x.handle = n
<1> DEFINE e == Pushed(m, n)
           new == [slot |-> CurrentSlot(m), handle |-> n]
           S == {new}
<1>1. /\ DOMAIN e = DOMAIN m /\ e.series = m.series \cup S
      /\ e.figures = m.figures /\ e.axes = m.axes /\ e.annotations = m.annotations
      /\ e.current = m.current /\ SameCounts(m, e)
  BY DEF Sound, Typed, Pushed, SameCounts
<1>2. new \in [slot : DOMAIN m.axes, handle : Positive] /\ new.handle = n
  OBVIOUS
<1>3. IsFiniteSet(S)
  BY FS_Singleton
<1> HIDE DEF e, new
<1>4. /\ S \subseteq [slot : DOMAIN m.axes, handle : Positive]
      /\ \A x \in S : /\ FirstSeries <= x.handle /\ g.nextSeries <= x.handle
                      /\ x.handle < m.nextSeries
      /\ \A x \in S : Undrawn(m, x.handle)
      /\ \A x, y \in S : x.handle = y.handle => x = y
  BY <1>2
<1>5. \E x \in e.series : x.handle = n
  BY <1>1, <1>2
<1> HIDE DEF S
<1>6. Sound(e) /\ Grows(g, e) /\ CurrentAxes(e)
  BY <1>1, <1>3, <1>4, SeriesAdded
<1> QED BY <1>1, <1>5, <1>6 DEF e

\* next_series_handle, then the series
LEMMA NextPushedSound ==
  ASSUME NEW g, Sound(g), CurrentAxes(g), CurrentSlot(g) \in DOMAIN g.axes
  PROVE  LET e == NextPushed(g) IN
         /\ Sound(e) /\ Grows(g, e) /\ CurrentAxes(e)
         /\ CurrentSlot(e) \in DOMAIN e.axes
         /\ SeriesNumber(g) \in Nat /\ \E x \in e.series : x.handle = SeriesNumber(g)
<1> DEFINE m == Reserved(g)
           n == SeriesNumber(g)
           e == NextPushed(g)
<1>1. /\ Sound(m) /\ Grows(g, m) /\ CurrentAxes(m)
      /\ SameObjects(g, m) /\ m.figures = g.figures /\ m.current = g.current
      /\ n \in Positive /\ FirstSeries <= n /\ g.nextSeries <= n /\ n < m.nextSeries
      /\ Undrawn(g, n)
  BY ReservedSound
<1>2. e = Pushed(m, n)
  BY DEF NextPushed
<1> HIDE DEF m, n, e
<1>3. CurrentSlot(m) \in DOMAIN m.axes /\ Undrawn(m, n)
  BY <1>1 DEF CurrentSlot, SameObjects, Undrawn
<1>4. /\ Sound(e) /\ Grows(g, e) /\ CurrentAxes(e)
      /\ e.axes = m.axes /\ e.figures = m.figures /\ e.current = m.current
      /\ \E x \in e.series : x.handle = n
  BY <1>1, <1>2, <1>3, PushedSound
<1>5. CurrentSlot(e) \in DOMAIN e.axes /\ n \in Nat
  BY <1>1, <1>3, <1>4 DEF CurrentSlot, Positive
<1> QED BY <1>4, <1>5 DEF e, n

\* The series of some axes go.
LEMMA SeriesClearedSound ==
  ASSUME NEW g, Sound(g), NEW slot
  PROVE  LET e == SeriesCleared(g, slot) IN
         /\ Sound(e) /\ Grows(g, e) /\ (CurrentAxes(g) => CurrentAxes(e))
         /\ DOMAIN e = DOMAIN g /\ e.figures = g.figures /\ e.axes = g.axes
         /\ e.annotations = g.annotations /\ e.current = g.current /\ SameCounts(g, e)
         /\ e.series = {x \in g.series : x.slot # slot}
<1> DEFINE e == SeriesCleared(g, slot)
<1>1. /\ DOMAIN e = DOMAIN g /\ e.figures = g.figures /\ e.axes = g.axes
      /\ e.annotations = g.annotations /\ e.current = g.current /\ SameCounts(g, e)
      /\ e.series = {x \in g.series : x.slot # slot}
  BY DEF Sound, Typed, SeriesCleared, SameCounts
<1> HIDE DEF e
<1>2. Counts(g, e) /\ {e.nextFigure, e.nextAxes, e.nextSeries, e.nextAnnotation} \subseteq Nat
  BY <1>1 DEF Sound, Typed, Counts, SameCounts
<1>3. Forgets(g, e)
  BY <1>1 DEF Forgets
<1>4. Sound(e) /\ Grows(g, e)
  <2>1. /\ \A k \in DOMAIN g.figures : e.figures[k].links = g.figures[k].links
        /\ e.series \subseteq g.series /\ e.annotations \subseteq g.annotations
        /\ e.current \in DOMAIN g.figures \cup {None}
        /\ e.figures \in [DOMAIN e.figures -> FigureRecords]
    BY <1>1 DEF Sound, Typed
  <2> QED BY <1>1, <1>2, <1>3, <2>1, OthersLost
<1>5. CurrentAxes(g) => CurrentAxes(e)
  BY <1>1, CurrentAxesStay
<1> QED BY <1>1, <1>4, <1>5 DEF e

LEMMA ReplacedSound ==
  ASSUME NEW g, Sound(g), CurrentAxes(g), CurrentSlot(g) \in DOMAIN g.axes
  PROVE  LET e == Replaced(g) IN
         /\ Sound(e) /\ Grows(g, e) /\ CurrentAxes(e)
         /\ CurrentSlot(e) \in DOMAIN e.axes /\ e.series \subseteq g.series
         /\ e.nextSeries = g.nextSeries /\ e.annotations = g.annotations
<1> DEFINE e == Replaced(g)
           c == SeriesCleared(g, CurrentSlot(g))
<1>1. e = g \/ e = c
  BY DEF Replaced
<1>2. /\ Sound(c) /\ Grows(g, c) /\ CurrentAxes(c)
      /\ c.figures = g.figures /\ c.axes = g.axes /\ c.current = g.current
      /\ c.nextSeries = g.nextSeries /\ c.series \subseteq g.series
      /\ c.annotations = g.annotations
  BY SeriesClearedSound DEF SameCounts
<1>3. Grows(g, g)
  BY GrowsNot DEF Sound
<1> HIDE DEF c, e
<1>4. CASE e = g
  BY <1>3, <1>4 DEF e
<1>5. CASE e = c
  BY <1>2, <1>5 DEF e, CurrentSlot
<1> QED BY <1>1, <1>4, <1>5

-----------------------------------------------------------------------------
(***************************************************************************)
(* All axes of a figure go, with their series and its links.               *)
(***************************************************************************)
LEMMA AxesLost ==
  ASSUME NEW g, Sound(g), NEW f, NEW e, DOMAIN e = DOMAIN g,
         DOMAIN e.figures \subseteq DOMAIN g.figures,
         e.figures \in [DOMAIN e.figures -> FigureRecords],
         f \in DOMAIN e.figures => e.figures[f].links = {},
         \A k \in DOMAIN e.figures : k # f => e.figures[k] = g.figures[k],
         \A k \in DOMAIN g.figures : k # f => k \in DOMAIN e.figures,
         e.axes = Without(g.axes, SlotsOf(g, f)),
         e.series = {x \in g.series : x.slot[1] # f},
         e.annotations \subseteq g.annotations,
         \A a \in e.annotations : a.figure \in DOMAIN e.figures,
         e.current \in DOMAIN e.figures \cup {None},
         SameCounts(g, e), Forgets(g, e)
  PROVE  /\ Sound(e) /\ Grows(g, e) /\ SlotsOf(e, f) = {}
         /\ \A k \in DOMAIN e.figures : k # f /\ CurrentAt(g, k) => CurrentAt(e, k)
<1>1. /\ \A s : s \in DOMAIN e.axes <=> s \in DOMAIN g.axes /\ s[1] # f
      /\ \A s \in DOMAIN e.axes : e.axes[s] = g.axes[s]
  BY DEF Without, SlotsOf
<1>2. Typed(e)
  <2>1. e.axes \in [DOMAIN e.axes -> AxesRecords]
    BY <1>1 DEF Without, Sound, Typed
  <2>2. DOMAIN e.axes \subseteq (DOMAIN e.figures) \X Positive
    BY <1>1 DEF Sound, Typed
  <2>3. e.series \subseteq [slot : DOMAIN e.axes, handle : Positive]
    BY <1>1 DEF Sound, Typed
  <2>4. e.annotations \subseteq [figure : DOMAIN e.figures, handle : Positive]
    BY DEF Sound, Typed
  <2>5. /\ IsFiniteSet(DOMAIN e.figures) /\ IsFiniteSet(DOMAIN e.axes)
        /\ IsFiniteSet(e.series) /\ IsFiniteSet(e.annotations)
    <3>1. DOMAIN e.axes \subseteq DOMAIN g.axes /\ e.series \subseteq g.series
      BY <1>1
    <3>2. /\ IsFiniteSet(DOMAIN g.figures) /\ IsFiniteSet(DOMAIN g.axes)
          /\ IsFiniteSet(g.series) /\ IsFiniteSet(g.annotations)
      BY DEF Sound, Typed
    <3> QED BY <3>1, <3>2, FS_Subset
  <2>6. /\ DOMAIN e.figures \subseteq Positive
        /\ {e.nextFigure, e.nextAxes, e.nextSeries, e.nextAnnotation} \subseteq Nat
    BY DEF Sound, Typed, SameCounts
  <2> QED BY <2>1, <2>2, <2>3, <2>4, <2>5, <2>6 DEF Sound, Typed
<1>3. Distinct(e)
  BY <1>1 DEF Sound, Distinct
<1>4. Linked(e) /\ Agreed(e)
  <2>1. LinksFrom(g, e)
    <3> SUFFICES ASSUME NEW k \in DOMAIN e.figures, k # f
                 PROVE /\ e.figures[k] = g.figures[k]
                       /\ \A s \in SlotsOf(g, k) :
                            s \in DOMAIN e.axes /\ e.axes[s].handle = g.axes[s].handle
                       /\ \A s \in SlotsOf(e, k) :
                            /\ s \in DOMAIN g.axes
                            /\ e.axes[s].handle = g.axes[s].handle
                            /\ \A d \in Dims : e.axes[s].limits[d] \in {g.axes[s].limits[d], AutoLimit}
      BY DEF LinksFrom
    <3> QED BY <1>1 DEF SlotsOf
  <2>2. Typed(g) /\ Linked(g) /\ Agreed(g)
    BY DEF Sound
  <2> QED BY <2>1, <2>2, LinksStay
<1>5. Numbered(e)
  <2>1. /\ \A k \in DOMAIN e.figures : k < e.nextFigure
        /\ \A s \in DOMAIN e.axes : FirstAxes <= e.axes[s].handle /\ e.axes[s].handle < e.nextAxes
    BY <1>1 DEF Sound, Numbered, SameCounts
  <2>2. /\ \A x \in e.series : FirstSeries <= x.handle /\ x.handle < e.nextSeries
        /\ \A x, y \in e.series : x.handle = y.handle => x = y
    BY DEF Sound, Numbered, SameCounts
  <2>3. /\ \A a \in e.annotations : FirstAnnotation <= a.handle /\ a.handle < e.nextAnnotation
        /\ \A a, b \in e.annotations : a.handle = b.handle => a = b
    BY DEF Sound, Numbered, SameCounts
  <2>4. \A x \in e.series, a \in e.annotations : x.handle # a.handle
    BY DEF Sound, Numbered
  <2> QED BY <2>1, <2>2, <2>3, <2>4 DEF Numbered
<1>6. Grows(g, e)
  <2>1. Counts(g, e)
    BY DEF Sound, Typed, Counts, SameCounts
  <2>2. NewOnly(g, e)
    BY <1>1 DEF NewOnly
  <2> QED BY <2>1, <2>2 DEF Grows
<1>7. SlotsOf(e, f) = {}
  BY <1>1 DEF SlotsOf
<1>8. ASSUME NEW k \in DOMAIN e.figures, k # f, CurrentAt(g, k)
      PROVE  CurrentAt(e, k)
  <2>1. SlotsOf(e, k) = SlotsOf(g, k)
    BY <1>1, <1>8 DEF SlotsOf
  <2> QED BY <1>1, <1>8, <2>1 DEF CurrentAt
<1> QED BY <1>2, <1>3, <1>4, <1>5, <1>6, <1>7, <1>8 DEF Sound

\* A layout has a tile, and tiles are numbered from 1.
LEMMA TilesArePositive ==
  ASSUME NEW l \in Positive \X Positive
  PROVE  Tiles(l) \subseteq Positive
  BY DEF Tiles, Positive

LEMMA LayoutsArePositive == Layouts \subseteq Positive \X Positive
  BY GraphicsAssumption DEF Layouts, Positive

\* subplot and tiledlayout
LEMMA RelaidSound ==
  ASSUME NEW g, Sound(g), CurrentAxes(g), NEW f \in DOMAIN g.figures,
         NEW layout \in Positive \X Positive, NEW index \in Positive
  PROVE  LET e == Relaid(g, f, layout, index) IN
         /\ Sound(e) /\ Grows(g, e)
         /\ DOMAIN e.figures = DOMAIN g.figures /\ e.current = g.current
         /\ \A k \in DOMAIN e.figures : k # f => CurrentAt(e, k)
         /\ index = 1 => CurrentAxes(e)
<1> DEFINE e == Relaid(g, f, layout, index)
<1>1. CASE g.figures[f].layout = layout
  <2>1. e = g
    BY <1>1 DEF Relaid
  <2> QED BY <2>1, GrowsNot DEF Sound, CurrentAxes
<1>2. CASE g.figures[f].layout # layout
  <2>1. e = [AxesCleared(g, f) EXCEPT !.figures[f].layout = layout,
                                      !.figures[f].currentAxes = index,
                                      !.figures[f].links = {}]
    BY <1>2 DEF Relaid
  <2>2. /\ DOMAIN e = DOMAIN g /\ DOMAIN e.figures = DOMAIN g.figures
        /\ e.axes = Without(g.axes, SlotsOf(g, f))
        /\ e.series = {x \in g.series : x.slot[1] # f}
        /\ e.annotations = g.annotations /\ e.current = g.current
        /\ SameCounts(g, e)
    BY <2>1 DEF AxesCleared, Sound, Typed, SameCounts
  <2>3. /\ \A k \in DOMAIN g.figures : k # f => e.figures[k] = g.figures[k]
        /\ e.figures[f] = [g.figures[f] EXCEPT !.layout = layout, !.currentAxes = index,
                                               !.links = {}]
    BY <2>1 DEF AxesCleared, Sound, Typed
  <2>4. /\ e.figures[f] \in FigureRecords /\ e.figures[f].links = {}
        /\ e.figures[f].currentAxes = index
        /\ e.figures[f].currentObject = g.figures[f].currentObject
    <3>1. g.figures[f] \in FigureRecords
      BY DEF Sound, Typed
    <3> QED BY <2>3, <3>1 DEF FigureRecords
  <2>5. e.figures \in [DOMAIN e.figures -> FigureRecords]
    <3>1. e.figures = [k \in DOMAIN e.figures |-> e.figures[k]]
      BY <2>1 DEF AxesCleared, Sound, Typed
    <3>2. \A k \in DOMAIN e.figures : e.figures[k] \in FigureRecords
      BY <2>2, <2>3, <2>4 DEF Sound, Typed
    <3> QED BY <3>1, <3>2
  <2> HIDE DEF e
  <2>6. Forgets(g, e)
    BY <2>2, <2>3, <2>4 DEF Forgets
  <2>7. /\ \A a \in e.annotations : a.figure \in DOMAIN e.figures
        /\ e.current \in DOMAIN e.figures \cup {None}
        /\ DOMAIN e.figures \subseteq DOMAIN g.figures
        /\ e.annotations \subseteq g.annotations
        /\ \A k \in DOMAIN g.figures : k # f => k \in DOMAIN e.figures
        /\ \A k \in DOMAIN e.figures : k # f => e.figures[k] = g.figures[k]
    BY <2>2, <2>3 DEF Sound, Typed
  <2>8. /\ Sound(e) /\ Grows(g, e) /\ SlotsOf(e, f) = {}
        /\ \A k \in DOMAIN e.figures : k # f /\ CurrentAt(g, k) => CurrentAt(e, k)
    BY <2>2, <2>4, <2>5, <2>6, <2>7, AxesLost
  <2>9. index = 1 => CurrentAt(e, f)
    BY <2>4, <2>8 DEF CurrentAt
  <2> QED BY <2>2, <2>8, <2>9 DEF CurrentAxes, e
<1> QED BY <1>1, <1>2

\* clf, when g.current is the figure that is cleared
LEMMA ClearedSound ==
  ASSUME NEW g, Sound(g), CurrentAxes(g), g.current \in DOMAIN g.figures
  PROVE  LET e == [AxesCleared(g, g.current) EXCEPT
                     !.figures[g.current] = NewFigure,
                     !.annotations = {a \in @ : a.figure # g.current}]
         IN  Sound(e) /\ Grows(g, e) /\ CurrentAxes(e)
<1> DEFINE f == g.current
           e == [AxesCleared(g, f) EXCEPT !.figures[f] = NewFigure,
                                          !.annotations = {a \in @ : a.figure # f}]
<1>1. /\ DOMAIN e = DOMAIN g /\ DOMAIN e.figures = DOMAIN g.figures
      /\ e.axes = Without(g.axes, SlotsOf(g, f))
      /\ e.series = {x \in g.series : x.slot[1] # f}
      /\ e.annotations = {a \in g.annotations : a.figure # f} /\ e.current = g.current
      /\ SameCounts(g, e)
  BY DEF AxesCleared, Sound, Typed, SameCounts
<1>2. /\ \A k \in DOMAIN g.figures : k # f => e.figures[k] = g.figures[k]
      /\ e.figures[f] = NewFigure
      /\ e.figures \in [DOMAIN e.figures -> FigureRecords]
  <2>1. NewFigure \in FigureRecords
    BY DEF NewFigure, FigureRecords, Positive, None
  <2> QED BY <2>1 DEF AxesCleared, Sound, Typed
<1> HIDE DEF e, f
<1>3. /\ f \in DOMAIN g.figures /\ e.figures[f].links = {}
      /\ e.figures[f].currentAxes = 1 /\ e.figures[f].currentObject = None
  BY <1>2 DEF NewFigure, f
<1>4. Forgets(g, e)
  BY <1>1, <1>2, <1>3 DEF Forgets
<1>5. /\ \A a \in e.annotations : a.figure \in DOMAIN e.figures
      /\ e.current \in DOMAIN e.figures \cup {None}
      /\ DOMAIN e.figures \subseteq DOMAIN g.figures
      /\ e.annotations \subseteq g.annotations
      /\ \A k \in DOMAIN g.figures : k # f => k \in DOMAIN e.figures
      /\ \A k \in DOMAIN e.figures : k # f => e.figures[k] = g.figures[k]
  BY <1>1, <1>2 DEF Sound, Typed
<1>6. /\ Sound(e) /\ Grows(g, e) /\ SlotsOf(e, f) = {}
      /\ \A k \in DOMAIN e.figures : k # f /\ CurrentAt(g, k) => CurrentAt(e, k)
  BY <1>1, <1>2, <1>3, <1>4, <1>5, AxesLost
<1>7. CurrentAxes(e)
  BY <1>1, <1>3, <1>6 DEF CurrentAxes, CurrentAt
<1> QED BY <1>6, <1>7 DEF e, f

\* close, and delete of a figure
LEMMA DeletedFigureSound ==
  ASSUME NEW g, Sound(g), CurrentAxes(g), NEW h \in DOMAIN g.figures
  PROVE  LET e == DeletedFigure(g, h) IN
         /\ Sound(e) /\ Grows(g, e) /\ CurrentAxes(e)
         /\ DOMAIN e.figures = DOMAIN g.figures \ {h}
<1> DEFINE left == DOMAIN g.figures \ {h}
           e == DeletedFigure(g, h)
<1>1. /\ DOMAIN e = DOMAIN g
      /\ e.figures = Without(g.figures, {h})
      /\ e.axes = Without(g.axes, SlotsOf(g, h))
      /\ e.series = {x \in g.series : x.slot[1] # h}
      /\ e.annotations = {a \in g.annotations : a.figure # h}
      /\ e.current = IF g.current # h THEN g.current
                     ELSE IF left = {} THEN None ELSE Min(left)
      /\ SameCounts(g, e)
  BY DEF DeletedFigure, AxesCleared, Sound, Typed, SameCounts
<1>2. left # {} => Min(left) \in left
  BY MinIsSmallest DEF Sound, Typed, Positive
<1> HIDE DEF e
<1>3. /\ DOMAIN e.figures = left
      /\ \A k \in left : e.figures[k] = g.figures[k]
      /\ e.figures \in [DOMAIN e.figures -> FigureRecords]
  BY <1>1 DEF Without, Sound, Typed
<1>4. e.current \in DOMAIN e.figures \cup {None}
  BY <1>1, <1>2, <1>3 DEF Sound, Typed
<1>5. Forgets(g, e)
  BY <1>3 DEF Forgets
<1>6. /\ \A a \in e.annotations : a.figure \in DOMAIN e.figures
      /\ DOMAIN e.figures \subseteq DOMAIN g.figures
      /\ e.annotations \subseteq g.annotations
      /\ h \notin DOMAIN e.figures
      /\ \A k \in DOMAIN g.figures : k # h => k \in DOMAIN e.figures
      /\ \A k \in DOMAIN e.figures : k # h => e.figures[k] = g.figures[k]
  BY <1>1, <1>3 DEF Sound, Typed
<1>7. /\ Sound(e) /\ Grows(g, e)
      /\ \A k \in DOMAIN e.figures : k # h /\ CurrentAt(g, k) => CurrentAt(e, k)
  BY <1>1, <1>3, <1>4, <1>5, <1>6, AxesLost
<1>8. CurrentAxes(e)
  BY <1>6, <1>7 DEF CurrentAxes
<1> QED BY <1>3, <1>7, <1>8 DEF e

-----------------------------------------------------------------------------
(***************************************************************************)
(* Annotations, and what changes in axes that stay.                        *)
(***************************************************************************)
LEMMA AnnotationAdded ==
  ASSUME NEW g, Sound(g), CurrentAxes(g), g.current \in DOMAIN g.figures
  PROVE  LET h == Fresh(g, g.nextAnnotation, FirstAnnotation)
             e == [g EXCEPT !.nextAnnotation = h + 1,
                            !.annotations = @ \cup {[figure |-> g.current, handle |-> h]}]
         IN  /\ Sound(e) /\ Grows(g, e) /\ CurrentAxes(e)
             /\ h \in Nat /\ \E a \in e.annotations : a.handle = h
<1> DEFINE h == Fresh(g, g.nextAnnotation, FirstAnnotation)
           new == [figure |-> g.current, handle |-> h]
           e == [g EXCEPT !.nextAnnotation = h + 1, !.annotations = @ \cup {new}]
<1>1. /\ h \in Nat /\ h >= g.nextAnnotation /\ h >= FirstAnnotation /\ h \notin Taken(g)
      /\ FirstAnnotation \in Nat /\ 1 < FirstAnnotation /\ g.nextAnnotation \in Nat
  <2>1. FirstAnnotation \in Nat /\ 1 < FirstAnnotation /\ g.nextAnnotation \in Nat /\ Typed(g)
    BY GraphicsAssumption DEF Sound, Typed
  <2> QED BY <2>1, FreshIsFree
<1>2. new \in [figure : DOMAIN g.figures, handle : Positive] /\ new.handle = h
  BY <1>1 DEF Positive
<1>3. /\ DOMAIN e = DOMAIN g /\ e.figures = g.figures /\ e.axes = g.axes
      /\ e.series = g.series /\ e.annotations = g.annotations \cup {new}
      /\ e.current = g.current /\ e.nextFigure = g.nextFigure /\ e.nextAxes = g.nextAxes
      /\ e.nextSeries = g.nextSeries /\ e.nextAnnotation = h + 1
  BY DEF Sound, Typed
<1>4. Undrawn(g, h)
  BY <1>1 DEF Taken, Undrawn
<1> HIDE DEF h, new, e
<1>5. Typed(e)
  <2>1. IsFiniteSet(e.annotations)
    BY <1>3, FS_AddElement DEF Sound, Typed
  <2> QED BY <1>1, <1>2, <1>3, <2>1 DEF Sound, Typed
<1>6. Distinct(e)
  BY <1>3 DEF Sound, Distinct
<1>7. Linked(e) /\ Agreed(e)
  <2>1. Typed(g) /\ Linked(g) /\ Agreed(g)
    BY DEF Sound
  <2> QED BY <1>3, <2>1, LinksSame
<1>8. Numbered(e)
  <2>1. \A a \in e.annotations : FirstAnnotation <= a.handle /\ a.handle < e.nextAnnotation
    <3>1. \A a \in g.annotations : a.handle \in Nat
      BY DEF Sound, Typed, Positive
    <3> QED BY <1>1, <1>2, <1>3, <3>1 DEF Sound, Numbered
  <2>2. \A a, b \in e.annotations : a.handle = b.handle => a = b
    BY <1>2, <1>3, <1>4 DEF Sound, Numbered, Undrawn
  <2>3. \A x \in e.series, a \in e.annotations : x.handle # a.handle
    BY <1>2, <1>3, <1>4 DEF Sound, Numbered, Undrawn
  <2> QED BY <1>3, <2>1, <2>2, <2>3 DEF Sound, Numbered
<1>9. Grows(g, e)
  <2>1. Counts(g, e)
    BY <1>1, <1>3 DEF Counts, Sound, Typed
  <2>2. NewOnly(g, e)
    BY <1>1, <1>2, <1>3 DEF NewOnly
  <2>3. Forgets(g, e)
    BY <1>3 DEF Forgets
  <2> QED BY <2>1, <2>2, <2>3 DEF Grows
<1>10. CurrentAxes(e)
  BY <1>3, CurrentAxesStay
<1>11. \E a \in e.annotations : a.handle = h
  BY <1>2, <1>3
<1> QED BY <1>1, <1>5, <1>6, <1>7, <1>8, <1>9, <1>10, <1>11 DEF Sound, h, e, new

\* Axes that keep their numbers
LEMMA AxesChanged ==
  ASSUME NEW g, Sound(g), NEW e, DOMAIN e = DOMAIN g,
         DOMAIN e.axes = DOMAIN g.axes, e.axes \in [DOMAIN e.axes -> AxesRecords],
         \A s \in DOMAIN g.axes : e.axes[s].handle = g.axes[s].handle,
         e.figures = g.figures, e.series = g.series, e.annotations = g.annotations,
         e.current = g.current, SameCounts(g, e), Agreed(e)
  PROVE  Sound(e) /\ Grows(g, e) /\ (CurrentAxes(g) => CurrentAxes(e))
<1>1. Typed(e)
  BY DEF Sound, Typed, SameCounts
<1>2. Distinct(e)
  BY DEF Sound, Distinct
<1>3. Linked(e)
  <2>1. \A f : AxesHandles(e, f) = AxesHandles(g, f)
    BY DEF AxesHandles, SlotsOf
  <2> QED BY <2>1 DEF Sound, Linked
<1>4. Numbered(e)
  BY DEF Sound, Numbered, SameCounts
<1>5. Grows(g, e)
  BY DEF Sound, Typed, Grows, Counts, NewOnly, Forgets, SameCounts
<1>6. CurrentAxes(g) => CurrentAxes(e)
  BY CurrentAxesStay
<1> QED BY <1>1, <1>2, <1>3, <1>4, <1>5, <1>6 DEF Sound

\* Hold changes no limit; with 'reset' the axes follow their data again.
LEMMA AxesReset ==
  ASSUME NEW g, Sound(g), NEW slot \in DOMAIN g.axes, NEW axes \in AxesRecords,
         axes.handle = g.axes[slot].handle,
         \A d \in Dims : axes.limits[d] \in {g.axes[slot].limits[d], AutoLimit}
  PROVE  LET e == [g EXCEPT !.axes[slot] = axes] IN
         Sound(e) /\ Grows(g, e) /\ (CurrentAxes(g) => CurrentAxes(e))
<1> DEFINE e == [g EXCEPT !.axes[slot] = axes]
<1>1. /\ DOMAIN e = DOMAIN g /\ DOMAIN e.axes = DOMAIN g.axes
      /\ e.figures = g.figures /\ e.series = g.series /\ e.annotations = g.annotations
      /\ e.current = g.current /\ SameCounts(g, e)
  BY DEF Sound, Typed, SameCounts
<1>2. /\ e.axes[slot] = axes
      /\ \A s \in DOMAIN g.axes : s # slot => e.axes[s] = g.axes[s]
      /\ e.axes \in [DOMAIN e.axes -> AxesRecords]
  BY DEF Sound, Typed
<1> HIDE DEF e
<1>3. \A s \in DOMAIN g.axes : e.axes[s].handle = g.axes[s].handle
  BY <1>2
<1>4. Agreed(e)
  <2>1. LinksFrom(g, e)
    BY <1>1, <1>2, <1>3 DEF LinksFrom, SlotsOf
  <2> QED BY <2>1, LinksStay DEF Sound
<1> QED BY <1>1, <1>2, <1>3, <1>4, AxesChanged DEF e

\* Axes made current, with the object that is current then
LEMMA ChosenLeads ==
  ASSUME NEW b, NEW g, Sound(b), Sound(g), Grows(b, g),
         NEW f \in DOMAIN g.figures, NEW i \in Positive,
         \A k \in DOMAIN g.figures : k # f => CurrentAt(g, k)
  PROVE  LET e == WithSlot([g EXCEPT !.figures[f].currentAxes = i], <<f, i>>)
         IN  Leads(b, WithObject(e, e.axes[<<f, i>>].handle))
<1> DEFINE e == WithSlot([g EXCEPT !.figures[f].currentAxes = i], <<f, i>>)
           h == e.axes[<<f, i>>].handle
<1>1. Sound(e) /\ Grows(g, e) /\ CurrentAxes(e) /\ <<f, i>> \in DOMAIN e.axes
  BY ChosenSlotSound
<1> HIDE DEF e
<1>2. Grows(b, e)
  BY <1>1, GrowsOn DEF Sound
<1>3. h \in Nat /\ \E s \in DOMAIN e.axes : e.axes[s].handle = h
  BY <1>1 DEF Sound, Typed, AxesRecords, Positive
<1> HIDE DEF h
<1>4. Leads(b, WithObject(e, h))
  BY <1>1, <1>2, <1>3, WithObjectLeads
<1> QED BY <1>4 DEF e, h

-----------------------------------------------------------------------------
(***************************************************************************)
(* The builtins.                                                           *)
(***************************************************************************)
Ready == Sound(graphics) /\ CurrentAxes(graphics)

LEMMA FigureLeads ==
  ASSUME Ready, Figure
  PROVE  Leads(graphics, graphics')
<1> DEFINE e == NewCurrentFigure(graphics)
<1>1. graphics' = e
  BY DEF Figure, Becomes
<1>2. Sound(e) /\ Grows(graphics, e) /\ CurrentAxes(e)
  BY NewCurrentFigureSound DEF Ready
<1> HIDE DEF e
<1>3. Leads(graphics, e)
  BY <1>2, GrowsLeads DEF Ready
<1> QED BY <1>1, <1>3

LEMMA FigureNumberLeads ==
  ASSUME Ready, NEW h \in Requests, FigureNumber(h)
  PROVE  Leads(graphics, graphics')
<1> DEFINE g == graphics
           e == [graphics EXCEPT
                   !.figures = IF h \in DOMAIN @ THEN @ ELSE With(@, h, NewFigure),
                   !.nextFigure = IF h >= @ THEN h + 1 ELSE @,
                   !.current = h]
<1>1. graphics' = e /\ Kind(g, h) \in {"none", "figure"}
  BY DEF FigureNumber, Becomes
<1>2. h \in Positive /\ g.nextFigure \in Nat
  BY GraphicsAssumption DEF Positive, Ready, Sound, Typed
<1>3. /\ DOMAIN e = DOMAIN g /\ e.current = h /\ SameObjects(g, e)
      /\ e.figures = (IF h \in DOMAIN g.figures THEN g.figures
                      ELSE With(g.figures, h, NewFigure))
      /\ e.nextFigure = (IF h >= g.nextFigure THEN h + 1 ELSE g.nextFigure)
      /\ e.nextAxes = g.nextAxes /\ e.nextSeries = g.nextSeries
      /\ e.nextAnnotation = g.nextAnnotation
  BY DEF Ready, Sound, Typed, SameObjects
<1>4. Sound(g) /\ CurrentAxes(g)
  BY DEF Ready
<1> HIDE DEF g, e
<1>5. CASE h \in DOMAIN g.figures
  <2>1. h < g.nextFigure
    BY <1>4, <1>5 DEF Sound, Numbered
  <2>2. e.figures = g.figures /\ e.nextFigure = g.nextFigure
    BY <1>2, <1>3, <1>5, <2>1 DEF Positive
  <2>3. Counts(g, e) /\ Forgets(g, e)
        /\ {e.nextFigure, e.nextAxes, e.nextSeries, e.nextAnnotation} \subseteq Nat
    BY <1>3, <1>4, <2>2 DEF Sound, Typed, Counts, Forgets
  <2>4. /\ \A k \in DOMAIN g.figures : e.figures[k].links = g.figures[k].links
        /\ e.axes = g.axes /\ e.series \subseteq g.series /\ e.annotations \subseteq g.annotations
        /\ e.current \in DOMAIN g.figures \cup {None}
        /\ e.figures \in [DOMAIN e.figures -> FigureRecords]
    BY <1>3, <1>4, <1>5, <2>2 DEF SameObjects, Sound, Typed
  <2>5. Sound(e) /\ Grows(g, e)
    BY <1>3, <1>4, <2>2, <2>3, <2>4, OthersLost
  <2>6. CurrentAxes(e)
    BY <1>4, <2>2, <2>4, CurrentAxesStay
  <2> QED BY <1>1, <1>4, <2>5, <2>6, GrowsLeads DEF g
<1>6. CASE h \notin DOMAIN g.figures
  <2>1. h \notin Taken(g)
    <3>1. Kind(g, h) # "figure"
      BY <1>6, KindFound
    <3> QED BY <1>1, <3>1, NoneIsFree DEF g
  <2>2. e.figures = With(g.figures, h, NewFigure)
    BY <1>3, <1>6
  <2>3. e.nextFigure \in Nat /\ h < e.nextFigure /\ g.nextFigure <= e.nextFigure
    BY <1>2, <1>3 DEF Positive
  <2>4. Sound(e) /\ Grows(g, e) /\ CurrentAxes(e)
    BY <1>2, <1>3, <1>4, <2>1, <2>2, <2>3, FigureAdded
  <2> QED BY <1>1, <1>4, <2>4, GrowsLeads DEF g
<1> QED BY <1>5, <1>6

LEMMA ClfLeads ==
  ASSUME Ready, Clf
  PROVE  Leads(graphics, graphics')
<1>1. PICK g \in {WithFigure(graphics)} \cup
                 {[graphics EXCEPT !.current = f] : f \in DOMAIN graphics.figures} :
        Becomes([AxesCleared(g, g.current) EXCEPT
                   !.figures[g.current] = NewFigure,
                   !.annotations = {a \in @ : a.figure # g.current}])
  BY DEF Clf
<1>2. /\ Sound(g) /\ Grows(graphics, g) /\ CurrentAxes(g)
      /\ g.current \in DOMAIN g.figures
  <2>1. CASE g = WithFigure(graphics)
    BY <2>1, WithFigureSound DEF Ready
  <2>2. ASSUME NEW f \in DOMAIN graphics.figures, g = [graphics EXCEPT !.current = f]
        PROVE  /\ Sound(g) /\ Grows(graphics, g) /\ CurrentAxes(g)
               /\ g.current \in DOMAIN g.figures
    BY <2>2, CurrentChosen DEF Ready
  <2> QED BY <2>1, <2>2
<1> DEFINE e == [AxesCleared(g, g.current) EXCEPT
                   !.figures[g.current] = NewFigure,
                   !.annotations = {a \in @ : a.figure # g.current}]
<1>3. Sound(e) /\ Grows(g, e) /\ CurrentAxes(e)
  BY <1>2, ClearedSound
<1>4. graphics' = e
  BY <1>1 DEF Becomes
<1> HIDE DEF e
<1>5. Grows(graphics, e)
  BY <1>2, <1>3, GrowsOn DEF Ready, Sound
<1>6. Leads(graphics, e)
  BY <1>3, <1>5, GrowsLeads DEF Ready
<1> QED BY <1>4, <1>6

LEMMA GcaLeads ==
  ASSUME Ready, Gca
  PROVE  Leads(graphics, graphics')
<1> DEFINE e == WithAxes(graphics)
<1>1. graphics' = e
  BY DEF Gca, Becomes
<1>2. Sound(e) /\ Grows(graphics, e) /\ CurrentAxes(e)
  BY WithAxesSound DEF Ready
<1> HIDE DEF e
<1>3. Leads(graphics, e)
  BY <1>2, GrowsLeads DEF Ready
<1> QED BY <1>1, <1>3

\* The index after the largest
LEMMA NextIndexIsPositive ==
  ASSUME NEW g, Sound(g), NEW f
  PROVE  LET i == Max(IndicesOf(g, f) \cup {0}) + 1
         IN  /\ i \in Positive /\ <<f, i>> \notin DOMAIN g.axes
             /\ SlotsOf(g, f) = {} => i = 1
<1> DEFINE S == IndicesOf(g, f) \cup {0}
<1>1. S \in SUBSET Nat /\ S # {}
  BY DEF IndicesOf, SlotsOf, Sound, Typed, Positive
<1>2. IsFiniteSet(S)
  <2>1. IsFiniteSet(DOMAIN g.axes)
    BY DEF Sound, Typed
  <2>2. IsFiniteSet(SlotsOf(g, f))
    BY <2>1, FS_Subset DEF SlotsOf
  <2> DEFINE m == [s \in SlotsOf(g, f) |-> s[2]]
  <2>3. DOMAIN m = SlotsOf(g, f) /\ IndicesOf(g, f) = {m[s] : s \in SlotsOf(g, f)}
    BY DEF IndicesOf
  <2>4. IsFiniteSet({m[s] : s \in SlotsOf(g, f)})
    <3> HIDE DEF m
    <3> QED BY <2>2, <2>3, ImageIsSmall
  <2> QED BY <2>3, <2>4, FS_AddElement
<1> HIDE DEF S
<1>3. Max(S) \in S /\ \A k \in S : Max(S) >= k
  BY <1>1, <1>2, MaxIsLargest
<1>4. Max(S) \in Nat /\ Max(S) + 1 \in Positive /\ Max(S) + 1 \notin S
  <2>1. \A n \in S : (\A k \in S : n >= k) => n \in Nat /\ n + 1 # 0 /\ n + 1 \notin S
    BY <1>1
  <2>2. Max(S) \in Nat /\ Max(S) + 1 # 0 /\ Max(S) + 1 \notin S
    BY <1>3, <2>1
  <2> QED BY <2>2 DEF Positive
<1>5. <<f, Max(S) + 1>> \notin DOMAIN g.axes
  <2> SUFFICES ASSUME <<f, Max(S) + 1>> \in DOMAIN g.axes PROVE FALSE
    OBVIOUS
  <2>1. <<f, Max(S) + 1>> \in SlotsOf(g, f)
    BY DEF SlotsOf
  <2>2. Max(S) + 1 \in IndicesOf(g, f)
    BY <2>1 DEF IndicesOf
  <2> QED BY <1>4, <2>2 DEF S
<1>6. SlotsOf(g, f) = {} => Max(S) + 1 = 1
  <2>1. SlotsOf(g, f) = {} => S = {0}
    BY DEF S, IndicesOf
  <2> QED BY <1>3, <2>1
<1> QED BY <1>4, <1>5, <1>6 DEF S

LEMMA NewFreeAxesLeads ==
  ASSUME Ready, NewFreeAxes
  PROVE  Leads(graphics, graphics')
<1> DEFINE g == WithFigure(graphics)
           i == Max(IndicesOf(g, g.current) \cup {0}) + 1
           e == WithSlot([g EXCEPT !.figures[g.current].currentAxes = i], <<g.current, i>>)
<1>1. /\ Sound(g) /\ Grows(graphics, g) /\ CurrentAxes(g) /\ g.current \in DOMAIN g.figures
  BY WithFigureSound DEF Ready
<1>2. graphics' = WithObject(e, e.axes[<<g.current, i>>].handle)
  BY DEF NewFreeAxes, Becomes
<1> HIDE DEF g
<1>3. i \in Positive
  BY <1>1, NextIndexIsPositive
<1> HIDE DEF i
<1>4. \A k \in DOMAIN g.figures : k # g.current => CurrentAt(g, k)
  BY <1>1 DEF CurrentAxes
<1>5. Leads(graphics, WithObject(e, e.axes[<<g.current, i>>].handle))
  BY <1>1, <1>3, <1>4, ChosenLeads DEF Ready
<1> QED BY <1>2, <1>5


\* axes_location_by_handle
LEMMA SlotFound ==
  ASSUME NEW h \in Axes
  PROVE  /\ SlotOf(graphics, h) \in DOMAIN graphics.axes
         /\ graphics.axes[SlotOf(graphics, h)].handle = h
BY DEF Axes, SlotOf

LEMMA SelectAxesLeads ==
  ASSUME Ready, NEW h \in Axes, SelectAxes(h)
  PROVE  Leads(graphics, graphics')
<1> DEFINE g == graphics
           slot == SlotOf(g, h)
           f == slot[1]
           e == [g EXCEPT !.current = f, !.figures[f].currentAxes = slot[2]]
<1>1. slot \in DOMAIN g.axes /\ g.axes[slot].handle = h
  BY SlotFound
<1>2. graphics' = WithObject(e, h)
  BY DEF SelectAxes, Becomes
<1>3. Sound(g) /\ CurrentAxes(g)
  BY DEF Ready
<1> HIDE DEF g, slot
<1>4. f \in DOMAIN g.figures /\ slot[2] \in Positive /\ slot = <<f, slot[2]>> /\ h \in Nat
  BY <1>1, <1>3 DEF Sound, Typed, AxesRecords, Positive
<1> HIDE DEF f
<1>5. /\ DOMAIN e = DOMAIN g /\ DOMAIN e.figures = DOMAIN g.figures
      /\ e.figures \in [DOMAIN e.figures -> FigureRecords]
      /\ SameObjects(g, e) /\ SameCounts(g, e) /\ e.current = f
  <2>1. /\ DOMAIN e = DOMAIN g /\ DOMAIN e.figures = DOMAIN g.figures
        /\ SameObjects(g, e) /\ SameCounts(g, e) /\ e.current = f
        /\ e.figures = [g.figures EXCEPT ![f].currentAxes = slot[2]]
    <3>1. DOMAIN g = {"figures", "axes", "series", "annotations", "current",
                      "nextFigure", "nextAxes", "nextSeries", "nextAnnotation"}
      BY <1>3 DEF Sound, Typed
    <3>2. e.figures = [g.figures EXCEPT ![f].currentAxes = slot[2]]
      BY <3>1
    <3>3. DOMAIN e = DOMAIN g /\ e.current = f
      BY <3>1
    <3>4. SameObjects(g, e) /\ SameCounts(g, e)
      BY <3>1 DEF SameObjects, SameCounts
    <3> HIDE DEF e
    <3> QED BY <3>2, <3>3, <3>4
  <2> HIDE DEF e
  <2>2. g.figures \in [DOMAIN g.figures -> FigureRecords]
    BY <1>3 DEF Sound, Typed
  <2>3. \A k \in DOMAIN g.figures :
          [g.figures[k] EXCEPT !.currentAxes = slot[2]] \in FigureRecords
    BY <1>4, <2>2, RecordKept
  <2>4. e.figures \in [DOMAIN e.figures -> FigureRecords]
    <3> DEFINE chosen == [g.figures[f] EXCEPT !.currentAxes = slot[2]]
               figures == g.figures
    <3>1. chosen \in FigureRecords /\ figures \in [DOMAIN figures -> FigureRecords]
      BY <1>4, <2>2, <2>3
    <3>2. e.figures = [figures EXCEPT ![f] = chosen]
      BY <2>1
    <3> HIDE DEF chosen, figures
    <3>3. e.figures \in [DOMAIN figures -> FigureRecords]
      BY <3>1, <3>2
    <3>4. DOMAIN e.figures = DOMAIN figures
      BY <3>1, <3>2
    <3> QED BY <3>3, <3>4
  <2> QED BY <2>1, <2>4
<1>6. /\ e.figures[f].currentAxes = slot[2]
      /\ \A k \in DOMAIN g.figures :
           /\ e.figures[k].links = g.figures[k].links
           /\ e.figures[k].currentObject = g.figures[k].currentObject
           /\ k # f => e.figures[k] = g.figures[k]
  BY <1>3, <1>4 DEF Sound, Typed, FigureRecords
<1> HIDE DEF e
<1>7. Counts(g, e) /\ {e.nextFigure, e.nextAxes, e.nextSeries, e.nextAnnotation} \subseteq Nat
  BY <1>3, <1>5 DEF Sound, Typed, Counts, SameCounts
<1>8. Forgets(g, e)
  BY <1>5, <1>6 DEF Forgets
<1>9. Sound(e) /\ Grows(g, e)
  <2>1. /\ e.axes = g.axes /\ e.series \subseteq g.series /\ e.annotations \subseteq g.annotations
        /\ e.current \in DOMAIN g.figures \cup {None}
        /\ \A k \in DOMAIN g.figures : e.figures[k].links = g.figures[k].links
    BY <1>4, <1>5, <1>6 DEF SameObjects
  <2> QED BY <1>3, <1>5, <1>7, <1>8, <2>1, OthersLost
<1>10. CurrentAxes(e)
  <2> SUFFICES ASSUME NEW k \in DOMAIN e.figures PROVE CurrentAt(e, k)
    BY DEF CurrentAxes
  <2>1. CASE k = f
    BY <1>1, <1>4, <1>5, <1>6, <2>1 DEF CurrentAt, SameObjects
  <2>2. CASE k # f
    BY <1>3, <1>5, <1>6, <2>2 DEF CurrentAxes, CurrentAt, SlotsOf, SameObjects
  <2> QED BY <2>1, <2>2
<1>11. \E s \in DOMAIN e.axes : e.axes[s].handle = h
  BY <1>1, <1>5 DEF SameObjects
<1>12. Leads(g, WithObject(e, h))
  BY <1>3, <1>4, <1>9, <1>10, <1>11, WithObjectLeads
<1> QED BY <1>2, <1>12 DEF g

LEMMA SubplotLeads ==
  ASSUME Ready, NEW layout \in Layouts, NEW index \in Tiles(layout),
         Subplot(layout, index)
  PROVE  Leads(graphics, graphics')
<1> DEFINE g == WithFigure(graphics)
           f == g.current
           m == Relaid(g, f, layout, index)
           e == WithSlot([m EXCEPT !.figures[f].currentAxes = index], <<f, index>>)
<1>1. /\ Sound(g) /\ Grows(graphics, g) /\ CurrentAxes(g) /\ f \in DOMAIN g.figures
  BY WithFigureSound DEF Ready
<1>2. graphics' = WithObject(e, e.axes[<<f, index>>].handle)
  BY DEF Subplot, Becomes
<1>3. layout \in Positive \X Positive /\ index \in Positive
  BY LayoutsArePositive, TilesArePositive
<1> HIDE DEF g, f
<1>4. /\ Sound(m) /\ Grows(g, m) /\ DOMAIN m.figures = DOMAIN g.figures
      /\ \A k \in DOMAIN m.figures : k # f => CurrentAt(m, k)
  BY <1>1, <1>3, RelaidSound
<1> HIDE DEF m
<1>5. Grows(graphics, m)
  BY <1>1, <1>4, GrowsOn DEF Ready, Sound
<1>6. f \in DOMAIN m.figures
  BY <1>1, <1>4
<1>7. Leads(graphics, WithObject(e, e.axes[<<f, index>>].handle))
  BY <1>3, <1>4, <1>5, <1>6, ChosenLeads DEF Ready
<1> QED BY <1>2, <1>7

LEMMA TiledLayoutLeads ==
  ASSUME Ready, NEW layout \in Layouts, TiledLayout(layout)
  PROVE  Leads(graphics, graphics')
<1> DEFINE g == WithFigure(graphics)
           e == Relaid(g, g.current, layout, 1)
<1>1. /\ Sound(g) /\ Grows(graphics, g) /\ CurrentAxes(g) /\ g.current \in DOMAIN g.figures
  BY WithFigureSound DEF Ready
<1>2. graphics' = e
  BY DEF TiledLayout, Becomes
<1>3. layout \in Positive \X Positive /\ 1 \in Positive
  BY LayoutsArePositive DEF Positive
<1> HIDE DEF g
<1>4. Sound(e) /\ Grows(g, e) /\ CurrentAxes(e)
  BY <1>1, <1>3, RelaidSound
<1> HIDE DEF e
<1>5. Grows(graphics, e)
  BY <1>1, <1>4, GrowsOn DEF Ready, Sound
<1> QED BY <1>2, <1>4, <1>5, GrowsLeads DEF Ready

LEMMA NextTileLeads ==
  ASSUME Ready, NextTile
  PROVE  Leads(graphics, graphics')
<1> DEFINE g == WithFigure(graphics)
           f == g.current
           At(index) == WithSlot([g EXCEPT !.figures[f].currentAxes = index], <<f, index>>)
<1>1. /\ Sound(g) /\ Grows(graphics, g) /\ CurrentAxes(g) /\ f \in DOMAIN g.figures
  BY WithFigureSound DEF Ready
<1>2. PICK i \in {NextTileIndex(g, f)} \cup Tiles(g.figures[f].layout) :
        graphics' = WithObject(At(i), At(i).axes[<<f, i>>].handle)
  BY DEF NextTile, Becomes
<1> HIDE DEF g, f
<1>3. Tiles(g.figures[f].layout) \subseteq Positive /\ g.figures[f].currentAxes \in Positive
  <2>1. /\ g.figures[f].layout \in Positive \X Positive
        /\ g.figures[f].currentAxes \in Positive
    BY <1>1 DEF Sound, Typed, FigureRecords
  <2> QED BY <2>1, TilesArePositive
<1>4. NextTileIndex(g, f) \in Positive
  <2> DEFINE tiles == Tiles(g.figures[f].layout)
             free == tiles \ IndicesOf(g, f)
  <2>1. CASE free = {}
    <3>1. tiles \subseteq IndicesOf(g, f)
      BY <2>1
    <3>2. NextTileIndex(g, f) =
            IF g.figures[f].currentAxes + 1 \in tiles
            THEN g.figures[f].currentAxes + 1 ELSE 1
      BY <3>1 DEF NextTileIndex
    <3> QED BY <1>3, <3>2 DEF Positive
  <2>2. CASE free # {}
    <3>1. free \in SUBSET Nat
      BY <1>3 DEF Positive
    <3>2. Min(free) \in free
      <4> HIDE DEF free
      <4> QED BY <2>2, <3>1, MinIsSmallest
    <3>3. NextTileIndex(g, f) = Min(free)
      BY <2>2 DEF NextTileIndex
    <3> QED BY <1>3, <3>2, <3>3 DEF Positive
  <2> QED BY <2>1, <2>2
<1>5. i \in Positive
  BY <1>2, <1>3, <1>4 DEF Positive
<1>6. \A k \in DOMAIN g.figures : k # f => CurrentAt(g, k)
  BY <1>1 DEF CurrentAxes
<1>7. Leads(graphics, WithObject(At(i), At(i).axes[<<f, i>>].handle))
  BY <1>1, <1>5, <1>6, ChosenLeads DEF Ready
<1> QED BY <1>2, <1>7

LEMMA PlotLeads ==
  ASSUME Ready, Plot
  PROVE  Leads(graphics, graphics')
<1> DEFINE a == WithAxes(graphics)
           g == Replaced(a)
           one == NextPushed(g)
           two == NextPushed(one)
<1>1. \/ graphics' = WithObject(one, SeriesNumber(g))
      \/ graphics' = WithObject(two, SeriesNumber(one))
      \/ graphics' = g
      \/ graphics' = one
  BY DEF Plot, Becomes
<1>2. /\ Sound(a) /\ Grows(graphics, a) /\ CurrentAxes(a) /\ CurrentSlot(a) \in DOMAIN a.axes
  BY WithAxesSound DEF Ready
<1> HIDE DEF a
<1>3. Sound(g) /\ Grows(a, g) /\ CurrentAxes(g) /\ CurrentSlot(g) \in DOMAIN g.axes
  BY <1>2, ReplacedSound
<1> HIDE DEF g
<1>4. /\ Sound(one) /\ Grows(g, one) /\ CurrentAxes(one)
      /\ CurrentSlot(one) \in DOMAIN one.axes
      /\ SeriesNumber(g) \in Nat /\ \E x \in one.series : x.handle = SeriesNumber(g)
  BY <1>3, NextPushedSound
<1> HIDE DEF one
<1>5. /\ Sound(two) /\ Grows(one, two) /\ CurrentAxes(two)
      /\ SeriesNumber(one) \in Nat /\ \E x \in two.series : x.handle = SeriesNumber(one)
  BY <1>4, NextPushedSound
<1> HIDE DEF two
<1>6. Sound(graphics)
  BY DEF Ready
<1>7. Grows(graphics, g)
  BY <1>2, <1>3, <1>6, GrowsOn DEF Sound
<1>8. Grows(graphics, one)
  BY <1>3, <1>4, <1>6, <1>7, GrowsOn DEF Sound
<1>9. Grows(graphics, two)
  BY <1>4, <1>5, <1>6, <1>8, GrowsOn DEF Sound
<1>10. Leads(graphics, g) /\ Leads(graphics, one)
  BY <1>3, <1>4, <1>6, <1>7, <1>8, GrowsLeads
<1>11. Leads(graphics, WithObject(one, SeriesNumber(g)))
  BY <1>4, <1>6, <1>8, WithObjectLeads
<1>12. Leads(graphics, WithObject(two, SeriesNumber(one)))
  BY <1>5, <1>6, <1>9, WithObjectLeads
<1> QED BY <1>1, <1>10, <1>11, <1>12


LEMMA QuiverLeads ==
  ASSUME Ready, Quiver
  PROVE  Leads(graphics, graphics')
<1> DEFINE r == Reserved(graphics)
           n == SeriesNumber(graphics)
           a == WithAxes(r)
           m == Replaced(a)
           e == Pushed(m, n)
<1>1. graphics' = WithObject(e, n)
  BY DEF Quiver, Becomes
<1>2. /\ Sound(r) /\ Grows(graphics, r) /\ CurrentAxes(r) /\ r.series = graphics.series
      /\ r.annotations = graphics.annotations
      /\ n \in Positive /\ FirstSeries <= n /\ graphics.nextSeries <= n /\ n < r.nextSeries
      /\ Undrawn(graphics, n)
  BY ReservedSound DEF Ready, SameObjects
<1> HIDE DEF r, n
<1>3. /\ Sound(a) /\ Grows(r, a) /\ CurrentAxes(a) /\ CurrentSlot(a) \in DOMAIN a.axes
      /\ a.series = r.series /\ a.nextSeries = r.nextSeries /\ a.annotations = r.annotations
  BY <1>2, WithAxesSound
<1> HIDE DEF a
<1>4. /\ Sound(m) /\ Grows(a, m) /\ CurrentAxes(m) /\ CurrentSlot(m) \in DOMAIN m.axes
      /\ m.series \subseteq a.series /\ m.nextSeries = a.nextSeries
      /\ m.annotations = a.annotations
  BY <1>3, ReplacedSound
<1> HIDE DEF m
<1>5. Grows(graphics, a)
  BY <1>2, <1>3, GrowsOn DEF Ready, Sound
<1>6. Grows(graphics, m)
  BY <1>3, <1>4, <1>5, GrowsOn DEF Ready, Sound
<1>7. /\ n < m.nextSeries /\ Undrawn(m, n)
      /\ Sound(graphics) /\ n \in Nat
  BY <1>2, <1>3, <1>4 DEF Ready, Positive, Undrawn
<1>8. Sound(e) /\ Grows(graphics, e) /\ CurrentAxes(e) /\ \E x \in e.series : x.handle = n
  BY <1>2, <1>4, <1>6, <1>7, PushedSound
<1> HIDE DEF e
<1>9. Leads(graphics, WithObject(e, n))
  BY <1>7, <1>8, WithObjectLeads
<1> QED BY <1>1, <1>9

LEMMA LineLeads ==
  ASSUME Ready, Line
  PROVE  Leads(graphics, graphics')
<1> DEFINE r == Reserved(graphics)
           n == SeriesNumber(graphics)
           a == WithAxes(r)
           e == Pushed(a, n)
<1>1. graphics' = e
  BY DEF Line, Becomes
<1>2. /\ Sound(r) /\ Grows(graphics, r) /\ CurrentAxes(r) /\ r.series = graphics.series
      /\ r.annotations = graphics.annotations
      /\ n \in Positive /\ FirstSeries <= n /\ graphics.nextSeries <= n /\ n < r.nextSeries
      /\ Undrawn(graphics, n)
  BY ReservedSound DEF Ready, SameObjects
<1> HIDE DEF r, n
<1>3. /\ Sound(a) /\ Grows(r, a) /\ CurrentAxes(a) /\ CurrentSlot(a) \in DOMAIN a.axes
      /\ a.series = r.series /\ a.nextSeries = r.nextSeries /\ a.annotations = r.annotations
  BY <1>2, WithAxesSound
<1> HIDE DEF a
<1>4. Grows(graphics, a)
  BY <1>2, <1>3, GrowsOn DEF Ready, Sound
<1>5. n < a.nextSeries /\ Undrawn(a, n) /\ Sound(graphics)
  BY <1>2, <1>3 DEF Ready, Undrawn
<1>6. Sound(e) /\ Grows(graphics, e) /\ CurrentAxes(e)
  BY <1>2, <1>3, <1>4, <1>5, PushedSound
<1> HIDE DEF e
<1>7. Leads(graphics, e)
  BY <1>5, <1>6, GrowsLeads
<1> QED BY <1>1, <1>7

LEMMA AnnotationLeads ==
  ASSUME Ready, Annotation
  PROVE  Leads(graphics, graphics')
<1> DEFINE g == WithFigure(graphics)
           h == Fresh(g, g.nextAnnotation, FirstAnnotation)
           e == [g EXCEPT !.nextAnnotation = h + 1,
                          !.annotations = @ \cup {[figure |-> g.current, handle |-> h]}]
<1>1. graphics' = WithObject(e, h)
  BY DEF Annotation, Becomes
<1>2. /\ Sound(g) /\ Grows(graphics, g) /\ CurrentAxes(g) /\ g.current \in DOMAIN g.figures
  BY WithFigureSound DEF Ready
<1> HIDE DEF g
<1>3. /\ Sound(e) /\ Grows(g, e) /\ CurrentAxes(e)
      /\ h \in Nat /\ \E a \in e.annotations : a.handle = h
  BY <1>2, AnnotationAdded
<1> HIDE DEF h, e
<1>4. Grows(graphics, e)
  BY <1>2, <1>3, GrowsOn DEF Ready, Sound
<1>5. Leads(graphics, WithObject(e, h))
  BY <1>3, <1>4, WithObjectLeads DEF Ready
<1> QED BY <1>1, <1>5

LEMMA HoldLeads ==
  ASSUME Ready, Hold
  PROVE  Leads(graphics, graphics')
<1>1. ASSUME NEW g, Sound(g), CurrentAxes(g), Grows(graphics, g),
             NEW slot \in DOMAIN g.axes, NEW on \in BOOLEAN,
             graphics' = [g EXCEPT !.axes[slot].hold = on]
      PROVE  Leads(graphics, graphics')
  <2> DEFINE axes == [g.axes[slot] EXCEPT !.hold = on]
             e == [g EXCEPT !.axes[slot] = axes]
  <2>1. graphics' = e
    BY <1>1 DEF Sound, Typed
  <2>2. /\ axes \in AxesRecords /\ axes.handle = g.axes[slot].handle
        /\ \A d \in Dims : axes.limits[d] \in {g.axes[slot].limits[d], AutoLimit}
    <3>1. g.axes[slot] \in AxesRecords
      BY <1>1 DEF Sound, Typed
    <3> QED BY <3>1 DEF AxesRecords
  <2> HIDE DEF axes
  <2>3. Sound(e) /\ Grows(g, e) /\ CurrentAxes(e)
    BY <1>1, <2>2, AxesReset
  <2> HIDE DEF e
  <2>4. Grows(graphics, e)
    BY <1>1, <2>3, GrowsOn DEF Ready, Sound
  <2>5. Leads(graphics, e)
    BY <2>3, <2>4, GrowsLeads DEF Ready
  <2> QED BY <2>1, <2>5
<1>2. /\ Sound(WithAxes(graphics)) /\ CurrentAxes(WithAxes(graphics))
      /\ Grows(graphics, WithAxes(graphics))
      /\ CurrentSlot(WithAxes(graphics)) \in DOMAIN WithAxes(graphics).axes
  BY WithAxesSound DEF Ready
<1>3. /\ Sound(graphics) /\ CurrentAxes(graphics) /\ Grows(graphics, graphics)
  BY GrowsNot DEF Ready, Sound
<1>4. \/ \E on \in BOOLEAN : graphics' =
           [WithAxes(graphics) EXCEPT !.axes[CurrentSlot(WithAxes(graphics))].hold = on]
      \/ \E h \in Axes, on \in BOOLEAN :
           graphics' = [graphics EXCEPT !.axes[SlotOf(graphics, h)].hold = on]
  BY DEF Hold, Becomes
<1>5. \A h \in Axes : SlotOf(graphics, h) \in DOMAIN graphics.axes
  BY SlotFound
<1>6. CASE \E on \in BOOLEAN : graphics' =
           [WithAxes(graphics) EXCEPT !.axes[CurrentSlot(WithAxes(graphics))].hold = on]
  <2> DEFINE g == WithAxes(graphics)
             slot == CurrentSlot(g)
  <2>1. Sound(g) /\ CurrentAxes(g) /\ Grows(graphics, g) /\ slot \in DOMAIN g.axes
    BY <1>2
  <2>2. PICK on \in BOOLEAN : graphics' = [g EXCEPT !.axes[slot].hold = on]
    BY <1>6
  <2> HIDE DEF g, slot
  <2> QED BY <1>1, <2>1, <2>2
<1>7. CASE \E h \in Axes, on \in BOOLEAN :
           graphics' = [graphics EXCEPT !.axes[SlotOf(graphics, h)].hold = on]
  <2>1. PICK h \in Axes, on \in BOOLEAN :
           graphics' = [graphics EXCEPT !.axes[SlotOf(graphics, h)].hold = on]
    BY <1>7
  <2>2. SlotOf(graphics, h) \in DOMAIN graphics.axes
    BY <1>5
  <2> QED BY <1>1, <1>3, <2>1, <2>2
<1> QED BY <1>4, <1>6, <1>7

\* What 'reset' leaves of axes
LEMMA NewAxesFit ==
  ASSUME NEW g, Sound(g), NEW slot \in DOMAIN g.axes
  PROVE  LET axes == NewAxes(g.axes[slot].handle) IN
         /\ axes \in AxesRecords /\ axes.handle = g.axes[slot].handle
         /\ \A d \in Dims : axes.limits[d] \in {g.axes[slot].limits[d], AutoLimit}
<1>1. g.axes[slot].handle \in Positive
  BY DEF Sound, Typed, AxesRecords
<1> QED BY <1>1 DEF NewAxes, AxesRecords

LEMMA ClaLeads ==
  ASSUME Ready, Cla
  PROVE  Leads(graphics, graphics')
<1> DEFINE g == WithAxes(graphics)
           Targets == {[g |-> g, slot |-> CurrentSlot(g)]} \cup
                      {[g |-> graphics, slot |-> s] : s \in DOMAIN graphics.axes}
<1>1. PICK t \in Targets :
        LET cleared == SeriesCleared(t.g, t.slot)
        IN  \/ Becomes(cleared)
            \/ Becomes([cleared EXCEPT !.axes[t.slot] = NewAxes(@.handle)])
  BY DEF Cla
<1>2. /\ Sound(t.g) /\ CurrentAxes(t.g) /\ Grows(graphics, t.g)
      /\ t.slot \in DOMAIN t.g.axes
  <2>1. Sound(g) /\ CurrentAxes(g) /\ Grows(graphics, g) /\ CurrentSlot(g) \in DOMAIN g.axes
    BY WithAxesSound DEF Ready
  <2>2. Sound(graphics) /\ CurrentAxes(graphics) /\ Grows(graphics, graphics)
    BY GrowsNot DEF Ready, Sound
  <2> HIDE DEF g
  <2> QED BY <2>1, <2>2
<1> DEFINE m == t.g
           slot == t.slot
           c == SeriesCleared(m, slot)
           axes == NewAxes(c.axes[slot].handle)
           e == [c EXCEPT !.axes[slot] = axes]
<1>3. graphics' = c \/ graphics' = [c EXCEPT !.axes[slot] = NewAxes(@.handle)]
  BY <1>1 DEF Becomes
<1>4. Sound(m) /\ CurrentAxes(m) /\ Grows(graphics, m) /\ slot \in DOMAIN m.axes
  BY <1>2
<1> HIDE DEF m, slot, Targets
<1>5. Sound(c) /\ Grows(m, c) /\ CurrentAxes(c) /\ c.axes = m.axes
  BY <1>4, SeriesClearedSound
<1> HIDE DEF c
<1>6. [c EXCEPT !.axes[slot] = NewAxes(@.handle)] = e
  BY <1>4, <1>5 DEF Sound, Typed
<1>7. /\ axes \in AxesRecords /\ axes.handle = c.axes[slot].handle
      /\ \A d \in Dims : axes.limits[d] \in {c.axes[slot].limits[d], AutoLimit}
      /\ slot \in DOMAIN c.axes
  BY <1>4, <1>5, NewAxesFit
<1> HIDE DEF axes
<1>8. Sound(e) /\ Grows(c, e) /\ CurrentAxes(e)
  BY <1>5, <1>7, AxesReset
<1> HIDE DEF e
<1>9. Grows(graphics, c)
  BY <1>4, <1>5, GrowsOn DEF Ready, Sound
<1>10. Grows(graphics, e)
  BY <1>5, <1>8, <1>9, GrowsOn DEF Ready, Sound
<1>11. Leads(graphics, c) /\ Leads(graphics, e)
  BY <1>5, <1>8, <1>9, <1>10, GrowsLeads DEF Ready
<1> QED BY <1>3, <1>6, <1>11

LEMMA ResetAxesLeads ==
  ASSUME Ready, NEW h \in Axes, ResetAxes(h)
  PROVE  Leads(graphics, graphics')
<1> DEFINE slot == SlotOf(graphics, h)
           axes == NewAxes(graphics.axes[slot].handle)
           e == [graphics EXCEPT !.axes[slot] = axes]
<1>1. slot \in DOMAIN graphics.axes /\ graphics.axes[slot].handle = h
  BY SlotFound
<1>2. graphics' = e
  BY <1>1 DEF ResetAxes, Becomes
<1> HIDE DEF slot
<1>3. /\ axes \in AxesRecords /\ axes.handle = graphics.axes[slot].handle
      /\ \A d \in Dims : axes.limits[d] \in {graphics.axes[slot].limits[d], AutoLimit}
  BY <1>1, NewAxesFit DEF Ready
<1> HIDE DEF axes
<1>4. Sound(e) /\ Grows(graphics, e) /\ CurrentAxes(e)
  BY <1>1, <1>3, AxesReset DEF Ready
<1> HIDE DEF e
<1>5. Leads(graphics, e)
  BY <1>4, GrowsLeads DEF Ready
<1> QED BY <1>2, <1>5

-----------------------------------------------------------------------------
(***************************************************************************)
(* Limits.  The axes h get limits of their own, those linked to it the     *)
(* limits it shows.                                                        *)
(***************************************************************************)
LEMMA SyncedSound ==
  ASSUME NEW g, Sound(g), NEW slot \in DOMAIN g.axes, NEW dims \in SUBSET Dims,
         NEW own \in [dims -> Limits \cup {AutoLimit}], NEW shown \in [dims -> Limits],
         \A d \in dims : own[d] \in {shown[d], AutoLimit},
         NEW h, h = g.axes[slot].handle
  PROVE  LET e == Synced(Fixed(g, {h}, own), h, shown) IN
         Sound(e) /\ Grows(g, e) /\ (CurrentAxes(g) => CurrentAxes(e))
<1> DEFINE m == Fixed(g, {h}, own)
           e == Synced(m, h, shown)
           f == slot[1]
           Given(k, d) == \E l \in g.figures[f].links : {h, k} \subseteq l.handles /\ d \in l.mode
<1>1. /\ DOMAIN m = DOMAIN g /\ DOMAIN m.axes = DOMAIN g.axes
      /\ m.figures = g.figures /\ m.series = g.series /\ m.annotations = g.annotations
      /\ m.current = g.current /\ SameCounts(g, m)
  BY DEF Sound, Typed, Fixed, SameCounts
<1>2. \A s \in DOMAIN g.axes :
        m.axes[s] = IF s = slot
                    THEN [g.axes[s] EXCEPT !.limits =
                            [d \in Dims |-> IF d \in dims THEN own[d] ELSE @[d]]]
                    ELSE g.axes[s]
  BY DEF Sound, Typed, Distinct, Fixed
<1>3. \A s \in DOMAIN g.axes : g.axes[s] \in AxesRecords
  BY DEF Sound, Typed
<1>4. \A s \in DOMAIN g.axes :
        /\ m.axes[s].handle = g.axes[s].handle /\ m.axes[s].hold = g.axes[s].hold
        /\ \A d \in Dims : m.axes[s].limits[d] =
             IF s = slot /\ d \in dims THEN own[d] ELSE g.axes[s].limits[d]
        /\ m.axes[s] \in AxesRecords
  <2> SUFFICES ASSUME NEW s \in DOMAIN g.axes
               PROVE  /\ m.axes[s].handle = g.axes[s].handle /\ m.axes[s].hold = g.axes[s].hold
                      /\ \A d \in Dims : m.axes[s].limits[d] =
                           IF s = slot /\ d \in dims THEN own[d] ELSE g.axes[s].limits[d]
                      /\ m.axes[s] \in AxesRecords
    OBVIOUS
  <2> HIDE DEF m
  <2> DEFINE new == [d \in Dims |-> IF d \in dims THEN own[d] ELSE g.axes[s].limits[d]]
  <2>1. g.axes[s] \in AxesRecords
    BY <1>3
  <2>2. new \in [Dims -> Limits \cup {AutoLimit}]
    BY <2>1 DEF AxesRecords
  <2>3. CASE s = slot
    <3>1. m.axes[s] = [g.axes[s] EXCEPT !.limits = new]
      BY <1>2, <2>1, <2>3 DEF AxesRecords
    <3>2. \A d \in Dims : new[d] = IF d \in dims THEN own[d] ELSE g.axes[s].limits[d]
      OBVIOUS
    <3> HIDE DEF new
    <3> QED BY <2>1, <2>2, <2>3, <3>1, <3>2 DEF AxesRecords
  <2>4. CASE s # slot
    BY <1>2, <2>1, <2>4
  <2> QED BY <2>3, <2>4
<1>5. FigureOf(m, h) = f
  <2> HIDE DEF m
  <2>1. SlotOf(m, h) = slot
    <3>1. \A s \in DOMAIN m.axes : m.axes[s].handle = h <=> s = slot
      BY <1>1, <1>4 DEF Sound, Distinct
    <3> QED BY <1>1, <3>1 DEF SlotOf
  <2>2. Kind(m, h) = "axes"
    <3>1. h \notin DOMAIN m.figures
      BY <1>1 DEF Sound, Distinct
    <3>2. \E s \in DOMAIN m.axes : m.axes[s].handle = h
      BY <1>1, <1>4
    <3> QED BY <3>1, <3>2, KindFound
  <2> QED BY <2>1, <2>2 DEF FigureOf
<1>6. /\ DOMAIN e = DOMAIN m
      /\ e.axes = [s \in DOMAIN m.axes |->
           [m.axes[s] EXCEPT !.limits = [d \in Dims |->
              IF d \in DOMAIN shown /\ m.axes[s].handle # h /\ Given(m.axes[s].handle, d)
              THEN shown[d] ELSE @[d]]]]
      /\ e.figures = m.figures /\ e.series = m.series /\ e.annotations = m.annotations
      /\ e.current = m.current /\ SameCounts(m, e)
  BY <1>1, <1>5 DEF Sound, Typed, Synced, SameCounts
<1> HIDE DEF m, e, f, Given
<1>7. /\ DOMAIN e = DOMAIN g /\ DOMAIN e.axes = DOMAIN g.axes
      /\ e.figures = g.figures /\ e.series = g.series /\ e.annotations = g.annotations
      /\ e.current = g.current /\ SameCounts(g, e)
  BY <1>1, <1>6 DEF SameCounts
<1>8. \A s \in DOMAIN g.axes :
        /\ e.axes[s].handle = g.axes[s].handle /\ e.axes[s].hold = g.axes[s].hold
        /\ \A d \in Dims : e.axes[s].limits[d] =
             IF s = slot THEN (IF d \in dims THEN own[d] ELSE g.axes[s].limits[d])
             ELSE IF d \in dims /\ Given(g.axes[s].handle, d) THEN shown[d]
             ELSE g.axes[s].limits[d]
        /\ e.axes[s] \in AxesRecords
  <2> SUFFICES ASSUME NEW s \in DOMAIN g.axes
               PROVE /\ e.axes[s].handle = g.axes[s].handle /\ e.axes[s].hold = g.axes[s].hold
                     /\ \A d \in Dims : e.axes[s].limits[d] =
                          IF s = slot THEN (IF d \in dims THEN own[d] ELSE g.axes[s].limits[d])
                          ELSE IF d \in dims /\ Given(g.axes[s].handle, d) THEN shown[d]
                          ELSE g.axes[s].limits[d]
                     /\ e.axes[s] \in AxesRecords
    OBVIOUS
  <2>1. /\ m.axes[s].handle = g.axes[s].handle /\ m.axes[s] \in AxesRecords
        /\ \A d \in Dims : m.axes[s].limits[d] =
             IF s = slot /\ d \in dims THEN own[d] ELSE g.axes[s].limits[d]
    BY <1>4
  <2>2. s # slot <=> g.axes[s].handle # h
    BY DEF Sound, Distinct
  <2>3. e.axes[s] = [m.axes[s] EXCEPT !.limits = [d \in Dims |->
              IF d \in dims /\ s # slot /\ Given(g.axes[s].handle, d)
              THEN shown[d] ELSE @[d]]]
    BY <1>1, <1>6, <2>1, <2>2
  <2>4. \A d \in dims : shown[d] \in Limits
    OBVIOUS
  <2> DEFINE new == [d \in Dims |-> IF d \in dims /\ s # slot /\ Given(g.axes[s].handle, d)
                                    THEN shown[d] ELSE m.axes[s].limits[d]]
  <2>5. e.axes[s] = [m.axes[s] EXCEPT !.limits = new]
    BY <2>1, <2>3 DEF AxesRecords
  <2>6. new \in [Dims -> Limits \cup {AutoLimit}]
    BY <2>1, <2>4 DEF AxesRecords
  <2>7. \A d \in Dims : new[d] =
          IF s = slot THEN (IF d \in dims THEN own[d] ELSE g.axes[s].limits[d])
          ELSE IF d \in dims /\ Given(g.axes[s].handle, d) THEN shown[d]
          ELSE g.axes[s].limits[d]
    BY <2>1
  <2> HIDE DEF new
  <2>8. /\ e.axes[s].handle = m.axes[s].handle /\ e.axes[s].hold = m.axes[s].hold
        /\ e.axes[s].limits = new /\ e.axes[s] \in AxesRecords
    BY <2>1, <2>5, <2>6 DEF AxesRecords
  <2> QED BY <1>4, <2>1, <2>7, <2>8
<1>9. Agreed(e)
  <2> SUFFICES ASSUME NEW k \in DOMAIN g.figures, NEW l \in g.figures[k].links,
                      NEW s \in SlotsOf(g, k), NEW t \in SlotsOf(g, k), NEW d \in l.mode,
                      {g.axes[s].handle, g.axes[t].handle} \subseteq l.handles,
                      AutoLimit \notin {e.axes[s].limits[d], e.axes[t].limits[d]}
               PROVE  e.axes[s].limits[d] = e.axes[t].limits[d]
    BY <1>7, <1>8 DEF Agreed, SlotsOf
  <2>1. /\ s \in DOMAIN g.axes /\ t \in DOMAIN g.axes /\ s[1] = k /\ t[1] = k
        /\ d \in Dims /\ l.handles \subseteq AxesHandles(g, k)
    BY DEF SlotsOf, Sound, Typed, FigureRecords, Linked
  <2>2. CASE h \in l.handles
    <3>1. k = f
      BY <2>1, <2>2 DEF AxesHandles, SlotsOf, Sound, Distinct, f
    <3>2. Given(g.axes[s].handle, d) /\ Given(g.axes[t].handle, d)
      BY <2>2, <3>1 DEF Given
    <3>3. CASE d \in dims
      BY <1>8, <2>1, <3>2, <3>3
    <3>4. CASE d \notin dims
      <4>1. /\ e.axes[s].limits[d] = g.axes[s].limits[d]
            /\ e.axes[t].limits[d] = g.axes[t].limits[d]
        BY <1>8, <2>1, <3>4
      <4> QED BY <4>1 DEF Sound, Agreed
    <3> QED BY <3>3, <3>4
  <2>3. CASE h \notin l.handles
    <3>1. s # slot /\ t # slot
      BY <2>3
    <3>2. ASSUME NEW r \in {s, t} PROVE ~ Given(g.axes[r].handle, d)
      <4> SUFFICES ASSUME NEW n \in g.figures[f].links, {h, g.axes[r].handle} \subseteq n.handles
                   PROVE  FALSE
        BY DEF Given
      <4>1. f \in DOMAIN g.figures
        BY DEF Sound, Typed, f
      <4>2. n.handles \subseteq AxesHandles(g, f)
        BY <4>1 DEF Sound, Linked
      <4>3. r[1] = f
        BY <2>1, <4>2 DEF AxesHandles, SlotsOf, Sound, Distinct
      <4>4. k = f /\ n # l
        BY <2>1, <2>3, <4>3
      <4>5. n.handles \cap l.handles = {}
        BY <4>1, <4>4 DEF Sound, Linked
      <4> QED BY <4>5
    <3>3. /\ e.axes[s].limits[d] = g.axes[s].limits[d]
          /\ e.axes[t].limits[d] = g.axes[t].limits[d]
      BY <1>8, <2>1, <3>1, <3>2
    <3> QED BY <3>3 DEF Sound, Agreed
  <2> QED BY <2>2, <2>3
<1>10. e.axes \in [DOMAIN e.axes -> AxesRecords]
  BY <1>6, <1>7, <1>8
<1>11. \A s \in DOMAIN g.axes : e.axes[s].handle = g.axes[s].handle
  BY <1>8
<1> QED BY <1>7, <1>9, <1>10, <1>11, AxesChanged DEF e, m


\* The axes a call for limits is about
LEMMA TargetFound ==
  ASSUME Ready,
         NEW t \in {[g |-> WithAxes(graphics),
                     h |-> WithAxes(graphics).axes[CurrentSlot(WithAxes(graphics))].handle]}
                   \cup {[g |-> graphics, h |-> h] : h \in Axes}
  PROVE  /\ Sound(t.g) /\ CurrentAxes(t.g) /\ Grows(graphics, t.g)
         /\ \E slot \in DOMAIN t.g.axes : t.h = t.g.axes[slot].handle
<1> DEFINE a == WithAxes(graphics)
<1>1. /\ Sound(a) /\ CurrentAxes(a) /\ Grows(graphics, a)
      /\ CurrentSlot(a) \in DOMAIN a.axes
  BY WithAxesSound DEF Ready
<1>2. /\ Sound(graphics) /\ CurrentAxes(graphics) /\ Grows(graphics, graphics)
  BY GrowsNot DEF Ready, Sound
<1>3. t = [g |-> a, h |-> a.axes[CurrentSlot(a)].handle]
      \/ \E h \in Axes : t = [g |-> graphics, h |-> h]
  OBVIOUS
<1> HIDE DEF a
<1>4. CASE t = [g |-> a, h |-> a.axes[CurrentSlot(a)].handle]
  BY <1>1, <1>4
<1>5. CASE \E h \in Axes : t = [g |-> graphics, h |-> h]
  BY <1>2, <1>5 DEF Axes
<1> QED BY <1>3, <1>4, <1>5

LEMMA SetLimitsLeads ==
  ASSUME Ready, SetLimits
  PROVE  Leads(graphics, graphics')
<1> DEFINE Targets == {[g |-> WithAxes(graphics),
                        h |-> WithAxes(graphics).axes[CurrentSlot(WithAxes(graphics))].handle]}
                      \cup {[g |-> graphics, h |-> h] : h \in Axes}
<1>1. PICK t \in Targets, dims \in {{d} : d \in Dims} \cup {Dims} :
        \E limits \in [dims -> Limits] :
           Becomes(Synced(Fixed(t.g, {t.h}, limits), t.h, limits))
  BY DEF SetLimits
<1>2. PICK limits \in [dims -> Limits] :
        Becomes(Synced(Fixed(t.g, {t.h}, limits), t.h, limits))
  BY <1>1
<1>3. /\ Sound(t.g) /\ CurrentAxes(t.g) /\ Grows(graphics, t.g)
      /\ \E slot \in DOMAIN t.g.axes : t.h = t.g.axes[slot].handle
  BY TargetFound
<1> HIDE DEF Targets
<1> DEFINE m == t.g
           h == t.h
           e == Synced(Fixed(m, {h}, limits), h, limits)
<1>4. graphics' = e
  BY <1>2 DEF Becomes
<1>5. /\ dims \in SUBSET Dims /\ limits \in [dims -> Limits \cup {AutoLimit}]
      /\ \A d \in dims : limits[d] \in {limits[d], AutoLimit}
  BY <1>2
<1>6. PICK slot \in DOMAIN m.axes : h = m.axes[slot].handle
  BY <1>3
<1>7. Sound(m) /\ CurrentAxes(m) /\ Grows(graphics, m)
  BY <1>3
<1> HIDE DEF m, h
<1>8. Sound(e) /\ Grows(m, e) /\ CurrentAxes(e)
  BY <1>5, <1>6, <1>7, SyncedSound
<1> HIDE DEF e
<1>9. Grows(graphics, e)
  BY <1>7, <1>8, GrowsOn DEF Ready, Sound
<1> QED BY <1>4, <1>8, <1>9, GrowsLeads DEF Ready

LEMMA AxisAutoLeads ==
  ASSUME Ready, AxisAuto
  PROVE  Leads(graphics, graphics')
<1> DEFINE Targets == {[g |-> WithAxes(graphics),
                        h |-> WithAxes(graphics).axes[CurrentSlot(WithAxes(graphics))].handle]}
                      \cup {[g |-> graphics, h |-> h] : h \in Axes}
           own == [d \in Dims |-> AutoLimit]
<1>1. PICK t \in Targets, shown \in [Dims -> Limits] :
        Becomes(Synced(Fixed(t.g, {t.h}, own), t.h, shown))
  BY DEF AxisAuto
<1>2. /\ Sound(t.g) /\ CurrentAxes(t.g) /\ Grows(graphics, t.g)
      /\ \E slot \in DOMAIN t.g.axes : t.h = t.g.axes[slot].handle
  BY TargetFound
<1> HIDE DEF Targets
<1> DEFINE m == t.g
           h == t.h
           e == Synced(Fixed(m, {h}, own), h, shown)
<1>3. graphics' = e
  BY <1>1 DEF Becomes
<1>4. /\ Dims \in SUBSET Dims /\ own \in [Dims -> Limits \cup {AutoLimit}]
      /\ \A d \in Dims : own[d] \in {shown[d], AutoLimit}
  OBVIOUS
<1>5. PICK slot \in DOMAIN m.axes : h = m.axes[slot].handle
  BY <1>2
<1>6. Sound(m) /\ CurrentAxes(m) /\ Grows(graphics, m)
  BY <1>2
<1> HIDE DEF m, h, own
<1>7. Sound(e) /\ Grows(m, e) /\ CurrentAxes(e)
  BY <1>4, <1>5, <1>6, SyncedSound
<1> HIDE DEF e
<1>8. Grows(graphics, e)
  BY <1>6, <1>7, GrowsOn DEF Ready, Sound
<1> QED BY <1>3, <1>7, <1>8, GrowsLeads DEF Ready

-----------------------------------------------------------------------------
(***************************************************************************)
(* Groups that axes leave.                                                 *)
(***************************************************************************)
\* What unlink_axes_handles leaves of a group
LEMMA UnlinkedGroups ==
  ASSUME NEW links \in SUBSET [handles : SUBSET Nat, mode : SUBSET Dims], NEW handles,
         \A j, k \in links : j # k => j.handles \cap k.handles = {}
  PROVE  /\ Unlinked(links, handles) \in SUBSET [handles : SUBSET Nat, mode : SUBSET Dims]
         /\ \A l \in Unlinked(links, handles) :
              /\ Cardinality(l.handles) >= 2
              /\ \E k \in links : l.handles = k.handles \ handles /\ l.mode = k.mode
         /\ \A l, m \in Unlinked(links, handles) :
              l # m => l.handles \cap m.handles = {}
<1> DEFINE Left(l) == [l EXCEPT !.handles = @ \ handles]
<1>1. \A l \in Unlinked(links, handles) :
        Cardinality(l.handles) >= 2 /\ \E k \in links : l = Left(k)
  BY DEF Unlinked
<1>2. \A k \in links : /\ Left(k) \in [handles : SUBSET Nat, mode : SUBSET Dims]
                       /\ Left(k).handles = k.handles \ handles /\ Left(k).mode = k.mode
  OBVIOUS
<1> HIDE DEF Left
<1>3. ASSUME NEW l \in Unlinked(links, handles), NEW m \in Unlinked(links, handles), l # m
      PROVE  l.handles \cap m.handles = {}
  <2>1. PICK j \in links, k \in links : l = Left(j) /\ m = Left(k)
    BY <1>1
  <2>2. j # k
    BY <1>3, <2>1
  <2>3. j.handles \cap k.handles = {}
    BY <1>3, <2>2
  <2> QED BY <1>2, <2>1, <2>3
<1>4. Unlinked(links, handles) \in SUBSET [handles : SUBSET Nat, mode : SUBSET Dims]
  BY <1>1, <1>2
<1>5. \A l \in Unlinked(links, handles) :
        /\ Cardinality(l.handles) >= 2
        /\ \E k \in links : l.handles = k.handles \ handles /\ l.mode = k.mode
  BY <1>1, <1>2
<1> QED BY <1>3, <1>4, <1>5

LEMMA LinkAxesLeads ==
  ASSUME Ready, NEW f \in DOMAIN graphics.figures,
         NEW handles \in SUBSET AxesHandles(graphics, f), NEW mode \in SUBSET Dims,
         LinkAxes(f, handles, mode)
  PROVE  Leads(graphics, graphics')
<1> DEFINE g == graphics
           old == g.figures[f].links
           links == Relinked(old, handles, mode)
           m == [g EXCEPT !.figures[f].links = Relinked(@, handles, mode)]
<1>1. PICK hull \in [mode -> Limits] : graphics' = Fixed(m, handles, hull)
  BY DEF LinkAxes, Becomes
<1> DEFINE e == Fixed(m, handles, hull)
<1>2. Sound(g) /\ CurrentAxes(g) /\ f \in DOMAIN g.figures /\ handles \subseteq AxesHandles(g, f)
  BY DEF Ready
<1> HIDE DEF g
<1>3. old \in SUBSET [handles : SUBSET Nat, mode : SUBSET Dims]
  BY <1>2 DEF Sound, Typed, FigureRecords
<1>4. \A s \in DOMAIN g.axes : g.axes[s] \in AxesRecords
  BY <1>2 DEF Sound, Typed
<1>5. handles \subseteq Nat
  BY <1>2, <1>4 DEF AxesHandles, SlotsOf, AxesRecords, Positive
<1> DEFINE new == [handles |-> handles, mode |-> mode]
<1>6. links = Unlinked(old, handles) \cup
                {l \in {new} : mode # {} /\ Cardinality(handles) >= 2}
  BY DEF Relinked
<1>7. /\ new \in [handles : SUBSET Nat, mode : SUBSET Dims]
      /\ new.handles = handles /\ new.mode = mode
  BY <1>5
<1> HIDE DEF new, old
<1>8. /\ Unlinked(old, handles) \in SUBSET [handles : SUBSET Nat, mode : SUBSET Dims]
      /\ \A l \in Unlinked(old, handles) :
           /\ Cardinality(l.handles) >= 2
           /\ \E k \in old : l.handles = k.handles \ handles /\ l.mode = k.mode
      /\ \A l, n \in Unlinked(old, handles) : l # n => l.handles \cap n.handles = {}
  <2>1. \A j, k \in old : j # k => j.handles \cap k.handles = {}
    BY <1>2 DEF Sound, Linked, old
  <2> HIDE DEF links, m, e
  <2> QED BY <1>3, <2>1, UnlinkedGroups
<1> HIDE DEF links
<1>9. /\ DOMAIN e = DOMAIN g /\ DOMAIN e.figures = DOMAIN g.figures
      /\ DOMAIN e.axes = DOMAIN g.axes
      /\ e.series = g.series /\ e.annotations = g.annotations
      /\ e.current = g.current /\ SameCounts(g, e)
  BY <1>2 DEF Sound, Typed, Fixed, SameCounts
<1>10. /\ \A k \in DOMAIN g.figures : k # f => e.figures[k] = g.figures[k]
       /\ e.figures[f] = [g.figures[f] EXCEPT !.links = links]
       /\ e.figures = [k \in DOMAIN g.figures |-> e.figures[k]]
  BY <1>2 DEF Sound, Typed, Fixed, links, old
<1>11. \A s \in DOMAIN g.axes :
         e.axes[s] = IF g.axes[s].handle \in handles
                     THEN [g.axes[s] EXCEPT !.limits =
                             [d \in Dims |-> IF d \in mode THEN hull[d] ELSE @[d]]]
                     ELSE g.axes[s]
  BY <1>2 DEF Sound, Typed, Fixed
<1>12. e.axes = [s \in DOMAIN g.axes |-> e.axes[s]]
  BY <1>2 DEF Sound, Typed, Fixed
<1> HIDE DEF m, e
<1>13. \A s \in DOMAIN g.axes :
         /\ e.axes[s].handle = g.axes[s].handle
         /\ \A d \in Dims : e.axes[s].limits[d] =
              IF g.axes[s].handle \in handles /\ d \in mode THEN hull[d] ELSE g.axes[s].limits[d]
         /\ e.axes[s] \in AxesRecords
  <2> SUFFICES ASSUME NEW s \in DOMAIN g.axes
               PROVE  /\ e.axes[s].handle = g.axes[s].handle
                      /\ \A d \in Dims : e.axes[s].limits[d] =
                           IF g.axes[s].handle \in handles /\ d \in mode THEN hull[d]
                           ELSE g.axes[s].limits[d]
                      /\ e.axes[s] \in AxesRecords
    OBVIOUS
  <2> DEFINE given == [d \in Dims |-> IF d \in mode THEN hull[d] ELSE g.axes[s].limits[d]]
  <2>1. g.axes[s] \in AxesRecords
    BY <1>4
  <2>2. given \in [Dims -> Limits \cup {AutoLimit}]
    BY <2>1 DEF AxesRecords
  <2>3. CASE g.axes[s].handle \in handles
    <3>1. e.axes[s] = [g.axes[s] EXCEPT !.limits = given]
      BY <1>11, <2>1, <2>3 DEF AxesRecords
    <3>2. \A d \in Dims : given[d] = IF d \in mode THEN hull[d] ELSE g.axes[s].limits[d]
      OBVIOUS
    <3> HIDE DEF given
    <3> QED BY <2>1, <2>2, <2>3, <3>1, <3>2 DEF AxesRecords
  <2>4. CASE g.axes[s].handle \notin handles
    BY <1>11, <2>1, <2>4
  <2> QED BY <2>3, <2>4
<1>14. /\ e.figures[f] \in FigureRecords /\ e.figures[f].links = links
       /\ e.figures[f].currentAxes = g.figures[f].currentAxes
       /\ e.figures[f].currentObject = g.figures[f].currentObject
  <2>1. g.figures[f] \in FigureRecords
    BY <1>2 DEF Sound, Typed
  <2>2. links \in SUBSET [handles : SUBSET Nat, mode : SUBSET Dims]
    BY <1>6, <1>7, <1>8
  <2> QED BY <1>10, <2>1, <2>2 DEF FigureRecords
<1>15. Typed(e)
  <2>1. e.figures \in [DOMAIN e.figures -> FigureRecords]
    <3>1. \A k \in DOMAIN e.figures : e.figures[k] \in FigureRecords
      BY <1>2, <1>9, <1>10, <1>14 DEF Sound, Typed
    <3> QED BY <1>9, <1>10, <3>1
  <2>2. e.axes \in [DOMAIN e.axes -> AxesRecords]
    BY <1>9, <1>12, <1>13
  <2> QED BY <1>2, <1>9, <2>1, <2>2 DEF Sound, Typed, SameCounts
<1>16. Distinct(e)
  BY <1>2, <1>9, <1>13 DEF Sound, Distinct
<1>17. \A k : SlotsOf(e, k) = SlotsOf(g, k) /\ AxesHandles(e, k) = AxesHandles(g, k)
  BY <1>9, <1>13 DEF SlotsOf, AxesHandles
<1>18. Linked(e)
  <2> SUFFICES ASSUME NEW k \in DOMAIN e.figures, NEW l \in e.figures[k].links
               PROVE  /\ Cardinality(l.handles) >= 2
                      /\ l.handles \subseteq AxesHandles(g, k)
                      /\ \A n \in e.figures[k].links : n # l => n.handles \cap l.handles = {}
    BY <1>17 DEF Linked
  <2>1. CASE k # f
    BY <1>2, <1>9, <1>10, <2>1 DEF Sound, Linked
  <2>2. CASE k = f
    <3>1. l \in links /\ e.figures[k].links = links
      BY <1>14, <2>2
    <3>2. Cardinality(l.handles) >= 2
      BY <1>6, <1>7, <1>8, <3>1
    <3>3. l.handles \subseteq AxesHandles(g, k)
      <4>1. CASE l = new
        BY <1>2, <1>7, <2>2, <4>1
      <4>2. CASE l \in Unlinked(old, handles)
        BY <1>2, <1>8, <2>2, <4>2 DEF Sound, Linked, old
      <4> QED BY <1>6, <3>1, <4>1, <4>2
    <3>4. ASSUME NEW n \in links, n # l PROVE n.handles \cap l.handles = {}
      BY <1>6, <1>7, <1>8, <3>1, <3>4
    <3> QED BY <3>1, <3>2, <3>3, <3>4
  <2> QED BY <2>1, <2>2
<1>19. Agreed(e)
  <2> SUFFICES ASSUME NEW k \in DOMAIN g.figures, NEW l \in e.figures[k].links,
                      NEW s \in SlotsOf(g, k), NEW t \in SlotsOf(g, k), NEW d \in l.mode,
                      {g.axes[s].handle, g.axes[t].handle} \subseteq l.handles,
                      AutoLimit \notin {e.axes[s].limits[d], e.axes[t].limits[d]}
               PROVE  e.axes[s].limits[d] = e.axes[t].limits[d]
    BY <1>9, <1>13, <1>17 DEF Agreed, SlotsOf
  <2>1. /\ s \in DOMAIN g.axes /\ t \in DOMAIN g.axes /\ s[1] = k /\ t[1] = k
    BY DEF SlotsOf
  <2>2. d \in Dims
    BY <1>9, <1>15 DEF Typed, FigureRecords
  <2>3. ASSUME g.axes[s].handle \notin handles, g.axes[t].handle \notin handles,
               NEW j \in g.figures[k].links, l.mode = j.mode,
               {g.axes[s].handle, g.axes[t].handle} \subseteq j.handles
        PROVE  e.axes[s].limits[d] = e.axes[t].limits[d]
    <3>1. /\ e.axes[s].limits[d] = g.axes[s].limits[d]
          /\ e.axes[t].limits[d] = g.axes[t].limits[d]
      BY <1>13, <2>1, <2>2, <2>3
    <3> QED BY <1>2, <2>3, <3>1 DEF Sound, Agreed
  <2>4. CASE k # f
    <3>1. g.axes[s].handle \notin handles /\ g.axes[t].handle \notin handles
      BY <1>2, <2>1, <2>4 DEF AxesHandles, SlotsOf, Sound, Distinct
    <3> QED BY <1>10, <2>3, <2>4, <3>1
  <2>5. CASE k = f /\ l = new
    BY <1>7, <1>13, <2>1, <2>2, <2>5
  <2>6. CASE k = f /\ l \in Unlinked(old, handles)
    <3>1. PICK j \in old : l.handles = j.handles \ handles /\ l.mode = j.mode
      BY <1>8, <2>6
    <3> QED BY <2>3, <2>6, <3>1 DEF old
  <2> QED BY <1>6, <1>14, <2>4, <2>5, <2>6
<1>20. Numbered(e)
  BY <1>2, <1>9, <1>13 DEF Sound, Numbered, SameCounts
<1>21. Grows(g, e)
  <2>1. Counts(g, e)
    BY <1>2, <1>9 DEF Sound, Typed, Counts, SameCounts
  <2>2. NewOnly(g, e)
    BY <1>9, <1>13 DEF NewOnly
  <2>3. Forgets(g, e)
    BY <1>9, <1>10, <1>14 DEF Forgets
  <2> QED BY <2>1, <2>2, <2>3 DEF Grows
<1>22. CurrentAxes(e)
  <2>1. \A k \in DOMAIN e.figures : e.figures[k].currentAxes = g.figures[k].currentAxes
    BY <1>9, <1>10, <1>14
  <2> QED BY <1>2, <1>9, <2>1, CurrentAxesStay
<1>23. Leads(g, e)
  BY <1>2, <1>15, <1>16, <1>18, <1>19, <1>20, <1>21, <1>22, GrowsLeads DEF Sound
<1> QED BY <1>1, <1>23 DEF e, g

-----------------------------------------------------------------------------
(***************************************************************************)
(* delete.                                                                 *)
(***************************************************************************)
LEMMA DeletedAxesSound ==
  ASSUME NEW g, Sound(g), CurrentAxes(g), NEW h, Kind(g, h) = "axes"
  PROVE  LET e == DeletedAxes(g, h) IN
         /\ Sound(e) /\ Grows(g, e) /\ CurrentAxes(e)
         /\ DOMAIN e.figures = DOMAIN g.figures
         /\ \A s \in DOMAIN g.axes : g.axes[s].handle # h =>
              s \in DOMAIN e.axes /\ e.axes[s].handle = g.axes[s].handle
<1> DEFINE slot == SlotOf(g, h)
           f == slot[1]
           fig == g.figures[f]
           gone == {h} \cup {x.handle : x \in {y \in g.series : y.slot = slot}}
           left == IndicesOf(g, f) \ {slot[2]}
           new == [fig EXCEPT !.currentObject = IF @ \in gone THEN None ELSE @,
                              !.links = Unlinked(@, {h}),
                              !.currentAxes = IF @ # slot[2] THEN @
                                              ELSE IF left = {} THEN 1 ELSE Min(left)]
           e == DeletedAxes(g, h)
<1>1. slot \in DOMAIN g.axes /\ g.axes[slot].handle = h
  <2>1. \E s \in DOMAIN g.axes : g.axes[s].handle = h
    BY KindFound
  <2> QED BY <2>1 DEF SlotOf
<1> HIDE DEF slot
<1>2. f \in DOMAIN g.figures /\ slot[2] \in Positive /\ slot = <<f, slot[2]>>
  BY <1>1 DEF Sound, Typed
<1>3. /\ DOMAIN e = DOMAIN g /\ DOMAIN e.figures = DOMAIN g.figures
      /\ e.axes = Without(g.axes, {slot})
      /\ e.series = {x \in g.series : x.slot # slot}
      /\ e.annotations = g.annotations /\ e.current = g.current /\ SameCounts(g, e)
  BY <1>2 DEF DeletedAxes, SeriesCleared, Sound, Typed, SameCounts, slot
<1>4. /\ \A k \in DOMAIN g.figures : k # f => e.figures[k] = g.figures[k]
      /\ e.figures[f] = new
      /\ e.figures = [k \in DOMAIN g.figures |-> e.figures[k]]
  BY <1>2 DEF DeletedAxes, SeriesCleared, Sound, Typed, slot
<1> HIDE DEF e
<1>5. fig \in FigureRecords
  BY <1>2 DEF Sound, Typed
<1>6. left # {} => Min(left) \in left
  <2>1. left \in SUBSET Nat
    BY DEF IndicesOf, SlotsOf, Sound, Typed, Positive
  <2> HIDE DEF left
  <2> QED BY <2>1, MinIsSmallest
<1>7. left \subseteq Positive
  BY DEF IndicesOf, SlotsOf, Sound, Typed
<1>8. /\ Unlinked(fig.links, {h}) \in SUBSET [handles : SUBSET Nat, mode : SUBSET Dims]
      /\ \A l \in Unlinked(fig.links, {h}) :
           /\ Cardinality(l.handles) >= 2
           /\ \E k \in fig.links : l.handles = k.handles \ {h} /\ l.mode = k.mode
      /\ \A l, m \in Unlinked(fig.links, {h}) : l # m => l.handles \cap m.handles = {}
  <2>1. \A j, k \in fig.links : j # k => j.handles \cap k.handles = {}
    BY <1>2 DEF Sound, Linked
  <2>2. fig.links \in SUBSET [handles : SUBSET Nat, mode : SUBSET Dims]
    BY <1>5 DEF FigureRecords
  <2> HIDE DEF fig, new
  <2> QED BY <2>1, <2>2, UnlinkedGroups
<1>9. /\ new \in FigureRecords /\ new.links = Unlinked(fig.links, {h})
      /\ new.currentObject \in {fig.currentObject, None}
      /\ new.currentAxes = IF fig.currentAxes # slot[2] THEN fig.currentAxes
                           ELSE IF left = {} THEN 1 ELSE Min(left)
  <2> HIDE DEF left, fig, gone
  <2>1. 1 \in Positive /\ None \in Nat
    BY DEF Positive, None
  <2> QED BY <1>5, <1>6, <1>7, <1>8, <2>1 DEF FigureRecords
<1> HIDE DEF new
<1>10. /\ \A s : s \in DOMAIN e.axes <=> s \in DOMAIN g.axes /\ s # slot
       /\ \A s \in DOMAIN e.axes : e.axes[s] = g.axes[s]
       /\ e.axes \in [DOMAIN e.axes -> AxesRecords]
  BY <1>3 DEF Without, Sound, Typed
<1>11. Typed(e)
  <2>1. e.figures \in [DOMAIN e.figures -> FigureRecords]
    <3>1. \A k \in DOMAIN e.figures : e.figures[k] \in FigureRecords
      BY <1>2, <1>3, <1>4, <1>9 DEF Sound, Typed
    <3> QED BY <1>3, <1>4, <3>1
  <2>2. DOMAIN e.axes \subseteq (DOMAIN e.figures) \X Positive
    BY <1>3, <1>10 DEF Sound, Typed
  <2>3. e.series \subseteq [slot : DOMAIN e.axes, handle : Positive]
    BY <1>3, <1>10 DEF Sound, Typed
  <2>4. IsFiniteSet(DOMAIN e.axes) /\ IsFiniteSet(e.series)
    <3>1. DOMAIN e.axes \subseteq DOMAIN g.axes /\ e.series \subseteq g.series
      BY <1>3, <1>10
    <3>2. IsFiniteSet(DOMAIN g.axes) /\ IsFiniteSet(g.series)
      BY DEF Sound, Typed
    <3> QED BY <3>1, <3>2, FS_Subset
  <2> QED BY <1>3, <1>10, <2>1, <2>2, <2>3, <2>4 DEF Sound, Typed, SameCounts
<1>12. Distinct(e)
  BY <1>3, <1>10 DEF Sound, Distinct
<1>13. \A k : AxesHandles(g, k) \ {h} \subseteq AxesHandles(e, k)
  BY <1>1, <1>10 DEF AxesHandles, SlotsOf
<1>14. \A k : k # f => AxesHandles(g, k) \subseteq AxesHandles(e, k)
  BY <1>10 DEF AxesHandles, SlotsOf
<1>15. Linked(e)
  <2> SUFFICES ASSUME NEW k \in DOMAIN g.figures, NEW l \in e.figures[k].links
               PROVE  /\ Cardinality(l.handles) >= 2
                      /\ l.handles \subseteq AxesHandles(e, k)
                      /\ \A n \in e.figures[k].links : n # l => n.handles \cap l.handles = {}
    BY <1>3 DEF Linked
  <2>1. CASE k # f
    BY <1>4, <1>14, <2>1 DEF Sound, Linked
  <2>2. CASE k = f
    <3>1. e.figures[k].links = Unlinked(fig.links, {h})
      BY <1>4, <1>9, <2>2
    <3>2. PICK j \in fig.links : l.handles = j.handles \ {h} /\ l.mode = j.mode
      BY <1>8, <3>1
    <3>3. j.handles \subseteq AxesHandles(g, f)
      BY <1>2, <3>2 DEF Sound, Linked
    <3>4. l.handles \subseteq AxesHandles(e, k)
      BY <1>13, <2>2, <3>2, <3>3
    <3> QED BY <1>8, <3>1, <3>4
  <2> QED BY <2>1, <2>2
<1>16. Agreed(e)
  <2> HIDE DEF f, fig, gone, left
  <2> SUFFICES ASSUME NEW k \in DOMAIN e.figures, NEW l \in e.figures[k].links,
                      NEW s \in SlotsOf(e, k), NEW t \in SlotsOf(e, k), NEW d \in l.mode,
                      {e.axes[s].handle, e.axes[t].handle} \subseteq l.handles,
                      AutoLimit \notin {e.axes[s].limits[d], e.axes[t].limits[d]}
               PROVE  e.axes[s].limits[d] = e.axes[t].limits[d]
    BY DEF Agreed
  <2>6. k \in DOMAIN g.figures
    BY <1>3
  <2>5. e.axes[s] = g.axes[s] /\ e.axes[t] = g.axes[t]
    BY <1>10 DEF SlotsOf
  <2>1. s \in SlotsOf(g, k) /\ t \in SlotsOf(g, k)
    BY <1>10 DEF SlotsOf
  <2>2. PICK j \in g.figures[k].links : l.handles \subseteq j.handles /\ l.mode = j.mode
    <3>1. CASE k # f
      BY <1>4, <2>6, <3>1
    <3>2. CASE k = f
      <4>1. l \in Unlinked(fig.links, {h})
        BY <1>4, <1>9, <2>6, <3>2
      <4>2. PICK j \in fig.links : l.handles = j.handles \ {h} /\ l.mode = j.mode
        BY <1>8, <4>1
      <4> QED BY <3>2, <4>2 DEF fig
    <3> QED BY <3>1, <3>2
  <2>3. {g.axes[s].handle, g.axes[t].handle} \subseteq j.handles /\ d \in j.mode
    BY <2>2, <2>5
  <2>4. Agreed(g)
    BY DEF Sound
  <2> QED BY <2>1, <2>2, <2>3, <2>4, <2>5, <2>6 DEF Agreed
<1>17. Numbered(e)
  <2>1. /\ \A k \in DOMAIN e.figures : k < e.nextFigure
        /\ \A s \in DOMAIN e.axes : FirstAxes <= e.axes[s].handle /\ e.axes[s].handle < e.nextAxes
    BY <1>3, <1>10 DEF Sound, Numbered, SameCounts
  <2>2. /\ \A x \in e.series : FirstSeries <= x.handle /\ x.handle < e.nextSeries
        /\ \A x, y \in e.series : x.handle = y.handle => x = y
    BY <1>3 DEF Sound, Numbered, SameCounts
  <2> QED BY <1>3, <2>1, <2>2 DEF Sound, Numbered, SameCounts
<1>18. Grows(g, e)
  <2>1. Counts(g, e)
    BY <1>3 DEF Sound, Typed, Counts, SameCounts
  <2>2. NewOnly(g, e)
    BY <1>3, <1>10 DEF NewOnly
  <2>3. Forgets(g, e)
    BY <1>3, <1>4, <1>9 DEF Forgets
  <2> QED BY <2>1, <2>2, <2>3 DEF Grows
<1>19. CurrentAxes(e)
  <2> SUFFICES ASSUME NEW k \in DOMAIN g.figures PROVE CurrentAt(e, k)
    BY <1>3 DEF CurrentAxes
  <2>1. CASE k # f
    <3>1. SlotsOf(e, k) = SlotsOf(g, k)
      BY <1>10, <2>1 DEF SlotsOf
    <3>2. CurrentAt(g, k)
      BY DEF CurrentAxes
    <3> QED BY <1>2, <1>4, <1>10, <2>1, <3>1, <3>2 DEF CurrentAt
  <2>2. CASE k = f /\ fig.currentAxes # slot[2]
    <3>1. <<f, fig.currentAxes>> \in DOMAIN g.axes
      BY <1>1, <1>2 DEF CurrentAxes, CurrentAt, SlotsOf
    <3> QED BY <1>2, <1>4, <1>9, <1>10, <2>2, <3>1 DEF CurrentAt
  <2>3. CASE k = f /\ fig.currentAxes = slot[2] /\ left = {}
    <3>1. SlotsOf(e, f) = {}
      <4> SUFFICES ASSUME NEW s \in SlotsOf(e, f) PROVE FALSE
        OBVIOUS
      <4>1. s \in DOMAIN g.axes /\ s # slot /\ s[1] = f /\ s \in SlotsOf(g, f)
        BY <1>10 DEF SlotsOf
      <4>2. s = <<f, s[2]>>
        BY <4>1 DEF Sound, Typed
      <4>3. s[2] \in left
        BY <1>2, <4>1, <4>2 DEF IndicesOf
      <4> QED BY <2>3, <4>3
    <3> QED BY <1>4, <1>9, <2>3, <3>1 DEF CurrentAt
  <2>4. CASE k = f /\ fig.currentAxes = slot[2] /\ left # {}
    <3>1. Min(left) \in left
      BY <1>6, <2>4
    <3>2. PICK s \in SlotsOf(g, f) : s[2] = Min(left)
      BY <3>1 DEF IndicesOf
    <3>3. s = <<f, Min(left)>> /\ s \in DOMAIN g.axes /\ s # slot
      BY <1>2, <3>1, <3>2 DEF SlotsOf, Sound, Typed
    <3>4. new.currentAxes = Min(left)
      BY <1>9, <2>4
    <3> QED BY <1>4, <1>10, <2>4, <3>3, <3>4 DEF CurrentAt
  <2> QED BY <2>1, <2>2, <2>3, <2>4
<1>20. \A s \in DOMAIN g.axes : g.axes[s].handle # h =>
         s \in DOMAIN e.axes /\ e.axes[s].handle = g.axes[s].handle
  BY <1>1, <1>10
<1> QED BY <1>3, <1>11, <1>12, <1>15, <1>16, <1>17, <1>18, <1>19, <1>20 DEF Sound, e


\* An object of a figure is not its current one any more.
LEMMA ForgottenSound ==
  ASSUME NEW g, Sound(g), NEW h
  PROVE  LET e == Forgotten(g, h) IN
         /\ Sound(e) /\ Grows(g, e) /\ (CurrentAxes(g) => CurrentAxes(e))
         /\ DOMAIN e = DOMAIN g /\ DOMAIN e.figures = DOMAIN g.figures
         /\ e.current = g.current /\ SameObjects(g, e) /\ SameCounts(g, e)
<1> DEFINE k == FigureOf(g, h)
           e == Forgotten(g, h)
<1>1. e = [g EXCEPT !.figures[k].currentObject = IF @ = h THEN None ELSE @]
  BY DEF Forgotten
<1> HIDE DEF k
<1> DEFINE left(o) == IF o = h THEN None ELSE o
           figures == [f \in DOMAIN g.figures |->
                         IF f = k THEN [g.figures[f] EXCEPT !.currentObject = left(@)]
                         ELSE g.figures[f]]
<1>8. /\ DOMAIN e = DOMAIN g /\ e.figures = figures
      /\ SameObjects(g, e) /\ SameCounts(g, e) /\ e.current = g.current
  BY <1>1 DEF Sound, Typed, SameObjects, SameCounts
<1>9. figures \in [DOMAIN g.figures -> FigureRecords]
  <2> SUFFICES ASSUME NEW f \in DOMAIN g.figures
               PROVE  [g.figures[f] EXCEPT !.currentObject = left(@)] \in FigureRecords
                      /\ g.figures[f] \in FigureRecords
    OBVIOUS
  <2>1. g.figures[f] \in FigureRecords
    BY DEF Sound, Typed
  <2>2. left(g.figures[f].currentObject) \in Nat
    BY <2>1 DEF FigureRecords, None
  <2> HIDE DEF left
  <2> QED BY <2>1, <2>2 DEF FigureRecords
<1>2. /\ DOMAIN e = DOMAIN g /\ DOMAIN e.figures = DOMAIN g.figures
      /\ e.figures \in [DOMAIN e.figures -> FigureRecords]
      /\ SameObjects(g, e) /\ SameCounts(g, e) /\ e.current = g.current
  BY <1>8, <1>9
<1>3. \A f \in DOMAIN g.figures :
        /\ e.figures[f].links = g.figures[f].links
        /\ e.figures[f].currentAxes = g.figures[f].currentAxes
        /\ e.figures[f].currentObject \in {g.figures[f].currentObject, None}
  BY <1>1 DEF Sound, Typed, FigureRecords
<1> HIDE DEF e
<1>4. Counts(g, e) /\ {e.nextFigure, e.nextAxes, e.nextSeries, e.nextAnnotation} \subseteq Nat
  BY <1>2 DEF Sound, Typed, Counts, SameCounts
<1>5. Forgets(g, e)
  BY <1>2, <1>3 DEF Forgets
<1>6. Sound(e) /\ Grows(g, e)
  <2>1. /\ e.axes = g.axes /\ e.series \subseteq g.series /\ e.annotations \subseteq g.annotations
        /\ e.current \in DOMAIN g.figures \cup {None}
        /\ \A f \in DOMAIN g.figures : e.figures[f].links = g.figures[f].links
    BY <1>2, <1>3 DEF SameObjects, Sound, Typed
  <2> QED BY <1>2, <1>4, <1>5, <2>1, OthersLost
<1>7. CurrentAxes(g) => CurrentAxes(e)
  BY <1>2, <1>3, CurrentAxesStay DEF SameObjects
<1> QED BY <1>2, <1>6, <1>7 DEF e

\* Series and annotations go, and nothing else.
LEMMA Dropped ==
  ASSUME NEW g, Sound(g), NEW e, DOMAIN e = DOMAIN g, e.figures = g.figures,
         e.axes = g.axes, e.series \subseteq g.series, e.annotations \subseteq g.annotations,
         e.current = g.current, SameCounts(g, e)
  PROVE  Sound(e) /\ Grows(g, e) /\ (CurrentAxes(g) => CurrentAxes(e))
<1>1. Counts(g, e) /\ {e.nextFigure, e.nextAxes, e.nextSeries, e.nextAnnotation} \subseteq Nat
  BY DEF Sound, Typed, Counts, SameCounts
<1>2. Forgets(g, e)
  BY DEF Forgets
<1>3. Sound(e) /\ Grows(g, e)
  <2>1. /\ e.current \in DOMAIN g.figures \cup {None}
        /\ e.figures \in [DOMAIN e.figures -> FigureRecords]
        /\ \A f \in DOMAIN g.figures : e.figures[f].links = g.figures[f].links
    BY DEF Sound, Typed
  <2> QED BY <1>1, <1>2, <2>1, OthersLost
<1>4. CurrentAxes(g) => CurrentAxes(e)
  BY CurrentAxesStay
<1> QED BY <1>3, <1>4

\* delete_graphics_handle.  What goes takes nothing with it that goes later.
LEMMA DeletedSound ==
  ASSUME NEW g, Sound(g), CurrentAxes(g), NEW h, Kind(g, h) # "none"
  PROVE  LET e == Deleted(g, h) IN
         /\ Sound(e) /\ Grows(g, e) /\ CurrentAxes(e)
         /\ \A j : /\ j # h /\ Kind(g, j) # "none"
                   /\ DeletePriority(g, h) <= DeletePriority(g, j)
                   => Kind(e, j) = Kind(g, j)
<1> DEFINE e == Deleted(g, h)
           m == Forgotten(g, h)
           IsAxes(s, j) == \E t \in DOMAIN s.axes : s.axes[t].handle = j
           IsAnnotation(s, j) == \E a \in s.annotations : a.handle = j
           IsSeries(s, j) == \E x \in s.series : x.handle = j
<1>1. \A j : /\ Kind(g, j) \in {"series", "annotation"} => DeletePriority(g, j) = 0
             /\ Kind(g, j) = "axes" => DeletePriority(g, j) = 1
             /\ Kind(g, j) = "figure" => DeletePriority(g, j) = 2
  BY DEF DeletePriority
<1>2. \A j : Kind(g, j) \in {"figure", "axes", "annotation", "series", "none"}
  BY DEF Kind
<1>3. \A j : /\ j \in DOMAIN g.figures <=> Kind(g, j) = "figure"
             /\ Kind(g, j) = "axes" => j \notin DOMAIN g.figures /\ IsAxes(g, j)
             /\ Kind(g, j) = "annotation" =>
                  j \notin DOMAIN g.figures /\ ~ IsAxes(g, j) /\ IsAnnotation(g, j)
             /\ Kind(g, j) = "series" =>
                  j \notin DOMAIN g.figures /\ ~ IsAxes(g, j) /\ ~ IsAnnotation(g, j)
                    /\ IsSeries(g, j)
  BY KindFound
<1>4. \A j : /\ j \in DOMAIN e.figures => Kind(e, j) = "figure"
             /\ j \notin DOMAIN e.figures /\ IsAxes(e, j) => Kind(e, j) = "axes"
             /\ j \notin DOMAIN e.figures /\ ~ IsAxes(e, j) /\ IsAnnotation(e, j)
                  => Kind(e, j) = "annotation"
             /\ j \notin DOMAIN e.figures /\ ~ IsAxes(e, j) /\ ~ IsAnnotation(e, j)
                  /\ IsSeries(e, j) => Kind(e, j) = "series"
  BY KindFound
<1>5. CASE Kind(g, h) \in {"series", "annotation"}
  <2>1. /\ Sound(m) /\ Grows(g, m) /\ CurrentAxes(m) /\ DOMAIN m = DOMAIN g
        /\ DOMAIN m.figures = DOMAIN g.figures /\ SameObjects(g, m)
    BY ForgottenSound
  <2>2. \/ e = [m EXCEPT !.series = {x \in @ : x.handle # h}]
        \/ e = [m EXCEPT !.annotations = {a \in @ : a.handle # h}]
    BY <1>5 DEF Deleted
  <2> HIDE DEF m
  <2>3. /\ DOMAIN e = DOMAIN m /\ e.figures = m.figures /\ e.axes = m.axes
        /\ e.series \subseteq m.series /\ e.annotations \subseteq m.annotations
        /\ \A x \in m.series : x.handle # h => x \in e.series
        /\ \A a \in m.annotations : a.handle # h => a \in e.annotations
        /\ e.current = m.current /\ SameCounts(m, e)
    BY <2>1, <2>2 DEF Sound, Typed, SameCounts
  <2> HIDE DEF e
  <2>4. Sound(e) /\ Grows(m, e) /\ CurrentAxes(e)
    BY <2>1, <2>3, Dropped
  <2>5. Grows(g, e)
    BY <2>1, <2>4, GrowsOn DEF Sound
  <2>6. ASSUME NEW j, j # h, Kind(g, j) # "none"
        PROVE  Kind(e, j) = Kind(g, j)
    <3>1. /\ DOMAIN e.figures = DOMAIN g.figures /\ e.axes = g.axes
          /\ e.series \subseteq g.series /\ e.annotations \subseteq g.annotations
          /\ \A x \in g.series : x.handle # h => x \in e.series
          /\ \A a \in g.annotations : a.handle # h => a \in e.annotations
      BY <2>1, <2>3 DEF SameObjects
    <3>2. /\ IsAxes(e, j) <=> IsAxes(g, j)
          /\ IsAnnotation(e, j) <=> IsAnnotation(g, j)
          /\ IsSeries(e, j) <=> IsSeries(g, j)
      BY <2>6, <3>1
    <3> HIDE DEF IsAxes, IsAnnotation, IsSeries
    <3> QED BY <1>2, <1>3, <1>4, <2>6, <3>1, <3>2
  <2> QED BY <2>4, <2>5, <2>6 DEF e
<1>6. CASE Kind(g, h) = "axes"
  <2>1. e = DeletedAxes(g, h)
    BY <1>6 DEF Deleted
  <2>2. /\ Sound(e) /\ Grows(g, e) /\ CurrentAxes(e)
        /\ DOMAIN e.figures = DOMAIN g.figures
        /\ \A s \in DOMAIN g.axes : g.axes[s].handle # h =>
             s \in DOMAIN e.axes /\ e.axes[s].handle = g.axes[s].handle
    BY <1>6, <2>1, DeletedAxesSound
  <2> HIDE DEF e
  <2>3. ASSUME NEW j, j # h, Kind(g, j) # "none",
               DeletePriority(g, h) <= DeletePriority(g, j)
        PROVE  Kind(e, j) = Kind(g, j)
    <3>1. Kind(g, j) \in {"figure", "axes"}
      <4>1. DeletePriority(g, h) = 1
        BY <1>1, <1>6
      <4> QED BY <1>1, <1>2, <2>3, <4>1
    <3>2. IsAxes(g, j) => IsAxes(e, j)
      BY <2>2, <2>3
    <3> HIDE DEF IsAxes, IsAnnotation, IsSeries
    <3> QED BY <1>3, <1>4, <2>2, <3>1, <3>2
  <2> QED BY <2>2, <2>3 DEF e
<1>7. CASE Kind(g, h) = "figure"
  <2>1. e = DeletedFigure(g, h)
    BY <1>7 DEF Deleted
  <2>2. /\ Sound(e) /\ Grows(g, e) /\ CurrentAxes(e)
        /\ DOMAIN e.figures = DOMAIN g.figures \ {h}
    BY <1>3, <1>7, <2>1, DeletedFigureSound
  <2> HIDE DEF e
  <2>3. ASSUME NEW j, j # h, Kind(g, j) # "none",
               DeletePriority(g, h) <= DeletePriority(g, j)
        PROVE  Kind(e, j) = Kind(g, j)
    <3>1. Kind(g, j) = "figure"
      <4>1. DeletePriority(g, h) = 2
        BY <1>1, <1>7
      <4> QED BY <1>1, <1>2, <2>3, <4>1
    <3> HIDE DEF IsAxes, IsAnnotation, IsSeries
    <3> QED BY <1>3, <1>4, <2>2, <2>3, <3>1
  <2> QED BY <2>2, <2>3 DEF e
<1> QED BY <1>2, <1>5, <1>6, <1>7


LEMMA DeletedCounts ==
  ASSUME NEW g, Typed(g), NEW h, Kind(g, h) # "none"
  PROVE  SameCounts(g, Deleted(g, h))
<1> DEFINE e == Deleted(g, h)
<1>0. DOMAIN g = {"figures", "axes", "series", "annotations", "current",
                  "nextFigure", "nextAxes", "nextSeries", "nextAnnotation"}
  BY DEF Typed
<1>1. CASE Kind(g, h) = "figure"
  BY <1>0, <1>1 DEF Deleted, DeletedFigure, AxesCleared, SameCounts
<1>2. CASE Kind(g, h) = "axes"
  BY <1>0, <1>2 DEF Deleted, DeletedAxes, SeriesCleared, SameCounts
<1>3. CASE Kind(g, h) = "series"
  BY <1>0, <1>3 DEF Deleted, Forgotten, SameCounts
<1>4. CASE Kind(g, h) = "annotation"
  BY <1>0, <1>4 DEF Deleted, Forgotten, SameCounts
<1> QED BY <1>1, <1>2, <1>3, <1>4 DEF Kind

LEMMA LastToGoIsLast ==
  ASSUME NEW g, NEW handles \in SUBSET Nat, IsFiniteSet(handles), handles # {}
  PROVE  /\ LastToGo(g, handles) \in handles
         /\ \A k \in handles :
              DeletePriority(g, k) <= DeletePriority(g, LastToGo(g, handles))
<1> DEFINE P(h) == DeletePriority(g, h)
           Last == {h \in handles : \A k \in handles : P(k) <= P(h)}
<1>1. \A h : P(h) \in {0, 1, 2}
  BY DEF DeletePriority
<1>2. Last # {}
  <2> HIDE DEF P
  <2>1. CASE \E h \in handles : P(h) = 2
    BY <1>1, <2>1
  <2>2. CASE (\A h \in handles : P(h) # 2) /\ \E h \in handles : P(h) = 1
    BY <1>1, <2>2
  <2>3. CASE \A h \in handles : P(h) # 2 /\ P(h) # 1
    BY <1>1, <2>3
  <2> QED BY <2>1, <2>2, <2>3
<1>3. Last \subseteq handles /\ LastToGo(g, handles) = Max(Last)
  BY DEF LastToGo
<1>4. IsFiniteSet(Last)
  BY <1>3, FS_Subset
<1>5. Max(Last) \in Last
  <2>1. Last \in SUBSET Nat
    BY <1>3
  <2> HIDE DEF Last
  <2> QED BY <1>2, <1>4, <2>1, MaxIsLargest
<1> QED BY <1>3, <1>5

\* One round of the loop of builtin_delete
Round(g, after, done) ==
  IF done = {} THEN [g |-> g, ok |-> TRUE]
  ELSE LET h == LastToGo(g, done)
           r == after[done \ {h}]
       IN  IF r.ok /\ Kind(r.g, h) # "none"
           THEN [g |-> Deleted(r.g, h), ok |-> TRUE]
           ELSE [g |-> r.g, ok |-> FALSE]

\* The loop has a result for any objects: they are finitely many.
LEMMA RoundsEnd ==
  ASSUME NEW g, NEW handles \in SUBSET Nat, IsFiniteSet(handles)
  PROVE  \E after : after = [done \in SUBSET handles |-> Round(g, after, done)]
<1> DEFINE Level(n) == {done \in SUBSET handles : Cardinality(done) <= n}
           Bad == {n \in Nat : ~ \E after : after = [done \in Level(n) |-> Round(g, after, done)]}
<1>1. \A done \in SUBSET handles : IsFiniteSet(done) /\ Cardinality(done) \in Nat
  BY FS_Subset, FS_CardinalityType
<1>2. Bad = {}
  <2> SUFFICES ASSUME Bad # {} PROVE FALSE
    OBVIOUS
  <2>1. PICK n \in Bad : \A k \in Bad : n <= k
    <3>1. Bad \in SUBSET Nat
      OBVIOUS
    <3> HIDE DEF Bad
    <3> QED BY <3>1, Smallest
  <2>2. n \in Nat /\ ~ \E after : after = [done \in Level(n) |-> Round(g, after, done)]
    BY <2>1
  <2>3. CASE n = 0
    <3>1. \A done \in Level(0) : done = {}
      BY <1>1, FS_EmptySet
    <3> DEFINE a == [done \in Level(0) |-> [g |-> g, ok |-> TRUE]]
    <3>2. \A after : \A done \in Level(0) : Round(g, after, done) = [g |-> g, ok |-> TRUE]
      BY <3>1 DEF Round
    <3> HIDE DEF Level
    <3>3. a = [done \in Level(0) |-> Round(g, a, done)]
      BY <3>2
    <3> QED BY <2>2, <2>3, <3>3
  <2>4. CASE n # 0
    <3>1. n - 1 \in Nat /\ n - 1 \notin Bad
      <4>1. n - 1 \in Nat /\ ~ (n <= n - 1)
        BY <2>2, <2>4
      <4> HIDE DEF Bad
      <4> QED BY <2>1, <4>1
    <3>2. PICK b : b = [done \in Level(n - 1) |-> Round(g, b, done)]
      BY <3>1
    <3> DEFINE a == [done \in Level(n) |->
                       IF done \in Level(n - 1) THEN b[done] ELSE Round(g, b, done)]
    <3>3. ASSUME NEW done \in Level(n), done # {}
          PROVE  done \ {LastToGo(g, done)} \in Level(n - 1)
      <4>1. done \in SUBSET Nat /\ IsFiniteSet(done)
        BY <1>1
      <4>2. LastToGo(g, done) \in done
        BY <3>3, <4>1, LastToGoIsLast
      <4>3. Cardinality(done \ {LastToGo(g, done)}) = Cardinality(done) - 1
        BY <4>1, <4>2, FS_RemoveElement
      <4>4. /\ done \in SUBSET handles /\ Cardinality(done) \in Nat
            /\ Cardinality(done) <= n
        BY <1>1
      <4>5. Cardinality(done \ {LastToGo(g, done)}) <= n - 1
        BY <2>2, <4>3, <4>4
      <4> QED BY <4>4, <4>5
    <3>4. Level(n - 1) \subseteq Level(n)
      BY <1>1, <2>2
    <3> HIDE DEF Level
    <3>5. \A done \in Level(n - 1) : a[done] = b[done]
      BY <3>4
    <3>6. ASSUME NEW done \in Level(n)
          PROVE  Round(g, a, done) = Round(g, b, done)
      <4>1. CASE done = {}
        BY <4>1 DEF Round
      <4>2. CASE done # {}
        <5>1. a[done \ {LastToGo(g, done)}] = b[done \ {LastToGo(g, done)}]
          BY <3>3, <3>5, <4>2
        <5> HIDE DEF a
        <5> QED BY <4>2, <5>1 DEF Round
      <4> QED BY <4>1, <4>2
    <3>7. \A done \in Level(n) : a[done] = Round(g, b, done)
      BY <3>2
    <3>8. a = [done \in Level(n) |-> Round(g, a, done)]
      <4>1. DOMAIN a = Level(n) /\ a = [done \in DOMAIN a |-> a[done]]
        OBVIOUS
      <4> HIDE DEF a
      <4> QED BY <3>6, <3>7, <4>1
    <3> QED BY <2>2, <3>8
  <2> QED BY <2>3, <2>4
<1>3. Cardinality(handles) \in Nat /\ Level(Cardinality(handles)) = SUBSET handles
  <2>1. \A done \in SUBSET handles : Cardinality(done) <= Cardinality(handles)
    BY FS_Subset
  <2> QED BY <1>1, <2>1
<1>4. Cardinality(handles) \notin Bad
  BY <1>2
<1> HIDE DEF Level
<1> QED BY <1>3, <1>4

\* The loop finds each object it comes to.
LEMMA DeletedAllSound ==
  ASSUME NEW g, Sound(g), CurrentAxes(g), NEW handles \in SUBSET Nat,
         IsFiniteSet(handles), \A h \in handles : Kind(g, h) # "none"
  PROVE  LET r == DeletedAll(g, handles)
         IN  /\ r.ok = TRUE /\ Sound(r.g) /\ Grows(g, r.g) /\ CurrentAxes(r.g)
             /\ SameCounts(g, r.g)
<1>1. PICK after : /\ after = [done \in SUBSET handles |-> Round(g, after, done)]
                   /\ DeletedAll(g, handles) = after[handles]
  <2> DEFINE result == CHOOSE after : after = [done \in SUBSET handles |-> Round(g, after, done)]
  <2>1. result = [done \in SUBSET handles |-> Round(g, result, done)]
    <3>1. \E after : after = [done \in SUBSET handles |-> Round(g, after, done)]
      BY RoundsEnd
    <3> QED BY <3>1
  <2>2. DeletedAll(g, handles) = result[handles]
    BY DEF DeletedAll, Round
  <2> HIDE DEF result
  <2> QED BY <2>1, <2>2
<1> DEFINE First(d) == \A k \in d, j \in handles \ d :
                         DeletePriority(g, k) <= DeletePriority(g, j)
           Good(d) == LET r == after[d] IN
             /\ r.ok = TRUE /\ Sound(r.g) /\ Grows(g, r.g) /\ CurrentAxes(r.g)
             /\ SameCounts(g, r.g)
             /\ \A j \in handles \ d : Kind(r.g, j) = Kind(g, j)
           Bad == {d \in SUBSET handles : First(d) /\ ~ Good(d)}
<1>2. Bad = {}
  <2> SUFFICES ASSUME Bad # {} PROVE FALSE
    OBVIOUS
  <2>1. PICK d \in Bad : \A c \in Bad : ~ (<<c, d>> \in StrictSubsetOrdering(handles))
    <3>1. Bad \subseteq FiniteSubsetsOf(handles)
      BY FS_FiniteSubsetsOfFinite
    <3> HIDE DEF Bad
    <3> QED BY <3>1, FS_StrictSubsetOrderingWellFounded, WFMin
  <2>2. d \in SUBSET handles /\ First(d) /\ ~ Good(d) /\ after[d] = Round(g, after, d)
    BY <1>1, <2>1
  <2>3. CASE d = {}
    <3>1. after[d] = [g |-> g, ok |-> TRUE]
      BY <2>2, <2>3 DEF Round
    <3>2. Grows(g, g) /\ SameCounts(g, g)
      BY GrowsNot DEF Sound, SameCounts
    <3> QED BY <2>2, <3>1, <3>2
  <2>4. CASE d # {}
    <3> DEFINE h == LastToGo(g, d)
               c == d \ {h}
               m == after[c].g
    <3>1. h \in d /\ \A k \in d : DeletePriority(g, k) <= DeletePriority(g, h)
      <4>1. d \in SUBSET Nat /\ IsFiniteSet(d)
        BY <2>2, FS_Subset
      <4> QED BY <2>4, <4>1, LastToGoIsLast
    <3>2. after[d] = IF after[c].ok /\ Kind(m, h) # "none"
                     THEN [g |-> Deleted(m, h), ok |-> TRUE]
                     ELSE [g |-> m, ok |-> FALSE]
      BY <2>2, <2>4 DEF Round
    <3> HIDE DEF h
    <3>3. First(c)
      BY <2>2, <3>1
    <3>4. c \notin Bad
      BY <2>1, <2>2, <3>1 DEF StrictSubsetOrdering
    <3>5. Good(c)
      BY <2>2, <3>3, <3>4
    <3>6. /\ after[c].ok = TRUE /\ Sound(m) /\ Grows(g, m) /\ CurrentAxes(m)
          /\ SameCounts(g, m)
          /\ \A j \in handles \ c : Kind(m, j) = Kind(g, j)
      BY <3>5
    <3>7. Kind(m, h) = Kind(g, h) /\ Kind(m, h) # "none"
      BY <2>2, <3>1, <3>6
    <3>8. after[d] = [g |-> Deleted(m, h), ok |-> TRUE]
      BY <3>2, <3>6, <3>7
    <3> DEFINE e == Deleted(m, h)
    <3> HIDE DEF m
    <3>9. /\ Sound(e) /\ Grows(m, e) /\ CurrentAxes(e)
          /\ \A j : /\ j # h /\ Kind(m, j) # "none"
                    /\ DeletePriority(m, h) <= DeletePriority(m, j)
                    => Kind(e, j) = Kind(m, j)
      BY <3>6, <3>7, DeletedSound
    <3>13. SameCounts(m, e)
      BY <3>6, <3>7, DeletedCounts DEF Sound
    <3> HIDE DEF e
    <3>10. Grows(g, e) /\ SameCounts(g, e)
      BY <3>6, <3>9, <3>13, GrowsOn DEF Sound, SameCounts
    <3>11. ASSUME NEW j \in handles \ d PROVE Kind(e, j) = Kind(g, j)
      <4>1. j # h /\ Kind(m, j) = Kind(g, j) /\ Kind(m, j) # "none"
        BY <2>2, <3>1, <3>6
      <4>2. /\ DeletePriority(m, h) = DeletePriority(g, h)
            /\ DeletePriority(m, j) = DeletePriority(g, j)
        BY <3>7, <4>1 DEF DeletePriority
      <4>3. DeletePriority(g, h) <= DeletePriority(g, j)
        BY <2>2, <3>1
      <4> QED BY <3>9, <4>1, <4>2, <4>3
    <3>12. after[d].g = e /\ after[d].ok = TRUE
      BY <3>8 DEF e
    <3> QED BY <2>2, <3>9, <3>10, <3>11, <3>12
  <2> QED BY <2>3, <2>4
<1>3. First(handles)
  OBVIOUS
<1>4. Good(handles)
  BY <1>2, <1>3
<1> QED BY <1>1, <1>4


LEMMA DeleteLeads ==
  ASSUME Ready, NEW handles \in DeleteLists, Delete(handles)
  PROVE  /\ Leads(graphics, graphics') /\ SameCounts(graphics, graphics')
         /\ halfDone' = FALSE
<1>1. Sound(graphics) /\ CurrentAxes(graphics) /\ Typed(graphics)
  BY DEF Ready, Sound
<1>2. Handles = Taken(graphics)
  BY DEF Handles, Axes, Taken
<1>3. handles \subseteq Taken(graphics)
  BY <1>2 DEF DeleteLists, kSubset
<1>4. Taken(graphics) \subseteq Nat
  BY <1>1 DEF Taken, Typed, AxesRecords, Positive
<1>5. IsFiniteSet(handles)
  BY <1>1, <1>3, TakenIsSmall, FS_Subset
<1>6. \A h \in handles : Kind(graphics, h) # "none"
  BY <1>3, NoneIsFree
<1> DEFINE r == DeletedAll(graphics, handles)
<1>7. /\ r.ok = TRUE /\ Sound(r.g) /\ Grows(graphics, r.g) /\ CurrentAxes(r.g)
      /\ SameCounts(graphics, r.g)
  BY <1>1, <1>3, <1>4, <1>5, <1>6, DeletedAllSound
<1>8. graphics' = r.g /\ halfDone' = (~ r.ok /\ r.g # graphics)
  BY DEF Delete
<1> HIDE DEF r
<1> QED BY <1>1, <1>7, <1>8, GrowsLeads

-----------------------------------------------------------------------------
\* copyobj

\* Taking n numbers one after the other has a result.
LEMMA ReservationsEnd ==
  ASSUME NEW g, NEW n \in Nat
  PROVE  \E reserved : reserved = [i \in 0 .. n |-> IF i = 0 THEN g ELSE Reserved(reserved[i - 1])]
<1> DEFINE Is(reserved, k) ==
             reserved = [i \in 0 .. k |-> IF i = 0 THEN g ELSE Reserved(reserved[i - 1])]
           Bad == {k \in Nat : ~ \E reserved : Is(reserved, k)}
<1>1. Bad = {}
  <2> SUFFICES ASSUME Bad # {} PROVE FALSE
    OBVIOUS
  <2>1. PICK k \in Bad : \A j \in Bad : k <= j
    <3>1. Bad \in SUBSET Nat
      OBVIOUS
    <3> HIDE DEF Bad
    <3> QED BY <3>1, Smallest
  <2>2. k \in Nat /\ ~ \E reserved : Is(reserved, k)
    BY <2>1
  <2>3. CASE k = 0
    <3> DEFINE a == [i \in 0 .. 0 |-> g]
    <3>1. Is(a, 0)
      OBVIOUS
    <3> HIDE DEF Is
    <3> QED BY <2>2, <2>3, <3>1
  <2>4. CASE k # 0
    <3>1. k - 1 \in Nat /\ ~ (k <= k - 1)
      BY <2>2, <2>4
    <3>2. k - 1 \notin Bad
      <4> HIDE DEF Bad
      <4> QED BY <2>1, <3>1
    <3>3. PICK b : Is(b, k - 1)
      <4> HIDE DEF Is
      <4> QED BY <3>1, <3>2
    <3> DEFINE a == [i \in 0 .. k |-> IF i = k THEN Reserved(b[k - 1]) ELSE b[i]]
    <3>4. \A i \in 0 .. k : i # k => i \in 0 .. k - 1
      BY <2>2
    <3>5. \A i \in 0 .. k : i # 0 => i - 1 \in 0 .. k /\ i - 1 # k
      BY <2>2
    <3>6. ASSUME NEW i \in 0 .. k
          PROVE  a[i] = IF i = 0 THEN g ELSE Reserved(a[i - 1])
      <4>1. CASE i = k
        <5>1. a[i] = Reserved(b[k - 1])
          BY <4>1
        <5>2. a[i - 1] = b[k - 1]
          BY <2>4, <3>5, <4>1
        <5> HIDE DEF a
        <5> QED BY <2>4, <4>1, <5>1, <5>2
      <4>2. CASE i # k
        <5>1. a[i] = b[i]
          BY <4>2
        <5>2. b[i] = IF i = 0 THEN g ELSE Reserved(b[i - 1])
          BY <3>3, <3>4, <4>2
        <5>3. i # 0 => a[i - 1] = b[i - 1]
          BY <3>5
        <5> HIDE DEF a
        <5> QED BY <5>1, <5>2, <5>3
      <4> QED BY <4>1, <4>2
    <3>7. DOMAIN a = 0 .. k /\ a = [i \in DOMAIN a |-> a[i]]
      OBVIOUS
    <3>8. Is(a, k)
      <4> HIDE DEF a
      <4> QED BY <3>6, <3>7
    <3> HIDE DEF Is
    <3> QED BY <2>2, <3>8
  <2> QED BY <2>3, <2>4
<1>2. n \notin Bad
  <2> HIDE DEF Bad
  <2> QED BY <1>1
<1> QED BY <1>2

LEMMA ReservedUpToFollows ==
  ASSUME NEW g, NEW n \in Nat
  PROVE  LET r == ReservedUpTo(g, n) IN
         r[0] = g /\ \A i \in 1 .. n : r[i] = Reserved(r[i - 1])
<1> DEFINE result == CHOOSE reserved :
             reserved = [i \in 0 .. n |-> IF i = 0 THEN g ELSE Reserved(reserved[i - 1])]
<1>1. ReservedUpTo(g, n) = result
  BY DEF ReservedUpTo
<1>2. result = [i \in 0 .. n |-> IF i = 0 THEN g ELSE Reserved(result[i - 1])]
  BY ReservationsEnd
<1> HIDE DEF result
<1>3. \A i \in 0 .. n : result[i] = IF i = 0 THEN g ELSE Reserved(result[i - 1])
  BY <1>2
<1>4. 0 \in 0 .. n /\ \A i \in 1 .. n : i \in 0 .. n /\ i # 0
  OBVIOUS
<1>5. result[0] = g /\ \A i \in 1 .. n : result[i] = Reserved(result[i - 1])
  BY <1>3, <1>4
<1> QED BY <1>1, <1>5

\* What taking numbers leaves as it is.
OnlyReserved(g, e) ==
  /\ Sound(e) /\ Grows(g, e) /\ CurrentAxes(e)
  /\ SameObjects(g, e) /\ e.figures = g.figures /\ e.current = g.current
  /\ e.nextAxes = g.nextAxes

LEMMA ReservedUpToSound ==
  ASSUME NEW g, Sound(g), CurrentAxes(g), NEW n \in Nat
  PROVE  LET r == ReservedUpTo(g, n) IN \A i \in 0 .. n : OnlyReserved(g, r[i])
<1> DEFINE r == ReservedUpTo(g, n)
           Bad == {i \in 0 .. n : ~ OnlyReserved(g, r[i])}
<1>1. r[0] = g /\ \A i \in 1 .. n : r[i] = Reserved(r[i - 1])
  BY ReservedUpToFollows
<1> HIDE DEF r
<1>2. Bad = {}
  <2> SUFFICES ASSUME Bad # {} PROVE FALSE
    OBVIOUS
  <2>1. PICK i \in Bad : \A j \in Bad : i <= j
    <3>1. Bad \in SUBSET Nat
      OBVIOUS
    <3> HIDE DEF Bad
    <3> QED BY <3>1, Smallest
  <2>2. i \in 0 .. n /\ ~ OnlyReserved(g, r[i])
    BY <2>1
  <2>3. CASE i = 0
    <3>1. OnlyReserved(g, g)
      BY GrowsNot DEF OnlyReserved, SameObjects, Sound
    <3> QED BY <1>1, <2>2, <2>3, <3>1
  <2>4. CASE i # 0
    <3>1. i - 1 \in 0 .. n /\ ~ (i <= i - 1) /\ i \in 1 .. n
      BY <2>2, <2>4
    <3>2. OnlyReserved(g, r[i - 1])
      BY <2>1, <3>1
    <3> DEFINE m == r[i - 1]
               e == Reserved(m)
    <3>3. Sound(m) /\ Grows(g, m) /\ CurrentAxes(m)
      BY <3>2 DEF OnlyReserved
    <3>4. r[i] = e
      BY <1>1, <3>1
    <3>5. /\ SameObjects(g, m) /\ m.figures = g.figures /\ m.current = g.current
          /\ m.nextAxes = g.nextAxes
      BY <3>2 DEF OnlyReserved
    <3> HIDE DEF m
    <3>6. /\ Sound(e) /\ Grows(m, e) /\ CurrentAxes(e)
          /\ SameObjects(m, e) /\ e.figures = m.figures /\ e.current = m.current
          /\ e.nextAxes = m.nextAxes
      BY <3>3, ReservedSound
    <3> HIDE DEF e
    <3>7. Grows(g, e)
      BY <3>3, <3>6, GrowsOn DEF Sound
    <3>8. OnlyReserved(g, e)
      BY <3>5, <3>6, <3>7 DEF OnlyReserved, SameObjects
    <3> QED BY <2>2, <3>4, <3>8
  <2> QED BY <2>3, <2>4
<1>3. \A i \in 0 .. n : OnlyReserved(g, r[i])
  BY <1>2
<1> QED BY <1>3 DEF r

\* No number is taken twice, and none is an object's.
LEMMA ReservedNumbers ==
  ASSUME NEW g, Sound(g), CurrentAxes(g), NEW n \in Nat
  PROVE  LET number(i) == SeriesNumber(ReservedUpTo(g, n)[i - 1]) IN
         /\ \A i \in 1 .. n :
              /\ number(i) \in Positive
              /\ FirstSeries <= number(i) /\ g.nextSeries <= number(i)
              /\ number(i) < ReservedUpTo(g, n)[n].nextSeries
              /\ Undrawn(g, number(i))
         /\ \A i, j \in 1 .. n : number(i) = number(j) => i = j
<1> DEFINE r == ReservedUpTo(g, n)
           number(i) == SeriesNumber(r[i - 1])
<1>1. r[0] = g /\ \A i \in 1 .. n : r[i] = Reserved(r[i - 1])
  BY ReservedUpToFollows
<1>2. \A i \in 0 .. n : OnlyReserved(g, r[i])
  BY ReservedUpToSound
<1> HIDE DEF r
<1>3. ASSUME NEW i \in 1 .. n
      PROVE  /\ number(i) \in Positive
             /\ FirstSeries <= number(i) /\ r[i - 1].nextSeries <= number(i)
             /\ number(i) < r[i].nextSeries
             /\ Undrawn(g, number(i))
             /\ r[i - 1].nextSeries <= r[i].nextSeries
  <2>1. i - 1 \in 0 .. n
    OBVIOUS
  <2>2. r[i] = Reserved(r[i - 1])
    BY <1>1
  <2>3. Sound(r[i - 1]) /\ r[i - 1].series = g.series
        /\ r[i - 1].annotations = g.annotations
    BY <1>2, <2>1 DEF OnlyReserved, SameObjects
  <2> DEFINE m == r[i - 1]
  <2>4. /\ SeriesNumber(m) \in Positive /\ FirstSeries <= SeriesNumber(m)
        /\ m.nextSeries <= SeriesNumber(m) /\ SeriesNumber(m) < Reserved(m).nextSeries
        /\ Undrawn(m, SeriesNumber(m))
        /\ Grows(m, Reserved(m))
    <3> HIDE DEF m
    <3>1. Sound(m)
      BY <2>3 DEF m
    <3> QED BY <3>1, ReservedSound
  <2> QED BY <2>2, <2>3, <2>4 DEF Grows, Counts, Undrawn
<1>4. \A i \in 0 .. n : r[i].nextSeries \in Nat /\ g.nextSeries <= r[i].nextSeries
  BY <1>2 DEF OnlyReserved, Sound, Typed, Grows, Counts
<1>5. g.nextSeries \in Nat /\ FirstSeries \in Nat
  BY GraphicsAssumption DEF Sound, Typed
<1> HIDE DEF number
<1>6. ASSUME NEW i \in 1 .. n, NEW j \in i .. n
      PROVE  number(i) < r[j].nextSeries
  <2> DEFINE Bad == {k \in i .. n : ~ (number(i) < r[k].nextSeries)}
  <2>1. Bad = {}
    <3> SUFFICES ASSUME Bad # {} PROVE FALSE
      OBVIOUS
    <3>1. PICK k \in Bad : \A l \in Bad : k <= l
      <4>1. Bad \in SUBSET Nat
        OBVIOUS
      <4> HIDE DEF Bad
      <4> QED BY <4>1, Smallest
    <3>2. k \in i .. n /\ ~ (number(i) < r[k].nextSeries)
      BY <3>1
    <3>3. k # i
      BY <1>3, <3>2
    <3>4. k - 1 \in i .. n /\ ~ (k <= k - 1) /\ k \in 1 .. n /\ k \in 0 .. n /\ k - 1 \in 0 .. n
      BY <3>2, <3>3
    <3>5. number(i) < r[k - 1].nextSeries
      BY <3>1, <3>4
    <3>6. r[k - 1].nextSeries <= r[k].nextSeries
      BY <1>3, <3>4
    <3>7. number(i) \in Nat /\ r[k - 1].nextSeries \in Nat /\ r[k].nextSeries \in Nat
      BY <1>3, <1>4, <3>4 DEF Positive
    <3> QED BY <3>2, <3>5, <3>6, <3>7
  <2> QED BY <2>1
<1>7. ASSUME NEW i \in 1 .. n
      PROVE  /\ number(i) \in Positive
             /\ FirstSeries <= number(i) /\ g.nextSeries <= number(i)
             /\ number(i) < r[n].nextSeries
             /\ Undrawn(g, number(i))
  <2>1. number(i) < r[n].nextSeries
    BY <1>6
  <2>2. number(i) \in Nat /\ i - 1 \in 0 .. n
    BY <1>3 DEF Positive
  <2>3. g.nextSeries <= number(i)
    BY <1>3, <1>4, <1>5, <2>2
  <2> QED BY <1>3, <2>1, <2>3
<1>8. \A i, j \in 1 .. n : i < j => number(i) < number(j)
  <2> TAKE i, j \in 1 .. n
  <2> HAVE i < j
  <2>1. j - 1 \in i .. n /\ j - 1 \in 0 .. n
    OBVIOUS
  <2>2. number(i) < r[j - 1].nextSeries
    BY <1>6, <2>1
  <2>3. r[j - 1].nextSeries <= number(j)
    BY <1>3
  <2>4. number(i) \in Nat /\ number(j) \in Nat /\ r[j - 1].nextSeries \in Nat
    BY <1>3, <1>4, <2>1 DEF Positive
  <2> QED BY <2>2, <2>3, <2>4
<1>9. \A i, j \in 1 .. n : number(i) = number(j) => i = j
  <2> TAKE i, j \in 1 .. n
  <2> HAVE number(i) = number(j)
  <2>1. number(i) \in Nat /\ ~ (i < j) /\ ~ (j < i)
    BY <1>7, <1>8 DEF Positive
  <2> QED BY <2>1
<1> QED BY <1>7, <1>9 DEF r, number


LEMMA CopySeriesLeads ==
  ASSUME Ready, NEW h, NEW target \in Axes, CopySeries(h, target)
  PROVE  Leads(graphics, graphics')
<1> DEFINE g == graphics
           m == Reserved(g)
           n == SeriesNumber(g)
           new == [slot |-> SlotOf(g, target), handle |-> n]
           S == {new}
           e == [m EXCEPT !.series = @ \cup S]
<1>1. Sound(g) /\ CurrentAxes(g)
  BY DEF Ready
<1>2. graphics' = WithObject(e, n)
  BY DEF CopySeries, Becomes
<1>3. SlotOf(g, target) \in DOMAIN g.axes
  BY SlotFound
<1>4. /\ Sound(m) /\ Grows(g, m) /\ CurrentAxes(m)
      /\ SameObjects(g, m)
      /\ n \in Positive /\ FirstSeries <= n /\ g.nextSeries <= n /\ n < m.nextSeries
      /\ Undrawn(g, n)
  <2> HIDE DEF g
  <2> QED BY <1>1, ReservedSound
<1> HIDE DEF g, m, n
<1>5. /\ DOMAIN e = DOMAIN m /\ e.series = m.series \cup S
      /\ e.figures = m.figures /\ e.axes = m.axes /\ e.annotations = m.annotations
      /\ e.current = m.current /\ SameCounts(m, e)
  BY <1>4 DEF Sound, Typed, SameCounts
<1>6. new \in [slot : DOMAIN m.axes, handle : Positive] /\ new.handle = n
  BY <1>3, <1>4 DEF SameObjects
<1>7. IsFiniteSet(S)
  BY FS_Singleton
<1> HIDE DEF e, new
<1>8. /\ S \subseteq [slot : DOMAIN m.axes, handle : Positive]
      /\ \A x \in S : /\ FirstSeries <= x.handle /\ g.nextSeries <= x.handle
                      /\ x.handle < m.nextSeries
      /\ \A x \in S : Undrawn(m, x.handle)
      /\ \A x, y \in S : x.handle = y.handle => x = y
  BY <1>4, <1>6 DEF SameObjects, Undrawn
<1>9. \E x \in e.series : x.handle = n
  BY <1>5, <1>6
<1> HIDE DEF S
<1>10. Sound(e) /\ Grows(g, e) /\ CurrentAxes(e)
  BY <1>1, <1>4, <1>5, <1>7, <1>8, SeriesAdded
<1>11. n \in Nat
  BY <1>4 DEF Positive
<1>12. Leads(g, WithObject(e, n))
  BY <1>1, <1>9, <1>10, <1>11, WithObjectLeads
<1> QED BY <1>2, <1>12 DEF g

LEMMA CopyAxesLeads ==
  ASSUME Ready, NEW h \in Axes, NEW f \in DOMAIN graphics.figures, CopyAxes(h, f)
  PROVE  Leads(graphics, graphics')
<1> DEFINE b == graphics
           source == SlotOf(b, h)
           copied == Cardinality({x \in b.series : x.slot = source})
           reserved == ReservedUpTo(b, copied)
           number(k) == SeriesNumber(reserved[k - 1])
           g == reserved[copied]
           n == Fresh(g, g.nextAxes, FirstAxes)
           i == Max(IndicesOf(g, f) \cup {0}) + 1
           slot == <<f, i>>
           axes == [g.axes[source] EXCEPT !.handle = n]
           m == [g EXCEPT !.nextAxes = n + 1, !.axes = With(g.axes, slot, axes)]
           S == {[slot |-> slot, handle |-> number(k)] : k \in 1 .. copied}
           e == [g EXCEPT !.nextAxes = n + 1, !.axes = With(g.axes, slot, axes),
                          !.series = @ \cup S]
<1>1. Sound(b) /\ CurrentAxes(b) /\ source \in DOMAIN b.axes /\ f \in DOMAIN b.figures
  BY SlotFound DEF Ready
<1>2. graphics' = WithObject(e, n)
  BY DEF CopyAxes, Becomes
<1>3. copied \in Nat
  <2>1. IsFiniteSet(b.series)
    BY <1>1 DEF Sound, Typed
  <2>2. IsFiniteSet({x \in b.series : x.slot = source})
    BY <2>1, FS_Subset
  <2> QED BY <2>2, FS_CardinalityType
<1>4. /\ Sound(g) /\ Grows(b, g) /\ CurrentAxes(g) /\ SameObjects(b, g)
      /\ g.figures = b.figures
  <2>1. copied \in 0 .. copied
    BY <1>3
  <2> HIDE DEF b, copied
  <2>2. OnlyReserved(b, reserved[copied])
    BY <1>1, <1>3, <2>1, ReservedUpToSound
  <2> QED BY <2>2 DEF OnlyReserved
<1>5. /\ \A k \in 1 .. copied :
           /\ number(k) \in Positive
           /\ FirstSeries <= number(k) /\ b.nextSeries <= number(k)
           /\ number(k) < g.nextSeries
           /\ Undrawn(b, number(k))
      /\ \A j, k \in 1 .. copied : number(j) = number(k) => j = k
  <2> HIDE DEF b, copied
  <2> QED BY <1>1, <1>3, ReservedNumbers
<1> HIDE DEF number, b, source, copied
<1> HIDE DEF reserved
<1> HIDE DEF g
<1>6. f \in DOMAIN g.figures /\ source \in DOMAIN g.axes
  BY <1>1, <1>4 DEF SameObjects
<1>7. i \in Positive /\ slot \notin DOMAIN g.axes /\ (SlotsOf(g, f) = {} => i = 1)
  BY <1>4, NextIndexIsPositive
<1> HIDE DEF i
<1>8. n \in Positive /\ n >= g.nextAxes /\ n >= FirstAxes /\ n \notin Taken(g)
  <2>1. Typed(g) /\ g.nextAxes \in Nat /\ FirstAxes \in Nat /\ FirstAxes > 1
    BY <1>4, GraphicsAssumption DEF Sound, Typed
  <2>2. /\ Fresh(g, g.nextAxes, FirstAxes) \in Nat
        /\ Fresh(g, g.nextAxes, FirstAxes) >= g.nextAxes
        /\ Fresh(g, g.nextAxes, FirstAxes) >= FirstAxes
        /\ Fresh(g, g.nextAxes, FirstAxes) \notin Taken(g)
    BY <2>1, FreshIsFree
  <2> HIDE DEF n
  <2>3. n \in Nat /\ n >= g.nextAxes /\ n >= FirstAxes /\ n \notin Taken(g)
    BY <2>2 DEF n
  <2> QED BY <2>1, <2>3 DEF Positive
<1> HIDE DEF n
<1>9. axes \in AxesRecords /\ axes.handle = n
  <2>1. g.axes[source] \in AxesRecords
    BY <1>4, <1>6 DEF Sound, Typed
  <2> QED BY <2>1, <1>8 DEF AxesRecords
<1>10. DOMAIN g = {"figures", "axes", "series", "annotations", "current",
                   "nextFigure", "nextAxes", "nextSeries", "nextAnnotation"}
  BY <1>4 DEF Sound, Typed
<1> HIDE DEF axes
<1>11. /\ DOMAIN m = DOMAIN g /\ m.axes = With(g.axes, slot, axes)
       /\ m.figures = g.figures /\ m.series = g.series /\ m.annotations = g.annotations
       /\ m.current = g.current /\ m.nextFigure = g.nextFigure
       /\ m.nextAxes = axes.handle + 1 /\ m.nextSeries = g.nextSeries
       /\ m.nextAnnotation = g.nextAnnotation
  BY <1>9, <1>10
<1>12. /\ DOMAIN e = DOMAIN m /\ e.series = m.series \cup S
       /\ e.figures = m.figures /\ e.axes = m.axes /\ e.annotations = m.annotations
       /\ e.current = m.current /\ SameCounts(m, e)
  <2> HIDE DEF S, slot
  <2> QED BY <1>10 DEF SameCounts
<1> HIDE DEF m, e
<1>13. slot \in DOMAIN m.axes /\ m.axes[slot].handle = n /\ DOMAIN g.axes \subseteq DOMAIN m.axes
  BY <1>9, <1>11 DEF With
<1>14. /\ Sound(m) /\ Grows(g, m)
       /\ \A k \in DOMAIN g.figures : CurrentAt(g, k) /\ k # f => CurrentAt(m, k)
  <2>1. axes.handle \notin Taken(g) /\ FirstAxes <= axes.handle /\ g.nextAxes <= axes.handle
    BY <1>8, <1>9, <1>4, GraphicsAssumption DEF Sound, Typed, Positive
  <2> QED BY <1>4, <1>6, <1>7, <1>9, <1>11, <2>1, AxesAdded
<1>15. CurrentAxes(m)
  <2> SUFFICES ASSUME NEW k \in DOMAIN m.figures PROVE CurrentAt(m, k)
    BY DEF CurrentAxes
  <2>1. k \in DOMAIN g.figures /\ CurrentAt(g, k) /\ m.figures = g.figures
    BY <1>4, <1>11 DEF CurrentAxes
  <2>2. CASE k # f
    BY <1>14, <2>1, <2>2
  <2>3. CASE k = f /\ <<f, g.figures[f].currentAxes>> \in DOMAIN g.axes
    BY <1>13, <2>1, <2>3 DEF CurrentAt
  <2>4. CASE k = f /\ SlotsOf(g, f) = {} /\ g.figures[f].currentAxes = 1
    <3>1. slot = <<f, m.figures[f].currentAxes>>
      BY <1>7, <2>1, <2>4
    <3> QED BY <1>13, <2>4, <3>1 DEF CurrentAt
  <2> QED BY <2>1, <2>2, <2>3, <2>4 DEF CurrentAt
<1>16. Grows(b, m)
  BY <1>1, <1>4, <1>14, GrowsOn DEF Sound
<1>17. IsFiniteSet(S)
  <2> DEFINE new == [k \in 1 .. copied |-> [slot |-> slot, handle |-> number(k)]]
  <2>1. S = {new[k] : k \in 1 .. copied}
    OBVIOUS
  <2>2. DOMAIN new = 1 .. copied
    OBVIOUS
  <2>3. IsFiniteSet(1 .. copied)
    BY <1>3, FS_Interval
  <2>4. IsFiniteSet({new[k] : k \in 1 .. copied})
    <3> HIDE DEF new
    <3> QED BY <2>2, <2>3, ImageIsSmall
  <2> QED BY <2>1, <2>4
<1>18. S \subseteq [slot : DOMAIN m.axes, handle : Positive]
  <2> HIDE DEF slot
  <2> QED BY <1>5, <1>13
<1>19. \A x \in S : \E k \in 1 .. copied : x.handle = number(k) /\ x.slot = slot
  <2> HIDE DEF slot
  <2> QED OBVIOUS
<1>20. \A x, y \in S : x.handle = y.handle => x = y
  <2> HIDE DEF slot
  <2> QED BY <1>5
<1> HIDE DEF S
<1>21. \A x \in S : /\ FirstSeries <= x.handle /\ b.nextSeries <= x.handle
                    /\ x.handle < m.nextSeries
  BY <1>5, <1>11, <1>19
<1>22. \A x \in S : Undrawn(m, x.handle)
  BY <1>4, <1>5, <1>11, <1>19 DEF SameObjects, Undrawn
<1>23. Sound(e) /\ Grows(b, e) /\ CurrentAxes(e)
  BY <1>1, <1>12, <1>14, <1>15, <1>16, <1>17, <1>18, <1>20, <1>21, <1>22, SeriesAdded
<1>24. \E s \in DOMAIN e.axes : e.axes[s].handle = n
  BY <1>12, <1>13
<1>25. n \in Nat
  BY <1>8 DEF Positive
<1>26. Leads(b, WithObject(e, n))
  BY <1>1, <1>23, <1>24, <1>25, WithObjectLeads
<1> QED BY <1>2, <1>26 DEF b


-----------------------------------------------------------------------------
(***************************************************************************)
(* The invariant, and the theorems.                                        *)
(***************************************************************************)
LEMMA GInvStarts ==
  ASSUME Init
  PROVE  GInv
<1> DEFINE g == graphics
<1>1. g = [figures |-> [h \in {} |-> NewFigure], axes |-> [s \in {} |-> NewAxes(0)],
           series |-> {}, annotations |-> {}, current |-> None,
           nextFigure |-> 0, nextAxes |-> 0, nextSeries |-> 0, nextAnnotation |-> 0]
  BY DEF Init
<1> HIDE DEF g
<1>2. /\ DOMAIN g = {"figures", "axes", "series", "annotations", "current",
                     "nextFigure", "nextAxes", "nextSeries", "nextAnnotation"}
      /\ g.figures = [h \in {} |-> NewFigure] /\ g.axes = [s \in {} |-> NewAxes(0)]
      /\ g.series = {} /\ g.annotations = {} /\ g.current = None
      /\ g.nextFigure = 0 /\ g.nextAxes = 0 /\ g.nextSeries = 0 /\ g.nextAnnotation = 0
  BY <1>1
<1>3. DOMAIN g.figures = {} /\ DOMAIN g.axes = {}
  BY <1>2
<1>4. Typed(g)
  <2>1. /\ g.figures \in [DOMAIN g.figures -> FigureRecords]
        /\ g.axes \in [DOMAIN g.axes -> AxesRecords]
    BY <1>2
  <2> QED BY <1>2, <1>3, <2>1, FS_EmptySet DEF Typed
<1>5. Distinct(g) /\ Linked(g) /\ Agreed(g) /\ Numbered(g) /\ CurrentAxes(g) /\ Objects(g)
  BY <1>2, <1>3 DEF Distinct, Linked, Agreed, Numbered, CurrentAxes, Objects
<1>6. BelowSeries(g) /\ InRange(g)
  BY <1>2, GraphicsAssumption DEF BelowSeries, InRange
<1> QED BY <1>4, <1>5, <1>6 DEF GInv, Init, Sound, g

\* The bounds keep the counters below the numbers of the next kind.
LEMMA BoundsHold ==
  ASSUME NEW g, Sound(g), InBounds(g)
  PROVE  /\ FiguresApart => BelowSeries(g)
         /\ RangesApart => InRange(g)
BY GraphicsAssumption
   DEF Sound, Typed, InBounds, FiguresApart, RangesApart, BelowSeries, InRange

\* Every call but delete stops at the bounds.
LEMMA CallsAreBounded ==
  ASSUME Call, ~ \E handles \in DeleteLists : Delete(handles)
  PROVE  InBounds(graphics') /\ halfDone' = FALSE
<1>1. CASE Figure
  BY <1>1 DEF Figure, Becomes
<1>2. CASE \E h \in Requests : FigureNumber(h)
  BY <1>2 DEF FigureNumber, Becomes
<1>3. CASE Clf
  BY <1>3 DEF Clf, Becomes
<1>4. CASE Gca
  BY <1>4 DEF Gca, Becomes
<1>5. CASE NewFreeAxes
  BY <1>5 DEF NewFreeAxes, Becomes
<1>6. CASE \E h \in Axes : SelectAxes(h) \/ ResetAxes(h)
  BY <1>6 DEF SelectAxes, ResetAxes, Becomes
<1>7. CASE \E layout \in Layouts :
             TiledLayout(layout) \/ \E index \in Tiles(layout) : Subplot(layout, index)
  BY <1>7 DEF TiledLayout, Subplot, Becomes
<1>8. CASE NextTile
  BY <1>8 DEF NextTile, Becomes
<1>9. CASE Plot
  BY <1>9 DEF Plot, Becomes
<1>10. CASE Quiver
  BY <1>10 DEF Quiver, Becomes
<1>11. CASE Line
  BY <1>11 DEF Line, Becomes
<1>12. CASE Annotation
  BY <1>12 DEF Annotation, Becomes
<1>13. CASE Hold
  BY <1>13 DEF Hold, Becomes
<1>14. CASE Cla
  BY <1>14 DEF Cla, Becomes
<1>15. CASE \E x \in graphics.series, h \in Axes : CopySeries(x.handle, h)
  BY <1>15 DEF CopySeries, Becomes
<1>16. CASE \E h \in Axes, f \in DOMAIN graphics.figures : CopyAxes(h, f)
  BY <1>16 DEF CopyAxes, Becomes
<1>17. CASE \E f \in DOMAIN graphics.figures :
              \E handles \in SUBSET AxesHandles(graphics, f) \ {{}}, mode \in SUBSET Dims :
                LinkAxes(f, handles, mode)
  BY <1>17 DEF LinkAxes, Becomes
<1>18. CASE SetLimits
  BY <1>18 DEF SetLimits, Becomes
<1>19. CASE AxisAuto
  BY <1>19 DEF AxisAuto, Becomes
<1> QED BY <1>1, <1>2, <1>3, <1>4, <1>5, <1>6, <1>7, <1>8, <1>9, <1>10, <1>11, <1>12,
           <1>13, <1>14, <1>15, <1>16, <1>17, <1>18, <1>19 DEF Call

\* Every call but delete, builtin by builtin
LEMMA CallsLead ==
  ASSUME Ready, Call, ~ \E handles \in DeleteLists : Delete(handles)
  PROVE  Leads(graphics, graphics')
<1>1. CASE Figure
  BY <1>1, FigureLeads
<1>2. CASE \E h \in Requests : FigureNumber(h)
  BY <1>2, FigureNumberLeads
<1>3. CASE Clf
  BY <1>3, ClfLeads
<1>4. CASE Gca
  BY <1>4, GcaLeads
<1>5. CASE NewFreeAxes
  BY <1>5, NewFreeAxesLeads
<1>6. CASE \E h \in Axes : SelectAxes(h) \/ ResetAxes(h)
  BY <1>6, SelectAxesLeads, ResetAxesLeads
<1>7. CASE \E layout \in Layouts :
             TiledLayout(layout) \/ \E index \in Tiles(layout) : Subplot(layout, index)
  BY <1>7, TiledLayoutLeads, SubplotLeads
<1>8. CASE NextTile
  BY <1>8, NextTileLeads
<1>9. CASE Plot
  BY <1>9, PlotLeads
<1>10. CASE Quiver
  BY <1>10, QuiverLeads
<1>11. CASE Line
  BY <1>11, LineLeads
<1>12. CASE Annotation
  BY <1>12, AnnotationLeads
<1>13. CASE Hold
  BY <1>13, HoldLeads
<1>14. CASE Cla
  BY <1>14, ClaLeads
<1>15. CASE \E x \in graphics.series, h \in Axes : CopySeries(x.handle, h)
  BY <1>15, CopySeriesLeads
<1>16. CASE \E h \in Axes, f \in DOMAIN graphics.figures : CopyAxes(h, f)
  BY <1>16, CopyAxesLeads
<1>17. CASE \E f \in DOMAIN graphics.figures :
              \E handles \in SUBSET AxesHandles(graphics, f) \ {{}}, mode \in SUBSET Dims :
                LinkAxes(f, handles, mode)
  BY <1>17, LinkAxesLeads
<1>18. CASE SetLimits
  BY <1>18, SetLimitsLeads
<1>19. CASE AxisAuto
  BY <1>19, AxisAutoLeads
<1> QED BY <1>1, <1>2, <1>3, <1>4, <1>5, <1>6, <1>7, <1>8, <1>9, <1>10, <1>11, <1>12,
           <1>13, <1>14, <1>15, <1>16, <1>17, <1>18, <1>19 DEF Call

LEMMA GInvStays ==
  ASSUME GInv, [Next]_vars
  PROVE  GInv'
<1>1. CASE UNCHANGED vars
  <2>1. graphics' = graphics /\ halfDone' = halfDone
    BY <1>1 DEF vars
  <2> QED BY <2>1 DEF GInv
<1>2. CASE Next
  <2>1. Call /\ Ready
    BY <1>2 DEF Next, GInv, Ready
  <2>2. /\ Leads(graphics, graphics') /\ halfDone' = FALSE
        /\ InBounds(graphics') \/ SameCounts(graphics, graphics')
    <3>1. CASE \E handles \in DeleteLists : Delete(handles)
      BY <2>1, <3>1, DeleteLeads
    <3>2. CASE ~ \E handles \in DeleteLists : Delete(handles)
      BY <2>1, <3>2, CallsLead, CallsAreBounded
    <3> QED BY <3>1, <3>2
  <2>3. Sound(graphics') /\ CurrentAxes(graphics')
    BY <2>2 DEF Leads
  <2>4. /\ FiguresApart => BelowSeries(graphics')
        /\ RangesApart => InRange(graphics')
    <3>1. CASE InBounds(graphics')
      BY <2>3, <3>1, BoundsHold
    <3>2. CASE SameCounts(graphics, graphics')
      BY <3>2 DEF GInv, SameCounts, BelowSeries, InRange
    <3> QED BY <2>2, <3>1, <3>2
  <2>5. RangesApart => Objects(graphics')
    BY <2>2, <2>4 DEF GInv, Leads
  <2> QED BY <2>2, <2>3, <2>4, <2>5 DEF GInv
<1> QED BY <1>1, <1>2

\* What the invariant says holds in every state.
THEOREM GraphicsAreSound == Spec => []GInv
<1>1. Init => GInv
  BY GInvStarts
<1>2. GInv /\ [Next]_vars => GInv'
  BY GInvStays
<1> QED BY <1>1, <1>2, PTL DEF Spec

\* What is current exists, and every object lies in one that exists.
THEOREM GraphicsTypeOK == Spec => []TypeOK
<1>1. GInv => TypeOK
  <2> SUFFICES ASSUME GInv PROVE TypeOK
    OBVIOUS
  <2>1. Typed(graphics) /\ halfDone = FALSE
    BY DEF GInv, Sound
  <2> QED BY <2>1 DEF Typed, TypeOK
<1> QED BY <1>1, GraphicsAreSound, PTL

\* Groups of linked axes are of two or more axes, in one figure, and apart,
\* whatever axes were deleted, cleared, moved to other layouts or linked again.
THEOREM LinksStaySound == Spec => []LinksAreSound
<1>1. GInv => LinksAreSound
  BY DEF GInv, Sound, Linked, LinksAreSound
<1> QED BY <1>1, GraphicsAreSound, PTL

\* Linked axes have the same limits, as far as both are fixed.
THEOREM LinkedLimitsStayEqual == Spec => []LinkedLimitsAgree
<1>1. GInv => LinkedLimitsAgree
  BY DEF GInv, Sound, Agreed, LinkedLimitsAgree
<1> QED BY <1>1, GraphicsAreSound, PTL

\* A delete of several objects is never left half done: in the order of the
\* loop, no object is gone before its turn.
THEOREM DeletesEndWhole == Spec => []DeletesAreWhole
<1>1. GInv => DeletesAreWhole
  BY DEF GInv, DeletesAreWhole
<1> QED BY <1>1, GraphicsAreSound, PTL

\* A function that gives no value twice has as many values as arguments.
LEMMA ImageIsAsLarge ==
  ASSUME NEW S, IsFiniteSet(S), NEW f, DOMAIN f = S,
         \A x, y \in S : f[x] = f[y] => x = y
  PROVE  Cardinality({f[x] : x \in S}) = Cardinality(S)
<1> DEFINE T == {f[x] : x \in S}
           m == [x \in S |-> f[x]]
<1>1. m \in Bijection(S, T)
  BY DEF Bijection, Injection, Surjection, IsInjective
<1> HIDE DEF m, T
<1>2. Cardinality(T) = Cardinality(S)
  BY <1>1, FS_Bijection DEF ExistsBijection
<1> QED BY <1>2 DEF T

\* No number is the handle of two objects, as long as figures and axes do not
\* come to the numbers of series; of series and annotations there may be any
\* number.
THEOREM HandlesStayUnique ==
  ASSUME FiguresApart PROVE Spec => []HandlesAreUnique
<1>1. GInv => HandlesAreUnique
  <2> SUFFICES ASSUME GInv PROVE HandlesAreUnique
    OBVIOUS
  <2> DEFINE g == graphics
             figures == DOMAIN g.figures
             axes == {g.axes[s].handle : s \in DOMAIN g.axes}
             series == {x.handle : x \in g.series}
             annotations == {a.handle : a \in g.annotations}
  <2>1. Typed(g) /\ Distinct(g) /\ Numbered(g) /\ BelowSeries(g)
    BY DEF GInv, Sound
  <2> HIDE DEF g
  <2>2. figures \cap axes = {}
    BY <2>1 DEF Distinct
  <2>3. FirstSeries \in Nat /\ FirstAnnotation \in Nat /\ FirstSeries < FirstAnnotation
    BY GraphicsAssumption
  <2>4. /\ g.nextFigure \in Nat /\ g.nextAxes \in Nat
        /\ g.nextFigure <= FirstSeries /\ g.nextAxes <= FirstSeries
    BY <2>1 DEF Typed, BelowSeries
  <2>5. /\ \A n \in figures : n \in Nat /\ n < FirstSeries
        /\ \A n \in axes : n \in Nat /\ n < FirstSeries
    <3>1. \A n \in figures : n \in Nat /\ n < g.nextFigure
      BY <2>1 DEF Typed, Numbered, Positive
    <3>2. \A n \in axes : n \in Nat /\ n < g.nextAxes
      BY <2>1 DEF Typed, Numbered, Positive, AxesRecords
    <3> HIDE DEF figures, axes
    <3> QED BY <2>3, <2>4, <3>1, <3>2
  <2>6. /\ \A n \in series : n \in Nat /\ FirstSeries <= n
        /\ \A n \in annotations : n \in Nat /\ FirstSeries <= n
    BY <2>1, <2>3 DEF Typed, Numbered, Positive
  <2>7. series \cap annotations = {}
    BY <2>1 DEF Numbered
  <2>8. Cardinality(DOMAIN g.axes) = Cardinality(axes)
    <3> DEFINE f == [s \in DOMAIN g.axes |-> g.axes[s].handle]
    <3>1. axes = {f[s] : s \in DOMAIN g.axes} /\ DOMAIN f = DOMAIN g.axes
      OBVIOUS
    <3>2. \A s, t \in DOMAIN g.axes : f[s] = f[t] => s = t
      BY <2>1 DEF Distinct
    <3>3. IsFiniteSet(DOMAIN g.axes)
      BY <2>1 DEF Typed
    <3> HIDE DEF f, axes
    <3>4. Cardinality({f[s] : s \in DOMAIN g.axes}) = Cardinality(DOMAIN g.axes)
      BY <3>1, <3>2, <3>3, ImageIsAsLarge
    <3> QED BY <3>1, <3>4
  <2>9. Cardinality(g.series) = Cardinality(series)
    <3> DEFINE f == [x \in g.series |-> x.handle]
    <3>1. series = {f[x] : x \in g.series} /\ DOMAIN f = g.series
      OBVIOUS
    <3>2. \A x, y \in g.series : f[x] = f[y] => x = y
      BY <2>1 DEF Numbered
    <3>3. IsFiniteSet(g.series)
      BY <2>1 DEF Typed
    <3> HIDE DEF f, series
    <3>4. Cardinality({f[x] : x \in g.series}) = Cardinality(g.series)
      BY <3>1, <3>2, <3>3, ImageIsAsLarge
    <3> QED BY <3>1, <3>4
  <2>10. Axes = axes
    BY DEF Axes, g
  <2> HIDE DEF figures, axes, series, annotations
  <2>11. /\ figures \cap series = {} /\ figures \cap annotations = {}
         /\ axes \cap series = {} /\ axes \cap annotations = {}
    BY <2>3, <2>5, <2>6
  <2> DEFINE numbers == [k \in {"figure", "axes", "series", "annotation"} |->
               CASE k = "figure" -> figures [] k = "axes" -> axes
                 [] k = "series" -> series [] k = "annotation" -> annotations]
  <2>12. /\ DOMAIN numbers = {"figure", "axes", "series", "annotation"}
         /\ numbers["figure"] = figures /\ numbers["axes"] = axes
         /\ numbers["series"] = series /\ numbers["annotation"] = annotations
    OBVIOUS
  <2>13. HandlesAreUnique =
           (/\ \A k, l \in DOMAIN numbers : k # l => numbers[k] \cap numbers[l] = {}
            /\ Cardinality(DOMAIN g.axes) = Cardinality(numbers["axes"])
            /\ Cardinality(g.series) = Cardinality(numbers["series"]))
    BY <2>10 DEF HandlesAreUnique, figures, series, annotations, g
  <2> HIDE DEF numbers
  <2>14. \A k, l \in DOMAIN numbers : k # l => numbers[k] \cap numbers[l] = {}
    BY <2>2, <2>7, <2>11, <2>12
  <2> QED BY <2>8, <2>9, <2>12, <2>13, <2>14
<1> QED BY <1>1, GraphicsAreSound, PTL

\* Plots go to axes that are there, and no figure has an object of another one
\* for its current one, as long as the kinds have their numbers for themselves.
THEOREM CurrentStaysOwn ==
  ASSUME RangesApart PROVE Spec => []CurrentIsOwn
<1>1. GInv => CurrentIsOwn
  <2> SUFFICES ASSUME GInv, NEW f \in DOMAIN graphics.figures
               PROVE  LET figure == graphics.figures[f] IN
                      /\ SlotsOf(graphics, f) # {} => <<f, figure.currentAxes>> \in DOMAIN graphics.axes
                      /\ Kind(graphics, figure.currentObject) \in {"axes", "series", "annotation"}
                           => FigureOf(graphics, figure.currentObject) = f
    BY DEF CurrentIsOwn
  <2> DEFINE g == graphics
             o == g.figures[f].currentObject
  <2>1. CurrentAt(g, f) /\ Lies(g, f, o)
    BY DEF GInv, CurrentAxes, Objects, ObjectOwn
  <2>2. SlotsOf(g, f) # {} => <<f, g.figures[f].currentAxes>> \in DOMAIN g.axes
    BY <2>1 DEF CurrentAt
  <2> HIDE DEF g, o
  <2>3. CASE Kind(g, o) = "axes"
    <3>1. SlotOf(g, o) \in DOMAIN g.axes /\ g.axes[SlotOf(g, o)].handle = o
      BY <2>3, KindFound DEF SlotOf
    <3> QED BY <2>1, <2>2, <2>3, <3>1 DEF FigureOf, Lies, g, o
  <2>4. CASE Kind(g, o) = "annotation"
    <3> DEFINE a == CHOOSE a \in g.annotations : a.handle = o
    <3>1. a \in g.annotations /\ a.handle = o
      BY <2>4, KindFound
    <3>2. FigureOf(g, o) = a.figure
      BY <2>4 DEF FigureOf
    <3> QED BY <2>1, <2>2, <3>1, <3>2 DEF Lies, g, o
  <2>5. CASE Kind(g, o) = "series"
    <3> DEFINE x == CHOOSE x \in g.series : x.handle = o
    <3>1. x \in g.series /\ x.handle = o
      BY <2>5, KindFound
    <3>2. FigureOf(g, o) = x.slot[1]
      BY <2>5 DEF FigureOf
    <3> QED BY <2>1, <2>2, <3>1, <3>2 DEF Lies, g, o
  <2> QED BY <2>2, <2>3, <2>4, <2>5 DEF g, o
<1> QED BY <1>1, GraphicsAreSound, PTL
=============================================================================
