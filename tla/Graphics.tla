------------------------------ MODULE Graphics ------------------------------
(***************************************************************************)
(* The graphics objects of a program: figures, the axes in their slots,    *)
(* the series drawn in axes and the annotations of a figure, as graphics.rs *)
(* keeps them in GraphicsState.  One action per builtin that changes which *)
(* objects there are, what is current, what is linked or what limits axes  *)
(* have.                                                                   *)
(*                                                                         *)
(* Every object has a number, its handle.  The numbers of the four kinds   *)
(* start at different places (1, 1001, 2001, 3001 in the code), but a      *)
(* figure may be given any number that is free.                            *)
(*                                                                         *)
(* What is drawn is left out: a limit is one of a few values, and limits   *)
(* that are not fixed follow the data, so they may be any of them.  Calls  *)
(* that fail before they change anything are left out too.                 *)
(***************************************************************************)
EXTENDS Integers, FiniteSets, FiniteSetsExt

CONSTANTS FirstAxes, FirstSeries, FirstAnnotation,  \* where the handles of a kind start
          Requests,      \* the numbers programs ask for with figure(n)
          Rows, Columns, \* what layouts are made of
          Dims, Limits,  \* the dimensions of axes, the values of a limit
          MaxTiles,      \* bound: tiles of a layout
          MaxCalls,      \* bound: calls of a program
          MaxFigure, MaxAxes, MaxSeries, MaxAnnotation   \* bounds: largest handles

ASSUME GraphicsAssumption ==
  /\ {FirstAxes, FirstSeries, FirstAnnotation} \subseteq Nat
  /\ 1 < FirstAxes /\ FirstAxes < FirstSeries /\ FirstSeries < FirstAnnotation
  /\ Requests \subseteq Nat \ {0} /\ Rows \cup Columns \subseteq Nat \ {0}
  /\ Limits \subseteq Nat \ {0}
  /\ {MaxFigure, MaxAxes, MaxSeries, MaxAnnotation} \subseteq Nat

VARIABLES graphics,   \* GraphicsState
          calls,      \* bounded by MaxCalls
          halfDone    \* the last call was a delete that failed after objects went

vars == <<graphics, calls, halfDone>>

None == 0
AutoLimit == 0        \* the limit is not fixed

\* The rows and columns of a layout; a tile is an index in it.
Layouts  == {l \in Rows \X Columns : l[1] * l[2] <= MaxTiles}
Tiles(l) == 1 .. l[1] * l[2]

\* FigureState::default, AxesState::default
NewFigure == [layout |-> <<1, 1>>, currentAxes |-> 1, currentObject |-> None, links |-> {}]
NewAxes(h) == [handle |-> h, hold |-> FALSE, limits |-> [d \in Dims |-> AutoLimit]]

\* A slot is a figure and an index in it.
SlotsOf(g, f) == {s \in DOMAIN g.axes : s[1] = f}
IndicesOf(g, f) == {s[2] : s \in SlotsOf(g, f)}
AxesHandles(g, f) == {g.axes[s].handle : s \in SlotsOf(g, f)}

\* graphics_handle_kind: where a handle is looked for, in this order.
Kind(g, h) ==
  IF h \in DOMAIN g.figures THEN "figure"
  ELSE IF \E s \in DOMAIN g.axes : g.axes[s].handle = h THEN "axes"
  ELSE IF \E a \in g.annotations : a.handle = h THEN "annotation"
  ELSE IF \E x \in g.series : x.handle = h THEN "series"
  ELSE "none"

\* axes_location_by_handle
SlotOf(g, h) == CHOOSE s \in DOMAIN g.axes : g.axes[s].handle = h

\* The figure an object that is not a figure lies in.
FigureOf(g, h) ==
  CASE Kind(g, h) = "axes" -> SlotOf(g, h)[1]
    [] Kind(g, h) = "annotation" -> (CHOOSE a \in g.annotations : a.handle = h).figure
    [] Kind(g, h) = "series" -> (CHOOSE x \in g.series : x.handle = h).slot[1]

\* Mutants: the counter alone decides; the first number that is free.
FreshFromCounter(g, next, first) == IF next > first THEN next ELSE first
FreshFirstFree(g, next, first) ==
  CHOOSE h \in first .. first + 20 :
     /\ Kind(g, h) = "none" /\ \A k \in first .. h - 1 : Kind(g, k) # "none"

\* next_axes_handle and its like: the first number from the counter on, or from
\* where the kind starts, that no object has.
Fresh(g, next, first) ==
  LET from == IF next > first THEN next ELSE first
      last == from + Cardinality(DOMAIN g.figures) + Cardinality(DOMAIN g.axes)
                   + Cardinality(g.series) + Cardinality(g.annotations)
  IN  CHOOSE h \in from .. last :
         /\ Kind(g, h) = "none" /\ \A k \in from .. h - 1 : Kind(g, k) # "none"

With(f, key, value) == [k \in DOMAIN f \cup {key} |-> IF k = key THEN value ELSE f[k]]
Without(f, keys) == [k \in DOMAIN f \ keys |-> f[k]]

-----------------------------------------------------------------------------
(***************************************************************************)
(* What the builtins are made of: each takes the state and gives the next. *)
(***************************************************************************)

\* create_new_figure, made current
NewCurrentFigure(g) ==
  LET h == Fresh(g, g.nextFigure, 1)
  IN  [g EXCEPT !.figures = With(@, h, NewFigure), !.nextFigure = h + 1, !.current = h]

\* ensure_current_figure
WithFigure(g) == IF g.current \in DOMAIN g.figures THEN g ELSE NewCurrentFigure(g)

\* ensure_axes_slot
WithSlot(g, slot) ==
  LET h == Fresh(g, g.nextAxes, FirstAxes)
  IN  IF slot \in DOMAIN g.axes THEN g
      ELSE [g EXCEPT !.axes = With(@, slot, NewAxes(h)), !.nextAxes = h + 1]

\* current_axes_handle, current_axes_mut
CurrentSlot(g) == <<g.current, g.figures[g.current].currentAxes>>
WithAxes(g) == LET e == WithFigure(g) IN WithSlot(e, CurrentSlot(e))

\* set_current_object_for_handle
WithObject(g, h) ==
  IF Kind(g, h) = "figure" THEN g
  ELSE [g EXCEPT !.figures[FigureOf(g, h)].currentObject = h]

\* next_series_handle: the number is taken, the series comes later.
SeriesNumber(g) == Fresh(g, g.nextSeries, FirstSeries)
Reserved(g) == [g EXCEPT !.nextSeries = SeriesNumber(g) + 1]

\* The states after 0 .. n numbers are taken.
ReservedUpTo(g, n) ==
  LET reserved[i \in 0 .. n] == IF i = 0 THEN g ELSE Reserved(reserved[i - 1])
  IN  reserved

\* A series in the current axes, with a number taken before.
Pushed(g, h) == [g EXCEPT !.series = @ \cup {[slot |-> CurrentSlot(g), handle |-> h]}]
NextPushed(g) == Pushed(Reserved(g), SeriesNumber(g))

SeriesCleared(g, slot) == [g EXCEPT !.series = {x \in @ : x.slot # slot}]

\* Without hold, a new plot takes the place of the old one.
Replaced(g) ==
  IF g.axes[CurrentSlot(g)].hold THEN g ELSE SeriesCleared(g, CurrentSlot(g))

\* All axes of a figure go, and their series.
AxesCleared(g, f) ==
  [g EXCEPT !.axes = Without(@, SlotsOf(g, f)), !.series = {x \in @ : x.slot[1] # f}]

\* unlink_axes_handles: groups of one axes go.
Unlinked(links, handles) ==
  {l \in {[l EXCEPT !.handles = @ \ handles] : l \in links} : Cardinality(l.handles) >= 2}

\* Mutant: the groups of the old layout stay.
RelaidLinksKept(g, f, layout, index) ==
  IF g.figures[f].layout = layout THEN g
  ELSE [AxesCleared(g, f) EXCEPT !.figures[f].layout = layout,
                                 !.figures[f].currentAxes = index]
\* A layout of another shape: subplot and tiledlayout drop the axes there were.
Relaid(g, f, layout, index) ==
  IF g.figures[f].layout = layout THEN g
  ELSE [AxesCleared(g, f) EXCEPT !.figures[f].layout = layout,
                                 !.figures[f].currentAxes = index,
                                 !.figures[f].links = {}]

\* sync_linked_axes_for_handle: the axes linked to h take its limits.
Synced(g, h, limits) ==
  LET links == g.figures[FigureOf(g, h)].links
      Given(k, d) == \E l \in links : {h, k} \subseteq l.handles /\ d \in l.mode
  IN  [g EXCEPT !.axes = [s \in DOMAIN g.axes |->
         [g.axes[s] EXCEPT !.limits = [d \in Dims |->
            IF d \in DOMAIN limits /\ g.axes[s].handle # h /\ Given(g.axes[s].handle, d)
            THEN limits[d] ELSE @[d]]]]]

Fixed(g, handles, limits) ==
  [g EXCEPT !.axes = [s \in DOMAIN g.axes |->
     IF g.axes[s].handle \in handles
     THEN [g.axes[s] EXCEPT !.limits =
             [d \in Dims |-> IF d \in DOMAIN limits THEN limits[d] ELSE @[d]]]
     ELSE g.axes[s]]]

-----------------------------------------------------------------------------
(* delete *)

DeletedAxes(g, h) ==
  LET slot == SlotOf(g, h)
      gone == {h} \cup {x.handle : x \in {y \in g.series : y.slot = slot}}
      left == IndicesOf(g, slot[1]) \ {slot[2]}
      f == g.figures[slot[1]]
  IN  [SeriesCleared(g, slot) EXCEPT
         !.axes = Without(@, {slot}),
         !.figures[slot[1]] =
            [f EXCEPT !.currentObject = IF @ \in gone THEN None ELSE @,
                      !.links = Unlinked(@, {h}),
                      !.currentAxes = IF @ # slot[2] THEN @
                                      ELSE IF left = {} THEN 1 ELSE Min(left)]]

\* Mutant: the figure that is deleted stays the current one.
DeletedFigureStillCurrent(g, h) ==
  [AxesCleared(g, h) EXCEPT
     !.figures = Without(@, {h}), !.annotations = {a \in @ : a.figure # h}]
DeletedFigure(g, h) ==
  LET left == DOMAIN g.figures \ {h}
  IN  [AxesCleared(g, h) EXCEPT
         !.figures = Without(@, {h}),
         !.annotations = {a \in @ : a.figure # h},
         !.current = IF @ # h THEN @ ELSE IF left = {} THEN None ELSE Min(left)]

\* The current object of its figure is not h any more.
Forgotten(g, h) ==
  [g EXCEPT !.figures[FigureOf(g, h)].currentObject = IF @ = h THEN None ELSE @]

\* delete_graphics_handle
Deleted(g, h) ==
  CASE Kind(g, h) = "series" ->
         [Forgotten(g, h) EXCEPT !.series = {x \in @ : x.handle # h}]
    [] Kind(g, h) = "annotation" ->
         [Forgotten(g, h) EXCEPT !.annotations = {a \in @ : a.handle # h}]
    [] Kind(g, h) = "axes"   -> DeletedAxes(g, h)
    [] Kind(g, h) = "figure" -> DeletedFigure(g, h)

\* Mutant: in the order of the numbers.
NoPriority(g, h) == 0
\* delete_priority: what lies in axes or a figure goes before it.
DeletePriority(g, h) ==
  CASE Kind(g, h) = "figure" -> 2 [] Kind(g, h) = "axes" -> 1 [] OTHER -> 0

\* Handles of the same priority go in the order of their numbers.
LastToGo(g, handles) ==
  Max({h \in handles : \A k \in handles : DeletePriority(g, k) <= DeletePriority(g, h)})

\* The loop of builtin_delete, after each of the handles: it stops at one that
\* is gone.
DeletedAll(g, handles) ==
  LET after[done \in SUBSET handles] ==
        IF done = {} THEN [g |-> g, ok |-> TRUE]
        ELSE LET h == LastToGo(g, done)
                 r == after[done \ {h}]
             IN  IF r.ok /\ Kind(r.g, h) # "none"
                 THEN [g |-> Deleted(r.g, h), ok |-> TRUE]
                 ELSE [g |-> r.g, ok |-> FALSE]
  IN  after[handles]

-----------------------------------------------------------------------------
(***************************************************************************)
(* The builtins.                                                           *)
(***************************************************************************)
InBounds(g) ==
  /\ g.nextFigure <= MaxFigure + 1
  /\ g.nextAxes <= MaxAxes + 1
  /\ g.nextSeries <= MaxSeries + 1
  /\ g.nextAnnotation <= MaxAnnotation + 1

Becomes(g) == graphics' = g /\ InBounds(g) /\ halfDone' = FALSE

Axes == {graphics.axes[s].handle : s \in DOMAIN graphics.axes}
Handles ==
  DOMAIN graphics.figures \cup Axes \cup {x.handle : x \in graphics.series}
    \cup {a.handle : a \in graphics.annotations}

Init ==
  /\ graphics = [figures |-> [h \in {} |-> NewFigure], axes |-> [s \in {} |-> NewAxes(0)],
                 series |-> {}, annotations |-> {}, current |-> None,
                 nextFigure |-> 0, nextAxes |-> 0, nextSeries |-> 0, nextAnnotation |-> 0]
  /\ calls = 0
  /\ halfDone = FALSE

\* figure, figure(n)
Figure == Becomes(NewCurrentFigure(graphics))
FigureNumber(h) ==
  /\ Kind(graphics, h) \in {"none", "figure"}
  /\ Becomes([graphics EXCEPT
       !.figures = IF h \in DOMAIN @ THEN @ ELSE With(@, h, NewFigure),
       !.nextFigure = IF h >= @ THEN h + 1 ELSE @,
       !.current = h])

\* clf, clf(f): a figure of the state of a new one.
Clf ==
  \E g \in {WithFigure(graphics)} \cup
           {[graphics EXCEPT !.current = f] : f \in DOMAIN graphics.figures} :
    Becomes([AxesCleared(g, g.current) EXCEPT
       !.figures[g.current] = NewFigure,
       !.annotations = {a \in @ : a.figure # g.current}])

\* gca, and axes without arguments
Gca == Becomes(WithAxes(graphics))
NewFreeAxes ==
  LET g == WithFigure(graphics)
      index == Max(IndicesOf(g, g.current) \cup {0}) + 1
      e == WithSlot([g EXCEPT !.figures[g.current].currentAxes = index], <<g.current, index>>)
  IN  Becomes(WithObject(e, e.axes[<<g.current, index>>].handle))

\* axes(h)
SelectAxes(h) ==
  LET slot == SlotOf(graphics, h)
  IN  Becomes(WithObject([graphics EXCEPT !.current = slot[1],
                            !.figures[slot[1]].currentAxes = slot[2]], h))

Subplot(layout, index) ==
  LET g == WithFigure(graphics)
      f == g.current
      e == WithSlot([Relaid(g, f, layout, index) EXCEPT !.figures[f].currentAxes = index],
                    <<f, index>>)
  IN  index \in Tiles(layout) /\ Becomes(WithObject(e, e.axes[<<f, index>>].handle))

TiledLayout(layout) ==
  LET g == WithFigure(graphics) IN Becomes(Relaid(g, g.current, layout, 1))

\* next_tile_index: the first tile without axes, or the one after the current.
NextTileIndex(g, f) ==
  LET tiles == Tiles(g.figures[f].layout)
      current == g.figures[f].currentAxes
  IN  IF tiles \subseteq IndicesOf(g, f)
      THEN IF current + 1 \in tiles THEN current + 1 ELSE 1
      ELSE Min(tiles \ IndicesOf(g, f))

NextTile ==
  LET g == WithFigure(graphics)
      f == g.current
      At(index) == WithSlot([g EXCEPT !.figures[f].currentAxes = index], <<f, index>>)
  IN  \E index \in {NextTileIndex(g, f)} \cup Tiles(g.figures[f].layout) :
        Becomes(WithObject(At(index), At(index).axes[<<f, index>>].handle))

\* plot: the old series go first, each new one gets a number and is pushed.
\* When one of the groups has no valid data, those before it stay.
Plot ==
  LET g == Replaced(WithAxes(graphics))
      one == NextPushed(g)
      two == NextPushed(one)
  IN  \/ Becomes(WithObject(one, SeriesNumber(g)))
      \/ Becomes(WithObject(two, SeriesNumber(one)))
      \/ Becomes(g)
      \/ Becomes(one)

\* quiver and its like take the number before there need be a figure.
Quiver ==
  Becomes(WithObject(Pushed(Replaced(WithAxes(Reserved(graphics))), SeriesNumber(graphics)),
                     SeriesNumber(graphics)))
\* line adds to what is there.
Line == Becomes(Pushed(WithAxes(Reserved(graphics)), SeriesNumber(graphics)))

Annotation ==
  LET g == WithFigure(graphics)
      h == Fresh(g, g.nextAnnotation, FirstAnnotation)
  IN  Becomes(WithObject([g EXCEPT !.nextAnnotation = h + 1,
                            !.annotations = @ \cup {[figure |-> g.current, handle |-> h]}], h))

Hold ==
  \/ LET g == WithAxes(graphics)
     IN  \E on \in BOOLEAN : Becomes([g EXCEPT !.axes[CurrentSlot(g)].hold = on])
  \/ \E h \in Axes, on \in BOOLEAN :
        Becomes([graphics EXCEPT !.axes[SlotOf(graphics, h)].hold = on])

\* cla, cla(h), with 'reset' the axes become new ones of the same number
Cla ==
  LET g == WithAxes(graphics)
      Targets == {[g |-> g, slot |-> CurrentSlot(g)]} \cup
                 {[g |-> graphics, slot |-> s] : s \in DOMAIN graphics.axes}
  IN  \E t \in Targets :
        LET cleared == SeriesCleared(t.g, t.slot)
        IN  \/ Becomes(cleared)
            \/ Becomes([cleared EXCEPT !.axes[t.slot] = NewAxes(@.handle)])

\* reset(h)
ResetAxes(h) == Becomes([graphics EXCEPT !.axes[SlotOf(graphics, h)] = NewAxes(h)])

\* One, two or three objects at once.
DeleteLists == UNION {kSubset(k, Handles) : k \in 1 .. 3}
Delete(handles) ==
  LET r == DeletedAll(graphics, handles)
  IN  /\ graphics' = r.g
      /\ halfDone' = (~r.ok /\ r.g # graphics)

\* copyobj: a series into axes, axes with their series into a figure
CopySeries(h, target) ==
  LET n == SeriesNumber(graphics)
  IN  Becomes(WithObject([Reserved(graphics) EXCEPT
        !.series = @ \cup {[slot |-> SlotOf(graphics, target), handle |-> n]}], n))

CopyAxes(h, f) ==
  LET source == SlotOf(graphics, h)
      copied == Cardinality({x \in graphics.series : x.slot = source})
      reserved == ReservedUpTo(graphics, copied)
      g == reserved[copied]
      n == Fresh(g, g.nextAxes, FirstAxes)
      slot == <<f, Max(IndicesOf(g, f) \cup {0}) + 1>>
  IN  Becomes(WithObject([g EXCEPT
        !.nextAxes = n + 1,
        !.axes = With(@, slot, [@[source] EXCEPT !.handle = n]),
        !.series = @ \cup {[slot |-> slot, handle |-> SeriesNumber(reserved[i - 1])] :
                              i \in 1 .. copied}], n))

\* Mutant: the axes stay in their old groups.
RelinkedTwice(links, handles, mode) ==
  links \cup {[handles |-> handles, mode |-> mode]}
\* The axes leave their groups; with a mode, two or more form a new one.
Relinked(links, handles, mode) ==
  Unlinked(links, handles) \cup
    {l \in {[handles |-> handles, mode |-> mode]} :
       mode # {} /\ Cardinality(handles) >= 2}

\* linkaxes: the axes take the limits that hold all of theirs.
LinkAxes(f, handles, mode) ==
  LET g == [graphics EXCEPT !.figures[f].links = Relinked(@, handles, mode)]
      limits(d) == {graphics.axes[SlotOf(graphics, h)].limits[d] : h \in handles}
  IN  \E hull \in [mode -> Limits] :
        /\ \A d \in mode : hull[d] >= Max(limits(d))
        /\ \A d \in mode : AutoLimit \notin limits(d) => hull[d] = Max(limits(d))
        /\ Becomes(Fixed(g, handles, hull))

\* xlim, ylim, axis([..]), axis tight, set(h, 'XLim', ..)
SetLimits ==
  LET g == WithAxes(graphics)
      Targets == {[g |-> g, h |-> g.axes[CurrentSlot(g)].handle]} \cup
                 {[g |-> graphics, h |-> h] : h \in Axes}
  IN  \E t \in Targets, dims \in {{d} : d \in Dims} \cup {Dims} :
        \E limits \in [dims -> Limits] :
           Becomes(Synced(Fixed(t.g, {t.h}, limits), t.h, limits))

\* axis auto: the axes follow their data again, those linked to them are fixed
\* at the limits the data has now.
AxisAuto ==
  LET g == WithAxes(graphics)
      Targets == {[g |-> g, h |-> g.axes[CurrentSlot(g)].handle]} \cup
                 {[g |-> graphics, h |-> h] : h \in Axes}
  IN  \E t \in Targets, shown \in [Dims -> Limits] :
        Becomes(Synced(Fixed(t.g, {t.h}, [d \in Dims |-> AutoLimit]), t.h, shown))

Call ==
  \/ Figure \/ \E h \in Requests : FigureNumber(h)
  \/ Clf \/ Gca \/ NewFreeAxes
  \/ \E h \in Axes : SelectAxes(h) \/ ResetAxes(h)
  \/ \E layout \in Layouts :
       TiledLayout(layout) \/ \E index \in Tiles(layout) : Subplot(layout, index)
  \/ NextTile \/ Plot \/ Quiver \/ Line \/ Annotation \/ Hold \/ Cla
  \/ \E handles \in DeleteLists : Delete(handles)
  \/ \E x \in graphics.series, h \in Axes : CopySeries(x.handle, h)
  \/ \E h \in Axes, f \in DOMAIN graphics.figures : CopyAxes(h, f)
  \/ \E f \in DOMAIN graphics.figures :
       \E handles \in SUBSET AxesHandles(graphics, f) \ {{}}, mode \in SUBSET Dims :
          LinkAxes(f, handles, mode)
  \/ SetLimits \/ AxisAuto

Next == calls < MaxCalls /\ calls' = calls + 1 /\ Call

Spec == Init /\ [][Next]_vars

-----------------------------------------------------------------------------
\* What is current exists, and every object lies in one that exists.
TypeOK ==
  /\ graphics.current \in DOMAIN graphics.figures \cup {None}
  /\ \A s \in DOMAIN graphics.axes : s[1] \in DOMAIN graphics.figures
  /\ \A x \in graphics.series : x.slot \in DOMAIN graphics.axes
  /\ \A a \in graphics.annotations : a.figure \in DOMAIN graphics.figures
  /\ halfDone \in BOOLEAN

\* No number is the handle of two objects, of whatever kinds.
HandlesAreUnique ==
  LET numbers == [k \in {"figure", "axes", "series", "annotation"} |->
        CASE k = "figure" -> DOMAIN graphics.figures
          [] k = "axes"   -> Axes
          [] k = "series" -> {x.handle : x \in graphics.series}
          [] k = "annotation" -> {a.handle : a \in graphics.annotations}]
  IN  /\ \A k, l \in DOMAIN numbers : k # l => numbers[k] \cap numbers[l] = {}
      /\ Cardinality(DOMAIN graphics.axes) = Cardinality(numbers["axes"])
      /\ Cardinality(graphics.series) = Cardinality(numbers["series"])

\* Linked axes: groups are of two axes at least, all in the figure, and no axes
\* is in two.
LinksAreSound ==
  \A f \in DOMAIN graphics.figures : \A l \in graphics.figures[f].links :
    /\ Cardinality(l.handles) >= 2
    /\ l.handles \subseteq AxesHandles(graphics, f)
    /\ \A m \in graphics.figures[f].links : m # l => m.handles \cap l.handles = {}

\* Linked axes have the same limits, as far as both are fixed.
LinkedLimitsAgree ==
  \A f \in DOMAIN graphics.figures : \A l \in graphics.figures[f].links :
    \A s, t \in SlotsOf(graphics, f) : \A d \in l.mode :
      LET a == graphics.axes[s]
          b == graphics.axes[t]
      IN  {a.handle, b.handle} \subseteq l.handles /\ AutoLimit \notin {a.limits[d], b.limits[d]}
            => a.limits[d] = b.limits[d]

\* The axes plots go to are there, unless the figure has no axes at all.  The
\* current object may be gone, but never is it an object of another figure: no
\* number that was the handle of axes or a series becomes one of another.
CurrentIsOwn ==
  \A f \in DOMAIN graphics.figures :
    LET figure == graphics.figures[f] IN
    /\ SlotsOf(graphics, f) # {} => <<f, figure.currentAxes>> \in DOMAIN graphics.axes
    /\ Kind(graphics, figure.currentObject) \in {"axes", "series", "annotation"}
         => FigureOf(graphics, figure.currentObject) = f

\* A delete of several objects deletes them all: none goes with another that is
\* deleted first.
DeletesAreWhole == ~halfDone
=============================================================================
