--------------------------- MODULE WorkspaceProofs ---------------------------
(***************************************************************************)
(* Theorems about Workspace, for every program, every number of cells and  *)
(* every depth of the stack: which cells are shared.                       *)
(***************************************************************************)
EXTENDS Workspace, TLAPS

-----------------------------------------------------------------------------
(* Functions with any domain in a set.                                     *)

LEMMA PartialMember ==
    ASSUME NEW S, NEW T, NEW f
    PROVE  f \in Partial(S, T) <=>
             /\ f = [x \in DOMAIN f |-> f[x]] /\ DOMAIN f \subseteq S
             /\ \A x \in DOMAIN f : f[x] \in T
<1>1. ASSUME f \in Partial(S, T)
      PROVE  /\ f = [x \in DOMAIN f |-> f[x]] /\ DOMAIN f \subseteq S
             /\ \A x \in DOMAIN f : f[x] \in T
  <2>1. PICK D \in SUBSET S : f \in [D -> T]
    BY <1>1 DEF Partial
  <2> QED BY <2>1
<1>2. ASSUME f = [x \in DOMAIN f |-> f[x]], DOMAIN f \subseteq S,
             \A x \in DOMAIN f : f[x] \in T
      PROVE  f \in Partial(S, T)
  <2>1. f \in [DOMAIN f -> T]
    BY <1>2
  <2> QED BY <1>2, <2>1 DEF Partial
<1> QED BY <1>1, <1>2

LEMMA PartialEmpty ==
    ASSUME NEW S, NEW T
    PROVE  << >> \in Partial(S, T) /\ DOMAIN << >> = {}
<1>1. DOMAIN << >> = {}
  OBVIOUS
<1>2. << >> = [x \in DOMAIN << >> |-> << >>[x]]
  OBVIOUS
<1> QED BY <1>1, <1>2, PartialMember

LEMMA OverPartial ==
    ASSUME NEW S, NEW T, NEW f \in Partial(S, T), NEW g \in Partial(S, T)
    PROVE  /\ Over(f, g) \in Partial(S, T)
           /\ DOMAIN Over(f, g) = DOMAIN f \cup DOMAIN g
           /\ \A x \in DOMAIN g : Over(f, g)[x] = g[x]
           /\ \A x \in DOMAIN f \ DOMAIN g : Over(f, g)[x] = f[x]
<1>1. /\ DOMAIN f \subseteq S /\ \A x \in DOMAIN f : f[x] \in T
      /\ DOMAIN g \subseteq S /\ \A x \in DOMAIN g : g[x] \in T
  BY PartialMember
<1>2. /\ DOMAIN Over(f, g) = DOMAIN f \cup DOMAIN g
      /\ \A x \in DOMAIN g : Over(f, g)[x] = g[x]
      /\ \A x \in DOMAIN f \ DOMAIN g : Over(f, g)[x] = f[x]
      /\ Over(f, g) = [x \in DOMAIN Over(f, g) |-> Over(f, g)[x]]
  BY DEF Over
<1>3. DOMAIN Over(f, g) \subseteq S /\ \A x \in DOMAIN Over(f, g) : Over(f, g)[x] \in T
  BY <1>1, <1>2
<1> QED BY <1>2, <1>3, PartialMember

LEMMA WithoutPartial ==
    ASSUME NEW S, NEW T, NEW f \in Partial(S, T), NEW D
    PROVE  /\ Without(f, D) \in Partial(S, T)
           /\ DOMAIN Without(f, D) = DOMAIN f \ D
           /\ \A x \in DOMAIN f \ D : Without(f, D)[x] = f[x]
<1>1. DOMAIN f \subseteq S /\ \A x \in DOMAIN f : f[x] \in T
  BY PartialMember
<1>2. /\ DOMAIN Without(f, D) = DOMAIN f \ D
      /\ \A x \in DOMAIN f \ D : Without(f, D)[x] = f[x]
      /\ Without(f, D) = [x \in DOMAIN Without(f, D) |-> Without(f, D)[x]]
  BY DEF Without
<1> QED BY <1>1, <1>2, PartialMember

LEMMA RestrictPartial ==
    ASSUME NEW S, NEW T, NEW f \in Partial(S, T), NEW D \in SUBSET DOMAIN f
    PROVE  /\ Restrict(f, D) \in Partial(S, T)
           /\ DOMAIN Restrict(f, D) = D
           /\ \A x \in D : Restrict(f, D)[x] = f[x]
<1>1. DOMAIN f \subseteq S /\ \A x \in DOMAIN f : f[x] \in T
  BY PartialMember
<1>2. /\ DOMAIN Restrict(f, D) = D
      /\ \A x \in D : Restrict(f, D)[x] = f[x]
      /\ Restrict(f, D) = [x \in DOMAIN Restrict(f, D) |-> Restrict(f, D)[x]]
  BY DEF Restrict
<1> QED BY <1>1, <1>2, PartialMember

(* Fresh cells are held by nobody, and no two bindings get the same.       *)
LEMMA FreshFacts ==
    ASSUME NEW S, Allocations(S) # {}
    PROVE  /\ Fresh(S) \in [S -> Free] /\ Fresh(S) \in Partial(S, Cells)
           /\ DOMAIN Fresh(S) = S
           /\ \A x \in S : Fresh(S)[x] \in Free /\ Fresh(S)[x] \in Cells
           /\ \A x, y \in S : Fresh(S)[x] = Fresh(S)[y] => x = y
<1>1. \E new : new \in Allocations(S)
  OBVIOUS
<1>2. Fresh(S) \in Allocations(S)
  BY <1>1 DEF Fresh
<1>3. Fresh(S) \in [S -> Free] /\ IsInjective(Fresh(S))
  BY <1>2 DEF Allocations
<1>4. Free \subseteq Cells
  BY DEF Free
<1>5. \A x, y \in S : Fresh(S)[x] = Fresh(S)[y] => x = y
  BY <1>3 DEF IsInjective
<1>6. DOMAIN Fresh(S) = S /\ \A x \in S : Fresh(S)[x] \in Cells /\ Fresh(S)[x] \in Free
  BY <1>3, <1>4
<1>7. Fresh(S) = [x \in DOMAIN Fresh(S) |-> Fresh(S)[x]]
  BY <1>3
<1>8. Fresh(S) \in Partial(S, Cells)
  BY <1>6, <1>7, PartialMember
<1> QED BY <1>3, <1>5, <1>6, <1>8

LEMMA PartialWider ==
    ASSUME NEW S, NEW S2, S \subseteq S2, NEW T, NEW f \in Partial(S, T)
    PROVE  f \in Partial(S2, T)
BY PartialMember

-----------------------------------------------------------------------------
(* The program and its frames.                                             *)

LEMMA ScopeFacts ==
    ASSUME NEW f \in Functions, NEW n \in DOMAIN Scope[f]
    PROVE  /\ Scope[f][n] \in Bindings /\ n \in Names /\ Scope[f][n] \in Range(Scope[f])
           /\ Scope[f][n][2] = n /\ Scope[f][n] = <<Scope[f][n][1], n>>
<1>1. Scope[f][n] = <<Scope[f][n][1], n>>
  BY ProgramIsBound
<1>2. Scope[f][n][2] = n
  BY <1>1
<1> QED BY <1>1, <1>2 DEF Bindings, Names, Range

LEMMA RangeFacts ==
    ASSUME NEW f \in Functions, NEW b \in Range(Scope[f])
    PROVE  b \in Bindings /\ b[2] \in DOMAIN Scope[f] /\ b = Scope[f][b[2]]
<1>1. PICK n \in DOMAIN Scope[f] : b = Scope[f][n]
  BY DEF Range
<1> QED BY <1>1, ScopeFacts

LEMMA TopFrame ==
    ASSUME frames \in Seq(Frame), Len(frames) \in 1 .. MaxFrames
    PROVE  /\ Len(frames) \in Nat /\ Len(frames) \in DOMAIN frames /\ Len(frames) >= 1
           /\ Top \in Frame /\ Top.fn \in Functions
           /\ Top.cells \in Partial(Bindings, Cells) /\ Top.names \subseteq Names
           /\ \A i \in DOMAIN frames : frames[i] \in Frame
<1>1. Len(frames) \in DOMAIN frames /\ Len(frames) \in Nat /\ Len(frames) >= 1
  BY ProgramIsTyped
<1>2. \A i \in DOMAIN frames : frames[i] \in Frame
  OBVIOUS
<1>3. Top \in Frame
  BY <1>1, <1>2 DEF Top
<1> QED BY <1>1, <1>2, <1>3 DEF Frame

LEMMA OnTopFacts ==
    ASSUME frames \in Seq(Frame), Len(frames) \in 1 .. MaxFrames, NEW fr \in Frame
    PROVE  /\ OnTop(fr) \in Seq(Frame) /\ Len(OnTop(fr)) = Len(frames)
           /\ DOMAIN OnTop(fr) = DOMAIN frames /\ OnTop(fr)[Len(frames)] = fr
           /\ \A i \in DOMAIN frames : i # Len(frames) => OnTop(fr)[i] = frames[i]
BY ProgramIsTyped DEF OnTop

LEMMA CellsOver ==
    ASSUME NEW f \in Partial(Bindings, Cells), NEW g \in Partial(Bindings, Cells)
    PROVE  /\ Over(f, g) \in Partial(Bindings, Cells)
           /\ DOMAIN Over(f, g) = DOMAIN f \cup DOMAIN g
           /\ \A x \in DOMAIN g : Over(f, g)[x] = g[x]
           /\ \A x \in DOMAIN f \ DOMAIN g : Over(f, g)[x] = f[x]
<1>1. Over(f, g) \in Partial(Bindings, Cells)
  BY OverPartial
<1> QED BY <1>1 DEF Over

LEMMA CellsWithout ==
    ASSUME NEW f \in Partial(Bindings, Cells), NEW D
    PROVE  /\ Without(f, D) \in Partial(Bindings, Cells)
           /\ DOMAIN Without(f, D) = DOMAIN f \ D
           /\ \A x \in DOMAIN f \ D : Without(f, D)[x] = f[x]
<1>1. Without(f, D) \in Partial(Bindings, Cells)
  BY WithoutPartial
<1> QED BY <1>1 DEF Without

LEMMA DeclaredFrame ==
    ASSUME NEW fr \in Frame, NEW b \in Range(Scope[fr.fn]), NEW new \in Partial({b}, Cells)
    PROVE  LET d == Declared(fr, b, new)
           IN  /\ d \in Frame /\ d.fn = fr.fn /\ d.names = fr.names \cup {b[2]}
               /\ d.global = fr.global /\ d.persistent = fr.persistent
               /\ DOMAIN d.cells = DOMAIN fr.cells \cup DOMAIN new
               /\ \A x \in DOMAIN fr.cells : d.cells[x] = fr.cells[x]
               /\ \A x \in DOMAIN new \ DOMAIN fr.cells : d.cells[x] = new[x]
<1> DEFINE d == Declared(fr, b, new)
           more == Over(new, fr.cells)
<1>1. fr.fn \in Functions /\ fr.cells \in Partial(Bindings, Cells)
  BY DEF Frame
<1>2. b \in Bindings /\ b[2] \in Names
  BY <1>1, RangeFacts, ScopeFacts
<1>3. new \in Partial(Bindings, Cells)
  BY <1>2, PartialWider
<1>4. /\ more \in Partial(Bindings, Cells)
      /\ DOMAIN more = DOMAIN fr.cells \cup DOMAIN new
      /\ \A x \in DOMAIN fr.cells : more[x] = fr.cells[x]
      /\ \A x \in DOMAIN new \ DOMAIN fr.cells : more[x] = new[x]
  BY <1>1, <1>3, CellsOver
<1>5. d = [fr EXCEPT !.names = fr.names \cup {b[2]}, !.cells = more]
  BY DEF Declared
<1> HIDE DEF more
<1>6. fr.names \cup {b[2]} \subseteq Names
  BY <1>2 DEF Frame
<1> HIDE DEF d
<1>7. /\ d \in Frame /\ d.cells = more /\ d.names = fr.names \cup {b[2]}
      /\ d.fn = fr.fn /\ d.global = fr.global /\ d.persistent = fr.persistent
  BY <1>5, <1>4, <1>6 DEF Frame
<1> QED BY <1>7, <1>4 DEF d

LEMMA BoundFrame ==
    ASSUME NEW fr \in Frame, NEW b \in Range(Scope[fr.fn]), NEW c \in Cells
    PROVE  LET d == BoundTo(fr, b, c)
           IN  /\ d \in Frame /\ d.fn = fr.fn /\ d.names = fr.names \cup {b[2]}
               /\ d.global = fr.global /\ d.persistent = fr.persistent
               /\ DOMAIN d.cells = DOMAIN fr.cells \cup {b} /\ d.cells[b] = c
               /\ \A x \in DOMAIN fr.cells \ {b} : d.cells[x] = fr.cells[x]
<1> DEFINE d == BoundTo(fr, b, c)
           new == [x \in {b} |-> c]
           more == Over(fr.cells, new)
<1>1. fr.fn \in Functions /\ fr.cells \in Partial(Bindings, Cells)
  BY DEF Frame
<1>2. b \in Bindings /\ b[2] \in Names
  BY <1>1, RangeFacts, ScopeFacts
<1>3. new \in Partial(Bindings, Cells) /\ DOMAIN new = {b} /\ new[b] = c
  BY <1>2, PartialMember
<1>4. /\ more \in Partial(Bindings, Cells)
      /\ DOMAIN more = DOMAIN fr.cells \cup {b} /\ more[b] = c
      /\ \A x \in DOMAIN fr.cells \ {b} : more[x] = fr.cells[x]
  <2>1. more \in Partial(Bindings, Cells)
    <3> HIDE DEF new
    <3> QED BY <1>1, <1>3, CellsOver
  <2> QED BY <2>1, <1>3 DEF Over
<1>5. d = [fr EXCEPT !.names = fr.names \cup {b[2]}, !.cells = more]
  BY DEF BoundTo
<1> HIDE DEF more
<1>6. fr.names \cup {b[2]} \subseteq Names
  BY <1>2 DEF Frame
<1> HIDE DEF d
<1>7. /\ d \in Frame /\ d.cells = more /\ d.names = fr.names \cup {b[2]}
      /\ d.fn = fr.fn /\ d.global = fr.global /\ d.persistent = fr.persistent
  BY <1>5, <1>4, <1>6 DEF Frame
<1> QED BY <1>7, <1>4 DEF d

LEMMA ClearedFrame ==
    ASSUME NEW fr \in Frame, NEW S
    PROVE  LET d == Cleared(fr, S)
               gone == {Scope[fr.fn][n] : n \in S \cap fr.names}
           IN  /\ d \in Frame /\ d.fn = fr.fn /\ d.names = fr.names \ S
               /\ d.global = fr.global \ S /\ d.persistent = fr.persistent \ S
               /\ DOMAIN d.cells = DOMAIN fr.cells \ gone
               /\ \A x \in DOMAIN d.cells : d.cells[x] = fr.cells[x]
<1> DEFINE d == Cleared(fr, S)
           gone == {Scope[fr.fn][n] : n \in S \cap fr.names}
           left == Without(fr.cells, gone)
<1>1. fr.cells \in Partial(Bindings, Cells)
  BY DEF Frame
<1>2. /\ left \in Partial(Bindings, Cells) /\ DOMAIN left = DOMAIN fr.cells \ gone
      /\ \A x \in DOMAIN left : left[x] = fr.cells[x]
  <2>1. left \in Partial(Bindings, Cells)
    <3> HIDE DEF gone
    <3> QED BY <1>1, CellsWithout
  <2> QED BY <2>1 DEF Without
<1>3. d = [fr EXCEPT !.names = fr.names \ S, !.global = fr.global \ S,
                     !.persistent = fr.persistent \ S, !.cells = left]
  BY DEF Cleared
<1> HIDE DEF left, d
<1>4. /\ d \in Frame /\ d.cells = left /\ d.names = fr.names \ S /\ d.fn = fr.fn
      /\ d.global = fr.global \ S /\ d.persistent = fr.persistent \ S
  BY <1>3, <1>2 DEF Frame
<1> QED BY <1>4, <1>2 DEF d

-----------------------------------------------------------------------------
(* What each kind of step does to the running frame.                       *)

\* Before and after, `fr` is the running frame with the marks of the old one.
SameMarks(fr) == fr.global = Top.global /\ fr.persistent = Top.persistent

\* `fr` is the running frame after `n = v`.
AssignStep(fr, n, v) ==
    /\ frames' = OnTop(fr) /\ fr.fn = Top.fn /\ SameMarks(fr)
    /\ fr.names = Top.names \cup {n} /\ n \in DOMAIN Scope[Top.fn]
    /\ DOMAIN fr.cells = DOMAIN Top.cells \cup {Own(n)}
    /\ \A x \in DOMAIN Top.cells : fr.cells[x] = Top.cells[x]
    /\ Own(n) \notin DOMAIN Top.cells => fr.cells[Own(n)] \in Free
    /\ fr.cells[Own(n)] \in Cells
    /\ content' = [content EXCEPT ![fr.cells[Own(n)]] = v]
    /\ UNCHANGED <<globals, persistents, closures>>

LEMMA AssignFacts ==
    ASSUME TypeOK, NEW n, NEW v \in Values, Assign(n, v)
    PROVE  \E fr \in Frame : AssignStep(fr, n, v)
<1> DEFINE b == Own(n)
           missing == {b} \ DOMAIN Top.cells
           new == Fresh(missing)
           fr == Declared(Top, b, new)
<1>1. Top \in Frame /\ Top.fn \in Functions
  BY TopFrame DEF TypeOK
<1>2. /\ n \in DOMAIN Scope[Top.fn] /\ Allocations(missing) # {}
      /\ frames' = OnTop(fr) /\ content' = [content EXCEPT ![fr.cells[b]] = v]
      /\ UNCHANGED <<globals, persistents, closures>>
  BY DEF Assign
<1>3. b \in Range(Scope[Top.fn]) /\ b[2] = n
  BY <1>1, <1>2, ScopeFacts DEF Own
<1>4. /\ new \in Partial(missing, Cells) /\ DOMAIN new = missing
      /\ \A x \in missing : new[x] \in Free /\ new[x] \in Cells
  <2> HIDE DEF missing
  <2> QED BY <1>2, FreshFacts
<1>5. new \in Partial({b}, Cells)
  <2>1. missing \subseteq {b}
    OBVIOUS
  <2> HIDE DEF missing, new, b
  <2> QED BY <1>4, <2>1, PartialWider
<1>6. /\ fr \in Frame /\ fr.fn = Top.fn /\ fr.names = Top.names \cup {b[2]}
      /\ fr.global = Top.global /\ fr.persistent = Top.persistent
      /\ DOMAIN fr.cells = DOMAIN Top.cells \cup DOMAIN new
      /\ \A x \in DOMAIN Top.cells : fr.cells[x] = Top.cells[x]
      /\ \A x \in DOMAIN new \ DOMAIN Top.cells : fr.cells[x] = new[x]
  <2> HIDE DEF new, b
  <2> QED BY <1>1, <1>3, <1>5, DeclaredFrame
<1>7. b \notin DOMAIN Top.cells => fr.cells[b] = new[b] /\ b \in missing
  <2> HIDE DEF new, fr, b
  <2> QED BY <1>6, <1>4 DEF missing
<1>8. DOMAIN fr.cells = DOMAIN Top.cells \cup {b}
  <2> HIDE DEF new, fr, b
  <2> QED BY <1>6, <1>4 DEF missing
<1>9. fr.cells[b] \in Cells
  <2>1. fr.cells \in Partial(Bindings, Cells)
    <3> HIDE DEF fr
    <3> QED BY <1>6 DEF Frame
  <2> HIDE DEF fr, b
  <2> QED BY <2>1, <1>8, PartialMember
<1> HIDE DEF fr, new, b, missing
<1> QED BY <1>2, <1>3, <1>4, <1>6, <1>7, <1>8, <1>9 DEF AssignStep, SameMarks, b

LEMMA TableFacts ==
    ASSUME NEW S, NEW k \in S, NEW t \in Partial(S, Cells), Allocations({k} \ DOMAIN t) # {}
    PROVE  LET table == Over(Fresh({k} \ DOMAIN t), t)
           IN  /\ table \in Partial(S, Cells) /\ DOMAIN table = DOMAIN t \cup {k}
               /\ \A m \in DOMAIN t : table[m] = t[m]
               /\ table[k] \in Cells /\ (k \notin DOMAIN t => table[k] \in Free)
<1> DEFINE missing == {k} \ DOMAIN t
           new == Fresh(missing)
           table == Over(new, t)
<1>1. /\ new \in Partial(missing, Cells) /\ DOMAIN new = missing
      /\ \A x \in missing : new[x] \in Free /\ new[x] \in Cells
  <2> HIDE DEF missing
  <2> QED BY FreshFacts DEF missing
<1>2. new \in Partial(S, Cells)
  <2>1. missing \subseteq S
    OBVIOUS
  <2> HIDE DEF missing, new
  <2> QED BY <1>1, <2>1, PartialWider
<1>3. table \in Partial(S, Cells)
  <2> HIDE DEF new
  <2> QED BY <1>2, OverPartial
<1>4. /\ DOMAIN table = DOMAIN new \cup DOMAIN t
      /\ \A m \in DOMAIN t : table[m] = t[m]
      /\ \A m \in DOMAIN new \ DOMAIN t : table[m] = new[m]
  <2> HIDE DEF new
  <2> QED BY DEF Over
<1>5. DOMAIN table = DOMAIN t \cup {k}
  <2> HIDE DEF new, table
  <2> QED BY <1>1, <1>4 DEF missing
<1>6. k \notin DOMAIN t => table[k] \in Free
  <2> HIDE DEF new, table
  <2> QED BY <1>1, <1>4 DEF missing
<1>7. table[k] \in Cells
  <2> HIDE DEF table
  <2> QED BY <1>3, <1>5, PartialMember
<1> HIDE DEF table
<1> QED BY <1>3, <1>4, <1>5, <1>6, <1>7 DEF table

\* `fr` is the running frame after `global n`, and c the cell of the global.
GlobalStep(fr, c, n) ==
    /\ frames' = OnTop(fr) /\ fr.fn = Top.fn
    /\ fr.names = Top.names \cup {n} /\ n \in Globals(Top.fn)
    /\ fr.global = Top.global \cup {n} /\ fr.persistent = Top.persistent
    /\ DOMAIN fr.cells = DOMAIN Top.cells \cup {Own(n)}
    /\ \A x \in DOMAIN Top.cells \ {Own(n)} : fr.cells[x] = Top.cells[x]
    /\ fr.cells[Own(n)] = c
    /\ globals' \in Partial(Names, Cells) /\ DOMAIN globals' = DOMAIN globals \cup {n}
    /\ \A m \in DOMAIN globals : globals'[m] = globals[m]
    /\ globals'[n] = c /\ (n \notin DOMAIN globals => c \in Free)
    /\ content' = Kept(IF content[c] = None THEN [content EXCEPT ![c] = Empty]
                       ELSE content, Held(frames', globals', persistents, closures))
    /\ UNCHANGED <<persistents, closures>>

LEMMA DeclareGlobalFacts ==
    ASSUME TypeOK, NEW n, DeclareGlobal(n)
    PROVE  \E fr \in Frame, c \in Cells : GlobalStep(fr, c, n)
<1> DEFINE table == Over(Fresh({n} \ DOMAIN globals), globals)
           bound == BoundTo(Top, Own(n), table[n])
           fr == [bound EXCEPT !.global = bound.global \cup {n}]
<1>1. Top \in Frame /\ Top.fn \in Functions
  BY TopFrame DEF TypeOK
<1>2. /\ n \in Globals(Top.fn) /\ Allocations({n} \ DOMAIN globals) # {}
      /\ globals' = table /\ frames' = OnTop(fr) /\ UNCHANGED <<persistents, closures>>
      /\ content' = Kept(IF content[table[n]] = None
                         THEN [content EXCEPT ![table[n]] = Empty] ELSE content,
                         Held(frames', globals', persistents, closures))
  BY DEF DeclareGlobal
<1>3. n \in DOMAIN Scope[Top.fn]
  BY <1>2 DEF Globals
<1>4. n \in Names /\ Own(n) \in Range(Scope[Top.fn]) /\ Own(n)[2] = n
  BY <1>1, <1>3, ScopeFacts DEF Own
<1>5. /\ table \in Partial(Names, Cells) /\ DOMAIN table = DOMAIN globals \cup {n}
      /\ \A m \in DOMAIN globals : table[m] = globals[m]
      /\ table[n] \in Cells /\ (n \notin DOMAIN globals => table[n] \in Free)
  BY <1>2, <1>4, TableFacts DEF TypeOK
<1> HIDE DEF table
<1>6. /\ bound \in Frame /\ bound.fn = Top.fn /\ bound.names = Top.names \cup {n}
      /\ bound.global = Top.global /\ bound.persistent = Top.persistent
      /\ DOMAIN bound.cells = DOMAIN Top.cells \cup {Own(n)}
      /\ bound.cells[Own(n)] = table[n]
      /\ \A x \in DOMAIN Top.cells \ {Own(n)} : bound.cells[x] = Top.cells[x]
  BY <1>1, <1>4, <1>5, BoundFrame
<1> HIDE DEF bound
<1>7. /\ fr \in Frame /\ fr.fn = bound.fn /\ fr.names = bound.names
      /\ fr.global = bound.global \cup {n} /\ fr.persistent = bound.persistent
      /\ fr.cells = bound.cells
  BY <1>4, <1>6 DEF Frame
<1> HIDE DEF fr
<1> QED BY <1>2, <1>5, <1>6, <1>7 DEF GlobalStep

\* `fr` is the running frame after `persistent n`, and c the cell it has.
PersistentStep(fr, c, n) ==
    /\ frames' = OnTop(fr) /\ fr.fn = Top.fn
    /\ fr.names = Top.names \cup {n} /\ n \in Persistents[Top.fn]
    /\ fr.persistent = Top.persistent \cup {n} /\ fr.global = Top.global
    /\ DOMAIN fr.cells = DOMAIN Top.cells \cup {Own(n)}
    /\ \A x \in DOMAIN Top.cells \ {Own(n)} : fr.cells[x] = Top.cells[x]
    /\ fr.cells[Own(n)] = c
    /\ persistents' \in Partial(Bindings, Cells)
    /\ DOMAIN persistents' = DOMAIN persistents \cup {Own(n)}
    /\ \A m \in DOMAIN persistents : persistents'[m] = persistents[m]
    /\ persistents'[Own(n)] = c /\ (Own(n) \notin DOMAIN persistents => c \in Free)
    /\ content' = Kept(IF content[c] = None THEN [content EXCEPT ![c] = Empty]
                       ELSE content, Held(frames', globals, persistents', closures))
    /\ UNCHANGED <<globals, closures>>

LEMMA DeclarePersistentFacts ==
    ASSUME TypeOK, NEW n, DeclarePersistent(n)
    PROVE  \E fr \in Frame, c \in Cells : PersistentStep(fr, c, n)
<1> DEFINE b == Own(n)
           table == Over(Fresh({b} \ DOMAIN persistents), persistents)
           bound == BoundTo(Top, b, table[b])
           fr == [bound EXCEPT !.persistent = bound.persistent \cup {n}]
<1>1. Top \in Frame /\ Top.fn \in Functions
  BY TopFrame DEF TypeOK
<1>2. /\ n \in Persistents[Top.fn] /\ Allocations({b} \ DOMAIN persistents) # {}
      /\ persistents' = table /\ frames' = OnTop(fr) /\ UNCHANGED <<globals, closures>>
      /\ content' = Kept(IF content[table[b]] = None
                         THEN [content EXCEPT ![table[b]] = Empty] ELSE content,
                         Held(frames', globals, persistents', closures))
  BY DEF DeclarePersistent
<1>3. n \in DOMAIN Scope[Top.fn]
  BY <1>1, <1>2, ProgramIsTyped
<1>4. n \in Names /\ b \in Range(Scope[Top.fn]) /\ b[2] = n /\ b \in Bindings
  BY <1>1, <1>3, ScopeFacts DEF Own
<1> HIDE DEF b
<1>5. /\ table \in Partial(Bindings, Cells) /\ DOMAIN table = DOMAIN persistents \cup {b}
      /\ \A m \in DOMAIN persistents : table[m] = persistents[m]
      /\ table[b] \in Cells /\ (b \notin DOMAIN persistents => table[b] \in Free)
  BY <1>2, <1>4, TableFacts DEF TypeOK
<1> HIDE DEF table
<1>6. /\ bound \in Frame /\ bound.fn = Top.fn /\ bound.names = Top.names \cup {n}
      /\ bound.global = Top.global /\ bound.persistent = Top.persistent
      /\ DOMAIN bound.cells = DOMAIN Top.cells \cup {b}
      /\ bound.cells[b] = table[b]
      /\ \A x \in DOMAIN Top.cells \ {b} : bound.cells[x] = Top.cells[x]
  BY <1>1, <1>4, <1>5, BoundFrame
<1> HIDE DEF bound
<1>7. /\ fr \in Frame /\ fr.fn = bound.fn /\ fr.names = bound.names
      /\ fr.persistent = bound.persistent \cup {n} /\ fr.global = bound.global
      /\ fr.cells = bound.cells
  BY <1>4, <1>6 DEF Frame
<1> HIDE DEF fr
<1> QED BY <1>2, <1>5, <1>6, <1>7 DEF PersistentStep, b

\* What a clear statement does to the running frame: it drops names and cells.
ClearsTop(fr, S) ==
    /\ fr \in Frame /\ frames' = OnTop(fr) /\ fr.fn = Top.fn
    /\ fr.names = Top.names \ S
    /\ fr.global = Top.global \ S /\ fr.persistent = Top.persistent \ S
    /\ DOMAIN fr.cells = DOMAIN Top.cells \ {Scope[Top.fn][n] : n \in S \cap Top.names}
    /\ \A x \in DOMAIN fr.cells : fr.cells[x] = Top.cells[x]

LEMMA ClearFacts ==
    ASSUME TypeOK, NEW S, frames' = OnTop(Cleared(Top, S))
    PROVE  ClearsTop(Cleared(Top, S), S)
<1>1. Top \in Frame
  BY TopFrame DEF TypeOK
<1> QED BY <1>1, ClearedFrame DEF ClearsTop

\* `fr` is the frame of a new activation of f.
EnterStep(fr, f, inherited, captured, v) ==
    /\ frames' = Append(frames, fr) /\ Len(frames) < MaxFrames
    /\ fr.fn = f /\ fr.global = {} /\ fr.persistent = {}
    /\ fr.names = Params[f] \cup Outputs[f] \cup {b[2] : b \in Captures(f)}
    /\ Captures(f) \subseteq DOMAIN captured
    /\ \A x \in DOMAIN fr.cells :
         \/ x \in DOMAIN captured /\ fr.cells[x] = captured[x]
         \/ x \in DOMAIN inherited /\ fr.cells[x] = inherited[x]
         \/ fr.cells[x] \in Free
    /\ \A x, y \in DOMAIN fr.cells :
         /\ fr.cells[x] = fr.cells[y] /\ fr.cells[x] \in Free
         /\ x \notin DOMAIN captured \cup DOMAIN inherited
         /\ y \notin DOMAIN captured \cup DOMAIN inherited
         => x = y
    /\ \A x \in DOMAIN captured : x \in DOMAIN fr.cells /\ fr.cells[x] = captured[x]
    /\ \A x \in DOMAIN inherited \ DOMAIN captured :
         x \in DOMAIN fr.cells /\ fr.cells[x] = inherited[x]
    /\ \A x \in DOMAIN fr.cells \ (DOMAIN captured \cup DOMAIN inherited) :
         fr.cells[x] \in Free
    /\ \A n \in Params[f] : Scope[f][n] \in DOMAIN fr.cells
    /\ content' = [c \in Cells |->
                     IF c \in {fr.cells[Scope[f][n]] : n \in Params[f]}
                     THEN v ELSE content[c]]
    /\ UNCHANGED <<globals, persistents, closures>>

LEMMA EnterFacts ==
    ASSUME TypeOK, NEW f \in Functions, NEW inherited \in Partial(Bindings, Cells),
           NEW captured \in Partial(Bindings, Cells), NEW v, Enter(f, inherited, captured, v)
    PROVE  \E fr \in Frame : EnterStep(fr, f, inherited, captured, v)
<1> DEFINE before == Over(inherited, captured)
           formal == {Scope[f][n] : n \in Params[f] \cup Outputs[f]}
           missing == formal \ DOMAIN before
           new == Fresh(missing)
           cells == Over(new, before)
           names == Params[f] \cup Outputs[f] \cup {b[2] : b \in Captures(f)}
           fr == [fn |-> f, cells |-> cells, global |-> {}, persistent |-> {}, names |-> names]
<1>1. /\ Len(frames) < MaxFrames /\ Captures(f) \subseteq DOMAIN captured
      /\ Allocations(missing) # {} /\ frames' = Append(frames, fr)
      /\ content' = [c \in Cells |-> IF c \in {cells[Scope[f][n]] : n \in Params[f]}
                                     THEN v ELSE content[c]]
      /\ UNCHANGED <<globals, persistents, closures>>
  BY DEF Enter, Hidden
<1>2. /\ before \in Partial(Bindings, Cells)
      /\ DOMAIN before = DOMAIN inherited \cup DOMAIN captured
      /\ \A x \in DOMAIN captured : before[x] = captured[x]
      /\ \A x \in DOMAIN inherited \ DOMAIN captured : before[x] = inherited[x]
  BY CellsOver
<1>3. Params[f] \cup Outputs[f] \subseteq DOMAIN Scope[f]
  BY ProgramIsTyped
<1>4. formal \subseteq Bindings /\ Params[f] \cup Outputs[f] \subseteq Names
  BY <1>3, ScopeFacts
<1> HIDE DEF before
<1>5. /\ new \in Partial(missing, Cells) /\ DOMAIN new = missing
      /\ \A x \in missing : new[x] \in Free /\ new[x] \in Cells
      /\ \A x, y \in missing : new[x] = new[y] => x = y
  <2> HIDE DEF missing
  <2> QED BY <1>1, FreshFacts
<1>6. new \in Partial(Bindings, Cells)
  <2>1. missing \subseteq Bindings
    BY <1>4
  <2> HIDE DEF missing, new
  <2> QED BY <1>5, <2>1, PartialWider
<1> HIDE DEF new
<1>7. cells \in Partial(Bindings, Cells)
  BY <1>2, <1>6, CellsOver
<1>8. /\ DOMAIN cells = DOMAIN new \cup DOMAIN before
      /\ \A x \in DOMAIN before : cells[x] = before[x]
      /\ \A x \in DOMAIN new \ DOMAIN before : cells[x] = new[x]
  BY DEF Over
<1> HIDE DEF cells
<1>9. {b[2] : b \in Captures(f)} \subseteq Names
  <2>1. ASSUME NEW b \in Captures(f) PROVE b[2] \in Names
    <3>1. b \in Range(Scope[f])
      BY DEF Captures
    <3> QED BY <3>1, RangeFacts, ScopeFacts
  <2> QED BY <2>1
<1>10. names \subseteq Names
  BY <1>4, <1>9
<1> HIDE DEF names
<1>11. /\ fr \in Frame /\ fr.fn = f /\ fr.cells = cells /\ fr.global = {} /\ fr.persistent = {}
       /\ fr.names = names
  BY <1>7, <1>10 DEF Frame
<1> HIDE DEF fr
<1>12. DOMAIN new \cap DOMAIN before = {}
  BY <1>5
<1>13. /\ \A x \in DOMAIN captured : x \in DOMAIN cells /\ cells[x] = captured[x]
       /\ \A x \in DOMAIN inherited \ DOMAIN captured :
            x \in DOMAIN cells /\ cells[x] = inherited[x]
       /\ \A x \in DOMAIN cells \ (DOMAIN captured \cup DOMAIN inherited) :
            x \in missing /\ cells[x] = new[x] /\ cells[x] \in Free
  BY <1>2, <1>5, <1>8, <1>12
<1>14. \A n \in Params[f] : Scope[f][n] \in DOMAIN cells
  <2>1. \A n \in Params[f] : Scope[f][n] \in formal
    OBVIOUS
  <2>2. formal \subseteq DOMAIN cells
    <3> HIDE DEF formal
    <3> QED BY <1>5, <1>8
  <2> QED BY <2>1, <2>2
<1>15. \A x, y \in DOMAIN cells :
         /\ cells[x] = cells[y]
         /\ x \notin DOMAIN captured \cup DOMAIN inherited
         /\ y \notin DOMAIN captured \cup DOMAIN inherited
         => x = y
  <2> HIDE DEF missing
  <2> QED BY <1>5, <1>13
<1>16. \A x \in DOMAIN cells :
         \/ x \in DOMAIN captured /\ cells[x] = captured[x]
         \/ x \in DOMAIN inherited /\ cells[x] = inherited[x]
         \/ cells[x] \in Free
  BY <1>13
<1> HIDE DEF missing, formal
<1> QED BY <1>1, <1>11, <1>13, <1>14, <1>15, <1>16 DEF EnterStep, names

LEMMA KeptTyped ==
    ASSUME NEW store \in [Cells -> Values \cup {None}], NEW held
    PROVE  Kept(store, held) \in [Cells -> Values \cup {None}]
BY DEF Kept

LEMMA AppendFacts ==
    ASSUME frames \in Seq(Frame), NEW fr \in Frame
    PROVE  /\ Append(frames, fr) \in Seq(Frame) /\ Len(Append(frames, fr)) = Len(frames) + 1
           /\ DOMAIN Append(frames, fr) = DOMAIN frames \cup {Len(frames) + 1}
           /\ Append(frames, fr)[Len(frames) + 1] = fr
           /\ \A i \in DOMAIN frames : Append(frames, fr)[i] = frames[i]
OBVIOUS

LEMMA ReturnFacts ==
    ASSUME TypeOK, Return
    PROVE  /\ frames' \in Seq(Frame) /\ Len(frames') = Len(frames) - 1
           /\ Len(frames') \in 1 .. MaxFrames /\ DOMAIN frames' \subseteq DOMAIN frames
           /\ \A i \in DOMAIN frames' : frames'[i] = frames[i]
           /\ content' = Kept(content, Held(frames', globals, persistents, closures))
           /\ UNCHANGED <<globals, persistents, closures>>
BY ProgramIsTyped DEF TypeOK, Return

LEMMA CallFacts ==
    ASSUME TypeOK, NEW f \in Functions, NEW v, Call(f, v)
    PROVE  LET captured == Restrict(Top.cells, Captures(f) \cap DOMAIN Top.cells)
           IN  /\ f \in Calls[Top.fn] /\ Enter(f, Top.cells, captured, v)
               /\ captured \in Partial(Bindings, Cells) /\ DOMAIN captured \subseteq Captures(f)
               /\ \A x \in DOMAIN captured : x \in DOMAIN Top.cells /\ captured[x] = Top.cells[x]
<1> DEFINE D == Captures(f) \cap DOMAIN Top.cells
           captured == Restrict(Top.cells, D)
<1>1. Top.cells \in Partial(Bindings, Cells)
  BY TopFrame DEF TypeOK
<1>2. captured \in Partial(Bindings, Cells)
  <2>1. D \in SUBSET DOMAIN Top.cells
    OBVIOUS
  <2> HIDE DEF D
  <2> QED BY <1>1, <2>1, RestrictPartial
<1>3. DOMAIN captured = D /\ \A x \in D : captured[x] = Top.cells[x]
  <2> HIDE DEF D
  <2> QED BY DEF Restrict
<1>4. f \in Calls[Top.fn] /\ Enter(f, Top.cells, captured, v)
  BY DEF Call
<1> HIDE DEF captured
<1> QED BY <1>2, <1>3, <1>4 DEF captured

LEMMA MakeHandleFacts ==
    ASSUME TypeOK, NEW f \in Functions, MakeHandle(f)
    PROVE  \E k \in Closure :
             /\ closures' = closures \cup {k} /\ k.target = f /\ f \in Handles[Top.fn]
             /\ DOMAIN k.cells = Captures(f) /\ Captures(f) \subseteq DOMAIN Top.cells
             /\ \A x \in DOMAIN k.cells : k.cells[x] = Top.cells[x]
             /\ UNCHANGED <<frames, content, globals, persistents>>
<1> DEFINE cells == Restrict(Top.cells, Captures(f))
           k == [target |-> f, cells |-> cells]
<1>1. Captures(f) \in SUBSET DOMAIN Top.cells
  BY DEF MakeHandle
<1>2. Top.cells \in Partial(Bindings, Cells)
  BY TopFrame DEF TypeOK
<1>3. cells \in Partial(Bindings, Cells)
  BY <1>1, <1>2, RestrictPartial
<1>4. DOMAIN cells = Captures(f) /\ \A x \in Captures(f) : cells[x] = Top.cells[x]
  BY DEF Restrict
<1>5. /\ closures' = closures \cup {k} /\ f \in Handles[Top.fn]
      /\ UNCHANGED <<frames, content, globals, persistents>>
  BY DEF MakeHandle
<1> HIDE DEF cells
<1>6. k \in Closure /\ k.target = f /\ k.cells = cells
  BY <1>3 DEF Closure
<1> HIDE DEF k
<1> QED BY <1>1, <1>4, <1>5, <1>6

-----------------------------------------------------------------------------
(* Types.                                                                  *)

LEMMA TypedOnTop ==
    ASSUME TypeOK, NEW fr \in Frame, frames' = OnTop(fr),
           fr.global \subseteq fr.names, fr.persistent \subseteq fr.names
    PROVE  /\ frames' \in Seq(Frame) /\ Len(frames') \in 1 .. MaxFrames
           /\ \A i \in DOMAIN frames' :
                /\ frames'[i].global \subseteq frames'[i].names
                /\ frames'[i].persistent \subseteq frames'[i].names
<1>1. /\ OnTop(fr) \in Seq(Frame) /\ Len(OnTop(fr)) = Len(frames)
      /\ DOMAIN OnTop(fr) = DOMAIN frames /\ OnTop(fr)[Len(frames)] = fr
      /\ \A i \in DOMAIN frames : i # Len(frames) => OnTop(fr)[i] = frames[i]
  BY OnTopFacts DEF TypeOK
<1> QED BY <1>1 DEF TypeOK

LEMMA TypedEnter ==
    ASSUME TypeOK, NEW f \in Functions, NEW inherited \in Partial(Bindings, Cells),
           NEW captured \in Partial(Bindings, Cells), NEW v \in Values,
           Enter(f, inherited, captured, v)
    PROVE  TypeOK'
<1>1. PICK fr \in Frame : EnterStep(fr, f, inherited, captured, v)
  BY EnterFacts
<1>2. /\ Append(frames, fr) \in Seq(Frame) /\ Len(Append(frames, fr)) = Len(frames) + 1
      /\ DOMAIN Append(frames, fr) = DOMAIN frames \cup {Len(frames) + 1}
      /\ Append(frames, fr)[Len(frames) + 1] = fr
      /\ \A i \in DOMAIN frames : Append(frames, fr)[i] = frames[i]
  BY AppendFacts DEF TypeOK
<1>3. Len(frames') \in 1 .. MaxFrames
  BY <1>1, <1>2, ProgramIsTyped DEF TypeOK, EnterStep
<1>4. content' \in [Cells -> Values \cup {None}]
  BY <1>1 DEF TypeOK, EnterStep
<1>5. \A i \in DOMAIN frames' :
        /\ frames'[i].global \subseteq frames'[i].names
        /\ frames'[i].persistent \subseteq frames'[i].names
  BY <1>1, <1>2 DEF TypeOK, EnterStep
<1> QED BY <1>1, <1>2, <1>3, <1>4, <1>5 DEF TypeOK, EnterStep

LEMMA TypeStep ==
    ASSUME TypeOK, [Next]_vars
    PROVE  TypeOK'
<1>1. ASSUME NEW n \in Names, NEW v \in Values, Assign(n, v)
      PROVE  TypeOK'
  <2>1. PICK fr \in Frame : AssignStep(fr, n, v)
    BY <1>1, AssignFacts
  <2>2. fr.global \subseteq fr.names /\ fr.persistent \subseteq fr.names
    BY <2>1, TopFrame DEF SameMarks, TypeOK, AssignStep, Top
  <2>3. content' \in [Cells -> Values \cup {None}]
    BY <2>1 DEF TypeOK, AssignStep
  <2> QED BY <2>1, <2>2, <2>3, TypedOnTop DEF TypeOK, AssignStep
<1>2. ASSUME NEW n \in Names, DeclareGlobal(n)
      PROVE  TypeOK'
  <2>1. PICK fr \in Frame, c \in Cells : GlobalStep(fr, c, n)
    BY <1>2, DeclareGlobalFacts
  <2>2. fr.global \subseteq fr.names /\ fr.persistent \subseteq fr.names
    BY <2>1, TopFrame DEF TypeOK, GlobalStep, Top
  <2>3. content' \in [Cells -> Values \cup {None}]
    BY <2>1, KeptTyped, ProgramIsTyped DEF TypeOK, GlobalStep
  <2> QED BY <2>1, <2>2, <2>3, TypedOnTop DEF TypeOK, GlobalStep
<1>3. ASSUME NEW n \in Names, DeclarePersistent(n)
      PROVE  TypeOK'
  <2>1. PICK fr \in Frame, c \in Cells : PersistentStep(fr, c, n)
    BY <1>3, DeclarePersistentFacts
  <2>2. fr.global \subseteq fr.names /\ fr.persistent \subseteq fr.names
    BY <2>1, TopFrame DEF TypeOK, PersistentStep, Top
  <2>3. content' \in [Cells -> Values \cup {None}]
    BY <2>1, KeptTyped, ProgramIsTyped DEF TypeOK, PersistentStep
  <2> QED BY <2>1, <2>2, <2>3, TypedOnTop DEF TypeOK, PersistentStep
<1>4. ASSUME NEW S, frames' = OnTop(Cleared(Top, S)), UNCHANGED closures,
             globals' = globals \/ globals' = << >>,
             persistents' = persistents \/ persistents' = << >>,
             content' = Kept(content, Held(frames', globals', persistents', closures))
      PROVE  TypeOK'
  <2> DEFINE fr == Cleared(Top, S)
  <2>1. /\ fr \in Frame /\ frames' = OnTop(fr) /\ fr.names = Top.names \ S
        /\ fr.global = Top.global \ S /\ fr.persistent = Top.persistent \ S
    BY <1>4, ClearFacts DEF ClearsTop
  <2> HIDE DEF fr
  <2>2. fr.global \subseteq fr.names /\ fr.persistent \subseteq fr.names
    BY <2>1, TopFrame DEF TypeOK, Top
  <2>3. content' \in [Cells -> Values \cup {None}]
    BY <1>4, KeptTyped DEF TypeOK
  <2>4. globals' \in Partial(Names, Cells) /\ persistents' \in Partial(Bindings, Cells)
    BY <1>4, PartialEmpty DEF TypeOK
  <2> QED BY <1>4, <2>1, <2>2, <2>3, <2>4, TypedOnTop DEF TypeOK
<1>5. ASSUME NEW S \in SUBSET Names, Clear(S)
      PROVE  TypeOK'
  BY <1>4, <1>5 DEF Clear
<1>6. CASE ClearGlobal
  BY <1>4, <1>6 DEF ClearGlobal
<1>7. CASE ClearAll
  BY <1>4, <1>7 DEF ClearAll
<1>8. CASE Return
  <2>1. /\ frames' \in Seq(Frame) /\ Len(frames') \in 1 .. MaxFrames
        /\ DOMAIN frames' \subseteq DOMAIN frames
        /\ \A i \in DOMAIN frames' : frames'[i] = frames[i]
        /\ content' = Kept(content, Held(frames', globals, persistents, closures))
        /\ UNCHANGED <<globals, persistents, closures>>
    BY <1>8, ReturnFacts
  <2>2. content' \in [Cells -> Values \cup {None}]
    BY <2>1, KeptTyped DEF TypeOK
  <2> QED BY <2>1, <2>2 DEF TypeOK
<1>9. ASSUME NEW f \in Functions, NEW v \in Values, Call(f, v)
      PROVE  TypeOK'
  <2>1. Top.cells \in Partial(Bindings, Cells)
    BY TopFrame DEF TypeOK
  <2> QED BY <1>9, <2>1, CallFacts, TypedEnter
<1>10. ASSUME NEW c \in closures, NEW v \in Values, CallHandle(c, v)
       PROVE  TypeOK'
  <2>1. c.target \in Functions /\ c.cells \in Partial(Bindings, Cells)
    BY DEF TypeOK, Closure
  <2> QED BY <1>10, <2>1, PartialEmpty, TypedEnter DEF CallHandle
<1>11. ASSUME NEW f \in Functions, MakeHandle(f)
       PROVE  TypeOK'
  BY <1>11, MakeHandleFacts DEF TypeOK
<1>12. CASE UNCHANGED vars
  BY <1>12 DEF TypeOK, vars
<1> QED BY <1>1, <1>2, <1>3, <1>5, <1>6, <1>7, <1>8, <1>9, <1>10, <1>11, <1>12 DEF Next

-----------------------------------------------------------------------------
(* A cell belongs to one variable.                                         *)

InFrame(b, c) == \E i \in DOMAIN frames : b \in DOMAIN frames[i].cells /\ frames[i].cells[b] = c
InClosure(b, c) == \E k \in closures : b \in DOMAIN k.cells /\ k.cells[b] = c
InPersistents(b, c) == b \in DOMAIN persistents /\ persistents[b] = c
InGlobals(b, c) == \E n \in DOMAIN globals : b = <<Shared, n>> /\ globals[n] = c

LEMMA HoldsIs ==
    ASSUME NEW b, NEW c
    PROVE  /\ Holds(b, c) <=> InFrame(b, c) \/ InClosure(b, c) \/ InPersistents(b, c)
                                \/ InGlobals(b, c)
           /\ Holds(b, c)' <=> InFrame(b, c)' \/ InClosure(b, c)' \/ InPersistents(b, c)'
                                 \/ InGlobals(b, c)'
BY DEF Holds, InFrame, InClosure, InPersistents, InGlobals

LEMMA FreeIsNotHeld ==
    ASSUME NEW c \in Free, NEW b
    PROVE  ~ Holds(b, c)
<1>1. c \notin Held(frames, globals, persistents, closures)
  BY DEF Free
<1>2. ~ InFrame(b, c)
  <2>1. ASSUME NEW i \in DOMAIN frames, b \in DOMAIN frames[i].cells, frames[i].cells[b] = c
        PROVE  FALSE
    <3>1. c \in Range(frames[i].cells)
      BY <2>1 DEF Range
    <3> QED BY <1>1, <3>1 DEF Held
  <2> QED BY <2>1 DEF InFrame
<1>3. ~ InClosure(b, c)
  <2>1. ASSUME NEW k \in closures, b \in DOMAIN k.cells, k.cells[b] = c
        PROVE  FALSE
    <3>1. c \in Range(k.cells)
      BY <2>1 DEF Range
    <3>2. Range(k.cells) \in {Range(x.cells) : x \in closures}
      OBVIOUS
    <3> QED BY <1>1, <3>1, <3>2 DEF Held
  <2> QED BY <2>1 DEF InClosure
<1>4. ~ InPersistents(b, c) /\ ~ InGlobals(b, c)
  <2>1. c \notin Range(globals) /\ c \notin Range(persistents)
    BY <1>1 DEF Held
  <2> QED BY <2>1 DEF Range, InPersistents, InGlobals
<1> QED BY <1>2, <1>3, <1>4, HoldsIs

\* What a step adds are pairs of a binding and a cell that was free, and it
\* gives a free cell to one binding only.
LEMMA OneVariableStep ==
    ASSUME CellsAreOneVariable, NEW G \in SUBSET (Bindings \X Free),
           \A b, x \in Bindings, c \in Free : <<b, c>> \in G /\ <<x, c>> \in G => b = x,
           \A b \in Bindings, c \in Cells : Holds(b, c)' => Holds(b, c) \/ <<b, c>> \in G
    PROVE  CellsAreOneVariable'
<1>1. SUFFICES ASSUME NEW c \in Cells, NEW b \in Bindings, NEW x \in Bindings,
                      Holds(b, c)', Holds(x, c)'
               PROVE  b = x
  BY DEF CellsAreOneVariable
<1>2. CASE c \in Free
  <2>1. ~ Holds(b, c) /\ ~ Holds(x, c)
    BY <1>2, FreeIsNotHeld
  <2> QED BY <1>1, <1>2, <2>1
<1>3. CASE c \notin Free
  <2>1. Holds(b, c) /\ Holds(x, c)
    <3>1. <<b, c>> \notin G /\ <<x, c>> \notin G
      BY <1>3
    <3> QED BY <1>1, <3>1
  <2> QED BY <2>1 DEF CellsAreOneVariable
<1> QED BY <1>2, <1>3

LEMMA HeldOnTop ==
    ASSUME TypeOK, NEW fr \in Frame, frames' = OnTop(fr), NEW b, NEW c, InFrame(b, c)'
    PROVE  InFrame(b, c) \/ (b \in DOMAIN fr.cells /\ fr.cells[b] = c)
BY OnTopFacts DEF InFrame, TypeOK

LEMMA HeldByTop ==
    ASSUME TypeOK, NEW b \in DOMAIN Top.cells
    PROVE  Holds(b, Top.cells[b])
<1>1. Len(frames) \in DOMAIN frames
  BY TopFrame DEF TypeOK
<1> QED BY <1>1 DEF Holds, Top

LEMMA EnterOneVariable ==
    ASSUME TypeOK, CellsAreOneVariable, NEW f \in Functions,
           NEW inherited \in Partial(Bindings, Cells),
           NEW captured \in Partial(Bindings, Cells), NEW v, Enter(f, inherited, captured, v),
           \A b \in DOMAIN inherited : Holds(b, inherited[b]),
           \A b \in DOMAIN captured : Holds(b, captured[b])
    PROVE  CellsAreOneVariable'
<1>1. PICK fr \in Frame : EnterStep(fr, f, inherited, captured, v)
  BY EnterFacts
<1> DEFINE new == DOMAIN fr.cells \ (DOMAIN captured \cup DOMAIN inherited)
           G == {<<b, fr.cells[b]>> : b \in new}
<1>2. DOMAIN fr.cells \subseteq Bindings
  <2>1. fr.cells \in Partial(Bindings, Cells)
    BY DEF Frame
  <2> QED BY <2>1, PartialMember
<1>3. G \in SUBSET (Bindings \X Free)
  BY <1>1, <1>2 DEF EnterStep
<1>4. \A b, x \in Bindings, c \in Free : <<b, c>> \in G /\ <<x, c>> \in G => b = x
  BY <1>1 DEF EnterStep
<1>5. ASSUME NEW b \in Bindings, NEW c \in Cells, Holds(b, c)'
      PROVE  Holds(b, c) \/ <<b, c>> \in G
  <2>1. CASE InFrame(b, c)'
    <3>1. PICK i \in DOMAIN frames' : b \in DOMAIN frames'[i].cells /\ frames'[i].cells[b] = c
      BY <2>1 DEF InFrame
    <3>2. /\ DOMAIN frames' = DOMAIN frames \cup {Len(frames) + 1}
          /\ frames'[Len(frames) + 1] = fr
          /\ \A k \in DOMAIN frames : frames'[k] = frames[k]
      BY <1>1, AppendFacts DEF TypeOK, EnterStep
    <3>3. CASE i \in DOMAIN frames
      BY <3>1, <3>2, <3>3 DEF Holds
    <3>4. CASE i = Len(frames) + 1
      <4>1. b \in DOMAIN fr.cells /\ fr.cells[b] = c
        BY <3>1, <3>2, <3>4
      <4>2. CASE b \in new
        BY <4>1, <4>2
      <4>3. CASE b \in DOMAIN captured
        BY <1>1, <4>1, <4>3 DEF EnterStep
      <4>4. CASE b \in DOMAIN inherited \ DOMAIN captured
        BY <1>1, <4>1, <4>4 DEF EnterStep
      <4> QED BY <4>1, <4>2, <4>3, <4>4
    <3> QED BY <3>2, <3>3, <3>4
  <2>2. CASE ~ InFrame(b, c)'
    BY <1>1, <1>5, <2>2, HoldsIs DEF EnterStep, InClosure, InPersistents, InGlobals
  <2> QED BY <2>1, <2>2
<1> HIDE DEF G
<1> QED BY <1>3, <1>4, <1>5, OneVariableStep

LEMMA OneVariablePreserved ==
    ASSUME TypeOK, CellsAreOneVariable, [Next]_vars
    PROVE  CellsAreOneVariable'
<1>1. ASSUME NEW n \in Names, NEW v \in Values, Assign(n, v)
      PROVE  CellsAreOneVariable'
  <2>1. PICK fr \in Frame : AssignStep(fr, n, v)
    BY <1>1, AssignFacts
  <2> DEFINE G == {Own(n)} \X ({fr.cells[Own(n)]} \cap Free)
  <2>2. Own(n) \in Bindings
    BY <2>1, TopFrame, ScopeFacts DEF AssignStep, Own, TypeOK
  <2>3. G \in SUBSET (Bindings \X Free)
    BY <2>2
  <2>4. ASSUME NEW b \in Bindings, NEW c \in Cells, Holds(b, c)'
        PROVE  Holds(b, c) \/ <<b, c>> \in G
    <3>1. CASE InFrame(b, c)'
      <4>1. InFrame(b, c) \/ (b \in DOMAIN fr.cells /\ fr.cells[b] = c)
        BY <2>1, <3>1, HeldOnTop DEF AssignStep
      <4>2. CASE b \in DOMAIN fr.cells /\ fr.cells[b] = c
        BY <2>1, <4>2, HeldByTop DEF AssignStep
      <4> QED BY <4>1, <4>2, HoldsIs
    <3>2. CASE ~ InFrame(b, c)'
      BY <2>1, <2>4, <3>2, HoldsIs DEF AssignStep, InClosure, InPersistents, InGlobals
    <3> QED BY <3>1, <3>2
  <2>5. \A b, x \in Bindings, c \in Free : <<b, c>> \in G /\ <<x, c>> \in G => b = x
    OBVIOUS
  <2> HIDE DEF G
  <2> QED BY <2>3, <2>4, <2>5, OneVariableStep
<1>2. ASSUME NEW n \in Names, DeclareGlobal(n)
      PROVE  CellsAreOneVariable'
  <2>1. PICK fr \in Frame, c0 \in Cells : GlobalStep(fr, c0, n)
    BY <1>2, DeclareGlobalFacts
  <2> DEFINE G == {Own(n)} \X ({c0} \cap Free)
  <2>2. n \in DOMAIN Scope[Top.fn] /\ Scope[Top.fn][n][1] = Shared
    BY <2>1 DEF GlobalStep, Globals
  <2>3. Own(n) \in Bindings /\ Own(n) = <<Shared, n>>
    BY <2>2, TopFrame, ScopeFacts DEF Own, TypeOK
  <2>4. G \in SUBSET (Bindings \X Free)
    BY <2>3
  <2>5. Holds(Own(n), c0) \/ <<Own(n), c0>> \in G
    <3>1. n \in DOMAIN globals => Holds(Own(n), c0)
      BY <2>1, <2>3 DEF GlobalStep, Holds
    <3> QED BY <2>1, <3>1 DEF GlobalStep
  <2>6. ASSUME NEW b \in Bindings, NEW c \in Cells, Holds(b, c)'
        PROVE  Holds(b, c) \/ <<b, c>> \in G
    <3> HIDE DEF G
    <3>1. CASE InFrame(b, c)'
      <4>1. InFrame(b, c) \/ (b \in DOMAIN fr.cells /\ fr.cells[b] = c)
        BY <2>1, <3>1, HeldOnTop DEF GlobalStep
      <4>2. CASE b \in DOMAIN fr.cells /\ fr.cells[b] = c
        BY <2>1, <2>5, <4>2, HeldByTop DEF GlobalStep
      <4> QED BY <4>1, <4>2, HoldsIs
    <3>2. CASE InGlobals(b, c)'
      <4>1. PICK m \in DOMAIN globals' : b = <<Shared, m>> /\ globals'[m] = c
        BY <3>2 DEF InGlobals
      <4>2. CASE m = n
        BY <2>1, <2>3, <2>5, <4>1, <4>2 DEF GlobalStep
      <4>3. CASE m # n
        <5>1. m \in DOMAIN globals /\ globals[m] = c
          BY <2>1, <4>1, <4>3 DEF GlobalStep
        <5> QED BY <4>1, <5>1 DEF Holds
      <4> QED BY <4>2, <4>3
    <3>3. CASE ~ InFrame(b, c)' /\ ~ InGlobals(b, c)'
      BY <2>1, <2>6, <3>3, HoldsIs DEF GlobalStep, InClosure, InPersistents
    <3> QED BY <3>1, <3>2, <3>3
  <2>7. \A b, x \in Bindings, c \in Free : <<b, c>> \in G /\ <<x, c>> \in G => b = x
    OBVIOUS
  <2> HIDE DEF G
  <2> QED BY <2>4, <2>6, <2>7, OneVariableStep
<1>3. ASSUME NEW n \in Names, DeclarePersistent(n)
      PROVE  CellsAreOneVariable'
  <2>1. PICK fr \in Frame, c0 \in Cells : PersistentStep(fr, c0, n)
    BY <1>3, DeclarePersistentFacts
  <2> DEFINE G == {Own(n)} \X ({c0} \cap Free)
  <2>2. n \in DOMAIN Scope[Top.fn]
    BY <2>1, TopFrame, ProgramIsTyped DEF PersistentStep, TypeOK
  <2>3. Own(n) \in Bindings
    BY <2>2, TopFrame, ScopeFacts DEF Own, TypeOK
  <2>4. G \in SUBSET (Bindings \X Free)
    BY <2>3
  <2>5. Holds(Own(n), c0) \/ <<Own(n), c0>> \in G
    <3>1. Own(n) \in DOMAIN persistents => Holds(Own(n), c0)
      BY <2>1 DEF PersistentStep, Holds
    <3> QED BY <2>1, <3>1 DEF PersistentStep
  <2>6. ASSUME NEW b \in Bindings, NEW c \in Cells, Holds(b, c)'
        PROVE  Holds(b, c) \/ <<b, c>> \in G
    <3> HIDE DEF G
    <3>1. CASE InFrame(b, c)'
      <4>1. InFrame(b, c) \/ (b \in DOMAIN fr.cells /\ fr.cells[b] = c)
        BY <2>1, <3>1, HeldOnTop DEF PersistentStep
      <4>2. CASE b \in DOMAIN fr.cells /\ fr.cells[b] = c
        BY <2>1, <2>5, <4>2, HeldByTop DEF PersistentStep
      <4> QED BY <4>1, <4>2, HoldsIs
    <3>2. CASE InPersistents(b, c)'
      BY <2>1, <2>5, <3>2, HoldsIs DEF PersistentStep, InPersistents
    <3>3. CASE ~ InFrame(b, c)' /\ ~ InPersistents(b, c)'
      BY <2>1, <2>6, <3>3, HoldsIs DEF PersistentStep, InClosure, InGlobals
    <3> QED BY <3>1, <3>2, <3>3
  <2>7. \A b, x \in Bindings, c \in Free : <<b, c>> \in G /\ <<x, c>> \in G => b = x
    OBVIOUS
  <2> HIDE DEF G
  <2> QED BY <2>4, <2>6, <2>7, OneVariableStep
<1>4. ASSUME NEW S, frames' = OnTop(Cleared(Top, S)), UNCHANGED closures,
             globals' = globals \/ globals' = << >>,
             persistents' = persistents \/ persistents' = << >>
      PROVE  CellsAreOneVariable'
  <2> DEFINE fr == Cleared(Top, S)
  <2>1. /\ fr \in Frame /\ frames' = OnTop(fr)
        /\ DOMAIN fr.cells \subseteq DOMAIN Top.cells
        /\ \A x \in DOMAIN fr.cells : fr.cells[x] = Top.cells[x]
    BY <1>4, ClearFacts DEF ClearsTop
  <2> HIDE DEF fr
  <2>2. ASSUME NEW b \in Bindings, NEW c \in Cells, Holds(b, c)'
        PROVE  Holds(b, c)
    <3>1. CASE InFrame(b, c)'
      BY <2>1, <3>1, HeldOnTop, HeldByTop, HoldsIs
    <3>2. CASE ~ InFrame(b, c)'
      BY <1>4, <2>2, <3>2, HoldsIs DEF InClosure, InPersistents, InGlobals
    <3> QED BY <3>1, <3>2
  <2> QED BY <2>2 DEF CellsAreOneVariable
<1>5. ASSUME NEW S \in SUBSET Names, Clear(S)
      PROVE  CellsAreOneVariable'
  BY <1>4, <1>5 DEF Clear
<1>6. CASE ClearGlobal
  BY <1>4, <1>6 DEF ClearGlobal
<1>7. CASE ClearAll
  BY <1>4, <1>7 DEF ClearAll
<1>8. CASE Return
  <2>1. ASSUME NEW b \in Bindings, NEW c \in Cells, Holds(b, c)'
        PROVE  Holds(b, c)
    <3>1. /\ DOMAIN frames' \subseteq DOMAIN frames
          /\ \A i \in DOMAIN frames' : frames'[i] = frames[i]
          /\ UNCHANGED <<globals, persistents, closures>>
      BY <1>8, ReturnFacts
    <3> QED BY <2>1, <3>1, HoldsIs DEF InFrame, InClosure, InPersistents, InGlobals
  <2> QED BY <2>1 DEF CellsAreOneVariable
<1>9. ASSUME NEW f \in Functions, NEW v \in Values, Call(f, v)
      PROVE  CellsAreOneVariable'
  <2> DEFINE captured == Restrict(Top.cells, Captures(f) \cap DOMAIN Top.cells)
  <2>1. /\ Enter(f, Top.cells, captured, v) /\ captured \in Partial(Bindings, Cells)
        /\ \A x \in DOMAIN captured : x \in DOMAIN Top.cells /\ captured[x] = Top.cells[x]
    BY <1>9, CallFacts
  <2> HIDE DEF captured
  <2>2. Top.cells \in Partial(Bindings, Cells)
    BY TopFrame DEF TypeOK
  <2>3. /\ \A b \in DOMAIN Top.cells : Holds(b, Top.cells[b])
        /\ \A b \in DOMAIN captured : Holds(b, captured[b])
    BY <2>1, HeldByTop
  <2> QED BY <2>1, <2>2, <2>3, EnterOneVariable
<1>10. ASSUME NEW k \in closures, NEW v \in Values, CallHandle(k, v)
       PROVE  CellsAreOneVariable'
  <2>1. k.target \in Functions /\ k.cells \in Partial(Bindings, Cells)
    BY DEF TypeOK, Closure
  <2>2. \A b \in DOMAIN k.cells : Holds(b, k.cells[b])
    BY DEF Holds
  <2>3. \A b \in DOMAIN << >> : Holds(b, << >>[b])
    BY PartialEmpty
  <2> QED BY <1>10, <2>1, <2>2, <2>3, PartialEmpty, EnterOneVariable DEF CallHandle
<1>11. ASSUME NEW f \in Functions, MakeHandle(f)
       PROVE  CellsAreOneVariable'
  <2>1. PICK k \in Closure :
          /\ closures' = closures \cup {k} /\ DOMAIN k.cells \subseteq DOMAIN Top.cells
          /\ \A x \in DOMAIN k.cells : k.cells[x] = Top.cells[x]
          /\ UNCHANGED <<frames, content, globals, persistents>>
    BY <1>11, MakeHandleFacts
  <2>2. ASSUME NEW b \in Bindings, NEW c \in Cells, Holds(b, c)'
        PROVE  Holds(b, c)
    <3>1. CASE InClosure(b, c)'
      <4>1. InClosure(b, c) \/ (b \in DOMAIN k.cells /\ k.cells[b] = c)
        BY <2>1, <3>1 DEF InClosure
      <4> QED BY <2>1, <4>1, HeldByTop, HoldsIs
    <3>2. CASE ~ InClosure(b, c)'
      BY <2>1, <2>2, <3>2, HoldsIs DEF InFrame, InPersistents, InGlobals
    <3> QED BY <3>1, <3>2
  <2> QED BY <2>2 DEF CellsAreOneVariable
<1>12. CASE UNCHANGED vars
  BY <1>12 DEF vars, CellsAreOneVariable, Holds
<1> QED BY <1>1, <1>2, <1>3, <1>5, <1>6, <1>7, <1>8, <1>9, <1>10, <1>11, <1>12 DEF Next

-----------------------------------------------------------------------------
(* Activations do not share their private variables.                       *)
(*                                                                         *)
(* An activation holds the cells of its caller, so that cells are shared   *)
(* all over the stack.  But they are shared downwards a chain of calls by  *)
(* name, along which the depth of the functions grows; two activations of  *)
(* one function are therefore never on the same chain.                     *)

Depth == CHOOSE depth \in [Functions -> 0 .. Cardinality(Functions)] :
             \A f \in Functions : \A g \in Calls[f] : depth[f] < depth[g]

Deeper ==
    \A i, j \in DOMAIN frames : i < j =>
        \A b \in DOMAIN frames[i].cells \cap DOMAIN frames[j].cells :
            Private(b) /\ frames[i].cells[b] = frames[j].cells[b]
                => Depth[frames[i].fn] < Depth[frames[j].fn]

ClosuresCapture == \A k \in closures : DOMAIN k.cells \subseteq Captures(k.target)

LEMMA DepthFacts ==
    ASSUME NonRecursive
    PROVE  /\ \A f \in Functions : Depth[f] \in Int
           /\ \A f \in Functions : \A g \in Calls[f] : Depth[f] < Depth[g]
<1> DEFINE Good(depth) == \A f \in Functions : \A g \in Calls[f] : depth[f] < depth[g]
           D == [Functions -> 0 .. Cardinality(Functions)]
<1>1. \E depth \in D : Good(depth)
  BY DEF NonRecursive
<1>2. Depth = CHOOSE depth \in D : Good(depth)
  BY DEF Depth
<1>3. Depth \in D /\ Good(Depth)
  <2> HIDE DEF D, Good
  <2> QED BY <1>1, <1>2
<1>4. \A f \in Functions : Depth[f] \in 0 .. Cardinality(Functions)
  BY <1>3
<1>5. \A f \in Functions : Depth[f] \in Int
  BY <1>4
<1> QED BY <1>3, <1>5

LEMMA SharedIsNotPrivate ==
    ASSUME NEW f \in Functions
    PROVE  /\ \A b \in Captures(f) : ~ Private(b)
           /\ \A n \in Globals(f) : ~ Private(Scope[f][n])
           /\ \A n \in Persistents[f] : ~ Private(Scope[f][n])
<1>1. \A b \in Captures(f) : ~ Private(b)
  BY DEF Captures, Private
<1>2. \A n \in Globals(f) : ~ Private(Scope[f][n])
  BY ProgramIsBound DEF Globals, Private
<1>3. ASSUME NEW n \in Persistents[f] PROVE ~ Private(Scope[f][n])
  <2>1. n \in DOMAIN Scope[f] /\ Scope[f][n][1] = f
    BY ProgramIsTyped
  <2>2. Scope[f][n][2] = n
    BY <2>1, ScopeFacts
  <2> QED BY <2>1, <2>2 DEF Private
<1> QED BY <1>1, <1>2, <1>3

LEMMA DeeperOnTop ==
    ASSUME TypeOK, Deeper, NEW fr \in Frame, frames' = OnTop(fr), fr.fn = Top.fn,
           \A b \in DOMAIN fr.cells : Private(b) =>
             \/ b \in DOMAIN Top.cells /\ fr.cells[b] = Top.cells[b]
             \/ fr.cells[b] \in Free
    PROVE  Deeper'
<1> DEFINE top == Len(frames)
<1>1. /\ DOMAIN frames' = DOMAIN frames /\ frames'[top] = fr /\ top \in Nat
      /\ \A i \in DOMAIN frames : i # top => frames'[i] = frames[i]
      /\ \A i \in DOMAIN frames : i \in Nat /\ i <= top
      /\ top \in DOMAIN frames
  BY OnTopFacts, TopFrame DEF TypeOK
<1>2. SUFFICES ASSUME NEW i \in DOMAIN frames, NEW j \in DOMAIN frames, i < j,
                      NEW b \in DOMAIN frames'[i].cells \cap DOMAIN frames'[j].cells,
                      Private(b), frames'[i].cells[b] = frames'[j].cells[b]
               PROVE  Depth[frames'[i].fn] < Depth[frames'[j].fn]
  BY <1>1 DEF Deeper
<1>3. i # top /\ frames'[i] = frames[i]
  BY <1>1, <1>2
<1>4. CASE j # top
  BY <1>1, <1>2, <1>3, <1>4 DEF Deeper
<1>5. CASE j = top
  <2>1. b \in DOMAIN fr.cells /\ b \in DOMAIN frames[i].cells
        /\ frames[i].cells[b] = fr.cells[b]
    BY <1>1, <1>2, <1>3, <1>5
  <2>2. Holds(b, fr.cells[b])
    BY <2>1 DEF Holds
  <2>3. b \in DOMAIN Top.cells /\ fr.cells[b] = Top.cells[b]
    BY <1>2, <2>1, <2>2, FreeIsNotHeld
  <2>4. Depth[frames[i].fn] < Depth[frames[top].fn]
    BY <1>1, <1>2, <1>5, <2>1, <2>3 DEF Deeper, Top
  <2> QED BY <1>1, <1>3, <1>5, <2>4 DEF Top
<1> QED BY <1>4, <1>5

LEMMA DeeperEnter ==
    ASSUME TypeOK, Deeper, NonRecursive, NEW f \in Functions,
           NEW inherited \in Partial(Bindings, Cells),
           NEW captured \in Partial(Bindings, Cells), NEW v, Enter(f, inherited, captured, v),
           DOMAIN captured \subseteq Captures(f),
           \/ inherited = Top.cells /\ f \in Calls[Top.fn]
           \/ DOMAIN inherited = {}
    PROVE  Deeper'
<1> DEFINE top == Len(frames)
<1>1. PICK fr \in Frame : EnterStep(fr, f, inherited, captured, v)
  BY EnterFacts
<1>2. /\ DOMAIN frames' = DOMAIN frames \cup {top + 1} /\ frames'[top + 1] = fr
      /\ \A i \in DOMAIN frames : frames'[i] = frames[i]
      /\ \A i \in DOMAIN frames : i \in Nat /\ i <= top
      /\ top \in DOMAIN frames /\ top \in Nat /\ Top.fn \in Functions
      /\ \A i \in DOMAIN frames : frames[i].fn \in Functions
  BY <1>1, AppendFacts, TopFrame DEF TypeOK, EnterStep, Frame
<1>3. SUFFICES ASSUME NEW i \in DOMAIN frames', NEW j \in DOMAIN frames', i < j,
                      NEW b \in DOMAIN frames'[i].cells \cap DOMAIN frames'[j].cells,
                      Private(b), frames'[i].cells[b] = frames'[j].cells[b]
               PROVE  Depth[frames'[i].fn] < Depth[frames'[j].fn]
  BY DEF Deeper
<1>4. i \in DOMAIN frames /\ frames'[i] = frames[i] /\ i <= top
  BY <1>2, <1>3
<1>5. CASE j \in DOMAIN frames
  BY <1>2, <1>3, <1>4, <1>5 DEF Deeper
<1>6. CASE j = top + 1
  <2>1. /\ b \in DOMAIN fr.cells /\ b \in DOMAIN frames[i].cells
        /\ frames[i].cells[b] = fr.cells[b] /\ fr.fn = f
    BY <1>1, <1>2, <1>3, <1>4, <1>6 DEF EnterStep
  <2>2. fr.cells[b] \notin Free
    <3>1. Holds(b, fr.cells[b])
      BY <1>4, <2>1 DEF Holds
    <3> QED BY <3>1, FreeIsNotHeld
  <2>3. b \notin DOMAIN captured
    BY <1>3, SharedIsNotPrivate
  <2>4. b \in DOMAIN inherited /\ fr.cells[b] = inherited[b]
    BY <1>1, <2>1, <2>2, <2>3 DEF EnterStep
  <2>5. inherited = Top.cells /\ f \in Calls[Top.fn]
    BY <2>4
  <2>6. Depth[Top.fn] < Depth[f]
    BY <1>2, <2>5, DepthFacts
  <2>7. CASE i = top
    BY <1>2, <1>4, <1>6, <2>1, <2>6, <2>7 DEF Top
  <2>8. CASE i # top
    <3>1. Depth[frames[i].fn] < Depth[frames[top].fn]
      BY <1>2, <1>3, <1>4, <2>1, <2>4, <2>5, <2>8 DEF Deeper, Top
    <3>2. Depth[frames[i].fn] \in Int /\ Depth[Top.fn] \in Int /\ Depth[f] \in Int
      BY <1>2, <1>4, DepthFacts
    <3>3. Depth[frames[i].fn] < Depth[f]
      BY <2>6, <3>1, <3>2 DEF Top
    <3> QED BY <1>2, <1>4, <1>6, <2>1, <3>3
  <2> QED BY <2>7, <2>8
<1> QED BY <1>2, <1>5, <1>6

LEMMA DeeperStep ==
    ASSUME NonRecursive, TypeOK, Deeper, ClosuresCapture, [Next]_vars
    PROVE  Deeper' /\ ClosuresCapture'
<1>1. ASSUME NEW n \in Names, NEW v \in Values, Assign(n, v)
      PROVE  Deeper' /\ ClosuresCapture'
  <2>1. PICK fr \in Frame : AssignStep(fr, n, v)
    BY <1>1, AssignFacts
  <2>2. \A b \in DOMAIN fr.cells :
          \/ b \in DOMAIN Top.cells /\ fr.cells[b] = Top.cells[b]
          \/ fr.cells[b] \in Free
    BY <2>1 DEF AssignStep
  <2> QED BY <2>1, <2>2, DeeperOnTop DEF AssignStep, ClosuresCapture
<1>2. ASSUME NEW n \in Names, DeclareGlobal(n)
      PROVE  Deeper' /\ ClosuresCapture'
  <2>1. PICK fr \in Frame, c \in Cells : GlobalStep(fr, c, n)
    BY <1>2, DeclareGlobalFacts
  <2>2. ~ Private(Own(n))
    BY <2>1, TopFrame, SharedIsNotPrivate DEF GlobalStep, TypeOK, Own
  <2>3. \A b \in DOMAIN fr.cells : Private(b) =>
          b \in DOMAIN Top.cells /\ fr.cells[b] = Top.cells[b]
    BY <2>1, <2>2 DEF GlobalStep
  <2> QED BY <2>1, <2>3, DeeperOnTop DEF GlobalStep, ClosuresCapture
<1>3. ASSUME NEW n \in Names, DeclarePersistent(n)
      PROVE  Deeper' /\ ClosuresCapture'
  <2>1. PICK fr \in Frame, c \in Cells : PersistentStep(fr, c, n)
    BY <1>3, DeclarePersistentFacts
  <2>2. ~ Private(Own(n))
    BY <2>1, TopFrame, SharedIsNotPrivate DEF PersistentStep, TypeOK, Own
  <2>3. \A b \in DOMAIN fr.cells : Private(b) =>
          b \in DOMAIN Top.cells /\ fr.cells[b] = Top.cells[b]
    BY <2>1, <2>2 DEF PersistentStep
  <2> QED BY <2>1, <2>3, DeeperOnTop DEF PersistentStep, ClosuresCapture
<1>4. ASSUME NEW S, frames' = OnTop(Cleared(Top, S)), UNCHANGED closures
      PROVE  Deeper' /\ ClosuresCapture'
  <2> DEFINE fr == Cleared(Top, S)
  <2>1. ClearsTop(fr, S)
    BY <1>4, ClearFacts
  <2> HIDE DEF fr
  <2>2. \A b \in DOMAIN fr.cells : b \in DOMAIN Top.cells /\ fr.cells[b] = Top.cells[b]
    BY <2>1 DEF ClearsTop
  <2> QED BY <1>4, <2>1, <2>2, DeeperOnTop DEF ClearsTop, ClosuresCapture
<1>5. ASSUME NEW S \in SUBSET Names, Clear(S)
      PROVE  Deeper' /\ ClosuresCapture'
  BY <1>4, <1>5 DEF Clear
<1>6. CASE ClearGlobal
  BY <1>4, <1>6 DEF ClearGlobal
<1>7. CASE ClearAll
  BY <1>4, <1>7 DEF ClearAll
<1>8. CASE Return
  BY <1>8, ReturnFacts DEF Deeper, ClosuresCapture
<1>9. ASSUME NEW f \in Functions, NEW v \in Values, Call(f, v)
      PROVE  Deeper' /\ ClosuresCapture'
  <2> DEFINE captured == Restrict(Top.cells, Captures(f) \cap DOMAIN Top.cells)
  <2>1. /\ f \in Calls[Top.fn] /\ Enter(f, Top.cells, captured, v)
        /\ captured \in Partial(Bindings, Cells) /\ DOMAIN captured \subseteq Captures(f)
    BY <1>9, CallFacts
  <2> HIDE DEF captured
  <2>2. Top.cells \in Partial(Bindings, Cells)
    BY TopFrame DEF TypeOK
  <2>3. closures' = closures
    BY <2>1 DEF Enter
  <2> QED BY <2>1, <2>2, <2>3, DeeperEnter DEF ClosuresCapture
<1>10. ASSUME NEW k \in closures, NEW v \in Values, CallHandle(k, v)
       PROVE  Deeper' /\ ClosuresCapture'
  <2>1. k.target \in Functions /\ k.cells \in Partial(Bindings, Cells)
    BY DEF TypeOK, Closure
  <2>2. DOMAIN k.cells \subseteq Captures(k.target)
    BY DEF ClosuresCapture
  <2>3. closures' = closures
    BY <1>10 DEF CallHandle, Enter
  <2> QED BY <1>10, <2>1, <2>2, <2>3, PartialEmpty, DeeperEnter DEF CallHandle, ClosuresCapture
<1>11. ASSUME NEW f \in Functions, MakeHandle(f)
       PROVE  Deeper' /\ ClosuresCapture'
  BY <1>11, MakeHandleFacts DEF Deeper, ClosuresCapture
<1>12. CASE UNCHANGED vars
  BY <1>12 DEF vars, Deeper, ClosuresCapture
<1> QED BY <1>1, <1>2, <1>3, <1>5, <1>6, <1>7, <1>8, <1>9, <1>10, <1>11, <1>12 DEF Next

LEMMA DeeperSeparates ==
    ASSUME TypeOK, CellsAreOneVariable, NonRecursive, Deeper
    PROVE  FramesAreSeparate
<1> SUFFICES ASSUME NEW j \in DOMAIN frames, NEW i \in 1 .. j - 1,
                    NEW b \in Range(Scope[frames[i].fn]) \cap DOMAIN frames[i].cells,
                    Private(b),
                    NEW x \in Range(Scope[frames[j].fn]) \cap DOMAIN frames[j].cells,
                    frames[j].cells[x] = frames[i].cells[b]
             PROVE  FALSE
  BY DEF FramesAreSeparate
<1>1. i \in DOMAIN frames /\ i < j
  BY DEF TypeOK
<1>2. frames[i] \in Frame /\ frames[j] \in Frame
  BY <1>1, TopFrame DEF TypeOK
<1>3. frames[i].fn \in Functions /\ frames[j].fn \in Functions
  BY <1>2 DEF Frame
<1>4. b \in Bindings /\ x \in Bindings
  BY <1>3, RangeFacts
<1>5. frames[i].cells[b] \in Cells
  <2>1. frames[i].cells \in Partial(Bindings, Cells)
    BY <1>2 DEF Frame
  <2> QED BY <2>1, PartialMember
<1>6. Holds(b, frames[i].cells[b]) /\ Holds(x, frames[i].cells[b])
  BY <1>1 DEF Holds
<1>7. b = x
  BY <1>4, <1>5, <1>6 DEF CellsAreOneVariable
<1>8. frames[i].fn = b[1] /\ frames[j].fn = b[1]
  BY <1>3, <1>7 DEF Private
<1>9. Depth[frames[i].fn] < Depth[frames[j].fn]
  BY <1>1, <1>7 DEF Deeper
<1> QED BY <1>3, <1>8, <1>9, DepthFacts

-----------------------------------------------------------------------------
(* What a step writes is a cell of the running activation, under a name    *)
(* that its function mentions.                                             *)

Writes(fr) ==
    \A c \in Cells : content'[c] # content[c] =>
        \/ c \notin Held(frames', globals', persistents', closures')
        \/ \E b \in Range(Scope[fr.fn]) \cap DOMAIN fr.cells : fr.cells[b] = c

LEMMA WritesLeave ==
    ASSUME TypeOK', FramesAreSeparate', Writes(frames'[Len(frames')]),
           \A i \in DOMAIN frames \cap DOMAIN frames' :
               i < Len(frames') => frames'[i] = frames[i]
    PROVE  SuspendedKeepTheirs
<1> SUFFICES ASSUME NEW i \in DOMAIN frames \cap DOMAIN frames', i < Len(frames'),
                    NEW b \in Range(Scope[frames[i].fn]) \cap DOMAIN frames[i].cells,
                    Private(b),
                    content'[frames[i].cells[b]] # content[frames[i].cells[b]]
             PROVE  FALSE
  BY DEF SuspendedKeepTheirs
<1> DEFINE top == Len(frames')
           c == frames[i].cells[b]
<1>1. /\ frames'[i] = frames[i] /\ top \in DOMAIN frames' /\ i \in 1 .. top - 1
      /\ frames'[i] \in Frame
  BY DEF TypeOK
<1>2. frames[i].cells \in Partial(Bindings, Cells)
  BY <1>1 DEF Frame
<1>3. c \in Cells
  BY <1>2, PartialMember
<1>4. c \in Held(frames', globals', persistents', closures')
  <2>1. c \in Range(frames'[i].cells)
    BY <1>1 DEF Range
  <2>2. Range(frames'[i].cells) \in {Range(frames'[k].cells) : k \in DOMAIN frames'}
    OBVIOUS
  <2> HIDE DEF c
  <2> QED BY <2>1, <2>2 DEF Held
<1>5. PICK x \in Range(Scope[frames'[top].fn]) \cap DOMAIN frames'[top].cells :
        frames'[top].cells[x] = c
  BY <1>3, <1>4 DEF Writes
<1> QED BY <1>1, <1>5 DEF FramesAreSeparate

LEMMA KeptWrites ==
    ASSUME NEW fr, NEW held, held = Held(frames', globals', persistents', closures'),
           NEW c \in Cells, NEW w, NEW b \in Range(Scope[fr.fn]) \cap DOMAIN fr.cells,
           fr.cells[b] = c, content \in [Cells -> Values \cup {None}],
           \/ content' = Kept(content, held)
           \/ content' = Kept([content EXCEPT ![c] = w], held)
           \/ content' = [content EXCEPT ![c] = w]
    PROVE  Writes(fr)
BY DEF Writes, Kept

LEMMA OnlyKept ==
    ASSUME NEW fr, content' = Kept(content, Held(frames', globals', persistents', closures'))
    PROVE  Writes(fr)
BY DEF Writes, Kept

LEMMA BelowTop ==
    ASSUME TypeOK, NEW fr \in Frame, frames' = OnTop(fr)
    PROVE  /\ frames'[Len(frames')] = fr
           /\ \A i \in DOMAIN frames \cap DOMAIN frames' :
                i < Len(frames') => frames'[i] = frames[i]
BY OnTopFacts, TopFrame DEF TypeOK

LEMMA EnterWrites ==
    ASSUME TypeOK, NEW f \in Functions, NEW inherited \in Partial(Bindings, Cells),
           NEW captured \in Partial(Bindings, Cells), NEW v, Enter(f, inherited, captured, v)
    PROVE  /\ Writes(frames'[Len(frames')])
           /\ \A i \in DOMAIN frames \cap DOMAIN frames' :
                i < Len(frames') => frames'[i] = frames[i]
<1>1. PICK fr \in Frame : EnterStep(fr, f, inherited, captured, v)
  BY EnterFacts
<1>2. /\ Len(frames') = Len(frames) + 1 /\ frames'[Len(frames')] = fr
      /\ \A i \in DOMAIN frames : frames'[i] = frames[i]
  BY <1>1, AppendFacts, TopFrame DEF TypeOK, EnterStep
<1>3. \A n \in Params[f] : Scope[f][n] \in Range(Scope[f])
  BY ProgramIsTyped DEF Range
<1>4. ASSUME NEW c \in Cells, content'[c] # content[c]
      PROVE  \E b \in Range(Scope[fr.fn]) \cap DOMAIN fr.cells : fr.cells[b] = c
  <2>1. PICK n \in Params[f] : c = fr.cells[Scope[f][n]]
    BY <1>1, <1>4 DEF EnterStep
  <2> QED BY <1>1, <1>3, <2>1 DEF EnterStep
<1> QED BY <1>2, <1>4 DEF Writes

LEMMA StepLeavesVariables ==
    ASSUME TypeOK, TypeOK', FramesAreSeparate', [Next]_vars
    PROVE  SuspendedKeepTheirs
<1>0. /\ Top.fn \in Functions /\ content \in [Cells -> Values \cup {None}]
      /\ Top.cells \in Partial(Bindings, Cells)
  BY TopFrame DEF TypeOK
<1>1. ASSUME NEW n \in Names, NEW v \in Values, Assign(n, v)
      PROVE  SuspendedKeepTheirs
  <2>1. PICK fr \in Frame : AssignStep(fr, n, v)
    BY <1>1, AssignFacts
  <2>2. Own(n) \in Range(Scope[fr.fn]) \cap DOMAIN fr.cells
    BY <1>0, <2>1, ScopeFacts DEF AssignStep, Own
  <2>3. Writes(fr)
    BY <1>0, <2>1, <2>2, KeptWrites DEF AssignStep
  <2> QED BY <2>1, <2>3, BelowTop, WritesLeave DEF AssignStep
<1>2. ASSUME NEW n \in Names, DeclareGlobal(n)
      PROVE  SuspendedKeepTheirs
  <2>1. PICK fr \in Frame, c \in Cells : GlobalStep(fr, c, n)
    BY <1>2, DeclareGlobalFacts
  <2>2. Own(n) \in Range(Scope[fr.fn]) \cap DOMAIN fr.cells
    BY <1>0, <2>1, ScopeFacts DEF GlobalStep, Globals, Own
  <2>3. Writes(fr)
    BY <1>0, <2>1, <2>2, KeptWrites DEF GlobalStep
  <2> QED BY <2>1, <2>3, BelowTop, WritesLeave DEF GlobalStep
<1>3. ASSUME NEW n \in Names, DeclarePersistent(n)
      PROVE  SuspendedKeepTheirs
  <2>1. PICK fr \in Frame, c \in Cells : PersistentStep(fr, c, n)
    BY <1>3, DeclarePersistentFacts
  <2>2. Own(n) \in Range(Scope[fr.fn]) \cap DOMAIN fr.cells
    BY <1>0, <2>1, ScopeFacts, ProgramIsTyped DEF PersistentStep, Own
  <2>3. Writes(fr)
    BY <1>0, <2>1, <2>2, KeptWrites DEF PersistentStep
  <2> QED BY <2>1, <2>3, BelowTop, WritesLeave DEF PersistentStep
<1>4. ASSUME NEW S, frames' = OnTop(Cleared(Top, S)),
             content' = Kept(content, Held(frames', globals', persistents', closures'))
      PROVE  SuspendedKeepTheirs
  <2>1. Cleared(Top, S) \in Frame
    BY <1>4, ClearFacts DEF ClearsTop
  <2> QED BY <1>4, <2>1, OnlyKept, BelowTop, WritesLeave
<1>5. ASSUME NEW S \in SUBSET Names, Clear(S)
      PROVE  SuspendedKeepTheirs
  BY <1>4, <1>5 DEF Clear
<1>6. CASE ClearGlobal
  BY <1>4, <1>6 DEF ClearGlobal
<1>7. CASE ClearAll
  BY <1>4, <1>7 DEF ClearAll
<1>8. CASE Return
  <2>1. /\ content' = Kept(content, Held(frames', globals', persistents', closures'))
        /\ \A i \in DOMAIN frames' : frames'[i] = frames[i]
    BY <1>8, ReturnFacts
  <2> QED BY <2>1, OnlyKept, WritesLeave
<1>9. ASSUME NEW f \in Functions, NEW v \in Values, Call(f, v)
      PROVE  SuspendedKeepTheirs
  BY <1>0, <1>9, CallFacts, EnterWrites, WritesLeave
<1>10. ASSUME NEW k \in closures, NEW v \in Values, CallHandle(k, v)
       PROVE  SuspendedKeepTheirs
  <2>1. k.target \in Functions /\ k.cells \in Partial(Bindings, Cells)
    BY DEF TypeOK, Closure
  <2> QED BY <1>10, <2>1, PartialEmpty, EnterWrites, WritesLeave DEF CallHandle
<1>11. ASSUME NEW f \in Functions, MakeHandle(f)
       PROVE  SuspendedKeepTheirs
  BY <1>11 DEF MakeHandle, SuspendedKeepTheirs
<1>12. CASE UNCHANGED vars
  BY <1>12 DEF vars, SuspendedKeepTheirs
<1> QED BY <1>1, <1>2, <1>3, <1>5, <1>6, <1>7, <1>8, <1>9, <1>10, <1>11, <1>12 DEF Next

-----------------------------------------------------------------------------
(* Globals and persistents have one cell each, in a program in which only  *)
(* the script body, which nothing calls, clears globals.                   *)

OnlyMainClears ==
    /\ ClearsGlobal \subseteq {Main} /\ ClearsAll \subseteq {Main}
    /\ \A f \in Functions : Main \notin Calls[f] \cup Handles[f]

MainIsBottom ==
    /\ \A i \in DOMAIN frames : i # 1 => frames[i].fn # Main
    /\ \A k \in closures : k.target # Main

\* The marks of a frame are on names of its function whose bindings have cells.
Marked ==
    \A i \in DOMAIN frames :
        LET fr == frames[i]
        IN  /\ fr.names \subseteq DOMAIN Scope[fr.fn]
            /\ \A n \in fr.global : n \in Globals(fr.fn) /\ Scope[fr.fn][n] \in DOMAIN fr.cells
            /\ \A n \in fr.persistent :
                 n \in Persistents[fr.fn] /\ Scope[fr.fn][n] \in DOMAIN fr.cells

\* Marked and StorageIsShared, of one frame and given tables.
FrameMarked(fr) ==
    /\ fr.names \subseteq DOMAIN Scope[fr.fn]
    /\ \A n \in fr.global : n \in Globals(fr.fn) /\ Scope[fr.fn][n] \in DOMAIN fr.cells
    /\ \A n \in fr.persistent :
         n \in Persistents[fr.fn] /\ Scope[fr.fn][n] \in DOMAIN fr.cells
FrameShares(fr, gs, ps) ==
    /\ \A n \in fr.global : n \in DOMAIN gs /\ fr.cells[Scope[fr.fn][n]] = gs[n]
    /\ \A n \in fr.persistent :
         Scope[fr.fn][n] \in DOMAIN ps /\ fr.cells[Scope[fr.fn][n]] = ps[Scope[fr.fn][n]]

LEMMA ByFrame ==
    /\ Marked <=> \A i \in DOMAIN frames : FrameMarked(frames[i])
    /\ Marked' <=> \A i \in DOMAIN frames' : FrameMarked(frames'[i])
    /\ StorageIsShared <=> \A i \in DOMAIN frames : FrameShares(frames[i], globals, persistents)
    /\ StorageIsShared' <=>
         \A i \in DOMAIN frames' : FrameShares(frames'[i], globals', persistents')
BY DEF Marked, FrameMarked, StorageIsShared, FrameShares

\* Tables that grow keep what a frame shares with them.
LEMMA TablesGrow ==
    ASSUME NEW fr, NEW gs, NEW ps, NEW gs2, NEW ps2, FrameShares(fr, gs, ps),
           \A n \in DOMAIN gs : n \in DOMAIN gs2 /\ gs2[n] = gs[n],
           \A b \in DOMAIN ps : b \in DOMAIN ps2 /\ ps2[b] = ps[b]
    PROVE  FrameShares(fr, gs2, ps2)
BY DEF FrameShares

LEMMA SharedOnTop ==
    ASSUME TypeOK, Marked, StorageIsShared, NEW fr \in Frame, frames' = OnTop(fr),
           FrameMarked(fr), FrameShares(fr, globals', persistents'),
           \/ Len(frames) = 1
           \/ /\ \A n \in DOMAIN globals : n \in DOMAIN globals' /\ globals'[n] = globals[n]
              /\ \A b \in DOMAIN persistents :
                   b \in DOMAIN persistents' /\ persistents'[b] = persistents[b]
    PROVE  Marked' /\ StorageIsShared'
<1>1. /\ DOMAIN frames' = DOMAIN frames /\ frames'[Len(frames)] = fr
      /\ \A i \in DOMAIN frames : i # Len(frames) => frames'[i] = frames[i]
  BY OnTopFacts DEF TypeOK
<1>2. Marked'
  BY <1>1, ByFrame
<1>3. ASSUME NEW i \in DOMAIN frames, i # Len(frames)
      PROVE  FrameShares(frames[i], globals', persistents')
  <2>1. FrameShares(frames[i], globals, persistents)
    BY ByFrame
  <2>2. Len(frames) # 1
    BY <1>3 DEF TypeOK
  <2> QED BY <2>1, <2>2, TablesGrow
<1>4. StorageIsShared'
  BY <1>1, <1>3, ByFrame
<1> QED BY <1>2, <1>4

LEMMA TopMarked ==
    ASSUME TypeOK, Marked, StorageIsShared
    PROVE  /\ FrameMarked(Top) /\ FrameShares(Top, globals, persistents)
           /\ Top.fn \in Functions
BY ByFrame, TopFrame DEF TypeOK, Top

LEMMA BottomOnTop ==
    ASSUME TypeOK, MainIsBottom, NEW fr \in Frame, frames' = OnTop(fr), fr.fn = Top.fn,
           closures' = closures
    PROVE  MainIsBottom'
<1>1. /\ DOMAIN frames' = DOMAIN frames /\ frames'[Len(frames)] = fr
      /\ \A i \in DOMAIN frames : i # Len(frames) => frames'[i] = frames[i]
      /\ Len(frames) \in DOMAIN frames
  BY OnTopFacts, TopFrame DEF TypeOK
<1> QED BY <1>1 DEF MainIsBottom, Top

LEMMA SharedEnter ==
    ASSUME TypeOK, Marked, StorageIsShared, MainIsBottom, NEW f \in Functions, f # Main,
           NEW inherited \in Partial(Bindings, Cells),
           NEW captured \in Partial(Bindings, Cells), NEW v, Enter(f, inherited, captured, v)
    PROVE  Marked' /\ StorageIsShared' /\ MainIsBottom'
<1>1. PICK fr \in Frame : EnterStep(fr, f, inherited, captured, v)
  BY EnterFacts
<1>2. /\ DOMAIN frames' = DOMAIN frames \cup {Len(frames) + 1}
      /\ frames'[Len(frames) + 1] = fr
      /\ \A i \in DOMAIN frames : frames'[i] = frames[i]
      /\ UNCHANGED <<globals, persistents, closures>>
  BY <1>1, AppendFacts DEF TypeOK, EnterStep
<1>3. fr.names \subseteq DOMAIN Scope[f]
  <2>1. \A b \in Captures(f) : b[2] \in DOMAIN Scope[f]
    BY RangeFacts DEF Captures
  <2>2. Params[f] \subseteq DOMAIN Scope[f] /\ Outputs[f] \subseteq DOMAIN Scope[f]
    BY ProgramIsTyped
  <2>3. fr.names = Params[f] \cup Outputs[f] \cup {b[2] : b \in Captures(f)}
    BY <1>1 DEF EnterStep
  <2> QED BY <2>1, <2>2, <2>3
<1>4. FrameMarked(fr) /\ FrameShares(fr, globals, persistents)
  BY <1>1, <1>3 DEF EnterStep, FrameMarked, FrameShares
<1>5. Marked' /\ StorageIsShared'
  BY <1>2, <1>4, ByFrame
<1>6. MainIsBottom'
  BY <1>1, <1>2 DEF MainIsBottom, EnterStep
<1> QED BY <1>5, <1>6

LEMMA SharedStep ==
    ASSUME OnlyMainClears, TypeOK, Marked, StorageIsShared, MainIsBottom, [Next]_vars
    PROVE  Marked' /\ StorageIsShared' /\ MainIsBottom'
<1>0. /\ FrameMarked(Top) /\ FrameShares(Top, globals, persistents) /\ Top.fn \in Functions
      /\ Top \in Frame /\ Top.global \subseteq Top.names /\ Top.persistent \subseteq Top.names
  BY TopMarked, TopFrame DEF TypeOK, Top
<1>1. ASSUME NEW n \in Names, NEW v \in Values, Assign(n, v)
      PROVE  Marked' /\ StorageIsShared' /\ MainIsBottom'
  <2>1. PICK fr \in Frame : AssignStep(fr, n, v)
    BY <1>1, AssignFacts
  <2>2. FrameMarked(fr) /\ FrameShares(fr, globals', persistents')
    BY <1>0, <2>1 DEF AssignStep, SameMarks, FrameMarked, FrameShares
  <2> QED BY <2>1, <2>2, SharedOnTop, BottomOnTop DEF AssignStep
<1>2. ASSUME NEW n \in Names, DeclareGlobal(n)
      PROVE  Marked' /\ StorageIsShared' /\ MainIsBottom'
  <2>1. PICK fr \in Frame, c \in Cells : GlobalStep(fr, c, n)
    BY <1>2, DeclareGlobalFacts
  <2>2. n \in DOMAIN Scope[Top.fn] /\ Own(n) = Scope[Top.fn][n] /\ Own(n) = <<Shared, n>>
    BY <1>0, <2>1, ScopeFacts DEF GlobalStep, Globals, Own
  <2>3. \A m \in Persistents[Top.fn] : Scope[Top.fn][m] # Own(n)
    BY <1>0, <2>2, ProgramIsBound, ProgramIsTyped
  <2>4. \A m \in Globals(Top.fn) : m # n => Scope[Top.fn][m] # Own(n)
    BY <1>0, <2>2, ScopeFacts DEF Globals
  <2>5. FrameMarked(fr)
    BY <1>0, <2>1, <2>2 DEF GlobalStep, FrameMarked
  <2>6. FrameShares(fr, globals', persistents')
    <3>1. ASSUME NEW m \in fr.global
          PROVE  m \in DOMAIN globals' /\ fr.cells[Scope[fr.fn][m]] = globals'[m]
      <4>1. CASE m = n
        BY <2>1, <2>2, <4>1 DEF GlobalStep
      <4>2. CASE m # n
        BY <1>0, <2>1, <2>4, <3>1, <4>2 DEF GlobalStep, FrameMarked, FrameShares
      <4> QED BY <4>1, <4>2
    <3>2. ASSUME NEW m \in fr.persistent
          PROVE  /\ Scope[fr.fn][m] \in DOMAIN persistents'
                 /\ fr.cells[Scope[fr.fn][m]] = persistents'[Scope[fr.fn][m]]
      BY <1>0, <2>1, <2>3, <3>2 DEF GlobalStep, FrameMarked, FrameShares
    <3> QED BY <3>1, <3>2 DEF FrameShares
  <2> QED BY <2>1, <2>5, <2>6, SharedOnTop, BottomOnTop DEF GlobalStep
<1>3. ASSUME NEW n \in Names, DeclarePersistent(n)
      PROVE  Marked' /\ StorageIsShared' /\ MainIsBottom'
  <2>1. PICK fr \in Frame, c \in Cells : PersistentStep(fr, c, n)
    BY <1>3, DeclarePersistentFacts
  <2>2. /\ n \in DOMAIN Scope[Top.fn] /\ Own(n) = Scope[Top.fn][n]
        /\ Own(n)[1] = Top.fn /\ Own(n)[2] = n
    BY <1>0, <2>1, ScopeFacts, ProgramIsTyped DEF PersistentStep, Own
  <2>3. \A m \in Globals(Top.fn) : Scope[Top.fn][m] # Own(n)
    BY <1>0, <2>2, ProgramIsBound DEF Globals
  <2>4. \A m \in Persistents[Top.fn] : m # n => Scope[Top.fn][m] # Own(n)
    BY <1>0, <2>2, ScopeFacts, ProgramIsTyped
  <2>5. FrameMarked(fr)
    BY <1>0, <2>1, <2>2 DEF PersistentStep, FrameMarked
  <2>6. FrameShares(fr, globals', persistents')
    <3>1. ASSUME NEW m \in fr.global
          PROVE  m \in DOMAIN globals' /\ fr.cells[Scope[fr.fn][m]] = globals'[m]
      BY <1>0, <2>1, <2>3, <3>1 DEF PersistentStep, FrameMarked, FrameShares
    <3>2. ASSUME NEW m \in fr.persistent
          PROVE  /\ Scope[fr.fn][m] \in DOMAIN persistents'
                 /\ fr.cells[Scope[fr.fn][m]] = persistents'[Scope[fr.fn][m]]
      <4>1. CASE m = n
        BY <2>1, <2>2, <4>1 DEF PersistentStep
      <4>2. CASE m # n
        BY <1>0, <2>1, <2>4, <3>2, <4>2 DEF PersistentStep, FrameMarked, FrameShares
      <4> QED BY <4>1, <4>2
    <3> QED BY <3>1, <3>2 DEF FrameShares
  <2> QED BY <2>1, <2>5, <2>6, SharedOnTop, BottomOnTop DEF PersistentStep
<1>4. ASSUME NEW S, frames' = OnTop(Cleared(Top, S)), closures' = closures,
             \/ UNCHANGED <<globals, persistents>>
             \/ /\ Len(frames) = 1 /\ UNCHANGED persistents
                /\ Top.global \subseteq S
             \/ Len(frames) = 1 /\ Top.names \subseteq S
      PROVE  Marked' /\ StorageIsShared' /\ MainIsBottom'
  <2> DEFINE fr == Cleared(Top, S)
  <2>1. ClearsTop(fr, S)
    BY <1>4, ClearFacts
  <2> HIDE DEF fr
  <2>2. \A n \in (Top.global \cup Top.persistent) \ S :
          Scope[Top.fn][n] \notin {Scope[Top.fn][m] : m \in S \cap Top.names}
    <3>1. Top.names \subseteq DOMAIN Scope[Top.fn]
      BY <1>0 DEF FrameMarked
    <3>2. \A n, m \in Top.names : Scope[Top.fn][n] = Scope[Top.fn][m] => n = m
      BY <1>0, <3>1, ScopeFacts
    <3> QED BY <1>0, <3>2
  <2>3. FrameMarked(fr)
    BY <1>0, <2>1, <2>2 DEF ClearsTop, FrameMarked
  <2>4. FrameShares(fr, globals', persistents')
    <3>1. FrameShares(fr, globals, persistents)
      BY <1>0, <2>1, <2>3 DEF ClearsTop, FrameShares, FrameMarked
    <3> QED BY <1>0, <1>4, <2>1, <3>1 DEF ClearsTop, FrameShares
  <2> QED BY <1>4, <2>1, <2>3, <2>4, SharedOnTop, BottomOnTop DEF ClearsTop
<1>5. ASSUME NEW S \in SUBSET Names, Clear(S)
      PROVE  Marked' /\ StorageIsShared' /\ MainIsBottom'
  BY <1>4, <1>5 DEF Clear
<1>6. Top.fn = Main => Len(frames) = 1
  BY TopFrame DEF MainIsBottom, Top, TypeOK
<1>7. CASE ClearGlobal
  BY <1>4, <1>6, <1>7 DEF ClearGlobal, OnlyMainClears
<1>8. CASE ClearAll
  BY <1>4, <1>6, <1>8 DEF ClearAll, OnlyMainClears
<1>9. CASE Return
  BY <1>9, ReturnFacts, ByFrame DEF MainIsBottom
<1>10. ASSUME NEW f \in Functions, NEW v \in Values, Call(f, v)
       PROVE  Marked' /\ StorageIsShared' /\ MainIsBottom'
  <2>1. Top.cells \in Partial(Bindings, Cells)
    BY TopFrame DEF TypeOK
  <2>2. f # Main
    BY <1>0, <1>10, CallFacts DEF OnlyMainClears
  <2> QED BY <1>10, <2>1, <2>2, CallFacts, SharedEnter
<1>11. ASSUME NEW k \in closures, NEW v \in Values, CallHandle(k, v)
       PROVE  Marked' /\ StorageIsShared' /\ MainIsBottom'
  <2>1. k.target \in Functions /\ k.cells \in Partial(Bindings, Cells) /\ k.target # Main
    BY DEF TypeOK, Closure, MainIsBottom
  <2> QED BY <1>11, <2>1, PartialEmpty, SharedEnter DEF CallHandle
<1>12. ASSUME NEW f \in Functions, MakeHandle(f)
       PROVE  Marked' /\ StorageIsShared' /\ MainIsBottom'
  <2>1. PICK k \in Closure : closures' = closures \cup {k} /\ k.target = f
                             /\ f \in Handles[Top.fn] /\ UNCHANGED <<frames, globals, persistents>>
    BY <1>12, MakeHandleFacts
  <2>2. f # Main
    BY <1>0, <2>1 DEF OnlyMainClears
  <2> QED BY <2>1, <2>2 DEF Marked, StorageIsShared, MainIsBottom
<1>13. CASE UNCHANGED vars
  BY <1>13 DEF vars, Marked, StorageIsShared, MainIsBottom
<1> QED BY <1>1, <1>2, <1>3, <1>5, <1>7, <1>8, <1>9, <1>10, <1>11, <1>12, <1>13 DEF Next

-----------------------------------------------------------------------------
(* The theorems.                                                           *)

LEMMA InitFacts ==
    ASSUME Init
    PROVE  /\ TypeOK /\ CellsAreOneVariable /\ Deeper /\ ClosuresCapture
           /\ Marked /\ StorageIsShared /\ MainIsBottom
<1> DEFINE fr == [fn |-> Main, cells |-> << >>, names |-> {}, global |-> {},
                  persistent |-> {}]
<1>1. fr \in Frame
  BY PartialEmpty, ProgramIsBound DEF Frame
<1>2. /\ frames = <<fr>> /\ closures = {} /\ globals = << >> /\ persistents = << >>
      /\ content = [c \in Cells |-> None]
  BY DEF Init
<1>3. DOMAIN frames = {1} /\ frames[1] = fr /\ Len(frames) = 1 /\ frames \in Seq(Frame)
  BY <1>1, <1>2
<1>4. TypeOK
  BY <1>2, <1>3, PartialEmpty, ProgramIsTyped DEF TypeOK
<1>5. DOMAIN fr.cells = {} /\ DOMAIN << >> = {}
  BY PartialEmpty
<1>6. CellsAreOneVariable
  BY <1>2, <1>3, <1>5 DEF CellsAreOneVariable, Holds
<1>7. Deeper /\ ClosuresCapture
  BY <1>2, <1>3 DEF Deeper, ClosuresCapture
<1>8. Marked /\ StorageIsShared /\ MainIsBottom
  BY <1>2, <1>3 DEF Marked, StorageIsShared, MainIsBottom
<1> QED BY <1>4, <1>6, <1>7, <1>8

\* Frames, tables and closures hold cells under bindings of the program, after
\* any statements, calls and clears.
THEOREM WorkspaceTypeCorrect == Spec => []TypeOK
<1>1. Init => TypeOK
  BY InitFacts
<1>2. TypeOK /\ [Next]_vars => TypeOK'
  BY TypeStep
<1> QED BY <1>1, <1>2, PTL DEF Spec

\* One cell, one variable: no step makes two variables share a cell.
THEOREM CellsStayOneVariable == Spec => []CellsAreOneVariable
<1>1. Init => CellsAreOneVariable
  BY InitFacts
<1>2. TypeOK /\ CellsAreOneVariable /\ [Next]_vars => CellsAreOneVariable'
  BY OneVariablePreserved
<1> QED BY <1>1, <1>2, WorkspaceTypeCorrect, PTL DEF Spec

\* Without recursion, activations are separate though they inherit all cells.
THEOREM FramesStaySeparate ==
    ASSUME NonRecursive PROVE Spec => []FramesAreSeparate
<1>1. Init => Deeper /\ ClosuresCapture
  BY InitFacts
<1>2. TypeOK /\ Deeper /\ ClosuresCapture /\ [Next]_vars => Deeper' /\ ClosuresCapture'
  BY DeeperStep
<1>3. TypeOK /\ CellsAreOneVariable /\ Deeper => FramesAreSeparate
  BY DeeperSeparates
<1> QED BY <1>1, <1>2, <1>3, WorkspaceTypeCorrect, CellsStayOneVariable, PTL DEF Spec

\* Without recursion, what an activation does leaves the private variables of
\* those below it alone.
THEOREM CallsLeaveVariablesAlone ==
    ASSUME NonRecursive PROVE Spec => CallsLeaveVariables
<1>1. TypeOK /\ TypeOK' /\ FramesAreSeparate' /\ [Next]_vars => SuspendedKeepTheirs
  BY StepLeavesVariables
<1>2. TypeOK /\ TypeOK' /\ FramesAreSeparate' /\ [Next]_vars => [SuspendedKeepTheirs]_vars
  BY <1>1
<1> QED BY <1>2, WorkspaceTypeCorrect, FramesStaySeparate, PTL DEF Spec, CallsLeaveVariables

\* Where only the script body clears globals, every activation that declares a
\* global or a persistent uses the cell of the shared table.
THEOREM StorageStaysShared ==
    ASSUME OnlyMainClears PROVE Spec => []StorageIsShared
<1>1. Init => Marked /\ StorageIsShared /\ MainIsBottom
  BY InitFacts
<1>2. TypeOK /\ Marked /\ StorageIsShared /\ MainIsBottom /\ [Next]_vars
        => Marked' /\ StorageIsShared' /\ MainIsBottom'
  BY SharedStep
<1> QED BY <1>1, <1>2, WorkspaceTypeCorrect, PTL DEF Spec
=============================================================================
