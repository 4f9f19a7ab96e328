------------------------------ MODULE Workspace ------------------------------
(***************************************************************************)
(* The variables of a running program: the frames of the bytecode machine  *)
(* (VmFrame) and of the interpreter (Frame), which agree here, the tables  *)
(* of globals and persistents they share, and the cells that closures      *)
(* keep.  A frame does not hold values: it maps binding identities to      *)
(* cells (Rc<RefCell<Option<Value>>>), so that two frames, a closure or a  *)
(* table may hold the same cell.  Everything that is right or wrong about  *)
(* variables is about which cells are shared.                              *)
(*                                                                         *)
(* A binding is a pair <<owner, name>>: the owner is the function that     *)
(* declares the variable, or Shared for a global, whose identity the       *)
(* binder gives to every function of the module that declares the name.    *)
(*                                                                         *)
(* The program is a parameter: what its functions mention, call, clear.    *)
(* Which statement comes next is left open, and an outcome that returns an *)
(* error to a caller has the effect of Return: the frame is dropped.       *)
(***************************************************************************)
EXTENDS Naturals, Sequences, FiniteSets, Functions

CONSTANTS
    Functions,      \* the functions of the module, the script body included
    Main,           \* the script body
    Shared,         \* the owner of the bindings of globals
    Scope,          \* Scope[f]: what the names that f mentions are bound to
    Params,         \* Params[f]: its input names
    Outputs,        \* Outputs[f]: its output names
    Persistents,    \* Persistents[f]: the names it declares persistent
    Calls,          \* Calls[f]: the functions it calls by name
    Handles,        \* Handles[f]: the functions it makes a handle of
    Clears,         \* Clears[f]: the sets of names its clear statements name
    ClearsGlobal,   \* the functions with a `clear global`
    ClearsAll,      \* the functions with a `clear all`
    Values,         \* what a variable may hold
    Empty,          \* the empty matrix
    Cells,          \* as many cells as may be alive at a time
    MaxFrames,      \* bound: activations on the stack
    MaxClosures     \* bound: function handles made

None == "none"      \* a cell that holds no value yet
Names == UNION {DOMAIN Scope[f] : f \in Functions}
Bindings == UNION {Range(Scope[f]) : f \in Functions}
Captures(f) == {b \in Range(Scope[f]) : b[1] \in Functions \ {f}}
Globals(f) == {n \in DOMAIN Scope[f] : Scope[f][n][1] = Shared}

ASSUME ProgramIsBound ==
    /\ Main \in Functions /\ Shared \notin Functions
    /\ Scope = [f \in Functions |-> Scope[f]]
    /\ \A f \in Functions : \A n \in DOMAIN Scope[f] :
         /\ Scope[f][n] = <<Scope[f][n][1], n>>
         /\ Scope[f][n][1] \in Functions \cup {Shared}
ASSUME ProgramIsTyped ==
    /\ \A f \in Functions :
         /\ Params[f] \subseteq {n \in DOMAIN Scope[f] : Scope[f][n][1] = f}
         /\ Outputs[f] \subseteq {n \in DOMAIN Scope[f] : Scope[f][n][1] = f}
         /\ Persistents[f] \subseteq {n \in DOMAIN Scope[f] : Scope[f][n][1] = f}
         /\ Calls[f] \subseteq Functions /\ Handles[f] \subseteq Functions
         /\ Clears[f] \subseteq SUBSET Names
    /\ Empty \in Values /\ None \notin Values
    /\ MaxFrames \in Nat \ {0} /\ MaxClosures \in Nat

VARIABLES
    frames,         \* the activations, the running one last
    content,        \* what each cell holds
    globals,        \* SharedRuntimeState.globals: name -> cell
    persistents,    \* SharedRuntimeState.persistents: binding -> cell
    closures        \* handle_closures: the target and the cells captured for it

vars == <<frames, content, globals, persistents, closures>>

Partial(S, T) == UNION {[D -> T] : D \in SUBSET S}

Frame == [fn : Functions, cells : Partial(Bindings, Cells), names : SUBSET Names,
          global : SUBSET Names, persistent : SUBSET Names]
Closure == [target : Functions, cells : Partial(Bindings, Cells)]

Top == frames[Len(frames)]
Own(n) == Scope[Top.fn][n]

\* The cells that something still holds: an Rc dies with its last owner.
Held(fs, gs, ps, cs) ==
    (UNION {Range(fs[i].cells) : i \in DOMAIN fs}) \cup Range(gs) \cup Range(ps)
        \cup (UNION {Range(c.cells) : c \in cs})
Free == Cells \ Held(frames, globals, persistents, closures)

\* New cells for the bindings of S, all different.
Allocations(S) == {new \in [S -> Free] : IsInjective(new)}
Fresh(S) == CHOOSE new \in Allocations(S) : TRUE

\* What is left of the content when some cells have lost their last owner.
Kept(store, held) == [c \in Cells |-> IF c \in held THEN store[c] ELSE None]

\* f overridden by g where g is defined.
Over(f, g) == [x \in DOMAIN f \cup DOMAIN g |-> IF x \in DOMAIN g THEN g[x] ELSE f[x]]
Without(f, S) == [x \in DOMAIN f \ S |-> f[x]]

OnTop(frame) == [frames EXCEPT ![Len(frames)] = frame]

-----------------------------------------------------------------------------
\* declare_binding_spec: the name is visible, and its binding has a cell.
Declared(frame, b, new) ==
    [frame EXCEPT !.names = @ \cup {b[2]}, !.cells = Over(new, @)]

\* A mutant: an existing cell wins over the one to be bound.
BoundIfAbsent(frame, b, cell) ==
    [frame EXCEPT !.names = @ \cup {b[2]}, !.cells = Over([x \in {b} |-> cell], @)]

\* bind_existing
BoundTo(frame, b, cell) ==
    [frame EXCEPT !.names = @ \cup {b[2]}, !.cells = Over(@, [x \in {b} |-> cell])]

\* A mutant: the marks of the cleared names stay.
ClearedNamesOnly(frame, S) ==
    [frame EXCEPT !.names = @ \ S,
                  !.cells = Without(@, {Scope[frame.fn][n] : n \in S \cap frame.names})]

\* clear_workspace_names: the names go with their marks and their cells.
Cleared(frame, S) ==
    [frame EXCEPT !.names = @ \ S, !.global = @ \ S, !.persistent = @ \ S,
                  !.cells = Without(@, {Scope[frame.fn][n] : n \in S \cap frame.names})]

\* `x = value`: assign_binding_spec
Assign(n, v) ==
    LET b == Own(n)
        missing == {b} \ DOMAIN Top.cells
    IN /\ n \in DOMAIN Scope[Top.fn]
       /\ Allocations(missing) # {}
       /\ LET frame == Declared(Top, b, Fresh(missing))
          IN /\ frames' = OnTop(frame)
             /\ content' = [content EXCEPT ![frame.cells[b]] = v]
       /\ UNCHANGED <<globals, persistents, closures>>

\* `global x`: bind_global
DeclareGlobal(n) ==
    LET table == Over(Fresh({n} \ DOMAIN globals), globals)
    IN /\ n \in Globals(Top.fn)
       /\ Allocations({n} \ DOMAIN globals) # {}
       /\ globals' = table
       /\ frames' = OnTop([BoundTo(Top, Own(n), table[n]) EXCEPT !.global = @ \cup {n}])
       /\ content' = Kept(IF content[table[n]] = None
                          THEN [content EXCEPT ![table[n]] = Empty] ELSE content,
                          Held(frames', globals', persistents, closures))
       /\ UNCHANGED <<persistents, closures>>

\* `persistent x`: bind_persistent; the key is the binding, within its module.
DeclarePersistent(n) ==
    LET b == Own(n)
        table == Over(Fresh({b} \ DOMAIN persistents), persistents)
    IN /\ n \in Persistents[Top.fn]
       /\ Allocations({b} \ DOMAIN persistents) # {}
       /\ persistents' = table
       /\ frames' = OnTop([BoundTo(Top, b, table[b]) EXCEPT !.persistent = @ \cup {n}])
       /\ content' = Kept(IF content[table[b]] = None
                          THEN [content EXCEPT ![table[b]] = Empty] ELSE content,
                          Held(frames', globals, persistents', closures))
       /\ UNCHANGED <<globals, closures>>

\* `clear x y`, and `clear global x`: the names are gone from the frame before
\* clear_global_state looks for global ones among them, so it finds none.
Clear(S) ==
    /\ S \in Clears[Top.fn]
    /\ frames' = OnTop(Cleared(Top, S))
    /\ content' = Kept(content, Held(frames', globals, persistents, closures))
    /\ UNCHANGED <<globals, persistents, closures>>

\* `clear global`
ClearGlobal ==
    /\ Top.fn \in ClearsGlobal
    /\ frames' = OnTop(Cleared(Top, Top.global))
    /\ globals' = << >>
    /\ content' = Kept(content, Held(frames', globals', persistents, closures))
    /\ UNCHANGED <<persistents, closures>>

\* `clear all`: the frame's names, every global, every persistent.
ClearAll ==
    /\ Top.fn \in ClearsAll
    /\ frames' = OnTop(Cleared(Top, Top.names))
    /\ globals' = << >> /\ persistents' = << >>
    /\ content' = Kept(content, Held(frames', globals', persistents', closures))
    /\ UNCHANGED closures

\* A mutant: what the caller holds is looked up by name instead of by binding.
HiddenByName(f, inherited) ==
    [b \in DOMAIN inherited \cup
           {x \in Range(Scope[f]) : \E y \in DOMAIN inherited : y[2] = x[2]} |->
        IF b \in DOMAIN inherited THEN inherited[b]
        ELSE inherited[CHOOSE y \in DOMAIN inherited : y[2] = b[2]]]

\* inherit_hidden_cells_from
Hidden(f, inherited) == inherited

\* invoke_function_with_prebound_outputs up to the body: the hidden cells of
\* the caller, the captured ones, then the inputs and the outputs.  `inherited`
\* and `captured` map bindings to cells.
Enter(f, inherited, captured, v) ==
    LET before == Over(Hidden(f, inherited), captured)
        formal == {Scope[f][n] : n \in Params[f] \cup Outputs[f]}
        missing == formal \ DOMAIN before
        cells == Over(Fresh(missing), before)
        inputs == {cells[Scope[f][n]] : n \in Params[f]}
        new == Range(Fresh(missing))
    IN /\ Len(frames) < MaxFrames
       /\ Captures(f) \subseteq DOMAIN captured
       /\ Allocations(missing) # {}
       /\ frames' = Append(frames,
            [fn |-> f, cells |-> cells, global |-> {}, persistent |-> {},
             names |-> Params[f] \cup Outputs[f] \cup {b[2] : b \in Captures(f)}])
       /\ content' = [c \in Cells |-> IF c \in inputs THEN v ELSE content[c]]
       /\ UNCHANGED <<globals, persistents, closures>>

\* A function called by its name: the caller's frame is passed along.
Call(f, v) ==
    /\ f \in Calls[Top.fn]
    /\ Enter(f, Top.cells, Restrict(Top.cells, Captures(f) \cap DOMAIN Top.cells), v)

\* A function called through a handle: only the captured cells are passed.
CallHandle(c, v) == Enter(c.target, << >>, c.cells, v)

\* make_function_handle
MakeHandle(f) ==
    /\ f \in Handles[Top.fn]
    /\ Captures(f) \subseteq DOMAIN Top.cells
    /\ Cardinality(closures) < MaxClosures
    /\ closures' = closures \cup {[target |-> f, cells |-> Restrict(Top.cells, Captures(f))]}
    /\ UNCHANGED <<frames, content, globals, persistents>>

\* The end of an activation; the results are values, which Assign stores.
Return ==
    /\ Len(frames) > 1
    /\ frames' = SubSeq(frames, 1, Len(frames) - 1)
    /\ content' = Kept(content, Held(frames', globals, persistents, closures))
    /\ UNCHANGED <<globals, persistents, closures>>

Init ==
    /\ frames = <<[fn |-> Main, cells |-> << >>, names |-> {}, global |-> {}, persistent |-> {}]>>
    /\ content = [c \in Cells |-> None]
    /\ globals = << >> /\ persistents = << >> /\ closures = {}

Next ==
    \/ \E n \in Names, v \in Values : Assign(n, v)
    \/ \E n \in Names : DeclareGlobal(n) \/ DeclarePersistent(n)
    \/ \E S \in SUBSET Names : Clear(S)
    \/ ClearGlobal \/ ClearAll \/ Return
    \/ \E f \in Functions, v \in Values : Call(f, v)
    \/ \E c \in closures, v \in Values : CallHandle(c, v)
    \/ \E f \in Functions : MakeHandle(f)

Spec == Init /\ [][Next]_vars

-----------------------------------------------------------------------------
(***************************************************************************)
(* Properties                                                              *)
(***************************************************************************)

\* Every frame, table and closure holds cells under bindings of the program,
\* and a frame's marks are on names that the frame shows.
TypeOK ==
    /\ frames \in Seq(Frame) /\ Len(frames) \in 1 .. MaxFrames
    /\ content \in [Cells -> Values \cup {None}]
    /\ globals \in Partial(Names, Cells)
    /\ persistents \in Partial(Bindings, Cells)
    /\ closures \subseteq Closure
    /\ \A i \in DOMAIN frames :
         /\ frames[i].global \subseteq frames[i].names
         /\ frames[i].persistent \subseteq frames[i].names

\* A variable nobody else may reach: no other function mentions its binding,
\* and it is not kept across calls.
Private(b) ==
    /\ b[1] \in Functions /\ b[2] \notin Persistents[b[1]]
    /\ \A f \in Functions : b \in Range(Scope[f]) => f = b[1]

\* No function can be reached from itself through calls by name.
NonRecursive ==
    \E depth \in [Functions -> 0 .. Cardinality(Functions)] :
        \A f \in Functions : \A g \in Calls[f] : depth[f] < depth[g]

\* Activations do not share their private variables: the cell of a private
\* variable of a suspended activation is not the cell of any name of an
\* activation above it, though that one holds all the cells of its caller.
FramesAreSeparate ==
    \A j \in DOMAIN frames : \A i \in 1 .. j - 1 :
        \A b \in Range(Scope[frames[i].fn]) \cap DOMAIN frames[i].cells :
            Private(b) =>
                \A x \in Range(Scope[frames[j].fn]) \cap DOMAIN frames[j].cells :
                    frames[j].cells[x] # frames[i].cells[b]

\* What the caller sees of it: a call, and whatever the callee does, leaves the
\* value of every private variable of the suspended activations as it was.
SuspendedKeepTheirs ==
    \A i \in DOMAIN frames \cap DOMAIN frames' :
        i < Len(frames') =>
            \A b \in Range(Scope[frames[i].fn]) \cap DOMAIN frames[i].cells :
                Private(b) =>
                    content'[frames'[i].cells[b]] = content[frames[i].cells[b]]
CallsLeaveVariables == [][SuspendedKeepTheirs]_vars

\* All activations that have declared a name global, or a variable persistent,
\* use the one cell that the shared table has for it.
StorageIsShared ==
    \A i \in DOMAIN frames :
        /\ \A n \in frames[i].global :
             /\ n \in DOMAIN globals
             /\ frames[i].cells[Scope[frames[i].fn][n]] = globals[n]
        /\ \A n \in frames[i].persistent :
             LET b == Scope[frames[i].fn][n]
             IN b \in DOMAIN persistents /\ frames[i].cells[b] = persistents[b]

\* A cell belongs to one variable: whoever holds it holds it as the same
\* binding, be it a frame, a table or a closure.
Holds(b, c) ==
    \/ \E i \in DOMAIN frames : b \in DOMAIN frames[i].cells /\ frames[i].cells[b] = c
    \/ \E k \in closures : b \in DOMAIN k.cells /\ k.cells[b] = c
    \/ b \in DOMAIN persistents /\ persistents[b] = c
    \/ \E n \in DOMAIN globals : b = <<Shared, n>> /\ globals[n] = c
CellsAreOneVariable ==
    \A c \in Cells : \A b, x \in Bindings : Holds(b, c) /\ Holds(x, c) => b = x
=============================================================================
