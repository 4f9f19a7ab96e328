------------------------------ MODULE Bundles -------------------------------
(***************************************************************************)
(* Bytecode bundles and workspace snapshots.  build_bytecode_bundle        *)
(* (src/cli/src/main.rs) packs a file with all the files it refers to and  *)
(* numbers them; a run of the bundle keeps the modules in registries, by   *)
(* path and by number; `save` writes variables with the modules their      *)
(* handles need, `load` registers the modules again, in a run of another   *)
(* bundle or of a script far from the sources.                             *)
(*                                                                         *)
(* The question is what a function handle means by the time it is called:  *)
(* the number in it is given out by each bundle anew.                      *)
(*                                                                         *)
(* No source file can be read once the bundles are built.  A module is     *)
(* named by its path and by the bundle it was built for, since the numbers *)
(* in its code are those of that bundle.                                   *)
(***************************************************************************)
EXTENDS Naturals, Sequences, FiniteSets

CONSTANTS
  FileCount, \* source files, numbered in the order of their paths
  Roots,     \* those that bundles are built from
  Unnamed,   \* those no name means from elsewhere: scripts, private files
  Name,      \* the name a file is called by
  Graphs,    \* for each file, the files its calls and handles resolve to
  Vars,
  Files,     \* snapshot files
  MaxDepth,  \* bound on the activations of a run
  None

Paths == 1 .. FileCount

ASSUME BundlesAssumption ==
  /\ FileCount \in Nat
  /\ Roots \subseteq Paths
  /\ Unnamed \subseteq Paths
  /\ DOMAIN Name = Paths
  /\ Graphs \subseteq [Paths -> SUBSET Paths]
  /\ MaxDepth \in Nat

Modules == [path : Paths, build : Roots]

\* Numbers of bundled modules, and of roots packed for a handle.
Ids == 0 .. 2 * FileCount

\* `means` is the file the handle was made for, for the properties.
Handles == [kind : {"id", "path", "scoped"}, ref : Ids, means : Paths]

VARIABLES
  uses,      \* the graph; never changes
  building,  \* the work list of the bundle that is being built, or None
  bundles,   \* the files in each bundle built, or None
  shared,    \* SharedRuntimeState: the modules registered by path and by id
  frames,    \* the running activations, none between runs
  vars,      \* the handles the program holds
  files,     \* variables and modules of each snapshot, or None
  met,       \* for the properties: the bundles that had a part in the run
  orphaned   \* for the properties: roots an exported handle left behind

build   == <<uses, building, bundles>>
run     == <<shared, frames, vars, met>>
outside == <<files, orphaned>>
all     == <<build, run, outside>>

NoModules == [paths |-> << >>, ids |-> << >>]
NoVars    == [v \in Vars |-> None]

Image(f) == {f[x] : x \in DOMAIN f}

\* f, and g where f has nothing.
Over(f, g) ==
  [x \in DOMAIN f \cup DOMAIN g |-> IF x \in DOMAIN f THEN f[x] ELSE g[x]]

Module(p, r) == [path |-> p, build |-> r]

-----------------------------------------------------------------------------
(***************************************************************************)
(* Building a bundle.                                                      *)
(***************************************************************************)

BuildBegin(r) ==
  /\ building = None
  /\ frames = << >>
  /\ bundles[r] = None
  /\ building' = [root |-> r, seen |-> {r}, pending |-> uses[r], compiled |-> {}]
  /\ UNCHANGED <<uses, bundles, run, outside>>

\* Mutant: a file is marked when it is put on the list.
BuildStepMarkingEarly(p) ==
  /\ building # None
  /\ p \in building.pending
  /\ building' =
       [building EXCEPT
          !.pending = (@ \ {p}) \cup (uses[p] \ building.seen),
          !.seen = @ \cup {p} \cup uses[p],
          !.compiled = IF p \in building.seen THEN @ ELSE @ \cup {p}]
  /\ UNCHANGED <<uses, bundles, run, outside>>

\* The list is a stack in the code; the order makes no difference to what is
\* in the bundle.
BuildStep(p) ==
  /\ building # None
  /\ p \in building.pending
  /\ building' =
       IF p \in building.seen
         THEN [building EXCEPT !.pending = @ \ {p}]
         ELSE [building EXCEPT
                 !.pending = (@ \ {p}) \cup (uses[p] \ (building.seen \cup {p})),
                 !.seen = @ \cup {p},
                 !.compiled = @ \cup {p}]
  /\ UNCHANGED <<uses, bundles, run, outside>>

BuildEnd ==
  /\ building # None
  /\ building.pending = {}
  /\ bundles' = [bundles EXCEPT ![building.root] = building.compiled]
  /\ building' = None
  /\ UNCHANGED <<uses, run, outside>>

\* The dependencies are numbered in the order of their names.
DepId(r, p) == Cardinality({q \in bundles[r] : q < p})

\* bundle_registry and bundle_registry_by_id.
Bundled(r) ==
  [paths |-> [p \in bundles[r] |-> Module(p, r)],
   ids   |-> [i \in {DepId(r, p) : p \in bundles[r]} |->
                Module(CHOOSE p \in bundles[r] : DepId(r, p) = i, r)]]

\* rewrite_bytecode_bundle_targets: what a reference to p is in the code of a
\* module, its number where p is a dependency of the bundle.
Target(m, p) ==
  IF p \in bundles[m.build]
    THEN [kind |-> "id", ref |-> DepId(m.build, p)]
    ELSE [kind |-> "path", ref |-> p]

-----------------------------------------------------------------------------
(***************************************************************************)
(* The registries.  An activation of the machine has registries of its own *)
(* that it asks before the shared ones; the interpreter has the shared ones*)
(* only.                                                                   *)
(***************************************************************************)
Top == frames[Len(frames)]

Own(f) == IF f.engine = "interpreter" THEN shared ELSE f.own

\* current_bundle_registries
Merged(f) ==
  [paths |-> Over(Own(f).paths, shared.paths), ids |-> Over(Own(f).ids, shared.ids)]

\* The last of the modules with one path is found by it.
ByPath(mods) ==
  [p \in {mods[i].path : i \in DOMAIN mods} |->
     mods[CHOOSE i \in DOMAIN mods :
            /\ mods[i].path = p
            /\ \A j \in DOMAIN mods : mods[j].path = p => j <= i]]

\* install_bundled_modules: what is installed replaces what is there.
Install(reg, mods) ==
  [paths |-> Over(ByPath(mods), reg.paths), ids |-> Over(mods, reg.ids)]

\* resolve_bundled_function_callable: any file the name fits, the registry is
\* a hash map.
Named(reg, n) == {p \in DOMAIN reg.paths : p \notin Unnamed /\ Name[p] = n}

\* The path of module i is the one the shared registry has for the number.
Source(i) == IF i \in DOMAIN shared.ids THEN shared.ids[i].path ELSE None

Callee(m, src) == [at |-> m, src |-> src]

\* call_function_value_outputs: what a call of target t, a handle or the target
\* of an instruction, in activation f may run.  A path among the activation's
\* own modules is called by its name.
HandleCallees(f, t) ==
  LET reg == Merged(f) IN
  CASE t.kind = "id" ->
         IF t.ref \in DOMAIN reg.ids THEN {Callee(reg.ids[t.ref], Source(t.ref))} ELSE {}
    [] t.kind = "path" ->
         LET named == Named(reg, Name[t.ref]) IN
         IF t.ref \in DOMAIN Own(f).paths /\ named # {}
           THEN {Callee(reg.paths[p], p) : p \in named}
           ELSE IF t.ref \in DOMAIN reg.paths
             THEN {Callee(reg.paths[t.ref], t.ref)} ELSE {}
    [] t.kind = "scoped" ->
         IF t.ref \in DOMAIN reg.paths THEN {Callee(reg.paths[t.ref], t.ref)} ELSE {}

\* load_and_invoke_external_target
StaticCallees(f, t) ==
  LET reg == Merged(f) IN
  IF t.kind = "id"
    THEN IF t.ref \in DOMAIN reg.ids THEN {Callee(reg.ids[t.ref], Source(t.ref))} ELSE {}
    ELSE IF t.ref \in DOMAIN reg.paths THEN {Callee(reg.paths[t.ref], t.ref)} ELSE {}

-----------------------------------------------------------------------------
(***************************************************************************)
(* A run.                                                                  *)
(***************************************************************************)
Idle == frames = << >> /\ building = None

Running == frames # << >>

\* execute_script_bytecode_bundle and execute_function_file_bytecode_bundle;
\* the root itself is registered by its path only.
RunBundle(r) ==
  /\ Idle
  /\ bundles[r] # None
  /\ LET reg == Bundled(r) IN
     /\ shared' = [paths |-> Over([p \in {r} |-> Module(r, r)], ByPath(reg.ids)),
                    ids   |-> reg.ids]
     /\ frames' = << [at |-> Module(r, r), src |-> r, own |-> reg, engine |-> "vm"] >>
  /\ met' = {r}
  /\ UNCHANGED <<build, vars, outside>>

\* A script that is no part of any bundle.
RunScript(engine) ==
  /\ Idle
  /\ frames' = << [at |-> None, src |-> None, own |-> NoModules, engine |-> engine] >>
  /\ UNCHANGED <<build, shared, vars, met, outside>>

Enter(c) ==
  /\ Len(frames) < MaxDepth
  /\ frames' = Append(frames,
       [at |-> c.at, src |-> c.src, own |-> Merged(Top), engine |-> "vm"])
  /\ UNCHANGED <<build, shared, vars, met, outside>>

\* A call or a callback of the handle in v.
CallHandle(v) ==
  /\ Running
  /\ vars[v] # None
  /\ \E c \in HandleCallees(Top, vars[v]) : Enter(c)

\* A call in the code of the running module.
CallStatic(p) ==
  /\ Running
  /\ Top.at # None
  /\ p \in uses[Top.at.path]
  /\ \E c \in StaticCallees(Top, Target(Top.at, p)) : Enter(c)

\* A call of a name the script's own sources do not have:
\* invoke_bundle_named_callable_from_registry.
CallName(n) ==
  /\ Running
  /\ Top.at = None
  /\ LET reg == Merged(Top) IN \E p \in Named(reg, n) : Enter(Callee(reg.paths[p], p))

Hold(v, t, p) ==
  /\ vars' = [vars EXCEPT ![v] =
                [kind |-> t.kind, ref |-> t.ref, means |-> p]]
  /\ UNCHANGED <<build, shared, frames, met, outside>>

\* make_function_handle for a function of another file.
MakeHandle(v, p) ==
  /\ Running
  /\ Top.at # None
  /\ p \in uses[Top.at.path]
  /\ Hold(v, Target(Top.at, p), p)

\* make_function_handle for another function of the running file.
MakeScopedHandle(v) ==
  /\ Running
  /\ Top.at # None
  /\ Top.src # None
  /\ Hold(v, [kind |-> "scoped", ref |-> Top.src], Top.at.path)

\* resolved_str2func_handle_value, for a name no source file on disk has.
Str2func(v, n) ==
  /\ Running
  /\ \E p \in Named(shared, n) : Hold(v, [kind |-> "path", ref |-> p], p)

-----------------------------------------------------------------------------
(***************************************************************************)
(* save and load.                                                          *)
(***************************************************************************)

\* workspace_contains_bundle_backed_modules
BundleBacked(ws) ==
  \E v \in Vars : /\ ws[v] # None
                  /\ ws[v].kind = "id" \/ ws[v].ref \in DOMAIN shared.paths

\* The files no number stands for, that a handle to a function in them needs.
RootPaths(ws) ==
  {p \in DOMAIN shared.paths :
     /\ \E v \in Vars : ws[v] # None /\ ws[v].kind = "scoped" /\ ws[v].ref = p
     /\ \A i \in DOMAIN shared.ids : shared.ids[i].path # p}

RootId(p) == FileCount + p

\* Mutant: roots are not packed.
SnapshotWithoutRoots(ws) == shared.ids

\* snapshot_bundle_modules_for_workspace
SnapshotModules(ws) ==
  Over(shared.ids, [i \in {RootId(p) : p \in RootPaths(ws)} |->
                      shared.paths[CHOOSE p \in RootPaths(ws) : RootId(p) = i]])

Selected(names) == [v \in Vars |-> IF v \in names THEN vars[v] ELSE None]

Appended(f, names) ==
  [v \in Vars |-> IF v \in names /\ vars[v] # None THEN vars[v] ELSE files[f].vars[v]]

Save(f, names) ==
  /\ Running
  /\ LET ws == Selected(names) IN
     files' = [files EXCEPT ![f] =
       [vars |-> ws, met |-> met,
        mods |-> IF BundleBacked(ws) THEN SnapshotModules(ws) ELSE << >>]]
  /\ UNCHANGED <<build, run, orphaned>>

\* Mutant: the modules of the file are forgotten.
SaveAppendReplacing(f, names) ==
  /\ Running
  /\ files[f] # None
  /\ LET ws == Appended(f, names) IN
     files' = [files EXCEPT ![f] =
       [vars |-> ws, met |-> met \cup @.met,
        mods |-> IF BundleBacked(ws) THEN SnapshotModules(ws) ELSE @.mods]]
  /\ UNCHANGED <<build, run, orphaned>>

\* Modules of the run replace those of the file that have their numbers.
SaveAppend(f, names) ==
  /\ Running
  /\ files[f] # None
  /\ LET ws == Appended(f, names) IN
     files' = [files EXCEPT ![f] =
       [vars |-> ws, met |-> met \cup @.met,
        mods |-> IF BundleBacked(ws) THEN Over(SnapshotModules(ws), @.mods) ELSE @.mods]]
  /\ UNCHANGED <<build, run, orphaned>>

Load(f, names) ==
  /\ Running
  /\ files[f] # None
  /\ shared' = Install(shared, files[f].mods)
  /\ vars' = [v \in Vars |-> IF v \in names /\ files[f].vars[v] # None
                               THEN files[f].vars[v] ELSE vars[v]]
  /\ met' = met \cup files[f].met
  /\ UNCHANGED <<build, frames, outside>>

Return ==
  /\ Len(frames) > 1
  /\ frames' = SubSeq(frames, 1, Len(frames) - 1)
  /\ UNCHANGED <<build, shared, vars, met, outside>>

EndRun ==
  /\ frames' = << >>
  /\ shared' = NoModules
  /\ vars' = NoVars
  /\ met' = {}
  /\ UNCHANGED build

End == Len(frames) = 1 /\ EndRun /\ UNCHANGED outside

\* export-workspace: the variables with the numbered modules, not with roots.
Export(f) ==
  /\ Len(frames) = 1
  /\ files' = [files EXCEPT ![f] = [vars |-> vars, met |-> met, mods |-> shared.ids]]
  /\ orphaned' = orphaned \cup RootPaths(vars)
  /\ EndRun

-----------------------------------------------------------------------------

Init ==
  /\ uses \in Graphs
  /\ building = None
  /\ bundles = [r \in Roots |-> None]
  /\ shared = NoModules
  /\ frames = << >>
  /\ vars = NoVars
  /\ files = [f \in Files |-> None]
  /\ met = {}
  /\ orphaned = {}

Names == Image(Name)

Next ==
  \/ \E r \in Roots : BuildBegin(r) \/ RunBundle(r)
  \/ \E p \in Paths : BuildStep(p) \/ CallStatic(p)
  \/ BuildEnd
  \/ \E engine \in {"vm", "interpreter"} : RunScript(engine)
  \/ \E v \in Vars : CallHandle(v) \/ MakeScopedHandle(v)
  \/ \E v \in Vars, p \in Paths : MakeHandle(v, p)
  \/ \E n \in Names : CallName(n)
  \/ \E v \in Vars, n \in Names : Str2func(v, n)
  \/ \E f \in Files, names \in SUBSET Vars :
        Save(f, names) \/ SaveAppend(f, names) \/ Load(f, names)
  \/ Return
  \/ End
  \/ \E f \in Files : Export(f)

Spec == Init /\ [][Next]_all

-----------------------------------------------------------------------------

Holds(f, D) == DOMAIN f \subseteq D /\ Image(f) \subseteq Modules

Registry(reg) ==
  /\ DOMAIN reg = {"paths", "ids"}
  /\ Holds(reg.paths, Paths) /\ \A p \in DOMAIN reg.paths : reg.paths[p].path = p
  /\ Holds(reg.ids, Ids)

TypeOK ==
  /\ uses \in Graphs
  /\ building = None \/
       building \in [root : Roots, seen : SUBSET Paths, pending : SUBSET Paths,
                     compiled : SUBSET Paths]
  /\ bundles \in [Roots -> (SUBSET Paths) \cup {None}]
  /\ Registry(shared)
  /\ \A k \in DOMAIN frames :
       /\ frames[k].at \in Modules \cup {None}
       /\ frames[k].src \in Paths \cup {None}
       /\ Registry(frames[k].own)
  /\ vars \in [Vars -> Handles \cup {None}]
  /\ \A f \in Files : files[f] # None =>
       /\ files[f].vars \in [Vars -> Handles \cup {None}]
       /\ Holds(files[f].mods, Ids)
       /\ files[f].met \subseteq Roots
  /\ met \subseteq Roots
  /\ orphaned \subseteq Paths

\* A bundle is what its root reaches (the work list of build_bytecode_bundle),
\* the root itself left out: no file in it refers to one that is missing, and
\* none is in it for nothing.
BundlesAreWhole ==
  \A r \in Roots : bundles[r] # None =>
    LET closed(S) == \A p \in S \cup {r} : uses[p] \subseteq S \cup {r}
    IN  closed(bundles[r]) /\ \A S \in SUBSET bundles[r] : closed(S) => S = bundles[r]

Held == {v \in Vars : vars[v] # None}

\* Whatever was saved, appended and loaded, of whichever bundles: a module with
\* the number of a handle is registered ("bundle module is not available in the
\* current runtime"), and so is one for every number in the code of a module.
NumbersAreBacked ==
  Running =>
    LET reg == Merged(Top) IN
    /\ \A v \in Held : vars[v].kind = "id" => vars[v].ref \in DOMAIN reg.ids
    /\ \A m \in Image(reg.ids) \cup Image(reg.paths) :
         \A p \in uses[m.path] \ {m.build} : DepId(m.build, p) \in DOMAIN reg.ids

\* While no second bundle has a part in a run, or in the runs that wrote what it
\* loads: through whatever saves, appends, loads and calls, handles and calls
\* reach the file they were made for, and an activation knows which file it is
\* of.  A handle to a root may be left behind: a snapshot has roots only for
\* handles to functions in them, and export-workspace has none.  One that is a
\* path is called by its name and may reach another file that has it: always one
\* if the name does not mean the root, a private file.
HandlesKeepTheirMeaning ==
  Running /\ Cardinality(met) <= 1 =>
    /\ \A v \in Held : LET h == vars[v] IN
         \/ /\ HandleCallees(Top, h) = {}
            /\ \/ h.kind = "path" /\ h.ref \in Roots
               \/ h.kind = "scoped" /\ h.ref \in orphaned
         \/ {c.at.path : c \in HandleCallees(Top, h)} = {h.means}
         \/ h.kind = "path" /\ Named(Merged(Top), Name[h.ref]) \ {h.ref} # {}
    /\ Top.at # None =>
         /\ Top.src = Top.at.path
         /\ \A p \in uses[Top.at.path] \ {Top.at.build} :
              {c.at.path : c \in StaticCallees(Top, Target(Top.at, p))} = {p}
=============================================================================
