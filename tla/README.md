# TLA+ verification of Matlang

Matlang runs MATLAB programs. It has two execution engines: an interpreter that
walks the statement tree, and a virtual machine that runs the bytecode a code
generator emits from the optimized tree. The repository promises that they behave
alike (`docs/architecture/OVERVIEW.md:44`). This directory models the two engines and
the optimizer, checks where the promise holds and where it does not, and proves for
every statement tree that the engines do agree where none of four features occurs. It
also proves the mechanism of the machine that is easiest to get wrong, its exception
handlers, both for any code of the right shape and for the code the emitter makes of any
statement tree. Around them it models, and for all but the optimizer proves things
about, what the engines share: the cells of variables, the files names are resolved to,
the modules handles are resolved to in bundles and saved workspaces, the graphics
objects, and the figure session, with the re-entrant callbacks on the side of the
program and the window host on the other.

## Inventory

| component | state it keeps | operations | interacts with | what is hard |
|---|---|---|---|---|
| lexer, parser (`src/frontend`) | token stream, open blocks | text to syntax tree | binder | block structure; the rest is a pure function |
| semantic binder (`src/semantics`) | scopes, workspaces, symbols, captures | bind names to bindings | lowering | captures across nested scopes |
| HIR (`src/ir`) | statement tree | lowering from syntax | both engines | none beyond the shape |
| optimizer (`src/optimizer`) | none | fold expressions, drop decided branches and loops | emitter; the interpreter sees the tree before it | doing what evaluation does, in its order |
| emitter, verifier (`src/codegen`) | instructions, temps, labels, label stacks of loops | lower each statement, verify a function | machine | jumps out of try bodies and loops |
| bytecode machine (`src/execution/src/bytecode.rs`) | pc, try stack, last error, temps, iterators, frames | one instruction at a time; drain of host events | graphics, workspace, resolver | failure at any instruction, handlers dropped lazily |
| interpreter (`src/execution/src/lib.rs`) | Rust call stack, frames | execute each statement | the same | same answers as the machine |
| figure session, runtime side (`src/execution`) | pending close and resize events, active callbacks, session files | flush, drain, close | window host, through files | re-entrant callbacks, lost and repeated events |
| figure session, window host (`src/cli/src/windows_host.rs`) | windows, revision last seen, locally closed handles | poll, close, move, report ready or error | runtime, through files | two processes, stale manifests |
| workspace variables (both engines) | cells shared between frames, tables of globals and persistents, captured cells | assign, declare, clear, call, return, make and call handles | both engines | aliasing |
| resolver (`src/resolver`) | the files there are, the place of the source file | find a function, a class, a callable, all callables | binder, engines, bundles | four lookups that must agree |
| snapshots and bundles (`src/interop`, `src/cli`, both engines) | modules by path and by number, worklist, snapshot files | package, run, call, save, append, load, export | engines, resolver | numbers given anew by every bundle, modules packed too little, cycles |
| graphics objects (`src/execution/src/graphics.rs`) | figures, axes, series, annotations, handles, links | create, select, clear, copy, link, delete | both engines, figure session | one number space for four kinds, what stays current or linked when objects go |
| values, standard library, platform | arrays, numbers | data | engines | numeric; not for a model checker |

What makes each component correct: the engines agree on what is evaluated, in which
order and with which result; a `try` protects exactly its body; iterators are used
in order and end; a session's events are handled once and a window the user
closed stays closed; no drain and no change of size enters a callback that runs already
(`close` may, see below); variables are shared exactly where they are declared to be; a
handle is one object and what is current or linked exists; an optimized program does
what the program does; a name means the same file to every lookup; and a function handle
means the file it was made for, wherever and whenever it is called.

## Modules

| module | models | source |
|---|---|---|
| `Program` | statement trees, and a generator of all small ones | `ir/src/hir.rs`, `frontend/src/parser.rs:764-1029` |
| `Codegen` | `FunctionEmitter`: what each statement is lowered to | `codegen/src/lib.rs` |
| `Evaluation` | what an evaluation may answer to either engine (constants only) | both engines |
| `BytecodeVM` | `execute_function_body` for one function | `execution/src/bytecode.rs:1526-2184` |
| `EmittedCode` | the machine on the code of given trees (`BytecodeVM` with `Codegen`) | both of these |
| `Interpreter` | `execute_statement` and `execute_block` | `execution/src/lib.rs:17073-17270` |
| `EngineParity` | composes `Interpreter`, `Codegen` and `BytecodeVM` | both engines |
| `Optimizer` | the pass over trees, and the evaluation it must not change | `optimizer/src/lib.rs` |
| `Workspace` | frames, cells, globals, persistents, captures, calls | `execution/src/bytecode.rs`, `execution/src/lib.rs` |
| `Resolver` | the lookups of names over the files there are | `resolver/src/lib.rs` |
| `Bundles` | the packing of bundles, module registries, handles, `save`, `load`, `export-workspace` | `cli/src/main.rs:698-749`, `execution/src/lib.rs:871-1221`, `execution/src/bytecode.rs` |
| `Graphics` | graphics objects and the builtins that change which there are | `execution/src/graphics.rs` |
| `FigureEvents` | close and resize events, the drain, callbacks | `execution/src/lib.rs`, `execution/src/bytecode.rs` |
| `FigureViewer` | what a viewer of figures promises its user (abstract) | |
| `FigureHost` | the figure host and the files it shares with the program and the launcher | `cli/src/windows_host.rs`, `execution/src/lib.rs:14431-14618` |
| `BytecodeVMProofs`, `EngineParityProofs`, `WorkspaceProofs`, `ResolverProofs`, `BundlesProofs`, `GraphicsProofs`, `FigureEventsProofs`, `FigureHostProofs` | theorems about the modules they name | |
| `MCBytecodeVM`, `MCEngineParity`, `MCOptimizer`, `MCWorkspace`, `MCResolver`, `MCBundles` | the instances TLC checks | |

`Program` represents a tree as a table, a statement with its parent and the block of
the parent it lies in. `ProgramsUpTo` builds every tree of a given size the way the
parser appends statements to open blocks, so a run ranges over all programs of that
size and not over chosen ones. An assignment, an expression statement or a
declaration is an `act`: one evaluation that succeeds or raises an error.

`Codegen` emits, for each statement, the instructions of the corresponding
`lower_*` function in their order. The straight-line instructions of one expression
are a single `Eval`, or a single `Test` when their value is a condition. Labels are
named by the statement that asks for them; `new_label` makes them unique.

`BytecodeVM` has one action per instruction. A step is what one turn of the loop
does: the instruction, the drain of figure events after a success, and the pruning
of the handler stack at the top of the next turn (`Prune`, lines 1556-1558). Every
evaluation succeeds or fails by choice, and by choice hears of a figure event whose
callback will fail. The error of such a callback leaves the function through the
`?` at line 2170, past every handler: `Drain` says so. Its specification by itself is
`VMSpec`, with `VMInit`, `VMNext` and `VMTypeOK`; `Load` puts code in and is the initial
state of the composed specifications too.

`Interpreter` replaces the Rust call stack by the place control has reached in the
tree (`ctl`) and what a finished block returned (`flow`). `Places` lists where control
can be in a tree, and is part of the type invariant. Every evaluation is
recorded in `trace`. `EngineParity` extends both engines and has one variable more,
`pos`, the place in the trace that the machine has come to. It first lets the
interpreter run, then runs the
machine on the emitted code and hands it the recorded outcomes. The machine must
ask for the same evaluations in the same order, bind the same loop elements and the
same caught errors, and end with the same result.

`Optimizer` has the pass as recursive operators, one for each function of the source,
and beside it `Evaluate` and `Run`, which say what the interpreter makes of a tree. A
value is a number, or a matrix with its dimensions: `1:0` has one row without columns and
`[]` no row (`execution/src/lib.rs:19034`, `24580`), `[1]` and `1:1` are matrices and what
an operator makes of them is a number again (`22344`), and `switch` takes no matrix for a
number (`23357`). Runs record values exactly. The
program has one variable. `Quotient` need not be the number the program computes, but
tells a / b from b / a. `Liberties` names the shapes for which the pass is known to
give another program. `MCOptimizer` builds programs from the inside out: a statement is
appended, or the program so far becomes a block of a new statement.

`Workspace` is one program: the constant `Scope` says which variables each function
has, which of them are captured, global or persistent, as the binder decides it. A frame
is a map from bindings to cells, and values live in cells, so that sharing shows. A call
gives the callee every cell of its caller (`Hidden`, `bytecode.rs:6511`), and this is the
point: the separation of activations is a consequence of bindings being different, not
of frames being new.

`Resolver` has the set of files as its state; they appear and go while a program is
written. A directory is a path of segments (plain, package, class folder, private), and
a lookup is a sequence of places, each with one match or none. A match says what was
found (function or class), under which name, and the file, so that the lookups are
compared in all that they answer. `resolve_function`,
`resolve_callable`, `resolve_all_callables` and `resolve_class_definition` list their
places in code of their own, and so do the operators.

`Bundles` begins with the files and what their code refers to (`uses`). Packing is a work
list; a reference in packed code becomes the number of the file in that bundle
(`Target`), so a module is a file *as packed for a root*. A run of a bundle, or of a
script that belongs to none, has the shared registries of modules by path and by number,
and each activation of the machine has registries of its own that it asks first
(`Merged`). A handle is a number, a path, or a function within a file, and also says
which file it was made for (`means`), which no action reads. `save` packs the numbered
modules of the run and the roots that handles to functions in them need, `save -append`
merges with what the file has, `load` registers again. Source files are gone once the
bundles are built, which is the case packing is for. `met`, the bundles that had a part
in a run or in what it loaded, and `orphaned` are history variables.

`Graphics` has one action per builtin that changes which objects there are, what is
current, what is linked or what limits axes have. A `GraphicsState` is one record, and
what a builtin is made of (`WithFigure`, `WithSlot`, `Reserved`, `Replaced` ...) takes a
state and gives the next, in the order the code calls them. A handle is a number; the
four kinds draw theirs from counters that start at different places.

`FigureEvents` is the program's side of the session. `stack` is the Rust call stack as
far as it matters: statements, builtins, drains and callbacks, each of which may start
the next. Events of the user arrive at any time and are read by a flush. A drain takes
the whole queue; a close it takes calls the figure's callback if there is one and it is
not marked as running, and a callback runs statements that drain. The builtin `close`
calls the same callback and looks at no mark (`execution/src/lib.rs:21068-21083`). Every
call may fail, `figure` also after it has made a figure; the error unwinds the stack to
the nearest activity that catches it (`Unwind`, `Caught`).

`FigureHost` has one action for a turn of the host's event loop (`Poll`, `PollMiss` or
`PollTorn`, by what the host finds in place of the manifest, each with `EndTurn`: write
positions, report, exit), one for each event of the user, two for the launcher, and
three for a flush of the program, which writes pages before the manifest. A window is
its record in `windows`: the figures it manages, the version of the page it loaded and
whether a position waits to be written. A map entry of the code that may be missing is
0, below every revision. The command line launches the host after the program has ended
(`cli/src/main.rs:454`), but the files do not depend on it, and the host is written for
a program that goes on; `quiet` tells the two apart. `dismissed` and `quiet` are history
variables: no action reads them.

`FigureViewer` is the abstract specification: figures shown, and figures the user
dismissed, which come back only with a newer revision. `HonoursCloses` states that
`FigureHost` implements it, with `shown` the figures of the open windows.

## Runs

| run | question | bounds | states |
|---|---|---|---|
| `vm` | is the handler stack always the try bodies around the pc; does an error escape only from outside all of them; is emitted code disciplined; are iterators used in order; does every function with `for` loops end | every function of up to 3 statements over act, if, try, while, break, continue, return, and of up to 4 over act, for, try, break, continue; one error, one callback error; iterables of up to 2 elements | 554 000 |
| `parity` | do the engines agree; do catch variables get the error that reached them; do branches, cases and compound conditions agree | functions of up to 3 statements, all kinds but switch; scripts of up to 4 over act, try, while, break, continue, of up to 3 over if, switch, while with two arms, of up to 2 with `&&` and `\|\|`; 4 evaluations | 1 591 000 |
| `continue_in_try` | the same, for programs where `continue` leaves a try body | violation | |
| `optimizer` | does the optimized program assign the same values in the same order and end the same way; is one pass enough | 2 statements around an assignment of any of some 400 expressions; 5 first values of the variable; 3 turns of while loops | 577 000 |
| `workspace` | do activations share the cells of globals, persistents and captures and no others | a script, a function with a persistent, and one nested in it that captures a variable and shares a global with the script; 3 frames, 6 cells, 1 handle | 35 000 |
| `recursion` | does a call leave the variables of its callers alone, for a function that calls itself | violation | |
| `resolver` | do the lookups agree; does what is shadowed come forward as listed; do packages find themselves and private files stay private | 14 places for files of a project and a library, 4 at a time; 6 places of the source file, 3 search paths; names of 1, 2 and 3 parts | 15 000 |
| `bundles` | does a bundle have exactly what its root reaches; is there a module for every number; do handles reach the file they were made for | 4 files of which 2 are packed, 3 graphs, with cycles through the roots; 1 variable, 1 snapshot file, 2 activations | 1 031 000 |
| `graphics` | are handles unique, links and limits consistent, is what is current there, are deletes whole | 6 calls; 5 figure, 3 axes, 2 series and 1 annotation numbers; layouts of 1 x 1, 1 x 2 and 2 x 1 tiles | 1 366 000 |
| `figure_events` | are the marked figures those whose callbacks a drain or a change of size runs; does current_figure exist; is every close the program hears of kept, and answered unless an error loses it | 2 figures, 3 calls, 2 events | 612 000 |
| `figure_live` | do windows follow the manifest; is every figure the host hides reported; is a browser opened only when there is no host | 2 figures, 3 flushes, rising timestamps, reports that fail | |
| `figure_failures` | does a closed figure stay closed, does a host without windows show one or end, whatever fails | 2 figures that are not docked, 3 flushes with any timestamps, all failures | |

**Engines.** Three or four statements hold the shapes that matter: a try in a loop, a
loop in a try, a try in a try or in a catch block, each with a statement that fails or
leaves. Four evaluations are enough for a loop to turn twice around a failing body. A
run of the interpreter that reaches the bound is cut, and the machine is compared with
it up to that point. `Arms` is the number of branches; two suffice for a miss that goes
on to the next branch. `vm` leaves out one shape: in a `while` loop, a `continue` that
leaves a try body leaves one handler behind at every turn, so that the stack has no
bound. In a `for` loop the shape is in the run.

The passing parity run takes the programs that have none of the features
`PartingFeatures` names, `continue_in_try` those that have exactly that one. The engines
part on more of them, and a run with the constant `MCParting` of `MCEngineParity` set to
one shows it: a `return` in a try body of a function
(the machine reads the outputs inside the try, `codegen/src/lib.rs:825`, so that an
output never assigned is caught there); a `break` or `continue` outside every loop,
which the emitter drops (`codegen/src/lib.rs:813`) and the interpreter takes as the end
of the block; a `return` at the top of a script, an error in the interpreter
(`execution/src/lib.rs:16097`) and a normal end in the machine. With `HostErrors`
non-empty the callback of a figure may fail: its error passes the machine's try blocks
(`bytecode.rs:2170`), and the interpreter catches it (`lib.rs:17265`). The interpreter
also answers later: a branch of `if` or `switch` that was chosen, a `return` out of a loop
and some assignments of lists return before the drain (`Quit`; `lib.rs:17183`, `17196`,
`17230`, `17242`), and what is pending waits for the end of another statement. And both engines
evaluate both operands of `&&` and `||`, against `spec/language/SEMANTICS.md:158`
("short-circuit operators evaluate the right-hand side only when required"); the model
has that too (`LowerCondition`, `DoCondition`).

**Optimizer.** `MCLiberties` lists the liberties programs may give the pass; the run
allows none, and each of the seven gives a violation when it is allowed:

* `branch`: of `if x < 2, x = 1; elseif 1, x = x; end` only the second body is left,
  whatever `x` is (`optimizer/src/lib.rs:216`);
* `zero`: `0 * e` is 0 also when `e` is an array or fails (`:503`);
* `step`: a step that is no literal counts as 1 (`:523`);
* `ldivide`: `a \ b` is folded to `a / b` (`:465`);
* `empty`: a constant range without elements becomes `[]`, which has no row where the
  range has one (`:543`), so that `x + (1:0)` may fail in one program only. A `for` over
  it is only dropped, which is right, and in the run;
* `bracket`: `[2]` and `2:2` count as the literal 2 (`:550`), also in a `switch`, where the
  interpreter takes no matrix for a number;
* `identity`: `x + 0`, `x - 0` and `x * 1` become `x` (`:485`), which may be a matrix of one
  element where evaluation makes a number. Programs are left out when they have such an
  identity and an expression that may make such a matrix.

About 390 000 of the programs, 280 000 of which the pass changes, have none of these. Two
more differences are not in the model because its values have no classes: a folded
comparison is a number and not a logical, which no operation of the model tells apart,
and `'a' + 0` stays a character. `*`, `/` and `\` are the elementwise operators; the pass
folds those on matrices in the same way.

**Workspace.** The premises matter. A function that calls itself is given the cells of
its own variables (`recursion`). With a function other than the script body among
`ClearsGlobal`, `StorageIsShared` is violated: `clear global` empties the table, but a
caller keeps a cell nobody else reaches (`spec/language/SEMANTICS.md:165`). Neither is a
bound of TLC's; the theorems have the same premises.

**Resolver.** Four files at a time are enough for a file to be shadowed by two others and
to come forward twice. The lookups are rarely longer than that.

**Bundles.** The graphs differ in which number the first helper has in each bundle, and
in whether files refer to each other and back to a root. One variable and one snapshot
file are enough for a handle to travel through runs of both bundles and of scripts, since
the file keeps the modules of earlier saves; random simulation with two of each and three
activations found nothing more. `HandlesKeepTheirMeaning` is about runs in which one
bundle has a part. Where two have, it does not hold, against
`docs/handoff/CURRENT_STATE.md:77` ("saved handles continue targeting the original
bundled callable"): both call their first module `dep0`, `load` overwrites
(`execution/src/lib.rs:886`), and a handle then calls the function of the other bundle.
It also names the handles that are left without a module: a snapshot packs a root only
for handles to functions in it, and `export-workspace` packs no roots
(`bytecode.rs:1376-1396`). And a handle that is a path among the modules of the
activation is called by its *name* (`bytecode.rs:3006-3010`), so that of two files with
that name the hash map chooses. The property excepts a path handle as soon as the
activation has *another* module of its name. That there be two is not enough: a root
that is itself a private file is packed under no name, and a bundle of it that has one
file of the name runs that one. The graphs of the run have no such root; the design of
the invariant for the proof found it.

**Graphics.** The kinds start at 1, 4, 10 and 14 in place of 1, 1001, 2001 and 3001, so
that the counter of figures runs into the numbers of axes within the bound and has to
skip them. It does not reach the numbers of series, and there `HandlesAreUnique` does
not hold: `line`, `quiver` and most plots take the number of their series before they
make the figure they draw in (`graphics.rs:2619`), and nothing marks the number taken.
Set `Requests = {9}`, `MaxFigure = 10` and `MaxCalls = 4` to see it: with the numbers of
the code, `figure(2000); close(2000); line(...)` gives a figure 2001 with a series 2001.
The proof shows that this is the only premise: see `FiguresApart` below.

**Figures.** Two handles show what one window or callback can do to another, and the
third flush is the one that comes after a window was opened, closed and brought back.
`MaxMisses` is 8 in the code; the runs use 1. `figure_live` excludes failing windows and
pages and equal timestamps on purpose: a poll that fails at one figure has already
noted the revision (`windows_host.rs:474-484`), so the windows after it never load the
new pages, and a second flush in the same millisecond is never loaded. Both are easy
to see by adding `"create"` to `Failures` or setting `ClockAdvances` to FALSE. With
`"create"` the launcher also opens a browser next to a host that shows the other
figures. `figure_failures` leaves docked figures out: closing their window is undone by
the poll of the same turn (`windows_host.rs:521`), and with `Styles = {"docked"}`
`HonoursCloses` is violated. These are hazards without a property that holds.

In `FigureEvents` an event whose figure is gone makes the drain fail with "figure handle
does not exist" and lose the events after it; `closereq` closes the *current* figure,
whichever the callback was called for. Only the word `close` is refused as a callback,
"to avoid recursive close handling" (`execution/src/lib.rs:21111`): a callback that calls
`close` on its own figure through a function of its own runs inside itself, and a drain
enters it once more, since it has no mark. `MarksMatchStack` says what is left: the marks
are the callbacks on the stack that a drain or a change of size has called, and where the
close callback of a figure is on the stack twice, `close` has entered one of the two. The
flush at the end of a
program is followed by no drain: an event it reads is dropped.

A program whose last statement does not drain (`Quit` above) ends with what its flushes
have read and no drain has taken. With `UndrainedEnd = TRUE` the model has these programs,
and `ClosesAreAnswered` is violated; the run has `FALSE`.

**Deadlock** is checked in `vm` and `parity`, where a finished function stutters, in
`workspace`, in `resolver` and in `bundles`. It is not checked where the system may stop: the host
exits, the program with figures ends, and the calls of `graphics` and the programs of
`optimizer` are used up.

**Fairness.** `ForLoopsTerminate` assumes that the loop of `execute_function_body` keeps
going (`WF_vmVars(VMNext)`), which is what a loop without waiting does. `HostIsSeenOrGone`
assumes that the host polls again and again (`WF_vars(Poll)`, `WF_vars(PollMiss)`): the
event loop wakes up every `POLL_INTERVAL`. It includes that a manifest is not left half
written for ever, as a program killed in that write would. `ClosesAreAnswered` assumes
that the engine goes on with what it has begun (`WF_vars(Engine)`: one thread without
waiting), so that a statement is followed by its drain and a drain by its callbacks.
Neither the program's next call nor its end is fair. The property says that a close in
the hands of a running program is answered by the engine's own steps; an engine that
flushes and does not drain, or drains before it flushes, violates it. Nothing else is
fair: the user and the launcher may stop at any point.

## Proofs

`BytecodeVMProofs` has two parts. The first proves, for every code that `verify_function`
accepts, of any length and wherever it comes from:

* `TypeCorrect`: the type invariant. It is inductive with the fact that the code is
  one of those given (`Typed`): jumps land in the code because the verifier found
  their labels, and a cursor grows only while it is below the length.
* `HandlersAlwaysMatch`: for every `Disciplined` code the handler stack holds exactly
  the catch labels of the try bodies around the pc, innermost last. This is inductive
  together with `Typed`. Every step moves the pc in one of four ways
  (`EveryStepMoves`): to the next instruction, by a jump, into a try body, or to a
  handler. `PruneKeepsAhead` says what pruning a descending stack keeps, and
  `AdvanceProtects`, `JumpProtects`, `PushTryProtects` and `CatchProtects` say which
  catch labels protect the place reached. The two coincide.
* `ErrorsAreCaught`: an error of the code leaves the function only from a place
  without a try around it. It follows from the above, since only an empty stack lets
  an error out. Errors of figure callbacks are excepted, as the code excepts them.
* `NeverMalformed` (`NoInternalError`), where all codes are `Guarded`: the machine never
  finds a function malformed. `Guarded` says where the emitter puts the uses of an
  iterator and of the last error: a use lies behind its start in a stretch that nothing
  enters from elsewhere, an element is taken right after a test that found one, and only
  an error enters a catch block. The invariant (`Steady`) says what is known at each
  place: inside such a stretch the iterator is started, after a test its temp agrees with
  the cursor, at a catch block there is an error. The error that enters a stretch is the
  hard case (`RaiseSteady`). Code in which a `continue` leaves a try body has handlers on
  its stack that are no longer around the pc, and they are used. What holds for all
  guarded code is that the catch block of a handler lies only in stretches whose
  iterators have been started (`HandlersReady`), and that no iterator is removed
  (`ItersStay`).

The second part is about the code `Codegen` makes of any statement tree, of any size:

* `EmittedCodeVerifies`: `verify_function` accepts it, so that `CodesAssumption` is no
  restriction on what the machine is given.
* `EmittedCodeIsShaped`, and from it `EmittedCodeStaysDisciplined`
  (`EmittedCodeIsDisciplined`): it is `Guarded`, and `Disciplined` unless a `continue`
  leaves a try body.
* `EmittedCodeNeverMalformed`, `EmittedHandlersMatch` and `EmittedErrorsAreCaught`: what
  the first part proves under the premises `Guarded` and `Disciplined`, without them; the
  last two for trees in which no `continue` leaves a try body.

  The code of a block is not verified or guarded by itself: it jumps to labels of the loop
  around it. A `Piece` is code with what it promises to the code around it: the labels
  that may be entered (`E`), those it needs behind it (`F`) and before it (`B`), the iterators
  it asks for (`H`). `ConcatPieces` puts two pieces together when their promises meet (`Joins`);
  instructions are pieces (`PlainPiece`, `JumpPiece`, `LabelPiece`), and so is a piece in the
  body of a try or between the head and the end of a loop (`TryBodyPiece`,
  `LoopPiece`). From these each `lower_*` function gives a piece when its blocks are
  pieces (`IfFits`, `SwitchFits`, `TryFits`, `WhileFits`, `ForFits`, `ControlFits`). A
  piece without needs is verified, guarded, and disciplined if it is `clean`. That every
  statement gives a piece (`AllFine`) is an induction over the tree; the library's
  induction theorems cannot be used, and it is done by looking at the last statement that
  does not (`LeastElement`, `GreatestElement`): the blocks of a statement hold later
  statements only. In the same way the recursive functions of the model (`Around`,
  `LowerStatement`, `FlattenSeq`) are shown to exist and to satisfy their equations.

`FigureHostProofs` proves, for any handles, flushes and failures:

* `HostTypeCorrect`: the type invariant, inductive with the fact that the window of
  docked figures has no position to write.
* `ClosedStaysClosed`: where no figure is docked (`NoneDocked`), `FigureHost` implements
  `FigureViewer`. The invariant (`Undocked`) says that a window shows exactly the figure
  of its key and that a dismissed figure has no window and an entry in `closedAt` that
  is not below the last revision. Every action is a step of the viewer or a stutter
  (`StepHonours`); `PollHonours` does the poll. The clock need not advance: an entry is
  dropped only for a greater revision. The premise is needed: with docked
  figures the same property is violated.
* `ClosesAreReported`, `PagesStayCurrent` and `BrowserOnlyWithoutHost`: the other three
  invariants, docked figures included, where only reports can fail and no two flushes
  get one timestamp (`Reliable`; the premises of the run `figure_live`). The invariant
  (`LInv`) adds that nothing is noted under a revision above the one read and nothing
  read above the one published, that pages are written before they are published
  (`Noted`), and that before the program's first flush an open window means the host is
  ready and has reported no error (`Ready`). A poll is the step that needs all of it
  (`PollReliable`): entries below the revision do not hold a window back, so that every
  window wanted is synchronized when the revision is new.

`FigureEventsProofs` proves, for any figures, calls and events:

* `EventsTypeCorrect`, `MarksStayMatched`, `ClosesStayOwed` and `CurrentStaysLive`, from
  one inductive invariant (`IInv`, `Invariance`). It says of the stack what its
  activities assume of one another: the figures of callbacks that drains and changes of
  size have called are exactly the marked ones, each once (`Matched`), one that `close` has
  called lies on the `close` that called it (`Shaped`), and a close taken from the files is in the queue, in what
  a drain still has to do, or in its callback (`Kept`). Both are about the whole stack,
  since a call puts an activity on it, an error takes one off, and what is marked or owed
  must follow.

`BundlesProofs` proves, for any files, references, variables, snapshots and activations:

* `BundlesStayWhole`: the work list ends with what the root reaches, no less and no more.
  Its invariant (`Work`) is that what is behind the list refers only to what is on it or
  behind it, and that list and what is behind it lie in every set closed under references.
* `NumbersStayBacked`: a module is `Rooted` in a set of numbers when its bundle is built,
  it belongs to it, and the set has all numbers of the bundle. The invariant says that
  registered modules, running ones and packed ones are rooted, in the numbers of the run
  or of the snapshot (`RunInv`, `Stored`), so that a call can only lead to a module whose
  numbers are there (`Runnable`), and that installing modules only adds numbers
  (`InstallSound`). That a module still stands for a number, and not the right one, is all
  that can be said of every run.
* `HandlesStayTrue` (`HandlesKeepTheirMeaning`): while one bundle has a part in the run
  and in what it loads, handles and the code of modules reach the files they were made
  for. This needs a second invariant (`JInv`), which TLC checked before it was proved.
  Every module that has a number is a dependency under its number in its own bundle, or
  was packed as a root for a snapshot; every module that an activation sees is registered
  for all of them or has been; and all come from bundles in `met`. Where `met` is one
  bundle at most, a number is therefore one file (`OneFileOfANumber`), and what remains is
  that every handle still has the number or the path of the file it means
  (`RunMeans`) and that the snapshots keep this, `save -append` included (`FilesMean`).
  `met` only grows, so the invariant is stated for every bundle that it may still be.
* `BundlesTypeCorrect`: the type invariant, from the same `IInv`. Which of several modules
  with one path a registry finds (`ByPathIs`) rests on a bounded set of numbers having a
  last one, taken from the library's theorem on strict subsets (`LastExists`).

`GraphicsProofs` proves, for any layouts, bounds and numbers the kinds start at:

* `GraphicsAreSound`, `GraphicsTypeOK`, `LinksStaySound`, `LinkedLimitsStayEqual` and
  `DeletesEndWhole`, without a premise. The invariant (`GInv`) says of the objects that
  they lie in one another as the records have it (`Typed`), that axes have numbers of
  their own and all numbers are below the counters (`Distinct`, `Numbered`), that groups of links are apart,
  of two or more axes, and in one figure (`Linked`), and that the limits of linked axes
  agree where both are fixed (`Agreed`). Between builtins a figure has its current axes
  or none (`CurrentAxes`); within one it need not, so the lemmas about what a builtin is
  made of (`WithFigure`, `WithSlot`, `Reserved`, ...) are about `Sound` states and the
  steps put `CurrentAxes` back. `DeletesEndWhole` has an invariant of its own along the
  loop over the handles (`Round`): no handle yet to be deleted is gone.
* `HandlesStayUnique`, where the program ends before figures and axes come to the first
  number of a series (`FiguresApart`), and `CurrentStaysOwn`, where the series do not
  come to the first annotation either (`RangesApart`). Every kind skips the numbers that
  are taken, but a plot takes its number before its figure and axes are made
  (`graphics.rs:2619`), and only that a figure is numbered below every series keeps the
  two apart. A figure may also keep as its current object one that is gone; when the
  kinds share numbers, that number may come back as an object of another figure. The run
  has bounds that satisfy both premises.

  The proof found that the guards of `Kind` overlapped when kinds share numbers, so that
  `CASE` left the answer open; it now asks in the order the code does.

`ResolverProofs` proves, for any files, names, search paths and places of the source:

* `CallsStayFirst` (`CallsMeanTheFirst`), `LookupsStayAgreed` and `PackagesStayFound`,
  without a premise, and `PrivateFilesStay`, where no search path leads into a private
  directory (`PublicSearchPaths`). The invariant (`RInv`) is small: there is one file of
  a name in a directory, and the roots are those given. The work is in the lookups:
  what the first of two, of five, and of one place per root is (`FirstIs` and the lemmas
  after it), that
  the places one function lists in two loops and another in one come to the same first
  match (`CallableIn`, `FunctionIn`, `ClassOfRoot`), and that a list of matches from which
  later ones are dropped keeps its head. `PublicSearchPaths` is needed: a private
  directory given as a root is searched like any other.
* `ShadowedStayInOrder`, the action property `ShadowedComeForward`, without a premise. A
  place holds next what it held besides the file that went (`Without`), except that a
  class folder that goes lets the class file beside it come forward when a method of the
  class is called (`StaticNext`, `RootNext`). A list in which no file comes twice
  (`Tidy`) holds besides that file what the places hold (`ListedRest`), and that is its
  second match (`SecondIsRest`). The two rows of places then begin alike, or the one call
  differs where it meant such a method (`FirstDifference`, `MethodWasMeant`). The proof
  found that the property had excepted too little: it asked whether the file has another
  name than the last part of the call, which a method `p` of a class `p` has not. It now
  asks whether the match has another name, and the run has `p.p` among its names.

`EngineParityProofs` proves, for any trees, errors, iterables and lengths of the trace:

* `ParityTypeOK`: control stays at places that the tree has (`Places`), a block that fails
  carries an error, a `for` takes no element past its last, and the machine that is handed
  the trace never reads past its end. The type invariant is inductive as it stands. That
  a statement of a block and the one after it exist (`EnterIsPlace`, `AfterIsPlace`) is
  why `Members` is a set and the next statement its least.
* `EnginesAgreeOnCleanPrograms` (`EnginesAgree`, of the program that is run if it has none
  of `PartingFeatures`) and `CleanProgramsRunAlike` (throughout, if no program given has
  any; the premise of the run `parity`). Both are for `HostErrors = {}`: the error of a
  figure callback is caught by the interpreter and not by the machine. The bound on
  evaluations (`MaxEvents`) may be any. With any one of the four features the engines
  part (see the runs above).

  It is a simulation, although the interpreter is over when the machine starts: the
  machine is deterministic once it is handed a trace, so that the invariant can speak of
  where it *will* get. `Turn` is what one step makes of a machine, as a function of code
  and trace (`TurnIs`), and `Reaches` says that a machine gets to another by such steps;
  a longer trace takes it at least as far (`ReachesLonger`). While the interpreter runs,
  the machine still has its initial state, and the invariant (`Follows`) says that it
  would get, with the trace so far, to a state that stands for the interpreter's (`Sim`).
  Every step of the interpreter adds at most one event, and a few steps of the machine go
  with it. When the interpreter is done, the machine is on its way to the same result
  (`Ending`), and every step it takes is one of `Turn`.

  What a state stands for needs to know where the code of each statement lies. `LaidOut`
  says that of a whole program: every block has the code of its statements in a row, and
  every statement has the instructions of its `lower_*` function around those of its
  blocks. That the emitted code can be laid out so (`LayoutExists`) is shown from the
  first statement to the last, each placing the statements of its blocks (`PlaceNext`).
  The labels being unique, a place of the interpreter (`At`) is then a position in the
  code (`PlaceAt`), and the jumps of a `break`, `continue`, or the end of a branch are to
  the place the interpreter goes on at. A machine `Stands` at such a place when its pc is
  there, its handlers are the `try` bodies around the statement (`HandlersIn`), its
  iterators have the interpreter's cursors and those of the loops around are started
  (`InStep`), and it has come to the end of the trace. While the interpreter hands an
  error, a `break`, a `continue` or a `return` from block to block (`flow`), the machine
  does nothing, since it has jumped: it takes the innermost handler of the block the
  interpreter is leaving (`Failing`), is at the end or the head of the loop (`Leaving`),
  or reads the outputs (`Returning`).

  There is one lemma for each action of the interpreter; `EvaluateTest`, `EvaluateRhs`
  and the end of a `for` are the long ones.

`WorkspaceProofs` proves, for any program (`Scope`) and any bounds:

* `WorkspaceTypeCorrect`, and `CellsStayOneVariable`: a cell is held under one binding
  only, wherever it is held.
* `FramesStaySeparate` and `CallsLeaveVariablesAlone`, for programs without recursion
  (`NonRecursive`): where two frames hold the cell of a private variable, the function of
  the lower one comes earlier in the order of calls (`Deeper`), so that no function is
  given cells of its own variables; and a handle keeps only cells that its target
  captures (`ClosuresCapture`).
* `StorageStaysShared`, where only the script body clears globals (`OnlyMainClears`): a
  frame that marks a name as global or persistent holds the cell of the table
  (`Marked`), and the script body is the lowest frame (`MainIsBottom`), so that no caller
  is left with an old cell.

The assumptions are `CodesAssumption` (the verifier's conditions and disjoint names
of errors and results), `ArmsAssumption`, `ProgramsAssumption` (programs are trees, as
the parser builds them), `EmittedAssumption` (the codes are those of the programs),
`InterpreterAssumption` ("no error" is not an error), and those of the other modules,
which say that handles are positive, bounds are numbers, the scopes of a program
belong together, roots are files (`BundlesAssumption`), the kinds of graphics objects
start in the order of the code, and names have at least one part. TLC evaluates
each on a run that extends its module. `HostErrors = {}`, `PartingFeatures(p) = {}`,
`NonRecursive`, `OnlyMainClears`, `FiguresApart`, `RangesApart` and `PublicSearchPaths` are premises of
single theorems. The instances of the runs satisfy them, and the notes on the runs say
what happens without them.

`Disciplined` is the premise of the theorems about handlers, `Guarded` that of
`NeverMalformed`. The emitter keeps the second always and the first unless a `continue`
leaves a try body, which is proved for every tree; the run `continue_in_try` shows what
follows otherwise. The theorems about any code do not use `EmittedAssumption`.

With TLC alone stay: liveness (`ForLoopsTerminate`, `HostIsSeenOrGone`,
`ClosesAreAnswered`); that neither engine gets stuck on the way (deadlock, which is
`ENABLED`); and `OptimizedRunsAlike` and `OnePassSuffices`, whose operators are recursive.
`EnginesAgree` is about both engines on one tree; that the machine on the optimized tree
agrees with the interpreter on the tree before it rests on these two as well.

## Not modelled

* What expressions compute, in the engines. Every evaluation takes an outcome from a
  set. That the two engines compute equal values for one expression is a matter of data:
  for instance `switch` compares with `values_equal` in the interpreter and with the
  `Equal` operator in the machine, and `||` on arrays is elementwise in the machine.
* Calls, in `EngineParity`: a call is part of an evaluation. Calls are in `Workspace`.
* A `catch` without a variable; the machine then emits no `StoreLastError`.
* In `Optimizer`: the folding of one operand, powers, and the expressions the pass only
  descends into.
* In `Workspace`: `clear functions`, `load`, `eval` and `assignin`, and with them the
  variables that exist only at run time; `ans`, which the interpreter declares after a
  callee has been given its cells and the machine before. A nested function called
  before a variable it captures is assigned fails ("captured binding ... is not
  available"), and so does a handle to one whose callee captures more than it does;
  neither call is taken in the model. `clear global x` never removes `x` from the table.
* In `Resolver`: methods in class folders, names of files with dots, and paths that
  differ only in case, which Windows takes for one.
* In `Bundles`: how values and modules are encoded, and failures to decode or to compile;
  MAT files, which have no modules; classes and objects, whose methods carry numbers and
  paths as handles do; bound method handles; sources that are still on disk, which are
  found before the registries. Files are in the order of their numbers; with more than
  ten, `dep10` comes before `dep2`, which matters only for two modules with one path.
* In `Graphics`: what is drawn, the properties of `get` and `set` other than limits,
  positions, legends, colorbars, `plotyy` and the second y axis. `ishold` without a
  figure ends the process (`graphics.rs:1649`). `axis auto`, `cla reset` and `reset` let
  one of several linked axes follow its data again while the others stay fixed.
* What a window shows, beyond the version of its page; toolbar commands (no toolbar is
  created, `windows_host.rs:678`); a host that cannot be spawned or cannot write its
  state file.
* The lexer and the expression grammar, the decisions of the binder (their result is the
  constant `Scope`), arrays, the standard library (more than half
  of the implementation's lines) and platform artifacts: sequential functions of large
  data, which nothing else shares and a model checker cannot enumerate.

## Plan

1. (done) `Program`, `Codegen`, `BytecodeVM`, `Interpreter`, `EngineParity`, and the
   proofs about the handler stack.
2. (done) `FigureViewer`, `FigureHost` and the proof of the refinement; `FigureEvents`
   and its proofs.
3. (done) `Workspace` and its proofs.
4. (done) `Optimizer` against evaluation, `Resolver`, `Graphics`.
5. (done) `Bundles` and its proofs.
6. (done) `GraphicsProofs`, `ResolverProofs`, `EngineParityProofs`, and
   `HandlesKeepTheirMeaning` in `BundlesProofs`; the emitter in `BytecodeVMProofs`.
7. (done) Where the code of each statement lies, and with it the simulation of the
   interpreter by the machine: `EnginesAgree`.
8. Left: the host errors of the engines, on which they part, stated exactly; `FigureEvents`
   composed with `FigureHost` through the files they share; the binder's captures, so
   that `Scope` is computed.
