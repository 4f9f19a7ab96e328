------------------------------ MODULE Program ------------------------------
(***************************************************************************)
(* The statement trees both execution engines consume: HirStatement of     *)
(* src/ir/src/hir.rs, with every expression, assignment and declaration    *)
(* reduced to an "act" (one thing that succeeds or raises an error).       *)
(*                                                                         *)
(* A program is a table of statements numbered 1..n in source order.       *)
(* Statement s sits in block slot[s] of statement parent[s]; parent 0 is   *)
(* the script or the function itself.  The blocks of a statement are       *)
(* numbered in source order: 1..Arms are the branches of an `if` or the    *)
(* cases of a `switch` and Arms + 1 its else/otherwise block; 1 and 2 are  *)
(* the body and the catch block of a `try`; 1 is the body of a loop.       *)
(* Every `catch` names the variable it binds the error to.                 *)
(***************************************************************************)
EXTENDS Naturals, Sequences, FiniteSets, SequencesExt

CONSTANTS Arms,      \* number of branches of every `if` and `switch`
          Programs   \* the statement trees considered

ASSUME ArmsAssumption == Arms \in Nat \ {0}

Loops    == {"for", "while"}
Branchings  == {"if", "switch"}
Controls == {"break", "continue", "return"}
Kinds    == {"act", "try"} \cup Loops \cup Branchings \cup Controls

Units    == {"script", "function"}
Tests    == {"plain", "and", "or"}    \* `c`, `a && b`, `a || b`

Slots(kind) ==
  CASE kind \in Branchings -> 1..(Arms + 1)
    [] kind = "try"     -> 1..2
    [] kind \in Loops   -> {1}
    [] OTHER            -> {}

Stmts(p) == 1..Len(p.kind)

\* The statements of block s of n.
Members(p, n, s) == {c \in Stmts(p) : p.parent[c] = n /\ p.slot[c] = s}

\* The table describes a tree: a statement comes after the one that it is in,
\* in a block which that one has; only conditions are compound.
IsTree(p) ==
  /\ p.unit \in Units
  /\ p.kind \in Seq(Kinds)
  /\ p.test \in [Stmts(p) -> Tests]
  /\ \A n \in Stmts(p) :
       /\ p.parent[n] \in 0..(n - 1)
       /\ p.slot[n] \in IF p.parent[n] = 0 THEN {1} ELSE Slots(p.kind[p.parent[n]])
       /\ p.test[n] # "plain" => p.kind[n] \in {"if", "while"}

ASSUME ProgramsAssumption == \A p \in Programs : IsTree(p)

\* <<a, s>> is in Around(p, n) when statement n lies, at any depth, in block s
\* of statement a.
Around(p, n) ==
  LET around[m \in 0..Len(p.kind)] ==
        IF m = 0 \/ p.parent[m] = 0 THEN {}
        ELSE {<<p.parent[m], p.slot[m]>>} \cup around[p.parent[m]]
  IN  around[n]

\* The innermost loop around n, 0 when there is none.
LoopOf(p, n) ==
  LET loops == {a \in Stmts(p) : <<a, 1>> \in Around(p, n) /\ p.kind[a] \in Loops}
  IN  IF loops = {} THEN 0 ELSE CHOOSE a \in loops : \A b \in loops : b <= a

\* The `try` statements whose body (not whose catch block) contains n.
TriesOf(p, n) ==
  {a \in Stmts(p) : <<a, 1>> \in Around(p, n) /\ p.kind[a] = "try"}

-----------------------------------------------------------------------------
(***************************************************************************)
(* Features on which the two engines are known to part.                    *)
(***************************************************************************)

\* `continue` leaves a try body by jumping back to the head of its loop.
ContinueLeavesTry(p) ==
  \E n \in Stmts(p) : /\ p.kind[n] = "continue"
                      /\ LoopOf(p, n) # 0
                      /\ \E t \in TriesOf(p, n) : LoopOf(p, n) < t

\* `return` inside a try body of a function, where the outputs are read.
ReturnInTry(p) ==
  \E n \in Stmts(p) : /\ p.unit = "function"
                      /\ p.kind[n] = "return"
                      /\ TriesOf(p, n) # {}

\* `break` or `continue` outside every loop.
StrayLoopControl(p) ==
  \E n \in Stmts(p) : p.kind[n] \in {"break", "continue"} /\ LoopOf(p, n) = 0

\* `return` in a script.
ScriptReturn(p) ==
  p.unit = "script" /\ \E n \in Stmts(p) : p.kind[n] = "return"

PartingFeatures(p) ==
  {f \in {"continue_in_try", "return_in_try", "stray_control", "script_return"} :
     CASE f = "continue_in_try" -> ContinueLeavesTry(p)
       [] f = "return_in_try"   -> ReturnInTry(p)
       [] f = "stray_control"   -> StrayLoopControl(p)
       [] f = "script_return"   -> ScriptReturn(p)}

-----------------------------------------------------------------------------
(***************************************************************************)
(* Every program of at most `size` statements over `kinds`, as the parser  *)
(* builds them: a statement is appended to an open block, one on the path  *)
(* from the last statement to the root, never to a block already closed.   *)
(***************************************************************************)
Empty(unit) ==
  [unit |-> unit, kind |-> << >>, parent |-> << >>, slot |-> << >>,
   test |-> << >>]

\* The open blocks of p: <<parent, slot>> pairs that may take one more statement.
OpenBlocks(p) ==
  LET n == Len(p.kind) IN
  {<<0, 1>>} \cup
  IF n = 0 THEN {}
  ELSE {<<n, s>> : s \in Slots(p.kind[n])} \cup
       {b \in Stmts(p) \X (1..(Arms + 1)) :
          /\ b[2] \in Slots(p.kind[b[1]])
          /\ \E s \in 1..b[2] : <<b[1], s>> \in Around(p, n)}

TestsOf(kind, tests) == IF kind \in {"if", "while"} THEN tests ELSE {"plain"}

Extend(p, kinds, tests) ==
  UNION {{[unit   |-> p.unit,
           kind   |-> Append(p.kind, k),
           parent |-> Append(p.parent, b[1]),
           slot   |-> Append(p.slot, b[2]),
           test   |-> Append(p.test, t)] :
             b \in OpenBlocks(p), t \in TestsOf(k, tests)} : k \in kinds}

ProgramsOfSize(size, unit, kinds, tests) ==
  LET grow[n \in 0..size] ==
        IF n = 0 THEN {Empty(unit)}
        ELSE UNION {Extend(p, kinds, tests) : p \in grow[n - 1]}
  IN  grow[size]

ProgramsUpTo(size, unit, kinds, tests) ==
  UNION {ProgramsOfSize(n, unit, kinds, tests) : n \in 1..size}

=============================================================================
