----------------------------- MODULE Optimizer -----------------------------
(***************************************************************************)
(* The optimizer: one bottom-up pass over the statement tree that folds    *)
(* constant expressions and drops branches and loops whose condition is    *)
(* decided.  The pass stands beside what it may not change, the evaluation *)
(* of the tree by the interpreter (Evaluate, Run).                         *)
(*                                                                         *)
(* A value is a number or a matrix of one row or none; a number is not the *)
(* matrix that holds it alone, and an empty row not the matrix without a   *)
(* row.  That comparisons give logical values is left out.  The operators  *)
(* stand for the elementwise ones.  The program has one variable, x.       *)
(***************************************************************************)
EXTENDS Integers, Sequences, FiniteSets, SequencesExt

CONSTANT MaxTurns      \* bound: turns of all while loops of a run

ASSUME MaxTurnsAssumption == MaxTurns \in Nat

(* HirExpression: an operator and its arguments. *)
Expression(op, args) == [op |-> op, number |-> 0, args |-> args]
Number(n)  == [op |-> "number", number |-> n, args |-> << >>]
X          == Expression("x", << >>)
Matrix(es) == Expression("matrix", es)
Arithmetic == {"plus", "minus", "times", "rdivide", "ldivide", "less", "and"}

(* HirStatement: the expressions and the blocks it has.  An `if` has its      *)
(* conditions, their bodies and the else block; a `switch` the subject and    *)
(* the matchers, their bodies and the otherwise block.                        *)
Statement(kind, exprs, blocks) ==
  [kind |-> kind, exprs |-> exprs, blocks |-> blocks]

-----------------------------------------------------------------------------
(***************************************************************************)
(* What the interpreter makes of it.                                       *)
(***************************************************************************)
Value(boxed, dims, row) == [ok |-> TRUE, boxed |-> boxed, dims |-> dims, row |-> row]
ScalarValue(n)          == Value(FALSE, <<1, 1>>, <<n>>)
MatrixValue(dims, row)  == Value(TRUE, dims, row)
RowValue(row)           == MatrixValue(<<1, Len(row)>>, row)
Failure == [ok |-> FALSE, boxed |-> FALSE, dims |-> <<0, 0>>, row |-> << >>]

\* Which number a quotient is does not matter, but a / b is not b / a.
Quotient(a, b) ==
  IF b # 0 /\ a % b = 0 THEN a \div b ELSE 1000 + 100 * a + b

Truth(b) == IF b THEN 1 ELSE 0
Apply(op, a, b) ==
  CASE op = "plus"    -> a + b
    [] op = "minus"   -> a - b
    [] op = "times"   -> a * b
    [] op = "rdivide" -> Quotient(a, b)
    [] op = "ldivide" -> Quotient(b, a)
    [] op = "less"    -> Truth(a < b)
    [] op = "and"     -> Truth(a # 0 /\ b # 0)

\* Operands of the same dimensions, or one element with every other; what comes
\* out alone is a number, whatever it was made of.
Broadcast(op, u, v) ==
  LET dims == IF u.dims = <<1, 1>> THEN v.dims ELSE u.dims
      at(w, i) == w.row[IF w.dims = <<1, 1>> THEN 1 ELSE i]
  IN  IF u.dims # v.dims /\ <<1, 1>> \notin {u.dims, v.dims} THEN Failure
      ELSE Value(dims # <<1, 1>>, dims,
                 [i \in 1 .. dims[1] * dims[2] |-> Apply(op, at(u, i), at(v, i))])

\* Side by side: the columns add up; an operand without a row leaves none.
Concatenate(vs) ==
  LET cols == FoldSeq(LAMBDA v, n : n + v.dims[2], 0, vs)
  IN  IF vs = << >> \/ \E i \in DOMAIN vs : vs[i].dims[1] = 0
      THEN MatrixValue(<<0, cols>>, << >>)
      ELSE MatrixValue(<<1, cols>>, FlattenSeq([i \in DOMAIN vs |-> vs[i].row]))

\* start : step : end, for a step that is not zero
Elements(start, step, end) ==
  LET reached == IF step > 0 THEN end - start ELSE start - end
      width   == IF step > 0 THEN step ELSE -step
  IN  IF reached < 0 THEN << >>
      ELSE [i \in 1 .. reached \div width + 1 |-> start + (i - 1) * step]

RECURSIVE Evaluate(_, _)
Evaluate(e, x) ==
  LET args == [i \in DOMAIN e.args |-> Evaluate(e.args[i], x)] IN
  CASE e.op = "number" -> ScalarValue(e.number)
    [] e.op = "x"      -> x
    [] \E i \in DOMAIN args : ~args[i].ok -> Failure
    [] e.op = "matrix" -> Concatenate(args)
    [] e.op = "range"  ->
         LET step == IF Len(args) = 3 THEN args[2].row ELSE <<1>>
             end  == args[Len(args)].row
         IN  IF \/ Len(args[1].row) # 1 \/ Len(step) # 1 \/ Len(end) # 1
                \/ step[1] = 0
             THEN Failure
             ELSE RowValue(Elements(args[1].row[1], step[1], end[1]))
    [] OTHER           -> Broadcast(e.op, args[1], args[2])

(* A run: the value of x, the values it was given, and how it goes on. *)
Running(r)   == r.flow = "next"
Stopped(r, flow) == [r EXCEPT !.flow = flow]
Assigned(r, v) ==
  IF v.ok THEN [r EXCEPT !.x = v, !.log = Append(@, v)] ELSE Stopped(r, "error")

\* A condition: the value decides, if it is the one element it has to be.
Holds(v) == v.row[1] # 0
Decides(v) == v.ok /\ Len(v.row) = 1

\* A case: a number is no matrix.
ValuesEqual(u, v) == u.boxed = v.boxed /\ u.dims = v.dims /\ u.row = v.row

\* What is left of break and continue outside of the turn of the loop.
AfterTurn(r) == IF r.flow = "continue" THEN Stopped(r, "next") ELSE r
AfterLoop(r) == IF r.flow = "break" THEN Stopped(r, "next") ELSE r

RECURSIVE RunBlock(_, _), RunArms(_, _, _), RunWhile(_, _), RunFor(_, _, _)
RunStatement(s, r) ==
  LET v == Evaluate(s.exprs[1], r.x) IN
  CASE s.kind \in {"break", "continue", "return"} -> Stopped(r, s.kind)
    [] s.kind = "try" ->
         LET body == RunBlock(s.blocks[1], r)
         IN  IF body.flow = "error"
             THEN RunBlock(s.blocks[2], Stopped(body, "next")) ELSE body
    [] s.kind = "if"     -> RunArms(s, 1, r)
    [] s.kind = "while"  -> AfterLoop(RunWhile(s, r))
    [] ~v.ok             -> Stopped(r, "error")
    [] s.kind = "assign" -> Assigned(r, v)
    [] s.kind = "switch" -> RunArms(s, 2, r)
    [] s.kind = "for"    -> AfterLoop(RunFor(s.blocks[1], v.row, r))

RunBlock(block, r) ==
  IF block = << >> \/ ~Running(r) THEN r
  ELSE RunBlock(Tail(block), RunStatement(Head(block), r))

\* The branches of an `if` from the i-th on, the cases of a `switch` from the
\* (i-1)-st on.
RunArms(s, i, r) ==
  IF i > Len(s.exprs) THEN RunBlock(s.blocks[Len(s.blocks)], r)
  ELSE LET v == Evaluate(s.exprs[i], r.x) IN
       IF s.kind = "if"
       THEN CASE ~Decides(v) -> Stopped(r, "error")
              [] Holds(v)    -> RunBlock(s.blocks[i], r)
              [] OTHER       -> RunArms(s, i + 1, r)
       ELSE CASE ~v.ok -> Stopped(r, "error")
              [] ValuesEqual(Evaluate(s.exprs[1], r.x), v) -> RunBlock(s.blocks[i - 1], r)
              [] OTHER -> RunArms(s, i + 1, r)

RunWhile(s, r) ==
  LET v == Evaluate(s.exprs[1], r.x)
      turn == AfterTurn(RunBlock(s.blocks[1], [r EXCEPT !.turns = @ + 1]))
  IN  CASE ~Decides(v) -> Stopped(r, "error")
        [] ~Holds(v)   -> r
        [] r.turns = MaxTurns -> Stopped(r, "cut")
        [] Running(turn) -> RunWhile(s, turn)
        [] OTHER       -> turn

RunFor(body, row, r) ==
  IF row = << >> THEN r
  ELSE LET turn == AfterTurn(RunBlock(body, Assigned(r, ScalarValue(Head(row)))))
       IN  IF Running(turn) THEN RunFor(body, Tail(row), turn) ELSE turn

Run(program, x) ==
  LET r == RunBlock(program, [x |-> x, log |-> << >>, flow |-> "next", turns |-> 0])
  IN  [log |-> r.log, flow |-> r.flow]

-----------------------------------------------------------------------------
(***************************************************************************)
(* The pass.                                                               *)
(***************************************************************************)

\* scalar_literal_value: the literal, or a matrix literal of one.
RECURSIVE IsScalar(_)
IsScalar(e) ==
  \/ e.op = "number"
  \/ e.op = "matrix" /\ Len(e.args) = 1 /\ IsScalar(e.args[1])
RECURSIVE Scalar(_)
Scalar(e) == IF e.op = "number" THEN e.number ELSE Scalar(e.args[1])

IsLiteral(e, n) == IsScalar(e) /\ Scalar(e) = n

\* constant_truthy
Always(e) == IsScalar(e) /\ Scalar(e) # 0
Never(e)  == IsScalar(e) /\ Scalar(e) = 0

\* try_fold_binary
FoldBinary(op, a, b) ==
  IF op \in {"rdivide", "ldivide"} THEN Quotient(a, b) ELSE Apply(op, a, b)

\* simplify_binary_identity
Simplify(e, l, r) ==
  CASE e.op = "plus" /\ IsLiteral(l, 0) -> r
    [] e.op \in {"plus", "minus"} /\ IsLiteral(r, 0) -> l
    [] e.op = "times" /\ (IsLiteral(l, 0) \/ IsLiteral(r, 0)) -> Number(0)
    [] e.op = "times" /\ IsLiteral(l, 1) -> r
    [] e.op = "times" /\ IsLiteral(r, 1) -> l
    [] OTHER -> e

\* try_fold_range: a step that is no literal counts as 1.
FoldRange(e) ==
  LET start == e.args[1]
      end   == e.args[Len(e.args)]
      step  == IF Len(e.args) = 3 /\ IsScalar(e.args[2]) THEN Scalar(e.args[2]) ELSE 1
  IN  IF IsScalar(start) /\ IsScalar(end) /\ step # 0
      THEN LET row == Elements(Scalar(start), step, Scalar(end))
           IN  Matrix([i \in DOMAIN row |-> Number(row[i])])
      ELSE e

\* optimize_expression, once the operands are optimized
Fold(e) ==
  LET l == e.args[1]
      r == e.args[2]
  IN  CASE e.op \in Arithmetic /\ IsScalar(l) /\ IsScalar(r) ->
             Number(FoldBinary(e.op, Scalar(l), Scalar(r)))
        [] e.op \in Arithmetic -> Simplify(e, l, r)
        [] e.op = "range" -> FoldRange(e)
        [] OTHER -> e

RECURSIVE OptimizeExpression(_)
\* Mutant: an operator is folded before its operands.
FoldOuterFirst(e) ==
  LET folded == Fold(e) IN
  [folded EXCEPT !.args = [i \in DOMAIN @ |-> OptimizeExpression(@[i])]]

OptimizeExpression(e) ==
  Fold([e EXCEPT !.args = [i \in DOMAIN @ |-> OptimizeExpression(@[i])]])

\* optimize_if: branches that are never taken go; the first that is always
\* taken stands for the statement, and so does the else block when no branch is
\* left.
OptimizeIf(s) ==
  LET arms == DOMAIN s.exprs
      always == {i \in arms : Always(s.exprs[i])}
      open == SelectSeq([i \in arms |-> i], LAMBDA i : ~Never(s.exprs[i]))
      else == s.blocks[Len(s.blocks)]
  IN  CASE always # {} -> s.blocks[CHOOSE i \in always : \A j \in always : i <= j]
        [] open = << >> -> else
        [] OTHER ->
             <<Statement("if", [i \in DOMAIN open |-> s.exprs[open[i]]],
                         Append([i \in DOMAIN open |-> s.blocks[open[i]]], else))>>

\* Mutant: a case that matches is taken although an earlier one is undecided.
OptimizeSwitchEagerly(s) ==
  LET cases == 2 .. Len(s.exprs)
      hits == {i \in cases : IsLiteral(s.exprs[i], Scalar(s.exprs[1]))}
  IN  CASE ~IsScalar(s.exprs[1]) -> <<s>>
        [] hits # {} -> s.blocks[(CHOOSE i \in hits : \A j \in hits : i <= j) - 1]
        [] \A i \in cases : IsScalar(s.exprs[i]) -> s.blocks[Len(s.blocks)]
        [] OTHER -> <<s>>

\* optimize_switch: with a literal subject, a case stands for the statement when
\* it is the first that matches and only literals come before it.
OptimizeSwitch(s) ==
  LET cases == 2 .. Len(s.exprs)
      hits == {i \in cases : /\ IsLiteral(s.exprs[i], Scalar(s.exprs[1]))
                             /\ \A j \in 2 .. i - 1 :
                                   /\ IsScalar(s.exprs[j])
                                   /\ Scalar(s.exprs[j]) # Scalar(s.exprs[1])}
  IN  CASE ~IsScalar(s.exprs[1]) -> <<s>>
        [] hits # {} -> s.blocks[(CHOOSE i \in hits : TRUE) - 1]
        [] \A i \in cases : IsScalar(s.exprs[i]) -> s.blocks[Len(s.blocks)]
        [] OTHER -> <<s>>

RECURSIVE OptimizeBlock(_)
OptimizeStatement(s) ==
  LET opt == Statement(s.kind,
               [i \in DOMAIN s.exprs |-> OptimizeExpression(s.exprs[i])],
               [i \in DOMAIN s.blocks |-> OptimizeBlock(s.blocks[i])])
  IN  CASE s.kind = "if"     -> OptimizeIf(opt)
        [] s.kind = "switch" -> OptimizeSwitch(opt)
        [] s.kind = "for" /\ opt.exprs[1] = Matrix(<< >>) -> << >>
        [] s.kind = "while" /\ Never(opt.exprs[1]) -> << >>
        [] OTHER -> <<opt>>

OptimizeBlock(block) ==
  FlattenSeq([i \in DOMAIN block |-> OptimizeStatement(block[i])])

-----------------------------------------------------------------------------
(***************************************************************************)
(* The liberties the pass takes: shapes for which what it makes of a       *)
(* program is another program.                                             *)
(***************************************************************************)
\* optimize_expression on the operands
Operands(e) == [i \in DOMAIN e.args |-> OptimizeExpression(e.args[i])]

\* The operand that stands for the whole of a sum, a difference or a product.
Survivors(e) ==
  LET l == Operands(e)[1]
      r == Operands(e)[2]
  IN  IF e.op \in {"plus", "minus", "times"} /\ ~(IsScalar(l) /\ IsScalar(r))
      THEN {l, r} \cap {Simplify([e EXCEPT !.args = <<l, r>>], l, r)} ELSE {}

\* What may evaluate to a matrix of one element.
MayBeOneByOne(e) ==
  LET opt == OptimizeExpression(e) IN
  \/ opt.op = "range"
  \/ opt.op = "matrix" /\ (Len(opt.args) = 1 \/ \E i \in DOMAIN opt.args : ~IsScalar(opt.args[i]))

ExpressionLiberties(e) ==
  {l \in {"zero", "step", "ldivide", "empty"} :
     LET opt == Operands(e) IN
     CASE l = "zero" ->      \* 0 * e, where e is not a scalar or fails
            /\ e.op = "times"
            /\ \E i \in 1 .. 2 : IsLiteral(opt[i], 0) /\ ~IsScalar(opt[3 - i])
       [] l = "step" ->      \* the step of a range is not a literal
            e.op = "range" /\ Len(opt) = 3 /\ ~IsScalar(opt[2])
       [] l = "ldivide" ->   \* a \ b is folded to a / b
            e.op = "ldivide" /\ IsScalar(opt[1]) /\ IsScalar(opt[2])
       [] l = "empty" ->     \* an empty range is folded to [], which has no row
            e.op = "range" /\ OptimizeExpression(e) = Matrix(<< >>)}

StatementLiberties(s) ==
  LET opt == [i \in DOMAIN s.exprs |-> OptimizeExpression(s.exprs[i])] IN
  {l \in {"branch", "bracket"} :
     CASE l = "branch" ->    \* a branch always taken, after an open one
            s.kind = "if" /\ \E j \in DOMAIN opt : \E i \in 1 .. j - 1 :
                                Always(opt[j]) /\ ~IsScalar(opt[i])
       [] l = "bracket" ->   \* [n] is taken for n
            /\ s.kind = "switch"
            /\ \E i \in DOMAIN opt : opt[i].op = "matrix" /\ IsScalar(opt[i])}

RECURSIVE SubExpressions(_)
SubExpressions(e) == {e} \cup UNION {SubExpressions(e.args[i]) : i \in DOMAIN e.args}

RECURSIVE SubStatements(_)
SubStatements(block) ==
  UNION {{block[k]} \cup UNION {SubStatements(block[k].blocks[i]) :
                                   i \in DOMAIN block[k].blocks} : k \in DOMAIN block}

Liberties(block) ==
  LET all == SubStatements(block)
      of(s) == UNION {SubExpressions(s.exprs[i]) : i \in DOMAIN s.exprs}
      dropped(s) == s.kind = "for" /\ OptimizeStatement(s) = << >>
      exprs == UNION {of(s) : s \in all}
  IN  UNION ({StatementLiberties(s) : s \in all}
             \cup {UNION {ExpressionLiberties(e) : e \in of(s)}
                     \ (IF dropped(s) THEN {"empty"} ELSE {}) : s \in all})
      \cup {l \in {"identity"} :   \* x + 0 is folded to x, which may be a matrix
              /\ \E e \in exprs : MayBeOneByOne(e)
              /\ \E e \in exprs : \E f \in Survivors(e) : f.op # "number"}
=============================================================================
