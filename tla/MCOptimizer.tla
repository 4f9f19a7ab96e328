---------------------------- MODULE MCOptimizer ----------------------------
(***************************************************************************)
(* The pass on small programs, built from the inside out: a statement is   *)
(* appended, or the program so far becomes a block of a new statement.     *)
(***************************************************************************)
EXTENDS Optimizer

CONSTANTS MCLiberties,   \* the liberties the programs give the pass
          MCSteps        \* bound: statements around the first one

VARIABLES program, x, steps

Literals == {Number(0), Number(1), Number(2)}
Atoms    == Literals \cup {X, Matrix(<< >>), Matrix(<<Number(1)>>)}
Binaries == {Expression(op, <<l, r>>) : op \in Arithmetic, l \in Atoms, r \in Atoms}
Ranges   == {Expression("range", <<l, r>>) : l \in Atoms, r \in Atoms}
            \cup {Expression("range", <<l, s, r>>) :
                    l \in Literals, s \in Literals \cup {X, Expression("minus", <<Number(0), Number(1)>>)},
                    r \in Literals}
Nested   == {Expression(op, <<l, r>>) : op \in {"plus", "minus", "times", "less"},
               l \in {Expression("plus", <<X, Number(0)>>), Expression("minus", <<Number(1), Number(1)>>),
                     Matrix(<<X>>)},
               r \in {X, Number(0), Number(1), Expression("range", <<Number(1), Number(2)>>)}}

Less     == Expression("less", <<X, Number(2)>>)
Tests    == {Number(0), Expression("plus", <<Number(0), Number(1)>>), X, Less}
Matchers == {Number(1), Number(2), X}
Rows     == {X, Expression("range", <<Number(1), Number(0)>>),
             Expression("range", <<Number(1), Number(2)>>)}

Assign(e) == Statement("assign", <<e>>, << >>)
One       == <<Assign(Number(1))>>

Values0 == {Failure, ScalarValue(0), ScalarValue(2), RowValue(<<1, 2>>), RowValue(<< >>)}

Init ==
  /\ x \in Values0
  /\ \/ steps = 0 /\ program \in {<<Assign(a)>> : a \in {X, Number(0), Less}}
     \/ steps = 1 /\ program \in {<<Assign(e)>> : e \in Binaries \cup Ranges \cup Nested}

Grow == steps < MCSteps /\ steps' = steps + 1 /\ UNCHANGED x

AppendStatement ==
  /\ Grow
  /\ \E s \in {Assign(Expression("minus", <<X, Number(1)>>))}
              \cup {Statement(k, << >>, << >>) : k \in {"break", "continue", "return"}} :
        program' = Append(program, s)

\* The program so far is one of the branches, or the else block.
WrapIf ==
  /\ Grow
  /\ \E c \in Tests, d \in Tests, i \in 1 .. 3 :
        program' = <<Statement("if", <<c, d>>, [[j \in 1 .. 3 |-> One] EXCEPT ![i] = program])>>

WrapSwitch ==
  /\ Grow
  /\ \E e \in {Number(2), X, Expression("range", <<Number(2), Number(2)>>)}, c \in Matchers, d \in Matchers, i \in 1 .. 3 :
        program' = <<Statement("switch", <<e, c, d>>,
                               [[j \in 1 .. 3 |-> One] EXCEPT ![i] = program])>>

WrapLoop ==
  /\ Grow
  /\ \/ \E c \in Tests : program' = <<Statement("while", <<c>>, <<program>>)>>
     \/ \E e \in Rows : program' = <<Statement("for", <<e>>, <<program>>)>>

WrapTry ==
  /\ Grow
  /\ \/ program' = <<Statement("try", << >>, <<program, One>>)>>
     \/ program' = <<Statement("try", << >>, <<<<Assign(Matrix(<<X>>))>>, program>>)>>

Next == AppendStatement \/ WrapIf \/ WrapSwitch \/ WrapLoop \/ WrapTry
Spec == Init /\ [][Next]_<<program, x, steps>>

\* The optimized program does what the program does: it assigns the same
\* values in the same order and ends the same way, unless the program has one
\* of the shapes with which the pass takes liberties.
OptimizedRunsAlike ==
  Liberties(program) \subseteq MCLiberties =>
    Run(OptimizeBlock(program), x) = Run(program, x)

\* One pass is enough: no other pass would find more to fold or to drop.
OnePassSuffices ==
  OptimizeBlock(OptimizeBlock(program)) = OptimizeBlock(program)
=============================================================================
