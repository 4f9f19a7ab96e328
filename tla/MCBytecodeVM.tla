---------------------------- MODULE MCBytecodeVM ----------------------------
(***************************************************************************)
(* The bytecode machine on the code the emitter makes for every small      *)
(* function body of some families.                                         *)
(***************************************************************************)
EXTENDS EmittedCode

CONSTANT MCFamilies   \* sets of function bodies, each with its bounds

\* Every way to leave a block; and loops over elements, left and continued from
\* nested try bodies.
MCSmall ==
  {[size  |-> 3,
    kinds |-> {"act", "if", "try", "while", "break", "continue", "return"}],
   [size  |-> 4, kinds |-> {"act", "for", "try", "continue", "break"}]}

HasWhile(p) == \E n \in Stmts(p) : p.kind[n] = "while"

\* Where a `continue` leaves the try body in a `while` loop, every turn leaves a
\* handler behind: those bodies have no bounded state.
MCPrograms ==
  {p \in UNION {ProgramsUpTo(f.size, "function", f.kinds, {"plain", "or"}) :
                  f \in MCFamilies} :
     ~(HasWhile(p) /\ ContinueLeavesTry(p))}

MCCodes == {Emit(p) : p \in MCPrograms}

\* Those without `while`.
MCForCodes   == {Emit(p) : p \in {q \in MCPrograms : ~HasWhile(q)}}

MCSize == CHOOSE n \in {f.size : f \in MCFamilies} : \A f \in MCFamilies : f.size <= n

MCSites ==
  (0..MCSize) \X
  {"none", "outputs", "act", "subject", "catch", "for", "bind", "lhs", "rhs",
   "cond", "case"} \X (0..Arms)

MCLabels == (0..MCSize) \X {"none", "head", "end", "catch", "miss"} \X (0..Arms)

\* A function without `while` loops finishes, whatever fails and wherever its
\* `for` loops are continued or left.
ForLoopsTerminate == code \in MCForCodes => Terminates
=============================================================================
