--------------------------- MODULE MCEngineParity ---------------------------
(***************************************************************************)
(* The two engines on every small program of some families.                *)
(***************************************************************************)
EXTENDS EngineParity

CONSTANTS MCFamilies,  \* sets of programs, each with its bounds
          MCParting    \* the features on which the engines part that they use

\* The programs of up to `size` statements over `kinds`, with conditions of the
\* shapes `tests`.
Family(size, unit, kinds, tests) ==
  [size |-> size, unit |-> unit, kinds |-> kinds, tests |-> tests]

\* Functions with every way to leave a block, scripts with nested try
\* statements, and choices of several arms and compound conditions.
MCSmall ==
  {Family(3, "function",
          {"act", "if", "try", "for", "while", "break", "continue", "return"},
          {"plain"}),
   Family(4, "script", {"act", "try", "while", "break", "continue"}, {"plain"}),
   Family(3, "script", {"if", "switch", "while"}, {"plain"}),
   Family(2, "script", {"act", "if", "switch", "while"}, {"and", "or"})}

\* The programs of the violation.
MCContinueInTry ==
  {Family(4, "script", {"act", "try", "while", "continue"}, {"plain"})}

MCPrograms ==
  {p \in UNION {ProgramsUpTo(f.size, f.unit, f.kinds, f.tests) :
                 f \in MCFamilies} :
     PartingFeatures(p) = MCParting}

MCCodes == {Emit(p) : p \in MCPrograms}

MCSize == CHOOSE n \in {f.size : f \in MCFamilies} : \A f \in MCFamilies : f.size <= n

MCSites ==
  (0..MCSize) \X
  {"none", "outputs", "act", "subject", "catch", "for", "bind", "lhs", "rhs",
   "cond", "case"} \X (0..Arms)

MCLabels == (0..MCSize) \X {"none", "head", "end", "catch", "miss"} \X (0..Arms)
=============================================================================
