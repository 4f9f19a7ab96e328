---------------------------- MODULE EmittedCode ----------------------------
(***************************************************************************)
(* The machine on the code that the emitter makes: what holds of the code  *)
(* the machine is given, because of what it was made from.                 *)
(***************************************************************************)
EXTENDS Codegen, BytecodeVM

ASSUME EmittedAssumption == Codes = {Emit(p) : p \in Programs}

\* The code of the trees in which no `continue` leaves a try body.
CleanCodes == {Emit(p) : p \in {q \in Programs : ~ContinueLeavesTry(q)}}

\* lower_try nests try bodies and no jump but a `continue` breaks the shape;
\* none breaks that of loops over elements and of catch blocks.  The code never
\* changes, so it is looked at where every function starts.
EmittedCodeIsDisciplined ==
  pc = 1 => Guarded(code) /\ (code \in CleanCodes => Disciplined(code))

=============================================================================
