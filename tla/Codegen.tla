------------------------------ MODULE Codegen ------------------------------
(***************************************************************************)
(* The bytecode emitter (src/codegen/src/lib.rs): FunctionEmitter lowers a *)
(* statement tree to a flat instruction sequence, and verify_function      *)
(* checks the result.                                                      *)
(*                                                                         *)
(* A label or a temp that new_label/new_temp hands out is a name made of   *)
(* the statement that asks for it: the counters only make names unique.    *)
(* The straight-line instructions of one expression or assignment are one  *)
(* instruction, Eval, or Test when the value is a condition; `site` names  *)
(* what is evaluated, so that the two engines can be compared.             *)
(***************************************************************************)
EXTENDS Program

NoLabel == <<0, "none", 0>>
NoSite  == <<0, "none", 0>>

Instr(op, site, dst, target) ==
  [op |-> op, site |-> site, dst |-> dst, target |-> target]

Eval(site)          == Instr("Eval", site, "none", NoLabel)
Test(site, dst)     == Instr("Test", site, dst, NoLabel)
BinaryLogical(test) == Instr(test, NoSite, "cond", NoLabel)
Label(l)            == Instr("Label", NoSite, "none", l)
Jump(l)             == Instr("Jump", NoSite, "none", l)
JumpIfFalse(l)      == Instr("JumpIfFalse", NoSite, "cond", l)
PushTry(l)          == Instr("PushTry", NoSite, "none", l)
StoreLastError(site) == Instr("StoreLastError", site, "none", NoLabel)
IterStart(site)     == Instr("IterStart", site, "none", NoLabel)
IterHasNext(site)   == Instr("IterHasNext", site, "cond", NoLabel)
IterNext(site)      == Instr("IterNext", site, "elem", NoLabel)
StoreBinding(site)  == Instr("StoreBinding", site, "none", NoLabel)
Return              == Instr("Return", NoSite, "none", NoLabel)

HeadLabel(n)    == <<n, "head", 0>>
End(n)     == <<n, "end", 0>>
Catch(n)   == <<n, "catch", 0>>
Miss(n, i) == <<n, "miss", i>>

\* Both operands of `&&` and `||` are lowered before the operator.
LowerCondition(p, n, i) ==
  IF p.test[n] = "plain"
    THEN << Test(<<n, "cond", i>>, "cond") >>
    ELSE << Test(<<n, "lhs", i>>, "lhs"), Test(<<n, "rhs", i>>, "rhs"),
            BinaryLogical(p.test[n]) >>

\* A script has no outputs to load.
EmitReturnFromOutputs(p) ==
  (IF p.unit = "function" THEN << Eval(<<0, "outputs", 0>>) >> ELSE << >>)
    \o << Return >>

\* body[s] is the code of block s of the statement lowered.

\* Mutant: a branch taken runs on into the next condition.
LowerIfFallingThrough(p, n, body) ==
  FlattenSeq([i \in 1..Arms |->
      LowerCondition(p, n, i) \o << JumpIfFalse(Miss(n, i)) >> \o body[i]
        \o << Label(Miss(n, i)) >>])
  \o body[Arms + 1] \o << Label(End(n)) >>

LowerIf(p, n, body) ==
  FlattenSeq([i \in 1..Arms |->
      LowerCondition(p, n, i) \o << JumpIfFalse(Miss(n, i)) >> \o body[i]
        \o << Jump(End(n)), Label(Miss(n, i)) >>])
  \o body[Arms + 1] \o << Label(End(n)) >>

\* Mutant: a case that does not match leaves the switch.
LowerSwitchLeaving(p, n, body) ==
  << Eval(<<n, "subject", 0>>) >> \o
  FlattenSeq([i \in 1..Arms |->
      << Test(<<n, "case", i>>, "cond"), JumpIfFalse(End(n)) >> \o body[i]
        \o << Jump(End(n)), Label(Miss(n, i)) >>])
  \o body[Arms + 1] \o << Label(End(n)) >>

\* The comparison of the subject with a matcher is part of the matcher's Test.
LowerSwitch(p, n, body) ==
  << Eval(<<n, "subject", 0>>) >> \o
  FlattenSeq([i \in 1..Arms |->
      << Test(<<n, "case", i>>, "cond"), JumpIfFalse(Miss(n, i)) >> \o body[i]
        \o << Jump(End(n)), Label(Miss(n, i)) >>])
  \o body[Arms + 1] \o << Label(End(n)) >>

LowerTry(n, body) ==
  << PushTry(Catch(n)) >> \o body[1]
    \o << Jump(End(n)), Label(Catch(n)), StoreLastError(<<n, "catch", 0>>) >>
    \o body[2] \o << Label(End(n)) >>

\* Mutant: the iterator is started again on every turn.
LowerForRestarting(n, body) ==
  << Label(HeadLabel(n)), IterStart(<<n, "for", 0>>), IterHasNext(<<n, "for", 0>>),
     JumpIfFalse(End(n)), IterNext(<<n, "for", 0>>),
     StoreBinding(<<n, "bind", 0>>) >>
    \o body[1] \o << Jump(HeadLabel(n)), Label(End(n)) >>

LowerFor(n, body) ==
  << IterStart(<<n, "for", 0>>), Label(HeadLabel(n)), IterHasNext(<<n, "for", 0>>),
     JumpIfFalse(End(n)), IterNext(<<n, "for", 0>>),
     StoreBinding(<<n, "bind", 0>>) >>
    \o body[1] \o << Jump(HeadLabel(n)), Label(End(n)) >>

LowerWhile(p, n, body) ==
  << Label(HeadLabel(n)) >> \o LowerCondition(p, n, 1) \o << JumpIfFalse(End(n)) >>
    \o body[1] \o << Jump(HeadLabel(n)), Label(End(n)) >>

\* Mutant: `break` jumps where `continue` does.
LowerLoopControlSwapped(p, n) ==
  LET loop == LoopOf(p, n) IN
  IF loop = 0 THEN << >> ELSE << Jump(HeadLabel(loop)) >>

\* break_labels and continue_labels end with the labels of the innermost loop;
\* with both stacks empty nothing is emitted.
LowerLoopControl(p, n) ==
  LET loop == LoopOf(p, n) IN
  IF loop = 0 THEN << >>
  ELSE IF p.kind[n] = "break" THEN << Jump(End(loop)) >>
  ELSE << Jump(HeadLabel(loop)) >>

\* The code of statement n, given that of its blocks.
Lower(p, n, body) ==
  CASE p.kind[n] = "act"    -> << Eval(<<n, "act", 0>>) >>
    [] p.kind[n] = "if"     -> LowerIf(p, n, body)
    [] p.kind[n] = "switch" -> LowerSwitch(p, n, body)
    [] p.kind[n] = "try"    -> LowerTry(n, body)
    [] p.kind[n] = "for"    -> LowerFor(n, body)
    [] p.kind[n] = "while"  -> LowerWhile(p, n, body)
    [] p.kind[n] = "return" -> EmitReturnFromOutputs(p)
    [] OTHER                -> LowerLoopControl(p, n)

\* The code of the statements of block s of n, in source order.
LowerBlock(p, n, s, lower) ==
  FlattenSeq([c \in Stmts(p) |-> IF c \in Members(p, n, s) THEN lower[c] ELSE << >>])

LowerStatement(p) ==
  LET lower[n \in Stmts(p)] ==
        Lower(p, n, [s \in Slots(p.kind[n]) |-> LowerBlock(p, n, s, lower)])
  IN  lower

\* emit_script_entry and emit_named_function.
Emit(p) == LowerBlock(p, 0, 1, LowerStatement(p)) \o EmitReturnFromOutputs(p)

=============================================================================
