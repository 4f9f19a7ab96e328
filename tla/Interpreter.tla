---------------------------- MODULE Interpreter ----------------------------
(***************************************************************************)
(* The tree-walking engine (execute_block and execute_statement of         *)
(* src/execution/src/lib.rs).  The Rust call stack is the path from a      *)
(* statement to the root of the tree, so the state is where control is:    *)
(*                                                                         *)
(*   "start" n     execute_statement(n) is about to begin                  *)
(*   "test"  n i   the i-th condition or matcher of n is to be evaluated   *)
(*   "rhs"   n i   the right operand of that condition is to be evaluated  *)
(*   "bind"  n     the `for` loop n is to take its next element            *)
(*   "end"   n s   execute_block has returned `flow` for block s of n:     *)
(*                 "none" is Ok(None), a keyword Ok(Some(control)) and     *)
(*                 "error" Err(error)                                      *)
(*                                                                         *)
(* Every evaluation is recorded in trace with its outcome.                 *)
(***************************************************************************)
EXTENDS Program, Evaluation

CONSTANT MaxEvents   \* bound: evaluations after which a run is cut short

ASSUME InterpreterAssumption ==
  /\ NoError \notin Errors \cup HostErrors
  /\ MaxLen \in Nat
  /\ MaxEvents \in Nat

VARIABLES prog,
          ctl,
          flow,
          error,      \* the error of flow "error"
          lhs,        \* the left operand of the condition being evaluated
          iter,       \* `for` statement -> [len, cursor]
          queue,      \* the failing figure event not yet handled, or NoError
          outcome,    \* "running", "returned", "cut" or the error returned
          trace

interpVars == <<prog, ctl, flow, error, lhs, iter, queue, outcome, trace>>

Flows == {"none", "error"} \cup Controls

At(a, n, i) == [at |-> a, node |-> n, arm |-> i]

\* An evaluation may, whatever its outcome, hear of a figure event whose
\* callback will fail with `host`.
Values(values) ==
  [error : Errors, value : {0}, host : HostErrors \cup {NoError}] \cup
  [error : {NoError}, value : values, host : HostErrors \cup {NoError}]

Succeeded(v) == [error |-> NoError, value |-> v, host |-> NoError]

Heard(o) == IF queue = NoError THEN o.host ELSE queue

\* The first statement of block s of n; an empty block is done at once.
Enter(n, s) ==
  LET b == Members(prog, n, s) IN
  IF b = {} THEN At("end", n, s) ELSE At("start", Min(b), 0)

\* Where execute_block goes after statement n: on to the next statement.
After(n) ==
  LET later == {c \in Members(prog, prog.parent[n], prog.slot[n]) : c > n} IN
  IF later = {} THEN At("end", prog.parent[n], prog.slot[n])
  ELSE At("start", Min(later), 0)

\* execute_block ends with anything but Ok(None), and goes on after it.
Leave(n, f) ==
  /\ flow' = f
  /\ ctl' = IF f = "none" THEN After(n) ELSE At("end", prog.parent[n], prog.slot[n])

\* execute_statement returns, with flow f, before it gets to its end: what is
\* pending waits for another statement.
Quit(n, f, queued) == Leave(n, f) /\ queue' = queued /\ UNCHANGED error

\* execute_statement is done with n, with flow f: unless it failed, the pending
\* figure callbacks are called, and it fails when one of them does.
Complete(n, f, queued) ==
  IF f # "error" /\ queued # NoError
    THEN Leave(n, "error") /\ error' = queued /\ queue' = NoError
    ELSE Quit(n, f, queued)

Fails(n, o) ==
  /\ o.error # NoError
  /\ error' = o.error
  /\ queue' = Heard(o)
  /\ Leave(n, "error")

\* Control moves on inside the statement.
Proceed(c, queued) == ctl' = c /\ flow' = "none" /\ queue' = queued /\ UNCHANGED error

Record(site, o) ==
  /\ outcome = "running"
  /\ Len(trace) < MaxEvents
  /\ trace' = Append(trace, [site |-> site, error |-> o.error, value |-> o.value,
                             host |-> o.host])

Silent == outcome = "running" /\ UNCHANGED trace

Starts(n, kinds) == ctl = At("start", n, 0) /\ prog.kind[n] \in kinds

-----------------------------------------------------------------------------

\* Assignment, Expression, Global, Persistent; some of the assignments of lists
\* return before the end.
DoAct(n, o) ==
  /\ Starts(n, {"act"})
  /\ Record(<<n, "act", 0>>, o)
  /\ \/ Fails(n, o)
     \/ /\ o.error = NoError
        /\ Complete(n, "none", Heard(o)) \/ Quit(n, "none", Heard(o))
  /\ UNCHANGED <<prog, lhs, iter, outcome>>

\* The first condition of If and While is next.
DoCondition(n) ==
  /\ Starts(n, {"if", "while"})
  /\ Silent
  /\ Proceed(At("test", n, 1), queue)
  /\ UNCHANGED <<prog, lhs, iter, outcome>>

DoSwitch(n, o) ==
  /\ Starts(n, {"switch"})
  /\ Record(<<n, "subject", 0>>, o)
  /\ \/ Fails(n, o)
     \/ o.error = NoError /\ Proceed(At("test", n, 1), Heard(o))
  /\ UNCHANGED <<prog, lhs, iter, outcome>>

DoTry(n) ==
  /\ Starts(n, {"try"})
  /\ Silent
  /\ Proceed(Enter(n, 1), queue)
  /\ UNCHANGED <<prog, lhs, iter, outcome>>

\* Mutant: the cursor starts after the first element.
ForFromSecond(n, o) ==
  /\ Starts(n, {"for"})
  /\ Record(<<n, "for", 0>>, o)
  /\ \/ Fails(n, o) /\ UNCHANGED iter
     \/ /\ o.error = NoError
        /\ iter' = [iter EXCEPT ![n] = [len |-> o.value, cursor |-> 1]]
        /\ Proceed(At("bind", n, 0), Heard(o))
  /\ UNCHANGED <<prog, lhs, outcome>>

\* iteration_values: the elements are taken before the first turn.
DoFor(n, o) ==
  /\ Starts(n, {"for"})
  /\ Record(<<n, "for", 0>>, o)
  /\ \/ Fails(n, o) /\ UNCHANGED iter
     \/ /\ o.error = NoError
        /\ iter' = [iter EXCEPT ![n] = [len |-> o.value, cursor |-> 0]]
        /\ Proceed(At("bind", n, 0), Heard(o))
  /\ UNCHANGED <<prog, lhs, outcome>>

DoControl(n) ==
  /\ Starts(n, Controls)
  /\ Silent
  /\ Complete(n, prog.kind[n], queue)
  /\ UNCHANGED <<prog, lhs, iter, outcome>>

\* What a condition's truth decides.
Decide(n, i, holds, queued) ==
  IF holds THEN Proceed(Enter(n, IF prog.kind[n] = "while" THEN 1 ELSE i), queued)
  ELSE IF prog.kind[n] = "while" THEN Complete(n, "none", queued)
  ELSE Proceed(IF i < Arms THEN At("test", n, i + 1) ELSE Enter(n, Arms + 1), queued)

TestSite(n, i) ==
  <<n, IF prog.kind[n] = "switch" THEN "case"
       ELSE IF prog.test[n] = "plain" THEN "cond" ELSE "lhs", i>>

\* evaluate_expression on a Binary evaluates both operands before it looks at
\* the operator, `&&` and `||` included.
EvaluateTest(n, i, o) ==
  /\ ctl = At("test", n, i)
  /\ Record(TestSite(n, i), o)
  /\ \/ Fails(n, o) /\ UNCHANGED lhs
     \/ /\ o.error = NoError
        /\ prog.test[n] = "plain"
        /\ Decide(n, i, o.value # 0, Heard(o))
        /\ UNCHANGED lhs
     \/ /\ o.error = NoError
        /\ prog.test[n] # "plain"
        /\ lhs' = o.value
        /\ Proceed(At("rhs", n, i), Heard(o))
  /\ UNCHANGED <<prog, iter, outcome>>

EvaluateRhs(n, i, o) ==
  /\ ctl = At("rhs", n, i)
  /\ Record(<<n, "rhs", i>>, o)
  /\ \/ Fails(n, o)
     \/ /\ o.error = NoError
        /\ Decide(n, i, IF prog.test[n] = "and" THEN lhs # 0 /\ o.value # 0
                        ELSE lhs # 0 \/ o.value # 0, Heard(o))
  /\ UNCHANGED <<prog, lhs, iter, outcome>>

\* The loop variable takes the next element, named by its position.
BindNext(n) ==
  /\ ctl = At("bind", n, 0)
  /\ iter[n].cursor < iter[n].len
  /\ Record(<<n, "bind", 0>>, Succeeded(iter[n].cursor + 1))
  /\ iter' = [iter EXCEPT ![n].cursor = @ + 1]
  /\ Proceed(Enter(n, 1), queue)
  /\ UNCHANGED <<prog, lhs, outcome>>

ForEnds(n) ==
  /\ ctl = At("bind", n, 0)
  /\ iter[n].cursor = iter[n].len
  /\ Silent
  /\ Complete(n, "none", queue)
  /\ UNCHANGED <<prog, lhs, iter, outcome>>

-----------------------------------------------------------------------------
(***************************************************************************)
(* What the statement that owns a block does with the block's flow.        *)
(***************************************************************************)
CatchError(n) ==
  /\ ctl = At("end", n, 1) /\ prog.kind[n] = "try" /\ flow = "error"
  /\ Record(<<n, "catch", 0>>, [Succeeded(0) EXCEPT !.error = error])
  /\ Proceed(Enter(n, 2), queue)
  /\ UNCHANGED <<prog, lhs, iter, outcome>>

\* If, Switch and the catch block hand the flow on, as a try body does that
\* did not fail.  From a branch that was chosen If and Switch return.
HandOn(n, s) ==
  /\ ctl = At("end", n, s) /\ prog.kind[n] \in Branchings \cup {"try"}
  /\ ~(prog.kind[n] = "try" /\ s = 1 /\ flow = "error")
  /\ Silent
  /\ IF prog.kind[n] \in Branchings /\ s <= Arms
       THEN Quit(n, flow, queue) ELSE Complete(n, flow, queue)
  /\ UNCHANGED <<prog, lhs, iter, outcome>>

LoopTurns(n) ==
  /\ ctl = At("end", n, 1) /\ prog.kind[n] \in Loops
  /\ flow \in {"none", "continue"}
  /\ Silent
  /\ Proceed(IF prog.kind[n] = "for" THEN At("bind", n, 0) ELSE At("test", n, 1), queue)
  /\ UNCHANGED <<prog, lhs, iter, outcome>>

LoopLeft(n) ==
  /\ ctl = At("end", n, 1) /\ prog.kind[n] \in Loops
  /\ flow \in {"break", "return", "error"}
  /\ Silent
  /\ IF flow = "break" THEN Complete(n, "none", queue) ELSE Quit(n, flow, queue)
  /\ UNCHANGED <<prog, lhs, iter, outcome>>

\* execute_script: control flow that reaches the top is an error.
ScriptEnds ==
  /\ ctl = At("end", 0, 1) /\ prog.unit = "script"
  /\ Silent
  /\ outcome' = CASE flow = "none"  -> "returned"
                  [] flow = "error" -> error
                  [] OTHER          -> "unsupported"
  /\ UNCHANGED <<prog, ctl, flow, error, lhs, iter, queue>>

\* invoke_function: whatever control flow ended the body, the outputs are read.
FunctionFails ==
  /\ ctl = At("end", 0, 1) /\ prog.unit = "function" /\ flow = "error"
  /\ Silent
  /\ outcome' = error
  /\ UNCHANGED <<prog, ctl, flow, error, lhs, iter, queue>>

ReadOutputs(o) ==
  /\ ctl = At("end", 0, 1) /\ prog.unit = "function" /\ flow # "error"
  /\ Record(<<0, "outputs", 0>>, o)
  /\ outcome' = IF o.error = NoError THEN "returned" ELSE o.error
  /\ UNCHANGED <<prog, ctl, flow, error, lhs, iter, queue>>

\* Bound: a run of MaxEvents evaluations is looked at no further.
Cut ==
  /\ outcome = "running"
  /\ Len(trace) = MaxEvents
  /\ outcome' = "cut"
  /\ UNCHANGED <<prog, ctl, flow, error, lhs, iter, queue, trace>>

InterpNext ==
  \/ \E n \in Stmts(prog) :
       \/ \E o \in Values({0}) : DoAct(n, o) \/ DoSwitch(n, o)
       \/ \E o \in Values(0..MaxLen) : DoFor(n, o)
       \/ \E o \in Values({0, 1}), i \in 1..Arms :
            EvaluateTest(n, i, o) \/ EvaluateRhs(n, i, o)
       \/ DoCondition(n)
       \/ DoTry(n)
       \/ DoControl(n)
       \/ BindNext(n)
       \/ ForEnds(n)
       \/ CatchError(n)
       \/ \E s \in Slots(prog.kind[n]) : HandOn(n, s)
       \/ LoopTurns(n)
       \/ LoopLeft(n)
  \/ ScriptEnds
  \/ FunctionFails
  \/ \E e \in Errors \cup {NoError} : ReadOutputs([Succeeded(0) EXCEPT !.error = e])
  \/ Cut

InterpInit ==
  /\ prog \in Programs
  /\ ctl = Enter(0, 1)
  /\ flow = "none"
  /\ error = NoError
  /\ lhs = 0
  /\ iter = [n \in Stmts(prog) |-> [len |-> 0, cursor |-> 0]]
  /\ queue = NoError
  /\ outcome = "running"
  /\ trace = << >>

\* Every place of p where control may be: only a choice or a `while` has
\* conditions, only a `for` takes elements, and a block that has ended is one
\* that its statement has.
Places(p) ==
  {At("start", n, 0) : n \in Stmts(p)} \cup
  {At(a, n, i) : a \in {"test", "rhs"}, i \in 1..Arms,
                 n \in {m \in Stmts(p) : p.kind[m] \in {"if", "switch", "while"}}} \cup
  {At("bind", n, 0) : n \in {m \in Stmts(p) : p.kind[m] = "for"}} \cup
  {At("end", 0, 1)} \cup
  UNION {{At("end", n, s) : s \in Slots(p.kind[n])} : n \in Stmts(p)}

Cursors == {c \in [len : 0..MaxLen, cursor : 0..MaxLen] : c.cursor <= c.len}

\* What a trace records, and at which places of p.
Events(p) ==
  [site  : (0..Len(p.kind)) \X
           {"act", "subject", "for", "case", "cond", "lhs", "rhs", "bind", "catch",
            "outputs"} \X (0..Arms),
   error : Errors \cup HostErrors \cup {NoError},
   value : Nat,
   host  : HostErrors \cup {NoError}]

\* Control is at a place of the program, and a flow that is an error carries one.
FlowOK ==
  /\ ctl \in Places(prog)
  /\ flow \in Flows
  /\ error \in Errors \cup HostErrors \cup {NoError}
  /\ queue \in HostErrors \cup {NoError}
  /\ flow = "error" => error # NoError

InterpTypeOK ==
  /\ IsTree(prog)
  /\ FlowOK
  /\ lhs \in 0..1
  /\ iter \in [Stmts(prog) -> Cursors]
  /\ outcome \in {"running", "returned", "cut", "unsupported"} \cup Errors \cup HostErrors
  /\ trace \in Seq(Events(prog))
  /\ Len(trace) <= MaxEvents

=============================================================================
