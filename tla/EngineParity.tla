---------------------------- MODULE EngineParity ----------------------------
(***************************************************************************)
(* The two execution engines on the same program: the interpreter runs the *)
(* statement tree and leaves a trace of what it evaluated and how each     *)
(* evaluation ended; then the bytecode machine runs the emitted code and   *)
(* is given, for the evaluations it asks for, the outcomes of the trace.   *)
(***************************************************************************)
EXTENDS Interpreter, EmittedCode

VARIABLE pos     \* events of the trace the machine has been through

machineVars == <<vmVars, pos>>
vars        == <<interpVars, machineVars>>

Init ==
  /\ InterpInit
  /\ Load(Emit(prog))
  /\ pos = 0

Interpret == InterpNext /\ UNCHANGED machineVars

Interpreted == outcome # "running"

\* The machine goes through the next event of the trace.
Replay(o) ==
  /\ pos < Len(trace)
  /\ trace[pos + 1] = [site |-> code[pc].site, error |-> o.error, value |-> o.value,
                       host |-> o.host]
  /\ pos' = pos + 1

ReplayEvaluation ==
  /\ Interpreted
  /\ Fetches({"Eval", "Test", "IterStart"})
  /\ \E o \in Values(0..MaxLen) :
       /\ Replay(o)
       /\ ExecEval(o) \/ ExecTest(o) \/ ExecIterStart(o)

\* Binding the loop variable or the caught error: what is bound is up to the
\* machine.
ReplayBinding ==
  /\ Interpreted
  /\ \/ /\ ExecStoreBinding
        /\ Replay(Succeeded(temps["elem"]))
     \/ /\ ExecStoreLastError
        /\ Replay([Succeeded(0) EXCEPT !.error = lastError])

ReplaySilent ==
  /\ Interpreted
  /\ \/ ExecBinaryLogical
     \/ ExecLabel
     \/ ExecJump
     \/ ExecJumpIfFalse
     \/ ExecPushTry
     \/ ExecIterHasNext
     \/ ExecIterNext
     \/ ExecReturn
  /\ UNCHANGED pos

\* Both engines have a result, or the trace that was cut short is used up.
Over ==
  /\ Interpreted
  /\ pos = Len(trace)
  /\ result # "running" \/ outcome = "cut"

Finished == Over /\ UNCHANGED vars

Next ==
  \/ Interpret
  \/ (ReplayEvaluation \/ ReplayBinding \/ ReplaySilent) /\ UNCHANGED interpVars
  \/ Finished

Spec == Init /\ [][Next]_vars

-----------------------------------------------------------------------------

Asks == Fetches({"Eval", "Test", "IterStart", "StoreBinding", "StoreLastError"})

\* What the machine binds at the pc, when the instruction there is a binding.
Binds ==
  CASE code[pc].op = "StoreBinding"   -> Succeeded(temps["elem"])
    [] code[pc].op = "StoreLastError" -> [Succeeded(0) EXCEPT !.error = lastError]
    [] OTHER -> [Succeeded(trace[pos + 1].value) EXCEPT !.error = trace[pos + 1].error]

\* The engines agree: the machine evaluates the same things in the same order,
\* gives loop variables the same elements and catch variables the same errors,
\* and ends with the same result.
EnginesAgree ==
  Interpreted =>
    /\ Asks /\ pos < Len(trace) =>
         /\ trace[pos + 1].site = code[pc].site
         /\ trace[pos + 1].error = Binds.error
         /\ trace[pos + 1].value = Binds.value
    /\ Asks /\ pos = Len(trace) => outcome = "cut"
    /\ result # "running" => pos = Len(trace) /\ outcome \in {result, "cut"}

TypeOK == InterpTypeOK /\ pos \in 0..Len(trace)

=============================================================================
