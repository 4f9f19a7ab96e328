----------------------------- MODULE BytecodeVM -----------------------------
(***************************************************************************)
(* execute_function_body (src/execution/src/bytecode.rs): one function or  *)
(* script entry, run instruction by instruction.                           *)
(*                                                                         *)
(* What an expression computes is data: Eval, Test and IterStart take an   *)
(* outcome, an error or a value (a truth value for Test, the number of     *)
(* elements of the iterable for IterStart).  A step is the execution of    *)
(* one instruction, what follows it when it succeeds (the callbacks of the *)
(* host's figure events are called, and their error ends the function), and *)
(* then the top of the next turn of the loop, which drops the handlers that *)
(* no longer apply.  Positions count from 1.                               *)
(*                                                                         *)
(* There is no instruction that pops a handler: PushTry pushes the         *)
(* position of the catch label, and a handler is dropped once the pc has   *)
(* reached or passed that label.  What the handler stack holds at a given  *)
(* pc is therefore the question this module is about.                      *)
(***************************************************************************)
EXTENDS Evaluation, Sequences

CONSTANTS Codes,     \* instruction sequences the machine may be given
          Sites,     \* names of what instructions evaluate
          Labels,
          Internal   \* the error of a malformed function

Ops   == {"Eval", "Test", "and", "or", "Label", "Jump", "JumpIfFalse", "PushTry",
          "StoreLastError", "IterStart", "IterHasNext", "IterNext",
          "StoreBinding", "Return"}
Jumps == {"Jump", "JumpIfFalse"}
Temps == {"none", "lhs", "rhs", "cond", "elem"}

Instructions == [op : Ops, site : Sites, dst : Temps, target : Labels]

AllErrors  == Errors \cup HostErrors \cup {Internal}
HostEvents == HostErrors \cup {NoError}

\* label_map
LabelPos(c, l) ==
  CHOOSE i \in DOMAIN c : c[i].op = "Label" /\ c[i].target = l

\* verify_function: no label is defined twice, every target is defined, and
\* there is a return.
Verified(c) ==
  /\ \A i, j \in DOMAIN c :
        /\ c[i].op = "Label"
        /\ c[j].op = "Label"
        /\ c[i].target = c[j].target
        => i = j
  /\ \A i \in DOMAIN c : c[i].op \in Jumps \cup {"PushTry"} =>
        \E j \in DOMAIN c : c[j].op = "Label" /\ c[j].target = c[i].target
  /\ \E i \in DOMAIN c : c[i].op = "Return"

ASSUME CodesAssumption ==
  /\ \A c \in Codes : c \in Seq(Instructions) /\ c # << >> /\ Verified(c)
  /\ MaxLen \in Nat \ {0}
  /\ NoError \notin AllErrors
  /\ Internal \notin Errors \cup HostErrors
  /\ {"running", "returned"} \cap AllErrors = {}

\* An evaluation may, whatever its outcome, hear of a figure event whose
\* callback will fail with `host`.
Outcomes(values) ==
  [error : Errors, value : {0}, host : HostEvents] \cup
  [error : {NoError}, value : values, host : HostEvents]

VARIABLES code,       \* function.instructions
          pc,
          tryStack,   \* positions of catch labels, innermost last
          lastError,
          temps,
          iters,      \* iterator temp -> [len, cursor], for those started
          pending,    \* the failing figure event not yet handled, or NoError
          result      \* "running", "returned", or the error returned

vmVars == <<code, pc, tryStack, lastError, temps, iters, pending, result>>

Iterators == [len : 0..MaxLen, cursor : 0..MaxLen]

VMTypeOK ==
  /\ code \in Seq(Instructions)
  /\ pc \in 1..(Len(code) + 1)
  /\ tryStack \in Seq(1..Len(code))
  /\ lastError \in AllErrors \cup {NoError}
  /\ temps \in [Temps -> 0..MaxLen]
  /\ DOMAIN iters \subseteq Sites
  /\ iters \in [DOMAIN iters -> Iterators]
  /\ pending \in HostEvents
  /\ result \in {"running", "returned"} \cup AllErrors

-----------------------------------------------------------------------------

\* Mutant: nothing is popped.
PruneNothing(stack, at) == stack

\* Pops from the top while the pc has reached the handler's label.
Prune(stack, at) ==
  LET live == {i \in DOMAIN stack : at < stack[i]}
      kept == IF live = {} THEN 0 ELSE CHOOSE i \in live : \A j \in live : j <= i
  IN  SubSeq(stack, 1, kept)

\* Mutant: the queue is cleared before the error is read from it.
DrainClearedFirst(queued, final) ==
  /\ pending' = NoError
  /\ result' = IF queued = NoError THEN final ELSE NoError

\* drain_pending_host_figure_events, `queued` being what is pending by then:
\* its error goes to the caller past every handler.
Drain(queued, final) ==
  /\ pending' = NoError
  /\ result' = IF queued = NoError THEN final ELSE queued

GoTo(at, queued) ==
  /\ pc' = at
  /\ tryStack' = Prune(tryStack, at)
  /\ Drain(queued, "running")
  /\ UNCHANGED <<code, lastError>>

Advance(queued) == GoTo(pc + 1, queued)

\* Mutant: the first error caught stays the last error.
RaiseKeepingFirst(e, queued) ==
  /\ IF tryStack = << >>
       THEN result' = e /\ UNCHANGED <<pc, tryStack, lastError>>
       ELSE LET catch == tryStack[Len(tryStack)] IN
            /\ lastError' = IF lastError = NoError THEN e ELSE lastError
            /\ pc' = catch
            /\ tryStack' = Prune(SubSeq(tryStack, 1, Len(tryStack) - 1), catch)
            /\ UNCHANGED result
  /\ pending' = queued
  /\ UNCHANGED <<code, temps, iters>>

\* The innermost handler takes the error; without one the function returns it.
Raise(e, queued) ==
  /\ IF tryStack = << >>
       THEN /\ result' = e
            /\ UNCHANGED <<pc, tryStack, lastError>>
       ELSE LET catch == tryStack[Len(tryStack)] IN
            /\ lastError' = e
            /\ pc' = catch
            /\ tryStack' = Prune(SubSeq(tryStack, 1, Len(tryStack) - 1), catch)
            /\ UNCHANGED result
  /\ pending' = queued
  /\ UNCHANGED <<code, temps, iters>>

\* The instruction fetched is one of `ops`.
Fetches(ops) ==
  /\ result = "running"
  /\ pc \in DOMAIN code
  /\ code[pc].op \in ops

Queued(o) == IF pending = NoError THEN o.host ELSE pending

SetTemp(dst, v) == temps' = [temps EXCEPT ![dst] = v]

-----------------------------------------------------------------------------

ExecEval(o) ==
  /\ Fetches({"Eval"})
  /\ \/ /\ o.error # NoError
        /\ Raise(o.error, Queued(o))
     \/ /\ o.error = NoError
        /\ Advance(Queued(o))
        /\ UNCHANGED <<temps, iters>>

ExecTest(o) ==
  /\ Fetches({"Test"})
  /\ \/ /\ o.error # NoError
        /\ Raise(o.error, Queued(o))
     \/ /\ o.error = NoError
        /\ SetTemp(code[pc].dst, o.value)
        /\ Advance(Queued(o))
        /\ UNCHANGED iters

\* Binary "ShortCircuitAnd"/"ShortCircuitOr" on two operands both evaluated.
ExecBinaryLogical ==
  /\ Fetches({"and", "or"})
  /\ SetTemp(code[pc].dst,
       IF \/ code[pc].op = "and" /\ temps["lhs"] # 0 /\ temps["rhs"] # 0
          \/ code[pc].op = "or" /\ (temps["lhs"] # 0 \/ temps["rhs"] # 0)
       THEN 1 ELSE 0)
  /\ Advance(pending)
  /\ UNCHANGED iters

ExecLabel ==
  /\ Fetches({"Label"})
  /\ Advance(pending)
  /\ UNCHANGED <<temps, iters>>

ExecJump ==
  /\ Fetches({"Jump"})
  /\ GoTo(LabelPos(code, code[pc].target), pending)
  /\ UNCHANGED <<temps, iters>>

ExecJumpIfFalse ==
  /\ Fetches({"JumpIfFalse"})
  /\ IF temps[code[pc].dst] = 0
       THEN GoTo(LabelPos(code, code[pc].target), pending)
       ELSE Advance(pending)
  /\ UNCHANGED <<temps, iters>>

\* Mutant: the handler replaces the one of the try body around it.
PushTryReplacing ==
  /\ Fetches({"PushTry"})
  /\ pc' = pc + 1
  /\ tryStack' = << LabelPos(code, code[pc].target) >>
  /\ Drain(pending, "running")
  /\ UNCHANGED <<code, lastError, temps, iters>>

ExecPushTry ==
  /\ Fetches({"PushTry"})
  /\ pc' = pc + 1
  /\ tryStack' = Prune(Append(tryStack, LabelPos(code, code[pc].target)), pc + 1)
  /\ Drain(pending, "running")
  /\ UNCHANGED <<code, lastError, temps, iters>>

\* Binds the catch variable to the error caught.
ExecStoreLastError ==
  /\ Fetches({"StoreLastError"})
  /\ IF lastError = NoError THEN Raise(Internal, pending)
     ELSE Advance(pending) /\ UNCHANGED <<temps, iters>>

\* A snapshot of the elements, with the cursor before the first.
ExecIterStart(o) ==
  /\ Fetches({"IterStart"})
  /\ \/ /\ o.error # NoError
        /\ Raise(o.error, Queued(o))
     \/ /\ o.error = NoError
        /\ LET it == code[pc].site IN
           iters' = [x \in DOMAIN iters \cup {it} |->
                       IF x = it THEN [len |-> o.value, cursor |-> 0] ELSE iters[x]]
        /\ Advance(Queued(o))
        /\ UNCHANGED temps

\* Mutant: there is a next element when the cursor is at the end.
IterHasNextAtEnd ==
  /\ Fetches({"IterHasNext"})
  /\ LET it == iters[code[pc].site] IN
     SetTemp(code[pc].dst, IF it.cursor <= it.len THEN 1 ELSE 0)
  /\ Advance(pending)
  /\ UNCHANGED iters

ExecIterHasNext ==
  /\ Fetches({"IterHasNext"})
  /\ IF code[pc].site \notin DOMAIN iters THEN Raise(Internal, pending)
     ELSE LET it == iters[code[pc].site] IN
          /\ SetTemp(code[pc].dst, IF it.cursor < it.len THEN 1 ELSE 0)
          /\ Advance(pending)
          /\ UNCHANGED iters

\* The element is named by its position.
ExecIterNext ==
  /\ Fetches({"IterNext"})
  /\ LET it == code[pc].site IN
     IF it \notin DOMAIN iters THEN Raise(Internal, pending)
     ELSE IF iters[it].cursor >= iters[it].len THEN Raise(Internal, pending)
     ELSE /\ iters' = [iters EXCEPT ![it].cursor = @ + 1]
          /\ SetTemp(code[pc].dst, iters[it].cursor + 1)
          /\ Advance(pending)

ExecStoreBinding ==
  /\ Fetches({"StoreBinding"})
  /\ Advance(pending)
  /\ UNCHANGED <<temps, iters>>

\* Running off the end of the instructions returns no values and drains nothing.
ExecReturn ==
  /\ result = "running"
  /\ pc \in DOMAIN code => code[pc].op = "Return"
  /\ IF pc \in DOMAIN code THEN Drain(pending, "returned")
     ELSE result' = "returned" /\ UNCHANGED pending
  /\ UNCHANGED <<code, pc, tryStack, lastError, temps, iters>>

VMFinished == result # "running" /\ UNCHANGED vmVars

VMNext ==
  \/ \E o \in Outcomes({0}) : ExecEval(o)
  \/ \E o \in Outcomes({0, 1}) : ExecTest(o)
  \/ \E o \in Outcomes(0..MaxLen) : ExecIterStart(o)
  \/ ExecBinaryLogical
  \/ ExecLabel
  \/ ExecJump
  \/ ExecJumpIfFalse
  \/ ExecPushTry
  \/ ExecStoreLastError
  \/ ExecIterHasNext
  \/ ExecIterNext
  \/ ExecStoreBinding
  \/ ExecReturn
  \/ VMFinished

Load(c) ==
  /\ code = c
  /\ pc = 1
  /\ tryStack = << >>
  /\ lastError = NoError
  /\ temps = [t \in Temps |-> 0]
  /\ iters = [x \in {} |-> [len |-> 0, cursor |-> 0]]
  /\ pending = NoError
  /\ result = "running"

VMInit == \E c \in Codes : Load(c)

VMSpec == VMInit /\ [][VMNext]_vmVars

\* The loop of execute_function_body runs until it has a result.
VMFairSpec == VMSpec /\ WF_vmVars(VMNext)

-----------------------------------------------------------------------------
(***************************************************************************)
(* Which catch blocks protect a position.  The body of the try that PushTry *)
(* at p opens is what lies between p and its catch label.                  *)
(***************************************************************************)
TryPositions(c) == {p \in DOMAIN c : c[p].op = "PushTry"}

CatchPos(c, p) == LabelPos(c, c[p].target)

Inside(c, p, at) == p < at /\ at < CatchPos(c, p)

Protecting(c, at) ==
  {CatchPos(c, p) : p \in {q \in TryPositions(c) : Inside(c, q, at)}}

(***************************************************************************)
(* The shape lower_try gives code: try bodies nest, each has its own catch *)
(* label after it, no jump enters a try body and none leaves it backwards. *)
(* The last is what `continue` in a try body breaks.                       *)
(***************************************************************************)
Disciplined(c) ==
  /\ \A p \in TryPositions(c) : p < CatchPos(c, p)
  /\ \A p, q \in TryPositions(c) :
        p < q /\ q < CatchPos(c, p) => CatchPos(c, q) < CatchPos(c, p)
  /\ \A i \in DOMAIN c : c[i].op \in Jumps =>
        \A p \in TryPositions(c) :
          LET to == LabelPos(c, c[i].target) IN
          /\ Inside(c, p, to) => Inside(c, p, i)
          /\ Inside(c, p, i) => p < to

(***************************************************************************)
(* The shape lower_for and lower_try give code.  A use of an iterator lies *)
(* behind its start, in a stretch nothing enters from elsewhere; an element *)
(* is taken right after a test that found one; and a catch block is entered *)
(* neither by a jump nor from the try body before it.                      *)
(***************************************************************************)
Sealed(c, s, e) ==
  \A i \in DOMAIN c :
    /\ c[i].op \in Jumps =>
         (LabelPos(c, c[i].target) \in s+1 .. e => i \in s+1 .. e)
    /\ c[i].op = "PushTry" => (CatchPos(c, i) \in s+1 .. e => i \in s+1 .. e)

Guarded(c) ==
  /\ \A u \in DOMAIN c : c[u].op = "IterHasNext" =>
        \E s, e \in DOMAIN c :
          /\ c[s].op = "IterStart" /\ c[s].site = c[u].site
          /\ s < u /\ u <= e
          /\ Sealed(c, s, e)
  /\ \A n \in DOMAIN c : c[n].op = "IterNext" =>
        /\ n > 2
        /\ c[n-2].op = "IterHasNext" /\ c[n-2].site = c[n].site
        /\ c[n-1].op = "JumpIfFalse" /\ c[n-1].dst = c[n-2].dst
  /\ \A s \in DOMAIN c : c[s].op = "StoreLastError" =>
        /\ s > 2
        /\ c[s-1].op = "Label" /\ c[s-2].op = "Jump"
        /\ \A i \in DOMAIN c :
             c[i].op \in Jumps => LabelPos(c, c[i].target) # s - 1

Elements(stack)   == {stack[i] : i \in DOMAIN stack}
Descending(stack) == \A i, j \in DOMAIN stack : i < j => stack[j] < stack[i]

\* The handler stack holds exactly the catch labels of the try bodies around
\* the pc, the innermost last: lazily dropping handlers by position, with no
\* pop instruction, never leaves a stale handler and never loses a live one.
HandlersMatch ==
  Disciplined(code) /\ result = "running" =>
    Elements(tryStack) = Protecting(code, pc) /\ Descending(tryStack)

\* The machine never finds emitted code malformed: every iterator is started
\* before it is asked, is asked for a next element only when it has one, and
\* every catch block runs with an error to bind.
NoInternalError == Internal \notin {lastError, result}

\* An error of the function's own code leaves it only from outside every try
\* body.  That of a figure callback is not held back by any try.
ErrorsEscapeOnlyUnprotected ==
  [][Disciplined(code) /\ result' \in AllErrors \ HostErrors
       => Protecting(code, pc) = {}]_vmVars

\* A function without `while` loops finishes, whatever fails and wherever its
\* `for` loops are continued or left.
Terminates == <>(result # "running")

=============================================================================
