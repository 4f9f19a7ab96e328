-------------------------- MODULE BytecodeVMProofs --------------------------
(***************************************************************************)
(* What holds of the bytecode machine for every code, proved.              *)
(*                                                                         *)
(*   TypeCorrect          the type invariant                               *)
(*   HandlersAlwaysMatch  the handler stack is the try bodies around pc    *)
(*   ErrorsAreCaught      an error escapes only from outside every try     *)
(*   NeverMalformed       the error of a malformed function is not raised  *)
(*                                                                         *)
(* These say nothing of where the code comes from (EmittedAssumption is    *)
(* cited by none of them).  Then what holds of the code that the emitter   *)
(* makes of any statement tree, and so of the machine on it:               *)
(*                                                                         *)
(*   EmittedCodeVerifies         the verifier accepts it                   *)
(*   EmittedCodeIsShaped         it is guarded, and disciplined but for    *)
(*                               a `continue` that leaves a try body       *)
(*   EmittedCodeStaysDisciplined the invariant that says so                *)
(*   EmittedCodeNeverMalformed   no emitted code is found malformed        *)
(*   EmittedHandlersMatch        HandlersAlwaysMatch without its premise   *)
(*   EmittedErrorsAreCaught      ErrorsAreCaught without its premise       *)
(***************************************************************************)
EXTENDS EmittedCode, SequenceTheorems, WellFoundedInduction, TLAPS

\* A nonempty set of numbers below a bound has a greatest element.
LEMMA GreatestElement ==
  ASSUME NEW n \in Nat, NEW T, T \subseteq 1..n, T # {}
  PROVE  \E x \in T : \A y \in T : y <= x
<1> DEFINE R == OpToRel(<, Nat)
           U == {u \in Nat : n - u \in T}
<1>0. \A x \in T : x \in Nat /\ x <= n /\ n - x \in Nat /\ n - (n - x) = x
  OBVIOUS
<1>1. U \subseteq Nat
  OBVIOUS
<1>1a. U # {}
  <2>1. PICK x \in T : TRUE
    OBVIOUS
  <2>2. n - x \in U
    BY <1>0
  <2>3. QED
    BY <2>2
<1>2. \E u \in U : \A v \in U : <<v, u>> \notin R
  <2> HIDE DEF U, R
  <2>1. IsWellFoundedOn(R, Nat)
    BY NatLessThanWellFounded DEF R
  <2>2. QED
    BY <1>1, <1>1a, <2>1, WFMin
<1>3. PICK u \in U : \A v \in U : <<v, u>> \notin R
  BY <1>2
<1>4. \A v \in U : ~ (v < u)
  BY <1>3 DEF OpToRel
<1>5. n - u \in T
  OBVIOUS
<1>6. ASSUME NEW y \in T PROVE y <= n - u
  <2>1. n - y \in U
    BY <1>0
  <2>2. ~ (n - y < u)
    BY <1>4, <2>1
  <2>3. QED
    BY <2>2, <1>0
<1>7. QED
  BY <1>5, <1>6

\* Prune keeps a prefix of the stack: up to the topmost handler still ahead.
LEMMA PruneKeepsPrefix ==
  ASSUME NEW n \in Nat, NEW stack \in Seq(1..n), NEW at \in Nat
  PROVE  \E k \in 0..Len(stack) :
           /\ Prune(stack, at) = SubSeq(stack, 1, k)
           /\ k # 0 => at < stack[k]
           /\ \A j \in DOMAIN stack : k < j => stack[j] <= at
<1> DEFINE live == {i \in DOMAIN stack : at < stack[i]}
           kept == IF live = {} THEN 0 ELSE CHOOSE i \in live : \A j \in live : j <= i
<1>1. Prune(stack, at) = SubSeq(stack, 1, kept)
  BY DEF Prune
<1>2. CASE live = {}
  <2>1. \A j \in DOMAIN stack : stack[j] <= at
    BY <1>2
  <2>2. kept = 0
    BY <1>2
  <2>3. QED
    BY <1>1, <2>1, <2>2
<1>3. CASE live # {}
  <2>1. live \subseteq 1..Len(stack)
    OBVIOUS
  <2>2. \E i \in live : \A j \in live : j <= i
    <3>1. Len(stack) \in Nat
      OBVIOUS
    <3> HIDE DEF live
    <3>2. QED
      BY <1>3, <2>1, <3>1, GreatestElement
  <2>3. kept \in live /\ \A j \in live : j <= kept
    BY <1>3, <2>2
  <2>4. kept \in 0..Len(stack) /\ at < stack[kept]
    BY <2>1, <2>3
  <2>5. ASSUME NEW j \in DOMAIN stack, kept < j
        PROVE  stack[j] <= at
    <3>1. kept \in Nat /\ j \in Nat
      <4> HIDE DEF kept
      <4>1. QED
        BY <2>4, <2>5
    <3>2. j \notin live
      <4> HIDE DEF live, kept
      <4>1. QED
        BY <2>3, <2>5, <3>1
    <3>3. stack[j] \in Nat /\ ~ (at < stack[j])
      BY <3>2
    <3>4. QED
      BY <3>3
  <2>6. QED
    BY <1>1, <2>4, <2>5
<1>4. QED
  BY <1>2, <1>3

LEMMA PruneType ==
  ASSUME NEW n \in Nat, NEW stack \in Seq(1..n), NEW at \in Nat
  PROVE  Prune(stack, at) \in Seq(1..n)
<1>1. PICK k \in 0..Len(stack) : Prune(stack, at) = SubSeq(stack, 1, k)
  BY PruneKeepsPrefix
<1>2. QED
  BY <1>1

-----------------------------------------------------------------------------

\* The position of a label that is a target is a position of the code.
LEMMA TargetsExist ==
  ASSUME NEW c \in Codes, NEW i \in DOMAIN c,
         c[i].op \in Jumps \cup {"PushTry"}
  PROVE  LabelPos(c, c[i].target) \in 1..Len(c)
<1>1. \E j \in DOMAIN c : c[j].op = "Label" /\ c[j].target = c[i].target
  BY CodesAssumption DEF Verified
<1>2. LabelPos(c, c[i].target) \in DOMAIN c
  BY <1>1 DEF LabelPos
<1>3. QED
  BY <1>2, CodesAssumption

\* The type invariant, and that the code is one of those given.
Typed == VMTypeOK /\ code \in Codes

\* Moving to a position of the code or just past it keeps the machine typed.
LEMMA GoToTyped ==
  ASSUME Typed, NEW at \in 1..(Len(code) + 1), NEW q \in HostEvents, GoTo(at, q)
  PROVE  /\ code' = code
         /\ pc' \in 1..(Len(code') + 1)
         /\ tryStack' \in Seq(1..Len(code'))
         /\ lastError' = lastError
         /\ pending' \in HostEvents
         /\ result' \in {"running"} \cup AllErrors
<1>1. Len(code) \in Nat /\ tryStack \in Seq(1..Len(code))
  BY DEF Typed, VMTypeOK
<1>2. Prune(tryStack, at) \in Seq(1..Len(code))
  BY <1>1, PruneType
<1>3. QED
  BY <1>2 DEF GoTo, Drain, HostEvents, AllErrors

LEMMA RaiseTyped ==
  ASSUME Typed, NEW e \in AllErrors, NEW q \in HostEvents, Raise(e, q)
  PROVE  Typed'
<1>1. Len(code) \in Nat /\ tryStack \in Seq(1..Len(code))
  BY DEF Typed, VMTypeOK
<1>2. CASE tryStack = << >>
  BY <1>2 DEF Raise, Typed, VMTypeOK
<1>3. CASE tryStack # << >>
  <2> DEFINE catch == tryStack[Len(tryStack)]
             rest  == SubSeq(tryStack, 1, Len(tryStack) - 1)
  <2>1. catch \in 1..Len(code) /\ rest \in Seq(1..Len(code))
    BY <1>1, <1>3
  <2>2. Prune(rest, catch) \in Seq(1..Len(code))
    <3> HIDE DEF catch, rest
    <3>1. catch \in Nat
      BY <2>1, <1>1
    <3>2. QED
      BY <1>1, <2>1, <3>1, PruneType
  <2>3. /\ lastError' = e /\ pc' = catch /\ tryStack' = Prune(rest, catch)
        /\ pending' = q /\ UNCHANGED <<code, temps, iters, result>>
    BY <1>3 DEF Raise
  <2>4. QED
    BY <2>1, <2>2, <2>3 DEF Typed, VMTypeOK
<1>4. QED
  BY <1>2, <1>3

\* The type invariant is inductive: jumps land in the code because
\* verify_function found their labels, and cursors stay within the iterable.
LEMMA TypedStep == Typed /\ [VMNext]_vmVars => Typed'
<1> SUFFICES ASSUME Typed, [VMNext]_vmVars
             PROVE  Typed'
  OBVIOUS
<1> USE CodesAssumption
<1>0. /\ Len(code) \in Nat /\ pc \in 1..(Len(code) + 1)
      /\ code \in Codes /\ code \in Seq(Instructions) /\ DOMAIN code = 1..Len(code)
  BY DEF Typed, VMTypeOK
<1>a. ASSUME NEW i \in DOMAIN code
      PROVE  code[i] \in Instructions
  BY <1>0, <1>a
<1>b. pc \in DOMAIN code => pc + 1 \in 1..(Len(code) + 1)
  BY <1>0
<1>c. pending \in HostEvents
  BY DEF Typed, VMTypeOK
<1>d. \A v : \A o \in Outcomes(v) :
        /\ Queued(o) \in HostEvents
        /\ o.error # NoError => o.error \in AllErrors
  BY <1>c DEF Outcomes, Queued, AllErrors
<1>1. ASSUME NEW o \in Outcomes({0}), ExecEval(o)
      PROVE  Typed'
  <2>1. CASE o.error # NoError
    BY <1>1, <2>1, <1>d, RaiseTyped DEF ExecEval
  <2>2. CASE o.error = NoError
    <3>1. Advance(Queued(o)) /\ UNCHANGED <<temps, iters>> /\ pc \in DOMAIN code
      BY <1>1, <2>2 DEF ExecEval, Fetches
    <3>2. QED
      BY <3>1, <1>b, <1>d, GoToTyped DEF Advance, Typed, VMTypeOK
  <2>3. QED
    BY <2>1, <2>2
<1>2. ASSUME NEW o \in Outcomes({0, 1}), ExecTest(o)
      PROVE  Typed'
  <2>1. CASE o.error # NoError
    BY <1>2, <2>1, <1>d, RaiseTyped DEF ExecTest
  <2>2. CASE o.error = NoError
    <3>1. /\ Advance(Queued(o)) /\ SetTemp(code[pc].dst, o.value) /\ UNCHANGED iters
          /\ pc \in DOMAIN code
      BY <1>2, <2>2 DEF ExecTest, Fetches
    <3>2. temps' \in [Temps -> 0..MaxLen]
      BY <3>1, <1>a DEF SetTemp, Outcomes, Typed, VMTypeOK, Instructions
    <3>3. QED
      BY <3>1, <3>2, <1>b, <1>d, GoToTyped DEF Advance, Typed, VMTypeOK
  <2>3. QED
    BY <2>1, <2>2
<1>3. ASSUME NEW o \in Outcomes(0..MaxLen), ExecIterStart(o)
      PROVE  Typed'
  <2>1. CASE o.error # NoError
    BY <1>3, <2>1, <1>d, RaiseTyped DEF ExecIterStart
  <2>2. CASE o.error = NoError
    <3> DEFINE it == code[pc].site
    <3>1. /\ Advance(Queued(o)) /\ UNCHANGED temps /\ pc \in DOMAIN code
          /\ iters' = [x \in DOMAIN iters \cup {it} |->
                         IF x = it THEN [len |-> o.value, cursor |-> 0] ELSE iters[x]]
      BY <1>3, <2>2 DEF ExecIterStart, Fetches
    <3>2. it \in Sites /\ o.value \in 0..MaxLen
      BY <3>1, <1>a DEF Instructions, Outcomes
    <3>3. [len |-> o.value, cursor |-> 0] \in Iterators
      BY <3>2 DEF Iterators
    <3>4. DOMAIN iters' \subseteq Sites /\ iters' \in [DOMAIN iters' -> Iterators]
      BY <3>1, <3>2, <3>3 DEF Typed, VMTypeOK
    <3>5. QED
      BY <3>1, <3>4, <1>b, <1>d, GoToTyped DEF Advance, Typed, VMTypeOK
  <2>3. QED
    BY <2>1, <2>2
<1>4. CASE ExecBinaryLogical
  <2>1. pc \in DOMAIN code /\ Advance(pending) /\ UNCHANGED iters
    BY <1>4 DEF ExecBinaryLogical, Fetches
  <2>2. temps' \in [Temps -> 0..MaxLen]
    BY <1>4, <2>1, <1>a DEF ExecBinaryLogical, SetTemp, Typed, VMTypeOK, Instructions
  <2>3. QED
    BY <2>1, <2>2, <1>b, <1>c, GoToTyped DEF Advance, Typed, VMTypeOK
<1>5. CASE ExecLabel
  BY <1>5, <1>b, <1>c, GoToTyped DEF ExecLabel, Fetches, Advance, Typed, VMTypeOK
<1>6. CASE ExecJump
  <2>1. LabelPos(code, code[pc].target) \in 1..(Len(code) + 1)
    BY <1>6, <1>0, TargetsExist DEF ExecJump, Fetches, Jumps
  <2>2. QED
    BY <1>6, <1>c, <2>1, GoToTyped DEF ExecJump, Typed, VMTypeOK
<1>7. CASE ExecJumpIfFalse
  <2>1. LabelPos(code, code[pc].target) \in 1..(Len(code) + 1)
    BY <1>7, <1>0, TargetsExist DEF ExecJumpIfFalse, Fetches, Jumps
  <2>2. \E at \in 1..(Len(code) + 1) : GoTo(at, pending)
    BY <1>7, <1>b, <2>1 DEF ExecJumpIfFalse, Fetches, Advance
  <2>3. QED
    BY <1>7, <1>c, <2>2, GoToTyped DEF ExecJumpIfFalse, Typed, VMTypeOK
<1>8. CASE ExecPushTry
  <2>1. pc \in DOMAIN code /\ LabelPos(code, code[pc].target) \in 1..Len(code)
    BY <1>8, <1>0, TargetsExist DEF ExecPushTry, Fetches, Jumps
  <2>2. Append(tryStack, LabelPos(code, code[pc].target)) \in Seq(1..Len(code))
    BY <2>1 DEF Typed, VMTypeOK
  <2>3. tryStack' \in Seq(1..Len(code))
    <3> DEFINE pushed == Append(tryStack, LabelPos(code, code[pc].target))
    <3>1. tryStack' = Prune(pushed, pc + 1)
      BY <1>8 DEF ExecPushTry
    <3>2. pc + 1 \in Nat /\ pushed \in Seq(1..Len(code))
      BY <1>0, <2>2
    <3> HIDE DEF pushed
    <3>3. QED
      BY <1>0, <3>1, <3>2, PruneType
  <2>4. QED
    BY <1>8, <1>b, <2>1, <2>3 DEF ExecPushTry, Drain, HostEvents, AllErrors, Typed, VMTypeOK
<1>9. CASE ExecStoreLastError
  <2>1. CASE lastError = NoError
    BY <1>9, <2>1, <1>c, RaiseTyped DEF ExecStoreLastError, AllErrors
  <2>2. CASE lastError # NoError
    BY <1>9, <2>2, <1>b, <1>c, GoToTyped
    DEF ExecStoreLastError, Fetches, Advance, Typed, VMTypeOK
  <2>3. QED
    BY <2>1, <2>2
<1>10. CASE ExecIterHasNext
  <2>1. CASE code[pc].site \notin DOMAIN iters
    BY <1>10, <2>1, <1>c, RaiseTyped DEF ExecIterHasNext, AllErrors
  <2>2. CASE code[pc].site \in DOMAIN iters
    <3>1. pc \in DOMAIN code /\ Advance(pending) /\ UNCHANGED iters
      BY <1>10, <2>2 DEF ExecIterHasNext, Fetches
    <3>2. temps' \in [Temps -> 0..MaxLen]
      <4>1. \E v \in {0, 1} : SetTemp(code[pc].dst, v)
        BY <1>10, <2>2 DEF ExecIterHasNext
      <4>2. QED
        BY <3>1, <4>1, <1>a DEF SetTemp, Typed, VMTypeOK, Instructions
    <3>3. QED
      BY <3>1, <3>2, <1>b, <1>c, GoToTyped DEF Advance, Typed, VMTypeOK
  <2>3. QED
    BY <2>1, <2>2
<1>11. CASE ExecIterNext
  <2> DEFINE it == code[pc].site
  <2>1. CASE it \notin DOMAIN iters
    BY <1>11, <2>1, <1>c, RaiseTyped DEF ExecIterNext, AllErrors
  <2>2. CASE it \in DOMAIN iters /\ iters[it].cursor >= iters[it].len
    BY <1>11, <2>2, <1>c, RaiseTyped DEF ExecIterNext, AllErrors
  <2>3. CASE it \in DOMAIN iters /\ ~ (iters[it].cursor >= iters[it].len)
    <3>1. /\ pc \in DOMAIN code /\ Advance(pending)
          /\ iters' = [iters EXCEPT ![it].cursor = @ + 1]
          /\ SetTemp(code[pc].dst, iters[it].cursor + 1)
      BY <1>11, <2>3 DEF ExecIterNext, Fetches
    <3>2. iters[it] \in Iterators /\ iters[it].cursor + 1 \in 0..MaxLen
      BY <2>3 DEF Typed, VMTypeOK, Iterators
    <3>3. temps' \in [Temps -> 0..MaxLen]
      BY <3>1, <3>2, <1>a DEF SetTemp, Typed, VMTypeOK, Instructions
    <3>4. DOMAIN iters' \subseteq Sites /\ iters' \in [DOMAIN iters' -> Iterators]
      BY <2>3, <3>1, <3>2 DEF Typed, VMTypeOK, Iterators
    <3>5. QED
      BY <3>1, <3>3, <3>4, <1>b, <1>c, GoToTyped DEF Advance, Typed, VMTypeOK
  <2>4. QED
    BY <2>1, <2>2, <2>3
<1>12. CASE ExecStoreBinding
  BY <1>12, <1>b, <1>c, GoToTyped DEF ExecStoreBinding, Fetches, Advance, Typed, VMTypeOK
<1>13. CASE ExecReturn
  BY <1>13, <1>c DEF ExecReturn, Drain, HostEvents, AllErrors, Typed, VMTypeOK
<1>14. CASE VMFinished
  BY <1>14 DEF VMFinished, vmVars, Typed, VMTypeOK
<1>15. CASE UNCHANGED vmVars
  BY <1>15 DEF vmVars, Typed, VMTypeOK
<1>16. QED
  BY <1>1, <1>2, <1>3, <1>4, <1>5, <1>6, <1>7, <1>8, <1>9, <1>10, <1>11, <1>12,
     <1>13, <1>14, <1>15 DEF VMNext

LEMMA TypedInit == VMInit => Typed
<1> SUFFICES ASSUME NEW c \in Codes, Load(c)
             PROVE  Typed
  BY DEF VMInit
<1>1. Len(c) \in Nat /\ c \in Seq(Instructions)
  BY CodesAssumption
<1>2. QED
  BY <1>1, CodesAssumption DEF Load, Typed, VMTypeOK, HostEvents

LEMMA AlwaysTyped == VMSpec => []Typed
  BY TypedInit, TypedStep, PTL DEF VMSpec

\* The pc stays within the code, handlers are positions of the code, temps and
\* cursors within their ranges, for every code verify_function accepts.
THEOREM TypeCorrect == VMSpec => []VMTypeOK
<1>1. Typed => VMTypeOK
  BY DEF Typed
<1>2. QED
  BY <1>1, AlwaysTyped, PTL

-----------------------------------------------------------------------------
(***************************************************************************)
(* The handler stack.  HandlersMatch is inductive together with Typed: for *)
(* each way the pc moves, the handlers Prune keeps are those of the try    *)
(* bodies around the new pc.                                               *)
(***************************************************************************)

\* On a descending stack Prune keeps exactly the handlers still ahead.
LEMMA PruneKeepsAhead ==
  ASSUME NEW n \in Nat, NEW stack \in Seq(1..n), NEW at \in Nat,
         Descending(stack)
  PROVE  /\ Descending(Prune(stack, at))
         /\ Elements(Prune(stack, at)) = {x \in Elements(stack) : at < x}
<1>1. PICK k \in 0..Len(stack) :
        /\ Prune(stack, at) = SubSeq(stack, 1, k)
        /\ k # 0 => at < stack[k]
        /\ \A j \in DOMAIN stack : k < j => stack[j] <= at
  BY PruneKeepsPrefix
<1> DEFINE kept == SubSeq(stack, 1, k)
<1>2. /\ DOMAIN kept = 1..k
      /\ \A i \in 1..k : i \in DOMAIN stack /\ kept[i] = stack[i]
  OBVIOUS
<1>3. DOMAIN stack = 1..Len(stack) /\ \A i \in DOMAIN stack : stack[i] \in Nat
  OBVIOUS
<1> HIDE DEF kept
<1>4. Descending(kept)
  BY <1>2 DEF Descending
<1>5. \A i \in 1..k : at < stack[i]
  <2> SUFFICES ASSUME NEW i \in 1..k PROVE at < stack[i]
    OBVIOUS
  <2>1. k \in 1..Len(stack) /\ at < stack[k]
    BY <1>1
  <2>2. CASE i = k
    BY <2>1, <2>2
  <2>3. CASE i < k
    <3>1. stack[k] < stack[i]
      BY <2>1, <2>3, <1>2, <1>3 DEF Descending
    <3>2. QED
      BY <2>1, <3>1, <1>2, <1>3
  <2>4. QED
    BY <2>2, <2>3
<1>6. Elements(kept) \subseteq {x \in Elements(stack) : at < x}
  BY <1>2, <1>5 DEF Elements
<1>7. ASSUME NEW i \in DOMAIN stack, at < stack[i]
      PROVE  stack[i] \in Elements(kept)
  <2>1. ~ (k < i)
    BY <1>1, <1>3, <1>7
  <2>2. i \in 1..k
    BY <2>1, <1>3
  <2>3. QED
    BY <2>2, <1>2 DEF Elements
<1>8. {x \in Elements(stack) : at < x} \subseteq Elements(kept)
  BY <1>7 DEF Elements
<1>9. QED
  BY <1>1, <1>4, <1>6, <1>8 DEF kept

\* Positions of instructions and of catch labels are numbers.
LEMMA PositionsAreNumbers ==
  ASSUME NEW c \in Codes
  PROVE  \A p \in TryPositions(c) : p \in Nat /\ CatchPos(c, p) \in 1..Len(c)
<1>1. Len(c) \in Nat /\ DOMAIN c = 1..Len(c)
  BY CodesAssumption
<1>2. QED
  BY <1>1, TargetsExist DEF TryPositions, CatchPos

\* A move within the discipline: of the catch blocks that protected the old
\* position, the new one is protected by those still ahead.
LEMMA MoveProtects ==
  ASSUME NEW c \in Codes, NEW from \in Nat, NEW at \in Nat,
         \A p \in TryPositions(c) :
           /\ Inside(c, p, at) => Inside(c, p, from)
           /\ Inside(c, p, from) => p < at
  PROVE  Protecting(c, at) = {x \in Protecting(c, from) : at < x}
  BY PositionsAreNumbers DEF Protecting, Inside

\* The next instruction is in the same try bodies, but for one that begins.
LEMMA AdvanceProtects ==
  ASSUME NEW c \in Codes, NEW at \in DOMAIN c, c[at].op # "PushTry"
  PROVE  Protecting(c, at + 1) = {x \in Protecting(c, at) : at + 1 < x}
<1>1. at \in Nat
  BY CodesAssumption
<1>2. \A p \in TryPositions(c) : p # at
  BY DEF TryPositions
<1>3. QED
  BY <1>1, <1>2, PositionsAreNumbers DEF Protecting, Inside

LEMMA JumpProtects ==
  ASSUME NEW c \in Codes, Disciplined(c), NEW at \in DOMAIN c, c[at].op \in Jumps
  PROVE  LET to == LabelPos(c, c[at].target) IN
         Protecting(c, to) = {x \in Protecting(c, at) : to < x}
<1> DEFINE to == LabelPos(c, c[at].target)
<1>1. at \in Nat /\ to \in Nat
  BY CodesAssumption, TargetsExist
<1>2. \A p \in TryPositions(c) :
        /\ Inside(c, p, to) => Inside(c, p, at)
        /\ Inside(c, p, at) => p < to
  BY DEF Disciplined
<1> HIDE DEF to
<1>3. Protecting(c, to) = {x \in Protecting(c, at) : to < x}
  BY <1>1, <1>2, MoveProtects
<1>4. QED
  BY <1>3 DEF to

\* The body that begins is the innermost, and its catch block is added.
LEMMA PushTryProtects ==
  ASSUME NEW c \in Codes, Disciplined(c), NEW at \in TryPositions(c)
  PROVE  /\ \A x \in Protecting(c, at) : CatchPos(c, at) < x
         /\ Protecting(c, at + 1) =
              {x \in Protecting(c, at) \cup {CatchPos(c, at)} : at + 1 < x}
<1>1. at \in Nat
  BY PositionsAreNumbers
<1>2. \A x \in Protecting(c, at) : CatchPos(c, at) < x
  BY PositionsAreNumbers DEF Protecting, Inside, Disciplined
<1>3. Protecting(c, at + 1) \subseteq
        {x \in Protecting(c, at) \cup {CatchPos(c, at)} : at + 1 < x}
  BY <1>1, PositionsAreNumbers DEF Protecting, Inside
<1>4. {x \in Protecting(c, at) \cup {CatchPos(c, at)} : at + 1 < x}
        \subseteq Protecting(c, at + 1)
  BY <1>1, PositionsAreNumbers DEF Protecting, Inside
<1>5. QED
  BY <1>2, <1>3, <1>4

\* The catch block itself is protected by the bodies around its try.
LEMMA CatchProtects ==
  ASSUME NEW c \in Codes, Disciplined(c), NEW at \in Nat,
         NEW x \in Protecting(c, at)
  PROVE  Protecting(c, x) = {y \in Protecting(c, at) : x < y}
<1>1. PICK q \in TryPositions(c) : x = CatchPos(c, q) /\ Inside(c, q, at)
  BY DEF Protecting
<1>2. \A p \in TryPositions(c) :
        /\ p \in Nat /\ CatchPos(c, p) \in Nat
        /\ q < p /\ p < x => CatchPos(c, p) < x
  BY <1>1, PositionsAreNumbers DEF Disciplined
<1>3. \A p \in TryPositions(c) : Inside(c, p, x) => Inside(c, p, at) /\ x < CatchPos(c, p)
  BY <1>1, <1>2 DEF Inside
<1>4. \A p \in TryPositions(c) : Inside(c, p, at) /\ x < CatchPos(c, p) => Inside(c, p, x)
  BY <1>1, <1>2 DEF Inside
<1>5. QED
  BY <1>3, <1>4 DEF Protecting

\* A handler stack that matches: the conclusion of HandlersMatch at a position.
Matches(stack, c, at) == Elements(stack) = Protecting(c, at) /\ Descending(stack)

LEMMA GoToMatches ==
  ASSUME Typed, Matches(tryStack, code, pc), NEW at \in Nat, NEW q, GoTo(at, q),
         Protecting(code, at) = {x \in Protecting(code, pc) : at < x}
  PROVE  Matches(tryStack', code', pc')
<1>1. Len(code) \in Nat /\ tryStack \in Seq(1..Len(code))
  BY DEF Typed, VMTypeOK
<1>2. /\ Descending(Prune(tryStack, at))
      /\ Elements(Prune(tryStack, at)) = {x \in Elements(tryStack) : at < x}
  BY <1>1, PruneKeepsAhead DEF Matches
<1>3. tryStack' = Prune(tryStack, at) /\ code' = code /\ pc' = at
  BY DEF GoTo
<1>4. QED
  BY <1>2, <1>3 DEF Matches

LEMMA AdvanceMatches ==
  ASSUME Typed, Matches(tryStack, code, pc), pc \in DOMAIN code,
         code[pc].op # "PushTry", NEW q, Advance(q)
  PROVE  Matches(tryStack', code', pc')
<1>1. code \in Codes /\ pc + 1 \in Nat /\ GoTo(pc + 1, q)
  BY DEF Typed, VMTypeOK, Advance
<1>2. Protecting(code, pc + 1) = {x \in Protecting(code, pc) : pc + 1 < x}
  BY <1>1, AdvanceProtects
<1>3. QED
  BY <1>1, <1>2, GoToMatches

LEMMA JumpMatches ==
  ASSUME Typed, Matches(tryStack, code, pc), Disciplined(code), pc \in DOMAIN code,
         code[pc].op \in Jumps, NEW q, GoTo(LabelPos(code, code[pc].target), q)
  PROVE  Matches(tryStack', code', pc')
<1> DEFINE to == LabelPos(code, code[pc].target)
<1>1. code \in Codes /\ Len(code) \in Nat
  BY DEF Typed, VMTypeOK
<1>2. to \in Nat
  BY <1>1, TargetsExist
<1>3. Protecting(code, to) = {x \in Protecting(code, pc) : to < x}
  BY <1>1, JumpProtects
<1>4. GoTo(to, q)
  OBVIOUS
<1> HIDE DEF to
<1>5. QED
  BY <1>2, <1>3, <1>4, GoToMatches

\* The handler pushed is the innermost one.
LEMMA PushTryMatches ==
  ASSUME Typed, Matches(tryStack, code, pc), Disciplined(code), ExecPushTry
  PROVE  Matches(tryStack', code', pc')
<1> DEFINE h      == CatchPos(code, pc)
           pushed == Append(tryStack, h)
<1>1. /\ code \in Codes /\ Len(code) \in Nat /\ tryStack \in Seq(1..Len(code))
      /\ pc \in TryPositions(code) /\ pc + 1 \in Nat
  BY DEF Typed, VMTypeOK, ExecPushTry, Fetches, TryPositions
<1>2. h \in 1..Len(code)
  BY <1>1, PositionsAreNumbers
<1>3. /\ \A x \in Protecting(code, pc) : h < x
      /\ Protecting(code, pc + 1) = {x \in Protecting(code, pc) \cup {h} : pc + 1 < x}
  BY <1>1, PushTryProtects
<1>4. tryStack' = Prune(pushed, pc + 1) /\ code' = code /\ pc' = pc + 1
  BY DEF ExecPushTry, CatchPos
<1> HIDE DEF h
<1>5. /\ pushed \in Seq(1..Len(code))
      /\ Len(tryStack) \in Nat /\ DOMAIN tryStack = 1..Len(tryStack)
      /\ DOMAIN pushed = 1..(Len(tryStack) + 1)
      /\ \A i \in 1..Len(tryStack) : pushed[i] = tryStack[i]
      /\ pushed[Len(tryStack) + 1] = h
  BY <1>1, <1>2
<1> HIDE DEF pushed
<1>6. Elements(pushed) = Elements(tryStack) \cup {h}
  <2>1. \A i \in DOMAIN pushed : i \in DOMAIN tryStack \/ i = Len(tryStack) + 1
    BY <1>5
  <2>2. \A i \in DOMAIN tryStack : i \in DOMAIN pushed
    BY <1>5
  <2>3. Len(tryStack) + 1 \in DOMAIN pushed
    BY <1>5
  <2>4. QED
    BY <1>5, <2>1, <2>2, <2>3 DEF Elements
<1>7. Descending(pushed)
  <2> SUFFICES ASSUME NEW i \in DOMAIN pushed, NEW j \in DOMAIN pushed, i < j
               PROVE  pushed[j] < pushed[i]
    BY DEF Descending
  <2>1. i \in DOMAIN tryStack /\ pushed[i] = tryStack[i]
    BY <1>5
  <2>2. CASE j \in DOMAIN tryStack
    BY <1>5, <2>1, <2>2 DEF Matches, Descending
  <2>3. CASE j = Len(tryStack) + 1
    <3>1. tryStack[i] \in Protecting(code, pc)
      BY <2>1 DEF Matches, Elements
    <3>2. QED
      BY <1>3, <1>5, <2>1, <2>3, <3>1
  <2>4. QED
    BY <1>5, <2>2, <2>3
<1>8. /\ Descending(Prune(pushed, pc + 1))
      /\ Elements(Prune(pushed, pc + 1)) = {x \in Elements(pushed) : pc + 1 < x}
  BY <1>1, <1>5, <1>7, PruneKeepsAhead
<1>9. QED
  BY <1>3, <1>4, <1>6, <1>8 DEF Matches

\* The innermost handler is popped, and the others protect its catch block.
LEMMA RaiseMatches ==
  ASSUME Typed, Matches(tryStack, code, pc), Disciplined(code),
         NEW e \in AllErrors, NEW q, Raise(e, q), tryStack # << >>
  PROVE  Matches(tryStack', code', pc')
<1> DEFINE last  == Len(tryStack)
           catch == tryStack[last]
           rest  == SubSeq(tryStack, 1, last - 1)
<1>1. /\ code \in Codes /\ Len(code) \in Nat /\ tryStack \in Seq(1..Len(code))
      /\ pc \in Nat
  BY DEF Typed, VMTypeOK
<1>2. /\ last \in Nat \ {0} /\ DOMAIN tryStack = 1..last
      /\ catch \in 1..Len(code) /\ catch \in Nat
  BY <1>1
<1>3. /\ rest \in Seq(1..Len(code)) /\ DOMAIN rest = 1..(last - 1)
      /\ \A i \in 1..(last - 1) : rest[i] = tryStack[i]
  BY <1>1, <1>2
<1>4. pc' = catch /\ tryStack' = Prune(rest, catch) /\ code' = code
  BY DEF Raise
<1> HIDE DEF last, catch, rest
<1>5. Descending(rest)
  BY <1>2, <1>3 DEF Descending, Matches
<1>6. catch \in Elements(tryStack)
  BY <1>2 DEF Elements, catch
<1>7. \A i \in 1..(last - 1) : i \in DOMAIN tryStack /\ catch < tryStack[i]
  BY <1>2 DEF Descending, Matches, catch
<1>8. {y \in Elements(rest) : catch < y} = {y \in Elements(tryStack) : catch < y}
  <2>1. \A i \in DOMAIN tryStack : i \in 1..(last - 1) \/ i = last
    BY <1>2
  <2>2. ~ (catch < catch)
    BY <1>2
  <2>3. QED
    BY <1>3, <1>7, <2>1, <2>2 DEF Elements, catch
<1>9. /\ Descending(Prune(rest, catch))
      /\ Elements(Prune(rest, catch)) = {y \in Elements(rest) : catch < y}
  BY <1>1, <1>2, <1>3, <1>5, PruneKeepsAhead
<1>10. Protecting(code, catch) = {y \in Protecting(code, pc) : catch < y}
  BY <1>1, <1>6, CatchProtects DEF Matches
<1>11. QED
  BY <1>4, <1>8, <1>9, <1>10 DEF Matches

\* The four ways an instruction moves the pc; the others leave it alone.
Advances == /\ pc \in DOMAIN code /\ code[pc].op # "PushTry"
            /\ \E q \in HostEvents : Advance(q)
JumpsTo  == /\ pc \in DOMAIN code /\ code[pc].op \in Jumps
            /\ \E q \in HostEvents : GoTo(LabelPos(code, code[pc].target), q)
Raises   == \E e \in AllErrors : \E q \in HostEvents : Raise(e, q)

LEMMA EveryStepMoves ==
  ASSUME Typed, [VMNext]_vmVars
  PROVE  \/ result = "running" /\ (Advances \/ JumpsTo \/ ExecPushTry \/ Raises)
         \/ ExecReturn
         \/ UNCHANGED vmVars
<1>a. pending \in HostEvents
  BY DEF Typed, VMTypeOK
<1>b. \A v : \A o \in Outcomes(v) :
        /\ Queued(o) \in HostEvents
        /\ o.error # NoError => o.error \in AllErrors
  BY <1>a DEF Outcomes, Queued, AllErrors
<1>1. ASSUME NEW o \in Outcomes({0}), ExecEval(o)
      PROVE  result = "running" /\ (Advances \/ Raises)
  BY <1>1, <1>b DEF ExecEval, Fetches, Advances, Raises
<1>2. ASSUME NEW o \in Outcomes({0, 1}), ExecTest(o)
      PROVE  result = "running" /\ (Advances \/ Raises)
  BY <1>2, <1>b DEF ExecTest, Fetches, Advances, Raises
<1>3. ASSUME NEW o \in Outcomes(0..MaxLen), ExecIterStart(o)
      PROVE  result = "running" /\ (Advances \/ Raises)
  BY <1>3, <1>b DEF ExecIterStart, Fetches, Advances, Raises
<1>4. CASE ExecBinaryLogical
  BY <1>4, <1>a DEF ExecBinaryLogical, Fetches, Advances
<1>5. CASE ExecLabel
  BY <1>5, <1>a DEF ExecLabel, Fetches, Advances
<1>6. CASE ExecJump
  BY <1>6, <1>a DEF ExecJump, Fetches, JumpsTo, Jumps
<1>7. CASE ExecJumpIfFalse
  BY <1>7, <1>a DEF ExecJumpIfFalse, Fetches, JumpsTo, Advances, Jumps
<1>8. CASE ExecPushTry
  BY <1>8, <1>a DEF ExecPushTry, Fetches
<1>9. CASE ExecStoreLastError
  BY <1>9, <1>a DEF ExecStoreLastError, Fetches, Advances, Raises, AllErrors
<1>10. CASE ExecIterHasNext
  BY <1>10, <1>a DEF ExecIterHasNext, Fetches, Advances, Raises, AllErrors
<1>11. CASE ExecIterNext
  BY <1>11, <1>a DEF ExecIterNext, Fetches, Advances, Raises, AllErrors
<1>12. CASE ExecStoreBinding
  BY <1>12, <1>a DEF ExecStoreBinding, Fetches, Advances
<1>13. CASE VMFinished
  BY <1>13 DEF VMFinished
<1>14. QED
  BY <1>1, <1>2, <1>3, <1>4, <1>5, <1>6, <1>7, <1>8, <1>9, <1>10, <1>11, <1>12,
     <1>13 DEF VMNext

LEMMA HandlersInit == VMInit => HandlersMatch
<1> SUFFICES ASSUME NEW c \in Codes, Load(c)
             PROVE  HandlersMatch
  BY DEF VMInit
<1>1. code = c /\ pc = 1 /\ tryStack = << >>
  BY DEF Load
<1>2. Protecting(code, pc) = {}
  BY <1>1, PositionsAreNumbers, CodesAssumption DEF Protecting, Inside, TryPositions
<1>3. Elements(tryStack) = {} /\ Descending(tryStack)
  BY <1>1 DEF Elements, Descending
<1>4. QED
  BY <1>2, <1>3 DEF HandlersMatch

LEMMA HandlersStep == Typed /\ HandlersMatch /\ [VMNext]_vmVars => HandlersMatch'
<1> SUFFICES ASSUME Typed, HandlersMatch, [VMNext]_vmVars, Disciplined(code'),
                    result' = "running"
             PROVE  Matches(tryStack', code', pc')
  BY DEF HandlersMatch, Matches
<1>1. code' = code
  BY DEF VMNext, vmVars, VMFinished, ExecEval, ExecTest, ExecIterStart, ExecBinaryLogical,
         ExecLabel, ExecJump, ExecJumpIfFalse, ExecPushTry, ExecStoreLastError,
         ExecIterHasNext, ExecIterNext, ExecStoreBinding, ExecReturn, Raise,
         Advance, GoTo
<1>2. result = "running" => Matches(tryStack, code, pc)
  BY <1>1 DEF HandlersMatch, Matches
<1>3. CASE result = "running" /\ Advances
  BY <1>2, <1>3, AdvanceMatches DEF Advances
<1>4. CASE result = "running" /\ JumpsTo
  BY <1>1, <1>2, <1>4, JumpMatches DEF JumpsTo
<1>5. CASE result = "running" /\ ExecPushTry
  BY <1>1, <1>2, <1>5, PushTryMatches
<1>6. CASE result = "running" /\ Raises
  <2>1. PICK e \in AllErrors, q \in HostEvents : Raise(e, q)
    BY <1>6 DEF Raises
  <2>2. tryStack # << >>
    <3>1. e # "running"
      BY CodesAssumption
    <3>2. QED
      BY <2>1, <3>1 DEF Raise
  <2>3. QED
    BY <1>1, <1>2, <1>6, <2>1, <2>2, RaiseMatches
<1>7. CASE ExecReturn
  <2>1. pending # NoError => pending # "running"
    BY CodesAssumption DEF Typed, VMTypeOK, HostEvents, AllErrors
  <2>2. QED
    BY <1>7, <2>1 DEF ExecReturn, Drain
<1>8. CASE UNCHANGED vmVars
  BY <1>2, <1>8 DEF vmVars, Matches
<1>9. QED
  BY <1>3, <1>4, <1>5, <1>6, <1>7, <1>8, EveryStepMoves

LEMMA AlwaysTypedAndMatching == VMSpec => [](Typed /\ HandlersMatch)
<1>1. VMInit => Typed /\ HandlersMatch
  BY TypedInit, HandlersInit
<1>2. (Typed /\ HandlersMatch) /\ [VMNext]_vmVars => (Typed /\ HandlersMatch)'
  BY TypedStep, HandlersStep
<1>3. QED
  BY <1>1, <1>2, PTL DEF VMSpec

\* For every disciplined code the handler stack holds exactly the catch labels
\* of the try bodies around the pc, innermost last: the loop of
\* execute_function_body needs no instruction that pops a handler.
THEOREM HandlersAlwaysMatch == VMSpec => []HandlersMatch
  BY AlwaysTypedAndMatching, PTL

LEMMA EscapeStep ==
  Typed /\ HandlersMatch /\ [VMNext]_vmVars =>
    [Disciplined(code) /\ result' \in AllErrors \ HostErrors
       => Protecting(code, pc) = {}]_vmVars
<1> SUFFICES ASSUME Typed, HandlersMatch, [VMNext]_vmVars, Disciplined(code),
                    result' \in AllErrors \ HostErrors, vmVars' # vmVars
             PROVE  Protecting(code, pc) = {}
  OBVIOUS
<1>0. /\ result' # "running" /\ result' # "returned" /\ result' \notin HostErrors
      /\ pending \in HostEvents
  BY CodesAssumption DEF Typed, VMTypeOK
<1>1. CASE result = "running" /\ (Advances \/ JumpsTo \/ ExecPushTry)
  <2>1. \E q \in HostEvents : Drain(q, "running")
    BY <1>0, <1>1 DEF Advances, JumpsTo, ExecPushTry, Advance, GoTo
  <2>2. QED
    BY <1>0, <2>1 DEF Drain, HostEvents
<1>2. CASE result = "running" /\ Raises
  <2>1. PICK e \in AllErrors, q \in HostEvents : Raise(e, q)
    BY <1>2 DEF Raises
  <2>2. tryStack = << >>
    BY <1>0, <1>2, <2>1 DEF Raise
  <2>3. Elements(tryStack) = {}
    BY <2>2 DEF Elements
  <2>4. QED
    BY <1>2, <2>3 DEF HandlersMatch
<1>3. CASE ExecReturn
  BY <1>0, <1>3 DEF ExecReturn, Drain, HostEvents
<1>4. QED
  BY <1>1, <1>2, <1>3, EveryStepMoves

\* For every disciplined code, an error of the code itself leaves the function
\* only from a pc that lies in no try body.
THEOREM ErrorsAreCaught == VMSpec => ErrorsEscapeOnlyUnprotected
<1>1. Typed /\ HandlersMatch /\ [VMNext]_vmVars =>
        [Disciplined(code) /\ result' \in AllErrors \ HostErrors
       => Protecting(code, pc) = {}]_vmVars
  BY EscapeStep
<1>2. QED
  BY <1>1, AlwaysTypedAndMatching, PTL DEF VMSpec, ErrorsEscapeOnlyUnprotected


-----------------------------------------------------------------------------
(***************************************************************************)
(* No function is found malformed.  Where the pc is says what is known of  *)
(* the iterators and of the last error.                                    *)
(***************************************************************************)

\* In a sealed stretch behind its start, an iterator is started.
Started ==
  \A s, e \in DOMAIN code :
    /\ code[s].op = "IterStart"
    /\ Sealed(code, s, e)
    /\ pc \in s+1 .. e
    => code[s].site \in DOMAIN iters

\* Right after IterHasNext its temp says whether there is an element.
Tested ==
  \A u \in DOMAIN code :
    code[u].op = "IterHasNext" /\ pc = u + 1 /\ pc \in DOMAIN code
      /\ code[pc].op # "Label"
    => /\ code[u].site \in DOMAIN iters
       /\ temps[code[u].dst] # 0 =>
            iters[code[u].site].cursor < iters[code[u].site].len

\* At IterNext there is one.
HasElement ==
  pc \in DOMAIN code /\ code[pc].op = "IterNext" =>
    /\ code[pc].site \in DOMAIN iters
    /\ iters[code[pc].site].cursor < iters[code[pc].site].len

\* In front of a catch block and at its first instruction there is an error.
HasError ==
  \A s \in DOMAIN code :
    code[s].op = "StoreLastError" /\ (pc = s \/ pc = s - 1) => lastError # NoError

Steady == Started /\ Tested /\ HasElement /\ HasError

\* The labels jumps and handlers go to are Label instructions.
LEMMA TargetsAreLabels ==
  ASSUME NEW c \in Codes, NEW i \in DOMAIN c,
         c[i].op \in Jumps \cup {"PushTry"}
  PROVE  /\ LabelPos(c, c[i].target) \in DOMAIN c
         /\ c[LabelPos(c, c[i].target)].op = "Label"
<1>1. \E j \in DOMAIN c : c[j].op = "Label" /\ c[j].target = c[i].target
  BY CodesAssumption DEF Verified
<1>2. QED
  BY <1>1 DEF LabelPos

LEMMA CodeIsSequence ==
  ASSUME Typed
  PROVE  /\ Len(code) \in Nat /\ DOMAIN code = 1..Len(code) /\ code \in Codes
         /\ pc \in Nat
         /\ \A i \in DOMAIN code : code[i] \in Instructions
BY DEF Typed, VMTypeOK

\* Going on from an instruction that is none of those that establish something.
LEMMA AdvanceSteady ==
  ASSUME Typed, Guarded(code), Steady, pc \in DOMAIN code, pc' = pc + 1,
         code[pc].op \notin {"IterStart", "IterHasNext", "JumpIfFalse", "Jump"},
         code' = code, lastError' = lastError,
         DOMAIN iters \subseteq DOMAIN iters'
  PROVE  Steady'
<1>0. DOMAIN code \subseteq Nat /\ pc \in Nat
  BY CodeIsSequence
<1>1. Started'
  BY <1>0 DEF Steady, Started
<1>2. Tested'
  BY <1>0 DEF Tested
<1>3. HasElement'
  BY <1>0 DEF Guarded, HasElement
<1>4. HasError'
  BY <1>0 DEF Guarded, Steady, HasError
<1>5. QED
  BY <1>1, <1>2, <1>3, <1>4 DEF Steady

\* A jump enters no stretch that is sealed, and no catch block.
LEMMA JumpSteady ==
  ASSUME Typed, Guarded(code), Steady, pc \in DOMAIN code, code[pc].op \in Jumps,
         pc' = LabelPos(code, code[pc].target),
         UNCHANGED <<code, lastError, iters>>
  PROVE  Steady'
<1>0. /\ DOMAIN code \subseteq Nat /\ pc \in Nat /\ pc' \in DOMAIN code
      /\ code[pc'].op = "Label"
  BY CodeIsSequence, TargetsAreLabels
<1>1. Started'
  BY <1>0 DEF Steady, Started, Sealed
<1>2. Tested'
  BY <1>0 DEF Tested
<1>3. HasElement'
  BY <1>0 DEF HasElement
<1>4. HasError'
  BY <1>0 DEF Guarded, HasError
<1>5. QED
  BY <1>1, <1>2, <1>3, <1>4 DEF Steady

\* Every handler is a catch label, and around it no stretch was entered before
\* its iterator was started: also of a handler that a backward jump out of its
\* try body left behind.
HandlersReady ==
  \A k \in DOMAIN tryStack :
    /\ tryStack[k] \in DOMAIN code /\ code[tryStack[k]].op = "Label"
    /\ \A s, f \in DOMAIN code :
         code[s].op = "IterStart" /\ Sealed(code, s, f) /\ tryStack[k] \in s+1 .. f
           => code[s].site \in DOMAIN iters

\* An error goes to the catch block of a handler.
LEMMA RaiseSteady ==
  ASSUME Typed, Steady, HandlersReady, NEW e \in AllErrors, NEW q,
         Raise(e, q), tryStack # << >>
  PROVE  Steady'
<1> DEFINE catch == tryStack[Len(tryStack)]
<1>1. tryStack \in Seq(1..Len(code))
  BY DEF Typed, VMTypeOK
<1>2. Len(tryStack) \in DOMAIN tryStack
  BY <1>1
<1>3. /\ catch \in DOMAIN code /\ code[catch].op = "Label"
      /\ \A s, f \in DOMAIN code :
           code[s].op = "IterStart" /\ Sealed(code, s, f) /\ catch \in s+1 .. f
             => code[s].site \in DOMAIN iters
  BY <1>2 DEF HandlersReady
<1>4. /\ pc' = catch /\ lastError' = e /\ UNCHANGED <<code, iters, temps>>
  BY DEF Raise
<1>5. e # NoError
  BY CodesAssumption
<1>6. DOMAIN code \subseteq Nat
  BY CodeIsSequence
<1> HIDE DEF catch
<1>7. Started'
  BY <1>3, <1>4 DEF Started
<1>8. Tested'
  BY <1>3, <1>4 DEF Tested
<1>9. HasElement'
  BY <1>3, <1>4 DEF HasElement
<1>10. HasError'
  BY <1>4, <1>5 DEF HasError
<1>11. QED
  BY <1>7, <1>8, <1>9, <1>10 DEF Steady

\* Pruning leaves some of the handlers.
LEMMA PruneLeavesSome ==
  ASSUME NEW n \in Nat, NEW stack \in Seq(1..n), NEW at \in Nat,
         NEW k \in DOMAIN Prune(stack, at)
  PROVE  k \in DOMAIN stack /\ Prune(stack, at)[k] = stack[k]
<1>1. PICK j \in 0..Len(stack) : Prune(stack, at) = SubSeq(stack, 1, j)
  BY PruneKeepsPrefix
<1> DEFINE t == SubSeq(stack, 1, j)
<1>2. k \in DOMAIN t
  BY <1>1
<1>3. k \in DOMAIN stack /\ t[k] = stack[k]
  BY <1>2
<1>4. QED
  BY <1>1, <1>3

LEMMA ItersStay ==
  ASSUME [VMNext]_vmVars
  PROVE  code' = code /\ DOMAIN iters \subseteq DOMAIN iters'
<1>1. CASE \E o \in Outcomes(0..MaxLen) : ExecIterStart(o)
  <2>1. PICK o \in Outcomes(0..MaxLen) : ExecIterStart(o)
    BY <1>1
  <2>2. CASE o.error # NoError
    BY <2>1, <2>2 DEF ExecIterStart, Raise
  <2>3. CASE o.error = NoError
    BY <2>1, <2>3 DEF ExecIterStart, Advance, GoTo
  <2>4. QED
    BY <2>2, <2>3
<1>2. CASE ExecIterNext
  <2>1. iters' = iters \/ iters' = [iters EXCEPT ![code[pc].site].cursor = @ + 1]
    BY <1>2 DEF ExecIterNext, Raise
  <2>2. DOMAIN iters' = DOMAIN iters
    BY <2>1
  <2>3. QED
    BY <1>2, <2>2 DEF ExecIterNext, Raise, Advance, GoTo
<1>3. CASE ~ (\E o \in Outcomes(0..MaxLen) : ExecIterStart(o)) /\ ~ ExecIterNext
  <2>1. code' = code /\ iters' = iters
    BY <1>3 DEF VMNext, vmVars, VMFinished, ExecEval, ExecTest, ExecBinaryLogical,
       ExecLabel, ExecJump, ExecJumpIfFalse, ExecPushTry, ExecStoreLastError,
       ExecIterHasNext, ExecStoreBinding, ExecReturn, Raise, Advance, GoTo
  <2>2. QED
    BY <2>1
<1>4. QED
  BY <1>1, <1>2, <1>3

LEMMA ReadyInit ==
  ASSUME VMInit
  PROVE  HandlersReady
BY DEF VMInit, Load, HandlersReady

LEMMA ReadyStep ==
  ASSUME Typed, result = "running" => Steady /\ HandlersReady, [VMNext]_vmVars,
         result' = "running"
  PROVE  HandlersReady'
<1>0. /\ code' = code /\ DOMAIN iters \subseteq DOMAIN iters'
      /\ Len(code) \in Nat /\ DOMAIN code = 1..Len(code) /\ code \in Codes
      /\ pc \in Nat /\ tryStack \in Seq(1..Len(code))
  BY ItersStay, CodeIsSequence DEF Typed, VMTypeOK
\* Handlers that were there are still ready.
<1>1. ASSUME HandlersReady,
             \A k \in DOMAIN tryStack' : \E j \in DOMAIN tryStack : tryStack'[k] = tryStack[j]
      PROVE  HandlersReady'
  <2> SUFFICES ASSUME NEW k \in DOMAIN tryStack'
               PROVE  /\ tryStack'[k] \in DOMAIN code /\ code[tryStack'[k]].op = "Label"
                      /\ \A s, f \in DOMAIN code :
                           code[s].op = "IterStart" /\ Sealed(code, s, f)
                             /\ tryStack'[k] \in s+1 .. f
                             => code[s].site \in DOMAIN iters'
    BY <1>0 DEF HandlersReady
  <2>1. PICK j \in DOMAIN tryStack : tryStack'[k] = tryStack[j]
    BY <1>1
  <2>2. QED
    BY <1>0, <1>1, <2>1 DEF HandlersReady
<1>2. ASSUME NEW at \in Nat, NEW q, GoTo(at, q), HandlersReady
      PROVE  HandlersReady'
  <2>1. tryStack' = Prune(tryStack, at)
    BY <1>2 DEF GoTo
  <2>2. \A k \in DOMAIN tryStack' : \E j \in DOMAIN tryStack : tryStack'[k] = tryStack[j]
    BY <1>0, <2>1, PruneLeavesSome
  <2>3. QED
    BY <1>1, <1>2, <2>2
<1>3. CASE result = "running" /\ Advances
  <2>1. PICK q \in HostEvents : GoTo(pc + 1, q)
    BY <1>3 DEF Advances, Advance
  <2>2. pc + 1 \in Nat
    BY <1>0
  <2>3. QED
    BY <1>2, <1>3, <2>1, <2>2
<1>4. CASE result = "running" /\ JumpsTo
  <2> DEFINE at == LabelPos(code, code[pc].target)
  <2>1. PICK q \in HostEvents : GoTo(at, q)
    BY <1>4 DEF JumpsTo
  <2>2. at \in Nat
    BY <1>0, <1>4, TargetsExist DEF JumpsTo
  <2> HIDE DEF at
  <2>3. QED
    BY <1>2, <1>4, <2>1, <2>2
<1>5. CASE result = "running" /\ ExecPushTry
  <2> DEFINE catch == CatchPos(code, pc)
             pushed == Append(tryStack, catch)
  <2>1. /\ pc \in DOMAIN code /\ code[pc].op = "PushTry" /\ pc + 1 \in Nat
        /\ tryStack' = Prune(pushed, pc + 1)
    BY <1>0, <1>5 DEF ExecPushTry, Fetches, CatchPos
  <2>2. catch \in DOMAIN code /\ code[catch].op = "Label"
    BY <1>0, <2>1, TargetsAreLabels DEF CatchPos
  <2>3. ASSUME NEW s \in DOMAIN code, NEW f \in DOMAIN code, code[s].op = "IterStart",
               Sealed(code, s, f), catch \in s+1 .. f
        PROVE  code[s].site \in DOMAIN iters'
    <3>1. pc \in s+1 .. f
      BY <2>1, <2>3 DEF Sealed
    <3>2. QED
      BY <1>0, <1>5, <2>3, <3>1 DEF Steady, Started
  <2> HIDE DEF catch
  <2>4. pushed \in Seq(1..Len(code))
    BY <1>0, <2>2
  <2>5. \A k \in DOMAIN pushed : pushed[k] = catch \/ \E j \in DOMAIN tryStack : pushed[k] = tryStack[j]
    BY <1>0
  <2> HIDE DEF pushed
  <2>6. ASSUME NEW k \in DOMAIN tryStack'
        PROVE  tryStack'[k] = catch \/ \E j \in DOMAIN tryStack : tryStack'[k] = tryStack[j]
    <3>1. k \in DOMAIN pushed /\ tryStack'[k] = pushed[k]
      BY <1>0, <2>1, <2>4, PruneLeavesSome
    <3>2. QED
      BY <2>5, <3>1
  <2> SUFFICES ASSUME NEW k \in DOMAIN tryStack'
               PROVE  /\ tryStack'[k] \in DOMAIN code /\ code[tryStack'[k]].op = "Label"
                      /\ \A s, f \in DOMAIN code :
                           code[s].op = "IterStart" /\ Sealed(code, s, f)
                             /\ tryStack'[k] \in s+1 .. f
                             => code[s].site \in DOMAIN iters'
    BY <1>0 DEF HandlersReady
  <2>7. CASE tryStack'[k] = catch
    BY <2>2, <2>3, <2>7
  <2>8. CASE \E j \in DOMAIN tryStack : tryStack'[k] = tryStack[j]
    BY <1>0, <1>5, <2>8 DEF HandlersReady
  <2>9. QED
    BY <2>6, <2>7, <2>8
<1>6. CASE result = "running" /\ Raises
  <2>1. PICK e \in AllErrors, q \in HostEvents : Raise(e, q)
    BY <1>6 DEF Raises
  <2>2. CASE tryStack = << >>
    BY <1>1, <1>6, <2>1, <2>2 DEF Raise
  <2>3. CASE tryStack # << >>
    <3> DEFINE catch == tryStack[Len(tryStack)]
               rest == SubSeq(tryStack, 1, Len(tryStack) - 1)
    <3>1. tryStack' = Prune(rest, catch)
      BY <2>1, <2>3 DEF Raise
    <3>2. catch \in Nat
      BY <1>0, <2>3
    <3>3. rest \in Seq(1..Len(code)) /\ \A k \in DOMAIN rest : k \in DOMAIN tryStack /\ rest[k] = tryStack[k]
      BY <1>0, <2>3
    <3> HIDE DEF catch, rest
    <3>4. \A k \in DOMAIN tryStack' : \E j \in DOMAIN tryStack : tryStack'[k] = tryStack[j]
      BY <1>0, <3>1, <3>2, <3>3, PruneLeavesSome
    <3>5. QED
      BY <1>1, <1>6, <3>4
  <2>4. QED
    BY <2>2, <2>3
<1>7. CASE ExecReturn
  <2>1. pending # NoError => pending # "running"
    BY CodesAssumption DEF Typed, VMTypeOK, HostEvents, AllErrors
  <2>2. QED
    BY <1>7, <2>1 DEF ExecReturn, Drain
<1>8. CASE UNCHANGED vmVars
  <2>1. \A k \in DOMAIN tryStack' : \E j \in DOMAIN tryStack : tryStack'[k] = tryStack[j]
    BY <1>8 DEF vmVars
  <2>2. result = "running"
    BY <1>8 DEF vmVars
  <2>3. QED
    BY <1>1, <2>1, <2>2
<1>9. QED
  BY <1>3, <1>4, <1>5, <1>6, <1>7, <1>8, EveryStepMoves

\* What an iterator is asked is answered.
LEMMA NothingMalformed ==
  ASSUME Typed, Guarded(code), Steady, pc \in DOMAIN code
  PROVE  /\ code[pc].op \in {"IterHasNext", "IterNext"} =>
              code[pc].site \in DOMAIN iters
         /\ code[pc].op = "IterNext" =>
              ~ (iters[code[pc].site].cursor >= iters[code[pc].site].len)
         /\ code[pc].op = "StoreLastError" => lastError # NoError
<1>0. DOMAIN code \subseteq Nat /\ pc \in Nat
  BY CodeIsSequence
<1>1. code[pc].op = "IterHasNext" => code[pc].site \in DOMAIN iters
  BY <1>0 DEF Guarded, Steady, Started
<1>2. ASSUME code[pc].op = "IterNext"
      PROVE  /\ code[pc].site \in DOMAIN iters
             /\ ~ (iters[code[pc].site].cursor >= iters[code[pc].site].len)
  <2>1. /\ code[pc].site \in DOMAIN iters
        /\ iters[code[pc].site].cursor < iters[code[pc].site].len
    BY <1>2 DEF Steady, HasElement
  <2>2. iters[code[pc].site] \in Iterators
    BY <2>1 DEF Typed, VMTypeOK
  <2>3. QED
    BY <2>1, <2>2 DEF Iterators
<1>3. code[pc].op = "StoreLastError" => lastError # NoError
  BY DEF Steady, HasError
<1>4. QED
  BY <1>1, <1>2, <1>3

\* All codes have the shape the emitter gives them.
AllGuarded == \A c \in Codes : Guarded(c)

MInv == /\ Typed
        /\ result = "running" => Steady /\ HandlersReady
        /\ NoInternalError

LEMMA MInvInit == AllGuarded /\ VMInit => MInv
<1> SUFFICES ASSUME AllGuarded, NEW c \in Codes, Load(c)
             PROVE  (result = "running" => Steady) /\ NoInternalError
  BY TypedInit, ReadyInit DEF MInv, VMInit
<1>1. Typed
  BY TypedInit DEF VMInit
<1>2. DOMAIN code \subseteq Nat /\ code = c /\ pc = 1 /\ 0 \notin DOMAIN code
  BY <1>1, CodeIsSequence DEF Load
<1>3. Internal \notin {NoError, "running"}
  BY CodesAssumption DEF AllErrors
<1>4. NoInternalError
  BY <1>3 DEF Load, NoInternalError
<1>5. Guarded(code)
  BY <1>2 DEF AllGuarded
<1>6. Started
  BY <1>2 DEF Started
<1>7. Tested
  BY <1>2 DEF Tested
<1>8. HasElement /\ HasError
  BY <1>2, <1>5 DEF HasElement, HasError, Guarded
<1>9. QED
  BY <1>4, <1>6, <1>7, <1>8 DEF Steady

\* What an instruction raises is not the error of a malformed function, and
\* neither is what the callback of a figure event raises.
LEMMA RaiseKeeps ==
  ASSUME Typed, result = "running", Steady, HandlersReady,
         NoInternalError, NEW e \in AllErrors, e # Internal, NEW q, Raise(e, q)
  PROVE  /\ result' = "running" => Steady'
         /\ NoInternalError'
<1>1. e # "running"
  BY CodesAssumption
<1>2. CASE tryStack = << >>
  BY <1>1, <1>2 DEF Raise, NoInternalError
<1>3. CASE tryStack # << >>
  BY <1>3, RaiseSteady DEF Raise, NoInternalError
<1>4. QED
  BY <1>2, <1>3

LEMMA GoToKeeps ==
  ASSUME NoInternalError, NEW at, NEW q \in HostEvents, GoTo(at, q)
  PROVE  NoInternalError' /\ pc' = at /\ UNCHANGED <<code, lastError>>
<1>1. Internal \notin HostEvents /\ Internal # "running"
  BY CodesAssumption DEF HostEvents, AllErrors
<1>2. QED
  BY <1>1 DEF GoTo, Drain, NoInternalError

LEMMA MInvStep == AllGuarded /\ MInv /\ [VMNext]_vmVars => MInv'
<1> SUFFICES ASSUME AllGuarded, MInv, [VMNext]_vmVars
             PROVE  (result' = "running" => Steady') /\ NoInternalError'
  BY TypedStep, ReadyStep DEF MInv
<1>0. /\ Typed /\ NoInternalError /\ Guarded(code)
      /\ result = "running" => Steady /\ HandlersReady
  BY DEF MInv, AllGuarded, Typed
<1>a. pending \in HostEvents
  BY <1>0 DEF Typed, VMTypeOK
<1>b. \A v : \A o \in Outcomes(v) :
        /\ Queued(o) \in HostEvents
        /\ o.error # NoError => o.error \in AllErrors /\ o.error # Internal
  BY <1>a, CodesAssumption DEF Outcomes, Queued, AllErrors
<1>1. ASSUME NEW o \in Outcomes({0}), ExecEval(o)
      PROVE  (result' = "running" => Steady') /\ NoInternalError'
  <2>1. CASE o.error # NoError
    BY <1>0, <1>1, <1>b, <2>1, RaiseKeeps DEF ExecEval, Fetches
  <2>2. CASE o.error = NoError
    <3>1. GoTo(pc + 1, Queued(o)) /\ UNCHANGED <<temps, iters>>
      BY <1>1, <2>2 DEF ExecEval, Advance
    <3>2. QED
      BY <1>0, <1>1, <1>b, <3>1, GoToKeeps, AdvanceSteady DEF ExecEval, Fetches
  <2>3. QED
    BY <2>1, <2>2
<1>2. ASSUME NEW o \in Outcomes({0, 1}), ExecTest(o)
      PROVE  (result' = "running" => Steady') /\ NoInternalError'
  <2>1. CASE o.error # NoError
    BY <1>0, <1>2, <1>b, <2>1, RaiseKeeps DEF ExecTest, Fetches
  <2>2. CASE o.error = NoError
    <3>1. GoTo(pc + 1, Queued(o)) /\ UNCHANGED iters
      BY <1>2, <2>2 DEF ExecTest, Advance
    <3>2. QED
      BY <1>0, <1>2, <1>b, <3>1, GoToKeeps, AdvanceSteady DEF ExecTest, Fetches
  <2>3. QED
    BY <2>1, <2>2
<1>3. ASSUME NEW o \in Outcomes(0..MaxLen), ExecIterStart(o)
      PROVE  (result' = "running" => Steady') /\ NoInternalError'
  <2>1. CASE o.error # NoError
    BY <1>0, <1>3, <1>b, <2>1, RaiseKeeps DEF ExecIterStart, Fetches
  <2>2. CASE o.error = NoError
    <3>1. /\ GoTo(pc + 1, Queued(o)) /\ pc \in DOMAIN code
          /\ code[pc].op = "IterStart" /\ Steady
          /\ DOMAIN iters' = DOMAIN iters \cup {code[pc].site}
      BY <1>0, <1>3, <2>2 DEF ExecIterStart, Advance, Fetches
    <3>2. /\ NoInternalError' /\ pc' = pc + 1 /\ code' = code
          /\ lastError' = lastError
      BY <1>0, <1>b, <3>1, GoToKeeps
    <3>3. DOMAIN code \subseteq Nat /\ pc \in Nat
      BY <1>0, CodeIsSequence
    <3>4. Started'
      BY <3>1, <3>2, <3>3 DEF Steady, Started
    <3>5. Tested'
      BY <3>1, <3>2, <3>3 DEF Tested
    <3>6. HasElement'
      <4>1. (pc + 1) - 1 = pc
        BY <3>3
      <4>2. ~ (pc + 1 \in DOMAIN code /\ code[pc + 1].op = "IterNext")
        BY <1>0, <3>1, <4>1 DEF Guarded
      <4>3. QED
        BY <3>2, <4>2 DEF HasElement
    <3>7. HasError'
      BY <1>0, <3>1, <3>2, <3>3 DEF Guarded, Steady, HasError
    <3>8. QED
      BY <3>2, <3>4, <3>5, <3>6, <3>7 DEF Steady
  <2>3. QED
    BY <2>1, <2>2
<1>4. CASE ExecBinaryLogical
  <2>1. GoTo(pc + 1, pending) /\ UNCHANGED iters
    BY <1>4 DEF ExecBinaryLogical, Advance
  <2>2. QED
    BY <1>0, <1>4, <1>a, <2>1, GoToKeeps, AdvanceSteady DEF ExecBinaryLogical, Fetches
<1>5. CASE ExecLabel
  <2>1. GoTo(pc + 1, pending) /\ UNCHANGED iters
    BY <1>5 DEF ExecLabel, Advance
  <2>2. QED
    BY <1>0, <1>5, <1>a, <2>1, GoToKeeps, AdvanceSteady DEF ExecLabel, Fetches
<1>6. CASE ExecJump
  <2>1. /\ GoTo(LabelPos(code, code[pc].target), pending) /\ UNCHANGED iters
        /\ pc \in DOMAIN code /\ code[pc].op \in Jumps /\ Steady
    BY <1>0, <1>6 DEF ExecJump, Fetches, Jumps
  <2>2. QED
    BY <1>0, <1>a, <2>1, GoToKeeps, JumpSteady
<1>7. CASE ExecJumpIfFalse
  <2>1. /\ pc \in DOMAIN code /\ code[pc].op = "JumpIfFalse" /\ Steady
        /\ UNCHANGED <<temps, iters>>
    BY <1>0, <1>7 DEF ExecJumpIfFalse, Fetches
  <2>2. CASE temps[code[pc].dst] = 0
    <3>1. GoTo(LabelPos(code, code[pc].target), pending)
      BY <1>7, <2>2 DEF ExecJumpIfFalse
    <3>2. QED
      BY <1>0, <1>a, <2>1, <3>1, GoToKeeps, JumpSteady DEF Jumps
  <2>3. CASE temps[code[pc].dst] # 0
    <3>1. GoTo(pc + 1, pending)
      BY <1>7, <2>3 DEF ExecJumpIfFalse, Advance
    <3>2. /\ NoInternalError' /\ pc' = pc + 1 /\ code' = code
          /\ lastError' = lastError
      BY <1>0, <1>a, <3>1, GoToKeeps
    <3>3. DOMAIN code \subseteq Nat /\ pc \in Nat
      BY <1>0, CodeIsSequence
    <3>4. Started'
      BY <2>1, <3>2, <3>3 DEF Steady, Started
    <3>5. Tested'
      BY <2>1, <3>2, <3>3 DEF Tested
    <3>6. HasElement'
      <4> SUFFICES ASSUME pc + 1 \in DOMAIN code, code[pc + 1].op = "IterNext"
                   PROVE  /\ code[pc + 1].site \in DOMAIN iters
                          /\ iters[code[pc + 1].site].cursor
                               < iters[code[pc + 1].site].len
        BY <2>1, <3>2 DEF HasElement
      <4>1. /\ pc + 1 > 2
            /\ code[pc - 1].op = "IterHasNext"
            /\ code[pc - 1].site = code[pc + 1].site
            /\ code[pc].dst = code[pc - 1].dst
        <5>1. (pc + 1) - 2 = pc - 1 /\ (pc + 1) - 1 = pc
          BY <3>3
        <5>2. QED
          BY <1>0, <5>1 DEF Guarded
      <4>2. pc - 1 \in DOMAIN code /\ pc = (pc - 1) + 1
        BY <1>0, <2>1, <3>3, <4>1, CodeIsSequence
      <4>3. QED
        BY <2>1, <2>3, <4>1, <4>2 DEF Steady, Tested
    <3>7. HasError'
      BY <1>0, <2>1, <3>2, <3>3 DEF Guarded, Steady, HasError
    <3>8. QED
      BY <3>2, <3>4, <3>5, <3>6, <3>7 DEF Steady
  <2>4. QED
    BY <2>2, <2>3
<1>8. CASE ExecPushTry
  <2>1. /\ pc' = pc + 1 /\ UNCHANGED <<code, lastError, iters>>
        /\ pc \in DOMAIN code /\ code[pc].op = "PushTry" /\ Steady
        /\ Drain(pending, "running")
    BY <1>0, <1>8 DEF ExecPushTry, Fetches
  <2>2. Internal \notin HostEvents /\ Internal # "running"
    BY CodesAssumption DEF HostEvents, AllErrors
  <2>3. NoInternalError'
    BY <1>0, <1>a, <2>1, <2>2 DEF Drain, NoInternalError
  <2>4. QED
    BY <1>0, <2>1, <2>3, AdvanceSteady
<1>9. CASE ExecStoreLastError
  <2>1. pc \in DOMAIN code /\ code[pc].op = "StoreLastError" /\ Steady
    BY <1>0, <1>9 DEF ExecStoreLastError, Fetches
  <2>2. lastError # NoError
    BY <1>0, <2>1, NothingMalformed
  <2>3. GoTo(pc + 1, pending) /\ UNCHANGED iters
    BY <1>9, <2>2 DEF ExecStoreLastError, Advance
  <2>4. QED
    BY <1>0, <1>a, <2>1, <2>3, GoToKeeps, AdvanceSteady
<1>10. CASE ExecIterHasNext
  <2> DEFINE it == code[pc].site
  <2>1. pc \in DOMAIN code /\ code[pc].op = "IterHasNext" /\ Steady
    BY <1>0, <1>10 DEF ExecIterHasNext, Fetches
  <2>2. it \in DOMAIN iters
    BY <1>0, <2>1, NothingMalformed
  <2>3. /\ GoTo(pc + 1, pending) /\ UNCHANGED iters
        /\ SetTemp(code[pc].dst, IF iters[it].cursor < iters[it].len THEN 1 ELSE 0)
    BY <1>10, <2>2 DEF ExecIterHasNext, Advance
  <2>4. /\ NoInternalError' /\ pc' = pc + 1 /\ code' = code
        /\ lastError' = lastError
    BY <1>0, <1>a, <2>3, GoToKeeps
  <2>5. DOMAIN code \subseteq Nat /\ pc \in Nat /\ code[pc] \in Instructions
    BY <1>0, <2>1, CodeIsSequence
  <2>6. temps'[code[pc].dst] = IF iters[it].cursor < iters[it].len THEN 1 ELSE 0
    BY <1>0, <2>3, <2>5 DEF SetTemp, Typed, VMTypeOK, Instructions
  <2>7. Started'
    BY <2>1, <2>3, <2>4, <2>5 DEF Steady, Started
  <2>8. Tested'
    BY <2>1, <2>2, <2>3, <2>4, <2>5, <2>6 DEF Tested
  <2>9. HasElement'
    BY <1>0, <2>1, <2>4, <2>5 DEF Guarded, HasElement
  <2>10. HasError'
    BY <1>0, <2>1, <2>4, <2>5 DEF Guarded, Steady, HasError
  <2>11. QED
    BY <2>4, <2>7, <2>8, <2>9, <2>10 DEF Steady
<1>11. CASE ExecIterNext
  <2> DEFINE it == code[pc].site
  <2>1. pc \in DOMAIN code /\ code[pc].op = "IterNext" /\ Steady
    BY <1>0, <1>11 DEF ExecIterNext, Fetches
  <2>2. it \in DOMAIN iters /\ ~ (iters[it].cursor >= iters[it].len)
    BY <1>0, <2>1, NothingMalformed
  <2>3. /\ GoTo(pc + 1, pending)
        /\ iters' = [iters EXCEPT ![it].cursor = @ + 1]
    BY <1>11, <2>2 DEF ExecIterNext, Advance
  <2>4. DOMAIN iters' = DOMAIN iters
    BY <2>3
  <2>5. QED
    BY <1>0, <1>a, <2>1, <2>3, <2>4, GoToKeeps, AdvanceSteady
<1>12. CASE ExecStoreBinding
  <2>1. GoTo(pc + 1, pending) /\ UNCHANGED iters
    BY <1>12 DEF ExecStoreBinding, Advance
  <2>2. QED
    BY <1>0, <1>12, <1>a, <2>1, GoToKeeps, AdvanceSteady DEF ExecStoreBinding, Fetches
<1>13. CASE ExecReturn
  <2>1. /\ UNCHANGED <<code, pc, lastError, temps, iters>>
        /\ result' \in {"returned"} \cup HostEvents
    BY <1>13, <1>a DEF ExecReturn, Drain
  <2>2. Internal \notin HostEvents /\ Internal # "returned"
    BY CodesAssumption DEF HostEvents, AllErrors
  <2>3. result' # "running"
    <3>1. result' = "returned" \/ (pending # NoError /\ result' = pending)
      BY <1>13 DEF ExecReturn, Drain
    <3>2. pending # NoError => pending # "running"
      BY <1>a, CodesAssumption DEF HostEvents, AllErrors
    <3>3. QED
      BY <3>1, <3>2
  <2>4. QED
    BY <1>0, <2>1, <2>2, <2>3 DEF NoInternalError
<1>14. CASE VMFinished \/ UNCHANGED vmVars
  BY <1>0, <1>14 DEF VMFinished, vmVars, NoInternalError, Steady, Started, Tested,
     HasElement, HasError
<1>15. QED
  BY <1>1, <1>2, <1>3, <1>4, <1>5, <1>6, <1>7, <1>8, <1>9, <1>10, <1>11, <1>12,
     <1>13, <1>14 DEF VMNext

\* Code in which iterators and catch blocks are guarded is never found
\* malformed: every iterator is started before it is asked and has an element
\* when it is asked for one, and every catch block has an error to bind, whatever
\* is evaluated and wherever jumps leave try bodies.
THEOREM NeverMalformed == AllGuarded => (VMSpec => []NoInternalError)
<1> SUFFICES ASSUME AllGuarded PROVE VMSpec => []NoInternalError
  OBVIOUS
<1>1. MInv /\ [VMNext]_vmVars => MInv'
  BY MInvStep
<1>2. MInv => NoInternalError
  BY DEF MInv
<1>3. QED
  BY <1>1, <1>2, MInvInit, PTL DEF VMSpec

-----------------------------------------------------------------------------
(***************************************************************************)
(* Pieces of code.  What a piece of emitted code promises to the code      *)
(* around it, so that pieces can be put together: E are the labels in it   *)
(* that jumps from elsewhere may lead to, F and B those it jumps to that   *)
(* are still to come, and that came before, H the iterators it asks but    *)
(* does not start.  `clean` says that no `continue` leaves a try body.     *)
(***************************************************************************)
SiteNames ==
  Nat \X {"none", "outputs", "act", "subject", "catch", "for", "bind", "lhs", "rhs",
          "cond", "case"} \X Nat
LabelNames == Nat \X {"none", "head", "end", "catch", "miss"} \X Nat
Instrs == [op : Ops, site : SiteNames, dst : Temps, target : LabelNames]

Defines(c, j, l) == c[j].op = "Label" /\ c[j].target = l
Def(c) == {c[j].target : j \in {i \in DOMAIN c : c[i].op = "Label"}}
Uses(c, i) == c[i].op \in Jumps \cup {"PushTry"}
Try(c, p, k) == c[p].op = "PushTry" /\ Defines(c, k, c[p].target)

LabelsOnce(c) ==
  \A i, j \in DOMAIN c :
    c[i].op = "Label" /\ c[j].op = "Label" /\ c[i].target = c[j].target => i = j

UsesKnown(c, O) ==
  \A i \in DOMAIN c : Uses(c, i) =>
    c[i].target \in Def(c) \/ (c[i].op # "PushTry" /\ c[i].target \in O)

TriesNest(c) ==
  \A p, k \in DOMAIN c : Try(c, p, k) =>
    /\ p < k
    /\ \A q, l \in DOMAIN c : Try(c, q, l) /\ p < q /\ q < k => l < k

\* A jump within a try body leads to a label within it or behind it, and none
\* leads into one.
JumpsKeep(c, F, E) ==
  \A p, k \in DOMAIN c : Try(c, p, k) =>
    /\ \A i \in DOMAIN c : c[i].op \in Jumps /\ p < i /\ i < k => c[i].target \in Def(c) \cup F
    /\ \A i, j \in DOMAIN c : c[i].op \in Jumps /\ Defines(c, j, c[i].target) =>
         /\ p < j /\ j < k => p < i /\ i < k
         /\ p < i /\ i < k => p < j
    /\ \A j \in DOMAIN c : c[j].op = "Label" /\ p < j /\ j < k => c[j].target \notin E

\* Nothing leads into the stretch behind s up to e.
Closed(c, s, e, E) ==
  /\ \A i, j \in DOMAIN c : Uses(c, i) /\ Defines(c, j, c[i].target) /\ s < j /\ j <= e =>
       s < i /\ i <= e
  /\ \A j \in DOMAIN c : c[j].op = "Label" /\ s < j /\ j <= e => c[j].target \notin E

ItersStarted(c, E, H) ==
  \A u \in DOMAIN c : c[u].op = "IterHasNext" =>
    \/ c[u].site \in H
    \/ \E s, e \in DOMAIN c : /\ c[s].op = "IterStart" /\ c[s].site = c[u].site
                              /\ s < u /\ u <= e /\ Closed(c, s, e, E)

ElementsTested(c) ==
  \A n \in DOMAIN c : c[n].op = "IterNext" =>
    /\ n > 2
    /\ c[n-2].op = "IterHasNext" /\ c[n-2].site = c[n].site
    /\ c[n-1].op = "JumpIfFalse" /\ c[n-1].dst = c[n-2].dst

CatchesSealed(c, E) ==
  \A s \in DOMAIN c : c[s].op = "StoreLastError" =>
    /\ s > 2
    /\ c[s-1].op = "Label" /\ c[s-2].op = "Jump"
    /\ c[s-1].target \notin E
    /\ \A i \in DOMAIN c : c[i].op \in Jumps => c[i].target # c[s-1].target

Piece(clean, c, E, F, B, H) ==
  /\ c \in Seq(Instrs)
  /\ LabelsOnce(c)
  /\ UsesKnown(c, F \cup B)
  /\ clean => TriesNest(c) /\ JumpsKeep(c, F, E)
  /\ ItersStarted(c, E, H)
  /\ ElementsTested(c)
  /\ CatchesSealed(c, E)

\* What a concatenation has where.
LEMMA ConcatIs ==
  ASSUME NEW a \in Seq(Instrs), NEW b \in Seq(Instrs)
  PROVE  /\ a \o b \in Seq(Instrs) /\ Len(a) \in Nat /\ Len(b) \in Nat
         /\ DOMAIN a = 1 .. Len(a) /\ DOMAIN b = 1 .. Len(b)
         /\ Len(a \o b) = Len(a) + Len(b) /\ DOMAIN (a \o b) = 1 .. Len(a) + Len(b)
         /\ \A i \in 1 .. Len(a) : (a \o b)[i] = a[i]
         /\ \A i \in 1 .. Len(b) : (a \o b)[Len(a) + i] = b[i]
  OBVIOUS

\* The labels of a concatenation are those of its parts.
LEMMA ConcatDef ==
  ASSUME NEW a \in Seq(Instrs), NEW b \in Seq(Instrs)
  PROVE  Def(a \o b) = Def(a) \cup Def(b)
<1> DEFINE c == a \o b
           m == Len(a)
           n == Len(b)
<1>1. /\ m \in Nat /\ n \in Nat /\ DOMAIN a = 1 .. m /\ DOMAIN b = 1 .. n
      /\ DOMAIN c = 1 .. m + n
      /\ \A i \in 1 .. m : c[i] = a[i]
      /\ \A i \in 1 .. n : c[m + i] = b[i]
  BY ConcatIs
<1> HIDE DEF c, m, n
<1>2. ASSUME NEW l \in Def(c) PROVE l \in Def(a) \cup Def(b)
  <2>1. PICK j \in DOMAIN c : c[j].op = "Label" /\ c[j].target = l
    BY DEF Def
  <2>2. CASE j \in 1 .. m
    BY <1>1, <2>1, <2>2 DEF Def
  <2>3. CASE j \notin 1 .. m
    <3>1. j - m \in 1 .. n /\ m + (j - m) = j
      BY <1>1, <2>1, <2>3
    <3> DEFINE x == j - m
    <3>2. x \in 1 .. n /\ m + x = j
      BY <3>1
    <3> HIDE DEF x
    <3>3. b[x] = c[j]
      BY <1>1, <3>2
    <3> QED BY <1>1, <2>1, <3>2, <3>3 DEF Def
  <2> QED BY <2>2, <2>3
<1>3. ASSUME NEW l \in Def(a) PROVE l \in Def(c)
  <2>1. PICK j \in DOMAIN a : a[j].op = "Label" /\ a[j].target = l
    BY DEF Def
  <2>2. j \in DOMAIN c /\ c[j] = a[j]
    BY <1>1, <2>1
  <2> QED BY <2>1, <2>2 DEF Def
<1>4. ASSUME NEW l \in Def(b) PROVE l \in Def(c)
  <2>1. PICK j \in DOMAIN b : b[j].op = "Label" /\ b[j].target = l
    BY DEF Def
  <2>2. m + j \in DOMAIN c /\ c[m + j] = b[j]
    BY <1>1, <2>1
  <2> QED BY <2>1, <2>2 DEF Def
<1> QED BY <1>2, <1>3, <1>4 DEF c

Apart(S, T) == S \cap T = {}
DefIs(c, S) == Def(c) = S

\* What is asked of two pieces that follow each other.
Joins(a, b, Ea, Eb, Fa, Fb, Ba, Bb, Ha, Hb, E, F, B, H) ==
  /\ Def(a) \cap Def(b) = {} /\ Fb \cap Def(a) = {} /\ Ba \cap Def(b) = {}
  /\ Fa \cap Def(b) \subseteq Eb /\ Bb \cap Def(a) \subseteq Ea
  /\ E \cap Def(a) \subseteq Ea /\ E \cap Def(b) \subseteq Eb
  /\ Fa \ Def(b) \subseteq F /\ Fb \subseteq F /\ Ba \subseteq B /\ Bb \ Def(a) \subseteq B
  /\ Ha \cup Hb \subseteq H

\* Two pieces, one after the other.
LEMMA ConcatPieces ==
  ASSUME NEW clean, NEW a, NEW b, NEW Ea, NEW Eb, NEW Fa, NEW Fb, NEW Ba, NEW Bb,
         NEW Ha, NEW Hb, NEW E, NEW F, NEW B, NEW H,
         Piece(clean, a, Ea, Fa, Ba, Ha), Piece(clean, b, Eb, Fb, Bb, Hb),
         Joins(a, b, Ea, Eb, Fa, Fb, Ba, Bb, Ha, Hb, E, F, B, H)
  PROVE  Piece(clean, a \o b, E, F, B, H)
<1> DEFINE c == a \o b
           m == Len(a)
           n == Len(b)
           X(i) == i - m
           A == DOMAIN a
           D == DOMAIN b
<1>0. /\ Def(a) \cap Def(b) = {} /\ Fb \cap Def(a) = {} /\ Ba \cap Def(b) = {}
      /\ Fa \cap Def(b) \subseteq Eb /\ Bb \cap Def(a) \subseteq Ea
      /\ E \cap Def(a) \subseteq Ea /\ E \cap Def(b) \subseteq Eb
      /\ Fa \ Def(b) \subseteq F /\ Fb \subseteq F /\ Ba \subseteq B /\ Bb \ Def(a) \subseteq B
      /\ Ha \cup Hb \subseteq H
  BY DEF Joins
<1> USE <1>0
<1>1. a \in Seq(Instrs) /\ b \in Seq(Instrs)
  BY DEF Piece
<1>2. /\ m \in Nat /\ n \in Nat /\ A = 1 .. m /\ D = 1 .. n
      /\ DOMAIN c = 1 .. m + n /\ c \in Seq(Instrs)
      /\ \A i \in 1 .. m : c[i] = a[i]
      /\ \A i \in 1 .. n : c[m + i] = b[i]
  BY <1>1, ConcatIs
<1>3. Def(c) = Def(a) \cup Def(b)
  BY <1>1, ConcatDef
<1> HIDE DEF c, m, n, A, D
<1>4. \A i \in DOMAIN c : i \in Int /\ (i \in A \/ X(i) \in D)
  BY <1>2
<1>5. \A i \in A : i \in DOMAIN c /\ c[i] = a[i]
  BY <1>2
<1>6. ASSUME NEW i \in DOMAIN c, i \notin A
      PROVE  X(i) \in D /\ c[i] = b[X(i)]
  <2>1. X(i) \in 1 .. n /\ m + X(i) = i
    BY <1>2, <1>6
  <2> HIDE DEF X
  <2> QED BY <1>2, <2>1
<1>7. \A i \in A : \A j \in DOMAIN c : j \notin A => i < j /\ ~ (j < i) /\ ~ (j <= i)
  BY <1>2
<1>8. \A i, j \in DOMAIN c : i \notin A /\ j \notin A =>
        (X(i) < X(j) <=> i < j) /\ (X(i) <= X(j) <=> i <= j) /\ (X(i) = X(j) <=> i = j)
  BY <1>2
<1>9. \A x \in D : m + x \in DOMAIN c /\ m + x \notin A /\ X(m + x) = x
  BY <1>2
<1> HIDE DEF X
<1>10. \A j \in A : a[j].op = "Label" => a[j].target \in Def(a)
  BY DEF Def, A
<1>11. \A j \in D : b[j].op = "Label" => b[j].target \in Def(b)
  BY DEF Def, D
<1>12. \A i \in A : Uses(a, i) =>
         a[i].target \in Def(a) \/ (a[i].op # "PushTry" /\ a[i].target \in Fa \cup Ba)
  BY DEF Piece, UsesKnown, A
<1>13. \A i \in D : Uses(b, i) =>
         b[i].target \in Def(b) \/ (b[i].op # "PushTry" /\ b[i].target \in Fb \cup Bb)
  BY DEF Piece, UsesKnown, D
<1>14. LabelsOnce(c)
  <2> SUFFICES ASSUME NEW i \in DOMAIN c, NEW j \in DOMAIN c, c[i].op = "Label", c[j].op = "Label",
                      c[i].target = c[j].target
               PROVE  i = j
    BY DEF LabelsOnce
  <2>1. CASE i \in A /\ j \in A
    BY <1>5, <2>1 DEF Piece, LabelsOnce, A
  <2>2. CASE i \notin A /\ j \notin A
    <3>1. X(i) = X(j)
      BY <1>6, <2>2 DEF Piece, LabelsOnce, D
    <3> QED BY <1>8, <2>2, <3>1
  <2>3. CASE (i \in A /\ j \notin A) \/ (i \notin A /\ j \in A)
    BY <1>5, <1>6, <1>10, <1>11, <2>3
  <2> QED BY <2>1, <2>2, <2>3
<1>15. UsesKnown(c, F \cup B)
  <2> SUFFICES ASSUME NEW i \in DOMAIN c, Uses(c, i)
               PROVE  c[i].target \in Def(c) \/ (c[i].op # "PushTry" /\ c[i].target \in F \cup B)
    BY DEF UsesKnown
  <2>1. CASE i \in A
    BY <1>3, <1>5, <1>12, <2>1 DEF Uses
  <2>2. CASE i \notin A
    BY <1>3, <1>6, <1>13, <2>2 DEF Uses
  <2> QED BY <2>1, <2>2
\* Where a use leads.
<1>16. ASSUME NEW i \in DOMAIN c, NEW j \in DOMAIN c, Uses(c, i), Defines(c, j, c[i].target)
       PROVE  /\ i \in A /\ j \in A => Uses(a, i) /\ Defines(a, j, a[i].target)
              /\ i \notin A /\ j \notin A => Uses(b, X(i)) /\ Defines(b, X(j), b[X(i)].target)
              /\ i \in A /\ j \notin A => /\ a[i].op # "PushTry" /\ a[i].target \in Fa
                                          /\ a[i].target \notin Def(a) /\ b[X(j)].target \in Eb
              /\ i \notin A /\ j \in A => /\ b[X(i)].op # "PushTry" /\ b[X(i)].target \notin Fb
                                          /\ b[X(i)].target \notin Def(b) /\ a[j].target \in Ea
  <2>1. CASE i \in A /\ j \in A
    BY <1>5, <1>16, <2>1 DEF Uses, Defines
  <2>2. CASE i \notin A /\ j \notin A
    BY <1>6, <1>16, <2>2 DEF Uses, Defines
  <2>3. CASE i \in A /\ j \notin A
    <3>1. c[i] = a[i] /\ Uses(a, i) /\ X(j) \in D /\ b[X(j)].op = "Label" /\ b[X(j)].target = a[i].target
      BY <1>5, <1>6, <1>16, <2>3 DEF Uses, Defines
    <3>2. a[i].target \in Def(b)
      BY <1>11, <3>1
    <3> QED BY <1>12, <2>3, <3>1, <3>2
  <2>4. CASE i \notin A /\ j \in A
    <3>1. c[i] = b[X(i)] /\ X(i) \in D /\ Uses(b, X(i)) /\ a[j].op = "Label" /\ a[j].target = b[X(i)].target
      BY <1>5, <1>6, <1>16, <2>4 DEF Uses, Defines
    <3>2. b[X(i)].target \in Def(a)
      BY <1>10, <2>4, <3>1
    <3> QED BY <1>13, <2>4, <3>1, <3>2
  <2> QED BY <2>1, <2>2, <2>3, <2>4
<1>17. ASSUME NEW p \in DOMAIN c, NEW k \in DOMAIN c, Try(c, p, k)
       PROVE  \/ p \in A /\ k \in A /\ Try(a, p, k)
              \/ p \notin A /\ k \notin A /\ Try(b, X(p), X(k))
  <2>1. Uses(c, p) /\ Defines(c, k, c[p].target) /\ c[p].op = "PushTry"
    BY <1>17 DEF Uses, Try
  <2>2. p \in A => a[p].op = "PushTry"
    BY <1>5, <2>1
  <2>3. p \notin A => b[X(p)].op = "PushTry"
    BY <1>6, <2>1
  <2> QED BY <1>16, <2>1, <2>2, <2>3 DEF Try
<1>18. ASSUME clean PROVE TriesNest(c)
  <2>1. TriesNest(a) /\ TriesNest(b)
    BY <1>18 DEF Piece
  <2> SUFFICES ASSUME NEW p \in DOMAIN c, NEW k \in DOMAIN c, Try(c, p, k)
               PROVE  /\ p < k
                      /\ \A q, l \in DOMAIN c : Try(c, q, l) /\ p < q /\ q < k => l < k
    BY DEF TriesNest
  <2>2. CASE p \in A /\ k \in A /\ Try(a, p, k)
    <3>1. p < k
      BY <2>1, <2>2 DEF TriesNest, A
    <3>2. ASSUME NEW q \in DOMAIN c, NEW l \in DOMAIN c, Try(c, q, l), p < q, q < k
          PROVE  l < k
      <4>1. q \in A
        BY <1>7, <2>2, <3>2
      <4>2. l \in A /\ Try(a, q, l)
        BY <1>17, <3>2, <4>1
      <4> QED BY <2>1, <2>2, <3>2, <4>1, <4>2 DEF TriesNest, A
    <3> QED BY <3>1, <3>2
  <2>3. CASE p \notin A /\ k \notin A /\ Try(b, X(p), X(k))
    <3>0. X(p) \in D /\ X(k) \in D
      BY <1>6, <2>3
    <3>1. X(p) < X(k)
      BY <2>1, <2>3, <3>0 DEF TriesNest, D
    <3>2. ASSUME NEW q \in DOMAIN c, NEW l \in DOMAIN c, Try(c, q, l), p < q, q < k
          PROVE  l < k
      <4>1. q \notin A
        BY <1>7, <2>3, <3>2
      <4>2. l \notin A /\ Try(b, X(q), X(l)) /\ X(q) \in D /\ X(l) \in D
        BY <1>6, <1>17, <3>2, <4>1
      <4>3. X(p) < X(q) /\ X(q) < X(k)
        BY <1>8, <2>3, <3>2, <4>1
      <4>4. X(l) < X(k)
        BY <2>1, <2>3, <3>0, <4>2, <4>3 DEF TriesNest, D
      <4> QED BY <1>8, <2>3, <4>2, <4>4
    <3> QED BY <1>8, <2>3, <3>1, <3>2
  <2> QED BY <1>17, <2>2, <2>3
<1>19. ASSUME clean PROVE JumpsKeep(c, F, E)
  <2>1. JumpsKeep(a, Fa, Ea) /\ JumpsKeep(b, Fb, Eb)
    BY <1>19 DEF Piece
  <2> SUFFICES ASSUME NEW p \in DOMAIN c, NEW k \in DOMAIN c, Try(c, p, k)
               PROVE
    /\ \A i \in DOMAIN c : c[i].op \in Jumps /\ p < i /\ i < k => c[i].target \in Def(c) \cup F
    /\ \A i, j \in DOMAIN c : c[i].op \in Jumps /\ Defines(c, j, c[i].target) =>
         /\ p < j /\ j < k => p < i /\ i < k
         /\ p < i /\ i < k => p < j
    /\ \A j \in DOMAIN c : c[j].op = "Label" /\ p < j /\ j < k => c[j].target \notin E
    BY DEF JumpsKeep
  <2>2. CASE p \in A /\ k \in A /\ Try(a, p, k)
    <3>0. \A i \in DOMAIN c : p < i /\ i < k => i \in A
      BY <1>7, <2>2
    <3>1. /\ \A i \in A : a[i].op \in Jumps /\ p < i /\ i < k => a[i].target \in Def(a) \cup Fa
          /\ \A i, j \in A : a[i].op \in Jumps /\ Defines(a, j, a[i].target) =>
               /\ p < j /\ j < k => p < i /\ i < k
               /\ p < i /\ i < k => p < j
          /\ \A j \in A : a[j].op = "Label" /\ p < j /\ j < k => a[j].target \notin Ea
      BY <2>1, <2>2 DEF JumpsKeep, A
    <3>2. ASSUME NEW i \in DOMAIN c, c[i].op \in Jumps, p < i, i < k
          PROVE  c[i].target \in Def(c) \cup F
      BY <1>3, <1>5, <3>0, <3>1, <3>2
    <3>3. ASSUME NEW i \in DOMAIN c, NEW j \in DOMAIN c, c[i].op \in Jumps,
                 Defines(c, j, c[i].target)
          PROVE  /\ p < j /\ j < k => p < i /\ i < k
                 /\ p < i /\ i < k => p < j
      <4>1. Uses(c, i)
        BY <3>3 DEF Uses
      <4>2. CASE i \in A /\ j \in A
        BY <1>5, <1>16, <3>1, <3>3, <4>1, <4>2
      <4>3. CASE i \notin A /\ j \in A
        <5>1. a[j].op = "Label" /\ a[j].target \in Ea
          BY <1>5, <1>16, <3>3, <4>1, <4>3 DEF Defines
        <5> QED BY <3>0, <3>1, <4>3, <5>1
      <4>4. CASE j \notin A
        BY <1>7, <2>2, <3>0, <4>4
      <4> QED BY <4>2, <4>3, <4>4
    <3>4. ASSUME NEW j \in DOMAIN c, c[j].op = "Label", p < j, j < k
          PROVE  c[j].target \notin E
      <4>1. j \in A /\ c[j] = a[j]
        BY <1>5, <3>0, <3>4
      <4> QED BY <1>10, <3>1, <3>4, <4>1
    <3> QED BY <3>2, <3>3, <3>4
  <2>3. CASE p \notin A /\ k \notin A /\ Try(b, X(p), X(k))
    <3>0. /\ X(p) \in D /\ X(k) \in D
          /\ \A i \in DOMAIN c : p < i /\ i < k => i \notin A
          /\ \A i \in DOMAIN c : i \notin A =>
               X(i) \in D /\ c[i] = b[X(i)] /\ (X(p) < X(i) <=> p < i) /\ (X(i) < X(k) <=> i < k)
      BY <1>6, <1>7, <1>8, <2>3
    <3>1. /\ \A i \in D : b[i].op \in Jumps /\ X(p) < i /\ i < X(k) => b[i].target \in Def(b) \cup Fb
          /\ \A i, j \in D : b[i].op \in Jumps /\ Defines(b, j, b[i].target) =>
               /\ X(p) < j /\ j < X(k) => X(p) < i /\ i < X(k)
               /\ X(p) < i /\ i < X(k) => X(p) < j
          /\ \A j \in D : b[j].op = "Label" /\ X(p) < j /\ j < X(k) => b[j].target \notin Eb
      BY <2>1, <2>3, <3>0 DEF JumpsKeep, D
    <3>2. ASSUME NEW i \in DOMAIN c, c[i].op \in Jumps, p < i, i < k
          PROVE  c[i].target \in Def(c) \cup F
      BY <1>3, <3>0, <3>1, <3>2
    <3>3. ASSUME NEW i \in DOMAIN c, NEW j \in DOMAIN c, c[i].op \in Jumps,
                 Defines(c, j, c[i].target)
          PROVE  /\ p < j /\ j < k => p < i /\ i < k
                 /\ p < i /\ i < k => p < j
      <4>1. Uses(c, i)
        BY <3>3 DEF Uses
      <4>2. CASE i \notin A /\ j \notin A
        <5>1. Defines(b, X(j), b[X(i)].target) /\ b[X(i)].op \in Jumps
          BY <1>16, <3>0, <3>3, <4>1, <4>2
        <5> QED BY <3>0, <3>1, <4>2, <5>1
      <4>3. CASE i \in A /\ j \notin A
        <5>1. b[X(j)].op = "Label" /\ b[X(j)].target \in Eb
          BY <1>16, <3>0, <3>3, <4>1, <4>3 DEF Defines
        <5> QED BY <3>0, <3>1, <4>3, <5>1
      <4>4. CASE i \notin A /\ j \in A
        <5>1. b[X(i)].op \in Jumps /\ b[X(i)].target \notin Fb /\ b[X(i)].target \notin Def(b)
          BY <1>16, <3>0, <3>3, <4>1, <4>4
        <5> QED BY <3>0, <3>1, <4>4, <5>1
      <4>5. CASE i \in A /\ j \in A
        BY <3>0, <4>5
      <4> QED BY <4>2, <4>3, <4>4, <4>5
    <3>4. ASSUME NEW j \in DOMAIN c, c[j].op = "Label", p < j, j < k
          PROVE  c[j].target \notin E
      <4>1. X(j) \in D /\ c[j] = b[X(j)] /\ X(p) < X(j) /\ X(j) < X(k)
        BY <3>0, <3>4
      <4> QED BY <1>11, <3>1, <3>4, <4>1
    <3> QED BY <3>2, <3>3, <3>4
  <2> QED BY <1>17, <2>2, <2>3
<1>20. ItersStarted(c, E, H)
  <2> SUFFICES ASSUME NEW u \in DOMAIN c, c[u].op = "IterHasNext", c[u].site \notin H
               PROVE  \E s, e \in DOMAIN c :
                        /\ c[s].op = "IterStart" /\ c[s].site = c[u].site
                        /\ s < u /\ u <= e /\ Closed(c, s, e, E)
    BY DEF ItersStarted
  <2>1. CASE u \in A
    <3>1. a[u].op = "IterHasNext" /\ a[u].site \notin Ha /\ c[u] = a[u]
      BY <1>5, <2>1
    <3>2. PICK s \in A, e \in A : /\ a[s].op = "IterStart" /\ a[s].site = a[u].site
                                  /\ s < u /\ u <= e /\ Closed(a, s, e, Ea)
      BY <2>1, <3>1 DEF Piece, ItersStarted, A
    <3>3. \A j \in DOMAIN c : j <= e => j \in A
      BY <1>7, <3>2
    <3>4. ASSUME NEW i \in DOMAIN c, NEW j \in DOMAIN c, Uses(c, i), Defines(c, j, c[i].target),
                 s < j, j <= e
          PROVE  s < i /\ i <= e
      <4>1. j \in A
        BY <3>3, <3>4
      <4>2. CASE i \in A
        BY <1>16, <3>2, <3>4, <4>1, <4>2 DEF Closed, A
      <4>3. CASE i \notin A
        <5>1. a[j].target \in Ea /\ a[j].op = "Label"
          BY <1>5, <1>16, <3>4, <4>1, <4>3 DEF Defines
        <5> QED BY <3>2, <3>4, <4>1, <5>1 DEF Closed, A
      <4> QED BY <4>2, <4>3
    <3>5. ASSUME NEW j \in DOMAIN c, c[j].op = "Label", s < j, j <= e
          PROVE  c[j].target \notin E
      <4>1. j \in A /\ c[j] = a[j]
        BY <1>5, <3>3, <3>5
      <4>2. a[j].target \notin Ea
        BY <3>2, <3>5, <4>1 DEF Closed, A
      <4> QED BY <1>10, <3>5, <4>1, <4>2
    <3>6. Closed(c, s, e, E)
      BY <3>4, <3>5 DEF Closed
    <3> QED BY <1>5, <3>1, <3>2, <3>6
  <2>2. CASE u \notin A
    <3>1. X(u) \in D /\ b[X(u)].op = "IterHasNext" /\ b[X(u)].site \notin Hb /\ c[u] = b[X(u)]
      BY <1>6, <2>2
    <3>2. PICK x \in D, y \in D : /\ b[x].op = "IterStart" /\ b[x].site = b[X(u)].site
                                  /\ x < X(u) /\ X(u) <= y /\ Closed(b, x, y, Eb)
      BY <3>1 DEF Piece, ItersStarted, D
    <3> DEFINE s == m + x
               e == m + y
    <3>3. s \in DOMAIN c /\ s \notin A /\ X(s) = x /\ e \in DOMAIN c /\ e \notin A /\ X(e) = y
      BY <1>9
    <3> HIDE DEF s, e
    <3>4. s < u /\ u <= e /\ c[s] = b[x]
      BY <1>6, <1>8, <2>2, <3>2, <3>3
    <3>5. \A j \in DOMAIN c : s < j => /\ j \notin A /\ X(j) \in D /\ c[j] = b[X(j)] /\ x < X(j)
                                      /\ (X(j) <= y <=> j <= e)
      BY <1>6, <1>7, <1>8, <3>3
    <3>6. ASSUME NEW i \in DOMAIN c, NEW j \in DOMAIN c, Uses(c, i), Defines(c, j, c[i].target),
                 s < j, j <= e
          PROVE  s < i /\ i <= e
      <4>1. j \notin A /\ X(j) \in D /\ x < X(j) /\ X(j) <= y /\ c[j] = b[X(j)]
        BY <3>5, <3>6
      <4>2. CASE i \notin A
        <5>1. X(i) \in D /\ Uses(b, X(i)) /\ Defines(b, X(j), b[X(i)].target)
          BY <1>6, <1>16, <3>6, <4>1, <4>2
        <5>2. x < X(i) /\ X(i) <= y
          BY <3>2, <4>1, <5>1 DEF Closed, D
        <5> QED BY <1>8, <3>3, <4>2, <5>2
      <4>3. CASE i \in A
        <5>1. b[X(j)].target \in Eb /\ b[X(j)].op = "Label"
          BY <1>16, <3>6, <4>1, <4>3 DEF Defines
        <5> QED BY <3>2, <4>1, <5>1 DEF Closed, D
      <4> QED BY <4>2, <4>3
    <3>7. ASSUME NEW j \in DOMAIN c, c[j].op = "Label", s < j, j <= e
          PROVE  c[j].target \notin E
      <4>1. X(j) \in D /\ x < X(j) /\ X(j) <= y /\ c[j] = b[X(j)]
        BY <3>5, <3>7
      <4>2. b[X(j)].target \notin Eb
        BY <3>2, <3>7, <4>1 DEF Closed, D
      <4> QED BY <1>11, <3>7, <4>1, <4>2
    <3>8. Closed(c, s, e, E)
      BY <3>6, <3>7 DEF Closed
    <3> QED BY <3>1, <3>2, <3>3, <3>4, <3>8
  <2> QED BY <2>1, <2>2
\* The two instructions before one that has two before it in its piece.
<1>21. /\ \A i \in A : i > 2 => i - 1 \in A /\ i - 2 \in A
       /\ \A i \in DOMAIN c : i \notin A /\ X(i) > 2 =>
            /\ i > 2 /\ i - 1 \in DOMAIN c /\ i - 2 \in DOMAIN c
            /\ c[i - 1] = b[X(i) - 1] /\ c[i - 2] = b[X(i) - 2]
            /\ X(i) - 1 \in D
  <2>1. \A i \in A : i > 2 => i - 1 \in A /\ i - 2 \in A
    BY <1>2
  <2>2. ASSUME NEW i \in DOMAIN c, i \notin A, X(i) > 2
        PROVE  /\ i > 2 /\ i - 1 \in DOMAIN c /\ i - 2 \in DOMAIN c
               /\ c[i - 1] = b[X(i) - 1] /\ c[i - 2] = b[X(i) - 2]
               /\ X(i) - 1 \in D
    <3> DEFINE x == X(i)
    <3>1. x \in 1 .. n /\ i = m + x
      BY <1>2, <2>2 DEF X
    <3> HIDE DEF x
    <3>2. x > 2
      BY <2>2 DEF x
    <3>3. /\ x - 1 \in 1 .. n /\ x - 2 \in 1 .. n /\ m + (x - 1) = i - 1 /\ m + (x - 2) = i - 2
          /\ i > 2 /\ i - 1 \in 1 .. m + n /\ i - 2 \in 1 .. m + n
      BY <1>2, <3>1, <3>2
    <3>4. c[m + (x - 1)] = b[x - 1] /\ c[m + (x - 2)] = b[x - 2]
      BY <1>2, <3>3
    <3> QED BY <1>2, <3>3, <3>4 DEF x
  <2> QED BY <2>1, <2>2
<1>22. ElementsTested(c)
  <2> SUFFICES ASSUME NEW i \in DOMAIN c, c[i].op = "IterNext"
               PROVE  /\ i > 2
                      /\ c[i-2].op = "IterHasNext" /\ c[i-2].site = c[i].site
                      /\ c[i-1].op = "JumpIfFalse" /\ c[i-1].dst = c[i-2].dst
    BY DEF ElementsTested
  <2>1. CASE i \in A
    <3>1. a[i].op = "IterNext" /\ c[i] = a[i]
      BY <1>5, <2>1
    <3>2. /\ i > 2
          /\ a[i-2].op = "IterHasNext" /\ a[i-2].site = a[i].site
          /\ a[i-1].op = "JumpIfFalse" /\ a[i-1].dst = a[i-2].dst
      BY <2>1, <3>1 DEF Piece, ElementsTested, A
    <3> QED BY <1>5, <1>21, <2>1, <3>1, <3>2
  <2>2. CASE i \notin A
    <3> DEFINE x == X(i)
    <3>1. x \in D /\ b[x].op = "IterNext" /\ c[i] = b[x]
      BY <1>6, <2>2
    <3>2. /\ x > 2
          /\ b[x-2].op = "IterHasNext" /\ b[x-2].site = b[x].site
          /\ b[x-1].op = "JumpIfFalse" /\ b[x-1].dst = b[x-2].dst
      BY <3>1 DEF Piece, ElementsTested, D
    <3> QED BY <1>21, <2>2, <3>1, <3>2
  <2> QED BY <2>1, <2>2
<1>23. CatchesSealed(c, E)
  <2> SUFFICES ASSUME NEW s \in DOMAIN c, c[s].op = "StoreLastError"
               PROVE  /\ s > 2
                      /\ c[s-1].op = "Label" /\ c[s-2].op = "Jump"
                      /\ c[s-1].target \notin E
                      /\ \A i \in DOMAIN c : c[i].op \in Jumps => c[i].target # c[s-1].target
    BY DEF CatchesSealed
  <2>1. CASE s \in A
    <3>1. a[s].op = "StoreLastError"
      BY <1>5, <2>1
    <3>2. /\ s > 2
          /\ a[s-1].op = "Label" /\ a[s-2].op = "Jump"
          /\ a[s-1].target \notin Ea
          /\ \A i \in A : a[i].op \in Jumps => a[i].target # a[s-1].target
      BY <2>1, <3>1 DEF Piece, CatchesSealed, A
    <3> DEFINE t == s - 1
    <3>3. t \in A /\ s - 2 \in A
      BY <1>21, <2>1, <3>2
    <3>4. c[t] = a[t] /\ c[s-2] = a[s-2] /\ t \in DOMAIN c
      BY <1>5, <3>3
    <3>5. a[t].op = "Label" /\ a[t].target \notin Ea /\ a[t].target \in Def(a)
      BY <1>10, <3>2, <3>3
    <3> HIDE DEF t
    <3>6. ASSUME NEW i \in DOMAIN c, c[i].op \in Jumps
          PROVE  c[i].target # c[t].target
      <4>1. CASE i \in A
        BY <1>5, <3>2, <3>4, <3>6, <4>1 DEF t
      <4>2. CASE i \notin A
        <5> SUFFICES ASSUME c[i].target = c[t].target PROVE FALSE
          OBVIOUS
        <5>1. Uses(c, i) /\ Defines(c, t, c[i].target)
          BY <3>4, <3>5, <3>6 DEF Uses, Defines
        <5> QED BY <1>16, <3>3, <3>4, <3>5, <4>2, <5>1
      <4> QED BY <4>1, <4>2
    <3> QED BY <3>2, <3>4, <3>5, <3>6 DEF t
  <2>2. CASE s \notin A
    <3> DEFINE x == X(s)
    <3>1. x \in D /\ b[x].op = "StoreLastError"
      BY <1>6, <2>2
    <3>2. /\ x > 2
          /\ b[x-1].op = "Label" /\ b[x-2].op = "Jump"
          /\ b[x-1].target \notin Eb
          /\ \A i \in D : b[i].op \in Jumps => b[i].target # b[x-1].target
      BY <3>1 DEF Piece, CatchesSealed, D
    <3> DEFINE t == s - 1
    <3>3. s > 2 /\ t \in DOMAIN c /\ c[t] = b[x-1] /\ c[s-2] = b[x-2] /\ x - 1 \in D
      BY <1>21, <2>2, <3>2
    <3>5. c[t].op = "Label" /\ c[t].target \notin Eb /\ c[t].target \in Def(b)
      BY <1>11, <3>2, <3>3
    <3>6. ASSUME NEW i \in DOMAIN c, c[i].op \in Jumps
          PROVE  c[i].target # c[t].target
      <4>1. CASE i \notin A
        BY <1>6, <3>2, <3>3, <3>6, <4>1
      <4>2. CASE i \in A
        <5> SUFFICES ASSUME c[i].target = c[t].target PROVE FALSE
          OBVIOUS
        <5>1. a[i].target \in Def(b) /\ Uses(a, i)
          BY <1>5, <3>5, <3>6, <4>2 DEF Uses
        <5>2. a[i].target \in Eb
          BY <1>12, <4>2, <5>1
        <5> QED BY <1>5, <3>5, <4>2, <5>2
      <4> QED BY <4>1, <4>2
    <3> QED BY <3>2, <3>3, <3>5, <3>6
  <2> QED BY <2>1, <2>2
<1>24. Piece(clean, c, E, F, B, H)
  BY <1>2, <1>14, <1>15, <1>18, <1>19, <1>20, <1>22, <1>23 DEF Piece
<1> QED BY <1>3, <1>24 DEF c

-----------------------------------------------------------------------------
(***************************************************************************)
(* Single instructions as pieces.                                          *)
(***************************************************************************)
LEMMA InstrTypes ==
  /\ NoLabel \in LabelNames /\ NoSite \in SiteNames
  /\ \A site \in SiteNames :
       /\ Eval(site) \in Instrs /\ StoreLastError(site) \in Instrs /\ IterStart(site) \in Instrs
       /\ IterHasNext(site) \in Instrs /\ IterNext(site) \in Instrs /\ StoreBinding(site) \in Instrs
       /\ \A dst \in Temps : Test(site, dst) \in Instrs
  /\ \A l \in LabelNames :
       Label(l) \in Instrs /\ Jump(l) \in Instrs /\ JumpIfFalse(l) \in Instrs /\ PushTry(l) \in Instrs
  /\ \A test \in {"and", "or"} : BinaryLogical(test) \in Instrs
  /\ Return \in Instrs
<1> USE DEF Instr, Instrs, Ops, Temps
<1>1. NoLabel \in LabelNames /\ NoSite \in SiteNames
  BY DEF NoLabel, NoSite, LabelNames, SiteNames
<1>2. ASSUME NEW site \in SiteNames
      PROVE  /\ Eval(site) \in Instrs /\ StoreLastError(site) \in Instrs /\ IterStart(site) \in Instrs
             /\ IterHasNext(site) \in Instrs /\ IterNext(site) \in Instrs
             /\ StoreBinding(site) \in Instrs
             /\ \A dst \in Temps : Test(site, dst) \in Instrs
  BY <1>1 DEF Eval, StoreLastError, IterStart, IterHasNext, IterNext, StoreBinding, Test
<1>3. ASSUME NEW l \in LabelNames
      PROVE  /\ Label(l) \in Instrs /\ Jump(l) \in Instrs /\ JumpIfFalse(l) \in Instrs
             /\ PushTry(l) \in Instrs
  BY <1>1 DEF Label, Jump, JumpIfFalse, PushTry
<1>4. (\A test \in {"and", "or"} : BinaryLogical(test) \in Instrs) /\ Return \in Instrs
  BY <1>1 DEF BinaryLogical, Return
<1> QED BY <1>1, <1>2, <1>3, <1>4

\* Straight-line code.
PlainOps == {"Eval", "Test", "and", "or", "StoreBinding", "Return"}

\* Code that neither jumps nor is jumped to is a piece, whatever is around it.
LEMMA PlainPiece ==
  ASSUME NEW clean, NEW c \in Seq(Instrs), \A i \in DOMAIN c : c[i].op \in PlainOps,
         NEW E, NEW F, NEW B, NEW H
  PROVE  Piece(clean, c, E, F, B, H) /\ Def(c) = {}
<1>1. \A i \in DOMAIN c :
        /\ c[i].op \notin Jumps /\ c[i].op \notin {"Label", "PushTry", "IterHasNext", "IterNext",
                                                   "StoreLastError"}
  BY DEF PlainOps, Jumps
<1>2. Def(c) = {} /\ LabelsOnce(c)
  BY <1>1 DEF Def, LabelsOnce
<1>3. UsesKnown(c, F \cup B)
  BY <1>1 DEF UsesKnown, Uses
<1>4. TriesNest(c) /\ JumpsKeep(c, F, E)
  BY <1>1 DEF TriesNest, JumpsKeep, Try
<1>5. ItersStarted(c, E, H) /\ ElementsTested(c) /\ CatchesSealed(c, E)
  BY <1>1 DEF ItersStarted, ElementsTested, CatchesSealed
<1> QED BY <1>2, <1>3, <1>4, <1>5 DEF Piece

\* A jump is a piece whose label has to be found elsewhere.
LEMMA JumpPiece ==
  ASSUME NEW clean, NEW x \in Instrs, x.op \in Jumps, NEW F, NEW B, x.target \in F \cup B
  PROVE  Piece(clean, <<x>>, {}, F, B, {}) /\ Def(<<x>>) = {}
<1> DEFINE c == <<x>>
<1>1. c \in Seq(Instrs) /\ DOMAIN c = {1} /\ c[1] = x
  OBVIOUS
<1> HIDE DEF c
<1>2. \A i \in DOMAIN c :
        /\ c[i].op \in Jumps /\ c[i].op \notin {"Label", "PushTry", "IterHasNext", "IterNext",
                                                "StoreLastError"}
        /\ c[i].target \in F \cup B
  BY <1>1 DEF Jumps
<1>3. Def(c) = {} /\ LabelsOnce(c)
  BY <1>2 DEF Def, LabelsOnce
<1>4. UsesKnown(c, F \cup B)
  BY <1>2 DEF UsesKnown
<1>5. TriesNest(c) /\ JumpsKeep(c, F, {})
  BY <1>2 DEF TriesNest, JumpsKeep, Try
<1>6. ItersStarted(c, {}, {}) /\ ElementsTested(c) /\ CatchesSealed(c, {})
  BY <1>2 DEF ItersStarted, ElementsTested, CatchesSealed
<1> QED BY <1>1, <1>3, <1>4, <1>5, <1>6 DEF Piece, c

\* A label is a piece that may be entered.
LEMMA LabelPiece ==
  ASSUME NEW clean, NEW l \in LabelNames
  PROVE  Piece(clean, <<Label(l)>>, {l}, {}, {}, {}) /\ Def(<<Label(l)>>) = {l}
<1> DEFINE x == Label(l)
           c == <<x>>
<1>1. x \in Instrs /\ x.op = "Label" /\ x.target = l
  BY InstrTypes DEF Label, Instr
<1> HIDE DEF x
<1>2. c \in Seq(Instrs) /\ DOMAIN c = {1} /\ c[1] = x
  BY <1>1
<1> HIDE DEF c
<1>3. \A i \in DOMAIN c : c[i].op = "Label" /\ c[i].target = l /\ i = 1
  BY <1>1, <1>2
<1>4. Def(c) = {l}
  BY <1>2, <1>3 DEF Def
<1>5. LabelsOnce(c)
  BY <1>3 DEF LabelsOnce
<1>6. UsesKnown(c, {} \cup {}) /\ TriesNest(c) /\ JumpsKeep(c, {}, {l})
  BY <1>3 DEF UsesKnown, Uses, TriesNest, JumpsKeep, Try, Jumps
<1>7. ItersStarted(c, {l}, {}) /\ ElementsTested(c) /\ CatchesSealed(c, {l})
  BY <1>3 DEF ItersStarted, ElementsTested, CatchesSealed
<1> QED BY <1>2, <1>4, <1>5, <1>6, <1>7 DEF Piece, c, x

\* A jump away followed by a label: only a jump reaches what follows.
LEMMA JumpLabelPiece ==
  ASSUME NEW clean, NEW k \in LabelNames, NEW l \in LabelNames, k # l, NEW F, NEW B, k \in F \cup B
  PROVE  /\ Piece(clean, <<Jump(k), Label(l)>>, {l}, F, B, {})
         /\ Def(<<Jump(k), Label(l)>>) = {l}
<1> DEFINE x == Jump(k)
           y == Label(l)
           c == <<x, y>>
<1>1. /\ x \in Instrs /\ x.op = "Jump" /\ x.target = k
      /\ y \in Instrs /\ y.op = "Label" /\ y.target = l
  BY InstrTypes DEF Jump, Label, Instr
<1> HIDE DEF x, y
<1>2. c \in Seq(Instrs) /\ DOMAIN c = {1, 2} /\ c[1] = x /\ c[2] = y
  BY <1>1
<1> HIDE DEF c
<1>3. Def(c) = {l}
  BY <1>1, <1>2 DEF Def
<1>4. LabelsOnce(c)
  BY <1>1, <1>2 DEF LabelsOnce
<1>5. UsesKnown(c, F \cup B)
  BY <1>1, <1>2 DEF UsesKnown, Uses, Jumps
<1>6. TriesNest(c) /\ JumpsKeep(c, F, {l})
  BY <1>1, <1>2 DEF TriesNest, JumpsKeep, Try
<1>7. ItersStarted(c, {l}, {}) /\ ElementsTested(c) /\ CatchesSealed(c, {l})
  BY <1>1, <1>2 DEF ItersStarted, ElementsTested, CatchesSealed
<1> QED BY <1>2, <1>3, <1>4, <1>5, <1>6, <1>7 DEF Piece, c, x, y

\* The head of a loop over elements.
LEMMA ForHeadPiece ==
  ASSUME NEW clean, NEW it \in SiteNames, NEW var \in SiteNames,
         NEW head \in LabelNames, NEW end \in LabelNames, head # end
  PROVE  LET c == << IterStart(it), Label(head), IterHasNext(it), JumpIfFalse(end), IterNext(it),
                     StoreBinding(var) >>
         IN  /\ Piece(clean, c, {head}, {end}, {}, {it}) /\ DefIs(c, {head})
             /\ c[1].op = "IterStart" /\ c[1].site = it
<1> DEFINE x1 == IterStart(it)
           x2 == Label(head)
           x3 == IterHasNext(it)
           x4 == JumpIfFalse(end)
           x5 == IterNext(it)
           x6 == StoreBinding(var)
           c == <<x1, x2, x3, x4, x5, x6>>
<1>1. /\ x1 \in Instrs /\ x2 \in Instrs /\ x3 \in Instrs /\ x4 \in Instrs /\ x5 \in Instrs
      /\ x6 \in Instrs
      /\ x1.op = "IterStart" /\ x1.site = it
      /\ x2.op = "Label" /\ x2.target = head
      /\ x3.op = "IterHasNext" /\ x3.site = it /\ x3.dst = "cond"
      /\ x4.op = "JumpIfFalse" /\ x4.target = end /\ x4.dst = "cond"
      /\ x5.op = "IterNext" /\ x5.site = it
      /\ x6.op = "StoreBinding"
  BY InstrTypes DEF IterStart, Label, IterHasNext, JumpIfFalse, IterNext, StoreBinding, Instr
<1> HIDE DEF x1, x2, x3, x4, x5, x6
<1>2. /\ c \in Seq(Instrs) /\ DOMAIN c = {1, 2, 3, 4, 5, 6}
      /\ c[1] = x1 /\ c[2] = x2 /\ c[3] = x3 /\ c[4] = x4 /\ c[5] = x5 /\ c[6] = x6
  <2>1. c \in Seq(Instrs)
    BY <1>1
  <2>2. DOMAIN c = 1 .. 6
    OBVIOUS
  <2>3. 1 .. 6 = {1, 2, 3, 4, 5, 6}
    OBVIOUS
  <2> QED BY <2>1, <2>2, <2>3
<1> HIDE DEF c
<1>3. Def(c) = {head}
  BY <1>1, <1>2 DEF Def
<1>4. LabelsOnce(c)
  BY <1>1, <1>2 DEF LabelsOnce
<1>5. UsesKnown(c, {end} \cup {})
  BY <1>1, <1>2 DEF UsesKnown, Uses, Jumps
<1>6. TriesNest(c) /\ JumpsKeep(c, {end}, {head})
  BY <1>1, <1>2 DEF TriesNest, JumpsKeep, Try
<1>7. ItersStarted(c, {head}, {it})
  BY <1>1, <1>2 DEF ItersStarted
<1>8. ElementsTested(c)
  <2> SUFFICES ASSUME NEW n \in DOMAIN c, c[n].op = "IterNext"
               PROVE  /\ n > 2
                      /\ c[n-2].op = "IterHasNext" /\ c[n-2].site = c[n].site
                      /\ c[n-1].op = "JumpIfFalse" /\ c[n-1].dst = c[n-2].dst
    BY DEF ElementsTested
  <2>1. n = 5 /\ n - 2 = 3 /\ n - 1 = 4 /\ n > 2
    BY <1>1, <1>2
  <2> QED BY <1>1, <1>2, <2>1
<1>9. CatchesSealed(c, {head})
  BY <1>1, <1>2 DEF CatchesSealed
<1>10. Piece(clean, c, {head}, {end}, {}, {it})
  BY <1>2, <1>3, <1>4, <1>5, <1>6, <1>7, <1>8, <1>9 DEF Piece
<1>11. DefIs(c, {head}) /\ c[1].op = "IterStart" /\ c[1].site = it
  BY <1>1, <1>2, <1>3 DEF DefIs
<1> QED BY <1>10, <1>11 DEF c, x1, x2, x3, x4, x5, x6

\* A piece that begins with the start of the only iterator it leaves open, and
\* that nothing leads into, leaves none open.
LEMMA SealedPiece ==
  ASSUME NEW clean, NEW c, NEW F, NEW B, NEW it, Piece(clean, c, {}, F, B, {it}),
         1 \in DOMAIN c, c[1].op = "IterStart", c[1].site = it
  PROVE  Piece(clean, c, {}, F, B, {})
<1> DEFINE n == Len(c)
<1>1. n \in Nat /\ DOMAIN c = 1 .. n
  BY DEF Piece
<1> HIDE DEF n
<1>2. Closed(c, 1, n, {})
  <2>1. \A i \in DOMAIN c : Uses(c, i) => 1 < i /\ i <= n
    BY <1>1 DEF Uses, Jumps
  <2> QED BY <2>1 DEF Closed
<1>3. ASSUME NEW u \in DOMAIN c, c[u].op = "IterHasNext"
      PROVE  \E s, e \in DOMAIN c : /\ c[s].op = "IterStart" /\ c[s].site = c[u].site
                                    /\ s < u /\ u <= e /\ Closed(c, s, e, {})
  <2>1. CASE c[u].site = it
    <3>1. 1 < u /\ u <= n /\ n \in DOMAIN c
      BY <1>1, <1>3
    <3> QED BY <1>2, <2>1, <3>1
  <2>2. CASE c[u].site # it
    BY <1>3, <2>2 DEF Piece, ItersStarted
  <2> QED BY <2>1, <2>2
<1> QED BY <1>3 DEF Piece, ItersStarted

\* A try body between the push of its handler and the handler.
LEMMA TryBodyPiece ==
  ASSUME NEW clean, NEW body, NEW F, NEW B, Piece(clean, body, {}, F, B, {}), clean => B = {},
         NEW end \in LabelNames, NEW catch \in LabelNames, NEW site \in SiteNames,
         end # catch, catch \notin Def(body), end \notin Def(body), catch \notin F \cup B
  PROVE  LET c == << PushTry(catch) >> \o body \o << Jump(end), Label(catch), StoreLastError(site) >>
         IN  Piece(clean, c, {}, F \cup {end}, B, {}) /\ Def(c) = Def(body) \cup {catch}
<1> DEFINE push == PushTry(catch)
           jump == Jump(end)
           label == Label(catch)
           store == StoreLastError(site)
           before == <<push>>
           after == <<jump, label, store>>
           c == before \o body \o after
           m == Len(body)
           A == DOMAIN body
           X(i) == i - 1
           J == m + 2
           K == m + 3
           S == m + 4
<1>1. /\ push \in Instrs /\ jump \in Instrs /\ label \in Instrs /\ store \in Instrs
      /\ push.op = "PushTry" /\ push.target = catch
      /\ jump.op = "Jump" /\ jump.target = end
      /\ label.op = "Label" /\ label.target = catch
      /\ store.op = "StoreLastError"
  BY InstrTypes DEF PushTry, Jump, Label, StoreLastError, Instr
<1> HIDE DEF push, jump, label, store
<1>2. /\ c \in Seq(Instrs) /\ DOMAIN c = 1 .. m + 4 /\ m \in Nat /\ A = 1 .. m
      /\ c[1] = push /\ c[J] = jump /\ c[K] = label /\ c[S] = store
      /\ \A i \in 1 .. m : c[i + 1] = body[i]
  <2>1. body \in Seq(Instrs) /\ m \in Nat /\ A = 1 .. m
    BY DEF Piece
  <2>2. /\ before \in Seq(Instrs) /\ Len(before) = 1 /\ before[1] = push
        /\ after \in Seq(Instrs) /\ Len(after) = 3
        /\ after[1] = jump /\ after[2] = label /\ after[3] = store
    BY <1>1
  <2> DEFINE start == before \o body
  <2> HIDE DEF before, after
  <2>3. /\ start \in Seq(Instrs) /\ Len(start) = 1 + m /\ start[1] = push
        /\ \A i \in 1 .. m : start[1 + i] = body[i]
    <3>1. /\ start \in Seq(Instrs) /\ Len(start) = Len(before) + Len(body)
          /\ \A i \in 1 .. Len(before) : start[i] = before[i]
          /\ \A i \in 1 .. Len(body) : start[Len(before) + i] = body[i]
      BY <2>1, <2>2, ConcatIs
    <3> HIDE DEF start
    <3> QED BY <2>2, <3>1 DEF m
  <2> HIDE DEF start
  <2>4. /\ c \in Seq(Instrs) /\ DOMAIN c = 1 .. (1 + m) + 3
        /\ \A i \in 1 .. (1 + m) : c[i] = start[i]
        /\ \A i \in 1 .. 3 : c[(1 + m) + i] = after[i]
    <3> DEFINE d == start \o after
    <3>1. /\ d \in Seq(Instrs) /\ DOMAIN d = 1 .. Len(start) + Len(after)
          /\ \A i \in 1 .. Len(start) : d[i] = start[i]
          /\ \A i \in 1 .. Len(after) : d[Len(start) + i] = after[i]
      BY <2>2, <2>3, ConcatIs
    <3>2. c = d
      BY DEF start
    <3> HIDE DEF d, c
    <3> QED BY <2>2, <2>3, <3>1, <3>2
  <2> HIDE DEF c
  <2>5. /\ (1 + m) + 3 = m + 4 /\ (1 + m) + 1 = J /\ (1 + m) + 2 = K /\ (1 + m) + 3 = S
        /\ 1 \in 1 .. (1 + m) /\ \A i \in 1 .. m : i + 1 \in 1 .. (1 + m) /\ i + 1 = 1 + i
    BY <2>1
  <2>6. c[J] = jump /\ c[K] = label /\ c[S] = store
    BY <2>2, <2>4, <2>5
  <2>7. c[1] = push /\ \A i \in 1 .. m : c[i + 1] = body[i]
    BY <2>3, <2>4, <2>5
  <2> QED BY <2>1, <2>4, <2>5, <2>6, <2>7
<1> HIDE DEF c, before, after
<1>3. \A i \in DOMAIN c : i = 1 \/ X(i) \in A \/ i = J \/ i = K \/ i = S
  BY <1>2
<1>4. ASSUME NEW i \in DOMAIN c, X(i) \in A
      PROVE  c[i] = body[X(i)] /\ 1 < i /\ i < J /\ i < K /\ i < S
  <2>1. i - 1 \in 1 .. m /\ (i - 1) + 1 = i
    BY <1>2, <1>4
  <2>2. c[(i - 1) + 1] = body[i - 1]
    BY <1>2, <2>1
  <2> QED BY <1>2, <2>1, <2>2
<1>5. /\ 1 \in DOMAIN c /\ J \in DOMAIN c /\ K \in DOMAIN c /\ S \in DOMAIN c
      /\ 1 < J /\ J < K /\ K < S /\ 1 < K /\ S - 1 = K /\ S - 2 = J /\ S > 2
      /\ \A x \in A : x + 1 \in DOMAIN c /\ X(x + 1) = x
      /\ X(1) \notin A /\ X(J) \notin A /\ X(K) \notin A /\ X(S) \notin A
      /\ \A i \in DOMAIN c : i \in Int
  BY <1>2
<1>6. \A i, j \in DOMAIN c :
        (X(i) < X(j) <=> i < j) /\ (X(i) <= X(j) <=> i <= j) /\ (X(i) = X(j) <=> i = j)
  BY <1>2
<1>7. \A x \in A : x > 2 =>
        LET i == x + 1 IN
        i > 2 /\ x - 1 \in A /\ c[i - 1] = body[x - 1] /\ c[i - 2] = body[x - 2]
  <2> SUFFICES ASSUME NEW x \in A, x > 2
               PROVE  x + 1 > 2 /\ x - 1 \in A /\ c[(x + 1) - 1] = body[x - 1]
                      /\ c[(x + 1) - 2] = body[x - 2]
    OBVIOUS
  <2>1. /\ x - 1 \in 1 .. m /\ x - 2 \in 1 .. m /\ (x - 1) + 1 = (x + 1) - 1
        /\ (x - 2) + 1 = (x + 1) - 2 /\ x + 1 > 2
    BY <1>2
  <2>2. c[(x - 1) + 1] = body[x - 1] /\ c[(x - 2) + 1] = body[x - 2]
    BY <1>2, <2>1
  <2> QED BY <1>2, <2>1, <2>2
<1> HIDE DEF X, J, K, S, A, m
<1>8. Def(c) = Def(body) \cup {catch}
  <2>1. ASSUME NEW l \in Def(c) PROVE l \in Def(body) \cup {catch}
    <3>1. PICK j \in DOMAIN c : c[j].op = "Label" /\ c[j].target = l
      BY DEF Def
    <3>2. CASE X(j) \in A
      BY <1>4, <3>1, <3>2 DEF Def, A
    <3>3. CASE X(j) \notin A
      BY <1>1, <1>2, <1>3, <3>1, <3>3
    <3> QED BY <3>2, <3>3
  <2>2. ASSUME NEW l \in Def(body) PROVE l \in Def(c)
    <3>1. PICK x \in A : body[x].op = "Label" /\ body[x].target = l
      BY DEF Def, A
    <3>2. x + 1 \in DOMAIN c /\ c[x + 1] = body[x]
      BY <1>4, <1>5
    <3> QED BY <3>1, <3>2 DEF Def
  <2>3. catch \in Def(c)
    BY <1>1, <1>2, <1>5 DEF Def
  <2> QED BY <2>1, <2>2, <2>3
<1>9. \A j \in DOMAIN c : c[j].op = "Label" =>
        \/ j = K
        \/ X(j) \in A /\ body[X(j)].op = "Label" /\ c[j].target \in Def(body)
  BY <1>1, <1>2, <1>3, <1>4 DEF Def, A
<1>10. \A i \in DOMAIN c : Uses(c, i) =>
         \/ i = 1 /\ c[i].target = catch
         \/ i = J /\ c[i].target = end
         \/ /\ X(i) \in A /\ Uses(body, X(i)) /\ c[i] = body[X(i)]
            /\ c[i].target \in Def(body) \/ (c[i].op # "PushTry" /\ c[i].target \in F \cup B)
  <2> SUFFICES ASSUME NEW i \in DOMAIN c, Uses(c, i)
               PROVE  \/ i = 1 /\ c[i].target = catch
                      \/ i = J /\ c[i].target = end
                      \/ /\ X(i) \in A /\ Uses(body, X(i)) /\ c[i] = body[X(i)]
                         /\ c[i].target \in Def(body)
                              \/ (c[i].op # "PushTry" /\ c[i].target \in F \cup B)
    OBVIOUS
  <2>1. i # K /\ i # S
    BY <1>1, <1>2 DEF Uses, Jumps
  <2>2. CASE X(i) \in A
    <3>1. Uses(body, X(i)) /\ c[i] = body[X(i)]
      BY <1>4, <2>2 DEF Uses
    <3>2. body[X(i)].target \in Def(body)
            \/ (body[X(i)].op # "PushTry" /\ body[X(i)].target \in F \cup B)
      BY <2>2, <3>1 DEF Piece, UsesKnown, A
    <3> QED BY <2>2, <3>1, <3>2
  <2> QED BY <1>1, <1>2, <1>3, <2>1, <2>2
<1>11. LabelsOnce(c)
  <2> SUFFICES ASSUME NEW i \in DOMAIN c, NEW j \in DOMAIN c, c[i].op = "Label", c[j].op = "Label",
                      c[i].target = c[j].target
               PROVE  i = j
    BY DEF LabelsOnce
  <2>1. CASE X(i) \in A /\ X(j) \in A
    <3>1. X(i) = X(j)
      BY <1>4, <2>1 DEF Piece, LabelsOnce, A
    <3> QED BY <1>6, <3>1
  <2>2. CASE X(i) \notin A \/ X(j) \notin A
    BY <1>1, <1>2, <1>9, <2>2
  <2> QED BY <2>1, <2>2
<1>12. UsesKnown(c, (F \cup {end}) \cup B)
  <2> SUFFICES ASSUME NEW i \in DOMAIN c, Uses(c, i)
               PROVE  c[i].target \in Def(c)
                        \/ (c[i].op # "PushTry" /\ c[i].target \in (F \cup {end}) \cup B)
    BY DEF UsesKnown
  <2>1. c[J].op # "PushTry"
    BY <1>1, <1>2
  <2> QED BY <1>8, <1>10, <2>1
\* Where a use leads.
<1>13. ASSUME NEW i \in DOMAIN c, NEW j \in DOMAIN c, Uses(c, i), Defines(c, j, c[i].target)
       PROVE  \/ i = 1 /\ j = K
              \/ i = J /\ FALSE
              \/ /\ X(i) \in A /\ X(j) \in A /\ Uses(body, X(i)) /\ c[i] = body[X(i)]
                 /\ Defines(body, X(j), body[X(i)].target) /\ j < K
  <2>1. c[j].op = "Label" /\ c[j].target = c[i].target
    BY <1>13 DEF Defines
  <2>2. j = K => c[j].target = catch
    BY <1>1, <1>2
  <2>3. CASE i = 1
    BY <1>1, <1>2, <1>9, <2>1, <2>3
  <2>4. CASE i = J
    BY <1>1, <1>2, <1>9, <2>1, <2>2, <2>4
  <2>5. CASE /\ X(i) \in A /\ Uses(body, X(i)) /\ c[i] = body[X(i)]
             /\ c[i].target \in Def(body) \/ (c[i].op # "PushTry" /\ c[i].target \in F \cup B)
    <3>1. j # K
      BY <2>1, <2>2, <2>5
    <3>2. X(j) \in A /\ body[X(j)].op = "Label"
      BY <1>9, <2>1, <3>1
    <3> QED BY <1>4, <2>1, <2>5, <3>2 DEF Defines
  <2> QED BY <1>10, <1>13, <2>3, <2>4, <2>5
<1>14. ASSUME NEW p \in DOMAIN c, NEW k \in DOMAIN c, Try(c, p, k)
       PROVE  \/ p = 1 /\ k = K
              \/ X(p) \in A /\ X(k) \in A /\ Try(body, X(p), X(k)) /\ 1 < p /\ k < K
  <2>1. Uses(c, p) /\ Defines(c, k, c[p].target) /\ c[p].op = "PushTry"
    BY <1>14 DEF Uses, Try
  <2> QED BY <1>4, <1>13, <2>1 DEF Try
<1>15. ASSUME clean PROVE TriesNest(c)
  <2> SUFFICES ASSUME NEW p \in DOMAIN c, NEW k \in DOMAIN c, Try(c, p, k)
               PROVE  /\ p < k
                      /\ \A q, l \in DOMAIN c : Try(c, q, l) /\ p < q /\ q < k => l < k
    BY DEF TriesNest
  <2>1. CASE p = 1 /\ k = K
    <3>1. \A q, l \in DOMAIN c : Try(c, q, l) /\ p < q => l < k
      BY <1>14, <2>1
    <3> QED BY <1>5, <2>1, <3>1
  <2>2. CASE X(p) \in A /\ X(k) \in A /\ Try(body, X(p), X(k)) /\ 1 < p /\ k < K
    <3>1. /\ X(p) < X(k)
          /\ \A q, l \in A : Try(body, q, l) /\ X(p) < q /\ q < X(k) => l < X(k)
      BY <1>15, <2>2 DEF Piece, TriesNest, A
    <3>2. ASSUME NEW q \in DOMAIN c, NEW l \in DOMAIN c, Try(c, q, l), p < q, q < k
          PROVE  l < k
      <4>1. q # 1
        BY <1>5, <2>2, <3>2
      <4>2. X(q) \in A /\ X(l) \in A /\ Try(body, X(q), X(l))
        BY <1>14, <3>2, <4>1
      <4>3. X(p) < X(q) /\ X(q) < X(k)
        BY <1>6, <3>2
      <4>4. X(l) < X(k)
        BY <3>1, <4>2, <4>3
      <4> QED BY <1>6, <4>4
    <3> QED BY <1>6, <3>1, <3>2
  <2> QED BY <1>14, <2>1, <2>2
<1>16. ASSUME clean PROVE JumpsKeep(c, F \cup {end}, {})
  <2> SUFFICES ASSUME NEW p \in DOMAIN c, NEW k \in DOMAIN c, Try(c, p, k)
               PROVE
    /\ \A i \in DOMAIN c : c[i].op \in Jumps /\ p < i /\ i < k =>
         c[i].target \in Def(c) \cup (F \cup {end})
    /\ \A i, j \in DOMAIN c : c[i].op \in Jumps /\ Defines(c, j, c[i].target) =>
         /\ p < j /\ j < k => p < i /\ i < k
         /\ p < i /\ i < k => p < j
    BY DEF JumpsKeep
  <2>0. \A i \in DOMAIN c : c[i].op \in Jumps => Uses(c, i) /\ i # 1
    BY <1>1, <1>2 DEF Uses, Jumps
  <2>1. CASE p = 1 /\ k = K
    <3>1. ASSUME NEW i \in DOMAIN c, c[i].op \in Jumps
          PROVE  c[i].target \in Def(c) \cup (F \cup {end})
      BY <1>8, <1>10, <1>16, <2>0, <3>1
    <3>2. ASSUME NEW i \in DOMAIN c, NEW j \in DOMAIN c, c[i].op \in Jumps,
                 Defines(c, j, c[i].target)
          PROVE  p < j /\ p < i /\ i < k
      BY <1>4, <1>13, <2>0, <2>1, <3>2
    <3> QED BY <3>1, <3>2
  <2>2. CASE X(p) \in A /\ X(k) \in A /\ Try(body, X(p), X(k)) /\ 1 < p /\ k < K
    <3>1. /\ \A i \in A : body[i].op \in Jumps /\ X(p) < i /\ i < X(k) =>
               body[i].target \in Def(body) \cup F
          /\ \A i, j \in A : body[i].op \in Jumps /\ Defines(body, j, body[i].target) =>
               /\ X(p) < j /\ j < X(k) => X(p) < i /\ i < X(k)
               /\ X(p) < i /\ i < X(k) => X(p) < j
      BY <1>16, <2>2 DEF Piece, JumpsKeep, A
    <3>2. ASSUME NEW i \in DOMAIN c, c[i].op \in Jumps, p < i, i < k
          PROVE  c[i].target \in Def(c) \cup (F \cup {end})
      <4>1. Uses(c, i) /\ i # 1
        BY <2>0, <3>2
      <4>2. CASE i = J
        BY <1>5, <1>10, <4>1, <4>2
      <4>3. CASE X(i) \in A /\ c[i] = body[X(i)]
        <5>1. X(p) < X(i) /\ X(i) < X(k)
          BY <1>6, <3>2
        <5> QED BY <1>8, <3>1, <3>2, <4>3, <5>1
      <4> QED BY <1>10, <4>1, <4>2, <4>3
    <3>3. ASSUME NEW i \in DOMAIN c, NEW j \in DOMAIN c, c[i].op \in Jumps,
                 Defines(c, j, c[i].target)
          PROVE  /\ p < j /\ j < k => p < i /\ i < k
                 /\ p < i /\ i < k => p < j
      <4>1. /\ X(i) \in A /\ X(j) \in A /\ c[i] = body[X(i)]
            /\ Defines(body, X(j), body[X(i)].target)
        BY <1>13, <2>0, <3>3
      <4>2. /\ X(p) < X(j) /\ X(j) < X(k) => X(p) < X(i) /\ X(i) < X(k)
            /\ X(p) < X(i) /\ X(i) < X(k) => X(p) < X(j)
        BY <3>1, <3>3, <4>1
      <4> QED BY <1>6, <4>2
    <3> QED BY <3>2, <3>3
  <2> QED BY <1>14, <2>1, <2>2
<1>17. ItersStarted(c, {}, {})
  <2> SUFFICES ASSUME NEW u \in DOMAIN c, c[u].op = "IterHasNext"
               PROVE  \E s, e \in DOMAIN c :
                        /\ c[s].op = "IterStart" /\ c[s].site = c[u].site
                        /\ s < u /\ u <= e /\ Closed(c, s, e, {})
    BY DEF ItersStarted
  <2>1. X(u) \in A /\ c[u] = body[X(u)]
    BY <1>1, <1>2, <1>3, <1>4
  <2>2. PICK x \in A, y \in A : /\ body[x].op = "IterStart" /\ body[x].site = body[X(u)].site
                                /\ x < X(u) /\ X(u) <= y /\ Closed(body, x, y, {})
    BY <2>1 DEF Piece, ItersStarted, A
  <2> DEFINE s == x + 1
             e == y + 1
  <2>3. s \in DOMAIN c /\ X(s) = x /\ e \in DOMAIN c /\ X(e) = y
    BY <1>5
  <2> HIDE DEF s, e
  <2>4. s < u /\ u <= e /\ c[s] = body[x] /\ e < K
    BY <1>4, <1>6, <2>2, <2>3
  <2>5. ASSUME NEW i \in DOMAIN c, NEW j \in DOMAIN c, Uses(c, i), Defines(c, j, c[i].target),
               s < j, j <= e
        PROVE  s < i /\ i <= e
    <3>1. j # K
      BY <1>5, <2>3, <2>4, <2>5
    <3>2. /\ X(i) \in A /\ X(j) \in A /\ Uses(body, X(i))
          /\ Defines(body, X(j), body[X(i)].target)
      BY <1>13, <2>5, <3>1
    <3>3. x < X(j) /\ X(j) <= y
      BY <1>6, <2>3, <2>5
    <3>4. x < X(i) /\ X(i) <= y
      BY <2>2, <3>2, <3>3 DEF Closed, A
    <3> QED BY <1>6, <2>3, <3>4
  <2>6. Closed(c, s, e, {})
    BY <2>5 DEF Closed
  <2> QED BY <2>1, <2>2, <2>3, <2>4, <2>6
<1>18. ElementsTested(c)
  <2> SUFFICES ASSUME NEW i \in DOMAIN c, c[i].op = "IterNext"
               PROVE  /\ i > 2
                      /\ c[i-2].op = "IterHasNext" /\ c[i-2].site = c[i].site
                      /\ c[i-1].op = "JumpIfFalse" /\ c[i-1].dst = c[i-2].dst
    BY DEF ElementsTested
  <2> DEFINE x == X(i)
  <2>1. x \in A /\ c[i] = body[x]
    BY <1>1, <1>2, <1>3, <1>4
  <2>2. x + 1 = i
    BY <1>5, <2>1 DEF X
  <2> HIDE DEF x
  <2>3. /\ x > 2
        /\ body[x-2].op = "IterHasNext" /\ body[x-2].site = body[x].site
        /\ body[x-1].op = "JumpIfFalse" /\ body[x-1].dst = body[x-2].dst
    BY <2>1 DEF Piece, ElementsTested, A
  <2>4. i > 2 /\ c[i - 1] = body[x - 1] /\ c[i - 2] = body[x - 2]
    BY <1>7, <2>1, <2>2, <2>3
  <2> QED BY <2>1, <2>3, <2>4
<1>19. CatchesSealed(c, {})
  <2> SUFFICES ASSUME NEW s \in DOMAIN c, c[s].op = "StoreLastError"
               PROVE  /\ s > 2
                      /\ c[s-1].op = "Label" /\ c[s-2].op = "Jump"
                      /\ \A i \in DOMAIN c : c[i].op \in Jumps => c[i].target # c[s-1].target
    BY DEF CatchesSealed
  <2>1. CASE s = S
    <3>1. s > 2 /\ c[s-1].op = "Label" /\ c[s-2].op = "Jump" /\ c[s-1].target = catch
      BY <1>1, <1>2, <1>5, <2>1
    <3>2. ASSUME NEW i \in DOMAIN c, c[i].op \in Jumps
          PROVE  c[i].target # catch
      <4>1. Uses(c, i) /\ i # 1
        BY <1>1, <1>2, <3>2 DEF Uses, Jumps
      <4> QED BY <1>10, <4>1
    <3> QED BY <3>1, <3>2
  <2>2. CASE s # S
    <3> DEFINE x == X(s)
    <3>1. x \in A /\ c[s] = body[x]
      BY <1>1, <1>2, <1>3, <1>4, <2>2
    <3>2. x + 1 = s
      BY <1>5, <3>1 DEF X
    <3> HIDE DEF x
    <3>3. /\ x > 2
          /\ body[x-1].op = "Label" /\ body[x-2].op = "Jump"
          /\ \A i \in A : body[i].op \in Jumps => body[i].target # body[x-1].target
      BY <3>1 DEF Piece, CatchesSealed, A
    <3>4. s > 2 /\ x - 1 \in A /\ c[s - 1] = body[x - 1] /\ c[s - 2] = body[x - 2]
      BY <1>7, <3>1, <3>2, <3>3
    <3>5. body[x-1].target \in Def(body)
      BY <3>3, <3>4 DEF Def, A
    <3>6. ASSUME NEW i \in DOMAIN c, c[i].op \in Jumps
          PROVE  c[i].target # body[x-1].target
      <4>1. Uses(c, i) /\ i # 1
        BY <1>1, <1>2, <3>6 DEF Uses, Jumps
      <4>2. CASE i = J
        BY <1>5, <1>10, <3>5, <4>1, <4>2
      <4>3. CASE X(i) \in A /\ c[i] = body[X(i)]
        BY <3>3, <3>6, <4>3
      <4> QED BY <1>10, <4>1, <4>2, <4>3
    <3> QED BY <3>3, <3>4, <3>6
  <2> QED BY <2>1, <2>2
<1>20. Piece(clean, c, {}, F \cup {end}, B, {})
  BY <1>2, <1>11, <1>12, <1>15, <1>16, <1>17, <1>18, <1>19 DEF Piece
<1> QED BY <1>8, <1>20 DEF c, before, after, push, jump, label, store

-----------------------------------------------------------------------------
(***************************************************************************)
(* Rows of pieces.                                                         *)
(***************************************************************************)

\* A nonempty set of numbers has a least element.
LEMMA LeastElement ==
  ASSUME NEW T, T \subseteq Nat, T # {}
  PROVE  \E x \in T : \A y \in T : x <= y
<1>1. PICK x \in T : \A y \in T : <<y, x>> \notin OpToRel(<, Nat)
  BY NatLessThanWellFounded, WFMin, Zenon
<1>2. ASSUME NEW y \in T
      PROVE  x <= y
  <2>1. ~ (y < x)
    BY <1>1 DEF OpToRel
  <2> QED BY <2>1
<1> QED BY <1>2

\* The recursive function behind FlattenSeq exists.
LEMMA FlattenEnds ==
  ASSUME NEW seqs, NEW n \in Nat
  PROVE  \E f : f = [i \in 1 .. n |-> IF i = 1 THEN seqs[i] ELSE f[i - 1] \o seqs[i]]
<1> DEFINE Is(f, k) == f = [i \in 1 .. k |-> IF i = 1 THEN seqs[i] ELSE f[i - 1] \o seqs[i]]
           Bad == {k \in Nat : ~ \E f : Is(f, k)}
<1>1. Bad = {}
  <2> SUFFICES ASSUME Bad # {} PROVE FALSE
    OBVIOUS
  <2>1. PICK k \in Bad : \A j \in Bad : k <= j
    <3>1. Bad \in SUBSET Nat
      OBVIOUS
    <3> HIDE DEF Bad
    <3> QED BY <3>1, LeastElement
  <2>2. k \in Nat /\ ~ \E f : Is(f, k)
    BY <2>1
  <2>3. CASE k = 0
    <3> DEFINE a == [i \in 1 .. 0 |-> << >>]
    <3>1. Is(a, k)
      BY <2>3
    <3> HIDE DEF Is
    <3> QED BY <2>2, <3>1
  <2>4. CASE k # 0
    <3>0. k - 1 \in Nat /\ ~ (k <= k - 1)
      BY <2>2, <2>4
    <3>1. k - 1 \in Nat /\ k - 1 \notin Bad
      <4> HIDE DEF Bad
      <4> QED BY <2>1, <3>0
    <3>2. PICK b : Is(b, k - 1)
      BY <3>1
    <3> DEFINE a == [i \in 1 .. k |->
                 IF i = k THEN IF k = 1 THEN seqs[k] ELSE b[k - 1] \o seqs[k] ELSE b[i]]
    <3>3. b = [i \in 1 .. k - 1 |-> IF i = 1 THEN seqs[i] ELSE b[i - 1] \o seqs[i]]
      BY <3>2
    <3>4. ASSUME NEW i \in 1 .. k
          PROVE  a[i] = IF i = 1 THEN seqs[i] ELSE a[i - 1] \o seqs[i]
      <4>0. i # 1 => i - 1 \in 1 .. k /\ i - 1 # k
        BY <2>2
      <4>1. CASE i = k
        <5>1. i # 1 => a[i - 1] = b[i - 1]
          BY <4>0
        <5> QED BY <4>1, <5>1
      <4>2. CASE i # k
        <5>1. i \in 1 .. k - 1
          BY <2>2, <4>2
        <5>2. b[i] = IF i = 1 THEN seqs[i] ELSE b[i - 1] \o seqs[i]
          BY <3>3, <5>1
        <5>3. i # 1 => a[i - 1] = b[i - 1]
          BY <4>0
        <5> QED BY <4>2, <5>2, <5>3
      <4> QED BY <4>1, <4>2
    <3>5. a = [i \in 1 .. k |-> IF i = 1 THEN seqs[i] ELSE a[i - 1] \o seqs[i]]
      BY <3>4
    <3>6. Is(a, k)
      BY <3>5
    <3> HIDE DEF Is
    <3> QED BY <2>2, <3>6
  <2> QED BY <2>3, <2>4
<1>2. n \notin Bad
  BY <1>1
<1> QED BY <1>2

\* FlattenSeq joins one sequence after the other.
LEMMA FlattenFollows ==
  ASSUME NEW seqs, NEW n \in Nat, n # 0, Len(seqs) = n
  PROVE  \E f : /\ FlattenSeq(seqs) = f[n] /\ f[1] = seqs[1]
                /\ \A i \in 1 .. n : i # 1 => f[i] = f[i - 1] \o seqs[i]
<1> DEFINE Is(f) == f = [i \in 1 .. n |-> IF i = 1 THEN seqs[i] ELSE f[i - 1] \o seqs[i]]
           flat == CHOOSE f : Is(f)
<1>1. \E f : Is(f)
  BY FlattenEnds
<1>2. Is(flat)
  <2> HIDE DEF Is
  <2> QED BY <1>1
<1>3. FlattenSeq(seqs) = flat[n]
  BY DEF FlattenSeq
<1> HIDE DEF flat
<1>4. 1 \in 1 .. n
  OBVIOUS
<1>5. flat[1] = seqs[1] /\ \A i \in 1 .. n : i # 1 => flat[i] = flat[i - 1] \o seqs[i]
  BY <1>2, <1>4
<1> QED BY <1>3, <1>5

\* Pieces with labels of their own, none of which leads to another.
LEMMA RowOfPieces ==
  ASSUME NEW clean, NEW F, NEW B, NEW n \in Nat, NEW seqs \in Seq(Seq(Instrs)), Len(seqs) = n,
         \A i \in 1 .. n : Piece(clean, seqs[i], {}, F, B, {}),
         \A i \in 1 .. n : Apart(Def(seqs[i]), F \cup B),
         \A i, j \in 1 .. n : i # j => Apart(Def(seqs[i]), Def(seqs[j]))
  PROVE  /\ Piece(clean, FlattenSeq(seqs), {}, F, B, {})
         /\ \A l \in Def(FlattenSeq(seqs)) : \E i \in 1 .. n : l \in Def(seqs[i])
<1> USE DEF Apart
<1>1. CASE n = 0
  <2>1. seqs = << >> /\ FlattenSeq(seqs) = seqs
    BY <1>1 DEF FlattenSeq
  <2> DEFINE c == << >>
  <2>2. c \in Seq(Instrs) /\ \A i \in DOMAIN c : c[i].op \in PlainOps
    OBVIOUS
  <2> HIDE DEF c
  <2>3. Piece(clean, c, {}, F, B, {}) /\ Def(c) = {}
    BY <2>2, PlainPiece
  <2> QED BY <2>1, <2>3 DEF c
<1>2. CASE n # 0
  <2>1. PICK f : /\ FlattenSeq(seqs) = f[n] /\ f[1] = seqs[1]
                 /\ \A i \in 1 .. n : i # 1 => f[i] = f[i - 1] \o seqs[i]
    BY <1>2, FlattenFollows
  <2> DEFINE Good(k) == /\ Piece(clean, f[k], {}, F, B, {})
                        /\ \A l \in Def(f[k]) : \E i \in 1 .. k : l \in Def(seqs[i])
             Bad == {k \in 1 .. n : ~ Good(k)}
  <2>2. Bad = {}
    <3> SUFFICES ASSUME Bad # {} PROVE FALSE
      OBVIOUS
    <3>1. PICK k \in Bad : \A j \in Bad : k <= j
      <4>1. Bad \in SUBSET Nat
        OBVIOUS
      <4> HIDE DEF Bad
      <4> QED BY <4>1, LeastElement
    <3>2. k \in 1 .. n /\ ~ Good(k)
      BY <3>1
    <3>3. CASE k = 1
      <4>1. Good(1)
        BY <2>1, <3>2, <3>3
      <4> QED BY <3>2, <3>3, <4>1
    <3>4. CASE k # 1
      <4>1. k - 1 \in 1 .. n /\ ~ (k <= k - 1) /\ \A i \in 1 .. k - 1 : i \in 1 .. n /\ i # k
        BY <3>2, <3>4
      <4>2. Good(k - 1)
        BY <3>1, <4>1
      <4> DEFINE a == f[k - 1]
                 b == seqs[k]
      <4>3. Piece(clean, a, {}, F, B, {}) /\ \A l \in Def(a) : \E i \in 1 .. k - 1 : l \in Def(seqs[i])
        BY <4>2
      <4>4. Piece(clean, b, {}, F, B, {}) /\ Def(b) \cap (F \cup B) = {}
        BY <3>2
      <4>5. f[k] = a \o b
        BY <2>1, <3>2, <3>4
      <4>6. Def(a) \cap Def(b) = {} /\ Def(a) \cap (F \cup B) = {}
        <5> HIDE DEF a, Good
        <5>1. ASSUME NEW l \in Def(a) PROVE l \notin Def(b) /\ l \notin F \cup B
          <6>1. PICK i \in 1 .. k - 1 : l \in Def(seqs[i])
            BY <4>3
          <6>2. i \in 1 .. n /\ i # k
            BY <4>1
          <6> QED BY <3>2, <6>1, <6>2
        <5> QED BY <5>1
      <4> HIDE DEF a, Good
      <4>7. Piece(clean, a \o b, {}, F, B, {}) /\ Def(a \o b) = Def(a) \cup Def(b)
        <5> HIDE DEF b
        <5>1. Joins(a, b, {}, {}, F, F, B, B, {}, {}, {}, F, B, {})
          BY <4>4, <4>6 DEF Joins
        <5>2. Piece(clean, a \o b, {}, F, B, {})
          BY <4>3, <4>4, <5>1, ConcatPieces
        <5> QED BY <4>3, <4>4, <5>2, ConcatDef DEF Piece
      <4>8. \A i \in 1 .. k - 1 : i \in 1 .. k
        BY <3>2
      <4>9. k \in 1 .. k
        BY <3>2
      <4>10. Good(k)
        BY <4>3, <4>5, <4>7, <4>8, <4>9 DEF Good
      <4> QED BY <3>2, <4>10
    <3> QED BY <3>3, <3>4
  <2>3. n \in 1 .. n
    BY <1>2
  <2>4. Good(n)
    BY <2>2, <2>3
  <2> QED BY <2>1, <2>4
<1> QED BY <1>1, <1>2


-----------------------------------------------------------------------------
(***************************************************************************)
(* The pieces that statements are lowered to.                              *)
(***************************************************************************)
LEMMA PieceIsCode ==
  ASSUME NEW clean, NEW c, NEW E, NEW F, NEW B, NEW H, Piece(clean, c, E, F, B, H)
  PROVE  c \in Seq(Instrs)
  BY DEF Piece

\* More may be asked of the code around a piece.
LEMMA WiderPiece ==
  ASSUME NEW clean, NEW c, NEW F, NEW B, Piece(clean, c, {}, F, B, {}),
         NEW Fw, NEW Bw, F \subseteq Fw, B \subseteq Bw
  PROVE  Piece(clean, c, {}, Fw, Bw, {})
<1>1. UsesKnown(c, F \cup B) => UsesKnown(c, Fw \cup Bw)
  BY DEF UsesKnown
<1>2. JumpsKeep(c, F, {}) => JumpsKeep(c, Fw, {})
  BY DEF JumpsKeep
<1> QED BY <1>1, <1>2 DEF Piece

\* The code of a condition neither jumps nor is jumped to.
LEMMA ConditionIsPlain ==
  ASSUME NEW p, NEW n \in Nat, NEW i \in Nat, p.test[n] \in Tests
  PROVE  /\ LowerCondition(p, n, i) \in Seq(Instrs)
         /\ \A k \in DOMAIN LowerCondition(p, n, i) : LowerCondition(p, n, i)[k].op \in PlainOps
<1> DEFINE test == p.test[n]
           x1 == Test(<<n, "cond", i>>, "cond")
           x2 == Test(<<n, "lhs", i>>, "lhs")
           x3 == Test(<<n, "rhs", i>>, "rhs")
           x4 == BinaryLogical(test)
<1>1. <<n, "cond", i>> \in SiteNames /\ <<n, "lhs", i>> \in SiteNames /\ <<n, "rhs", i>> \in SiteNames
  BY DEF SiteNames
<1>2. x1 \in Instrs /\ x1.op \in PlainOps
  BY <1>1, InstrTypes DEF Test, Instr, PlainOps, Temps
<1>3. x2 \in Instrs /\ x2.op \in PlainOps
  BY <1>1, InstrTypes DEF Test, Instr, PlainOps, Temps
<1>4. x3 \in Instrs /\ x3.op \in PlainOps
  BY <1>1, InstrTypes DEF Test, Instr, PlainOps, Temps
<1>5. test # "plain" => x4 \in Instrs /\ x4.op \in PlainOps
  BY InstrTypes DEF BinaryLogical, Instr, PlainOps, Tests
<1>6. LowerCondition(p, n, i) = IF test = "plain" THEN <<x1>> ELSE <<x2, x3, x4>>
  BY DEF LowerCondition
<1> HIDE DEF test, x1, x2, x3, x4
<1>7. CASE test = "plain"
  BY <1>2, <1>6, <1>7
<1>8. CASE test # "plain"
  <2> DEFINE c == <<x2, x3, x4>>
  <2>1. c \in Seq(Instrs) /\ DOMAIN c = {1, 2, 3} /\ c[1] = x2 /\ c[2] = x3 /\ c[3] = x4
    BY <1>3, <1>4, <1>5, <1>8
  <2>2. LowerCondition(p, n, i) = c
    BY <1>6, <1>8
  <2> HIDE DEF c
  <2> QED BY <1>3, <1>4, <1>5, <1>8, <2>1, <2>2
<1> QED BY <1>7, <1>8

\* A condition or a comparison, the jump past the block when it fails, the block.
LEMMA ArmPiece ==
  ASSUME NEW clean, NEW head \in Seq(Instrs), \A k \in DOMAIN head : head[k].op \in PlainOps,
         NEW body, NEW F, NEW B, Piece(clean, body, {}, F, B, {}),
         NEW end \in LabelNames, NEW miss \in LabelNames, end # miss,
         end \notin Def(body), miss \notin Def(body), miss \notin F, miss \notin B
  PROVE  /\ Piece(clean, head \o << JumpIfFalse(miss) >> \o body \o << Jump(end), Label(miss) >>,
                  {}, F \cup {end}, B, {})
         /\ DefIs(head \o << JumpIfFalse(miss) >> \o body \o << Jump(end), Label(miss) >>,
                  Def(body) \cup {miss})
<1> DEFINE x == JumpIfFalse(miss)
           a == <<x>>
           b == << Jump(end), Label(miss) >>
<1>1. x \in Instrs /\ x.op \in Jumps /\ x.target = miss
  BY InstrTypes DEF JumpIfFalse, Instr, Jumps
<1> HIDE DEF x
<1>2. Piece(clean, a, {}, {miss}, {}, {}) /\ Def(a) = {}
  BY <1>1, JumpPiece
<1>3. Piece(clean, b, {miss}, {end}, {}, {}) /\ Def(b) = {miss}
  BY JumpLabelPiece
<1>4. Piece(clean, head, {}, {}, {}, {}) /\ Def(head) = {}
  BY PlainPiece
<1> HIDE DEF a, b
<1> DEFINE c == head \o a
           d == c \o body
<1>5. Piece(clean, c, {}, {miss}, {}, {}) /\ Def(c) = {}
  <2>1. Joins(head, a, {}, {}, {}, {miss}, {}, {}, {}, {}, {}, {miss}, {}, {})
    BY <1>2, <1>4 DEF Joins
  <2>2. Piece(clean, c, {}, {miss}, {}, {})
    BY <1>2, <1>4, <2>1, ConcatPieces
  <2> QED BY <1>2, <1>4, <2>2, ConcatDef, PieceIsCode
<1> HIDE DEF c
<1>6. Piece(clean, d, {}, F \cup {miss}, B, {}) /\ Def(d) = Def(body)
  <2>1. Joins(c, body, {}, {}, {miss}, F, {}, B, {}, {}, {}, F \cup {miss}, B, {})
    BY <1>5 DEF Joins
  <2>2. Piece(clean, d, {}, F \cup {miss}, B, {})
    BY <1>5, <2>1, ConcatPieces
  <2>3. c \in Seq(Instrs) /\ body \in Seq(Instrs)
    BY <1>5, PieceIsCode
  <2>4. Def(d) = Def(c) \cup Def(body)
    BY <2>3, ConcatDef
  <2> QED BY <1>5, <2>2, <2>4
<1> HIDE DEF d
<1>7. Joins(d, b, {}, {miss}, F \cup {miss}, {end}, B, {}, {}, {}, {}, F \cup {end}, B, {})
  BY <1>3, <1>6 DEF Joins
<1>8. Piece(clean, d \o b, {}, F \cup {end}, B, {})
  BY <1>3, <1>6, <1>7, ConcatPieces
<1>9. DefIs(d \o b, Def(body) \cup {miss})
  BY <1>3, <1>6, ConcatDef, PieceIsCode DEF DefIs
<1> QED BY <1>8, <1>9 DEF d, c, a, b, x

\* What comes before the last block, that block, and the end.
LEMMA RestPiece ==
  ASSUME NEW clean, NEW row, NEW body, NEW F, NEW B, NEW end \in LabelNames,
         Piece(clean, row, {}, F \cup {end}, B, {}), Piece(clean, body, {}, F, B, {}),
         Apart(Def(row), F \cup B \cup {end}), Apart(Def(body), F \cup B \cup {end}),
         Apart(Def(row), Def(body)), end \notin B
  PROVE  /\ Piece(clean, row \o body \o << Label(end) >>, {}, F, B, {})
         /\ DefIs(row \o body \o << Label(end) >>, Def(row) \cup Def(body) \cup {end})
<1> DEFINE a == row \o body
           b == << Label(end) >>
<1>1. Piece(clean, b, {end}, {}, {}, {}) /\ Def(b) = {end}
  BY LabelPiece
<1> HIDE DEF b
<1>2. Piece(clean, a, {}, F \cup {end}, B, {}) /\ Def(a) = Def(row) \cup Def(body)
  <2>1. Joins(row, body, {}, {}, F \cup {end}, F, B, B, {}, {}, {}, F \cup {end}, B, {})
    BY DEF Joins, Apart
  <2>2. Piece(clean, a, {}, F \cup {end}, B, {})
    BY <2>1, ConcatPieces
  <2> QED BY <2>2, ConcatDef, PieceIsCode
<1> HIDE DEF a
<1>3. Joins(a, b, {}, {end}, F \cup {end}, {}, B, {}, {}, {}, {}, F, B, {})
  BY <1>1, <1>2 DEF Joins, Apart
<1>4. Piece(clean, a \o b, {}, F, B, {})
  BY <1>1, <1>2, <1>3, ConcatPieces
<1>5. DefIs(a \o b, Def(row) \cup Def(body) \cup {end})
  BY <1>1, <1>2, ConcatDef, PieceIsCode DEF DefIs
<1> QED BY <1>4, <1>5 DEF a, b

\* The head of a loop, its body, and the way back.
LEMMA LoopPiece ==
  ASSUME NEW clean, NEW c, NEW body, NEW head \in LabelNames, NEW end \in LabelNames, head # end,
         NEW H, Piece(clean, c, {head}, {end}, {}, H), DefIs(c, {head}),
         Piece(clean, body, {}, {end}, {head}, {}), head \notin Def(body), end \notin Def(body)
  PROVE  /\ Piece(clean, c \o body \o << Jump(head), Label(end) >>, {}, {}, {}, H)
         /\ DefIs(c \o body \o << Jump(head), Label(end) >>, Def(body) \cup {head, end})
<1>0. Def(c) = {head}
  BY DEF DefIs
<1> DEFINE a == c \o body
           b == << Jump(head), Label(end) >>
<1>1. Piece(clean, b, {end}, {}, {head}, {}) /\ Def(b) = {end}
  BY JumpLabelPiece
<1> HIDE DEF b
<1>2. Piece(clean, a, {head}, {end}, {}, H) /\ Def(a) = Def(body) \cup {head}
  <2>1. Joins(c, body, {head}, {}, {end}, {end}, {}, {head}, H, {}, {head}, {end}, {}, H)
    BY <1>0 DEF Joins
  <2>2. Piece(clean, a, {head}, {end}, {}, H)
    BY <2>1, ConcatPieces
  <2> QED BY <1>0, <2>2, ConcatDef, PieceIsCode
<1> HIDE DEF a
<1>3. Joins(a, b, {head}, {end}, {end}, {}, {}, {head}, H, {}, {}, {}, {}, H)
  BY <1>1, <1>2 DEF Joins
<1>4. Piece(clean, a \o b, {}, {}, {}, H)
  BY <1>1, <1>2, <1>3, ConcatPieces
<1>5. DefIs(a \o b, Def(body) \cup {head, end})
  BY <1>1, <1>2, ConcatDef, PieceIsCode DEF DefIs
<1> QED BY <1>4, <1>5 DEF a, b

\* The labels of a statement are its own, and different from one another.
LEMMA LabelsOf ==
  ASSUME NEW n \in Nat
  PROVE  /\ HeadLabel(n) \in LabelNames /\ HeadLabel(n)[1] = n
         /\ End(n) \in LabelNames /\ End(n)[1] = n
         /\ Catch(n) \in LabelNames /\ Catch(n)[1] = n
         /\ \A i \in Nat : Miss(n, i) \in LabelNames /\ Miss(n, i)[1] = n /\ Miss(n, i) # End(n)
         /\ \A i, j \in Nat : Miss(n, i) = Miss(n, j) => i = j
         /\ HeadLabel(n) # End(n) /\ Catch(n) # End(n)
<1>1. /\ <<n, "head", 0>> \in LabelNames /\ <<n, "end", 0>> \in LabelNames
      /\ <<n, "catch", 0>> \in LabelNames /\ \A i \in Nat : <<n, "miss", i>> \in LabelNames
  BY DEF LabelNames
<1> QED BY <1>1 DEF HeadLabel, End, Catch, Miss

\* The blocks of statement n, of which F and B are the labels they jump to.
BlocksFit(clean, n, slots, body, F, B) ==
  /\ \A s \in slots : /\ Piece(clean, body[s], {}, F, B, {})
                      /\ \A l \in Def(body[s]) : l[1] # n /\ l \notin F \cup B
  /\ \A s, t \in slots : s # t => Def(body[s]) \cap Def(body[t]) = {}
  /\ \A l \in F \cup B : l[1] # n

\* What becomes of them.
Fits(clean, n, slots, body, F, B, c) ==
  /\ Piece(clean, c, {}, F, B, {})
  /\ \A l \in Def(c) : l[1] = n \/ \E s \in slots : l \in Def(body[s])

\* The branches of an if or a switch, one after the other: a miss leads to the
\* next, and the others lead to the end.
LEMMA RowOfArms ==
  ASSUME NEW clean, NEW n \in Nat, NEW body, NEW F, NEW B,
         BlocksFit(clean, n, 1 .. (Arms + 1), body, F, B), NEW head,
         \A i \in 1 .. Arms : /\ head[i] \in Seq(Instrs)
                              /\ \A k \in DOMAIN head[i] : head[i][k].op \in PlainOps
  PROVE  LET arms == [i \in 1 .. Arms |-> head[i] \o << JumpIfFalse(Miss(n, i)) >> \o body[i]
                                            \o << Jump(End(n)), Label(Miss(n, i)) >>]
         IN  /\ Piece(clean, FlattenSeq(arms), {}, F \cup {End(n)}, B, {})
             /\ \A l \in Def(FlattenSeq(arms)) :
                  \E i \in 1 .. Arms : l = Miss(n, i) \/ l \in Def(body[i])
<1> DEFINE arm(i) == head[i] \o << JumpIfFalse(Miss(n, i)) >> \o body[i]
                       \o << Jump(End(n)), Label(Miss(n, i)) >>
           arms == [i \in 1 .. Arms |-> arm(i)]
           G == F \cup {End(n)}
<1>1. Arms \in Nat
  BY ArmsAssumption
<1>2. ASSUME NEW i \in 1 .. Arms
      PROVE  Piece(clean, arm(i), {}, G, B, {}) /\ Def(arm(i)) = Def(body[i]) \cup {Miss(n, i)}
  <2>1. i \in 1 .. (Arms + 1) /\ i \in Nat
    BY <1>1
  <2>2. Piece(clean, body[i], {}, F, B, {})
    BY <2>1 DEF BlocksFit
  <2>3. /\ End(n) \notin Def(body[i]) /\ Miss(n, i) \notin Def(body[i])
        /\ Miss(n, i) \notin F /\ Miss(n, i) \notin B
        /\ End(n) \in LabelNames /\ Miss(n, i) \in LabelNames /\ End(n) # Miss(n, i)
    BY <2>1, LabelsOf DEF BlocksFit
  <2> DEFINE h == head[i]
             b == body[i]
             end == End(n)
             miss == Miss(n, i)
  <2>4. h \in Seq(Instrs) /\ \A k \in DOMAIN h : h[k].op \in PlainOps
    OBVIOUS
  <2> HIDE DEF h, b, end, miss
  <2>7. Piece(clean, b, {}, F, B, {}) /\ end \notin Def(b) /\ miss \notin Def(b) /\ miss \notin F
        /\ miss \notin B /\ end \in LabelNames /\ miss \in LabelNames /\ end # miss
    BY <2>2, <2>3 DEF b, end, miss
  <2> DEFINE c == h \o << JumpIfFalse(miss) >> \o b \o << Jump(end), Label(miss) >>
  <2>8. Piece(clean, c, {}, F \cup {end}, B, {}) /\ DefIs(c, Def(b) \cup {miss})
    BY <2>4, <2>7, ArmPiece
  <2>9. c = arm(i)
    BY DEF h, b, end, miss
  <2> HIDE DEF c, arm
  <2> QED BY <2>9,  <2>8 DEF b, miss, end, DefIs
<1> HIDE DEF arm, G
<1>3. arms \in Seq(Seq(Instrs)) /\ Len(arms) = Arms /\ \A i \in 1 .. Arms : arms[i] = arm(i)
  BY <1>1, <1>2 DEF Piece
<1>4. \A i \in 1 .. Arms : i \in 1 .. (Arms + 1) /\ i \in Nat
  BY <1>1
<1>5. \A i \in 1 .. Arms : Apart(Def(arms[i]), G \cup B)
  <2> SUFFICES ASSUME NEW i \in 1 .. Arms, NEW l \in Def(body[i]) \cup {Miss(n, i)}
               PROVE  l \notin F /\ l # End(n) /\ l \notin B
    BY <1>2, <1>3 DEF Apart, G
  <2> QED BY <1>4, LabelsOf DEF BlocksFit
<1>6. \A i, j \in 1 .. Arms : i # j => Apart(Def(arms[i]), Def(arms[j]))
  <2> SUFFICES ASSUME NEW i \in 1 .. Arms, NEW j \in 1 .. Arms, i # j,
                      NEW l \in Def(body[i]) \cup {Miss(n, i)}
               PROVE  l \notin Def(body[j]) \cup {Miss(n, j)}
    BY <1>2, <1>3 DEF Apart
  <2>1. i \in 1 .. (Arms + 1) /\ j \in 1 .. (Arms + 1) /\ i \in Nat /\ j \in Nat
    BY <1>4
  <2>2. Miss(n, i)[1] = n /\ Miss(n, j)[1] = n /\ Miss(n, i) # Miss(n, j)
    BY <2>1, LabelsOf
  <2>3. \A k \in Def(body[i]) \cup Def(body[j]) : k[1] # n
    BY <2>1 DEF BlocksFit
  <2>4. Def(body[i]) \cap Def(body[j]) = {}
    BY <2>1 DEF BlocksFit
  <2> QED BY <2>2, <2>3, <2>4
<1>7. \A i \in 1 .. Arms : Piece(clean, arms[i], {}, G, B, {})
  BY <1>2, <1>3
<1> HIDE DEF arms
<1>8. /\ Piece(clean, FlattenSeq(arms), {}, G, B, {})
      /\ \A l \in Def(FlattenSeq(arms)) : \E i \in 1 .. Arms : l \in Def(arms[i])
  BY <1>1, <1>3, <1>5, <1>6, <1>7, RowOfPieces
<1>9. \A l \in Def(FlattenSeq(arms)) :
        \E i \in 1 .. Arms : l = Miss(n, i) \/ l \in Def(body[i])
  BY <1>2, <1>3, <1>8
<1> QED BY <1>8, <1>9 DEF arms, arm, G

\* The row, the block behind it and the end.
LEMMA ClosedRow ==
  ASSUME NEW clean, NEW n \in Nat, NEW body, NEW F, NEW B,
         BlocksFit(clean, n, 1 .. (Arms + 1), body, F, B), NEW row,
         Piece(clean, row, {}, F \cup {End(n)}, B, {}),
         \A l \in Def(row) : \E i \in 1 .. Arms : l = Miss(n, i) \/ l \in Def(body[i])
  PROVE  Fits(clean, n, 1 .. (Arms + 1), body, F, B,
              row \o body[Arms + 1] \o << Label(End(n)) >>)
<1> DEFINE b == body[Arms + 1]
           end == End(n)
           c == row \o b \o << Label(end) >>
<1>1. Arms \in Nat /\ Arms + 1 \in 1 .. (Arms + 1)
  BY ArmsAssumption
<1>2. \A i \in 1 .. Arms : i \in 1 .. (Arms + 1) /\ i \in Nat /\ i # Arms + 1
  BY <1>1
<1>3. /\ end \in LabelNames /\ end[1] = n /\ end \notin B
      /\ Piece(clean, b, {}, F, B, {})
      /\ \A l \in Def(b) : l[1] # n /\ l \notin F \cup B
  BY <1>1, LabelsOf DEF BlocksFit
<1>4. ASSUME NEW l \in Def(row) PROVE l \notin F \cup B \cup {end} /\ l \notin Def(b)
  <2>1. PICK i \in 1 .. Arms : l = Miss(n, i) \/ l \in Def(body[i])
    OBVIOUS
  <2>2. CASE l = Miss(n, i)
    BY <1>2, <1>3, <2>1, <2>2, LabelsOf DEF BlocksFit
  <2>3. CASE l \in Def(body[i])
    BY <1>1, <1>2, <1>3, <2>1, <2>3 DEF BlocksFit
  <2> QED BY <2>1, <2>2, <2>3
<1>5. /\ Apart(Def(row), F \cup B \cup {end}) /\ Apart(Def(b), F \cup B \cup {end})
      /\ Apart(Def(row), Def(b))
  BY <1>3, <1>4 DEF Apart
<1>6. Piece(clean, row, {}, F \cup {end}, B, {})
  OBVIOUS
<1>7. \A l \in Def(row) : l[1] = n \/ \E s \in 1 .. (Arms + 1) : l \in Def(body[s])
  BY <1>2, LabelsOf
<1>8. \A l \in Def(b) : \E s \in 1 .. (Arms + 1) : l \in Def(body[s])
  BY <1>1
<1> HIDE DEF b, end
<1>9. Piece(clean, c, {}, F, B, {}) /\ DefIs(c, Def(row) \cup Def(b) \cup {end})
  BY <1>3, <1>5, <1>6, RestPiece
<1> HIDE DEF c
<1>10. Fits(clean, n, 1 .. (Arms + 1), body, F, B, c)
  BY <1>3, <1>7, <1>8, <1>9 DEF Fits, DefIs
<1> QED BY <1>10 DEF c, b, end

\* lower_if.
LEMMA IfFits ==
  ASSUME NEW clean, NEW p, NEW n \in Nat, NEW body, NEW F, NEW B, p.test[n] \in Tests,
         BlocksFit(clean, n, 1 .. (Arms + 1), body, F, B)
  PROVE  Fits(clean, n, 1 .. (Arms + 1), body, F, B, LowerIf(p, n, body))
<1> DEFINE head == [i \in 1 .. Arms |-> LowerCondition(p, n, i)]
           arms == [i \in 1 .. Arms |-> head[i] \o << JumpIfFalse(Miss(n, i)) >> \o body[i]
                                          \o << Jump(End(n)), Label(Miss(n, i)) >>]
           row == FlattenSeq(arms)
<1>1. \A i \in 1 .. Arms : /\ head[i] \in Seq(Instrs)
                           /\ \A k \in DOMAIN head[i] : head[i][k].op \in PlainOps
  <2>1. \A i \in 1 .. Arms : i \in Nat
    BY ArmsAssumption
  <2> QED BY <2>1, ConditionIsPlain
<1>2. arms = [i \in 1 .. Arms |-> LowerCondition(p, n, i) \o << JumpIfFalse(Miss(n, i)) >> \o body[i]
                                    \o << Jump(End(n)), Label(Miss(n, i)) >>]
  OBVIOUS
<1> HIDE DEF head
<1>3. /\ Piece(clean, row, {}, F \cup {End(n)}, B, {})
      /\ \A l \in Def(row) : \E i \in 1 .. Arms : l = Miss(n, i) \/ l \in Def(body[i])
  BY <1>1, RowOfArms
<1>4. LowerIf(p, n, body) = row \o body[Arms + 1] \o << Label(End(n)) >>
  BY <1>2 DEF LowerIf
<1> HIDE DEF row
<1>5. Fits(clean, n, 1 .. (Arms + 1), body, F, B, row \o body[Arms + 1] \o << Label(End(n)) >>)
  BY <1>3, ClosedRow
<1> QED BY <1>4, <1>5

\* Two instructions, joined.
LEMMA TwoAreAPair ==
  ASSUME NEW x \in Instrs, NEW y \in Instrs
  PROVE  << x >> \o << y >> = << x, y >>
<1> DEFINE a == << x >>
           b == << y >>
           c == a \o b
           d == << x, y >>
<1>1. a \in Seq(Instrs) /\ b \in Seq(Instrs) /\ Len(a) = 1 /\ Len(b) = 1 /\ a[1] = x /\ b[1] = y
  OBVIOUS
<1>2. d \in Seq(Instrs) /\ Len(d) = 2 /\ DOMAIN d = {1, 2} /\ d[1] = x /\ d[2] = y
  OBVIOUS
<1> HIDE DEF a, b, d
<1>3. /\ c \in Seq(Instrs) /\ Len(c) = Len(a) + Len(b)
      /\ \A i \in 1 .. Len(a) : c[i] = a[i]
      /\ \A i \in 1 .. Len(b) : c[Len(a) + i] = b[i]
  BY <1>1, ConcatIs
<1> HIDE DEF c
<1>4. Len(c) = 2 /\ Len(d) = 2 /\ 1 \in 1 .. Len(a) /\ 1 \in 1 .. Len(b) /\ Len(a) + 1 = 2
  BY <1>1, <1>2, <1>3
<1>5. DOMAIN c = {1, 2} /\ c[1] = x /\ c[2] = y
  BY <1>1, <1>3, <1>4
<1>6. c = d
  <2>1. 1 .. Len(c) = {1, 2}
    BY <1>4
  <2>2. \A i \in 1 .. Len(c) : c[i] = d[i]
    BY <1>2, <1>5, <2>1
  <2> QED BY <1>2, <1>3, <1>4, <2>2, SeqEqual
<1> QED BY <1>6 DEF a, b, c, d

\* lower_switch.
LEMMA SwitchFits ==
  ASSUME NEW clean, NEW p, NEW n \in Nat, NEW body, NEW F, NEW B,
         BlocksFit(clean, n, 1 .. (Arms + 1), body, F, B)
  PROVE  Fits(clean, n, 1 .. (Arms + 1), body, F, B, LowerSwitch(p, n, body))
<1> DEFINE test(i) == Test(<<n, "case", i>>, "cond")
           head == [i \in 1 .. Arms |-> << test(i) >>]
           arms == [i \in 1 .. Arms |-> head[i] \o << JumpIfFalse(Miss(n, i)) >> \o body[i]
                                          \o << Jump(End(n)), Label(Miss(n, i)) >>]
           flat == FlattenSeq(arms)
           x == Eval(<<n, "subject", 0>>)
           pre == <<x>>
           row == pre \o flat
<1>1. ASSUME NEW i \in 1 .. Arms
      PROVE  head[i] \in Seq(Instrs) /\ \A k \in DOMAIN head[i] : head[i][k].op \in PlainOps
  <2>1. <<n, "case", i>> \in SiteNames
    BY ArmsAssumption DEF SiteNames
  <2>2. test(i) \in Instrs /\ test(i).op \in PlainOps
    BY <2>1, InstrTypes DEF Test, Instr, PlainOps, Temps
  <2> DEFINE t == test(i)
  <2>3. head[i] = << t >>
    OBVIOUS
  <2> HIDE DEF t, head
  <2>4. t \in Instrs /\ t.op \in PlainOps
    BY <2>2 DEF t
  <2> QED BY <2>3, <2>4
<1>2. \A i \in 1 .. Arms : head[i] \o << JumpIfFalse(Miss(n, i)) >>
                             = << test(i), JumpIfFalse(Miss(n, i)) >>
  <2> SUFFICES ASSUME NEW i \in 1 .. Arms
               PROVE  head[i] \o << JumpIfFalse(Miss(n, i)) >> = << test(i), JumpIfFalse(Miss(n, i)) >>
    OBVIOUS
  <2> DEFINE t == test(i)
             j == JumpIfFalse(Miss(n, i))
  <2>1. head[i] = << t >>
    OBVIOUS
  <2>2. t \in Instrs /\ j \in Instrs
    <3>1. i \in Nat
      BY ArmsAssumption
    <3>2. <<n, "case", i>> \in SiteNames
      BY <3>1 DEF SiteNames
    <3> QED BY <3>1, <3>2, LabelsOf, InstrTypes DEF Temps
  <2> HIDE DEF test, head, t, j
  <2>3. << t >> \o << j >> = << t, j >>
    BY <2>2, TwoAreAPair
  <2>4. head[i] \o << j >> = << t, j >>
    BY <2>1, <2>3
  <2> QED BY <2>4 DEF t, j
<1>3. arms = [i \in 1 .. Arms |-> << test(i), JumpIfFalse(Miss(n, i)) >> \o body[i]
                                    \o << Jump(End(n)), Label(Miss(n, i)) >>]
  BY <1>2
<1>4. /\ Piece(clean, flat, {}, F \cup {End(n)}, B, {})
      /\ \A l \in Def(flat) : \E i \in 1 .. Arms : l = Miss(n, i) \/ l \in Def(body[i])
  <2> HIDE DEF head
  <2> QED BY <1>1, RowOfArms
<1>5. LowerSwitch(p, n, body) = row \o body[Arms + 1] \o << Label(End(n)) >>
  BY <1>3 DEF LowerSwitch
<1>6. x \in Instrs /\ x.op \in PlainOps
  <2>1. <<n, "subject", 0>> \in SiteNames
    BY DEF SiteNames
  <2> QED BY <2>1, InstrTypes DEF Eval, Instr, PlainOps
<1> HIDE DEF x, flat
<1>7. pre \in Seq(Instrs) /\ \A k \in DOMAIN pre : pre[k].op \in PlainOps
  BY <1>6
<1> HIDE DEF pre
<1>8. Piece(clean, pre, {}, {}, {}, {}) /\ Def(pre) = {}
  BY <1>7, PlainPiece
<1>9. Piece(clean, row, {}, F \cup {End(n)}, B, {}) /\ Def(row) = Def(flat)
  <2>1. Joins(pre, flat, {}, {}, {}, F \cup {End(n)}, {}, B, {}, {}, {}, F \cup {End(n)}, B, {})
    BY <1>8 DEF Joins
  <2>2. Piece(clean, row, {}, F \cup {End(n)}, B, {})
    BY <1>4, <1>8, <2>1, ConcatPieces
  <2>3. pre \in Seq(Instrs) /\ flat \in Seq(Instrs)
    BY <1>4, <1>8, PieceIsCode
  <2>4. Def(row) = Def(pre) \cup Def(flat)
    BY <2>3, ConcatDef
  <2> QED BY <1>8, <2>2, <2>4
<1>10. \A l \in Def(row) : \E i \in 1 .. Arms : l = Miss(n, i) \/ l \in Def(body[i])
  BY <1>4, <1>9
<1> HIDE DEF row
<1>11. Fits(clean, n, 1 .. (Arms + 1), body, F, B, row \o body[Arms + 1] \o << Label(End(n)) >>)
  BY <1>9, <1>10, ClosedRow
<1> QED BY <1>5, <1>11

\* Where no `continue` leaves a try body, this one jumps to no label before it.
LEMMA TryFits ==
  ASSUME NEW clean, NEW n \in Nat, NEW body, NEW F, NEW B,
         BlocksFit(clean, n, 1 .. 2, body, F, B), clean => Piece(clean, body[1], {}, F, {}, {})
  PROVE  Fits(clean, n, 1 .. 2, body, F, B, LowerTry(n, body))
<1> DEFINE b1 == body[1]
           b2 == body[2]
           end == End(n)
           catch == Catch(n)
           site == <<n, "catch", 0>>
           B1 == IF clean THEN {} ELSE B
           row == << PushTry(catch) >> \o b1 \o << Jump(end), Label(catch), StoreLastError(site) >>
           c == row \o b2 \o << Label(end) >>
<1>1. /\ 1 \in 1 .. 2 /\ 2 \in 1 .. 2
      /\ \A l \in Def(b1) : l[1] # n /\ l \notin F \cup B
      /\ \A l \in Def(b2) : l[1] # n /\ l \notin F \cup B
      /\ Piece(clean, b1, {}, F, B, {}) /\ Piece(clean, b2, {}, F, B, {})
      /\ Def(b1) \cap Def(b2) = {}
      /\ \A l \in F \cup B : l[1] # n
  BY DEF BlocksFit
<1>2. /\ end \in LabelNames /\ catch \in LabelNames /\ end # catch
      /\ end[1] = n /\ catch[1] = n
      /\ site \in SiteNames
  BY LabelsOf DEF SiteNames
<1>3. Piece(clean, b1, {}, F, B1, {}) /\ (clean => B1 = {}) /\ B1 \subseteq B
  BY <1>1
<1>4. c = LowerTry(n, body)
  BY DEF LowerTry
<1> HIDE DEF b1, b2, end, catch, site, B1
<1>5. /\ catch \notin Def(b1) /\ end \notin Def(b1) /\ catch \notin F \cup B1
  BY <1>1, <1>2, <1>3
<1>6. Piece(clean, row, {}, F \cup {end}, B1, {}) /\ DefIs(row, Def(b1) \cup {catch})
  BY <1>2, <1>3, <1>5, TryBodyPiece DEF DefIs
<1>7. Def(row) = Def(b1) \cup {catch}
  BY <1>6 DEF DefIs
<1> HIDE DEF row
<1>8. Piece(clean, row, {}, F \cup {end}, B, {})
  BY <1>3, <1>6, WiderPiece
<1>9. /\ Apart(Def(row), F \cup B \cup {end}) /\ Apart(Def(b2), F \cup B \cup {end})
      /\ Apart(Def(row), Def(b2)) /\ end \notin B
  BY <1>1, <1>2, <1>7 DEF Apart
<1>10. Piece(clean, c, {}, F, B, {}) /\ DefIs(c, Def(row) \cup Def(b2) \cup {end})
  BY <1>1, <1>2, <1>8, <1>9, RestPiece
<1> HIDE DEF c
<1>11. ASSUME NEW l \in Def(c) PROVE l[1] = n \/ \E s \in 1 .. 2 : l \in Def(body[s])
  <2>1. l = catch \/ l = end \/ l \in Def(b1) \/ l \in Def(b2)
    BY <1>7, <1>10 DEF DefIs
  <2> QED BY <1>1, <1>2, <2>1 DEF b1, b2
<1> QED BY <1>4, <1>10, <1>11 DEF Fits

\* lower_statement for a while loop.
LEMMA WhileFits ==
  ASSUME NEW clean, NEW p, NEW n \in Nat, NEW body, NEW F, NEW B, p.test[n] \in Tests,
         Piece(clean, body[1], {}, {End(n)}, {HeadLabel(n)}, {}),
         \A l \in Def(body[1]) : l[1] # n
  PROVE  Fits(clean, n, {1}, body, F, B, LowerWhile(p, n, body))
<1> DEFINE b == body[1]
           end == End(n)
           head == HeadLabel(n)
           x == JumpIfFalse(end)
           l1 == << Label(head) >>
           l2 == LowerCondition(p, n, 1)
           l3 == << x >>
           l12 == l1 \o l2
           h == l12 \o l3
           c == h \o b \o << Jump(head), Label(end) >>
<1>1. /\ head \in LabelNames /\ end \in LabelNames /\ head # end /\ head[1] = n /\ end[1] = n
      /\ Piece(clean, b, {}, {end}, {head}, {}) /\ head \notin Def(b) /\ end \notin Def(b)
  BY LabelsOf
<1>2. c = LowerWhile(p, n, body)
  BY DEF LowerWhile
<1>3. l2 \in Seq(Instrs) /\ \A k \in DOMAIN l2 : l2[k].op \in PlainOps
  BY ConditionIsPlain
<1> HIDE DEF b, end, head, l2
<1>4. x \in Instrs /\ x.op \in Jumps /\ x.target = end
  BY <1>1, InstrTypes DEF JumpIfFalse, Instr, Jumps
<1> HIDE DEF x
<1>5. Piece(clean, l3, {}, {end}, {}, {}) /\ Def(l3) = {}
  BY <1>4, JumpPiece
<1>6. Piece(clean, l1, {head}, {}, {}, {}) /\ Def(l1) = {head}
  BY <1>1, LabelPiece
<1>7. Piece(clean, l2, {}, {}, {}, {}) /\ Def(l2) = {}
  BY <1>3, PlainPiece
<1> HIDE DEF l1, l3
<1>8. Piece(clean, l12, {head}, {}, {}, {}) /\ Def(l12) = {head}
  <2>1. Joins(l1, l2, {head}, {}, {}, {}, {}, {}, {}, {}, {head}, {}, {}, {})
    BY <1>6, <1>7 DEF Joins
  <2>2. Piece(clean, l12, {head}, {}, {}, {})
    BY <1>6, <1>7, <2>1, ConcatPieces
  <2>3. l1 \in Seq(Instrs) /\ l2 \in Seq(Instrs)
    BY <1>6, <1>7, PieceIsCode
  <2>4. Def(l12) = Def(l1) \cup Def(l2)
    BY <2>3, ConcatDef
  <2> QED BY <1>6, <1>7, <2>2, <2>4
<1> HIDE DEF l12
<1>9. Piece(clean, h, {head}, {end}, {}, {}) /\ DefIs(h, {head})
  <2>1. Joins(l12, l3, {head}, {}, {}, {end}, {}, {}, {}, {}, {head}, {end}, {}, {})
    BY <1>1, <1>5, <1>8 DEF Joins
  <2>2. Piece(clean, h, {head}, {end}, {}, {})
    BY <1>5, <1>8, <2>1, ConcatPieces
  <2>3. l12 \in Seq(Instrs) /\ l3 \in Seq(Instrs)
    BY <1>5, <1>8, PieceIsCode
  <2>4. Def(h) = Def(l12) \cup Def(l3)
    BY <2>3, ConcatDef
  <2> QED BY <1>5, <1>8, <2>2, <2>4 DEF DefIs
<1> HIDE DEF h
<1>10. Piece(clean, c, {}, {}, {}, {}) /\ DefIs(c, Def(b) \cup {head, end})
  BY <1>1, <1>9, LoopPiece
<1> HIDE DEF c
<1>11. Piece(clean, c, {}, F, B, {})
  BY <1>10, WiderPiece
<1>12. \A l \in Def(c) : l[1] = n \/ \E s \in {1} : l \in Def(body[s])
  BY <1>1, <1>10 DEF DefIs, b
<1> QED BY <1>2, <1>11, <1>12 DEF Fits

\* lower_statement for a for loop: its iterator is asked only behind its start.
LEMMA ForFits ==
  ASSUME NEW clean, NEW n \in Nat, NEW body, NEW F, NEW B,
         Piece(clean, body[1], {}, {End(n)}, {HeadLabel(n)}, {}),
         \A l \in Def(body[1]) : l[1] # n
  PROVE  Fits(clean, n, {1}, body, F, B, LowerFor(n, body))
<1> DEFINE b == body[1]
           end == End(n)
           head == HeadLabel(n)
           it == <<n, "for", 0>>
           var == <<n, "bind", 0>>
           h == << IterStart(it), Label(head), IterHasNext(it), JumpIfFalse(end), IterNext(it),
                   StoreBinding(var) >>
           back == << Jump(head), Label(end) >>
           c == h \o b \o back
<1>1. /\ head \in LabelNames /\ end \in LabelNames /\ head # end /\ head[1] = n /\ end[1] = n
      /\ Piece(clean, b, {}, {end}, {head}, {}) /\ head \notin Def(b) /\ end \notin Def(b)
      /\ it \in SiteNames /\ var \in SiteNames
  BY LabelsOf DEF SiteNames
<1>2. c = LowerFor(n, body)
  BY DEF LowerFor
<1> HIDE DEF b, end, head, it, var
<1>3. /\ Piece(clean, h, {head}, {end}, {}, {it}) /\ DefIs(h, {head})
      /\ h[1].op = "IterStart" /\ h[1].site = it
  BY <1>1, ForHeadPiece
<1>4. Len(h) = 6
  OBVIOUS
<1> HIDE DEF h
<1>5. Piece(clean, c, {}, {}, {}, {it}) /\ DefIs(c, Def(b) \cup {head, end})
  BY <1>1, <1>3, LoopPiece
<1>6. 1 \in DOMAIN c /\ c[1] = h[1]
  <2>1. back \in Seq(Instrs)
    BY <1>1, JumpLabelPiece DEF Piece
  <2> HIDE DEF back
  <2>2. h \in Seq(Instrs) /\ b \in Seq(Instrs)
    BY <1>1, <1>3 DEF Piece
  <2> DEFINE hb == h \o b
  <2>0. /\ hb \in Seq(Instrs) /\ Len(hb) = Len(h) + Len(b) /\ Len(b) \in Nat
        /\ \A i \in 1 .. Len(h) : hb[i] = h[i]
    BY <2>2, ConcatIs
  <2>3. /\ hb \in Seq(Instrs) /\ Len(hb) = 6 + Len(b) /\ Len(b) \in Nat
        /\ \A i \in 1 .. 6 : hb[i] = h[i]
    BY <1>4, <2>0
  <2>4. 1 \in 1 .. 6 /\ 1 \in 1 .. Len(hb)
    BY <2>3
  <2> HIDE DEF hb
  <2>5. 1 \in DOMAIN (hb \o back) /\ (hb \o back)[1] = hb[1]
    BY <2>1, <2>3, <2>4, ConcatIs
  <2> QED BY <2>3, <2>4, <2>5 DEF hb
<1> HIDE DEF c, back
<1>7. Piece(clean, c, {}, {}, {}, {})
  BY <1>3, <1>5, <1>6, SealedPiece
<1>8. Piece(clean, c, {}, F, B, {})
  BY <1>7, WiderPiece
<1>9. \A l \in Def(c) : l[1] = n \/ \E s \in {1} : l \in Def(body[s])
  BY <1>1, <1>5 DEF DefIs, b
<1> QED BY <1>2, <1>8, <1>9 DEF Fits

-----------------------------------------------------------------------------
(***************************************************************************)
(* Statement trees.  Line(p, n) is n and the statements that it lies in.   *)
(***************************************************************************)
Line(p, n) == {n} \cup {b[1] : b \in Around(p, n)}

\* The statements around one are those around its parent, and the parent.
AroundIs(p, around, k) ==
  \A m \in 0 .. k : around[m] = IF m = 0 \/ p.parent[m] = 0 THEN {}
                                ELSE {<<p.parent[m], p.slot[m]>>} \cup around[p.parent[m]]

\* What IsTree says, conjunct by conjunct.
LEMMA TreeFacts ==
  ASSUME NEW p, IsTree(p)
  PROVE  /\ Len(p.kind) \in Nat /\ Stmts(p) = 1 .. Len(p.kind)
         /\ \A n \in Stmts(p) : /\ n \in Nat /\ n # 0 /\ p.kind[n] \in Kinds /\ p.test[n] \in Tests
                                /\ p.parent[n] \in Nat /\ p.parent[n] < n
                                /\ p.parent[n] # 0 => p.parent[n] \in Stmts(p)
                                /\ p.parent[n] = 0 => p.slot[n] = 1
                                /\ p.parent[n] # 0 => p.slot[n] \in Slots(p.kind[p.parent[n]])
<1>1. Len(p.kind) \in Nat /\ Stmts(p) = 1 .. Len(p.kind) /\ DOMAIN p.kind = 1 .. Len(p.kind)
  BY DEF IsTree, Stmts
<1>2. ASSUME NEW n \in Stmts(p)
      PROVE  /\ n \in Nat /\ n # 0 /\ p.kind[n] \in Kinds /\ p.test[n] \in Tests
             /\ p.parent[n] \in Nat /\ p.parent[n] < n
             /\ p.parent[n] # 0 => p.parent[n] \in Stmts(p)
  <2>1. p.parent[n] \in 0 .. (n - 1) /\ n \in 1 .. Len(p.kind)
    BY <1>1 DEF IsTree
  <2>2. p.kind[n] \in Kinds
    BY <1>1 DEF IsTree
  <2>3. p.test[n] \in Tests
    BY DEF IsTree
  <2> QED BY <1>1, <2>1, <2>2, <2>3
<1>3. ASSUME NEW n \in Stmts(p)
      PROVE  /\ p.parent[n] = 0 => p.slot[n] = 1
             /\ p.parent[n] # 0 => p.slot[n] \in Slots(p.kind[p.parent[n]])
  BY DEF IsTree
<1> QED BY <1>1, <1>2, <1>3

\* The recursive function behind Around exists: a parent comes before its
\* children.
LEMMA AroundExists ==
  ASSUME NEW p, IsTree(p)
  PROVE  \E around : around = [m \in 0 .. Len(p.kind) |->
            IF m = 0 \/ p.parent[m] = 0 THEN {}
            ELSE {<<p.parent[m], p.slot[m]>>} \cup around[p.parent[m]]]
<1> DEFINE N == Len(p.kind)
           Bad == {k \in Nat : k <= N /\ ~ \E around : AroundIs(p, around, k)}
<1>0. N \in Nat
  BY TreeFacts
<1>1. Bad = {}
  <2> SUFFICES ASSUME Bad # {} PROVE FALSE
    OBVIOUS
  <2>1. PICK k \in Bad : \A j \in Bad : k <= j
    <3>1. Bad \subseteq Nat
      OBVIOUS
    <3> HIDE DEF Bad
    <3> QED BY <3>1, LeastElement
  <2>2. k \in Nat /\ k <= N /\ ~ \E around : AroundIs(p, around, k)
    BY <2>1
  <2>3. k # 0
    <3> SUFFICES ASSUME k = 0 PROVE FALSE
      OBVIOUS
    <3> DEFINE a == [m \in {0} |-> {}]
    <3>1. AroundIs(p, a, k)
      BY <2>2 DEF AroundIs
    <3> HIDE DEF a
    <3> QED BY <2>2, <3>1
  <2>4. k - 1 \in Nat /\ k - 1 <= N /\ ~ (k <= k - 1)
    BY <1>0, <2>2, <2>3
  <2>5. k - 1 \notin Bad
    <3> HIDE DEF Bad
    <3> QED BY <2>1, <2>4
  <2>6. PICK b : AroundIs(p, b, k - 1)
    BY <2>4, <2>5
  <2> DEFINE here == IF p.parent[k] = 0 THEN {}
                     ELSE {<<p.parent[k], p.slot[k]>>} \cup b[p.parent[k]]
             a == [m \in 0 .. k |-> IF m = k THEN here ELSE b[m]]
  <2>7. k \in Stmts(p)
    BY <1>0, <2>2, <2>3 DEF Stmts
  <2>8. ASSUME NEW m \in 0 .. k
        PROVE  a[m] = IF m = 0 \/ p.parent[m] = 0 THEN {}
                      ELSE {<<p.parent[m], p.slot[m]>>} \cup a[p.parent[m]]
    <3>1. CASE m = k
      <4>1. p.parent[k] \in 0 .. k /\ p.parent[k] # k
        BY <2>7, TreeFacts
      <4> QED BY <2>3, <3>1, <4>1
    <3>2. CASE m # k
      <4>1. m \in 0 .. k - 1
        BY <2>2, <3>2
      <4>2. b[m] = IF m = 0 \/ p.parent[m] = 0 THEN {}
                   ELSE {<<p.parent[m], p.slot[m]>>} \cup b[p.parent[m]]
        BY <2>6, <4>1 DEF AroundIs
      <4>3. m # 0 => p.parent[m] \in 0 .. k /\ p.parent[m] # k
        <5> SUFFICES ASSUME m # 0 PROVE p.parent[m] \in 0 .. k /\ p.parent[m] # k
          OBVIOUS
        <5>1. m \in Stmts(p)
          BY <1>0, <2>2, <4>1 DEF Stmts
        <5>2. p.parent[m] \in Nat /\ p.parent[m] < m
          BY <5>1, TreeFacts
        <5> QED BY <2>2, <4>1, <5>2
      <4> QED BY <3>2, <4>2, <4>3
    <3> QED BY <3>1, <3>2
  <2>9. AroundIs(p, a, k)
    BY <2>8 DEF AroundIs
  <2> HIDE DEF a
  <2> QED BY <2>2, <2>9
<1>2. N \notin Bad
  BY <1>1
<1>3. PICK b : AroundIs(p, b, N)
  BY <1>0, <1>2
<1> DEFINE a == [m \in 0 .. N |-> b[m]]
<1>4. ASSUME NEW m \in 0 .. N
      PROVE  a[m] = IF m = 0 \/ p.parent[m] = 0 THEN {}
                    ELSE {<<p.parent[m], p.slot[m]>>} \cup a[p.parent[m]]
  <2>1. m # 0 => p.parent[m] \in 0 .. N
    <3> SUFFICES ASSUME m # 0 PROVE p.parent[m] \in 0 .. N
      OBVIOUS
    <3>1. m \in Stmts(p)
      BY <1>0 DEF Stmts
    <3>2. p.parent[m] \in Nat /\ p.parent[m] < m
      BY <3>1, TreeFacts
    <3> QED BY <1>0, <3>2
  <2>2. b[m] = IF m = 0 \/ p.parent[m] = 0 THEN {}
               ELSE {<<p.parent[m], p.slot[m]>>} \cup b[p.parent[m]]
    BY <1>3 DEF AroundIs
  <2> QED BY <2>1, <2>2
<1>5. a = [m \in 0 .. N |-> IF m = 0 \/ p.parent[m] = 0 THEN {}
                            ELSE {<<p.parent[m], p.slot[m]>>} \cup a[p.parent[m]]]
  BY <1>4
<1> HIDE DEF a
<1> QED BY <1>5

\* Around, unfolded once.
LEMMA AroundRecursion ==
  ASSUME NEW p, IsTree(p), NEW n \in Stmts(p)
  PROVE  /\ p.parent[n] = 0 => Around(p, n) = {}
         /\ p.parent[n] # 0 =>
              Around(p, n) = {<<p.parent[n], p.slot[n]>>} \cup Around(p, p.parent[n])
<1> DEFINE Is(around) == around = [m \in 0 .. Len(p.kind) |->
                           IF m = 0 \/ p.parent[m] = 0 THEN {}
                           ELSE {<<p.parent[m], p.slot[m]>>} \cup around[p.parent[m]]]
           it == CHOOSE around : Is(around)
<1>1. \E around : Is(around)
  BY AroundExists
<1>2. Is(it)
  <2> HIDE DEF Is
  <2> QED BY <1>1
<1>3. \A m : Around(p, m) = it[m]
  BY DEF Around
<1> HIDE DEF it
<1>4. n \in 0 .. Len(p.kind) /\ n # 0
  BY TreeFacts
<1>5. it[n] = IF n = 0 \/ p.parent[n] = 0 THEN {}
              ELSE {<<p.parent[n], p.slot[n]>>} \cup it[p.parent[n]]
  BY <1>2, <1>4
<1> QED BY <1>3, <1>4, <1>5

\* Line, unfolded once.
LEMMA LineRecursion ==
  ASSUME NEW p, IsTree(p), NEW n \in Stmts(p)
  PROVE  /\ p.parent[n] = 0 => Line(p, n) = {n}
         /\ p.parent[n] # 0 => Line(p, n) = {n} \cup Line(p, p.parent[n])
<1>1. CASE p.parent[n] = 0
  BY <1>1, AroundRecursion DEF Line
<1>2. CASE p.parent[n] # 0
  <2> DEFINE m == p.parent[n]
             b == <<m, p.slot[n]>>
  <2>1. Around(p, n) = {b} \cup Around(p, m)
    BY <1>2, AroundRecursion
  <2>2. b[1] = m
    OBVIOUS
  <2> HIDE DEF b, m
  <2>3. Line(p, n) = {n} \cup Line(p, m)
    BY <2>1, <2>2 DEF Line
  <2> QED BY <1>2, <2>3 DEF m
<1> QED BY <1>1, <1>2

\* What a statement lies in comes before it.
LEMMA LineIsBefore ==
  ASSUME NEW p, IsTree(p), NEW n \in Stmts(p), NEW a \in Line(p, n)
  PROVE  a \in Stmts(p) /\ a <= n
<1> DEFINE Bad == {m \in Stmts(p) : \E x \in Line(p, m) : ~ (x \in Stmts(p) /\ x <= m)}
<1>1. Bad = {}
  <2> SUFFICES ASSUME Bad # {} PROVE FALSE
    OBVIOUS
  <2>1. PICK m \in Bad : \A k \in Bad : m <= k
    <3>1. Bad \subseteq Nat
      BY TreeFacts
    <3> HIDE DEF Bad
    <3> QED BY <3>1, LeastElement
  <2>2. m \in Stmts(p) /\ \E x \in Line(p, m) : ~ (x \in Stmts(p) /\ x <= m)
    BY <2>1
  <2>3. PICK x \in Line(p, m) : ~ (x \in Stmts(p) /\ x <= m)
    BY <2>2
  <2>4. m \in Nat /\ p.parent[m] \in Nat /\ p.parent[m] < m /\ x # m
    BY <2>2, <2>3, TreeFacts
  <2>5. CASE p.parent[m] = 0
    BY <2>2, <2>3, <2>4, <2>5, LineRecursion
  <2>6. CASE p.parent[m] # 0
    <3> DEFINE k == p.parent[m]
    <3>1. k \in Stmts(p) /\ x \in Line(p, k) /\ k \in Nat
      BY <2>2, <2>3, <2>4, <2>6, LineRecursion, TreeFacts
    <3>2. k \notin Bad
      <4>1. k < m /\ k \in Nat
        BY <2>4
      <4>2. ~ (m <= k)
        BY <2>4, <4>1
      <4> HIDE DEF Bad
      <4> QED BY <2>1, <4>2
    <3>3. k < m
      BY <2>4
    <3> HIDE DEF k
    <3>4. x \in Stmts(p) /\ x <= k
      BY <3>1, <3>2
    <3>5. x \in Nat
      BY <3>4, TreeFacts
    <3>6. x <= m
      BY <2>4, <3>1, <3>3, <3>4, <3>5
    <3> QED BY <2>3, <3>4, <3>6
  <2> QED BY <2>5, <2>6
<1> QED BY <1>1

\* A statement comes after those around it.
LEMMA AroundIsBefore ==
  ASSUME NEW p, IsTree(p), NEW n \in Stmts(p), NEW b \in Around(p, n)
  PROVE  b[1] \in Stmts(p) /\ b[1] < n
<1>1. p.parent[n] # 0 /\ p.parent[n] \in Stmts(p)
  BY AroundRecursion, TreeFacts
<1> DEFINE m == p.parent[n]
           e == <<m, p.slot[n]>>
<1>2. b = e \/ b \in Around(p, m)
  BY <1>1, AroundRecursion
<1>3. e[1] = m
  OBVIOUS
<1>4. m \in Stmts(p) /\ m \in Nat /\ n \in Nat /\ m < n
  BY <1>1, TreeFacts
<1> HIDE DEF m, e
<1>5. b[1] \in Line(p, m)
  BY <1>2, <1>3 DEF Line
<1>6. b[1] \in Stmts(p) /\ b[1] <= m
  BY <1>4, <1>5, LineIsBefore
<1>7. b[1] \in Nat
  BY <1>6, TreeFacts
<1> QED BY <1>4, <1>6, <1>7

\* What a statement lies in lies in what that lies in.
LEMMA LineClimbs ==
  ASSUME NEW p, IsTree(p), NEW n \in Stmts(p), NEW m \in Line(p, n), p.parent[m] # 0
  PROVE  p.parent[m] \in Line(p, n)
<1> DEFINE Bad == {k \in Stmts(p) : \E x \in Line(p, k) : p.parent[x] # 0 /\ p.parent[x] \notin Line(p, k)}
<1>1. Bad = {}
  <2> SUFFICES ASSUME Bad # {} PROVE FALSE
    OBVIOUS
  <2>1. PICK k \in Bad : \A j \in Bad : k <= j
    <3>1. Bad \subseteq Nat
      BY TreeFacts
    <3> HIDE DEF Bad
    <3> QED BY <3>1, LeastElement
  <2>2. k \in Stmts(p) /\ \E x \in Line(p, k) : p.parent[x] # 0 /\ p.parent[x] \notin Line(p, k)
    BY <2>1
  <2>3. PICK x \in Line(p, k) : p.parent[x] # 0 /\ p.parent[x] \notin Line(p, k)
    BY <2>2
  <2> DEFINE up == p.parent[k]
  <2>4. up # 0 /\ Line(p, k) = {k} \cup Line(p, up)
    BY <2>2, <2>3, LineRecursion
  <2>5. up \in Stmts(p) /\ up \in Nat /\ k \in Nat /\ up < k
    BY <2>2, <2>4, TreeFacts
  <2>6. up \in Line(p, up)
    BY DEF Line
  <2>7. up \notin Bad
    <3>1. ~ (k <= up)
      BY <2>5
    <3> HIDE DEF Bad, up
    <3> QED BY <2>1, <3>1
  <2>8. CASE x = k
    BY <2>3, <2>4, <2>6, <2>8
  <2>9. CASE x # k
    <3>1. x \in Line(p, up)
      BY <2>3, <2>4, <2>9
    <3> HIDE DEF up
    <3>2. p.parent[x] \in Line(p, up)
      BY <2>3, <2>5, <2>7, <3>1
    <3> QED BY <2>3, <2>4, <3>2
  <2> QED BY <2>8, <2>9
<1> QED BY <1>1

\* A statement lies in at most one statement of a block.
LEMMA LinesPart ==
  ASSUME NEW p, IsTree(p), NEW n \in Stmts(p), NEW a \in Line(p, n), NEW b \in Line(p, n),
         p.parent[a] = p.parent[b]
  PROVE  a = b
<1> DEFINE Bad == {k \in Stmts(p) :
                     \E x, y \in Line(p, k) : p.parent[x] = p.parent[y] /\ x # y}
\* No statement lies in one that has the same parent.
<1>1. ASSUME NEW k \in Stmts(p), NEW x \in Line(p, k), p.parent[x] = p.parent[k]
      PROVE  x = k
  <2> SUFFICES ASSUME x # k PROVE FALSE
    OBVIOUS
  <2>1. p.parent[k] # 0 /\ x \in Line(p, p.parent[k])
    BY <1>1, LineRecursion
  <2> DEFINE m == p.parent[k]
  <2>2. m \in Stmts(p) /\ x \in Line(p, m) /\ m \in Nat /\ p.parent[x] = m
    BY <1>1, <2>1, TreeFacts
  <2> HIDE DEF m
  <2>3. x \in Stmts(p) /\ x <= m
    BY <2>2, LineIsBefore
  <2>4. x \in Nat /\ m < x
    BY <2>2, <2>3, TreeFacts
  <2> QED BY <2>2, <2>3, <2>4
<1>2. Bad = {}
  <2> SUFFICES ASSUME Bad # {} PROVE FALSE
    OBVIOUS
  <2>1. PICK k \in Bad : \A j \in Bad : k <= j
    <3>1. Bad \subseteq Nat
      BY TreeFacts
    <3> HIDE DEF Bad
    <3> QED BY <3>1, LeastElement
  <2>2. k \in Stmts(p) /\ \E x, y \in Line(p, k) : p.parent[x] = p.parent[y] /\ x # y
    BY <2>1
  <2>3. PICK x \in Line(p, k), y \in Line(p, k) : p.parent[x] = p.parent[y] /\ x # y
    BY <2>2
  <2>4. x # k /\ y # k
    BY <1>1, <2>2, <2>3
  <2> DEFINE m == p.parent[k]
  <2>5. m # 0 /\ x \in Line(p, m) /\ y \in Line(p, m)
    BY <2>2, <2>3, <2>4, LineRecursion
  <2>6. m \in Stmts(p) /\ m \in Nat /\ k \in Nat /\ m < k
    BY <2>2, <2>5, TreeFacts
  <2>7. m \in Bad
    <3> HIDE DEF m
    <3> QED BY <2>3, <2>5, <2>6
  <2>8. ~ (k <= m)
    BY <2>6
  <2> HIDE DEF Bad, m
  <2> QED BY <2>1, <2>7, <2>8
<1> QED BY <1>2

LoopsAround(p, n) == {a \in Stmts(p) : <<a, 1>> \in Around(p, n) /\ p.kind[a] \in Loops}

\* LoopOf is the innermost of the loops around a statement, if there is one.
LEMMA LoopOfIs ==
  ASSUME NEW p, IsTree(p), NEW n \in Stmts(p)
  PROVE  /\ LoopsAround(p, n) = {} => LoopOf(p, n) = 0
         /\ LoopsAround(p, n) # {} =>
              /\ LoopOf(p, n) \in LoopsAround(p, n)
              /\ \A b \in LoopsAround(p, n) : b <= LoopOf(p, n)
<1> DEFINE loops == LoopsAround(p, n)
           Is(a) == a \in loops /\ \A b \in loops : b <= a
           last == CHOOSE a \in loops : \A b \in loops : b <= a
<1>1. LoopOf(p, n) = IF loops = {} THEN 0 ELSE last
  BY DEF LoopOf, LoopsAround
<1>2. loops \subseteq 1 .. Len(p.kind) /\ Len(p.kind) \in Nat
  BY TreeFacts DEF LoopsAround
<1> HIDE DEF loops
<1>3. loops # {} => last \in loops /\ \A b \in loops : b <= last
  <2> SUFFICES ASSUME loops # {} PROVE last \in loops /\ \A b \in loops : b <= last
    OBVIOUS
  <2>1. \E a \in loops : \A b \in loops : b <= a
    BY <1>2, GreatestElement
  <2> QED BY <2>1
<1> HIDE DEF last
<1> QED BY <1>1, <1>3 DEF loops

\* The loop around a statement comes before it.
LEMMA LoopOfIsBefore ==
  ASSUME NEW p, IsTree(p), NEW n \in Stmts(p)
  PROVE  /\ LoopOf(p, n) \in Nat /\ LoopOf(p, n) < n
         /\ LoopOf(p, n) # 0 => LoopOf(p, n) \in Stmts(p)
<1>1. n \in Nat /\ n # 0
  BY TreeFacts
<1>2. CASE LoopsAround(p, n) = {}
  BY <1>1, <1>2, LoopOfIs
<1>3. CASE LoopsAround(p, n) # {}
  <2> DEFINE a == LoopOf(p, n)
             b == <<a, 1>>
  <2>1. a \in Stmts(p) /\ b \in Around(p, n) /\ b[1] = a
    BY <1>3, LoopOfIs DEF LoopsAround
  <2> HIDE DEF a, b
  <2>2. a < n /\ a \in Nat
    BY <2>1, AroundIsBefore, TreeFacts
  <2> QED BY <2>1, <2>2 DEF a
<1> QED BY <1>2, <1>3

\* No loop is around a statement of the body itself.
LEMMA LoopOfTop ==
  ASSUME NEW p, IsTree(p), NEW m \in Stmts(p), p.parent[m] = 0
  PROVE  LoopOf(p, m) = 0
<1>1. LoopsAround(p, m) = {}
  BY AroundRecursion DEF LoopsAround
<1> QED BY <1>1, LoopOfIs

\* The loop and the try bodies around a statement of block s of n.
LEMMA AroundMember ==
  ASSUME NEW p, IsTree(p), NEW n \in Stmts(p), NEW s, NEW m \in Members(p, n, s)
  PROVE  /\ m \in Stmts(p) /\ n < m /\ s \in Slots(p.kind[n])
         /\ p.kind[n] \in Loops => LoopOf(p, m) = n
         /\ p.kind[n] \notin Loops => LoopOf(p, m) = LoopOf(p, n)
         /\ TriesOf(p, m) = TriesOf(p, n) \cup IF p.kind[n] = "try" /\ s = 1 THEN {n} ELSE {}
<1>1. m \in Stmts(p) /\ p.parent[m] = n /\ p.slot[m] = s /\ n # 0 /\ n \in Nat
  BY TreeFacts DEF Members
<1>2. n < m /\ s \in Slots(p.kind[n])
  BY <1>1, TreeFacts
<1>3. Around(p, m) = {<<n, s>>} \cup Around(p, n)
  BY <1>1, AroundRecursion
<1>4. \A a : <<a, 1>> \in Around(p, m) <=> (a = n /\ s = 1) \/ <<a, 1>> \in Around(p, n)
  BY <1>3
<1>5. TriesOf(p, m) = TriesOf(p, n) \cup IF p.kind[n] = "try" /\ s = 1 THEN {n} ELSE {}
  BY <1>1, <1>4 DEF TriesOf
<1>6. ASSUME p.kind[n] \in Loops PROVE LoopOf(p, m) = n
  <2>1. s = 1
    BY <1>2, <1>6 DEF Slots, Loops, Branchings
  <2>2. n \in LoopsAround(p, m) /\ \A a \in LoopsAround(p, m) : a = n \/ a \in LoopsAround(p, n)
    BY <1>4, <1>6, <2>1 DEF LoopsAround
  <2>3. ASSUME NEW a \in LoopsAround(p, n) PROVE a \in Nat /\ a < n
    <3> DEFINE b == <<a, 1>>
    <3>1. b \in Around(p, n) /\ b[1] = a
      BY DEF LoopsAround
    <3> HIDE DEF b
    <3>2. a \in Stmts(p) /\ a < n
      BY <3>1, AroundIsBefore
    <3> QED BY <3>2, TreeFacts
  <2>4. LoopOf(p, m) \in LoopsAround(p, m) /\ n <= LoopOf(p, m)
    BY <1>1, <2>2, LoopOfIs
  <2> DEFINE x == LoopOf(p, m)
  <2>5. x = n \/ (x \in Nat /\ x < n)
    BY <2>2, <2>3, <2>4
  <2>6. n <= x
    BY <2>4
  <2> HIDE DEF x
  <2>7. x = n
    BY <1>1, <2>5, <2>6
  <2> QED BY <2>7 DEF x
<1>7. ASSUME p.kind[n] \notin Loops PROVE LoopOf(p, m) = LoopOf(p, n)
  <2>1. \A a \in Stmts(p) : <<a, 1>> \in Around(p, m) /\ p.kind[a] \in Loops
                              <=> <<a, 1>> \in Around(p, n) /\ p.kind[a] \in Loops
    BY <1>4, <1>7
  <2>2. LoopsAround(p, m) = LoopsAround(p, n)
    BY <2>1 DEF LoopsAround
  <2>3. \A k : LoopOf(p, k) = IF LoopsAround(p, k) = {} THEN 0
                             ELSE CHOOSE a \in LoopsAround(p, k) : \A b \in LoopsAround(p, k) : b <= a
    BY DEF LoopOf, LoopsAround
  <2> QED BY <2>2, <2>3
<1> QED BY <1>1, <1>2, <1>5, <1>6, <1>7

-----------------------------------------------------------------------------
(***************************************************************************)
(* The recursion of LowerStatement, from the last statement to the first.  *)
(***************************************************************************)
Blocks(p, n, lower) == [s \in Slots(p.kind[n]) |-> LowerBlock(p, n, s, lower)]

LoweredFrom(p, f, k) == \A n \in Stmts(p) : k <= n => f[n] = Lower(p, n, Blocks(p, n, f))

\* The code of blocks depends on that of the statements behind.
LEMMA BlocksLookAhead ==
  ASSUME NEW p, IsTree(p), NEW n \in Stmts(p), NEW f, NEW g,
         \A m \in Stmts(p) : n < m => f[m] = g[m]
  PROVE  Blocks(p, n, f) = Blocks(p, n, g)
<1>1. \A s \in Slots(p.kind[n]) : LowerBlock(p, n, s, f) = LowerBlock(p, n, s, g)
  <2> SUFFICES ASSUME NEW s \in Slots(p.kind[n])
               PROVE  LowerBlock(p, n, s, f) = LowerBlock(p, n, s, g)
    OBVIOUS
  <2>1. \A c \in Stmts(p) : (IF c \in Members(p, n, s) THEN f[c] ELSE << >>)
                              = (IF c \in Members(p, n, s) THEN g[c] ELSE << >>)
    BY AroundMember
  <2>2. [c \in Stmts(p) |-> IF c \in Members(p, n, s) THEN f[c] ELSE << >>]
          = [c \in Stmts(p) |-> IF c \in Members(p, n, s) THEN g[c] ELSE << >>]
    BY <2>1
  <2> QED BY <2>2 DEF LowerBlock
<1> QED BY <1>1 DEF Blocks

\* The recursive function behind LowerStatement exists: the blocks of a
\* statement hold later statements only.
LEMMA LoweringExists ==
  ASSUME NEW p, IsTree(p)
  PROVE  \E f : f = [n \in Stmts(p) |-> Lower(p, n, Blocks(p, n, f))]
<1> DEFINE N == Len(p.kind)
           Bad == {k \in Nat : k <= N /\ ~ \E f : LoweredFrom(p, f, N + 1 - k)}
<1>0. N \in Nat /\ Stmts(p) = 1 .. N
  BY TreeFacts
<1>1. Bad = {}
  <2> SUFFICES ASSUME Bad # {} PROVE FALSE
    OBVIOUS
  <2>1. PICK k \in Bad : \A j \in Bad : k <= j
    <3>1. Bad \subseteq Nat
      OBVIOUS
    <3> HIDE DEF Bad
    <3> QED BY <3>1, LeastElement
  <2>2. k \in Nat /\ k <= N /\ ~ \E f : LoweredFrom(p, f, N + 1 - k)
    BY <2>1
  <2>3. k # 0
    <3> SUFFICES ASSUME k = 0 PROVE FALSE
      OBVIOUS
    <3> DEFINE a == [n \in Stmts(p) |-> << >>]
    <3>1. \A n \in Stmts(p) : ~ (N + 1 - k <= n)
      BY <1>0, <2>2
    <3>2. LoweredFrom(p, a, N + 1 - k)
      BY <3>1 DEF LoweredFrom
    <3> HIDE DEF a
    <3> QED BY <2>2, <3>2
  <2>4. k - 1 \in Nat /\ k - 1 <= N /\ ~ (k <= k - 1)
    BY <1>0, <2>2, <2>3
  <2>5. k - 1 \notin Bad
    <3> HIDE DEF Bad
    <3> QED BY <2>1, <2>4
  <2> DEFINE j == N + 1 - k
  <2>6. N + 1 - (k - 1) = j + 1 /\ j \in Nat
    BY <1>0, <2>2
  <2>7. PICK b : LoweredFrom(p, b, j + 1)
    <3>1. \E f : LoweredFrom(p, f, N + 1 - (k - 1))
      BY <2>4, <2>5
    <3> QED BY <2>6, <3>1
  <2> HIDE DEF j
  <2> DEFINE a == [n \in Stmts(p) |-> IF n = j THEN Lower(p, n, Blocks(p, n, b)) ELSE b[n]]
  <2>8. ASSUME NEW n \in Stmts(p), j <= n PROVE a[n] = Lower(p, n, Blocks(p, n, a))
    <3>1. \A m \in Stmts(p) : n < m => a[m] = b[m]
      BY <1>0, <2>6, <2>8
    <3> DEFINE here == Blocks(p, n, b)
    <3>2. Blocks(p, n, a) = here
      <4> HIDE DEF a
      <4> QED BY <3>1, BlocksLookAhead
    <3>3. CASE n = j
      <4>1. a[n] = Lower(p, n, here)
        BY <3>3
      <4> HIDE DEF a, here
      <4> QED BY <3>2, <4>1
    <3>4. CASE n # j
      <4>1. j + 1 <= n
        BY <1>0, <2>6, <2>8, <3>4
      <4>2. b[n] = Lower(p, n, here)
        BY <2>7, <4>1 DEF LoweredFrom
      <4>3. a[n] = b[n]
        BY <3>4
      <4> HIDE DEF a, here
      <4> QED BY <3>2, <4>2, <4>3
    <3> QED BY <3>3, <3>4
  <2>9. LoweredFrom(p, a, N + 1 - k)
    <3> HIDE DEF a
    <3> QED BY <2>8 DEF LoweredFrom, j
  <2> HIDE DEF a
  <2> QED BY <2>2, <2>9
<1>2. N \notin Bad
  BY <1>1
<1>3. PICK b : LoweredFrom(p, b, 1)
  <2>1. N + 1 - N = 1
    BY <1>0
  <2>2. \E f : LoweredFrom(p, f, N + 1 - N)
    BY <1>0, <1>2
  <2> QED BY <2>1, <2>2
<1> DEFINE a == [n \in Stmts(p) |-> b[n]]
<1>4. ASSUME NEW n \in Stmts(p) PROVE a[n] = Lower(p, n, Blocks(p, n, a))
  <2>1. Blocks(p, n, a) = Blocks(p, n, b)
    <3>1. \A m \in Stmts(p) : n < m => a[m] = b[m]
      OBVIOUS
    <3> HIDE DEF a
    <3> QED BY <3>1, BlocksLookAhead
  <2>2. a[n] = b[n] /\ 1 <= n
    BY <1>0
  <2> HIDE DEF a
  <2>3. b[n] = Lower(p, n, Blocks(p, n, b))
    BY <1>3, <2>2 DEF LoweredFrom
  <2> QED BY <2>1, <2>2, <2>3
<1>5. a = [n \in Stmts(p) |-> Lower(p, n, Blocks(p, n, a))]
  <2> DEFINE d == [n \in Stmts(p) |-> Lower(p, n, Blocks(p, n, a))]
  <2>1. \A n \in Stmts(p) : a[n] = d[n]
    <3>1. \A n \in Stmts(p) : d[n] = Lower(p, n, Blocks(p, n, a))
      OBVIOUS
    <3> HIDE DEF a, d
    <3> QED BY <1>4, <3>1
  <2> QED BY <2>1
<1> HIDE DEF a
<1> QED BY <1>5

\* The code of a statement is made from that of its blocks.
LEMMA LoweringIs ==
  ASSUME NEW p, IsTree(p), NEW n \in Stmts(p)
  PROVE  LowerStatement(p)[n] = Lower(p, n, Blocks(p, n, LowerStatement(p)))
<1> DEFINE Is(f) == f = [m \in Stmts(p) |-> Lower(p, m, Blocks(p, m, f))]
           it == CHOOSE f : Is(f)
<1>1. \E f : Is(f)
  BY LoweringExists
<1>2. Is(it)
  <2> HIDE DEF Is
  <2> QED BY <1>1
<1>3. LowerStatement(p) = it
  BY DEF LowerStatement, Blocks
<1> HIDE DEF it
<1>4. it[n] = Lower(p, n, Blocks(p, n, it))
  BY <1>2
<1> QED BY <1>3, <1>4

-----------------------------------------------------------------------------
(***************************************************************************)
(* The code of a statement tree.  A statement jumps to the ends of the     *)
(* loop around it only; where no `continue` leaves a try body, none in a   *)
(* try body within its loop jumps to the head of it.                       *)
(***************************************************************************)
Barred(p, n) == \E t \in TriesOf(p, n) : LoopOf(p, n) < t

Ahead(p, n) == IF LoopOf(p, n) = 0 THEN {} ELSE {End(LoopOf(p, n))}

Behind(clean, p, n) ==
  IF LoopOf(p, n) = 0 \/ (clean /\ Barred(p, n)) THEN {} ELSE {HeadLabel(LoopOf(p, n))}

\* The labels of c are made for statement n and those in it.
Made(p, n, c) == \A l \in Def(c) : l[1] \in Stmts(p) /\ n \in Line(p, l[1])

Fine(clean, p, n) ==
  /\ Piece(clean, LowerStatement(p)[n], {}, Ahead(p, n), Behind(clean, p, n), {})
  /\ Made(p, n, LowerStatement(p)[n])

\* A block without statements.
LEMMA EmptyPiece ==
  ASSUME NEW clean, NEW F, NEW B
  PROVE  Piece(clean, << >>, {}, F, B, {}) /\ DefIs(<< >>, {})
<1> DEFINE c == << >>
<1>1. c \in Seq(Instrs) /\ \A i \in DOMAIN c : c[i].op \in PlainOps
  OBVIOUS
<1> HIDE DEF c
<1>2. Piece(clean, c, {}, F, B, {}) /\ Def(c) = {}
  BY <1>1, PlainPiece
<1>3. DefIs(c, {})
  BY <1>2 DEF DefIs
<1> QED BY <1>2, <1>3 DEF c

\* The statements of a block, one after the other.
LEMMA BlockPiece ==
  ASSUME NEW clean, NEW p, IsTree(p), NEW n \in Nat, NEW s, NEW lower, NEW F, NEW B,
         \A m \in Members(p, n, s) : Piece(clean, lower[m], {}, F, B, {}) /\ Made(p, m, lower[m]),
         \A l \in F \cup B : l[1] \in Nat /\ l[1] <= n
  PROVE  /\ Piece(clean, LowerBlock(p, n, s, lower), {}, F, B, {})
         /\ \A l \in Def(LowerBlock(p, n, s, lower)) : \E m \in Members(p, n, s) : l \in Def(lower[m])
<1> DEFINE N == Len(p.kind)
           part == [c \in Stmts(p) |-> IF c \in Members(p, n, s) THEN lower[c] ELSE << >>]
<1>1. N \in Nat /\ Stmts(p) = 1 .. N
  BY TreeFacts
<1>2. ASSUME NEW c \in 1 .. N
      PROVE  /\ Piece(clean, part[c], {}, F, B, {})
             /\ \A l \in Def(part[c]) : c \in Members(p, n, s) /\ l \in Def(lower[c])
  <2>1. CASE c \in Members(p, n, s)
    <3>1. part[c] = lower[c]
      BY <1>1, <2>1
    <3> HIDE DEF part
    <3> QED BY <2>1, <3>1
  <2>2. CASE c \notin Members(p, n, s)
    <3>1. part[c] = << >>
      BY <1>1, <2>2
    <3> HIDE DEF part
    <3>2. Piece(clean, part[c], {}, F, B, {}) /\ DefIs(part[c], {})
      BY <3>1, EmptyPiece
    <3> QED BY <3>2 DEF DefIs
  <2> QED BY <2>1, <2>2
<1>3. part \in Seq(Seq(Instrs)) /\ Len(part) = N
  <2>1. \A c \in 1 .. N : part[c] \in Seq(Instrs)
    BY <1>2, PieceIsCode
  <2>2. part \in [1 .. N -> Seq(Instrs)]
    BY <1>1, <2>1
  <2> HIDE DEF part, N
  <2> QED BY <1>1, <2>2
<1>4. LowerBlock(p, n, s, lower) = FlattenSeq(part)
  BY DEF LowerBlock
<1> HIDE DEF part, N
\* What the labels of a statement say of it.
<1>5. ASSUME NEW m \in Members(p, n, s), NEW l \in Def(lower[m])
      PROVE  l[1] \in Stmts(p) /\ m \in Line(p, l[1]) /\ p.parent[m] = n /\ l \notin F \cup B
  <2>1. l[1] \in Stmts(p) /\ m \in Line(p, l[1])
    BY DEF Made
  <2> DEFINE k == l[1]
  <2>2. k \in Stmts(p) /\ m \in Line(p, k)
    BY <2>1
  <2> HIDE DEF k
  <2>3. m \in Stmts(p) /\ m <= k
    BY <2>2, LineIsBefore
  <2>4. p.parent[m] = n /\ n < m /\ m \in Nat /\ k \in Nat
    BY <2>2, <2>3, TreeFacts DEF Members
  <2>5. ~ (k <= n)
    BY <2>3, <2>4
  <2> QED BY <2>1, <2>4, <2>5 DEF k
<1>6. \A c \in 1 .. N : Apart(Def(part[c]), F \cup B)
  BY <1>2, <1>5 DEF Apart
<1>7. \A c, d \in 1 .. N : c # d => Apart(Def(part[c]), Def(part[d]))
  <2> SUFFICES ASSUME NEW c \in 1 .. N, NEW d \in 1 .. N, NEW l,
                      l \in Def(part[c]), l \in Def(part[d])
               PROVE  c = d
    BY DEF Apart
  <2> DEFINE k == l[1]
  <2>1. k \in Stmts(p) /\ c \in Line(p, k) /\ d \in Line(p, k) /\ p.parent[c] = p.parent[d]
    BY <1>2, <1>5
  <2> HIDE DEF k
  <2> QED BY <2>1, LinesPart
<1>8. \A c \in 1 .. N : Piece(clean, part[c], {}, F, B, {})
  BY <1>2
<1>9. /\ Piece(clean, FlattenSeq(part), {}, F, B, {})
      /\ \A l \in Def(FlattenSeq(part)) : \E c \in 1 .. N : l \in Def(part[c])
  BY <1>1, <1>3, <1>6, <1>7, <1>8, RowOfPieces
<1>10. \A l \in Def(FlattenSeq(part)) : \E m \in Members(p, n, s) : l \in Def(lower[m])
  BY <1>2, <1>9
<1> QED BY <1>4, <1>9, <1>10

\* The labels a statement jumps to are made for a statement before it.
LEMMA JumpsOut ==
  ASSUME NEW clean, NEW p, IsTree(p), NEW n \in Stmts(p), NEW l \in Ahead(p, n) \cup Behind(clean, p, n)
  PROVE  l[1] \in Nat /\ l[1] < n
<1> DEFINE a == LoopOf(p, n)
<1>1. a \in Nat /\ a < n
  BY LoopOfIsBefore
<1>2. l = End(a) \/ l = HeadLabel(a)
  BY DEF Ahead, Behind
<1> HIDE DEF a
<1> QED BY <1>1, <1>2, LabelsOf

\* The blocks of a statement, when all the statements in them are fine.
LEMMA BlocksAreFine ==
  ASSUME NEW clean \in BOOLEAN, NEW p, IsTree(p), NEW n \in Stmts(p),
         \A m \in Stmts(p) : n < m => Fine(clean, p, m), NEW s \in Slots(p.kind[n])
  PROVE  LET c == LowerBlock(p, n, s, LowerStatement(p))
             loop == p.kind[n] \in Loops
             out == clean /\ p.kind[n] = "try" /\ s = 1
         IN  /\ Piece(clean, c, {}, IF loop THEN {End(n)} ELSE Ahead(p, n),
                      IF loop THEN {HeadLabel(n)} ELSE IF out THEN {} ELSE Behind(clean, p, n), {})
             /\ \A l \in Def(c) : \E m \in Members(p, n, s) : l \in Def(LowerStatement(p)[m])
<1> DEFINE lower == LowerStatement(p)
           loop == p.kind[n] \in Loops
           out == clean /\ p.kind[n] = "try" /\ s = 1
           F == IF loop THEN {End(n)} ELSE Ahead(p, n)
           B == IF loop THEN {HeadLabel(n)} ELSE IF out THEN {} ELSE Behind(clean, p, n)
<1>1. n \in Nat /\ n # 0 /\ LoopOf(p, n) \in Nat /\ LoopOf(p, n) < n
  BY TreeFacts, LoopOfIsBefore
<1>2. ASSUME NEW m \in Members(p, n, s)
      PROVE  Ahead(p, m) = F /\ Behind(clean, p, m) = B
  <2>1. /\ loop => LoopOf(p, m) = n
        /\ ~loop => LoopOf(p, m) = LoopOf(p, n)
        /\ TriesOf(p, m) = TriesOf(p, n) \cup IF p.kind[n] = "try" /\ s = 1 THEN {n} ELSE {}
    BY AroundMember
  <2>2. Ahead(p, m) = F
    BY <1>1, <2>1 DEF Ahead
  <2>3. CASE loop
    <3>1. p.kind[n] # "try"
      BY <2>3 DEF Loops
    <3>2. \A t \in TriesOf(p, m) : t \in Stmts(p) /\ t < n
      <4> SUFFICES ASSUME NEW t \in TriesOf(p, m) PROVE t \in Stmts(p) /\ t < n
        OBVIOUS
      <4> DEFINE b == <<t, 1>>
      <4>1. t \in TriesOf(p, n)
        BY <2>1, <3>1
      <4>2. b \in Around(p, n) /\ b[1] = t
        BY <4>1 DEF TriesOf
      <4> HIDE DEF b
      <4> QED BY <4>2, AroundIsBefore
    <3>3. ~ Barred(p, m)
      <4>1. \A t \in TriesOf(p, m) : ~ (n < t)
        BY <1>1, <3>2, TreeFacts
      <4> QED BY <2>1, <2>3, <4>1 DEF Barred
    <3> QED BY <1>1, <2>1, <2>2, <2>3, <3>3 DEF Behind
  <2>4. CASE ~loop /\ p.kind[n] = "try" /\ s = 1
    <3>1. Barred(p, m)
      BY <1>1, <2>1, <2>4 DEF Barred
    <3>2. clean => Behind(clean, p, m) = {}
      BY <3>1 DEF Behind
    <3>3. ~clean => Behind(clean, p, m) = Behind(clean, p, n)
      BY <2>1, <2>4 DEF Behind
    <3> QED BY <2>2, <2>4, <3>2, <3>3
  <2>5. CASE ~loop /\ ~ (p.kind[n] = "try" /\ s = 1)
    <3>1. TriesOf(p, m) = TriesOf(p, n) /\ LoopOf(p, m) = LoopOf(p, n)
      BY <2>1, <2>5
    <3>2. Behind(clean, p, m) = Behind(clean, p, n)
      BY <3>1 DEF Behind, Barred
    <3> QED BY <2>2, <2>5, <3>2
  <2> QED BY <2>3, <2>4, <2>5
<1>3. \A l \in F \cup B : l[1] \in Nat /\ l[1] <= n
  <2>1. \A l \in Ahead(p, n) \cup Behind(clean, p, n) : l[1] \in Nat /\ l[1] < n
    BY JumpsOut
  <2>2. HeadLabel(n)[1] = n /\ End(n)[1] = n
    BY <1>1, LabelsOf
  <2> SUFFICES ASSUME NEW l \in F \cup B PROVE l[1] \in Nat /\ l[1] <= n
    OBVIOUS
  <2>3. l \in Ahead(p, n) \cup Behind(clean, p, n) \/ l = End(n) \/ l = HeadLabel(n)
    OBVIOUS
  <2> QED BY <1>1, <2>1, <2>2, <2>3
<1>4. \A m \in Members(p, n, s) : Piece(clean, lower[m], {}, F, B, {}) /\ Made(p, m, lower[m])
  <2> SUFFICES ASSUME NEW m \in Members(p, n, s)
               PROVE  Piece(clean, lower[m], {}, F, B, {}) /\ Made(p, m, lower[m])
    OBVIOUS
  <2>1. Fine(clean, p, m)
    BY AroundMember
  <2> HIDE DEF F, B
  <2> QED BY <1>2, <2>1 DEF Fine
<1> HIDE DEF lower, F, B
<1>5. /\ Piece(clean, LowerBlock(p, n, s, lower), {}, F, B, {})
      /\ \A l \in Def(LowerBlock(p, n, s, lower)) : \E m \in Members(p, n, s) : l \in Def(lower[m])
  BY <1>1, <1>3, <1>4, BlockPiece
<1> QED BY <1>5 DEF lower, F, B

\* break and continue: the jump leads to a label of the loop around, and out of
\* a try body only where `clean` allows it.
LEMMA ControlFits ==
  ASSUME NEW clean \in BOOLEAN, NEW p, IsTree(p), NEW n \in Stmts(p), NEW body, NEW slots,
         clean => ~ ContinueLeavesTry(p), p.kind[n] \in {"break", "continue"}
  PROVE  Fits(clean, n, slots, body, Ahead(p, n), Behind(clean, p, n), LowerLoopControl(p, n))
<1> DEFINE a == LoopOf(p, n)
           F == Ahead(p, n)
           B == Behind(clean, p, n)
           c == LowerLoopControl(p, n)
<1>1. n \in Nat /\ a \in Nat
  BY TreeFacts, LoopOfIsBefore
<1>2. c = IF a = 0 THEN << >>
          ELSE IF p.kind[n] = "break" THEN << Jump(End(a)) >> ELSE << Jump(HeadLabel(a)) >>
  BY DEF LowerLoopControl
<1>3. a # 0 => F = {End(a)}
  BY DEF Ahead
<1>4. a # 0 /\ p.kind[n] = "continue" => B = {HeadLabel(a)}
  <2> SUFFICES ASSUME a # 0, p.kind[n] = "continue" PROVE B = {HeadLabel(a)}
    OBVIOUS
  <2>1. clean => ~ Barred(p, n)
    BY DEF ContinueLeavesTry, Barred
  <2> QED BY <2>1 DEF Behind
<1> HIDE DEF a, F, B, c
<1>5. Piece(clean, c, {}, F, B, {}) /\ Def(c) = {}
  <2>1. CASE a = 0
    <3>1. c = << >>
      BY <1>2, <2>1
    <3>2. Piece(clean, c, {}, F, B, {}) /\ DefIs(c, {})
      BY <3>1, EmptyPiece
    <3> QED BY <3>2 DEF DefIs
  <2>2. CASE a # 0
    <3> DEFINE l == IF p.kind[n] = "break" THEN End(a) ELSE HeadLabel(a)
               x == Jump(l)
    <3>1. l \in LabelNames /\ l \in F \cup B
      BY <1>1, <1>3, <1>4, <2>2, LabelsOf
    <3>2. c = << x >>
      BY <1>2, <2>2
    <3> HIDE DEF l
    <3>3. x \in Instrs /\ x.op \in Jumps /\ x.target = l
      BY <3>1, InstrTypes DEF Jump, Instr, Jumps
    <3> HIDE DEF x
    <3>4. Piece(clean, << x >>, {}, F, B, {}) /\ Def(<< x >>) = {}
      BY <3>1, <3>3, JumpPiece
    <3> QED BY <3>2, <3>4
  <2> QED BY <2>1, <2>2
<1> QED BY <1>5 DEF Fits, F, B, c

\* emit_return_from_outputs.
LEMMA OutputsArePlain ==
  ASSUME NEW p
  PROVE  LET c == EmitReturnFromOutputs(p) IN
         /\ c \in Seq(Instrs) /\ \A k \in DOMAIN c : c[k].op \in PlainOps
         /\ Len(c) \in Nat \ {0} /\ c[Len(c)].op = "Return"
<1> DEFINE x == Eval(<<0, "outputs", 0>>)
           y == Return
           a == << x >>
           b == << y >>
           c == EmitReturnFromOutputs(p)
<1>1. <<0, "outputs", 0>> \in SiteNames
  BY DEF SiteNames
<1>2. x \in Instrs /\ x.op \in PlainOps
  BY <1>1, InstrTypes DEF Eval, Instr, PlainOps
<1>3. y \in Instrs /\ y.op \in PlainOps /\ y.op = "Return"
  BY InstrTypes DEF Return, Instr, PlainOps
<1>4. c = (IF p.unit = "function" THEN << x >> ELSE << >>) \o << y >>
  BY DEF EmitReturnFromOutputs
<1> HIDE DEF x, y, c
<1>5. << x >> \o << y >> = << x, y >>
  BY <1>2, <1>3, TwoAreAPair
<1>6. << >> \o b = b
  <2>1. b \in Seq(Instrs)
    BY <1>3
  <2> HIDE DEF b
  <2> QED BY <2>1, ConcatEmptySeq
<1>7. c = << x, y >> \/ c = << y >>
  BY <1>4, <1>5, <1>6
<1>8. CASE c = << x, y >>
  <2>1. c \in Seq(Instrs) /\ DOMAIN c = {1, 2} /\ Len(c) = 2 /\ c[1] = x /\ c[2] = y
    BY <1>2, <1>3, <1>8
  <2> QED BY <1>2, <1>3, <2>1 DEF c
<1>9. CASE c = << y >>
  <2>1. c \in Seq(Instrs) /\ DOMAIN c = {1} /\ Len(c) = 1 /\ c[1] = y
    BY <1>3, <1>9
  <2> QED BY <1>3, <2>1 DEF c
<1> QED BY <1>7, <1>8, <1>9

\* A statement without blocks and jumps.
LEMMA PlainFits ==
  ASSUME NEW clean, NEW n, NEW body, NEW slots, NEW F, NEW B, NEW c \in Seq(Instrs),
         \A k \in DOMAIN c : c[k].op \in PlainOps
  PROVE  Fits(clean, n, slots, body, F, B, c)
<1>1. Piece(clean, c, {}, F, B, {}) /\ Def(c) = {}
  BY PlainPiece
<1> QED BY <1>1 DEF Fits

\* A statement is fine when those behind it are.
LEMMA FineStep ==
  ASSUME NEW clean \in BOOLEAN, NEW p, IsTree(p), clean => ~ ContinueLeavesTry(p),
         NEW n \in Stmts(p), \A m \in Stmts(p) : n < m => Fine(clean, p, m)
  PROVE  Fine(clean, p, n)
<1> DEFINE lower == LowerStatement(p)
           slots == Slots(p.kind[n])
           body == Blocks(p, n, lower)
           F == Ahead(p, n)
           B == Behind(clean, p, n)
           c == Lower(p, n, body)
           kind == p.kind[n]
<1>1. n \in Nat /\ n # 0 /\ kind \in Kinds /\ p.test[n] \in Tests
  BY TreeFacts
<1>2. lower[n] = c
  BY LoweringIs
<1>3. \A s \in slots : body[s] = LowerBlock(p, n, s, lower)
  BY DEF Blocks
<1>4. \A l \in F \cup B : l[1] \in Nat /\ l[1] < n
  BY JumpsOut
<1>5. ASSUME NEW s \in slots
      PROVE  /\ kind \notin Loops => Piece(clean, body[s], {}, F, B, {})
             /\ clean /\ kind = "try" /\ s = 1 => Piece(clean, body[s], {}, F, {}, {})
             /\ kind \in Loops => Piece(clean, body[s], {}, {End(n)}, {HeadLabel(n)}, {})
             /\ \A l \in Def(body[s]) : \E m \in Members(p, n, s) : l \in Def(lower[m])
  <2> DEFINE loop == kind \in Loops
             out == clean /\ kind = "try" /\ s = 1
             G == IF loop THEN {End(n)} ELSE F
             C == IF loop THEN {HeadLabel(n)} ELSE IF out THEN {} ELSE B
             d == LowerBlock(p, n, s, lower)
  <2>1. /\ Piece(clean, d, {}, G, C, {})
        /\ \A l \in Def(d) : \E m \in Members(p, n, s) : l \in Def(lower[m])
    BY BlocksAreFine
  <2>2. body[s] = d
    BY <1>3
  <2> HIDE DEF d, body, lower, F, B
  <2>3. loop => Piece(clean, d, {}, {End(n)}, {HeadLabel(n)}, {})
    BY <2>1
  <2>4. ~loop /\ ~out => Piece(clean, d, {}, F, B, {})
    BY <2>1
  <2>5. ~loop /\ out => Piece(clean, d, {}, F, {}, {})
    BY <2>1
  <2>6. ~loop /\ out => Piece(clean, d, {}, F, B, {})
    <3> SUFFICES ASSUME Piece(clean, d, {}, F, {}, {}) PROVE Piece(clean, d, {}, F, B, {})
      BY <2>5
    <3>1. F \subseteq F /\ {} \subseteq B
      OBVIOUS
    <3> HIDE DEF loop, out, G, C
    <3> QED BY <3>1, WiderPiece
  <2>7. kind = "try" => ~loop
    BY DEF Loops
  <2> QED BY <2>1, <2>2, <2>3, <2>4, <2>5, <2>6, <2>7
<1>6. ASSUME NEW s \in slots, NEW l \in Def(body[s])
      PROVE  \E m \in Members(p, n, s) : l[1] \in Stmts(p) /\ m \in Line(p, l[1])
  <2>1. PICK m \in Members(p, n, s) : l \in Def(lower[m])
    BY <1>5
  <2>2. Fine(clean, p, m)
    BY AroundMember
  <2> QED BY <2>1, <2>2 DEF Fine, Made
<1>7. ASSUME NEW s \in slots, NEW l \in Def(body[s])
      PROVE  l[1] \in Nat /\ n < l[1] /\ l[1] \in Stmts(p) /\ n \in Line(p, l[1])
  <2> DEFINE k == l[1]
  <2>1. PICK m \in Members(p, n, s) : k \in Stmts(p) /\ m \in Line(p, k)
    BY <1>6
  <2> HIDE DEF k
  <2>2. m \in Stmts(p) /\ m <= k /\ n < m /\ p.parent[m] = n
    BY <2>1, LineIsBefore, AroundMember DEF Members
  <2>3. k \in Nat /\ m \in Nat
    BY <2>1, <2>2, TreeFacts
  <2>4. n < k
    BY <1>1, <2>2, <2>3
  <2>5. n \in Line(p, k)
    BY <1>1, <2>1, <2>2, LineClimbs
  <2> QED BY <2>1, <2>3, <2>4, <2>5 DEF k
<1>8. ASSUME NEW s \in slots, NEW t \in slots, s # t
      PROVE  Def(body[s]) \cap Def(body[t]) = {}
  <2> SUFFICES ASSUME NEW l \in Def(body[s]), l \in Def(body[t]) PROVE FALSE
    OBVIOUS
  <2> DEFINE k == l[1]
  <2>1. PICK m \in Members(p, n, s) : k \in Stmts(p) /\ m \in Line(p, k)
    BY <1>6
  <2>2. PICK q \in Members(p, n, t) : k \in Stmts(p) /\ q \in Line(p, k)
    BY <1>6
  <2> HIDE DEF k
  <2>3. p.parent[m] = p.parent[q] /\ p.slot[m] # p.slot[q]
    BY <1>8 DEF Members
  <2> QED BY <2>1, <2>2, <2>3, LinesPart
<1>9. kind \notin Loops => BlocksFit(clean, n, slots, body, F, B)
  <2> SUFFICES ASSUME kind \notin Loops PROVE BlocksFit(clean, n, slots, body, F, B)
    OBVIOUS
  <2>1. \A s \in slots : \A l \in Def(body[s]) : l[1] # n /\ l \notin F \cup B
    <3> SUFFICES ASSUME NEW s \in slots, NEW l \in Def(body[s]) PROVE l[1] # n /\ l \notin F \cup B
      OBVIOUS
    <3> DEFINE k == l[1]
    <3>1. k \in Nat /\ n < k
      BY <1>7
    <3>2. k # n /\ ~ (k < n)
      BY <1>1, <3>1
    <3> QED BY <1>4, <3>2
  <2>2. \A l \in F \cup B : l[1] # n
    <3> SUFFICES ASSUME NEW l \in F \cup B PROVE l[1] # n
      OBVIOUS
    <3> DEFINE k == l[1]
    <3>1. k \in Nat /\ k < n
      BY <1>4
    <3>2. k # n
      BY <1>1, <3>1
    <3> QED BY <3>2
  <2>3. \A s \in slots : Piece(clean, body[s], {}, F, B, {})
    BY <1>5
  <2> HIDE DEF body, F, B, slots
  <2> QED BY <1>8, <2>1, <2>2, <2>3 DEF BlocksFit
<1>10. \A s \in slots : \A l \in Def(body[s]) : l[1] # n
  <2> SUFFICES ASSUME NEW s \in slots, NEW l \in Def(body[s]) PROVE l[1] # n
    OBVIOUS
  <2> DEFINE k == l[1]
  <2>1. k \in Nat /\ n < k
    BY <1>7
  <2>2. k # n
    BY <1>1, <2>1
  <2> QED BY <2>2
<1>11. Fits(clean, n, slots, body, F, B, c)
  <2>1. CASE kind = "act"
    <3> DEFINE x == Eval(<<n, "act", 0>>)
               d == << x >>
    <3>1. c = d
      BY <2>1 DEF Lower
    <3>2. <<n, "act", 0>> \in SiteNames
      BY <1>1 DEF SiteNames
    <3>3. x \in Instrs /\ x.op \in PlainOps
      BY <3>2, InstrTypes DEF Eval, Instr, PlainOps
    <3> HIDE DEF x
    <3>4. d \in Seq(Instrs) /\ \A k \in DOMAIN d : d[k].op \in PlainOps
      BY <3>3
    <3> HIDE DEF d, c, slots, body, F, B
    <3>5. Fits(clean, n, slots, body, F, B, d)
      BY <3>4, PlainFits
    <3> QED BY <3>1, <3>5
  <2>2. CASE kind = "if"
    <3>1. c = LowerIf(p, n, body) /\ slots = 1 .. (Arms + 1) /\ kind \notin Loops
      BY <2>2 DEF Lower, Slots, Branchings, Loops
    <3> HIDE DEF c, slots, body, F, B, kind
    <3>2. Fits(clean, n, 1 .. (Arms + 1), body, F, B, LowerIf(p, n, body))
      BY <1>1, <1>9, <3>1, IfFits
    <3> QED BY <3>1, <3>2
  <2>3. CASE kind = "switch"
    <3>1. c = LowerSwitch(p, n, body) /\ slots = 1 .. (Arms + 1) /\ kind \notin Loops
      BY <2>3 DEF Lower, Slots, Branchings, Loops
    <3> HIDE DEF c, slots, body, F, B, kind
    <3>2. Fits(clean, n, 1 .. (Arms + 1), body, F, B, LowerSwitch(p, n, body))
      BY <1>1, <1>9, <3>1, SwitchFits
    <3> QED BY <3>1, <3>2
  <2>4. CASE kind = "try"
    <3>1. c = LowerTry(n, body) /\ slots = 1 .. 2 /\ kind \notin Loops
      BY <2>4 DEF Lower, Slots, Branchings, Loops
    <3>2. clean => Piece(clean, body[1], {}, F, {}, {})
      <4>1. 1 \in slots
        BY <3>1
      <4> HIDE DEF slots, body, F, B
      <4> QED BY <1>5, <2>4, <4>1
    <3> HIDE DEF c, slots, body, F, B, kind
    <3>3. Fits(clean, n, 1 .. 2, body, F, B, LowerTry(n, body))
      BY <1>1, <1>9, <3>1, <3>2, TryFits
    <3> QED BY <3>1, <3>3
  <2>5. CASE kind = "for"
    <3>1. c = LowerFor(n, body) /\ slots = {1} /\ kind \in Loops
      BY <2>5 DEF Lower, Slots, Branchings, Loops
    <3>2. 1 \in slots
      BY <3>1
    <3> HIDE DEF c, slots, body, F, B, kind
    <3>3. Piece(clean, body[1], {}, {End(n)}, {HeadLabel(n)}, {}) /\ \A l \in Def(body[1]) : l[1] # n
      BY <1>5, <1>10, <3>1, <3>2
    <3>4. Fits(clean, n, {1}, body, F, B, LowerFor(n, body))
      BY <1>1, <3>3, ForFits
    <3> QED BY <3>1, <3>4
  <2>6. CASE kind = "while"
    <3>1. c = LowerWhile(p, n, body) /\ slots = {1} /\ kind \in Loops
      BY <2>6 DEF Lower, Slots, Branchings, Loops
    <3>2. 1 \in slots
      BY <3>1
    <3> HIDE DEF c, slots, body, F, B, kind
    <3>3. Piece(clean, body[1], {}, {End(n)}, {HeadLabel(n)}, {}) /\ \A l \in Def(body[1]) : l[1] # n
      BY <1>5, <1>10, <3>1, <3>2
    <3>4. Fits(clean, n, {1}, body, F, B, LowerWhile(p, n, body))
      BY <1>1, <3>3, WhileFits
    <3> QED BY <3>1, <3>4
  <2>7. CASE kind = "return"
    <3> DEFINE d == EmitReturnFromOutputs(p)
    <3>1. c = d
      BY <2>7 DEF Lower
    <3>2. d \in Seq(Instrs) /\ \A k \in DOMAIN d : d[k].op \in PlainOps
      BY OutputsArePlain
    <3> HIDE DEF d, c, slots, body, F, B
    <3>3. Fits(clean, n, slots, body, F, B, d)
      BY <3>2, PlainFits
    <3> QED BY <3>1, <3>3
  <2>8. CASE kind \in {"break", "continue"}
    <3>1. c = LowerLoopControl(p, n)
      BY <2>8 DEF Lower
    <3> HIDE DEF c, slots, body
    <3>2. Fits(clean, n, slots, body, F, B, LowerLoopControl(p, n))
      BY <2>8, ControlFits
    <3> QED BY <3>1, <3>2
  <2>9. kind \in {"act", "if", "switch", "try", "for", "while", "return", "break", "continue"}
    BY <1>1 DEF Kinds, Loops, Branchings, Controls
  <2> QED BY <2>1, <2>2, <2>3, <2>4, <2>5, <2>6, <2>7, <2>8, <2>9
<1>12. Made(p, n, c)
  <2> SUFFICES ASSUME NEW l \in Def(c) PROVE l[1] \in Stmts(p) /\ n \in Line(p, l[1])
    BY DEF Made
  <2>1. l[1] = n \/ \E s \in slots : l \in Def(body[s])
    BY <1>11 DEF Fits
  <2>2. n \in Line(p, n)
    BY DEF Line
  <2> QED BY <1>7, <2>1, <2>2
<1>13. Piece(clean, c, {}, F, B, {})
  BY <1>11 DEF Fits
<1> HIDE DEF lower, c, F, B
<1> QED BY <1>2, <1>12, <1>13 DEF Fine, lower, F, B

\* So every statement is.
LEMMA AllFine ==
  ASSUME NEW clean \in BOOLEAN, NEW p, IsTree(p), clean => ~ ContinueLeavesTry(p)
  PROVE  \A n \in Stmts(p) : Fine(clean, p, n)
<1> DEFINE Bad == {n \in Stmts(p) : ~ Fine(clean, p, n)}
<1>1. Bad = {}
  <2> SUFFICES ASSUME Bad # {} PROVE FALSE
    OBVIOUS
  <2>1. Bad \subseteq 1 .. Len(p.kind) /\ Len(p.kind) \in Nat
    BY TreeFacts
  <2>2. PICK n \in Bad : \A m \in Bad : m <= n
    <3> HIDE DEF Bad
    <3> QED BY <2>1, GreatestElement
  <2>3. n \in Stmts(p) /\ ~ Fine(clean, p, n)
    BY <2>2
  <2>4. \A m \in Stmts(p) : n < m => Fine(clean, p, m)
    <3> SUFFICES ASSUME NEW m \in Stmts(p), n < m, ~ Fine(clean, p, m) PROVE FALSE
      OBVIOUS
    <3>1. m \in Bad
      OBVIOUS
    <3>2. m <= n
      BY <2>2, <3>1
    <3> QED BY <2>3, <3>2, TreeFacts
  <2> QED BY <2>3, <2>4, FineStep
<1> QED BY <1>1

\* The whole code of a tree is a piece that leaves nothing open.
LEMMA EmitIsPiece ==
  ASSUME NEW clean \in BOOLEAN, NEW p, IsTree(p), clean => ~ ContinueLeavesTry(p)
  PROVE  /\ Piece(clean, Emit(p), {}, {}, {}, {})
         /\ \E i \in DOMAIN Emit(p) : Emit(p)[i].op = "Return"
<1> DEFINE lower == LowerStatement(p)
           a == LowerBlock(p, 0, 1, lower)
           b == EmitReturnFromOutputs(p)
           c == a \o b
<1>1. c = Emit(p)
  BY DEF Emit
<1>2. \A m \in Members(p, 0, 1) : Piece(clean, lower[m], {}, {}, {}, {}) /\ Made(p, m, lower[m])
  <2> SUFFICES ASSUME NEW m \in Members(p, 0, 1)
               PROVE  Piece(clean, lower[m], {}, {}, {}, {}) /\ Made(p, m, lower[m])
    OBVIOUS
  <2>1. m \in Stmts(p) /\ p.parent[m] = 0
    BY DEF Members
  <2>2. LoopOf(p, m) = 0
    BY <2>1, LoopOfTop
  <2>3. Ahead(p, m) = {} /\ Behind(clean, p, m) = {}
    BY <2>2 DEF Ahead, Behind
  <2>4. Fine(clean, p, m)
    BY <2>1, AllFine
  <2> QED BY <2>3, <2>4 DEF Fine
<1> HIDE DEF lower
<1>3. Piece(clean, a, {}, {}, {}, {})
  <2>1. 0 \in Nat /\ \A l \in {} \cup {} : l[1] \in Nat /\ l[1] <= 0
    OBVIOUS
  <2> QED BY <1>2, <2>1, BlockPiece
<1>4. /\ b \in Seq(Instrs) /\ \A k \in DOMAIN b : b[k].op \in PlainOps
      /\ Len(b) \in Nat \ {0} /\ b[Len(b)].op = "Return"
  BY OutputsArePlain
<1> HIDE DEF a, b
<1>5. Piece(clean, b, {}, {}, {}, {}) /\ Def(b) = {}
  BY <1>4, PlainPiece
<1>6. Piece(clean, c, {}, {}, {}, {})
  <2>1. Joins(a, b, {}, {}, {}, {}, {}, {}, {}, {}, {}, {}, {}, {})
    BY <1>5 DEF Joins
  <2> QED BY <1>3, <1>5, <2>1, ConcatPieces
<1>7. \E i \in DOMAIN c : c[i].op = "Return"
  <2> DEFINE n == Len(b)
             m == Len(a)
  <2>1. a \in Seq(Instrs)
    BY <1>3, PieceIsCode
  <2>2. /\ m \in Nat /\ n \in Nat /\ DOMAIN c = 1 .. m + n
        /\ \A i \in 1 .. n : c[m + i] = b[i]
    BY <1>4, <2>1, ConcatIs
  <2>3. n # 0 /\ b[n].op = "Return"
    BY <1>4
  <2> HIDE DEF c, n, m
  <2>4. n \in 1 .. n /\ m + n \in 1 .. m + n
    BY <2>2, <2>3
  <2> QED BY <2>2, <2>3, <2>4
<1> QED BY <1>1, <1>6, <1>7

\* Where the jumps and handlers of closed code lead.
LEMMA LeadsTo ==
  ASSUME NEW clean, NEW c, Piece(clean, c, {}, {}, {}, {}), NEW i \in DOMAIN c, Uses(c, i)
  PROVE  /\ LabelPos(c, c[i].target) \in DOMAIN c
         /\ Defines(c, LabelPos(c, c[i].target), c[i].target)
<1> DEFINE l == c[i].target
           Is(j) == j \in DOMAIN c /\ c[j].op = "Label" /\ c[j].target = l
<1>1. l \in Def(c)
  BY DEF Piece, UsesKnown
<1>2. \E j \in DOMAIN c : c[j].op = "Label" /\ c[j].target = l
  BY <1>1 DEF Def
<1>3. LabelPos(c, l) = CHOOSE j \in DOMAIN c : c[j].op = "Label" /\ c[j].target = l
  BY DEF LabelPos
<1> HIDE DEF l
<1>4. LabelPos(c, l) \in DOMAIN c /\ c[LabelPos(c, l)].op = "Label" /\ c[LabelPos(c, l)].target = l
  BY <1>2, <1>3
<1> QED BY <1>4 DEF l, Defines

\* A piece that needs nothing from around it passes verify_function ...
LEMMA PieceVerified ==
  ASSUME NEW clean, NEW c, Piece(clean, c, {}, {}, {}, {}), \E i \in DOMAIN c : c[i].op = "Return"
  PROVE  Verified(c)
<1>1. LabelsOnce(c)
  BY DEF Piece
<1>2. ASSUME NEW i \in DOMAIN c, c[i].op \in Jumps \cup {"PushTry"}
      PROVE  \E j \in DOMAIN c : c[j].op = "Label" /\ c[j].target = c[i].target
  BY <1>2, LeadsTo DEF Uses, Defines
<1> QED BY <1>1, <1>2 DEF Verified, LabelsOnce

\* ... is guarded ...
LEMMA PieceGuarded ==
  ASSUME NEW clean, NEW c, Piece(clean, c, {}, {}, {}, {})
  PROVE  Guarded(c)
<1>1. ItersStarted(c, {}, {}) /\ ElementsTested(c) /\ CatchesSealed(c, {})
  BY DEF Piece
<1>2. ASSUME NEW s \in DOMAIN c, NEW e \in DOMAIN c, Closed(c, s, e, {})
      PROVE  Sealed(c, s, e)
  <2>1. DOMAIN c \subseteq Int
    BY DEF Piece
  <2>2. ASSUME NEW i \in DOMAIN c, Uses(c, i), LabelPos(c, c[i].target) \in s+1 .. e
        PROVE  i \in s+1 .. e
    <3> DEFINE j == LabelPos(c, c[i].target)
    <3>1. j \in DOMAIN c /\ Defines(c, j, c[i].target)
      BY <2>2, LeadsTo
    <3>2. s < j /\ j <= e
      BY <2>1, <2>2
    <3> HIDE DEF j
    <3>3. s < i /\ i <= e
      BY <1>2, <2>2, <3>1, <3>2 DEF Closed
    <3> QED BY <2>1, <3>3
  <2> QED BY <2>2 DEF Sealed, Uses, CatchPos
<1>3. ASSUME NEW u \in DOMAIN c, c[u].op = "IterHasNext"
      PROVE  \E s, e \in DOMAIN c :
               /\ c[s].op = "IterStart" /\ c[s].site = c[u].site
               /\ s < u /\ u <= e
               /\ Sealed(c, s, e)
  BY <1>1, <1>2, <1>3 DEF ItersStarted
<1>4. ASSUME NEW s \in DOMAIN c, c[s].op = "StoreLastError"
      PROVE  /\ s > 2
             /\ c[s-1].op = "Label" /\ c[s-2].op = "Jump"
             /\ \A i \in DOMAIN c : c[i].op \in Jumps => LabelPos(c, c[i].target) # s - 1
  <2>1. /\ s > 2 /\ c[s-1].op = "Label" /\ c[s-2].op = "Jump"
        /\ \A i \in DOMAIN c : c[i].op \in Jumps => c[i].target # c[s-1].target
    BY <1>1, <1>4 DEF CatchesSealed
  <2>2. ASSUME NEW i \in DOMAIN c, c[i].op \in Jumps
        PROVE  LabelPos(c, c[i].target) # s - 1
    <3>1. c[LabelPos(c, c[i].target)].target = c[i].target
      BY <2>2, LeadsTo DEF Uses, Defines
    <3> QED BY <2>1, <2>2, <3>1
  <2> QED BY <2>1, <2>2
<1> QED BY <1>1, <1>3, <1>4 DEF Guarded, ElementsTested

\* ... and is disciplined, when it is clean.
LEMMA PieceDisciplined ==
  ASSUME NEW c, Piece(TRUE, c, {}, {}, {}, {})
  PROVE  Disciplined(c)
<1>1. TriesNest(c) /\ JumpsKeep(c, {}, {})
  BY DEF Piece
<1>2. ASSUME NEW p \in TryPositions(c)
      PROVE  p \in DOMAIN c /\ CatchPos(c, p) \in DOMAIN c /\ Try(c, p, CatchPos(c, p))
  BY <1>2, LeadsTo DEF TryPositions, CatchPos, Try, Uses
<1>3. ASSUME NEW i \in DOMAIN c, c[i].op \in Jumps, NEW p \in TryPositions(c)
      PROVE  LET to == LabelPos(c, c[i].target) IN
             /\ Inside(c, p, to) => Inside(c, p, i)
             /\ Inside(c, p, i) => p < to
  <2> DEFINE to == LabelPos(c, c[i].target)
             k == CatchPos(c, p)
  <2>1. to \in DOMAIN c /\ Defines(c, to, c[i].target)
    BY <1>3, LeadsTo DEF Uses
  <2>2. p \in DOMAIN c /\ k \in DOMAIN c /\ Try(c, p, k)
    BY <1>2
  <2> HIDE DEF to, k
  <2>3. /\ p < to /\ to < k => p < i /\ i < k
        /\ p < i /\ i < k => p < to
    BY <1>1, <1>3, <2>1, <2>2 DEF JumpsKeep
  <2> QED BY <2>3 DEF Inside, to, k
<1>4. \A p \in TryPositions(c) : p < CatchPos(c, p)
  BY <1>1, <1>2 DEF TriesNest
<1>5. \A p, q \in TryPositions(c) :
        p < q /\ q < CatchPos(c, p) => CatchPos(c, q) < CatchPos(c, p)
  BY <1>1, <1>2 DEF TriesNest
<1> QED BY <1>3, <1>4, <1>5 DEF Disciplined

\* verify_function accepts what the emitter makes of any statement tree: no
\* label is there twice, every jump and every handler has its label, and the
\* code returns.
THEOREM EmittedCodeVerifies ==
  ASSUME NEW p, IsTree(p)
  PROVE  Emit(p) \in Seq(Instrs) /\ Verified(Emit(p))
<1>1. /\ Piece(FALSE, Emit(p), {}, {}, {}, {})
      /\ \E i \in DOMAIN Emit(p) : Emit(p)[i].op = "Return"
  BY EmitIsPiece
<1> DEFINE c == Emit(p)
<1> HIDE DEF c
<1>2. Piece(FALSE, c, {}, {}, {}, {}) /\ \E i \in DOMAIN c : c[i].op = "Return"
  BY <1>1 DEF c
<1> QED BY <1>2, PieceVerified, PieceIsCode DEF c

\* The code of every tree has the shape the machine relies on for iterators and
\* catch blocks, and the code of one in which no `continue` leaves a try body
\* has the shape its handler stack relies on.
THEOREM EmittedCodeIsShaped ==
  ASSUME NEW p, IsTree(p)
  PROVE  Guarded(Emit(p)) /\ (~ ContinueLeavesTry(p) => Disciplined(Emit(p)))
<1> DEFINE c == Emit(p)
<1>1. Piece(FALSE, c, {}, {}, {}, {})
  BY EmitIsPiece
<1>2. ~ ContinueLeavesTry(p) => Piece(TRUE, c, {}, {}, {}, {})
  BY EmitIsPiece
<1> HIDE DEF c
<1>3. Guarded(c)
  BY <1>1, PieceGuarded
<1>4. ~ ContinueLeavesTry(p) => Disciplined(c)
  BY <1>2, PieceDisciplined
<1> QED BY <1>3, <1>4 DEF c

\* lower_try, lower_for and the rest of the emitter keep the discipline that
\* EmittedCodeIsDisciplined asks of the code of the trees given, for all trees.
THEOREM EmittedCodeStaysDisciplined == VMSpec => []EmittedCodeIsDisciplined
<1>1. ASSUME code \in Codes PROVE EmittedCodeIsDisciplined
  <2>1. Guarded(code)
    BY <1>1, EmittedAssumption, ProgramsAssumption, EmittedCodeIsShaped
  <2>2. code \in CleanCodes => Disciplined(code)
    BY EmittedAssumption, ProgramsAssumption, EmittedCodeIsShaped DEF CleanCodes
  <2> QED BY <2>1, <2>2 DEF EmittedCodeIsDisciplined
<1>2. Typed => EmittedCodeIsDisciplined
  BY <1>1 DEF Typed
<1> QED BY <1>2, AlwaysTyped, PTL

\* Whatever the functions are that the machine is given, what the emitter made of
\* them is never found malformed: NoInternalError needs no premise on the code.
THEOREM EmittedCodeNeverMalformed == VMSpec => []NoInternalError
<1>1. AllGuarded
  BY EmittedAssumption, ProgramsAssumption, EmittedCodeIsShaped DEF AllGuarded
<1> QED BY <1>1, NeverMalformed

\* The code of clean trees is disciplined.
LEMMA CleanIsDisciplined == code \in CleanCodes => Disciplined(code)
  BY EmittedAssumption, ProgramsAssumption, EmittedCodeIsShaped DEF CleanCodes

\* In every function in which no `continue` leaves a try body, the handler stack
\* is at every moment the try bodies around the pc, innermost last.
THEOREM EmittedHandlersMatch ==
  VMSpec => [](code \in CleanCodes /\ result = "running" => Matches(tryStack, code, pc))
<1>1. HandlersMatch => (code \in CleanCodes /\ result = "running"
                          => Matches(tryStack, code, pc))
  BY CleanIsDisciplined DEF HandlersMatch, Matches
<1> QED BY <1>1, HandlersAlwaysMatch, PTL

\* In every such function an error leaves it only from outside every try body.
THEOREM EmittedErrorsAreCaught ==
  VMSpec => [][result' \in AllErrors \ HostErrors /\ code \in CleanCodes
               => Protecting(code, pc) = {}]_vmVars
<1>1. [Disciplined(code) /\ result' \in AllErrors \ HostErrors
         => Protecting(code, pc) = {}]_vmVars
      => [result' \in AllErrors \ HostErrors /\ code \in CleanCodes
            => Protecting(code, pc) = {}]_vmVars
  BY CleanIsDisciplined
<1> QED BY <1>1, ErrorsAreCaught, PTL DEF ErrorsEscapeOnlyUnprotected

=============================================================================
